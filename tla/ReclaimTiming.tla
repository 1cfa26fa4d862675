---------------------------- MODULE ReclaimTiming ----------------------------
(***************************************************************************)
(* Pending recovery in time (main.go, the reclaim loop; redis.go Reclaim): *)
(* XAUTOCLAIM takes the oldest entries that were idle for minIdle, resets  *)
(* their idle time, and one loop handles them one after the other.  A unit *)
(* of time is a period of the loop's ticker.                               *)
(***************************************************************************)
EXTENDS Naturals, FiniteSets

CONSTANTS
    Reclaimers,     \* the reclaim loop of each process
    Fetchers,       \* the fetch loops
    Messages,       \* stream entries 1..Messages
    Stuck,          \* entries whose Handle leaves them pending every time
    Batch,          \* entries claimed at once (16)
    HandleMax,      \* the longest Handle: JobTimeout, which is the lock TTL
    MinIdle,        \* lock TTL plus slack
    MaxFaults       \* bound: crashes and entries left pending

Loops   == Reclaimers \cup Fetchers
Entries == 1..Messages
Nobody  == "nobody"

ASSUME ReclaimBounds ==
    /\ Messages \in Nat /\ Batch \in Nat \ {0} /\ HandleMax \in Nat
    /\ MinIdle \in Nat /\ HandleMax < MinIdle /\ MaxFaults \in Nat
    /\ Stuck \subseteq Entries
ASSUME LoopsApart == Reclaimers \cap Fetchers = {} /\ Nobody \notin Loops

VARIABLES
    entry,          \* new, pending or acked
    idle,           \* periods since the last delivery, MinIdle for more
    hand,           \* per loop: the entry under Handle, 0 for none
    age,            \* per loop: periods since Handle began
    rest,           \* per loop: claimed entries still to handle
    due,            \* per reclaim loop: its ticker fired
    taker,          \* history: the loop that fetched or claimed an entry last
    begun,          \* history, per loop: periods between its fetch or claim and
                    \* the start of the Handle under way, MinIdle for more
    faults

vars == <<entry, idle, hand, age, rest, due, taker, begun, faults>>

ReclaimTypeOK ==
    /\ entry \in [Entries -> {"new", "pending", "acked"}]
    /\ idle \in [Entries -> 0..MinIdle]
    /\ hand \in [Loops -> 0..Messages]
    /\ age \in [Loops -> 0..HandleMax]
    /\ rest \in [Loops -> SUBSET Entries]
    /\ due \in [Reclaimers -> BOOLEAN]
    /\ taker \in [Entries -> Loops \cup {Nobody}]
    /\ begun \in [Loops -> 0..MinIdle]
    /\ faults \in 0..MaxFaults
    /\ \A w \in Loops : Cardinality(rest[w]) < Batch

Init ==
    /\ entry = [m \in Entries |-> "new"]
    /\ idle = [m \in Entries |-> 0]
    /\ hand = [w \in Loops |-> 0]
    /\ age = [w \in Loops |-> 0]
    /\ rest = [w \in Loops |-> {}]
    /\ due = [r \in Reclaimers |-> FALSE]
    /\ taker = [m \in Entries |-> Nobody]
    /\ begun = [w \in Loops |-> 0]
    /\ faults = 0

\* The n oldest entries of S.
Oldest(S, n) == {m \in S : Cardinality({k \in S : k < m}) < n}

\* Fetch, then Handle.
FetchNew(w, m) ==
    /\ w \in Fetchers /\ hand[w] = 0
    /\ m \in Oldest({k \in Entries : entry[k] = "new"}, 1)
    /\ entry' = [entry EXCEPT ![m] = "pending"]
    /\ idle' = [idle EXCEPT ![m] = 0]
    /\ hand' = [hand EXCEPT ![w] = m]
    /\ age' = [age EXCEPT ![w] = 0]
    /\ taker' = [taker EXCEPT ![m] = w]
    /\ begun' = [begun EXCEPT ![w] = 0]
    /\ UNCHANGED <<rest, due, faults>>

\* Slip: no slack on top of the lock TTL.
ReclaimableTight == {m \in Entries : entry[m] = "pending" /\ idle[m] >= HandleMax}

\* XAUTOCLAIM MinIdle, Start 0-0.
Reclaimable == {m \in Entries : entry[m] = "pending" /\ idle[m] >= MinIdle}

\* Slip: one entry more than asked for.
ClaimedOneMore == Oldest(Reclaimable, Batch + 1)

\* XAUTOCLAIM Count.
Claimed == Oldest(Reclaimable, Batch)

\* A tick of the reclaim loop: claim a batch and handle its first entry.
Reclaim(r) ==
    /\ r \in Reclaimers /\ hand[r] = 0 /\ due[r]
    /\ due' = [due EXCEPT ![r] = FALSE]
    /\ idle' = [m \in Entries |-> IF m \in Claimed THEN 0 ELSE idle[m]]
    /\ taker' = [m \in Entries |-> IF m \in Claimed THEN r ELSE taker[m]]
    /\ \/ Claimed = {} /\ UNCHANGED <<hand, age, rest, begun>>
       \/ \E m \in Oldest(Claimed, 1) :
            /\ hand' = [hand EXCEPT ![r] = m]
            /\ age' = [age EXCEPT ![r] = 0]
            /\ rest' = [rest EXCEPT ![r] = Claimed \ {m}]
            /\ begun' = [begun EXCEPT ![r] = 0]
    /\ UNCHANGED <<entry, faults>>

\* Handle returned: the next entry of the batch, or none.
NextOf(w) ==
    /\ age' = [age EXCEPT ![w] = 0]
    /\ \/ /\ rest[w] # {}
          /\ \E m \in Oldest(rest[w], 1) :
               /\ hand' = [hand EXCEPT ![w] = m]
               /\ rest' = [rest EXCEPT ![w] = @ \ {m}]
          /\ begun' = [begun EXCEPT ![w] = IF @ + age[w] < MinIdle THEN @ + age[w] ELSE MinIdle]
       \/ /\ rest[w] = {}
          /\ hand' = [hand EXCEPT ![w] = 0]
          /\ begun' = [begun EXCEPT ![w] = 0]
          /\ UNCHANGED rest
    /\ UNCHANGED taker

\* Handle settles the entry and acks it.
Settle(w) ==
    /\ hand[w] \notin Stuck \cup {0}
    /\ entry' = [entry EXCEPT ![hand[w]] = "acked"]
    /\ NextOf(w)
    /\ UNCHANGED <<idle, due, faults>>

\* Handle leaves the entry pending: always (OutcomeNoAck, a ready event that
\* cannot be emitted), or this time (a lock conflict, a failed handoff).
Leave(w) ==
    /\ hand[w] # 0
    /\ \/ hand[w] \in Stuck /\ UNCHANGED faults
       \/ hand[w] \notin Stuck /\ faults < MaxFaults /\ faults' = faults + 1
    /\ NextOf(w)
    /\ UNCHANGED <<entry, idle, due>>

\* The process of a loop dies and another one takes its place.
Die(w) ==
    /\ hand[w] # 0
    /\ faults < MaxFaults
    /\ faults' = faults + 1
    /\ hand' = [hand EXCEPT ![w] = 0]
    /\ age' = [age EXCEPT ![w] = 0]
    /\ rest' = [rest EXCEPT ![w] = {}]
    /\ begun' = [begun EXCEPT ![w] = 0]
    /\ UNCHANGED <<entry, idle, due, taker>>

\* Slip: the ticker is not armed again.
PeriodOnce ==
    /\ \A w \in Loops : hand[w] # 0 => age[w] < HandleMax
    /\ \A r \in Reclaimers : due[r] => hand[r] # 0
    /\ due' = [r \in Reclaimers |-> \A m \in Entries : entry[m] = "new"]
    /\ idle' = [m \in Entries |-> IF idle[m] < MinIdle THEN idle[m] + 1 ELSE MinIdle]
    /\ age' = [w \in Loops |-> IF hand[w] # 0 THEN age[w] + 1 ELSE 0]
    /\ UNCHANGED <<entry, hand, rest, taker, begun, faults>>

\* A period passes: Handle ends by its deadline, a loop that is free takes its
\* tick, and a tick that finds its loop busy is kept, once.
Period ==
    /\ \A w \in Loops : hand[w] # 0 => age[w] < HandleMax
    /\ \A r \in Reclaimers : due[r] => hand[r] # 0
    /\ due' = [r \in Reclaimers |-> TRUE]
    /\ idle' = [m \in Entries |-> IF idle[m] < MinIdle THEN idle[m] + 1 ELSE MinIdle]
    /\ age' = [w \in Loops |-> IF hand[w] # 0 THEN age[w] + 1 ELSE 0]
    /\ UNCHANGED <<entry, hand, rest, taker, begun, faults>>

Next ==
    \/ Period
    \/ \E w \in Loops :
         \/ Reclaim(w) \/ Settle(w) \/ Leave(w) \/ Die(w)
         \/ \E m \in Entries : FetchNew(w, m)

Spec == Init /\ [][Next]_vars

\* Time passes, tickers fire, Handle returns.
FairSpec ==
    /\ Spec
    /\ WF_vars(Period)
    /\ \A w \in Loops : /\ WF_vars(Reclaim(w))
                        /\ WF_vars(Settle(w) \/ Leave(w))
                        /\ WF_vars(\E m \in Entries : FetchNew(w, m))

-----------------------------------------------------------------------------

\* main.go: minIdle is the lock TTL "plus slack, so an actively locked job is
\* never stolen".  A Handle that begins early enough to end within minIdle of
\* its loop's fetch or claim keeps its entry to itself: nobody else takes it
\* before the Handle ends.  It covers every fetched entry and the first one of
\* every batch (begun is 0), and the later ones as long as those before them
\* were quick.
PromptJobKept ==
    \A w \in Loops :
        hand[w] # 0 /\ begun[w] + HandleMax < MinIdle => taker[hand[w]] = w

\* processor.go: a message that is not acked "stays pending and pending
\* recovery redelivers it later".  An entry whose Handle can end gets acked,
\* whoever died with it or left it.
RecoveryReaches ==
    \A m \in Entries \ Stuck : entry[m] = "pending" ~> entry[m] = "acked"

\* The comment of main.go without that condition: no entry is under two loops'
\* Handle at once.  With a batch that outlasts minIdle the code does not give
\* this.
OneHandler == \A v, w \in Loops : v # w /\ hand[v] # 0 => hand[v] # hand[w]
=============================================================================

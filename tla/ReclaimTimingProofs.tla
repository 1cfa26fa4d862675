------------------------- MODULE ReclaimTimingProofs -------------------------
(* Proofs about pending recovery in time, for any number of loops, entries,  *)
(* faults, batch size and timing.                                             *)
EXTENDS ReclaimTiming, FiniteSetTheorems, TLAPS

\* Sets of entries are finite.
LEMMA EntriesFinite ==
    ASSUME NEW S \in SUBSET Entries PROVE IsFiniteSet(S) /\ Cardinality(S) \in Nat
<1>1. IsFiniteSet(1..Messages)
  BY FS_Interval, ReclaimBounds
<1> QED BY <1>1, FS_Subset, FS_CardinalityType DEF Entries

\* A set of natural numbers that is not empty has a least one.
LEMMA LeastNatural ==
    ASSUME NEW S \in SUBSET Nat, S # {} PROVE \E n \in S : \A k \in S : n <= k
<1>1. PICK n \in S : \A k \in S : ~(<<k, n>> \in OpToRel(<, Nat))
  BY NatLessThanWellFounded, WFMin
<1>2. ASSUME NEW k \in S PROVE n <= k
  <2>1. n \in Nat /\ k \in Nat
    OBVIOUS
  <2>2. k < n => <<k, n>> \in OpToRel(<, Nat)
    BY <2>1 DEF OpToRel
  <2>3. ~(k < n)
    BY <1>1, <2>2, Zenon
  <2> QED BY <2>1, <2>3
<1> QED BY <1>1, <1>2

\* A set of entries that is not empty has a newest one.
LEMMA NewestEntry ==
    ASSUME NEW S \in SUBSET Entries, S # {} PROVE \E m \in S : \A k \in S : k <= m
<1> DEFINE D == {Messages - m : m \in S}
<1>1. S \subseteq Nat /\ \A m \in S : m <= Messages
  BY ReclaimBounds DEF Entries
<1>2. D \in SUBSET Nat /\ D # {}
  <2>1. \A m \in S : Messages - m \in Nat
    BY <1>1, ReclaimBounds
  <2> QED BY <2>1
<1>3. PICK d \in D : \A c \in D : d <= c
  <2> HIDE DEF D
  <2> QED BY <1>2, LeastNatural
<1>4. PICK m \in S : d = Messages - m
  BY <1>3
<1>5. ASSUME NEW k \in S PROVE k <= m
  <2>1. Messages - k \in D
    OBVIOUS
  <2>2. Messages - m <= Messages - k
    BY <1>3, <1>4, <2>1
  <2>3. k \in Nat /\ m \in Nat /\ Messages \in Nat
    BY <1>1, <1>4, ReclaimBounds
  <2> QED BY <2>2, <2>3
<1> QED BY <1>4, <1>5

\* XAUTOCLAIM Count n returns at most n entries.
LEMMA OldestBound ==
    ASSUME NEW S \in SUBSET Entries, NEW n \in Nat
    PROVE  Oldest(S, n) \subseteq S /\ Cardinality(Oldest(S, n)) <= n
<1> DEFINE T == Oldest(S, n)
<1>1. T \subseteq S /\ T \in SUBSET Entries
  BY DEF Oldest
<1>2. CASE T = {}
  BY <1>1, <1>2, FS_EmptySet
<1>3. CASE T # {}
  <2>1. PICK m \in T : \A k \in T : k <= m
    BY <1>1, <1>3, NewestEntry
  <2> DEFINE B == {k \in S : k < m}
  <2>2. T \ {m} \subseteq B /\ B \in SUBSET Entries
    <3>1. \A k \in T : k \in Nat
      BY <1>1 DEF Entries
    <3> QED BY <1>1, <2>1, <3>1
  <2>3. Cardinality(B) < n
    BY <2>1 DEF Oldest
  <2>4. IsFiniteSet(T) /\ IsFiniteSet(B) /\ Cardinality(T) \in Nat /\ Cardinality(B) \in Nat
    BY <1>1, <2>2, EntriesFinite
  <2> HIDE DEF T, B
  <2>5. Cardinality(T \ {m}) <= Cardinality(B)
    BY <2>2, <2>4, FS_Subset
  <2>6. Cardinality(T \ {m}) = Cardinality(T) - 1
    BY <2>1, <2>4, FS_RemoveElement
  <2>7. Cardinality(T) <= n
    BY <2>3, <2>4, <2>5, <2>6
  <2> QED BY <1>1, <2>7 DEF T
<1> QED BY <1>2, <1>3

\* Taking one entry out of a set.
LEMMA OneLess ==
    ASSUME NEW S \in SUBSET Entries, NEW m \in S
    PROVE  /\ Cardinality(S \ {m}) = Cardinality(S) - 1 /\ Cardinality(S) \in Nat \ {0}
           /\ Cardinality(S \ {m}) \in Nat
  BY EntriesFinite, FS_RemoveElement

\* The timing of a loop moves on: the next entry of its batch, or none.
LEMMA NextOfType ==
    ASSUME ReclaimTypeOK, NEW w \in Loops, NextOf(w)
    PROVE  /\ hand' \in [Loops -> 0..Messages] /\ rest' \in [Loops -> SUBSET Entries]
           /\ \A v \in Loops : v # w => hand'[v] = hand[v] /\ rest'[v] = rest[v]
           /\ \/ hand'[w] \in rest[w] /\ rest'[w] = rest[w] \ {hand'[w]}
              \/ rest[w] = {} /\ hand'[w] = 0 /\ rest'[w] = {}
           /\ Cardinality(rest[w]) \in Nat /\ Cardinality(rest'[w]) <= Cardinality(rest[w])
           /\ Cardinality(rest'[w]) \in Nat
<1>0. rest[w] \in SUBSET Entries
  BY DEF ReclaimTypeOK
<1>1. CASE rest[w] # {}
  <2>1. PICK m \in Oldest(rest[w], 1) : /\ hand' = [hand EXCEPT ![w] = m]
                                        /\ rest' = [rest EXCEPT ![w] = @ \ {m}]
    BY <1>1 DEF NextOf
  <2>2. m \in rest[w] /\ m \in 0..Messages
    BY <1>0, <2>1, ReclaimBounds DEF Oldest, Entries
  <2>3. /\ hand' \in [Loops -> 0..Messages] /\ rest' \in [Loops -> SUBSET Entries]
        /\ hand'[w] = m /\ rest'[w] = rest[w] \ {m}
        /\ \A v \in Loops : v # w => hand'[v] = hand[v] /\ rest'[v] = rest[v]
    BY <2>1, <2>2 DEF ReclaimTypeOK
  <2>4. /\ Cardinality(rest[w] \ {m}) = Cardinality(rest[w]) - 1
        /\ Cardinality(rest[w]) \in Nat \ {0} /\ Cardinality(rest[w] \ {m}) \in Nat
    BY <1>0, <2>2, OneLess
  <2>5. /\ Cardinality(rest'[w]) <= Cardinality(rest[w])
        /\ Cardinality(rest[w]) \in Nat /\ Cardinality(rest'[w]) \in Nat
    BY <2>3, <2>4
  <2> QED BY <2>2, <2>3, <2>5
<1>2. CASE rest[w] = {}
  <2>1. hand' = [hand EXCEPT ![w] = 0] /\ rest' = rest
    BY <1>2 DEF NextOf
  <2>2. Cardinality({}) \in Nat /\ Cardinality({}) <= Cardinality({})
    BY FS_EmptySet
  <2>3. /\ hand' \in [Loops -> 0..Messages] /\ rest' \in [Loops -> SUBSET Entries]
        /\ hand'[w] = 0 /\ rest'[w] = {}
        /\ \A v \in Loops : v # w => hand'[v] = hand[v] /\ rest'[v] = rest[v]
    BY <1>2, <2>1, ReclaimBounds DEF ReclaimTypeOK
  <2> QED BY <1>2, <2>2, <2>3
<1> QED BY <1>1, <1>2

\* What Handle's return leaves of the clocks: the time since the loop's claim
\* is kept, as long as it is below minIdle.
LEMMA NextOfClock ==
    ASSUME ReclaimTypeOK, NEW w \in Loops, NextOf(w)
    PROVE  /\ age' \in [Loops -> 0..HandleMax] /\ begun' \in [Loops -> 0..MinIdle]
           /\ taker' = taker
           /\ \A v \in Loops : v # w => age'[v] = age[v] /\ begun'[v] = begun[v]
           /\ age'[w] = 0
           /\ rest[w] # {} => \/ begun'[w] = begun[w] + age[w]
                              \/ begun'[w] = MinIdle
<1>1. age' = [age EXCEPT ![w] = 0] /\ taker' = taker
  BY DEF NextOf
<1>2. \/ rest[w] = {} /\ begun' = [begun EXCEPT ![w] = 0]
      \/ /\ begun[w] + age[w] < MinIdle
         /\ begun' = [begun EXCEPT ![w] = begun[w] + age[w]]
      \/ begun' = [begun EXCEPT ![w] = MinIdle]
  BY DEF NextOf
<1>3. begun[w] \in Nat /\ age[w] \in Nat
  BY ReclaimBounds DEF ReclaimTypeOK
<1> QED BY <1>1, <1>2, <1>3, ReclaimBounds DEF ReclaimTypeOK

\* What a reclaim tick claims.
LEMMA ClaimedType ==
    ASSUME ReclaimTypeOK
    PROVE  /\ Claimed \in SUBSET Entries /\ Claimed \subseteq Reclaimable
           /\ Cardinality(Claimed) <= Batch
<1>1. Reclaimable \in SUBSET Entries
  BY DEF Reclaimable
<1>2. Oldest(Reclaimable, Batch) \subseteq Reclaimable /\ Cardinality(Oldest(Reclaimable, Batch)) <= Batch
  BY <1>1, OldestBound, ReclaimBounds
<1> QED BY <1>1, <1>2 DEF Claimed

\* A reclaim tick that claims something handles its first entry.
LEMMA ReclaimType ==
    ASSUME ReclaimTypeOK, NEW r \in Loops, Reclaim(r)
    PROVE  /\ hand' \in [Loops -> 0..Messages] /\ rest' \in [Loops -> SUBSET Entries]
           /\ age' \in [Loops -> 0..HandleMax] /\ idle' \in [Entries -> 0..MinIdle]
           /\ due' \in [Reclaimers -> BOOLEAN] /\ UNCHANGED <<entry, faults>>
           /\ taker' \in [Entries -> Loops \cup {Nobody}] /\ begun' \in [Loops -> 0..MinIdle]
           /\ \A m \in Entries : /\ idle'[m] = IF m \in Claimed THEN 0 ELSE idle[m]
                                 /\ taker'[m] = IF m \in Claimed THEN r ELSE taker[m]
           /\ \A v \in Loops : v # r => /\ hand'[v] = hand[v] /\ rest'[v] = rest[v]
                                        /\ age'[v] = age[v] /\ begun'[v] = begun[v]
           /\ \/ Claimed = {} /\ UNCHANGED <<hand, age, rest, begun>>
              \/ /\ hand'[r] \in Claimed /\ rest'[r] = Claimed \ {hand'[r]}
                 /\ age'[r] = 0 /\ begun'[r] = 0
                 /\ Cardinality(rest'[r]) \in Nat /\ Cardinality(rest'[r]) < Batch
<1>1. /\ r \in Reclaimers
      /\ due' = [due EXCEPT ![r] = FALSE]
      /\ idle' = [m \in Entries |-> IF m \in Claimed THEN 0 ELSE idle[m]]
      /\ taker' = [m \in Entries |-> IF m \in Claimed THEN r ELSE taker[m]]
      /\ UNCHANGED <<entry, faults>>
  BY DEF Reclaim
<1>2. due' \in [Reclaimers -> BOOLEAN]
  BY <1>1 DEF ReclaimTypeOK
<1>3. /\ idle' \in [Entries -> 0..MinIdle]
      /\ taker' \in [Entries -> Loops \cup {Nobody}]
      /\ \A m \in Entries : /\ idle'[m] = IF m \in Claimed THEN 0 ELSE idle[m]
                            /\ taker'[m] = IF m \in Claimed THEN r ELSE taker[m]
  BY <1>1, ReclaimBounds DEF ReclaimTypeOK
<1>4. CASE Claimed = {} /\ UNCHANGED <<hand, age, rest, begun>>
  BY <1>1, <1>2, <1>3, <1>4 DEF ReclaimTypeOK
<1>5. ASSUME NEW m \in Oldest(Claimed, 1),
             hand' = [hand EXCEPT ![r] = m],
             age' = [age EXCEPT ![r] = 0],
             rest' = [rest EXCEPT ![r] = Claimed \ {m}],
             begun' = [begun EXCEPT ![r] = 0]
      PROVE  /\ hand' \in [Loops -> 0..Messages] /\ rest' \in [Loops -> SUBSET Entries]
             /\ age' \in [Loops -> 0..HandleMax] /\ begun' \in [Loops -> 0..MinIdle]
             /\ \A v \in Loops : v # r => /\ hand'[v] = hand[v] /\ rest'[v] = rest[v]
                                          /\ age'[v] = age[v] /\ begun'[v] = begun[v]
             /\ hand'[r] \in Claimed /\ rest'[r] = Claimed \ {hand'[r]}
             /\ age'[r] = 0 /\ begun'[r] = 0
             /\ Cardinality(rest'[r]) \in Nat /\ Cardinality(rest'[r]) < Batch
  <2>1. m \in Claimed /\ m \in Entries /\ m \in 0..Messages
    BY <1>5, ClaimedType, ReclaimBounds DEF Oldest, Entries
  <2>2. Claimed \ {m} \in SUBSET Entries /\ 0 \in 0..HandleMax /\ 0 \in 0..MinIdle
    BY ClaimedType, ReclaimBounds
  <2>3. /\ Cardinality(Claimed \ {m}) = Cardinality(Claimed) - 1 /\ Cardinality(Claimed) \in Nat \ {0}
        /\ Cardinality(Claimed \ {m}) \in Nat
    BY <2>1, ClaimedType, OneLess
  <2>4. Cardinality(Claimed \ {m}) < Batch
    BY <2>3, ClaimedType, ReclaimBounds
  <2>5. /\ hand' \in [Loops -> 0..Messages] /\ hand'[r] = m
        /\ rest' \in [Loops -> SUBSET Entries] /\ rest'[r] = Claimed \ {m}
        /\ age' \in [Loops -> 0..HandleMax] /\ age'[r] = 0
        /\ begun' \in [Loops -> 0..MinIdle] /\ begun'[r] = 0
        /\ \A v \in Loops : v # r => /\ hand'[v] = hand[v] /\ rest'[v] = rest[v]
                                     /\ age'[v] = age[v] /\ begun'[v] = begun[v]
    BY <1>5, <2>1, <2>2 DEF ReclaimTypeOK
  <2> QED BY <2>1, <2>3, <2>4, <2>5
<1> QED BY <1>1, <1>2, <1>3, <1>4, <1>5 DEF Reclaim

-----------------------------------------------------------------------------
(* Type correctness *)

\* Every step keeps the types.
LEMMA ReclaimTypeStep == ReclaimTypeOK /\ [Next]_vars => ReclaimTypeOK'
<1> SUFFICES ASSUME ReclaimTypeOK, [Next]_vars PROVE ReclaimTypeOK'
  OBVIOUS
<1>1. CASE Period
  <2>1. idle' \in [Entries -> 0..MinIdle]
    BY <1>1, ReclaimBounds DEF Period, ReclaimTypeOK
  <2>2. age' \in [Loops -> 0..HandleMax]
    BY <1>1, ReclaimBounds DEF Period, ReclaimTypeOK
  <2> QED BY <1>1, <2>1, <2>2 DEF Period, ReclaimTypeOK
<1>2. ASSUME NEW w \in Loops, Reclaim(w) PROVE ReclaimTypeOK'
  <2>1. \A v \in Loops : Cardinality(rest'[v]) < Batch
    BY <1>2, ReclaimType DEF ReclaimTypeOK
  <2> QED BY <1>2, <2>1, ReclaimType DEF ReclaimTypeOK
<1>3. ASSUME NEW w \in Loops, Settle(w) \/ Leave(w) PROVE ReclaimTypeOK'
  <2>1. NextOf(w) /\ UNCHANGED <<idle, due>> /\ hand[w] # 0
    BY <1>3 DEF Settle, Leave
  <2>2. entry' \in [Entries -> {"new", "pending", "acked"}] /\ faults' \in 0..MaxFaults
    BY <1>3, ReclaimBounds DEF Settle, Leave, ReclaimTypeOK
  <2>3. age' \in [Loops -> 0..HandleMax] /\ begun' \in [Loops -> 0..MinIdle] /\ taker' = taker
    BY <2>1, NextOfClock
  <2>4. \A v \in Loops : Cardinality(rest'[v]) < Batch
    <3>1. \A v \in Loops : v # w => rest'[v] = rest[v]
      BY <2>1, NextOfType
    <3>2. /\ Cardinality(rest'[w]) <= Cardinality(rest[w]) /\ Cardinality(rest[w]) \in Nat
          /\ Cardinality(rest'[w]) \in Nat
      BY <2>1, NextOfType
    <3> QED BY <3>1, <3>2, ReclaimBounds DEF ReclaimTypeOK
  <2> QED BY <2>1, <2>2, <2>3, <2>4, NextOfType DEF ReclaimTypeOK
<1>4. ASSUME NEW w \in Loops, Die(w) PROVE ReclaimTypeOK'
  <2>1. \A v \in Loops : rest'[v] = IF v = w THEN {} ELSE rest[v]
    BY <1>4 DEF Die, ReclaimTypeOK
  <2>2. \A v \in Loops : Cardinality(rest'[v]) < Batch
    BY <2>1, FS_EmptySet, ReclaimBounds DEF ReclaimTypeOK
  <2> QED BY <1>4, <2>2, ReclaimBounds DEF Die, ReclaimTypeOK
<1>5. ASSUME NEW w \in Loops, NEW m \in Entries, FetchNew(w, m) PROVE ReclaimTypeOK'
  BY <1>5, ReclaimBounds DEF FetchNew, ReclaimTypeOK, Entries
<1>6. CASE UNCHANGED vars
  BY <1>6 DEF vars, ReclaimTypeOK
<1> QED BY <1>1, <1>2, <1>3, <1>4, <1>5, <1>6 DEF Next

\* Type correctness of pending recovery: a batch never holds more than Count
\* entries, and no Handle is older than its deadline (redis.go, main.go).
THEOREM ReclaimTypeCorrect == Spec => []ReclaimTypeOK
<1>1. Init => ReclaimTypeOK
  BY FS_EmptySet, ReclaimBounds DEF Init, ReclaimTypeOK
<1> QED BY <1>1, ReclaimTypeStep, PTL DEF Spec

-----------------------------------------------------------------------------
(* When no entry is stolen *)

\* The entries a loop has in hand or will handle.
Held(w) == (rest[w] \cup {hand[w]}) \ {0}

\* A loop that handles nothing has nothing waiting.
FreeHasNone == \A w \in Loops : hand[w] = 0 => rest[w] = {}

\* What is held was delivered.
HeldDelivered == \A w \in Loops : \A m \in Held(w) : entry[m] # "new"

\* Until minIdle has passed since its fetch or claim, all a loop holds is still
\* its own, and has been idle no longer than that.
HeldRecently ==
    \A w \in Loops : \A m \in Held(w) :
        begun[w] + age[w] < MinIdle => taker[m] = w /\ idle[m] <= begun[w] + age[w]

HeldInv == FreeHasNone /\ HeldDelivered /\ HeldRecently

\* What is held is an entry.
LEMMA HeldType ==
    ASSUME ReclaimTypeOK, NEW w \in Loops PROVE Held(w) \subseteq Entries
  BY ReclaimBounds DEF ReclaimTypeOK, Held, Entries

\* The clocks of a loop are numbers.
LEMMA ClockType ==
    ASSUME ReclaimTypeOK, NEW w \in Loops
    PROVE  begun[w] \in Nat /\ age[w] \in Nat /\ age[w] <= HandleMax
  BY ReclaimBounds DEF ReclaimTypeOK

\* A Handle that begins early ends before its entry can be claimed.
LEMMA HeldInvSuffices == ReclaimTypeOK /\ HeldInv => PromptJobKept
<1> SUFFICES ASSUME ReclaimTypeOK, HeldInv, NEW w \in Loops, hand[w] # 0,
                    begun[w] + HandleMax < MinIdle
             PROVE  taker[hand[w]] = w
  BY DEF PromptJobKept
<1>1. begun[w] + age[w] < MinIdle
  BY ClockType, ReclaimBounds
<1> QED BY <1>1 DEF HeldInv, HeldRecently, Held

\* Time passes.
LEMMA HeldInvPeriod ==
    ASSUME ReclaimTypeOK, HeldInv, Period PROVE HeldInv'
<1>1. UNCHANGED <<entry, hand, rest, taker, begun>>
  BY DEF Period
<1>2. \A w \in Loops : Held(w)' = Held(w)
  BY <1>1 DEF Held
<1>3. HeldRecently'
  <2> SUFFICES ASSUME NEW w \in Loops, NEW m \in Held(w), begun[w] + age'[w] < MinIdle
               PROVE  taker[m] = w /\ idle'[m] <= begun[w] + age'[w]
    BY <1>1, <1>2 DEF HeldRecently
  <2>1. hand[w] # 0 /\ m \in Entries
    BY HeldType DEF HeldInv, FreeHasNone, Held
  <2>2. age'[w] = age[w] + 1
    BY <2>1 DEF Period
  <2>3. idle[m] \in Nat /\ (idle'[m] = idle[m] + 1 \/ idle[m] >= MinIdle)
    BY <2>1, ReclaimBounds DEF Period, ReclaimTypeOK
  <2>4. taker[m] = w /\ idle[m] <= begun[w] + age[w]
    BY <2>2, ClockType, ReclaimBounds DEF HeldInv, HeldRecently
  <2> QED BY <2>2, <2>3, <2>4, ClockType, ReclaimBounds
<1> QED BY <1>1, <1>2, <1>3 DEF HeldInv, FreeHasNone, HeldDelivered

\* XAUTOCLAIM takes no entry held for less than minIdle.
LEMMA HeldInvReclaim ==
    ASSUME ReclaimTypeOK, HeldInv, NEW r \in Loops, Reclaim(r) PROVE HeldInv'
<1>1. /\ hand[r] = 0 /\ rest[r] = {} /\ entry' = entry /\ Held(r) = {}
  BY DEF Reclaim, HeldInv, FreeHasNone, Held
<1>2. Claimed \in SUBSET Entries /\ \A m \in Claimed : entry[m] = "pending" /\ idle[m] >= MinIdle
  BY ClaimedType DEF Reclaimable
<1>3. ASSUME NEW v \in Loops, NEW m \in Held(v), begun[v] + age[v] < MinIdle
      PROVE  m \notin Claimed
  <2>1. idle[m] <= begun[v] + age[v] /\ m \in Entries
    BY <1>3, HeldType DEF HeldInv, HeldRecently
  <2>2. idle[m] \in Nat
    BY <2>1, ReclaimBounds DEF ReclaimTypeOK
  <2> QED BY <1>2, <1>3, <2>1, <2>2, ClockType, ReclaimBounds
<1>4. /\ \A v \in Loops : v # r => /\ hand'[v] = hand[v] /\ rest'[v] = rest[v]
                                    /\ age'[v] = age[v] /\ begun'[v] = begun[v]
                                    /\ Held(v)' = Held(v)
      /\ \A m \in Entries : /\ idle'[m] = IF m \in Claimed THEN 0 ELSE idle[m]
                            /\ taker'[m] = IF m \in Claimed THEN r ELSE taker[m]
  BY ReclaimType DEF Held
<1>5. ASSUME NEW v \in Loops, v # r, NEW m \in Held(v), begun[v] + age[v] < MinIdle
      PROVE  taker'[m] = v /\ idle'[m] <= begun[v] + age[v]
  BY <1>3, <1>4, <1>5, HeldType DEF HeldInv, HeldRecently
<1>6. CASE Claimed = {} /\ UNCHANGED <<hand, age, rest, begun>>
  <2>1. Held(r)' = {}
    BY <1>1, <1>6 DEF Held
  <2> QED BY <1>1, <1>4, <1>5, <1>6, <2>1 DEF HeldInv, FreeHasNone, HeldDelivered, HeldRecently
<1>7. CASE /\ hand'[r] \in Claimed /\ rest'[r] = Claimed \ {hand'[r]}
           /\ age'[r] = 0 /\ begun'[r] = 0
  <2>1. Held(r)' = Claimed /\ hand'[r] # 0
    BY <1>2, <1>7 DEF Held, Entries
  <2>2. \A m \in Claimed : taker'[m] = r /\ idle'[m] <= begun'[r] + age'[r]
    BY <1>2, <1>4, <1>7
  <2>3. FreeHasNone'
    BY <1>4, <2>1 DEF HeldInv, FreeHasNone
  <2>4. HeldDelivered'
    BY <1>1, <1>2, <1>4, <2>1 DEF HeldInv, HeldDelivered
  <2>5. HeldRecently'
    BY <1>4, <1>5, <2>1, <2>2 DEF HeldRecently
  <2> QED BY <2>3, <2>4, <2>5 DEF HeldInv
<1> QED BY <1>6, <1>7, ReclaimType

\* Handle returns, and the next entry of the batch begins.
LEMMA HeldInvHandle ==
    ASSUME ReclaimTypeOK, HeldInv, NEW w \in Loops, Settle(w) \/ Leave(w)
    PROVE  HeldInv'
<1>1. NextOf(w) /\ idle' = idle /\ taker' = taker
  BY NextOfClock DEF Settle, Leave
<1>2. \A m \in Entries : entry[m] # "new" => entry'[m] # "new"
  BY DEF Settle, Leave, ReclaimTypeOK
<1>3. \A v \in Loops : v # w => /\ hand'[v] = hand[v] /\ rest'[v] = rest[v] /\ age'[v] = age[v]
                               /\ begun'[v] = begun[v] /\ Held(v)' = Held(v)
  <2>1. \A v \in Loops : v # w => hand'[v] = hand[v] /\ rest'[v] = rest[v]
    BY <1>1, NextOfType
  <2>2. \A v \in Loops : v # w => age'[v] = age[v] /\ begun'[v] = begun[v]
    BY <1>1, NextOfClock
  <2> QED BY <2>1, <2>2 DEF Held
<1>4. rest[w] \subseteq Entries /\ 0 \notin Entries
  BY DEF ReclaimTypeOK, Entries
<1>5. Held(w)' \subseteq Held(w) /\ (hand'[w] = 0 => rest'[w] = {}) /\ (rest[w] = {} => Held(w)' = {})
  BY <1>1, <1>4, NextOfType DEF Held
<1>6. ASSUME NEW m \in Held(w)', begun'[w] + age'[w] < MinIdle
      PROVE  taker[m] = w /\ idle[m] <= begun'[w] + age'[w]
  <2>1. age'[w] = 0 /\ rest[w] # {}
    BY <1>1, <1>5, <1>6, NextOfClock
  <2>2. begun'[w] = begun[w] + age[w]
    BY <1>1, <1>6, <2>1, NextOfClock, ReclaimBounds
  <2>3. taker[m] = w /\ idle[m] <= begun[w] + age[w]
    BY <1>5, <1>6, <2>1, <2>2, ClockType DEF HeldInv, HeldRecently
  <2> QED BY <2>1, <2>2, <2>3, ClockType
<1>7. FreeHasNone'
  BY <1>3, <1>5 DEF HeldInv, FreeHasNone
<1>8. HeldDelivered'
  BY <1>2, <1>3, <1>5, HeldType DEF HeldInv, HeldDelivered
<1>9. HeldRecently'
  BY <1>1, <1>3, <1>6 DEF HeldInv, HeldRecently
<1> QED BY <1>7, <1>8, <1>9 DEF HeldInv

\* A loop dies with what it holds.
LEMMA HeldInvDie ==
    ASSUME ReclaimTypeOK, HeldInv, NEW w \in Loops, Die(w) PROVE HeldInv'
<1>1. \A v \in Loops : /\ hand'[v] = (IF v = w THEN 0 ELSE hand[v])
                       /\ rest'[v] = (IF v = w THEN {} ELSE rest[v])
                       /\ v # w => age'[v] = age[v] /\ begun'[v] = begun[v]
  BY DEF Die, ReclaimTypeOK
<1>2. UNCHANGED <<entry, idle, taker>>
  BY DEF Die
<1>3. \A v \in Loops : Held(v)' = IF v = w THEN {} ELSE Held(v)
  BY <1>1 DEF Held
<1> QED BY <1>1, <1>2, <1>3 DEF HeldInv, FreeHasNone, HeldDelivered, HeldRecently

\* A fetch takes a new entry, which nobody holds.
LEMMA HeldInvFetch ==
    ASSUME ReclaimTypeOK, HeldInv, NEW w \in Loops, NEW m \in Entries, FetchNew(w, m)
    PROVE  HeldInv'
<1>1. hand[w] = 0 /\ rest[w] = {} /\ entry[m] = "new" /\ rest' = rest
  BY DEF FetchNew, Oldest, HeldInv, FreeHasNone
<1>2. /\ \A v \in Loops : v # w => hand'[v] = hand[v] /\ age'[v] = age[v] /\ begun'[v] = begun[v]
      /\ hand'[w] = m /\ age'[w] = 0 /\ begun'[w] = 0
      /\ \A k \in Entries :
            k # m => entry'[k] = entry[k] /\ idle'[k] = idle[k] /\ taker'[k] = taker[k]
      /\ entry'[m] = "pending" /\ idle'[m] = 0 /\ taker'[m] = w /\ m # 0
  BY DEF FetchNew, ReclaimTypeOK, Entries
<1>3. /\ \A v \in Loops : v # w => Held(v)' = Held(v)
      /\ Held(w)' = {m}
  BY <1>1, <1>2 DEF Held
<1>4. \A v \in Loops : m \notin Held(v) /\ Held(v) \subseteq Entries
  BY <1>1, HeldType DEF HeldInv, HeldDelivered
<1>5. FreeHasNone'
  BY <1>1, <1>2, <1>3, <1>4 DEF HeldInv, FreeHasNone
<1>6. HeldDelivered'
  BY <1>2, <1>3, <1>4 DEF HeldInv, HeldDelivered
<1>7. HeldRecently'
  <2>1. taker'[m] = w /\ idle'[m] <= begun'[w] + age'[w]
    BY <1>2
  <2>2. ASSUME NEW v \in Loops, v # w, NEW k \in Held(v), begun'[v] + age'[v] < MinIdle
        PROVE  taker'[k] = v /\ idle'[k] <= begun'[v] + age'[v]
    BY <1>2, <1>4, <2>2 DEF HeldInv, HeldRecently
  <2> QED BY <1>3, <2>1, <2>2 DEF HeldRecently
<1> QED BY <1>5, <1>6, <1>7 DEF HeldInv

\* Every step keeps what a loop holds its own for minIdle.
LEMMA HeldInvStep ==
    ASSUME ReclaimTypeOK, HeldInv, [Next]_vars PROVE HeldInv'
<1>1. CASE UNCHANGED vars
  <2>1. UNCHANGED <<entry, idle, hand, age, rest, taker, begun>>
    BY <1>1 DEF vars
  <2>2. \A w \in Loops : Held(w)' = Held(w)
    BY <2>1 DEF Held
  <2> QED BY <2>1, <2>2 DEF HeldInv, FreeHasNone, HeldDelivered, HeldRecently
<1> QED BY <1>1, HeldInvPeriod, HeldInvReclaim, HeldInvHandle, HeldInvDie, HeldInvFetch DEF Next

\* What main.go's "an actively locked job is never stolen" comes to, for any
\* number of processes and loops, any batch size and any timing with minIdle
\* above the lock TTL: a Handle that begins early enough after its loop's fetch
\* or claim keeps its entry until it ends.
THEOREM PromptJobNeverStolen == Spec => []PromptJobKept
<1>1. Init => HeldInv
  BY DEF Init, HeldInv, FreeHasNone, HeldDelivered, HeldRecently, Held
<1>2. ReclaimTypeOK /\ HeldInv /\ [Next]_vars => HeldInv'
  BY HeldInvStep
<1> QED BY <1>1, <1>2, ReclaimTypeCorrect, HeldInvSuffices, PTL DEF Spec
=============================================================================

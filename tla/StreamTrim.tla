----------------------------- MODULE StreamTrim -----------------------------
(***************************************************************************)
(* Retention trimming of the main stream (internal/queue/trim.go, the      *)
(* retention loop of cmd/export-worker).  Every worker runs TrimMain on    *)
(* its own: it reads the oldest pending entry, then the group's            *)
(* last-delivered id, then trims below the smallest of these and of the    *)
(* retention horizon.  Producers and consumers go on between its calls.    *)
(***************************************************************************)
EXTENDS Naturals

CONSTANTS
    Workers,            \* worker processes, each with a retention loop
    MaxEntries          \* entries appended in a behaviour

ASSUME MaxEntriesType == MaxEntries \in Nat

VARIABLES
    appended,           \* ids 1..appended were appended
    trimmed,            \* ids below this one were removed
    lastDelivered,      \* the group's last-delivered id
    pending,            \* delivered and not acked
    stage,              \* per worker: the next call of TrimMain
    minID,              \* per worker: the bound computed so far
    late                \* per worker (history): the entries delivered between
                        \* the two reads of its pass

vars == <<appended, trimmed, lastDelivered, pending, stage, minID, late>>

TrimTypeOK ==
    /\ appended \in 0..MaxEntries
    /\ trimmed \in 1..(MaxEntries + 1)
    /\ lastDelivered \in 0..appended
    /\ pending \subseteq 1..lastDelivered
    /\ stage \in [Workers -> {"idle", "group", "trim"}]
    /\ minID \in [Workers -> 0..(MaxEntries + 1)]
    /\ late \in [Workers -> SUBSET (1..lastDelivered)]

Init ==
    /\ appended = 0
    /\ trimmed = 1
    /\ lastDelivered = 0
    /\ pending = {}
    /\ stage = [w \in Workers |-> "idle"]
    /\ minID = [w \in Workers |-> 0]
    /\ late = [w \in Workers |-> {}]

\* XADD by a producer or a dispatcher.
AppendEntry ==
    /\ appended < MaxEntries
    /\ appended' = appended + 1
    /\ UNCHANGED <<trimmed, lastDelivered, pending, stage, minID, late>>

\* XREADGROUP >: the next entry still in the stream becomes pending.
Deliver ==
    /\ \E id \in 1..appended :
         /\ id > lastDelivered /\ id >= trimmed
         /\ \A k \in 1..appended : k > lastDelivered /\ k >= trimmed => id <= k
         /\ lastDelivered' = id
         /\ pending' = pending \cup {id}
         /\ late' = [w \in Workers |->
                        IF stage[w] = "group" THEN late[w] \cup {id} ELSE late[w]]
    /\ UNCHANGED <<appended, trimmed, stage, minID>>

\* XACK
AckEntry ==
    /\ \E id \in pending : pending' = pending \ {id}
    /\ UNCHANGED <<appended, trimmed, lastDelivered, stage, minID, late>>

\* minStreamID
MinStreamID(a, b) == IF b < a THEN b ELSE a

\* nextStreamID: ids are modelled by their rank in the stream.
NextStreamID(id) == id + 1

\* Slip: the upper end of XPENDING instead of the lower one.
ReadPendingHigher(w) ==
    /\ stage[w] = "idle"
    /\ \E horizon \in 1..(appended + 1) :
         minID' = [minID EXCEPT ![w] =
             IF pending = {} THEN horizon
             ELSE MinStreamID(horizon, CHOOSE id \in pending : \A k \in pending : k <= id)]
    /\ stage' = [stage EXCEPT ![w] = "group"]
    /\ UNCHANGED <<appended, trimmed, lastDelivered, pending, late>>

\* TrimMain: the horizon, any id the retention period may have reached, and
\* XPENDING, whose lower end is the oldest pending entry.
ReadPending(w) ==
    /\ stage[w] = "idle"
    /\ \E horizon \in 1..(appended + 1) :
         \E bound \in 1..(appended + 1) :
            /\ \/ pending = {} /\ bound = horizon
               \/ \E lower \in pending :
                    /\ \A id \in pending : lower <= id
                    /\ bound = MinStreamID(horizon, lower)
            /\ minID' = [minID EXCEPT ![w] = bound]
    /\ stage' = [stage EXCEPT ![w] = "group"]
    /\ UNCHANGED <<appended, trimmed, lastDelivered, pending, late>>

\* Slip: the group's position is not taken into account.
ReadGroupIgnored(w) ==
    /\ stage[w] = "group"
    /\ stage' = [stage EXCEPT ![w] = "trim"]
    /\ UNCHANGED <<appended, trimmed, lastDelivered, pending, minID, late>>

\* TrimMain: XINFO GROUPS; nothing past the last-delivered entry is trimmed.
ReadGroup(w) ==
    /\ stage[w] = "group"
    /\ minID' = [minID EXCEPT ![w] = MinStreamID(@, NextStreamID(lastDelivered))]
    /\ stage' = [stage EXCEPT ![w] = "trim"]
    /\ UNCHANGED <<appended, trimmed, lastDelivered, pending, late>>

\* Slip: the entry at the bound is trimmed too.
TrimInclusive(w) ==
    /\ stage[w] = "trim"
    /\ trimmed' = IF minID[w] >= trimmed THEN minID[w] + 1 ELSE trimmed
    /\ stage' = [stage EXCEPT ![w] = "idle"]
    /\ late' = [late EXCEPT ![w] = {}]
    /\ UNCHANGED <<appended, lastDelivered, pending, minID>>

\* TrimMain: XTRIM MINID; trimming is idempotent.
Trim(w) ==
    /\ stage[w] = "trim"
    /\ trimmed' = IF minID[w] > trimmed THEN minID[w] ELSE trimmed
    /\ stage' = [stage EXCEPT ![w] = "idle"]
    /\ late' = [late EXCEPT ![w] = {}]
    /\ UNCHANGED <<appended, lastDelivered, pending, minID>>

\* A call of TrimMain fails, or its process dies: the pass ends.
TrimAborts(w) ==
    /\ stage[w] # "idle"
    /\ stage' = [stage EXCEPT ![w] = "idle"]
    /\ late' = [late EXCEPT ![w] = {}]
    /\ UNCHANGED <<appended, trimmed, lastDelivered, pending, minID>>

Next ==
    \/ AppendEntry \/ Deliver \/ AckEntry
    \/ \E w \in Workers :
         ReadPending(w) \/ ReadGroup(w) \/ Trim(w) \/ TrimAborts(w)

Spec == Init /\ [][Next]_vars

-----------------------------------------------------------------------------

\* No entry is trimmed before the group was delivered it, however old, and
\* whatever trimmers, producers and consumers do between a trimmer's reads.
UndeliveredKept == trimmed <= lastDelivered + 1

\* A pass of TrimMain removes no delivered and unacked entry (Reclaim would
\* find nothing to redeliver), save one that was delivered between that very
\* pass's XPENDING and XINFO GROUPS: below the second bound and unknown to the
\* first.  A delivery during another worker's pass, before this pass's first
\* read or after its second one is safe.
TrimSparesPending ==
    [][\A w \in Workers :
         Trim(w) => {id \in pending : trimmed <= id /\ id < trimmed'} \subseteq late[w]]_vars

\* What trim.go says of TrimMain, without that exception: no pending entry is
\* below the stream's floor.  The code does not give this.
PendingKept == \A id \in pending : id >= trimmed
=============================================================================

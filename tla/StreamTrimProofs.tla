-------------------------- MODULE StreamTrimProofs --------------------------
(* Proofs about retention trimming, for any number of workers and entries. *)
EXTENDS StreamTrim, TLAPS

\* Type correctness of the trimming model.
THEOREM TrimTypeCorrect == Spec => []TrimTypeOK
<1>1. Init => TrimTypeOK
  BY MaxEntriesType DEF Init, TrimTypeOK
<1>2. TrimTypeOK /\ [Next]_vars => TrimTypeOK'
  <2> SUFFICES ASSUME TrimTypeOK, [Next]_vars PROVE TrimTypeOK'
    OBVIOUS
  <2> USE MaxEntriesType DEF TrimTypeOK
  <2>1. CASE AppendEntry
    BY <2>1 DEF AppendEntry
  <2>2. CASE Deliver
    BY <2>2 DEF Deliver
  <2>3. CASE AckEntry
    BY <2>3 DEF AckEntry
  <2>4. ASSUME NEW w \in Workers, ReadPending(w) PROVE TrimTypeOK'
    BY <2>4 DEF ReadPending
  <2>5. ASSUME NEW w \in Workers, ReadGroup(w) PROVE TrimTypeOK'
    BY <2>5 DEF ReadGroup, MinStreamID, NextStreamID
  <2>6. ASSUME NEW w \in Workers, Trim(w) PROVE TrimTypeOK'
    BY <2>6 DEF Trim
  <2>7. ASSUME NEW w \in Workers, TrimAborts(w) PROVE TrimTypeOK'
    BY <2>7 DEF TrimAborts
  <2>8. CASE UNCHANGED vars
    BY <2>8 DEF vars
  <2> QED BY <2>1, <2>2, <2>3, <2>4, <2>5, <2>6, <2>7, <2>8 DEF Next
<1> QED BY <1>1, <1>2, PTL DEF Spec

-----------------------------------------------------------------------------

\* The bound a trimmer is about to apply is at most the entry after the
\* last-delivered one, which only grows.
BoundDelivered ==
    \A w \in Workers : stage[w] = "trim" => minID[w] <= lastDelivered + 1

\* The inductive form of UndeliveredKept: the stream's floor and every bound
\* on its way to become the floor.
LEMMA DeliveredInductive == Spec => [](UndeliveredKept /\ BoundDelivered)
<1>1. Init => UndeliveredKept /\ BoundDelivered
  BY DEF Init, UndeliveredKept, BoundDelivered
<1>2. TrimTypeOK /\ UndeliveredKept /\ BoundDelivered /\ [Next]_vars
        => UndeliveredKept' /\ BoundDelivered'
  <2> SUFFICES ASSUME TrimTypeOK, UndeliveredKept, BoundDelivered, [Next]_vars
               PROVE  UndeliveredKept' /\ BoundDelivered'
    OBVIOUS
  <2> USE MaxEntriesType DEF TrimTypeOK, UndeliveredKept, BoundDelivered
  <2>1. CASE AppendEntry
    BY <2>1 DEF AppendEntry
  <2>2. CASE Deliver
    BY <2>2 DEF Deliver
  <2>3. CASE AckEntry
    BY <2>3 DEF AckEntry
  <2>4. ASSUME NEW w \in Workers, ReadPending(w) PROVE UndeliveredKept' /\ BoundDelivered'
    BY <2>4 DEF ReadPending
  <2>5. ASSUME NEW w \in Workers, ReadGroup(w) PROVE UndeliveredKept' /\ BoundDelivered'
    BY <2>5 DEF ReadGroup, MinStreamID, NextStreamID
  <2>6. ASSUME NEW w \in Workers, Trim(w) PROVE UndeliveredKept' /\ BoundDelivered'
    BY <2>6 DEF Trim
  <2>7. ASSUME NEW w \in Workers, TrimAborts(w) PROVE UndeliveredKept' /\ BoundDelivered'
    BY <2>7 DEF TrimAborts
  <2>8. CASE UNCHANGED vars
    BY <2>8 DEF vars
  <2> QED BY <2>1, <2>2, <2>3, <2>4, <2>5, <2>6, <2>7, <2>8 DEF Next
<1> QED BY <1>1, <1>2, TrimTypeCorrect, PTL DEF Spec

\* TrimMain never removes an undelivered entry, whatever is appended,
\* delivered and acked between its three calls and by however many workers it
\* is run.
THEOREM UndeliveredNeverTrimmed == Spec => []UndeliveredKept
  BY DeliveredInductive, PTL

-----------------------------------------------------------------------------

\* Every pending entry is at or above each bound a trimmer has computed,
\* unless it was delivered between that trimmer's reads.
BoundPending ==
    \A w \in Workers : stage[w] # "idle" =>
        \A id \in pending : minID[w] <= id \/ id \in late[w]

\* BoundPending holds throughout: a delivery after the second read is above
\* the bound (BoundDelivered), one between the reads is recorded.
LEMMA PendingInductive == Spec => []BoundPending
<1>1. Init => BoundPending
  BY DEF Init, BoundPending
<1>2. TrimTypeOK /\ BoundDelivered /\ BoundPending /\ [Next]_vars => BoundPending'
  <2> SUFFICES ASSUME TrimTypeOK, BoundDelivered, BoundPending, [Next]_vars
               PROVE  BoundPending'
    OBVIOUS
  <2> USE MaxEntriesType DEF TrimTypeOK, BoundPending
  <2>1. CASE AppendEntry
    BY <2>1 DEF AppendEntry
  <2>2. CASE Deliver
    <3>1. PICK id \in 1..appended :
             /\ id > lastDelivered
             /\ pending' = pending \cup {id}
             /\ late' = [w \in Workers |->
                           IF stage[w] = "group" THEN late[w] \cup {id} ELSE late[w]]
             /\ UNCHANGED <<stage, minID>>
      BY <2>2 DEF Deliver
    <3>2. \A w \in Workers : stage[w] # "idle" => minID[w] <= id \/ id \in late'[w]
      BY <3>1 DEF BoundDelivered
    <3>3. \A w \in Workers : late[w] \subseteq late'[w]
      BY <3>1
    <3> QED BY <3>1, <3>2, <3>3
  <2>3. CASE AckEntry
    BY <2>3 DEF AckEntry
  <2>4. ASSUME NEW w \in Workers, ReadPending(w) PROVE BoundPending'
    BY <2>4 DEF ReadPending, MinStreamID
  <2>5. ASSUME NEW w \in Workers, ReadGroup(w) PROVE BoundPending'
    BY <2>5 DEF ReadGroup, MinStreamID, NextStreamID
  <2>6. ASSUME NEW w \in Workers, Trim(w) PROVE BoundPending'
    BY <2>6 DEF Trim
  <2>7. ASSUME NEW w \in Workers, TrimAborts(w) PROVE BoundPending'
    BY <2>7 DEF TrimAborts
  <2>8. CASE UNCHANGED vars
    BY <2>8 DEF vars
  <2> QED BY <2>1, <2>2, <2>3, <2>4, <2>5, <2>6, <2>7, <2>8 DEF Next
<1> QED BY <1>1, <1>2, TrimTypeCorrect, DeliveredInductive, PTL DEF Spec

\* A pass of TrimMain removes an unacked entry only if that entry was
\* delivered between its own XPENDING and XINFO GROUPS, for any number of
\* workers and entries and with deliveries at every moment: it is this gap
\* alone that endangers the ack rule.
THEOREM PendingTrimmedOnlyInTheGap == Spec => TrimSparesPending
<1>1. TrimTypeOK /\ BoundPending /\ [Next]_vars
        => [\A w \in Workers :
              Trim(w) => {id \in pending : trimmed <= id /\ id < trimmed'} \subseteq late[w]]_vars
  <2> SUFFICES ASSUME TrimTypeOK, BoundPending, NEW w \in Workers, Trim(w),
                      NEW id \in pending, trimmed <= id, id < trimmed'
               PROVE  id \in late[w]
    OBVIOUS
  <2>1. id < minID[w]
    BY DEF TrimTypeOK, Trim
  <2> QED BY <2>1, MaxEntriesType DEF TrimTypeOK, BoundPending, Trim
<1> QED BY <1>1, TrimTypeCorrect, PendingInductive, PTL DEF Spec, TrimSparesPending
=============================================================================

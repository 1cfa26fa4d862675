-------------------------- MODULE UploadPoolProofs --------------------------
(* Proofs about the upload pool, for any artifact size and pool size. *)
EXTENDS UploadPool, TLAPS

\* Type correctness of the pool.
THEOREM PoolTypeCorrect == Spec => []PoolTypeOK
<1>1. Init => PoolTypeOK
  BY ObjectCountType DEF Init, PoolTypeOK, Objects
<1>2. PoolTypeOK /\ [Next]_vars => PoolTypeOK'
  <2> SUFFICES ASSUME PoolTypeOK, [Next]_vars PROVE PoolTypeOK'
    OBVIOUS
  <2> USE ObjectCountType DEF PoolTypeOK
  <2>1. ASSUME NEW u \in Uploaders, Feed(u) PROVE PoolTypeOK'
    BY <2>1 DEF Feed, Call
  <2>2. ASSUME NEW u \in Uploaders, Stat(u) PROVE PoolTypeOK'
    BY <2>2 DEF Stat, Call, Done
  <2>3. ASSUME NEW u \in Uploaders, Put(u) PROVE PoolTypeOK'
    <3>1. busy[u] \in Objects
      BY <2>3 DEF Put, Objects
    <3>2. stored' \subseteq Objects
      BY <2>3, <3>1 DEF Put
    <3> QED BY <2>3, <3>2 DEF Put, Done
  <2>4. ASSUME NEW u \in Uploaders, UploadFails(u) PROVE PoolTypeOK'
    <3>1. busy[u] \in Objects
      BY <2>4 DEF UploadFails, Objects
    <3>2. stored' \subseteq Objects
      BY <2>4, <3>1 DEF UploadFails
    <3> QED BY <2>4, <3>2 DEF UploadFails, Done
  <2>5. CASE CloseFeed
    BY <2>5 DEF CloseFeed
  <2>6. CASE Expire
    BY <2>6 DEF Expire
  <2>7. CASE ReturnAll
    BY <2>7 DEF ReturnAll
  <2>8. CASE UNCHANGED vars
    BY <2>8 DEF vars
  <2> QED BY <2>1, <2>2, <2>3, <2>4, <2>5, <2>6, <2>7, <2>8 DEF Next
<1> QED BY <1>1, <1>2, PTL DEF Spec

-----------------------------------------------------------------------------

\* Every object handed out is in the bucket, being uploaded, or the cause of
\* a recorded error.
FedAccounted ==
    firstErr = "nil" =>
        \A o \in 1..fed : \/ o \in stored
                          \/ \E u \in Uploaders : step[u] # "idle" /\ busy[u] = o

\* Within the budget the feed ends early only by a recorded error.
FeedComplete ==
    phase # "feeding" /\ firstErr = "nil" /\ ctx = "live" => fed = ObjectCount

\* The pool's context is cancelled by a recorded error only.
CancelRecorded == ctx = "cancelled" => firstErr = "error"

\* UploadAll returns only when every uploader has finished.
ReturnedIdle == phase = "returned" => \A u \in Uploaders : step[u] = "idle"

PoolInv == FedAccounted /\ FeedComplete /\ CancelRecorded /\ ReturnedIdle

\* The inductive invariant implies the property: after the return nothing is
\* in flight, so what was handed out is stored, and everything was.
LEMMA PoolInvSuffices == PoolTypeOK /\ PoolInv => NilMeansStoredInBudget
  BY ObjectCountType
     DEF PoolTypeOK, PoolInv, FedAccounted, FeedComplete, ReturnedIdle,
         NilMeansStoredInBudget, Objects

\* A nil return of UploadAll within its budget means that every object of the
\* artifact is in the bucket, for any number of objects and uploaders.
THEOREM NilReturnIsComplete == Spec => []NilMeansStoredInBudget
<1>1. Init => PoolInv
  BY ObjectCountType
     DEF Init, PoolInv, FedAccounted, FeedComplete, CancelRecorded, ReturnedIdle
<1>2. PoolTypeOK /\ PoolInv /\ [Next]_vars => PoolInv'
  <2> SUFFICES ASSUME PoolTypeOK, PoolInv, [Next]_vars PROVE PoolInv'
    OBVIOUS
  <2> USE ObjectCountType
      DEF PoolTypeOK, PoolInv, FedAccounted, FeedComplete, CancelRecorded,
          ReturnedIdle
  <2>1. ASSUME NEW u \in Uploaders, Feed(u) PROVE PoolInv'
    BY <2>1 DEF Feed, Call
  <2>2. ASSUME NEW u \in Uploaders, Stat(u) PROVE PoolInv'
    BY <2>2 DEF Stat, Call, Done
  <2>3. ASSUME NEW u \in Uploaders, Put(u) PROVE PoolInv'
    BY <2>3 DEF Put, Done
  <2>4. ASSUME NEW u \in Uploaders, UploadFails(u) PROVE PoolInv'
    BY <2>4 DEF UploadFails, Done
  <2>5. CASE CloseFeed
    BY <2>5 DEF CloseFeed
  <2>6. CASE Expire
    BY <2>6 DEF Expire
  <2>7. CASE ReturnAll
    BY <2>7 DEF ReturnAll
  <2>8. CASE UNCHANGED vars
    BY <2>8 DEF vars
  <2> QED BY <2>1, <2>2, <2>3, <2>4, <2>5, <2>6, <2>7, <2>8 DEF Next
<1> QED BY <1>1, <1>2, PoolTypeCorrect, PoolInvSuffices, PTL DEF Spec
=============================================================================

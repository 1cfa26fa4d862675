------------------------ MODULE DeploymentLockProofs ------------------------
(***************************************************************************)
(* Proofs about the deployment lock, for any number of processes, any      *)
(* number of handlers in each and any number of heartbeat intervals per    *)
(* TTL.                                                                    *)
(***************************************************************************)
EXTENDS DeploymentLock, TLAPS

\* Type correctness of the lock.
THEOREM LockTypeCorrect == Spec => []LockTypeOK
<1>1. Init => LockTypeOK
  BY BeatsType DEF Init, LockTypeOK
<1>2. LockTypeOK /\ [Next]_vars => LockTypeOK'
  <2> SUFFICES ASSUME LockTypeOK, [Next]_vars PROVE LockTypeOK'
    OBVIOUS
  <2> USE BeatsType, LockWorkerOfType DEF LockTypeOK
  <2>1. ASSUME NEW h \in Handlers, Acquire(h) PROVE LockTypeOK'
    BY <2>1 DEF Acquire
  <2>2. ASSUME NEW h \in Handlers, Heartbeat(h) PROVE LockTypeOK'
    BY <2>2 DEF Heartbeat, Renew
  <2>3. ASSUME NEW h \in Handlers, HeartbeatFails(h) PROVE LockTypeOK'
    BY <2>3 DEF HeartbeatFails, Renew
  <2>4. ASSUME NEW h \in Handlers, StopHeartbeat(h) PROVE LockTypeOK'
    BY <2>4 DEF StopHeartbeat
  <2>5. ASSUME NEW h \in Handlers, Release(h) PROVE LockTypeOK'
    BY <2>5 DEF Release, Siblings
  <2>6. ASSUME NEW h \in Handlers, ReleaseFails(h) PROVE LockTypeOK'
    BY <2>6 DEF ReleaseFails
  <2>7. ASSUME NEW w \in Workers, Crash(w) PROVE LockTypeOK'
    BY <2>7 DEF Crash
  <2>8. CASE Tick
    BY <2>8 DEF Tick
  <2>9. ASSUME NEW h \in Handlers, AcquireReplyLost(h) PROVE LockTypeOK'
    BY <2>9 DEF AcquireReplyLost
  <2>10. CASE UNCHANGED vars
    BY <2>10 DEF vars
  <2> QED BY <2>1, <2>2, <2>3, <2>4, <2>5, <2>6, <2>7, <2>8, <2>9, <2>10 DEF Next
<1> QED BY <1>1, <1>2, PTL DEF Spec

-----------------------------------------------------------------------------

\* The key names the process of the handler that wrote it.
OwnerIsHolder ==
    owner \in Workers => holder \in Handlers /\ owner = WorkerOf[holder]

\* A running lease that has not lapsed owns the key and is the grant in it; the
\* key lives at least until the renewals it may still miss are due.  A job on
\* its way to release is included: its siblings run on.
LeaseCovered ==
    \A h \in Handlers :
        lease[h] \in {"held", "releasing"} /\ h \notin lapsed =>
            /\ owner = WorkerOf[h]
            /\ holder = h
            /\ lease[h] = "held" =>
                 ttl + missed[h] + (IF beaten[h] THEN 0 ELSE 1) >= Beats

\* Lost is closed only for a lapsed lease.
LostIsLapsed == \A h \in Handlers : lease[h] = "lost" => h \in lapsed

\* Only running jobs are lapsed: a new lease starts clean.
IdleIsClean == \A h \in Handlers : lease[h] = "idle" => h \notin lapsed

LockInv == OwnerIsHolder /\ LeaseCovered /\ LostIsLapsed /\ IdleIsClean

\* Every step of Acquire, the heartbeat, Release, a crash and the clock keeps
\* the inductive invariant.
LEMMA LockInvStep ==
    ASSUME LockTypeOK, LockInv, [Next]_vars PROVE LockInv'
<1> USE BeatsType, LockWorkerOfType, LockTokensFresh
    DEF LockTypeOK, LockInv, OwnerIsHolder, LeaseCovered, LostIsLapsed, IdleIsClean
<1>1. ASSUME NEW h \in Handlers, Acquire(h) PROVE LockInv'
  BY <1>1 DEF Acquire
<1>2. ASSUME NEW h \in Handlers, Heartbeat(h) PROVE LockInv'
  BY <1>2 DEF Heartbeat, Renew
<1>3. ASSUME NEW h \in Handlers, HeartbeatFails(h) PROVE LockInv'
  BY <1>3 DEF HeartbeatFails, Renew
<1>4. ASSUME NEW h \in Handlers, StopHeartbeat(h) PROVE LockInv'
  BY <1>4 DEF StopHeartbeat
<1>5. ASSUME NEW h \in Handlers, Release(h) PROVE LockInv'
  BY <1>5 DEF Release, Siblings
<1>6. ASSUME NEW h \in Handlers, ReleaseFails(h) PROVE LockInv'
  BY <1>6 DEF ReleaseFails
<1>7. ASSUME NEW w \in Workers, Crash(w) PROVE LockInv'
  BY <1>7 DEF Crash
<1>8. CASE Tick
  BY <1>8 DEF Tick
<1>9. ASSUME NEW h \in Handlers, AcquireReplyLost(h) PROVE LockInv'
  BY <1>9 DEF AcquireReplyLost
<1>10. CASE UNCHANGED vars
  BY <1>10 DEF vars
<1> QED BY <1>1, <1>2, <1>3, <1>4, <1>5, <1>6, <1>7, <1>8, <1>9, <1>10 DEF Next

\* LockInv holds throughout.
LEMMA LockInductive == Spec => []LockInv
<1>1. Init => LockInv
  BY LockTokensFresh
     DEF Init, LockInv, OwnerIsHolder, LeaseCovered, LostIsLapsed, IdleIsClean
<1>2. LockTypeOK /\ LockInv /\ [Next]_vars => LockInv'
  BY LockInvStep
<1> QED BY <1>1, <1>2, LockTypeCorrect, PTL DEF Spec

\* A job whose renewals have not failed for a TTL, and which no lapsed sibling
\* undercut, is the only owner of its deployment, across crashes, expiries,
\* takeovers and lost answers, with any number of handlers per process.
THEOREM LeaseExclusion == Spec => []LeaseIsExclusive
<1>1. LockInv => LeaseIsExclusive
  BY DEF LockInv, LeaseCovered, LeaseIsExclusive
<1> QED BY <1>1, LockInductive, PTL

\* Release removes the grant of its own job; after a lapse it may remove a
\* sibling's, never one of another process.
THEOREM ReleaseIsOwn == Spec => ReleasesOwnGrant
<1>1. LockTypeOK /\ LockInv
        => \A h \in Handlers :
             Release(h) => \/ holder' = holder
                           \/ holder = h
                           \/ h \in lapsed /\ WorkerOf[holder] = WorkerOf[h]
  BY LockWorkerOfType DEF LockTypeOK, LockInv, OwnerIsHolder, LeaseCovered, Release
<1> QED BY <1>1, LockTypeCorrect, LockInductive, PTL DEF Spec, ReleasesOwnGrant
=============================================================================

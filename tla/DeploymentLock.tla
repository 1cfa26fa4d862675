--------------------------- MODULE DeploymentLock ---------------------------
(***************************************************************************)
(* The lock of one deployment (internal/lock): SETNX with a TTL, a         *)
(* heartbeat that renews it while the job runs, an owner-checked release.  *)
(* Time advances in heartbeat intervals, of which a TTL has Beats; a       *)
(* running heartbeat makes one attempt per interval.  The owner token is   *)
(* the workerID of the process, shared by all its handlers.                *)
(***************************************************************************)
EXTENDS Naturals

CONSTANTS
    Workers,        \* worker processes
    Handlers,       \* goroutines that run jobs
    WorkerOf,       \* the process of each
    Beats           \* heartbeat intervals per TTL (3 in NewLocker)

ASSUME LockWorkerOfType == WorkerOf \in [Handlers -> Workers]
ASSUME BeatsType == Beats \in Nat /\ Beats >= 2

Free     == "free"
Orphan   == "orphan"
NoHolder == "nobody"

ASSUME LockTokensFresh ==
    /\ Free \notin Workers /\ Orphan \notin Workers
    /\ NoHolder \notin Handlers

VARIABLES
    owner,          \* the value of the key: a process, or Orphan after its death
    ttl,            \* intervals until the key expires
    holder,         \* history: the handler whose SETNX wrote the key
    lease,          \* per handler: idle, held, lost (Lost closed), releasing
    missed,         \* per handler: renewals failed in a row
    beaten,         \* per handler: has it tried in this interval
    lapsed          \* history: handlers whose lease is not to be trusted: their
                    \* renewals failed for a TTL, or a sibling's release took
                    \* the key from under them

vars == <<owner, ttl, holder, lease, missed, beaten, lapsed>>

LockTypeOK ==
    /\ owner \in Workers \cup {Free, Orphan}
    /\ ttl \in 0..Beats
    /\ holder \in Handlers \cup {NoHolder}
    /\ lease \in [Handlers -> {"idle", "held", "lost", "releasing"}]
    /\ missed \in [Handlers -> 0..Beats]
    /\ beaten \in [Handlers -> BOOLEAN]
    /\ lapsed \subseteq Handlers

Init ==
    /\ owner = Free
    /\ ttl = 0
    /\ holder = NoHolder
    /\ lease = [h \in Handlers |-> "idle"]
    /\ missed = [h \in Handlers |-> 0]
    /\ beaten = [h \in Handlers |-> FALSE]
    /\ lapsed = {}

\* Acquire: SETNX workerID with the TTL, then start the heartbeat.
Acquire(h) ==
    /\ lease[h] = "idle"
    /\ owner = Free
    /\ owner' = WorkerOf[h]
    /\ ttl' = Beats
    /\ holder' = h
    /\ lease' = [lease EXCEPT ![h] = "held"]
    /\ missed' = [missed EXCEPT ![h] = 0]
    /\ beaten' = [beaten EXCEPT ![h] = TRUE]
    /\ UNCHANGED lapsed

\* Acquire: the SETNX takes effect and its answer is lost; the error is
\* returned without a lease, so nobody renews or releases the key.
AcquireReplyLost(h) ==
    /\ lease[h] = "idle"
    /\ owner = Free
    /\ owner' = WorkerOf[h]
    /\ ttl' = Beats
    /\ holder' = h
    /\ UNCHANGED <<lease, missed, beaten, lapsed>>

\* Slips: a renewal that adds to the TTL, and one with its owner check inverted.
RenewAdding(h)  == ttl' = IF owner = WorkerOf[h] THEN ttl + Beats ELSE ttl
RenewMissing(h) == ttl' = IF owner = WorkerOf[h] THEN ttl ELSE Beats

\* renewScript: extend the TTL while the key holds this process's workerID.
Renew(h) == ttl' = IF owner = WorkerOf[h] THEN Beats ELSE ttl

\* heartbeat: a renewal answered 0 closes Lost and ends the heartbeat.
Heartbeat(h) ==
    /\ lease[h] = "held"
    /\ ~beaten[h]
    /\ Renew(h)
    /\ IF owner = WorkerOf[h]
       THEN /\ missed' = [missed EXCEPT ![h] = 0]
            /\ UNCHANGED lease
       ELSE /\ lease' = [lease EXCEPT ![h] = "lost"]
            /\ UNCHANGED missed
    /\ beaten' = [beaten EXCEPT ![h] = TRUE]
    /\ UNCHANGED <<owner, holder, lapsed>>

\* heartbeat: an error is tolerated, whether or not the renewal took effect.
HeartbeatFails(h) ==
    /\ lease[h] = "held"
    /\ ~beaten[h]
    /\ Renew(h) \/ UNCHANGED ttl
    /\ missed' = [missed EXCEPT ![h] = IF @ < Beats THEN @ + 1 ELSE @]
    /\ beaten' = [beaten EXCEPT ![h] = TRUE]
    /\ UNCHANGED <<owner, holder, lease, lapsed>>

\* Release, first half: stop the heartbeat and wait for it.
StopHeartbeat(h) ==
    /\ lease[h] \in {"held", "lost"}
    /\ lease' = [lease EXCEPT ![h] = "releasing"]
    /\ UNCHANGED <<owner, ttl, holder, missed, beaten, lapsed>>

\* The other running jobs of h's process.
Siblings(h) == {g \in Handlers : g # h /\ WorkerOf[g] = WorkerOf[h] /\ lease[g] # "idle"}

\* Slip: a release that deletes the key whoever owns it.
ReleaseUnchecked(h) ==
    /\ lease[h] = "releasing"
    /\ lease' = [lease EXCEPT ![h] = "idle"]
    /\ owner' = Free /\ ttl' = 0 /\ holder' = NoHolder
    /\ lapsed' = (lapsed \cup Siblings(h)) \ {h}
    /\ UNCHANGED <<missed, beaten>>

\* Release, second half: releaseScript.
Release(h) ==
    /\ lease[h] = "releasing"
    /\ lease' = [lease EXCEPT ![h] = "idle"]
    /\ IF owner = WorkerOf[h]
       THEN /\ owner' = Free /\ ttl' = 0 /\ holder' = NoHolder
            /\ lapsed' = (lapsed \cup Siblings(h)) \ {h}
       ELSE /\ lapsed' = lapsed \ {h}
            /\ UNCHANGED <<owner, ttl, holder>>
    /\ UNCHANGED <<missed, beaten>>

\* The release call fails; the TTL is left to expire the key.
ReleaseFails(h) ==
    /\ lease[h] = "releasing"
    /\ lease' = [lease EXCEPT ![h] = "idle"]
    /\ lapsed' = lapsed \ {h}
    /\ UNCHANGED <<owner, ttl, holder, missed, beaten>>

\* A process dies; the restarted one has a new workerID.
Crash(w) ==
    /\ lease' = [h \in Handlers |-> IF WorkerOf[h] = w THEN "idle" ELSE lease[h]]
    /\ owner' = IF owner = w THEN Orphan ELSE owner
    /\ lapsed' = {h \in lapsed : WorkerOf[h] # w}
    /\ UNCHANGED <<ttl, holder, missed, beaten>>

\* Slip: a key without a TTL.
TickForever ==
    /\ \A h \in Handlers : /\ lease[h] = "held" => beaten[h]
                           /\ lease[h] # "releasing"
    /\ beaten' = [h \in Handlers |-> FALSE]
    /\ UNCHANGED <<owner, ttl, holder, lease, missed, lapsed>>

\* One interval passes; Redis deletes the key at the end of its TTL.  The
\* attempts of an interval, and a release (5 s at most), end within it.
Tick ==
    /\ \A h \in Handlers : /\ lease[h] = "held" => beaten[h]
                           /\ lease[h] # "releasing"
    /\ beaten' = [h \in Handlers |-> FALSE]
    /\ IF owner # Free /\ ttl <= 1
       THEN owner' = Free /\ ttl' = 0 /\ holder' = NoHolder
       ELSE /\ ttl' = IF owner = Free THEN ttl ELSE ttl - 1
            /\ UNCHANGED <<owner, holder>>
    /\ lapsed' = lapsed \cup {h \in Handlers : lease[h] = "held" /\ missed[h] + 1 >= Beats}
    /\ UNCHANGED <<lease, missed>>

Next ==
    \/ \E h \in Handlers :
         \/ Acquire(h) \/ AcquireReplyLost(h) \/ Heartbeat(h) \/ HeartbeatFails(h)
         \/ StopHeartbeat(h) \/ Release(h) \/ ReleaseFails(h)
    \/ \E w \in Workers : Crash(w)
    \/ Tick

\* Time passes, heartbeats tick, and a job ends by its deadline.
Fairness ==
    /\ WF_vars(Tick)
    /\ \A h \in Handlers :
         /\ WF_vars(Heartbeat(h) \/ HeartbeatFails(h))
         /\ SF_vars(StopHeartbeat(h))
         /\ WF_vars(Release(h) \/ ReleaseFails(h))

Spec == Init /\ [][Next]_vars
FairSpec == Spec /\ Fairness

-----------------------------------------------------------------------------

\* A running job whose renewals never failed for a TTL owns the lock, and the
\* lock is its own grant, whatever the other processes and its siblings do: the
\* heartbeat outruns the TTL (heartbeat).  The one exception: the owner token
\* is the process's, so a sibling whose own lease lapsed may renew and release
\* this job's grant as if it were its own (renewScript, releaseScript).
LeaseIsExclusive ==
    \A h \in Handlers :
        lease[h] = "held" /\ h \notin lapsed => owner = WorkerOf[h] /\ holder = h

\* A release removes the releasing job's own grant or nothing; only after its
\* lease lapsed may it remove another grant, and never one of another process
\* (releaseScript).
ReleasesOwnGrant ==
    [][\A h \in Handlers :
         Release(h) => \/ holder' = holder
                       \/ holder = h
                       \/ h \in lapsed /\ WorkerOf[holder] = WorkerOf[h]]_vars

\* However its holder ended, the lock becomes free again: by its release, or
\* by the TTL.
LockReturns == owner # Free ~> owner = Free

\* The same per job, without the exception: no release removes the grant of
\* another job.  With several handlers in a process the code does not give this.
ReleasesOwnJobOnly ==
    [][\A h \in Handlers : Release(h) => holder' = holder \/ holder = h]_vars
=============================================================================

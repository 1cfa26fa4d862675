---------------------------- MODULE ExportWorker ----------------------------
(***************************************************************************)
(* A fleet of export workers: the job processor (internal/worker), the     *)
(* export pipeline it drives (internal/export), the per-deployment lock    *)
(* (internal/lock) and the consumer, reclaim and dispatcher loops          *)
(* (cmd/export-worker), over the queue of ExportQueue.                     *)
(*                                                                         *)
(* A handler is one goroutine inside Processor.Handle.  Each of its steps  *)
(* is one call to a service with the local decisions that follow it, so    *)
(* every interleaving of the services' calls is explored.  A call has      *)
(* three outcomes: applied and answered; refused, nothing changed; applied *)
(* with the answer lost.  The last two, the crash of a process and the     *)
(* expiry of a lock whose holder still runs are faults, of which a         *)
(* behaviour has at most MaxFaults.  A job deadline or a lost lock shows   *)
(* as a fault of the call it cancels.                                      *)
(***************************************************************************)
EXTENDS ExportQueue

CONSTANTS
    Handlers,       \* goroutines that run Handle: fetch loops and reclaim loop
    WorkerOf,       \* the process each handler belongs to
    Kind,           \* what the payload of a request event is, see Kinds
    Stamps,         \* manifest creation times
    Stamp,          \* the createdAt of a request event, NoStamp when absent
    Injected,       \* the error codes the services may answer with
    DryRun,         \* WORKER_DRY_RUN
    StealActive,    \* may a message be reclaimed while a handler works on it
    MaxFaults

\* queue/validate.go ParseEvent and deployment.Reconcile
Kinds == {"valid", "hint_mismatch", "schema_invalid", "unparseable"}

NoStamp == "none"

ASSUME WorkerOfType == WorkerOf \in [Handlers -> Workers]
ASSUME KindType == Kind \in [Requests -> Kinds]
ASSUME StampType == Stamp \in [Requests -> Stamps \cup {NoStamp}]
ASSUME StampsFresh == NoStamp \notin Stamps
ASSUME InjectedType == Injected \subseteq JobCodes
ASSUME FlagsType == DryRun \in BOOLEAN /\ StealActive \in BOOLEAN
ASSUME MaxFaultsType == MaxFaults \in Nat

\* deployment/client.go
Actionable(s) == s \in {"EXPORT_QUEUED", "EXPORTING"}
NonActionable(s) ==
    s \in {"ARTIFACT_READY", "EXPORT_FAILED", "CANCELLED", "CDN_UPLOADING"}

\* CDN_UPLOADING stands for the four statuses of the pipeline after the worker.
Statuses == {"PENDING", "EXPORT_QUEUED", "EXPORTING", "ARTIFACT_READY",
             "EXPORT_FAILED", "CANCELLED", "CDN_UPLOADING"}

NoStatus == "none"
NoCode   == "none"

\* The value of a lock whose owner's process is gone: a restarted process has
\* a new random workerID.
Free   == "free"
Orphan == "orphan"

VARIABLES
    record,         \* deployment-service: the status of each deployment
    pointer,        \* deployment-service: the registered manifest digest
    manifest,       \* artifact storage: the digest of the stored manifest
    lock,           \* Redis: the owner token of each deployment lock
    readyEvents,    \* deployment.artifact.ready events emitted
    failedEvents,   \* deployments with a deployment.export.failed event
    pc,             \* per handler: the next call
    msg,            \* per handler: the stream entry it handles, 0 when idle
    snap,           \* per handler: rec.Status, NoStatus when rec is nil
    code,           \* per handler: the code of the failure it handles
    digest,         \* per handler: the digest of the manifest it built
    lease,          \* per handler: does it hold a Lease to release
    givenUp,        \* history: acked by a path that neither settles nor hands off
    passedOver,     \* history: acked, known to be ready, without an announcement
    faults          \* faults so far

serviceVars == <<record, pointer, manifest, readyEvents, failedEvents>>
localVars   == <<pc, msg, snap, code, digest, lease>>
vars == <<queueVars, serviceVars, localVars, lock, givenUp, passedOver, faults>>

PCs == {"idle", "load", "reemit", "lock", "casExporting", "produce",
        "createdAt", "manifest", "submit", "casReady", "emitReady", "schedule",
        "casFailed", "casExhausted", "dlq", "dlqExhausted", "emitFailed",
        "ack", "release"}

\* Where a handler holds an entry it has not decided about, by what it knows.
BuiltPCs == {"manifest", "submit", "casReady", "emitReady"}

ReadyEvents == [dep : Deployments, digest : Stamps]

ServiceTypeOK ==
    /\ record \in [Deployments -> Statuses]
    /\ pointer \in [Deployments -> Stamps \cup {NoStamp}]
    /\ manifest \in [Deployments -> Stamps \cup {NoStamp}]
    /\ lock \in [Deployments -> Workers \cup {Free, Orphan}]
    /\ readyEvents \subseteq ReadyEvents
    /\ failedEvents \subseteq Deployments
    /\ givenUp \subseteq Deployments /\ passedOver \subseteq Deployments
    /\ faults \in 0..MaxFaults

HandlerTypeOK ==
    /\ pc \in [Handlers -> PCs]
    /\ msg \in [Handlers -> Nat]
    /\ snap \in [Handlers -> Statuses \cup {NoStatus}]
    /\ code \in [Handlers -> JobCodes \cup {NoCode}]
    /\ digest \in [Handlers -> Stamps \cup {NoStamp}]
    /\ lease \in [Handlers -> BOOLEAN]
    /\ \A h \in Handlers :
         /\ pc[h] # "idle" => msg[h] \in 1..lastDelivered
         /\ pc[h] \in {"casFailed", "casExhausted"} => Actionable(snap[h])
         /\ pc[h] = "schedule" => /\ code[h] \in RetryableCodes
                                  /\ stream[msg[h]].attempt < MaxRetries
         /\ pc[h] \in BuiltPCs => digest[h] \in Stamps

\* Type correctness.  Beside the ranges: a handler between delivery and return
\* holds a delivered entry; the failure CAS is tried only from an actionable
\* status; a retry is scheduled only for a retryable code below the limit.
TypeOK == QueueTypeOK /\ ServiceTypeOK /\ HandlerTypeOK

Init ==
    /\ QueueInit
    /\ record = [d \in Deployments |-> "PENDING"]
    /\ pointer = [d \in Deployments |-> NoStamp]
    /\ manifest = [d \in Deployments |-> NoStamp]
    /\ lock = [d \in Deployments |-> Free]
    /\ readyEvents = {}
    /\ failedEvents = {}
    /\ pc = [h \in Handlers |-> "idle"]
    /\ msg = [h \in Handlers |-> 0]
    /\ snap = [h \in Handlers |-> NoStatus]
    /\ code = [h \in Handlers |-> NoCode]
    /\ digest = [h \in Handlers |-> NoStamp]
    /\ lease = [h \in Handlers |-> FALSE]
    /\ givenUp = {} /\ passedOver = {}
    /\ faults = 0

-----------------------------------------------------------------------------
(* Local steps *)

Req(h)     == stream[msg[h]].req
Attempt(h) == stream[msg[h]].attempt
Dep(h)     == DepOf[Req(h)]

Fault   == faults < MaxFaults /\ faults' = faults + 1
NoFault == UNCHANGED faults

\* The handler goes on to call p, knowing status s, failure c and digest g.
Proceed(h, p, s, c, g) ==
    /\ pc' = [pc EXCEPT ![h] = p]
    /\ snap' = [snap EXCEPT ![h] = s]
    /\ code' = [code EXCEPT ![h] = c]
    /\ digest' = [digest EXCEPT ![h] = g]
    /\ UNCHANGED msg

Goto(h, p) == Proceed(h, p, snap[h], code[h], digest[h])

\* The decision to ack.
Settle(h) == Proceed(h, "ack", NoStatus, NoCode, NoStamp)

\* Handle returns; its deferred release runs when it took the lock.
Return(h) ==
    /\ pc' = [pc EXCEPT ![h] = IF lease[h] THEN "release" ELSE "idle"]
    /\ msg' = [msg EXCEPT ![h] = IF lease[h] THEN @ ELSE 0]
    /\ snap' = [snap EXCEPT ![h] = NoStatus]
    /\ code' = [code EXCEPT ![h] = NoCode]
    /\ digest' = [digest EXCEPT ![h] = NoStamp]

\* Slip: one retry too many.
FailBranchOneMore(h, c, s) ==
    IF Retryable(c)
    THEN IF Attempt(h) > MaxRetries
         THEN IF Actionable(s) THEN "casExhausted" ELSE "dlqExhausted"
         ELSE "schedule"
    ELSE IF Actionable(s) THEN "casFailed" ELSE "emitFailed"

\* processor.go fail, exhausted, casFailed: the branch taken for code c with
\* the loaded status s.  Without an actionable record there is no CAS.
FailBranch(h, c, s) ==
    IF Retryable(c)
    THEN IF Attempt(h) >= MaxRetries
         THEN IF Actionable(s) THEN "casExhausted" ELSE "dlqExhausted"
         ELSE "schedule"
    ELSE IF Actionable(s) THEN "casFailed" ELSE "emitFailed"

\* A non-retryable failure without a record, or with a PENDING one, goes
\* straight to the failed event and the ack: nothing settled or handed off.
GivesUp(h, c, s) == FailBranch(h, c, s) = "emitFailed" /\ ~NonActionable(s)

\* The handler goes on to an ack; if ready, of a deployment it knows to be
\* ARTIFACT_READY and does not announce.
PassOver(h, ready) ==
    passedOver' = IF ready THEN passedOver \cup {Dep(h)} ELSE passedOver

Fail(h, c, s) ==
    /\ Proceed(h, FailBranch(h, c, s), s, c, NoStamp)
    /\ givenUp' = IF GivesUp(h, c, s) THEN givenUp \cup {Dep(h)} ELSE givenUp
    /\ PassOver(h, FailBranch(h, c, s) = "emitFailed" /\ s = "ARTIFACT_READY")

-----------------------------------------------------------------------------
(* Delivery *)

\* Handle, first decision: an unparseable payload goes to the DLQ, anything
\* that names a deployment is loaded.
Start(h, i) ==
    /\ msg' = [msg EXCEPT ![h] = i]
    /\ IF Kind[stream[i].req] = "unparseable"
       THEN /\ pc' = [pc EXCEPT ![h] = "dlq"]
            /\ code' = [code EXCEPT ![h] = "VALIDATION_FAILED"]
       ELSE /\ pc' = [pc EXCEPT ![h] = "load"]
            /\ UNCHANGED code
    /\ UNCHANGED <<snap, digest, lease, serviceVars, lock, givenUp, passedOver, faults>>

\* main.go consumer pool: Fetch one entry, Handle it.
Fetch(h) ==
    /\ pc[h] = "idle"
    /\ FetchEffect
    /\ Start(h, lastDelivered + 1)

\* XREADGROUP is applied but its answer lost: the entry is pending and no
\* handler has it.
FetchReplyLost ==
    /\ FetchEffect
    /\ Fault
    /\ UNCHANGED <<serviceVars, localVars, lock, givenUp, passedOver>>

\* main.go pending recovery: XAUTOCLAIM of an idle entry, redelivered unchanged.
Reclaim(h, i) ==
    /\ pc[h] = "idle"
    /\ i \in pending
    /\ StealActive \/ \A g \in Handlers : msg[g] # i
    /\ Start(h, i)
    /\ UNCHANGED queueVars

-----------------------------------------------------------------------------
(* Load, re-emission, reconciliation, lock *)

\* Handle: the decision on the loaded status s.
Decide(h, s) ==
    LET k == Kind[Req(h)]
    IN  \/ k = "schema_invalid" /\ Fail(h, "VALIDATION_FAILED", s)
        \/ /\ k # "schema_invalid" /\ s = "ARTIFACT_READY" /\ ~DryRun
           /\ Goto(h, "reemit")
           /\ UNCHANGED <<givenUp, passedOver>>
        \/ /\ k # "schema_invalid" /\ NonActionable(s)
           /\ s # "ARTIFACT_READY" \/ DryRun
           /\ Settle(h)
           /\ PassOver(h, s = "ARTIFACT_READY")
           /\ UNCHANGED givenUp
        \/ /\ k # "schema_invalid" /\ s = "PENDING"
           /\ Fail(h, "QUEUE_TEMPORARY_FAILURE", s)
        \/ /\ k = "hint_mismatch" /\ Actionable(s)
           /\ Fail(h, "VALIDATION_FAILED", s)
        \/ /\ k = "valid" /\ Actionable(s)
           /\ Proceed(h, "lock", s, NoCode, NoStamp)
           /\ UNCHANGED <<givenUp, passedOver>>

\* Handle: Load, and fail without a record when it is not answered.
Load(h) ==
    /\ pc[h] = "load"
    /\ \/ NoFault /\ Decide(h, record[Dep(h)])
       \/ Fault /\ \E c \in DeploymentCodes \cap Injected : Fail(h, c, NoStatus)
    /\ UNCHANGED <<queueVars, serviceVars, lock, lease>>

\* export.go ReemitReady: read the stored manifest of an ARTIFACT_READY
\* deployment; without one the message is acked, on an error it is not.
ReemitReady(h) ==
    /\ pc[h] = "reemit"
    /\ \/ /\ NoFault
          /\ IF manifest[Dep(h)] = NoStamp
             THEN Settle(h)
             ELSE Proceed(h, "emitReady", snap[h], NoCode, manifest[Dep(h)])
       \/ Fault /\ Return(h)
    /\ UNCHANGED <<queueVars, serviceVars, lock, lease, givenUp, passedOver>>

\* lock.go Acquire (SETNX of the process's workerID).  A conflict leaves the
\* message pending; an error is a QUEUE_TEMPORARY_FAILURE.  A dry run acks as
\* soon as it holds the lock.
AcquireLock(h) ==
    /\ pc[h] = "lock"
    /\ \/ /\ lock[Dep(h)] = Free
          /\ NoFault
          /\ lock' = [lock EXCEPT ![Dep(h)] = WorkerOf[h]]
          /\ lease' = [lease EXCEPT ![h] = TRUE]
          /\ IF DryRun
             THEN /\ Settle(h) /\ givenUp' = givenUp \cup {Dep(h)}
                  /\ UNCHANGED passedOver
             ELSE /\ Goto(h, IF snap[h] = "EXPORT_QUEUED" THEN "casExporting"
                                                         ELSE "produce")
                  /\ UNCHANGED <<givenUp, passedOver>>
       \/ /\ lock[Dep(h)] # Free
          /\ NoFault
          /\ Return(h)
          /\ UNCHANGED <<lock, lease, givenUp, passedOver>>
       \/ /\ Fault
          /\ \/ UNCHANGED lock
             \/ /\ lock[Dep(h)] = Free
                /\ lock' = [lock EXCEPT ![Dep(h)] = WorkerOf[h]]
          /\ Fail(h, "QUEUE_TEMPORARY_FAILURE", snap[h])
          /\ UNCHANGED lease
    /\ UNCHANGED <<queueVars, serviceVars>>

-----------------------------------------------------------------------------
(* Status writes.  deployment-service applies a transition when the record *)
(* is in the expected status and answers 409 with the status otherwise.    *)

\* Slip: a transition without its expected status.
CasUnchecked(h, from) == record[Dep(h)] \in Statuses

CasApplies(h, from) == record[Dep(h)] = from

CasEffect(h, to) == record' = [record EXCEPT ![Dep(h)] = to]

\* Handle: CAS EXPORT_QUEUED -> EXPORTING.
CasExporting(h) ==
    /\ pc[h] = "casExporting"
    /\ \/ /\ CasApplies(h, "EXPORT_QUEUED")
          /\ NoFault
          /\ CasEffect(h, "EXPORTING")
          /\ Proceed(h, "produce", "EXPORTING", NoCode, NoStamp)
          /\ UNCHANGED <<givenUp, passedOver>>
       \/ /\ ~CasApplies(h, "EXPORT_QUEUED")
          /\ NoFault
          /\ IF NonActionable(record[Dep(h)]) THEN Settle(h) ELSE Return(h)
          /\ PassOver(h, record[Dep(h)] = "ARTIFACT_READY")
          /\ UNCHANGED <<record, givenUp>>
       \/ /\ Fault
          /\ UNCHANGED record
          /\ \E c \in DeploymentCodes \cap Injected : Fail(h, c, snap[h])
       \/ /\ Fault
          /\ CasApplies(h, "EXPORT_QUEUED")
          /\ CasEffect(h, "EXPORTING")
          /\ Fail(h, "DEPLOYMENT_SERVICE_TIMEOUT", snap[h])
    /\ UNCHANGED <<queueVars, pointer, manifest, readyEvents, failedEvents,
                   lock, lease>>

\* export.go casReady: CAS EXPORTING -> ARTIFACT_READY.  A conflict with
\* ARTIFACT_READY emits; any other non-actionable status ends the job quietly.
CasReady(h) ==
    /\ pc[h] = "casReady"
    /\ \/ /\ CasApplies(h, "EXPORTING")
          /\ NoFault
          /\ CasEffect(h, "ARTIFACT_READY")
          /\ Goto(h, "emitReady")
          /\ UNCHANGED <<givenUp, passedOver>>
       \/ /\ ~CasApplies(h, "EXPORTING")
          /\ NoFault
          /\ IF NonActionable(record[Dep(h)])
             THEN /\ IF record[Dep(h)] = "ARTIFACT_READY"
                     THEN Goto(h, "emitReady") ELSE Settle(h)
                  /\ UNCHANGED <<givenUp, passedOver>>
             ELSE Fail(h, "VALIDATION_FAILED", snap[h])
          /\ UNCHANGED record
       \/ /\ Fault
          /\ UNCHANGED record
          /\ \E c \in DeploymentCodes \cap Injected : Fail(h, c, snap[h])
       \/ /\ Fault
          /\ CasApplies(h, "EXPORTING")
          /\ CasEffect(h, "ARTIFACT_READY")
          /\ Fail(h, "DEPLOYMENT_SERVICE_TIMEOUT", snap[h])
    /\ UNCHANGED <<queueVars, pointer, manifest, readyEvents, failedEvents,
                   lock, lease>>

\* processor.go casFailed, with the continuations of fail and of exhausted: a
\* conflict with a finished deployment counts as success; one with an active
\* deployment and a retryable error leave the message pending; any other
\* error hands the message to the DLQ.
CasFailed(h) ==
    LET done == IF pc[h] = "casFailed" THEN "emitFailed" ELSE "dlqExhausted"
        persistent == IF pc[h] = "casFailed" THEN "dlq" ELSE "dlqExhausted"
    IN  /\ pc[h] \in {"casFailed", "casExhausted"}
        /\ \/ /\ CasApplies(h, snap[h])
              /\ NoFault
              /\ CasEffect(h, "EXPORT_FAILED")
              /\ Goto(h, done)
              /\ UNCHANGED passedOver
           \/ /\ ~CasApplies(h, snap[h])
              /\ NoFault
              /\ IF NonActionable(record[Dep(h)]) THEN Goto(h, done) ELSE Return(h)
              /\ PassOver(h, done = "emitFailed" /\ record[Dep(h)] = "ARTIFACT_READY")
              /\ UNCHANGED record
           \/ /\ Fault
              /\ \E c \in DeploymentCodes \cap Injected :
                   IF Retryable(c) THEN Return(h) ELSE Goto(h, persistent)
              /\ UNCHANGED <<record, passedOver>>
           \/ /\ Fault
              /\ CasApplies(h, snap[h])
              /\ CasEffect(h, "EXPORT_FAILED")
              /\ Return(h)
              /\ UNCHANGED passedOver
        /\ UNCHANGED <<queueVars, pointer, manifest, readyEvents, failedEvents,
                       lock, lease, givenUp>>

-----------------------------------------------------------------------------
(* The export pipeline *)

\* Slip: a pipeline that ignores the request's createdAt.
ProduceUnstamped(h) ==
    /\ pc[h] = "produce"
    /\ NoFault
    /\ Goto(h, "createdAt")
    /\ UNCHANGED <<queueVars, serviceVars, lock, lease, givenUp, passedOver>>

\* export.go Export, up to the uploaded files: slug mapping, version-pinned
\* render, dependency harvest, output guards, upload.  The files are a
\* function of the pinned version, so only the failure is told apart.  A
\* request that carries createdAt fixes the manifest's digest.
Produce(h) ==
    /\ pc[h] = "produce"
    /\ \/ /\ NoFault
          /\ IF Stamp[Req(h)] # NoStamp
             THEN Proceed(h, "manifest", snap[h], NoCode, Stamp[Req(h)])
             ELSE Goto(h, "createdAt")
          /\ UNCHANGED <<givenUp, passedOver>>
       \/ /\ Fault
          /\ \E c \in ProduceCodes \cap Injected : Fail(h, c, snap[h])
    /\ UNCHANGED <<queueVars, serviceVars, lock, lease>>

\* export.go manifestCreatedAt for a request without createdAt: the stored
\* manifest's, and the clock when there is none or it could not be read.
ManifestCreatedAt(h) ==
    /\ pc[h] = "createdAt"
    /\ \/ /\ NoFault
          /\ manifest[Dep(h)] # NoStamp
          /\ Proceed(h, "manifest", snap[h], NoCode, manifest[Dep(h)])
       \/ /\ \/ manifest[Dep(h)] = NoStamp /\ NoFault
             \/ manifest[Dep(h)] # NoStamp /\ Fault
          /\ \E t \in Stamps : Proceed(h, "manifest", snap[h], NoCode, t)
    /\ UNCHANGED <<queueVars, serviceVars, lock, lease, givenUp, passedOver>>

\* export.go Export: build the manifest and upload it under its fixed key.
WriteManifest(h) ==
    /\ pc[h] = "manifest"
    /\ \/ /\ NoFault
          /\ manifest' = [manifest EXCEPT ![Dep(h)] = digest[h]]
          /\ Goto(h, "submit")
          /\ UNCHANGED <<givenUp, passedOver>>
       \/ /\ Fault
          /\ \/ UNCHANGED manifest
             \/ manifest' = [manifest EXCEPT ![Dep(h)] = digest[h]]
          /\ \E c \in StorageCodes \cap Injected : Fail(h, c, snap[h])
    /\ UNCHANGED <<queueVars, record, pointer, readyEvents, failedEvents,
                   lock, lease>>

\* deployment/client.go SubmitArtifact: the first pointer of a deployment is
\* registered, an identical one accepted, a different one refused with 409.
SubmitArtifact(h) ==
    LET registered == pointer[Dep(h)]
        accepted == registered \in {NoStamp, digest[h]}
        register == pointer' = [pointer EXCEPT ![Dep(h)] = digest[h]]
    IN  /\ pc[h] = "submit"
        /\ \/ /\ accepted
              /\ NoFault
              /\ register
              /\ Goto(h, "casReady")
              /\ UNCHANGED <<givenUp, passedOver>>
           \/ /\ ~accepted
              /\ NoFault
              /\ Fail(h, "VALIDATION_FAILED", snap[h])
              /\ UNCHANGED pointer
           \/ /\ Fault
              /\ UNCHANGED pointer
              /\ \E c \in DeploymentCodes \cap Injected : Fail(h, c, snap[h])
           \/ /\ Fault
              /\ accepted
              /\ register
              /\ Fail(h, "DEPLOYMENT_SERVICE_TIMEOUT", snap[h])
        /\ UNCHANGED <<queueVars, record, manifest, readyEvents, failedEvents,
                       lock, lease>>

\* Slip: the message is acked although the emission failed.
EmitReadyAcks(h) ==
    /\ pc[h] = "emitReady"
    /\ \/ /\ NoFault
          /\ readyEvents' = readyEvents \cup {[dep |-> Dep(h), digest |-> digest[h]]}
       \/ Fault /\ UNCHANGED readyEvents
    /\ Settle(h)
    /\ UNCHANGED <<queueVars, record, pointer, manifest, failedEvents, lock, lease,
                   givenUp, passedOver>>

\* emit.go: append deployment.artifact.ready.  Without an answer the message
\* stays pending (ErrReadyEmitPending, or the error of ReemitReady).
EmitReady(h) ==
    LET event == [dep |-> Dep(h), digest |-> digest[h]]
    IN  /\ pc[h] = "emitReady"
        /\ \/ /\ NoFault
              /\ readyEvents' = readyEvents \cup {event}
              /\ Settle(h)
           \/ /\ Fault
              /\ \/ UNCHANGED readyEvents
                 \/ readyEvents' = readyEvents \cup {event}
              /\ Return(h)
        /\ UNCHANGED <<queueVars, record, pointer, manifest, failedEvents,
                       lock, lease, givenUp, passedOver>>

-----------------------------------------------------------------------------
(* Handoffs, ack and return *)

\* processor.go scheduleRetry: write the envelope, then ack.
ScheduleRetry(h) ==
    LET env == [req |-> Req(h), attempt |-> Attempt(h) + 1, code |-> code[h]]
    IN  /\ pc[h] = "schedule"
        /\ \/ NoFault /\ ScheduleEffect(env) /\ Settle(h)
           \/ Fault /\ ScheduleEffect(env) /\ Return(h)
           \/ Fault /\ UNCHANGED queueVars /\ Return(h)
        /\ UNCHANGED <<serviceVars, lock, lease, givenUp, passedOver>>

\* processor.go unparseableToDLQ, fail and exhausted: hand off to the DLQ,
\* then ack, or first emit the failed event at exhaustion.
SendToDLQ(h) ==
    /\ pc[h] \in {"dlq", "dlqExhausted"}
    /\ \/ /\ NoFault
          /\ SendToDLQEffect(Req(h))
          /\ IF pc[h] = "dlq" THEN Settle(h) ELSE Goto(h, "emitFailed")
       \/ Fault /\ SendToDLQEffect(Req(h)) /\ Return(h)
       \/ Fault /\ UNCHANGED queueVars /\ Return(h)
    /\ UNCHANGED <<serviceVars, lock, lease, givenUp, passedOver>>

\* processor.go emitFailed: no event for a payload that never parsed; a
\* failed emission does not keep the message from being acked.
EmitFailed(h) ==
    /\ pc[h] = "emitFailed"
    /\ \/ /\ NoFault
          /\ failedEvents' = IF Kind[Req(h)] = "schema_invalid"
                             THEN failedEvents ELSE failedEvents \cup {Dep(h)}
       \/ Fault /\ UNCHANGED failedEvents
    /\ Settle(h)
    /\ UNCHANGED <<queueVars, record, pointer, manifest, readyEvents, lock,
                   lease, givenUp, passedOver>>

\* processor.go ack: XACK; its failure is logged and left to pending recovery.
Ack(h) ==
    /\ pc[h] = "ack"
    /\ \/ NoFault /\ AckEffect(msg[h])
       \/ Fault /\ UNCHANGED queueVars
    /\ Return(h)
    /\ UNCHANGED <<serviceVars, lock, lease, givenUp, passedOver>>

\* The deferred lease.Release: delete the lock if it still holds this
\* process's workerID; a failed release is left to the TTL.
Release(h) ==
    /\ pc[h] = "release"
    /\ \/ /\ NoFault
          /\ lock' = IF lock[Dep(h)] = WorkerOf[h]
                     THEN [lock EXCEPT ![Dep(h)] = Free] ELSE lock
       \/ Fault /\ UNCHANGED lock
    /\ lease' = [lease EXCEPT ![h] = FALSE]
    /\ pc' = [pc EXCEPT ![h] = "idle"]
    /\ msg' = [msg EXCEPT ![h] = 0]
    /\ UNCHANGED <<queueVars, serviceVars, snap, code, digest, givenUp, passedOver>>

HandlerStep(h) ==
    \/ Load(h) \/ ReemitReady(h) \/ AcquireLock(h) \/ CasExporting(h)
    \/ Produce(h) \/ ManifestCreatedAt(h) \/ WriteManifest(h)
    \/ SubmitArtifact(h) \/ CasReady(h) \/ EmitReady(h) \/ ScheduleRetry(h)
    \/ CasFailed(h) \/ SendToDLQ(h) \/ EmitFailed(h) \/ Ack(h) \/ Release(h)

-----------------------------------------------------------------------------
(* Processes, locks and the rest of the platform *)

Dispatch(w) ==
    /\ \/ DispatcherStep(w) /\ NoFault
       \/ DispatcherFault(w) /\ Fault
    /\ UNCHANGED <<serviceVars, localVars, lock, givenUp, passedOver>>

\* A process dies and restarts with a new workerID: its handlers and its
\* dispatcher tick are gone, its locks are nobody's until their TTL passes.
Crash(w) ==
    LET here(h) == WorkerOf[h] = w
    IN  /\ Fault
        /\ pc' = [h \in Handlers |-> IF here(h) THEN "idle" ELSE pc[h]]
        /\ msg' = [h \in Handlers |-> IF here(h) THEN 0 ELSE msg[h]]
        /\ snap' = [h \in Handlers |-> IF here(h) THEN NoStatus ELSE snap[h]]
        /\ code' = [h \in Handlers |-> IF here(h) THEN NoCode ELSE code[h]]
        /\ digest' = [h \in Handlers |-> IF here(h) THEN NoStamp ELSE digest[h]]
        /\ lease' = [h \in Handlers |-> IF here(h) THEN FALSE ELSE lease[h]]
        /\ lock' = [d \in Deployments |-> IF lock[d] = w THEN Orphan ELSE lock[d]]
        /\ slot' = [slot EXCEPT ![w] = IdleSlot]
        /\ UNCHANGED <<stream, lastDelivered, pending, payloads, retryIndex, dlq,
                       serviceVars, givenUp, passedOver>>

\* Does some heartbeat of the lock's owner renew it?
Renewed(d) ==
    \E h \in Handlers : lease[h] /\ Dep(h) = d /\ WorkerOf[h] = lock[d]

\* Slip: a lock written without a TTL outlives its process.
ExpireOwned(d) ==
    /\ lock[d] \notin {Free, Orphan}
    /\ IF Renewed(d) THEN Fault ELSE NoFault
    /\ lock' = [lock EXCEPT ![d] = Free]
    /\ UNCHANGED <<queueVars, serviceVars, localVars, givenUp, passedOver>>

\* The lock's TTL passes: without a heartbeat always, with one only when the
\* renewals fail for a whole TTL.
Expire(d) ==
    /\ lock[d] # Free
    /\ IF Renewed(d) THEN Fault ELSE NoFault
    /\ lock' = [lock EXCEPT ![d] = Free]
    /\ UNCHANGED <<queueVars, serviceVars, localVars, givenUp, passedOver>>

\* The producer publishes a request event.
RequestExport(r) ==
    /\ \A i \in 1..Len(stream) : stream[i].req # r
    /\ Publish(r, 0)
    /\ UNCHANGED <<slot, serviceVars, localVars, lock, givenUp, passedOver, faults>>

\* deployment-service queues the deployment, or it is cancelled.
QueueDeployment(d) ==
    /\ record[d] = "PENDING"
    /\ record' = [record EXCEPT ![d] = "EXPORT_QUEUED"]
    /\ UNCHANGED <<queueVars, pointer, manifest, readyEvents, failedEvents,
                   localVars, lock, givenUp, passedOver, faults>>

CancelDeployment(d) ==
    /\ record[d] \in {"PENDING", "EXPORT_QUEUED", "EXPORTING"}
    /\ record' = [record EXCEPT ![d] = "CANCELLED"]
    /\ UNCHANGED <<queueVars, pointer, manifest, readyEvents, failedEvents,
                   localVars, lock, givenUp, passedOver, faults>>

\* The CDN pipeline takes over a deployment whose ready event it has seen.
CdnAdvance(d) ==
    /\ record[d] = "ARTIFACT_READY"
    /\ \E e \in readyEvents : e.dep = d
    /\ record' = [record EXCEPT ![d] = "CDN_UPLOADING"]
    /\ UNCHANGED <<queueVars, pointer, manifest, readyEvents, failedEvents,
                   localVars, lock, givenUp, passedOver, faults>>

Platform ==
    \/ \E r \in Requests : RequestExport(r)
    \/ \E d \in Deployments :
         QueueDeployment(d) \/ CancelDeployment(d) \/ CdnAdvance(d)

Next ==
    \/ \E h \in Handlers :
         Fetch(h) \/ (\E i \in pending : Reclaim(h, i)) \/ HandlerStep(h)
    \/ \E w \in Workers : Dispatch(w) \/ Crash(w)
    \/ FetchReplyLost
    \/ \E d \in Deployments : Expire(d)
    \/ Platform

Spec == Init /\ [][Next]_vars

\* A handler inside Handle goes on (every call has a deadline); the consumer
\* and dispatcher loops of some worker run; the reclaim loop scans the pending
\* entries from the oldest and so comes to each of them; Redis expires a lock
\* that nobody renews.
Fairness ==
    /\ \A h \in Handlers : WF_vars(HandlerStep(h))
    /\ WF_vars(\E h \in Handlers : Fetch(h))
    /\ \A i \in 1..MaxStream : SF_vars(\E h \in Handlers : Reclaim(h, i))
    /\ \A w \in Workers : WF_vars(Dispatch(w))
    /\ \A d \in Deployments : WF_vars(Expire(d) /\ NoFault)

FairSpec == Spec /\ Fairness

-----------------------------------------------------------------------------
(* Safety *)

Settled(d) == NonActionable(record[d])
InDLQ(d)   == \E r \in dlq : DepOf[r] = d

\* Somebody still has to act for d: an entry the group owes an ack, or an
\* envelope the dispatchers will find.
WorkLeft(d) ==
    \/ \E i \in 1..Len(stream) : Outstanding(i) /\ DepOf[stream[i].req] = d
    \/ \E env \in payloads : Dispatchable(env) /\ DepOf[env.req] = d

\* A requested deployment is never forgotten: until its record is terminal or
\* its request is in the DLQ, an unacked entry or a dispatchable envelope
\* exists for it, whatever crashes, lost answers, stolen messages and racing
\* dispatchers come between (write-then-ack in scheduleRetry, exhausted and
\* fail; removal after re-enqueue in Tick).  The one exception is the path
\* recorded by givenUp.
NoLostWork ==
    \A d \in Deployments :
        Requested(d) => \/ Settled(d) \/ InDLQ(d) \/ d \in givenUp
                        \/ WorkLeft(d)

\* ReadyOrLater(d) by the worker's own CAS.
ReadyOrLater(d) == record[d] \in {"ARTIFACT_READY", "CDN_UPLOADING"}
Announced(d)    == \E e \in readyEvents : e.dep = d

\* A deployment never becomes ARTIFACT_READY in silence: its ready event was
\* emitted, or something is left whose handling will emit it (the redelivery
\* path of Handle), or its request is in the DLQ (CAS-then-emit, casReady and
\* ReemitReady).  It holds with one fault and without stealing, and no further:
\* a second fault refutes it (ReadyLost.cfg), because Tick removes an envelope
\* by an id that the envelope scheduled after the lost answer has as well.
\* What holds beyond is EveryRequestAccounted.
ReadyNotLost ==
    \A d \in Deployments :
        ReadyOrLater(d) => \/ Announced(d) \/ InDLQ(d) \/ d \in givenUp
                           \/ WorkLeft(d)

\* Every request is accounted for, with any number of faults and with stealing:
\* its deployment is announced, failed, cancelled, in the DLQ or given up, or
\* somebody still has to act for it.  What is left are the acks of a handler
\* that knows the deployment to be ARTIFACT_READY and trusts another one to
\* announce it (Handle's CAS conflict, casFailed's, a defective repetition of
\* the request): passedOver records them, and every silent loss of a ready
\* event goes through one of them.
EveryRequestAccounted ==
    \A d \in Deployments :
        Requested(d) => \/ Announced(d) \/ record[d] \in {"EXPORT_FAILED", "CANCELLED"}
                        \/ InDLQ(d) \/ d \in givenUp \/ d \in passedOver
                        \/ WorkLeft(d)

\* Every ready event carries the digest registered with deployment-service,
\* and that is the manifest a consumer finds in storage.  It needs the
\* deterministic createdAt of manifestCreatedAt: two runs of one deployment
\* must build the same bytes.
ReadyEventTruthful ==
    \A e \in readyEvents :
        /\ ReadyOrLater(e.dep)
        /\ e.digest = pointer[e.dep]
        /\ e.digest = manifest[e.dep]

-----------------------------------------------------------------------------
(* Refinement *)

Lifecycle == INSTANCE DeploymentLifecycle WITH
    Digests   <- Stamps,
    NoDigest  <- NoStamp,
    status    <- record,
    artifact  <- pointer,
    announced <- {e.dep : e \in readyEvents}

\* The fleet keeps the promise of DeploymentLifecycle under every
\* interleaving and fault: Transition and SubmitArtifact are its only writes,
\* and Export emits only after the CAS to ARTIFACT_READY.
ImplementsLifecycle == Lifecycle!Spec

-----------------------------------------------------------------------------
(* Liveness *)

\* Every requested deployment is eventually decided: terminal, in the DLQ, or
\* given up.
EventuallyDecided ==
    \A d \in Deployments :
        Requested(d) ~> (Settled(d) \/ InDLQ(d) \/ d \in givenUp)

\* A deployment that became ARTIFACT_READY is eventually announced, even when
\* the worker dies between the CAS and the emission.
EventuallyAnnounced ==
    \A d \in Deployments :
        ReadyOrLater(d) ~> (Announced(d) \/ InDLQ(d) \/ d \in givenUp)

\* No lock is held for ever, however its holder ended.
LockEventuallyFree == \A d \in Deployments : lock[d] # Free ~> lock[d] = Free

-----------------------------------------------------------------------------
(* What the repository says of the program, and the program does not keep *)

\* driver.go: a message is acked only after completion, a confirmed terminal
\* status, or a handoff.  NoLostWork without its exception: Handle acks a
\* message whose Load was answered 401, 403 or 404 (casFailed with rec = nil).
AckRule ==
    \A d \in Deployments :
        Requested(d) => Settled(d) \/ InDLQ(d) \/ WorkLeft(d)

\* processor.go: the failure event follows the successful EXPORT_FAILED
\* transition, so no ARTIFACT_READY deployment has one.  casFailed takes a 409
\* with ARTIFACT_READY for success.
FailedNeverReady ==
    \A d \in Deployments : ~(d \in failedEvents /\ ReadyOrLater(d))

\* config.go: a dry run performs no status writes.  The failure path of
\* Handle runs before the dry-run return.
DryRunWritesNoStatus ==
    DryRun => \A d \in Deployments :
        record[d] \in {"PENDING", "EXPORT_QUEUED", "CANCELLED"}
=============================================================================

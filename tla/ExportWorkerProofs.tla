------------------------- MODULE ExportWorkerProofs -------------------------
(***************************************************************************)
(* Type correctness of the fleet, for any number of deployments, requests, *)
(* processes, handlers, retries and faults, and the lemmas on the queue    *)
(* and on the local steps of a handler that the other proofs share; then   *)
(* the refinement of DeploymentLifecycle, what stands behind a ready       *)
(* deployment, that every request is accounted for and no work is lost,    *)
(* and that every ready event is truthful.                                 *)
(***************************************************************************)
EXTENDS ExportWorker, TLAPS

-----------------------------------------------------------------------------
(* The queue *)

\* What every step does to the main stream: entries are only appended, and
\* the group only moves forward.
StreamExtended ==
    /\ lastDelivered' \in Nat /\ lastDelivered <= lastDelivered'
    /\ Len(stream) <= Len(stream')
    /\ \A i \in 1..Len(stream) : stream'[i] = stream[i]

\* An unchanged queue is an extended one, of the same type.
LEMMA QueueStutter ==
    ASSUME QueueTypeOK, UNCHANGED queueVars
    PROVE  QueueTypeOK' /\ StreamExtended
  BY DEF QueueTypeOK, queueVars, StreamExtended, Messages, Envelopes, EnvelopeIDs,
         SlotStates

\* Publish appends one well-formed message and keeps the rest.
LEMMA PublishType ==
    ASSUME QueueTypeOK, NEW r \in Requests, NEW a \in 0..MaxRetries, Publish(r, a)
    PROVE  /\ stream' \in Seq(Messages)
           /\ Len(stream') = Len(stream) + 1
           /\ StreamExtended
<1>1. [req |-> r, attempt |-> a] \in Messages
  BY DEF Messages
<1> QED BY <1>1 DEF QueueTypeOK, Publish, StreamExtended

\* Fetch delivers the next entry.
LEMMA FetchType ==
    ASSUME QueueTypeOK, FetchEffect
    PROVE  QueueTypeOK' /\ StreamExtended /\ lastDelivered + 1 \in 1..lastDelivered'
  BY DEF QueueTypeOK, FetchEffect, StreamExtended

\* Ack only shrinks the pending set.
LEMMA AckType ==
    ASSUME QueueTypeOK, NEW id \in Nat, AckEffect(id)
    PROVE  QueueTypeOK' /\ StreamExtended
  BY DEF QueueTypeOK, AckEffect, StreamExtended

\* SendToDLQ only grows the dead-letter stream.
LEMMA SendToDLQType ==
    ASSUME QueueTypeOK, NEW r \in Requests, SendToDLQEffect(r)
    PROVE  QueueTypeOK' /\ StreamExtended
  BY DEF QueueTypeOK, SendToDLQEffect, StreamExtended

\* The id of a well-formed envelope is one of the ids.
LEMMA EnvelopeIDType ==
    ASSUME NEW env \in Envelopes PROVE EnvelopeID(env) \in EnvelopeIDs
  BY DepOfType DEF EnvelopeID, EnvelopeIDs, Envelopes

\* Schedule writes a well-formed envelope and its id.
LEMMA ScheduleType ==
    ASSUME QueueTypeOK, NEW env \in Envelopes, ScheduleEffect(env)
    PROVE  QueueTypeOK' /\ StreamExtended
<1>1. EnvelopeID(env) \in EnvelopeIDs
  BY EnvelopeIDType
<1> QED BY <1>1 DEF QueueTypeOK, ScheduleEffect, StreamExtended

\* Every step of a dispatcher tick, failed or not, keeps the queue's type and
\* extends the stream.
LEMMA DispatcherType ==
    ASSUME QueueTypeOK, NEW w \in Workers, DispatcherStep(w) \/ DispatcherFault(w)
    PROVE  QueueTypeOK' /\ StreamExtended
<1>0. slot \in [Workers -> SlotStates]
  BY DEF QueueTypeOK
<1>1. CASE DueIndex(w)
  <2>1. PICK id \in retryIndex : SetSlot(w, "indexed", id, NoReq)
    BY <1>1 DEF DueIndex
  <2>2. id \in EnvelopeIDs
    BY <2>1 DEF QueueTypeOK
  <2>3. [stage |-> "indexed", id |-> id, req |-> NoReq] \in SlotStates
    BY <2>2 DEF SlotStates, SlotStages
  <2> QED BY <1>0, <1>1, <2>1, <2>2, <2>3
          DEF DueIndex, SetSlot, QueueTypeOK, StreamExtended
<1>2. CASE DuePayload(w)
  <2>0. slot[w].id \in EnvelopeIDs
    BY <1>2 DEF DuePayload, QueueTypeOK
  <2>1. CASE \E env \in payloads : /\ EnvelopeID(env) = slot[w].id
                                  /\ SetSlot(w, "publish", slot[w].id, env.req)
    <3>1. PICK env \in payloads : /\ EnvelopeID(env) = slot[w].id
                                  /\ SetSlot(w, "publish", slot[w].id, env.req)
      BY <2>1
    <3>2. env.req \in Requests /\ DepOf[env.req] = slot[w].id[1]
      BY <3>1 DEF QueueTypeOK, Envelopes, EnvelopeID
    <3>3. [stage |-> "publish", id |-> slot[w].id, req |-> env.req] \in SlotStates
      BY <2>0, <3>2 DEF SlotStates, SlotStages
    <3> QED BY <1>0, <1>2, <2>0, <3>1, <3>2, <3>3
            DEF DuePayload, SetSlot, QueueTypeOK, StreamExtended
  <2>2. CASE SetSlot(w, "orphan", slot[w].id, NoReq)
    <3>1. [stage |-> "orphan", id |-> slot[w].id, req |-> NoReq] \in SlotStates
      BY <2>0 DEF SlotStates, SlotStages
    <3> QED BY <1>0, <1>2, <2>0, <2>2, <3>1
            DEF DuePayload, SetSlot, QueueTypeOK, StreamExtended
  <2> QED BY <1>2, <2>1, <2>2 DEF DuePayload
<1>3. IdleSlot \in SlotStates /\ IdleSlot.stage = "idle"
  BY DEF IdleSlot, SlotStates, SlotStages
<1>4. CASE DropOrphan(w)
  BY <1>0, <1>3, <1>4 DEF DropOrphan, FreeSlot, QueueTypeOK, StreamExtended
<1>5. ASSUME slot[w].stage = "publish"
      PROVE  slot[w].req \in Requests /\ slot[w].id[2] \in 0..MaxRetries
  BY <1>5, MaxRetriesType DEF QueueTypeOK, EnvelopeIDs
<1>6. CASE Republish(w)
  <2>1. /\ stream' \in Seq(Messages)
        /\ Len(stream') = Len(stream) + 1
        /\ StreamExtended
    BY <1>5, <1>6, PublishType DEF Republish
  <2>2. slot[w].id \in EnvelopeIDs
    BY <1>6 DEF Republish, QueueTypeOK
  <2>3. [stage |-> "remove", id |-> slot[w].id, req |-> slot[w].req] \in SlotStates
    BY <1>5, <1>6, <2>2 DEF Republish, SlotStates, SlotStages
  <2> QED BY <1>0, <1>5, <1>6, <2>1, <2>2, <2>3
          DEF Republish, Publish, SetSlot, QueueTypeOK
<1>7. CASE RepublishReplyLost(w)
  <2>1. /\ stream' \in Seq(Messages)
        /\ Len(stream') = Len(stream) + 1
        /\ StreamExtended
    BY <1>5, <1>7, PublishType DEF RepublishReplyLost
  <2> QED BY <1>0, <1>3, <1>7, <2>1
          DEF RepublishReplyLost, Publish, FreeSlot, QueueTypeOK
<1>8. CASE RemoveEnvelope(w)
  BY <1>0, <1>3, <1>8
     DEF RemoveEnvelope, RemoveEffect, FreeSlot, QueueTypeOK, StreamExtended
<1>9. CASE TickFails(w)
  BY <1>0, <1>3, <1>9 DEF TickFails, FreeSlot, QueueTypeOK, StreamExtended
<1> QED BY <1>1, <1>2, <1>4, <1>6, <1>7, <1>8, <1>9
        DEF DispatcherStep, DispatcherFault

-----------------------------------------------------------------------------
(* Local steps of a handler *)

\* The entry a handler works on was delivered, and is a well-formed message.
LEMMA EntryType ==
    ASSUME QueueTypeOK, HandlerTypeOK, NEW h \in Handlers, pc[h] # "idle"
    PROVE  /\ msg[h] \in 1..lastDelivered /\ msg[h] \in 1..Len(stream)
           /\ stream[msg[h]] \in Messages
           /\ Req(h) \in Requests /\ Attempt(h) \in 0..MaxRetries
           /\ Dep(h) \in Deployments
<1>1. msg[h] \in 1..lastDelivered
  BY DEF HandlerTypeOK
<1>2. stream \in Seq(Messages) /\ lastDelivered \in 0..Len(stream)
  BY DEF QueueTypeOK
<1>3. msg[h] \in 1..Len(stream)
  BY <1>1, <1>2
<1>4. stream[msg[h]] \in Messages
  BY <1>2, <1>3
<1>5. Req(h) \in Requests /\ Attempt(h) \in 0..MaxRetries
  BY <1>4 DEF Messages, Req, Attempt
<1> QED BY <1>1, <1>3, <1>4, <1>5, DepOfType DEF Dep

\* It stays where it is.
LEMMA EntryKept ==
    ASSUME QueueTypeOK, HandlerTypeOK, StreamExtended,
           NEW h \in Handlers, pc[h] # "idle"
    PROVE  msg[h] \in 1..lastDelivered' /\ stream'[msg[h]] = stream[msg[h]]
<1>1. msg[h] \in 1..lastDelivered /\ msg[h] \in 1..Len(stream)
  BY EntryType
<1>2. lastDelivered \in Nat /\ lastDelivered <= lastDelivered' /\ lastDelivered' \in Nat
  BY DEF QueueTypeOK, StreamExtended
<1> QED BY <1>1, <1>2 DEF StreamExtended

\* A handler is not disturbed by what others append or deliver.
LEMMA LocalKept ==
    ASSUME QueueTypeOK, HandlerTypeOK, StreamExtended, UNCHANGED localVars
    PROVE  HandlerTypeOK'
<1>1. ASSUME NEW h \in Handlers, pc[h] # "idle"
      PROVE  /\ msg[h] \in 1..lastDelivered'
             /\ stream'[msg[h]] = stream[msg[h]]
  BY <1>1, EntryKept
<1> QED BY <1>1 DEF HandlerTypeOK, localVars

\* Proceed leads to a well-typed state when the values it stores support the
\* call it goes on to.
LEMMA ProceedType ==
    ASSUME QueueTypeOK, HandlerTypeOK, StreamExtended,
           NEW h \in Handlers, pc[h] # "idle", lease' \in [Handlers -> BOOLEAN],
           NEW p \in PCs, NEW s \in Statuses \cup {NoStatus},
           NEW c \in JobCodes \cup {NoCode}, NEW g \in Stamps \cup {NoStamp},
           p \in {"casFailed", "casExhausted"} => Actionable(s),
           p = "schedule" => c \in RetryableCodes /\ Attempt(h) < MaxRetries,
           p \in BuiltPCs => g \in Stamps,
           Proceed(h, p, s, c, g)
    PROVE  HandlerTypeOK'
<1>1. ASSUME NEW k \in Handlers, pc[k] # "idle"
      PROVE  /\ msg[k] \in 1..lastDelivered'
             /\ stream'[msg[k]] = stream[msg[k]]
  BY <1>1, EntryKept
<1>2. /\ pc' \in [Handlers -> PCs] /\ msg' \in [Handlers -> Nat]
      /\ snap' \in [Handlers -> Statuses \cup {NoStatus}]
      /\ code' \in [Handlers -> JobCodes \cup {NoCode}]
      /\ digest' \in [Handlers -> Stamps \cup {NoStamp}]
  BY DEF Proceed, HandlerTypeOK
<1>3. ASSUME NEW k \in Handlers, k # h
      PROVE  /\ pc'[k] = pc[k] /\ snap'[k] = snap[k] /\ code'[k] = code[k]
             /\ digest'[k] = digest[k] /\ msg'[k] = msg[k]
  BY <1>3 DEF Proceed, HandlerTypeOK
<1>4. /\ pc'[h] = p /\ snap'[h] = s /\ code'[h] = c
      /\ digest'[h] = g /\ msg'[h] = msg[h]
  BY DEF Proceed, HandlerTypeOK
<1>5. ASSUME NEW k \in Handlers
      PROVE  /\ pc'[k] # "idle" => msg'[k] \in 1..lastDelivered'
             /\ pc'[k] \in {"casFailed", "casExhausted"} => Actionable(snap'[k])
             /\ pc'[k] = "schedule" => /\ code'[k] \in RetryableCodes
                                       /\ stream'[msg'[k]].attempt < MaxRetries
             /\ pc'[k] \in BuiltPCs => digest'[k] \in Stamps
  <2>1. CASE k = h
    BY <1>1, <1>4, <2>1 DEF Attempt
  <2>2. CASE k # h
    BY <1>1, <1>3, <2>2 DEF HandlerTypeOK
  <2> QED BY <2>1, <2>2
<1> QED BY <1>2, <1>5 DEF HandlerTypeOK, Actionable

\* The plain continuations: a call that needs nothing beyond the entry.
LEMMA GotoType ==
    ASSUME QueueTypeOK, HandlerTypeOK, StreamExtended,
           NEW h \in Handlers, pc[h] # "idle", lease' \in [Handlers -> BOOLEAN],
           NEW p \in PCs \ {"casFailed", "casExhausted", "schedule"},
           p \in BuiltPCs => digest[h] \in Stamps,
           Goto(h, p)
    PROVE  HandlerTypeOK'
<1>1. /\ snap[h] \in Statuses \cup {NoStatus} /\ code[h] \in JobCodes \cup {NoCode}
      /\ digest[h] \in Stamps \cup {NoStamp}
  BY DEF HandlerTypeOK
<1> QED BY <1>1, ProceedType DEF Goto

\* The decision to ack.
LEMMA SettleType ==
    ASSUME QueueTypeOK, HandlerTypeOK, StreamExtended,
           NEW h \in Handlers, pc[h] # "idle", lease' \in [Handlers -> BOOLEAN],
           Settle(h)
    PROVE  HandlerTypeOK'
<1>1. "ack" \in PCs /\ "ack" \notin BuiltPCs
  BY DEF PCs, BuiltPCs
<1> QED BY <1>1, ProceedType DEF Settle

\* The return from Handle.
LEMMA ReturnType ==
    ASSUME QueueTypeOK, HandlerTypeOK, StreamExtended,
           NEW h \in Handlers, pc[h] # "idle", lease' \in [Handlers -> BOOLEAN],
           Return(h)
    PROVE  HandlerTypeOK'
<1>1. ASSUME NEW k \in Handlers, pc[k] # "idle"
      PROVE  /\ msg[k] \in 1..lastDelivered'
             /\ stream'[msg[k]] = stream[msg[k]]
  BY <1>1, EntryKept
<1>2. /\ pc' \in [Handlers -> PCs] /\ msg' \in [Handlers -> Nat]
      /\ snap' \in [Handlers -> Statuses \cup {NoStatus}]
      /\ code' \in [Handlers -> JobCodes \cup {NoCode}]
      /\ digest' \in [Handlers -> Stamps \cup {NoStamp}]
  BY DEF Return, HandlerTypeOK, PCs
<1>3. ASSUME NEW k \in Handlers, k # h
      PROVE  /\ pc'[k] = pc[k] /\ snap'[k] = snap[k] /\ code'[k] = code[k]
             /\ digest'[k] = digest[k] /\ msg'[k] = msg[k]
  BY <1>3 DEF Return, HandlerTypeOK
<1>4. pc'[h] \in {"idle", "release"} /\ (pc'[h] = "release" => msg'[h] = msg[h])
  BY DEF Return, HandlerTypeOK
<1>5. ASSUME NEW k \in Handlers
      PROVE  /\ pc'[k] # "idle" => msg'[k] \in 1..lastDelivered'
             /\ pc'[k] \in {"casFailed", "casExhausted"} => Actionable(snap'[k])
             /\ pc'[k] = "schedule" => /\ code'[k] \in RetryableCodes
                                       /\ stream'[msg'[k]].attempt < MaxRetries
             /\ pc'[k] \in BuiltPCs => digest'[k] \in Stamps
  <2>1. CASE k = h
    BY <1>1, <1>4, <2>1 DEF BuiltPCs
  <2>2. CASE k # h
    BY <1>1, <1>3, <2>2 DEF HandlerTypeOK
  <2> QED BY <2>1, <2>2
<1> QED BY <1>2, <1>5 DEF HandlerTypeOK, Actionable

\* A failure leads to the branch its code, its attempt and the loaded status
\* call for.
LEMMA FailType ==
    ASSUME QueueTypeOK, HandlerTypeOK, StreamExtended, givenUp \subseteq Deployments,
           NEW h \in Handlers, pc[h] # "idle", lease' \in [Handlers -> BOOLEAN],
           NEW c \in JobCodes, NEW s \in Statuses \cup {NoStatus},
           Fail(h, c, s)
    PROVE  HandlerTypeOK' /\ givenUp' \subseteq Deployments
<1>2. Attempt(h) \in 0..MaxRetries /\ Dep(h) \in Deployments
  BY EntryType
<1>3. FailBranch(h, c, s) \in {"casExhausted", "dlqExhausted", "schedule",
                               "casFailed", "emitFailed"}
  BY DEF FailBranch
<1>4. /\ FailBranch(h, c, s) \in {"casFailed", "casExhausted"} => Actionable(s)
      /\ FailBranch(h, c, s) = "schedule" => c \in RetryableCodes /\ Attempt(h) < MaxRetries
  BY <1>2, MaxRetriesType DEF FailBranch, Retryable
<1>5. FailBranch(h, c, s) \in PCs /\ FailBranch(h, c, s) \notin BuiltPCs
  BY <1>3 DEF PCs, BuiltPCs
<1>6. HandlerTypeOK'
  BY <1>4, <1>5, ProceedType DEF Fail
<1> QED BY <1>2, <1>6 DEF Fail

-----------------------------------------------------------------------------
(* Type correctness, action by action *)

\* The codes the actions fail with are job codes.
LEMMA CodesTyped ==
    /\ DeploymentCodes \subseteq JobCodes
    /\ StorageCodes \subseteq JobCodes
    /\ ProduceCodes \subseteq JobCodes
    /\ "VALIDATION_FAILED" \in JobCodes
    /\ "QUEUE_TEMPORARY_FAILURE" \in JobCodes
    /\ "DEPLOYMENT_SERVICE_TIMEOUT" \in JobCodes
  BY DEF JobCodes, ProduceCodes, DeploymentCodes, StorageCodes

\* The count of faults stays within its bound.
LEMMA FaultType ==
    ASSUME ServiceTypeOK, Fault \/ NoFault PROVE faults' \in 0..MaxFaults
  BY MaxFaultsType DEF ServiceTypeOK, Fault, NoFault

\* passedOver grows by the deployment at hand or not at all.
LEMMA PassedOverStep ==
    ASSUME NEW h \in Handlers, HandlerStep(h)
    PROVE  passedOver' \in {passedOver, passedOver \cup {Dep(h)}}
<1>1. ASSUME NEW c, NEW t, Fail(h, c, t)
      PROVE  passedOver' \in {passedOver, passedOver \cup {Dep(h)}}
  BY <1>1 DEF Fail, PassOver
<1>2. CASE Load(h)
  <2>1. CASE Fault
    BY <1>1, <1>2, <2>1 DEF Load, Decide, Fail, PassOver
  <2>2. CASE NoFault
    BY <1>1, <1>2, <2>2 DEF Load, Decide, Fail, PassOver
  <2> QED BY <1>2, <2>1, <2>2 DEF Load
<1>3. CASE AcquireLock(h) \/ Produce(h)
  BY <1>3 DEF AcquireLock, Produce, Fail, PassOver
<1>4. CASE CasExporting(h)
  BY <1>4 DEF CasExporting, Fail, PassOver
<1>5. CASE CasReady(h)
  BY <1>5 DEF CasReady, Fail, PassOver
<1>6. CASE CasFailed(h)
  BY <1>6 DEF CasFailed, PassOver
<1>7. CASE WriteManifest(h) \/ SubmitArtifact(h)
  BY <1>7 DEF WriteManifest, SubmitArtifact, Fail, PassOver
<1>8. CASE \/ ReemitReady(h) \/ ManifestCreatedAt(h) \/ EmitReady(h) \/ ScheduleRetry(h)
           \/ SendToDLQ(h) \/ EmitFailed(h) \/ Ack(h) \/ Release(h)
  BY <1>8 DEF ReemitReady, ManifestCreatedAt, EmitReady, ScheduleRetry, SendToDLQ,
       EmitFailed, Ack, Release
<1> QED BY <1>2, <1>3, <1>4, <1>5, <1>6, <1>7, <1>8 DEF HandlerStep

\* So passedOver stays a set of deployments.
LEMMA PassedOverType ==
    ASSUME TypeOK, NEW h \in Handlers, pc[h] # "idle", HandlerStep(h)
    PROVE  passedOver' \subseteq Deployments
<1>1. Dep(h) \in Deployments
  BY EntryType DEF TypeOK
<1> QED BY <1>1, PassedOverStep DEF TypeOK, ServiceTypeOK

\* A step that leaves the services alone.
LEMMA ServicesKept ==
    ASSUME ServiceTypeOK, UNCHANGED <<serviceVars, lock>>,
           givenUp' \subseteq Deployments, passedOver' \subseteq Deployments,
           faults' \in 0..MaxFaults
    PROVE  ServiceTypeOK'
  BY DEF ServiceTypeOK, serviceVars

\* Delivery of entry i to an idle handler.
LEMMA StartType ==
    ASSUME QueueTypeOK, QueueTypeOK', ServiceTypeOK, HandlerTypeOK, StreamExtended,
           NEW h \in Handlers, pc[h] = "idle", NEW i \in 1..lastDelivered', Start(h, i)
    PROVE  ServiceTypeOK' /\ HandlerTypeOK'
<1>1. ServiceTypeOK'
  BY DEF Start, ServiceTypeOK, serviceVars
<1>2. /\ pc' \in [Handlers -> PCs] /\ msg' \in [Handlers -> Nat]
      /\ snap' \in [Handlers -> Statuses \cup {NoStatus}]
      /\ digest' \in [Handlers -> Stamps \cup {NoStamp}]
      /\ lease' \in [Handlers -> BOOLEAN]
  BY DEF Start, HandlerTypeOK, PCs
<1>3. code' \in [Handlers -> JobCodes \cup {NoCode}]
  BY CodesTyped DEF Start, HandlerTypeOK
<1>4. ASSUME NEW k \in Handlers
      PROVE  /\ pc'[k] # "idle" => msg'[k] \in 1..lastDelivered'
             /\ pc'[k] \in {"casFailed", "casExhausted"} => Actionable(snap'[k])
             /\ pc'[k] = "schedule" => /\ code'[k] \in RetryableCodes
                                       /\ stream'[msg'[k]].attempt < MaxRetries
             /\ pc'[k] \in BuiltPCs => digest'[k] \in Stamps
  <2>1. CASE k = h
    <3>1. pc'[h] \in {"dlq", "load"} /\ msg'[h] = i
      BY DEF Start, HandlerTypeOK
    <3> QED BY <2>1, <3>1 DEF BuiltPCs
  <2>2. CASE k # h
    <3>1. /\ pc'[k] = pc[k] /\ snap'[k] = snap[k] /\ code'[k] = code[k]
          /\ digest'[k] = digest[k] /\ msg'[k] = msg[k]
      BY <2>2 DEF Start, HandlerTypeOK
    <3>2. pc[k] # "idle" => /\ msg[k] \in 1..lastDelivered'
                            /\ stream'[msg[k]] = stream[msg[k]]
      BY EntryKept
    <3> QED BY <3>1, <3>2 DEF HandlerTypeOK
  <2> QED BY <2>1, <2>2
<1> QED BY <1>1, <1>2, <1>3, <1>4 DEF HandlerTypeOK, Actionable

\* Fetch and Reclaim.
LEMMA DeliveryType ==
    ASSUME TypeOK, NEW h \in Handlers,
           Fetch(h) \/ \E i \in pending : Reclaim(h, i)
    PROVE  TypeOK'
<1>1. CASE Fetch(h)
  <2>1. /\ QueueTypeOK' /\ StreamExtended
        /\ lastDelivered + 1 \in 1..lastDelivered'
    BY <1>1, FetchType DEF Fetch, TypeOK
  <2> QED BY <1>1, <2>1, StartType DEF Fetch, TypeOK
<1>2. ASSUME NEW i \in pending, Reclaim(h, i) PROVE TypeOK'
  <2>1. QueueTypeOK' /\ StreamExtended
    BY <1>2, QueueStutter DEF Reclaim, TypeOK
  <2>2. i \in 1..lastDelivered'
    BY <1>2 DEF TypeOK, QueueTypeOK, Reclaim, queueVars
  <2> QED BY <1>2, <2>1, <2>2, StartType DEF Reclaim, TypeOK
<1> QED BY <1>1, <1>2

\* Load, with every decision that follows it.
LEMMA LoadType ==
    ASSUME TypeOK, NEW h \in Handlers, Load(h) PROVE TypeOK'
<1>0. pc[h] # "idle" /\ QueueTypeOK /\ ServiceTypeOK /\ HandlerTypeOK
  BY DEF TypeOK, Load
<1>1. QueueTypeOK' /\ StreamExtended
  BY <1>0, QueueStutter DEF Load
<1>2. lease' \in [Handlers -> BOOLEAN] /\ faults' \in 0..MaxFaults
  BY <1>0, FaultType DEF Load, HandlerTypeOK
<1>3. givenUp \subseteq Deployments /\ snap[h] \in Statuses \cup {NoStatus}
  BY <1>0 DEF ServiceTypeOK, HandlerTypeOK
<1>4. Dep(h) \in Deployments /\ Req(h) \in Requests
  BY <1>0, EntryType
<1>5. record[Dep(h)] \in Statuses
  BY <1>0, <1>4 DEF ServiceTypeOK
<1>6. HandlerTypeOK' /\ givenUp' \subseteq Deployments
  <2>1. ASSUME NEW c \in JobCodes, NEW t \in Statuses \cup {NoStatus}, Fail(h, c, t)
        PROVE  HandlerTypeOK' /\ givenUp' \subseteq Deployments
    BY <1>0, <1>1, <1>2, <1>3, <2>1, FailType
  <2>2. ASSUME Goto(h, "reemit"), UNCHANGED givenUp
        PROVE  HandlerTypeOK' /\ givenUp' \subseteq Deployments
    <3>1. "reemit" \in PCs /\ "reemit" \notin BuiltPCs
      BY DEF PCs, BuiltPCs
    <3> QED BY <1>0, <1>1, <1>2, <1>3, <2>2, <3>1, GotoType
  <2>3. ASSUME Settle(h), UNCHANGED givenUp
        PROVE  HandlerTypeOK' /\ givenUp' \subseteq Deployments
    BY <1>0, <1>1, <1>2, <1>3, <2>3, SettleType
  <2>4. ASSUME Proceed(h, "lock", record[Dep(h)], NoCode, NoStamp), UNCHANGED givenUp
        PROVE  HandlerTypeOK' /\ givenUp' \subseteq Deployments
    <3>1. "lock" \in PCs /\ "lock" \notin BuiltPCs
      BY DEF PCs, BuiltPCs
    <3> QED BY <1>0, <1>1, <1>2, <1>3, <1>5, <2>4, <3>1, ProceedType
  <2> QED BY <1>5, <2>1, <2>2, <2>3, <2>4, CodesTyped DEF Load, Decide
<1>9. passedOver' \subseteq Deployments
  BY <1>0, PassedOverType DEF HandlerStep
<1> QED BY <1>9, <1>0, <1>1, <1>2, <1>6, ServicesKept DEF Load, TypeOK

\* ReemitReady.
LEMMA ReemitReadyType ==
    ASSUME TypeOK, NEW h \in Handlers, ReemitReady(h) PROVE TypeOK'
<1>0. pc[h] # "idle" /\ QueueTypeOK /\ ServiceTypeOK /\ HandlerTypeOK
  BY DEF TypeOK, ReemitReady
<1>1. QueueTypeOK' /\ StreamExtended
  BY <1>0, QueueStutter DEF ReemitReady
<1>2. lease' \in [Handlers -> BOOLEAN] /\ faults' \in 0..MaxFaults
  BY <1>0, FaultType DEF ReemitReady, HandlerTypeOK
<1>3. givenUp \subseteq Deployments /\ snap[h] \in Statuses \cup {NoStatus}
  BY <1>0 DEF ServiceTypeOK, HandlerTypeOK
<1>4. Dep(h) \in Deployments /\ Req(h) \in Requests
  BY <1>0, EntryType
<1>5. manifest[Dep(h)] \in Stamps \cup {NoStamp}
  BY <1>0, <1>4 DEF ServiceTypeOK
<1>6. HandlerTypeOK'
  <2>1. CASE Settle(h)
    BY <1>0, <1>1, <1>2, <2>1, SettleType
  <2>2. CASE Return(h)
    BY <1>0, <1>1, <1>2, <2>2, ReturnType
  <2>3. ASSUME manifest[Dep(h)] # NoStamp,
               Proceed(h, "emitReady", snap[h], NoCode, manifest[Dep(h)])
        PROVE  HandlerTypeOK'
    <3>1. "emitReady" \in PCs
      BY DEF PCs
    <3> QED BY <1>0, <1>1, <1>2, <1>3, <1>5, <2>3, <3>1, ProceedType
  <2> QED BY <2>1, <2>2, <2>3 DEF ReemitReady
<1>9. passedOver' \subseteq Deployments
  BY <1>0, PassedOverType DEF HandlerStep
<1> QED BY <1>9, <1>0, <1>1, <1>2, <1>3, <1>6, ServicesKept DEF ReemitReady, TypeOK

\* AcquireLock.
LEMMA AcquireLockType ==
    ASSUME TypeOK, NEW h \in Handlers, AcquireLock(h) PROVE TypeOK'
<1>0. pc[h] # "idle" /\ QueueTypeOK /\ ServiceTypeOK /\ HandlerTypeOK
  BY DEF TypeOK, AcquireLock
<1>1. QueueTypeOK' /\ StreamExtended
  BY <1>0, QueueStutter DEF AcquireLock
<1>2. lease' \in [Handlers -> BOOLEAN]
  BY <1>0 DEF AcquireLock, HandlerTypeOK
<1>3. givenUp \subseteq Deployments /\ snap[h] \in Statuses \cup {NoStatus}
  BY <1>0 DEF ServiceTypeOK, HandlerTypeOK
<1>4. Dep(h) \in Deployments /\ WorkerOf[h] \in Workers
  BY <1>0, EntryType, WorkerOfType
<1>5. lock' \in [Deployments -> Workers \cup {Free, Orphan}]
  BY <1>0, <1>4 DEF AcquireLock, ServiceTypeOK
<1>6. faults' \in 0..MaxFaults
  BY <1>0, FaultType DEF AcquireLock
<1>7. HandlerTypeOK' /\ givenUp' \subseteq Deployments
  <2>1. CASE Settle(h) /\ givenUp' = givenUp \cup {Dep(h)}
    BY <1>0, <1>1, <1>2, <1>3, <1>4, <2>1, SettleType
  <2>2. ASSUME NEW p \in {"casExporting", "produce"}, Goto(h, p), UNCHANGED givenUp
        PROVE  HandlerTypeOK' /\ givenUp' \subseteq Deployments
    <3>1. /\ p \in PCs \ {"casFailed", "casExhausted", "schedule"}
          /\ p \notin BuiltPCs
      BY DEF PCs, BuiltPCs
    <3> QED BY <1>0, <1>1, <1>2, <1>3, <2>2, <3>1, GotoType
  <2>3. CASE Return(h) /\ UNCHANGED givenUp
    BY <1>0, <1>1, <1>2, <1>3, <2>3, ReturnType
  <2>4. CASE Fail(h, "QUEUE_TEMPORARY_FAILURE", snap[h])
    BY <1>0, <1>1, <1>2, <1>3, <2>4, FailType, CodesTyped
  <2> QED BY <2>1, <2>2, <2>3, <2>4 DEF AcquireLock
<1>9. passedOver' \subseteq Deployments
  BY <1>0, PassedOverType DEF HandlerStep
<1> QED BY <1>9, <1>0, <1>1, <1>5, <1>6, <1>7 DEF AcquireLock, TypeOK, ServiceTypeOK, serviceVars

\* CasExporting.
LEMMA CasExportingType ==
    ASSUME TypeOK, NEW h \in Handlers, CasExporting(h) PROVE TypeOK'
<1>0. pc[h] # "idle" /\ QueueTypeOK /\ ServiceTypeOK /\ HandlerTypeOK
  BY DEF TypeOK, CasExporting
<1>1. QueueTypeOK' /\ StreamExtended
  BY <1>0, QueueStutter DEF CasExporting
<1>2. lease' \in [Handlers -> BOOLEAN] /\ faults' \in 0..MaxFaults
  BY <1>0, FaultType DEF CasExporting, HandlerTypeOK
<1>3. givenUp \subseteq Deployments /\ snap[h] \in Statuses \cup {NoStatus}
  BY <1>0 DEF ServiceTypeOK, HandlerTypeOK
<1>4. Dep(h) \in Deployments /\ Req(h) \in Requests
  BY <1>0, EntryType
<1>5. record' \in [Deployments -> Statuses]
  BY <1>0, <1>4 DEF CasExporting, CasEffect, ServiceTypeOK, Statuses
<1>6. HandlerTypeOK' /\ givenUp' \subseteq Deployments
  <2>1. ASSUME NEW c \in JobCodes, Fail(h, c, snap[h])
        PROVE  HandlerTypeOK' /\ givenUp' \subseteq Deployments
    BY <1>0, <1>1, <1>2, <1>3, <2>1, FailType
  <2>2. ASSUME Proceed(h, "produce", "EXPORTING", NoCode, NoStamp), UNCHANGED givenUp
        PROVE  HandlerTypeOK' /\ givenUp' \subseteq Deployments
    <3>1. "produce" \in PCs /\ "produce" \notin BuiltPCs /\ "EXPORTING" \in Statuses
      BY DEF PCs, BuiltPCs, Statuses
    <3> QED BY <1>0, <1>1, <1>2, <1>3, <2>2, <3>1, ProceedType
  <2>3. ASSUME Settle(h) \/ Return(h), UNCHANGED givenUp
        PROVE  HandlerTypeOK' /\ givenUp' \subseteq Deployments
    BY <1>0, <1>1, <1>2, <1>3, <2>3, SettleType, ReturnType
  <2> QED BY <2>1, <2>2, <2>3, CodesTyped DEF CasExporting
<1>9. passedOver' \subseteq Deployments
  BY <1>0, PassedOverType DEF HandlerStep
<1> QED BY <1>9, <1>0, <1>1, <1>2, <1>5, <1>6 DEF CasExporting, TypeOK, ServiceTypeOK

\* CasReady.
LEMMA CasReadyType ==
    ASSUME TypeOK, NEW h \in Handlers, CasReady(h) PROVE TypeOK'
<1>0. pc[h] # "idle" /\ QueueTypeOK /\ ServiceTypeOK /\ HandlerTypeOK
  BY DEF TypeOK, CasReady
<1>1. QueueTypeOK' /\ StreamExtended
  BY <1>0, QueueStutter DEF CasReady
<1>2. lease' \in [Handlers -> BOOLEAN] /\ faults' \in 0..MaxFaults
  BY <1>0, FaultType DEF CasReady, HandlerTypeOK
<1>3. givenUp \subseteq Deployments /\ snap[h] \in Statuses \cup {NoStatus}
  BY <1>0 DEF ServiceTypeOK, HandlerTypeOK
<1>4. Dep(h) \in Deployments /\ Req(h) \in Requests
  BY <1>0, EntryType
<1>5. record' \in [Deployments -> Statuses]
  BY <1>0, <1>4 DEF CasReady, CasEffect, ServiceTypeOK, Statuses
<1>6. HandlerTypeOK' /\ givenUp' \subseteq Deployments
  <2>1. ASSUME NEW c \in JobCodes, Fail(h, c, snap[h])
        PROVE  HandlerTypeOK' /\ givenUp' \subseteq Deployments
    BY <1>0, <1>1, <1>2, <1>3, <2>1, FailType
  <2>2. ASSUME Goto(h, "emitReady"), UNCHANGED givenUp
        PROVE  HandlerTypeOK' /\ givenUp' \subseteq Deployments
    <3>1. "emitReady" \in PCs \ {"casFailed", "casExhausted", "schedule"}
      BY DEF PCs
    <3>2. digest[h] \in Stamps
      BY <1>0 DEF CasReady, HandlerTypeOK, BuiltPCs
    <3> QED BY <1>0, <1>1, <1>2, <1>3, <2>2, <3>1, <3>2, GotoType
  <2>3. ASSUME Settle(h), UNCHANGED givenUp
        PROVE  HandlerTypeOK' /\ givenUp' \subseteq Deployments
    BY <1>0, <1>1, <1>2, <1>3, <2>3, SettleType
  <2> QED BY <2>1, <2>2, <2>3, CodesTyped DEF CasReady
<1>9. passedOver' \subseteq Deployments
  BY <1>0, PassedOverType DEF HandlerStep
<1> QED BY <1>9, <1>0, <1>1, <1>2, <1>5, <1>6 DEF CasReady, TypeOK, ServiceTypeOK

\* CasFailed.
LEMMA CasFailedType ==
    ASSUME TypeOK, NEW h \in Handlers, CasFailed(h) PROVE TypeOK'
<1>0. pc[h] # "idle" /\ QueueTypeOK /\ ServiceTypeOK /\ HandlerTypeOK
  BY DEF TypeOK, CasFailed
<1>1. QueueTypeOK' /\ StreamExtended
  BY <1>0, QueueStutter DEF CasFailed
<1>2. lease' \in [Handlers -> BOOLEAN] /\ faults' \in 0..MaxFaults
  BY <1>0, FaultType DEF CasFailed, HandlerTypeOK
<1>3. givenUp \subseteq Deployments /\ snap[h] \in Statuses \cup {NoStatus}
  BY <1>0 DEF ServiceTypeOK, HandlerTypeOK
<1>4. Dep(h) \in Deployments /\ Req(h) \in Requests
  BY <1>0, EntryType
<1>5. record' \in [Deployments -> Statuses]
  BY <1>0, <1>4 DEF CasFailed, CasEffect, ServiceTypeOK, Statuses
<1>6. HandlerTypeOK'
  <2>1. ASSUME NEW p \in {"emitFailed", "dlq", "dlqExhausted"}, Goto(h, p)
        PROVE  HandlerTypeOK'
    <3>1. p \in PCs \ {"casFailed", "casExhausted", "schedule"} /\ p \notin BuiltPCs
      BY DEF PCs, BuiltPCs
    <3> QED BY <1>0, <1>1, <1>2, <2>1, <3>1, GotoType
  <2>2. CASE Return(h)
    BY <1>0, <1>1, <1>2, <2>2, ReturnType
  <2> QED BY <2>1, <2>2 DEF CasFailed
<1>9. passedOver' \subseteq Deployments
  BY <1>0, PassedOverType DEF HandlerStep
<1> QED BY <1>9, <1>0, <1>1, <1>2, <1>3, <1>5, <1>6 DEF CasFailed, TypeOK, ServiceTypeOK

\* Produce.
LEMMA ProduceType ==
    ASSUME TypeOK, NEW h \in Handlers, Produce(h) PROVE TypeOK'
<1>0. pc[h] # "idle" /\ QueueTypeOK /\ ServiceTypeOK /\ HandlerTypeOK
  BY DEF TypeOK, Produce
<1>1. QueueTypeOK' /\ StreamExtended
  BY <1>0, QueueStutter DEF Produce
<1>2. lease' \in [Handlers -> BOOLEAN] /\ faults' \in 0..MaxFaults
  BY <1>0, FaultType DEF Produce, HandlerTypeOK
<1>3. givenUp \subseteq Deployments /\ snap[h] \in Statuses \cup {NoStatus}
  BY <1>0 DEF ServiceTypeOK, HandlerTypeOK
<1>4. Dep(h) \in Deployments /\ Req(h) \in Requests
  BY <1>0, EntryType
<1>5. HandlerTypeOK' /\ givenUp' \subseteq Deployments
  <2>1. ASSUME NEW c \in JobCodes, Fail(h, c, snap[h])
        PROVE  HandlerTypeOK' /\ givenUp' \subseteq Deployments
    BY <1>0, <1>1, <1>2, <1>3, <2>1, FailType
  <2>2. ASSUME Stamp[Req(h)] # NoStamp, UNCHANGED givenUp,
               Proceed(h, "manifest", snap[h], NoCode, Stamp[Req(h)])
        PROVE  HandlerTypeOK' /\ givenUp' \subseteq Deployments
    <3>1. Stamp[Req(h)] \in Stamps
      BY <1>4, <2>2, StampType
    <3>2. "manifest" \in PCs
      BY DEF PCs
    <3> QED BY <1>0, <1>1, <1>2, <1>3, <2>2, <3>1, <3>2, ProceedType
  <2>3. ASSUME Goto(h, "createdAt"), UNCHANGED givenUp
        PROVE  HandlerTypeOK' /\ givenUp' \subseteq Deployments
    <3>1. "createdAt" \in PCs \ {"casFailed", "casExhausted", "schedule"}
      BY DEF PCs
    <3>2. "createdAt" \notin BuiltPCs
      BY DEF BuiltPCs
    <3> QED BY <1>0, <1>1, <1>2, <1>3, <2>3, <3>1, <3>2, GotoType
  <2> QED BY <2>1, <2>2, <2>3, CodesTyped DEF Produce
<1>9. passedOver' \subseteq Deployments
  BY <1>0, PassedOverType DEF HandlerStep
<1> QED BY <1>9, <1>0, <1>1, <1>2, <1>5, ServicesKept DEF Produce, TypeOK

\* ManifestCreatedAt.
LEMMA ManifestCreatedAtType ==
    ASSUME TypeOK, NEW h \in Handlers, ManifestCreatedAt(h) PROVE TypeOK'
<1>0. pc[h] # "idle" /\ QueueTypeOK /\ ServiceTypeOK /\ HandlerTypeOK
  BY DEF TypeOK, ManifestCreatedAt
<1>1. QueueTypeOK' /\ StreamExtended
  BY <1>0, QueueStutter DEF ManifestCreatedAt
<1>2. lease' \in [Handlers -> BOOLEAN] /\ faults' \in 0..MaxFaults
  BY <1>0, FaultType DEF ManifestCreatedAt, HandlerTypeOK
<1>3. givenUp \subseteq Deployments /\ snap[h] \in Statuses \cup {NoStatus}
  BY <1>0 DEF ServiceTypeOK, HandlerTypeOK
<1>4. Dep(h) \in Deployments /\ Req(h) \in Requests
  BY <1>0, EntryType
<1>5. manifest[Dep(h)] \in Stamps \cup {NoStamp}
  BY <1>0, <1>4 DEF ServiceTypeOK
<1>6. PICK t \in Stamps : Proceed(h, "manifest", snap[h], NoCode, t)
  BY <1>5 DEF ManifestCreatedAt
<1>7. "manifest" \in PCs
  BY DEF PCs
<1>8. HandlerTypeOK'
  BY <1>0, <1>1, <1>2, <1>3, <1>6, <1>7, ProceedType
<1>9. passedOver' \subseteq Deployments
  BY <1>0, PassedOverType DEF HandlerStep
<1> QED BY <1>9, <1>0, <1>1, <1>2, <1>3, <1>8, ServicesKept DEF ManifestCreatedAt, TypeOK

\* WriteManifest.
LEMMA WriteManifestType ==
    ASSUME TypeOK, NEW h \in Handlers, WriteManifest(h) PROVE TypeOK'
<1>0. pc[h] # "idle" /\ QueueTypeOK /\ ServiceTypeOK /\ HandlerTypeOK
  BY DEF TypeOK, WriteManifest
<1>1. QueueTypeOK' /\ StreamExtended
  BY <1>0, QueueStutter DEF WriteManifest
<1>2. lease' \in [Handlers -> BOOLEAN] /\ faults' \in 0..MaxFaults
  BY <1>0, FaultType DEF WriteManifest, HandlerTypeOK
<1>3. givenUp \subseteq Deployments /\ snap[h] \in Statuses \cup {NoStatus}
  BY <1>0 DEF ServiceTypeOK, HandlerTypeOK
<1>4. Dep(h) \in Deployments /\ Req(h) \in Requests
  BY <1>0, EntryType
<1>5. digest[h] \in Stamps
  BY <1>0 DEF WriteManifest, HandlerTypeOK, BuiltPCs
<1>6. manifest' \in [Deployments -> Stamps \cup {NoStamp}]
  BY <1>0, <1>4, <1>5 DEF WriteManifest, ServiceTypeOK
<1>7. HandlerTypeOK' /\ givenUp' \subseteq Deployments
  <2>1. ASSUME NEW c \in JobCodes, Fail(h, c, snap[h])
        PROVE  HandlerTypeOK' /\ givenUp' \subseteq Deployments
    BY <1>0, <1>1, <1>2, <1>3, <2>1, FailType
  <2>2. ASSUME Goto(h, "submit"), UNCHANGED givenUp
        PROVE  HandlerTypeOK' /\ givenUp' \subseteq Deployments
    <3>1. "submit" \in PCs \ {"casFailed", "casExhausted", "schedule"}
      BY DEF PCs
    <3> QED BY <1>0, <1>1, <1>2, <1>3, <1>5, <2>2, <3>1, GotoType
  <2> QED BY <2>1, <2>2, CodesTyped DEF WriteManifest
<1>9. passedOver' \subseteq Deployments
  BY <1>0, PassedOverType DEF HandlerStep
<1> QED BY <1>9, <1>0, <1>1, <1>2, <1>6, <1>7 DEF WriteManifest, TypeOK, ServiceTypeOK

\* SubmitArtifact.
LEMMA SubmitArtifactType ==
    ASSUME TypeOK, NEW h \in Handlers, SubmitArtifact(h) PROVE TypeOK'
<1>0. pc[h] # "idle" /\ QueueTypeOK /\ ServiceTypeOK /\ HandlerTypeOK
  BY DEF TypeOK, SubmitArtifact
<1>1. QueueTypeOK' /\ StreamExtended
  BY <1>0, QueueStutter DEF SubmitArtifact
<1>2. lease' \in [Handlers -> BOOLEAN] /\ faults' \in 0..MaxFaults
  BY <1>0, FaultType DEF SubmitArtifact, HandlerTypeOK
<1>3. givenUp \subseteq Deployments /\ snap[h] \in Statuses \cup {NoStatus}
  BY <1>0 DEF ServiceTypeOK, HandlerTypeOK
<1>4. Dep(h) \in Deployments /\ Req(h) \in Requests
  BY <1>0, EntryType
<1>5. digest[h] \in Stamps
  BY <1>0 DEF SubmitArtifact, HandlerTypeOK, BuiltPCs
<1>6. pointer' \in [Deployments -> Stamps \cup {NoStamp}]
  BY <1>0, <1>4, <1>5 DEF SubmitArtifact, ServiceTypeOK
<1>7. HandlerTypeOK' /\ givenUp' \subseteq Deployments
  <2>1. ASSUME NEW c \in JobCodes, Fail(h, c, snap[h])
        PROVE  HandlerTypeOK' /\ givenUp' \subseteq Deployments
    BY <1>0, <1>1, <1>2, <1>3, <2>1, FailType
  <2>2. ASSUME Goto(h, "casReady"), UNCHANGED givenUp
        PROVE  HandlerTypeOK' /\ givenUp' \subseteq Deployments
    <3>1. "casReady" \in PCs \ {"casFailed", "casExhausted", "schedule"}
      BY DEF PCs
    <3> QED BY <1>0, <1>1, <1>2, <1>3, <1>5, <2>2, <3>1, GotoType
  <2> QED BY <2>1, <2>2, CodesTyped DEF SubmitArtifact
<1>9. passedOver' \subseteq Deployments
  BY <1>0, PassedOverType DEF HandlerStep
<1> QED BY <1>9, <1>0, <1>1, <1>2, <1>6, <1>7 DEF SubmitArtifact, TypeOK, ServiceTypeOK

\* EmitReady.
LEMMA EmitReadyType ==
    ASSUME TypeOK, NEW h \in Handlers, EmitReady(h) PROVE TypeOK'
<1>0. pc[h] # "idle" /\ QueueTypeOK /\ ServiceTypeOK /\ HandlerTypeOK
  BY DEF TypeOK, EmitReady
<1>1. QueueTypeOK' /\ StreamExtended
  BY <1>0, QueueStutter DEF EmitReady
<1>2. lease' \in [Handlers -> BOOLEAN] /\ faults' \in 0..MaxFaults
  BY <1>0, FaultType DEF EmitReady, HandlerTypeOK
<1>3. givenUp \subseteq Deployments /\ snap[h] \in Statuses \cup {NoStatus}
  BY <1>0 DEF ServiceTypeOK, HandlerTypeOK
<1>4. Dep(h) \in Deployments /\ Req(h) \in Requests
  BY <1>0, EntryType
<1>5. [dep |-> Dep(h), digest |-> digest[h]] \in ReadyEvents
  BY <1>0, <1>4 DEF EmitReady, HandlerTypeOK, BuiltPCs, ReadyEvents
<1>6. readyEvents' \subseteq ReadyEvents
  BY <1>0, <1>5 DEF EmitReady, ServiceTypeOK
<1>7. HandlerTypeOK'
  BY <1>0, <1>1, <1>2, SettleType, ReturnType DEF EmitReady
<1> QED BY <1>0, <1>1, <1>2, <1>3, <1>6, <1>7 DEF EmitReady, TypeOK, ServiceTypeOK

\* EmitFailed.
LEMMA EmitFailedType ==
    ASSUME TypeOK, NEW h \in Handlers, EmitFailed(h) PROVE TypeOK'
<1>0. pc[h] # "idle" /\ QueueTypeOK /\ ServiceTypeOK /\ HandlerTypeOK
  BY DEF TypeOK, EmitFailed
<1>1. QueueTypeOK' /\ StreamExtended
  BY <1>0, QueueStutter DEF EmitFailed
<1>2. lease' \in [Handlers -> BOOLEAN] /\ faults' \in 0..MaxFaults
  BY <1>0, FaultType DEF EmitFailed, HandlerTypeOK
<1>3. givenUp \subseteq Deployments /\ snap[h] \in Statuses \cup {NoStatus}
  BY <1>0 DEF ServiceTypeOK, HandlerTypeOK
<1>4. Dep(h) \in Deployments /\ Req(h) \in Requests
  BY <1>0, EntryType
<1>5. failedEvents' \subseteq Deployments
  BY <1>0, <1>4 DEF EmitFailed, ServiceTypeOK
<1>6. HandlerTypeOK'
  BY <1>0, <1>1, <1>2, SettleType DEF EmitFailed
<1> QED BY <1>0, <1>1, <1>2, <1>3, <1>5, <1>6 DEF EmitFailed, TypeOK, ServiceTypeOK

\* The envelope that ScheduleRetry writes is well formed: the attempt after
\* the entry's own, with a retryable code.
LEMMA ScheduledEnvelope ==
    ASSUME TypeOK, NEW h \in Handlers, ScheduleRetry(h)
    PROVE  [req |-> Req(h), attempt |-> Attempt(h) + 1, code |-> code[h]] \in Envelopes
<1>1. code[h] \in RetryableCodes /\ Attempt(h) < MaxRetries
  BY DEF ScheduleRetry, TypeOK, HandlerTypeOK, Attempt
<1>2. Req(h) \in Requests /\ Attempt(h) \in 0..MaxRetries
  BY EntryType DEF ScheduleRetry, TypeOK
<1> QED BY <1>1, <1>2, MaxRetriesType DEF Envelopes

\* ScheduleRetry.
LEMMA ScheduleRetryType ==
    ASSUME TypeOK, NEW h \in Handlers, ScheduleRetry(h) PROVE TypeOK'
<1>0. pc[h] # "idle" /\ QueueTypeOK /\ ServiceTypeOK /\ HandlerTypeOK
  BY DEF TypeOK, ScheduleRetry
<1>1. lease' \in [Handlers -> BOOLEAN] /\ faults' \in 0..MaxFaults
  BY <1>0, FaultType DEF ScheduleRetry, HandlerTypeOK
<1>2. Req(h) \in Requests /\ Attempt(h) \in 0..MaxRetries /\ msg[h] \in Nat
  BY <1>0, EntryType
<1>3. [req |-> Req(h), attempt |-> Attempt(h) + 1, code |-> code[h]] \in Envelopes
  BY ScheduledEnvelope
<1>4. QueueTypeOK' /\ StreamExtended
  BY <1>0, <1>3, ScheduleType, QueueStutter DEF ScheduleRetry
<1>5. HandlerTypeOK'
  BY <1>0, <1>1, <1>4, SettleType, ReturnType DEF ScheduleRetry
<1> QED BY <1>0, <1>1, <1>4, <1>5, ServicesKept DEF ScheduleRetry, TypeOK, ServiceTypeOK

\* SendToDLQ.
LEMMA DeadLetterType ==
    ASSUME TypeOK, NEW h \in Handlers, SendToDLQ(h) PROVE TypeOK'
<1>0. pc[h] # "idle" /\ QueueTypeOK /\ ServiceTypeOK /\ HandlerTypeOK
  BY DEF TypeOK, SendToDLQ
<1>1. lease' \in [Handlers -> BOOLEAN] /\ faults' \in 0..MaxFaults
  BY <1>0, FaultType DEF SendToDLQ, HandlerTypeOK
<1>2. Req(h) \in Requests /\ Attempt(h) \in 0..MaxRetries /\ msg[h] \in Nat
  BY <1>0, EntryType
<1>3. QueueTypeOK' /\ StreamExtended
  BY <1>0, <1>2, SendToDLQType, QueueStutter DEF SendToDLQ
<1>4. HandlerTypeOK'
  <2>1. ASSUME Goto(h, "emitFailed") PROVE HandlerTypeOK'
    <3>1. "emitFailed" \in PCs \ {"casFailed", "casExhausted", "schedule"}
      BY DEF PCs
    <3>2. "emitFailed" \notin BuiltPCs
      BY DEF BuiltPCs
    <3> QED BY <1>0, <1>1, <1>3, <2>1, <3>1, <3>2, GotoType
  <2> QED BY <1>0, <1>1, <1>3, <2>1, SettleType, ReturnType DEF SendToDLQ
<1> QED BY <1>0, <1>1, <1>3, <1>4, ServicesKept DEF SendToDLQ, TypeOK, ServiceTypeOK

\* Ack.
LEMMA AckStepType ==
    ASSUME TypeOK, NEW h \in Handlers, Ack(h) PROVE TypeOK'
<1>0. pc[h] # "idle" /\ QueueTypeOK /\ ServiceTypeOK /\ HandlerTypeOK
  BY DEF TypeOK, Ack
<1>1. lease' \in [Handlers -> BOOLEAN] /\ faults' \in 0..MaxFaults
  BY <1>0, FaultType DEF Ack, HandlerTypeOK
<1>2. Req(h) \in Requests /\ Attempt(h) \in 0..MaxRetries /\ msg[h] \in Nat
  BY <1>0, EntryType
<1>3. QueueTypeOK' /\ StreamExtended
  BY <1>0, <1>2, AckType, QueueStutter DEF Ack
<1>4. HandlerTypeOK'
  BY <1>0, <1>1, <1>3, ReturnType DEF Ack
<1> QED BY <1>0, <1>1, <1>3, <1>4, ServicesKept DEF Ack, TypeOK, ServiceTypeOK

\* Release.
LEMMA ReleaseType ==
    ASSUME TypeOK, NEW h \in Handlers, Release(h) PROVE TypeOK'
<1>0. pc[h] # "idle" /\ QueueTypeOK /\ ServiceTypeOK /\ HandlerTypeOK
  BY DEF TypeOK, Release
<1>1. QueueTypeOK' /\ StreamExtended
  BY <1>0, QueueStutter DEF Release
<1>2. ServiceTypeOK'
  <2>1. faults' \in 0..MaxFaults
    BY <1>0, FaultType DEF Release
  <2>2. lock' \in [Deployments -> Workers \cup {Free, Orphan}]
    BY <1>0 DEF Release, ServiceTypeOK
  <2> QED BY <1>0, <2>1, <2>2 DEF Release, ServiceTypeOK, serviceVars
<1>3. /\ pc' \in [Handlers -> PCs] /\ msg' \in [Handlers -> Nat]
      /\ lease' \in [Handlers -> BOOLEAN]
  BY <1>0 DEF Release, HandlerTypeOK, PCs
<1>4. ASSUME NEW k \in Handlers, pc'[k] # "idle"
      PROVE  /\ pc[k] # "idle" /\ pc'[k] = pc[k] /\ msg'[k] = msg[k]
             /\ msg[k] \in 1..lastDelivered' /\ stream'[msg[k]] = stream[msg[k]]
  <2>1. k # h
    BY <1>0, <1>4 DEF Release, HandlerTypeOK
  <2>2. pc'[k] = pc[k] /\ msg'[k] = msg[k]
    BY <1>0, <2>1 DEF Release, HandlerTypeOK
  <2> QED BY <1>0, <1>1, <1>4, <2>2, EntryKept
<1>5. HandlerTypeOK'
  BY <1>0, <1>3, <1>4 DEF Release, HandlerTypeOK, Actionable, BuiltPCs
<1> QED BY <1>1, <1>2, <1>5 DEF TypeOK

\* Crash.
LEMMA CrashType ==
    ASSUME TypeOK, NEW w \in Workers, Crash(w) PROVE TypeOK'
<1>0. QueueTypeOK /\ ServiceTypeOK /\ HandlerTypeOK
  BY DEF TypeOK
<1>1. QueueTypeOK' /\ StreamExtended
  <2>1. IdleSlot \in SlotStates /\ IdleSlot.stage = "idle"
    BY DEF IdleSlot, SlotStates, SlotStages
  <2> QED BY <1>0, <2>1 DEF Crash, QueueTypeOK, StreamExtended
<1>2. ServiceTypeOK'
  <2>1. faults' \in 0..MaxFaults
    BY <1>0, FaultType DEF Crash
  <2>2. lock' \in [Deployments -> Workers \cup {Free, Orphan}]
    BY <1>0 DEF Crash, ServiceTypeOK
  <2> QED BY <1>0, <2>1, <2>2 DEF Crash, ServiceTypeOK, serviceVars
<1>3. /\ pc' \in [Handlers -> PCs] /\ msg' \in [Handlers -> Nat]
      /\ snap' \in [Handlers -> Statuses \cup {NoStatus}]
      /\ code' \in [Handlers -> JobCodes \cup {NoCode}]
      /\ digest' \in [Handlers -> Stamps \cup {NoStamp}]
  BY <1>0 DEF Crash, HandlerTypeOK, PCs
<1>4. lease' \in [Handlers -> BOOLEAN]
  BY <1>0 DEF Crash, HandlerTypeOK
<1>5. ASSUME NEW k \in Handlers, pc'[k] # "idle"
      PROVE  /\ pc[k] # "idle" /\ pc'[k] = pc[k] /\ msg'[k] = msg[k]
             /\ snap'[k] = snap[k] /\ code'[k] = code[k] /\ digest'[k] = digest[k]
             /\ msg[k] \in 1..lastDelivered' /\ stream'[msg[k]] = stream[msg[k]]
  <2>1. WorkerOf[k] # w
    BY <1>5 DEF Crash
  <2>2. /\ pc'[k] = pc[k] /\ msg'[k] = msg[k]
        /\ snap'[k] = snap[k] /\ code'[k] = code[k] /\ digest'[k] = digest[k]
    BY <2>1 DEF Crash
  <2> QED BY <1>0, <1>1, <1>5, <2>2, EntryKept
<1>6. HandlerTypeOK'
  BY <1>0, <1>3, <1>4, <1>5 DEF HandlerTypeOK, Actionable, BuiltPCs
<1> QED BY <1>1, <1>2, <1>6 DEF TypeOK

\* The dispatchers, the lock's expiry and the rest of the platform.
LEMMA EnvironmentType ==
    ASSUME TypeOK,
           \/ \E w \in Workers : Dispatch(w)
           \/ \E d \in Deployments : Expire(d)
           \/ Platform
    PROVE  TypeOK'
<1>0. QueueTypeOK /\ ServiceTypeOK /\ HandlerTypeOK
  BY DEF TypeOK
<1>1. ASSUME NEW w \in Workers, Dispatch(w) PROVE TypeOK'
  <2>1. QueueTypeOK' /\ StreamExtended
    BY <1>0, <1>1, DispatcherType DEF Dispatch
  <2>2. HandlerTypeOK'
    BY <1>0, <1>1, <2>1, LocalKept DEF Dispatch
  <2>3. faults' \in 0..MaxFaults
    BY <1>0, <1>1, FaultType DEF Dispatch
  <2> QED BY <1>0, <1>1, <2>1, <2>2, <2>3, ServicesKept
          DEF Dispatch, TypeOK, ServiceTypeOK
<1>2. ASSUME NEW d \in Deployments, Expire(d) PROVE TypeOK'
  <2>1. QueueTypeOK' /\ StreamExtended
    BY <1>0, <1>2, QueueStutter DEF Expire
  <2>2. HandlerTypeOK'
    BY <1>0, <1>2, <2>1, LocalKept DEF Expire
  <2>3. faults' \in 0..MaxFaults
    BY <1>0, <1>2, FaultType DEF Expire
  <2>4. lock' \in [Deployments -> Workers \cup {Free, Orphan}]
    BY <1>0, <1>2 DEF Expire, ServiceTypeOK
  <2> QED BY <1>0, <1>2, <2>1, <2>2, <2>3, <2>4
          DEF Expire, TypeOK, ServiceTypeOK, serviceVars
<1>3. ASSUME NEW r \in Requests, RequestExport(r) PROVE TypeOK'
  <2>1. 0 \in 0..MaxRetries
    BY MaxRetriesType
  <2>2. /\ stream' \in Seq(Messages)
        /\ Len(stream') = Len(stream) + 1
        /\ StreamExtended
    BY <1>0, <1>3, <2>1, PublishType DEF RequestExport
  <2>3. QueueTypeOK'
    BY <1>0, <1>3, <2>2 DEF RequestExport, Publish, QueueTypeOK
  <2>4. HandlerTypeOK'
    BY <1>0, <1>3, <2>2, LocalKept DEF RequestExport
  <2> QED BY <1>0, <1>3, <2>3, <2>4 DEF RequestExport, TypeOK, ServiceTypeOK, serviceVars
<1>4. ASSUME NEW d \in Deployments,
             QueueDeployment(d) \/ CancelDeployment(d) \/ CdnAdvance(d)
      PROVE  TypeOK'
  <2> USE DEF QueueDeployment, CancelDeployment, CdnAdvance
  <2>1. QueueTypeOK' /\ StreamExtended
    BY <1>0, <1>4, QueueStutter
  <2>2. HandlerTypeOK'
    BY <1>0, <1>4, <2>1, LocalKept
  <2>3. record' \in [Deployments -> Statuses]
    BY <1>0, <1>4 DEF ServiceTypeOK, Statuses
  <2> QED BY <1>0, <1>4, <2>1, <2>2, <2>3 DEF TypeOK, ServiceTypeOK
<1> QED BY <1>1, <1>2, <1>3, <1>4 DEF Platform

\* Every step keeps the types.
LEMMA TypeStep == TypeOK /\ [Next]_vars => TypeOK'
<1> SUFFICES ASSUME TypeOK, [Next]_vars PROVE TypeOK'
  OBVIOUS
<1>1. ASSUME NEW h \in Handlers, HandlerStep(h) PROVE TypeOK'
  BY <1>1, LoadType, ReemitReadyType, AcquireLockType, CasExportingType,
     ProduceType, ManifestCreatedAtType, WriteManifestType, SubmitArtifactType,
     CasReadyType, EmitReadyType, ScheduleRetryType, CasFailedType,
     DeadLetterType, EmitFailedType, AckStepType, ReleaseType
     DEF HandlerStep
<1>2. CASE UNCHANGED vars
  <2>1. QueueTypeOK' /\ StreamExtended
    BY <1>2, QueueStutter DEF vars, TypeOK
  <2>2. HandlerTypeOK'
    BY <1>2, <2>1, LocalKept DEF vars, TypeOK
  <2> QED BY <1>2, <2>1, <2>2 DEF vars, TypeOK, ServiceTypeOK, serviceVars
<1>3. CASE FetchReplyLost
  <2>1. QueueTypeOK' /\ StreamExtended
    BY <1>3, FetchType DEF FetchReplyLost, TypeOK
  <2>2. HandlerTypeOK'
    BY <1>3, <2>1, LocalKept DEF FetchReplyLost, TypeOK
  <2>3. faults' \in 0..MaxFaults
    BY <1>3, FaultType DEF FetchReplyLost, TypeOK
  <2> QED BY <1>3, <2>1, <2>2, <2>3
          DEF FetchReplyLost, TypeOK, ServiceTypeOK, serviceVars
<1> QED BY <1>1, <1>2, <1>3, DeliveryType, CrashType, EnvironmentType DEF Next

\* The initial state is well typed.
LEMMA TypeInit == Init => TypeOK
<1> SUFFICES ASSUME Init PROVE TypeOK
  OBVIOUS
<1>1. QueueTypeOK
  <2>1. IdleSlot \in SlotStates /\ IdleSlot.stage = "idle"
    BY DEF IdleSlot, SlotStates, SlotStages
  <2> QED BY <2>1 DEF Init, QueueInit, QueueTypeOK
<1>2. ServiceTypeOK
  BY MaxFaultsType DEF Init, ServiceTypeOK, Statuses
<1>3. HandlerTypeOK
  BY DEF Init, HandlerTypeOK, PCs, BuiltPCs
<1> QED BY <1>1, <1>2, <1>3 DEF TypeOK

\* Type correctness of the fleet: in particular a handler always works on an
\* entry that was delivered, and no attempt above MaxRetries is ever scheduled.
THEOREM FleetTypeCorrect == Spec => []TypeOK
  BY TypeInit, TypeStep, PTL DEF Spec

-----------------------------------------------------------------------------
(***************************************************************************)
(* The fleet implements DeploymentLifecycle, for every value of the        *)
(* constants.  The argument rests on what a handler knows when it makes    *)
(* the two calls the lifecycle restricts: before the CAS to ARTIFACT_READY *)
(* its artifact is registered, and before it emits the ready event the     *)
(* deployment is ready.  Both stay true whatever the others do meanwhile.  *)
(***************************************************************************)

\* The knowledge of a handler at its next call.
Informed(h) ==
    /\ pc[h] = "casReady" => pointer[Dep(h)] # NoStamp
    /\ pc[h] \in {"reemit", "emitReady"} => ReadyOrLater(Dep(h))

Evidence == \A h \in Handlers : Informed(h)

-----------------------------------------------------------------------------
(* What a step leaves alone *)

\* Every step extends the stream.
LEMMA StreamStep ==
    ASSUME TypeOK, [Next]_vars PROVE StreamExtended
<1>0. QueueTypeOK /\ HandlerTypeOK
  BY DEF TypeOK
<1>1. ASSUME UNCHANGED queueVars PROVE StreamExtended
  BY <1>0, <1>1, QueueStutter
<1>2. ASSUME NEW h \in Handlers, HandlerStep(h) PROVE StreamExtended
  <2>1. CASE ScheduleRetry(h) \/ SendToDLQ(h) \/ Ack(h)
    <3>1. stream' = stream /\ lastDelivered' = lastDelivered
      BY <2>1 DEF ScheduleRetry, SendToDLQ, Ack, ScheduleEffect, SendToDLQEffect,
                  AckEffect, queueVars
    <3> QED BY <1>0, <3>1 DEF StreamExtended, QueueTypeOK
  <2> QED BY <1>1, <1>2, <2>1
          DEF HandlerStep, Load, ReemitReady, AcquireLock, CasExporting, Produce,
              ManifestCreatedAt, WriteManifest, SubmitArtifact, CasReady, EmitReady,
              CasFailed, EmitFailed, Release
<1>3. ASSUME NEW h \in Handlers, Fetch(h) \/ \E i \in pending : Reclaim(h, i)
      PROVE  StreamExtended
  BY <1>0, <1>1, <1>3, FetchType DEF Fetch, Reclaim
<1>4. ASSUME NEW w \in Workers, Dispatch(w) PROVE StreamExtended
  BY <1>0, <1>4, DispatcherType DEF Dispatch
<1>5. ASSUME NEW w \in Workers, Crash(w) PROVE StreamExtended
  BY <1>0, <1>5 DEF Crash, StreamExtended, QueueTypeOK
<1>6. ASSUME NEW r \in Requests, RequestExport(r) PROVE StreamExtended
  <2>1. 0 \in 0..MaxRetries
    BY MaxRetriesType
  <2> QED BY <1>0, <1>6, <2>1, PublishType DEF RequestExport
<1>7. CASE UNCHANGED vars
  BY <1>1, <1>7 DEF vars
<1>8. ASSUME NEW d \in Deployments,
             Expire(d) \/ QueueDeployment(d) \/ CancelDeployment(d) \/ CdnAdvance(d)
      PROVE  StreamExtended
  BY <1>1, <1>8 DEF Expire, QueueDeployment, CancelDeployment, CdnAdvance
<1>9. CASE FetchReplyLost
  BY <1>0, <1>9, FetchType DEF FetchReplyLost
<1> QED BY <1>2, <1>3, <1>4, <1>5, <1>6, <1>7, <1>8, <1>9 DEF Next, Platform

\* The handlers other than h keep their place and their entry.
Elsewhere(h) ==
    \A k \in Handlers \ {h} : /\ pc'[k] = pc[k] /\ msg'[k] = msg[k]
                              /\ digest'[k] = digest[k] /\ snap'[k] = snap[k]

\* A step of one handler is a step of no other.
LEMMA HandlerAlone ==
    ASSUME TypeOK, NEW h \in Handlers,
           HandlerStep(h) \/ Fetch(h) \/ \E i \in pending : Reclaim(h, i)
    PROVE  Elsewhere(h)
<1>0. HandlerTypeOK
  BY DEF TypeOK
<1>1. ASSUME NEW p, NEW s, NEW c, NEW g, Proceed(h, p, s, c, g) PROVE Elsewhere(h)
  BY <1>0, <1>1 DEF Proceed, HandlerTypeOK, Elsewhere
<1>2. ASSUME Return(h) PROVE Elsewhere(h)
  BY <1>0, <1>2 DEF Return, HandlerTypeOK, Elsewhere
<1>3. ASSUME NEW i, Start(h, i) PROVE Elsewhere(h)
  BY <1>0, <1>3 DEF Start, HandlerTypeOK, Elsewhere
<1>4. ASSUME Release(h) PROVE Elsewhere(h)
  BY <1>0, <1>4 DEF Release, HandlerTypeOK, Elsewhere
<1>5. ASSUME NEW p, Goto(h, p) PROVE Elsewhere(h)
  BY <1>1, <1>5 DEF Goto
<1>6. ASSUME Settle(h) PROVE Elsewhere(h)
  BY <1>1, <1>6 DEF Settle
<1>7. ASSUME NEW c, NEW s, Fail(h, c, s) PROVE Elsewhere(h)
  BY <1>1, <1>7 DEF Fail
<1>8. CASE Load(h)
  BY <1>1, <1>5, <1>6, <1>7, <1>8 DEF Load, Decide
<1>9. CASE CasFailed(h)
  BY <1>2, <1>5, <1>9 DEF CasFailed
<1>10. CASE AcquireLock(h)
  BY <1>2, <1>5, <1>6, <1>7, <1>10 DEF AcquireLock
<1>11. CASE CasExporting(h) \/ CasReady(h)
  BY <1>1, <1>2, <1>5, <1>6, <1>7, <1>11 DEF CasExporting, CasReady
<1>12. CASE Produce(h) \/ ManifestCreatedAt(h)
  BY <1>1, <1>5, <1>7, <1>12 DEF Produce, ManifestCreatedAt
<1>13. CASE WriteManifest(h) \/ SubmitArtifact(h)
  BY <1>5, <1>7, <1>13 DEF WriteManifest, SubmitArtifact
<1>14. CASE ReemitReady(h) \/ EmitReady(h) \/ ScheduleRetry(h) \/ SendToDLQ(h)
  BY <1>1, <1>2, <1>5, <1>6, <1>14 DEF ReemitReady, EmitReady, ScheduleRetry, SendToDLQ
<1>15. CASE EmitFailed(h) \/ Ack(h)
  BY <1>2, <1>6, <1>15 DEF EmitFailed, Ack
<1> QED BY <1>3, <1>4, <1>8, <1>9, <1>10, <1>11, <1>12, <1>13, <1>14, <1>15
        DEF HandlerStep, Fetch, Reclaim
-----------------------------------------------------------------------------
(* Every step is a step of the lifecycle *)

\* A step that touches neither record, pointer nor ready events is a stutter.
LEMMA LifecycleStutter ==
    ASSUME UNCHANGED <<record, pointer, readyEvents>>
    PROVE  UNCHANGED Lifecycle!vars
  BY DEF Lifecycle!vars

\* A status write from one of the lifecycle's sources is a lifecycle step.
LEMMA CasIsMove ==
    ASSUME TypeOK, NEW d \in Deployments, NEW to,
           record' = [record EXCEPT ![d] = to], UNCHANGED <<pointer, readyEvents>>,
           \/ record[d] = "PENDING" /\ to = "EXPORT_QUEUED"
           \/ record[d] = "EXPORT_QUEUED" /\ to = "EXPORTING"
           \/ record[d] \in {"EXPORT_QUEUED", "EXPORTING"} /\ to = "EXPORT_FAILED"
           \/ record[d] \in {"PENDING", "EXPORT_QUEUED", "EXPORTING"} /\ to = "CANCELLED"
           \/ record[d] = "EXPORTING" /\ pointer[d] # NoStamp /\ to = "ARTIFACT_READY"
           \/ record[d] = "ARTIFACT_READY" /\ Announced(d) /\ to = "CDN_UPLOADING"
    PROVE  Lifecycle!Next
<1>1. Announced(d) => d \in {e.dep : e \in readyEvents}
  BY DEF Announced
<1> QED BY <1>1
        DEF Lifecycle!Next, Lifecycle!Queue, Lifecycle!Start, Lifecycle!Abort,
            Lifecycle!Cancel, Lifecycle!Finish, Lifecycle!HandOver, Lifecycle!Move

\* An emitted event adds its deployment to the announced ones.
LEMMA EventAdded ==
    ASSUME NEW S, NEW d, NEW g
    PROVE  {e.dep : e \in S \cup {[dep |-> d, digest |-> g]}} = {e.dep : e \in S} \cup {d}
<1> DEFINE ev == [dep |-> d, digest |-> g]
<1>1. ev.dep = d
  OBVIOUS
<1> HIDE DEF ev
<1>2. {e.dep : e \in S \cup {ev}} = {e.dep : e \in S} \cup {ev.dep}
  OBVIOUS
<1> QED BY <1>1, <1>2 DEF ev

\* The status writes of a handler, the artifact submission and the emission
\* are lifecycle steps; the rest of its steps are stutters.
LEMMA HandlerRefines ==
    ASSUME TypeOK, Evidence, NEW h \in Handlers, HandlerStep(h)
    PROVE  Lifecycle!Next \/ UNCHANGED Lifecycle!vars
<1>0. pc[h] # "idle"
  BY DEF HandlerStep, Load, ReemitReady, AcquireLock, CasExporting, Produce,
         ManifestCreatedAt, WriteManifest, SubmitArtifact, CasReady, EmitReady,
         ScheduleRetry, CasFailed, SendToDLQ, EmitFailed, Ack, Release
<1>1. Dep(h) \in Deployments
  BY <1>0, EntryType DEF TypeOK
<1>2. Informed(h)
  BY DEF Evidence
<1>3. CASE CasExporting(h)
  <2>1. CASE UNCHANGED record
    BY <1>3, <2>1, LifecycleStutter DEF CasExporting
  <2>2. CASE CasApplies(h, "EXPORT_QUEUED") /\ CasEffect(h, "EXPORTING")
    BY <1>1, <1>3, <2>2, CasIsMove DEF CasExporting, CasApplies, CasEffect
  <2> QED BY <1>3, <2>1, <2>2 DEF CasExporting
<1>4. CASE CasReady(h)
  <2>1. CASE UNCHANGED record
    BY <1>4, <2>1, LifecycleStutter DEF CasReady
  <2>2. CASE CasApplies(h, "EXPORTING") /\ CasEffect(h, "ARTIFACT_READY")
    <3>1. pointer[Dep(h)] # NoStamp
      BY <1>2, <1>4 DEF Informed, CasReady
    <3> QED BY <1>1, <1>4, <2>2, <3>1, CasIsMove DEF CasReady, CasApplies, CasEffect
  <2> QED BY <1>4, <2>1, <2>2 DEF CasReady
<1>5. CASE CasFailed(h)
  <2>1. CASE UNCHANGED record
    BY <1>5, <2>1, LifecycleStutter DEF CasFailed
  <2>2. CASE CasApplies(h, snap[h]) /\ CasEffect(h, "EXPORT_FAILED")
    <3>1. snap[h] \in {"EXPORT_QUEUED", "EXPORTING"}
      BY <1>5 DEF CasFailed, TypeOK, HandlerTypeOK, Actionable
    <3> QED BY <1>1, <1>5, <2>2, <3>1, CasIsMove DEF CasFailed, CasApplies, CasEffect
  <2> QED BY <1>5, <2>1, <2>2 DEF CasFailed
<1>6. CASE SubmitArtifact(h)
  <2>1. digest[h] \in Stamps
    BY <1>6 DEF SubmitArtifact, TypeOK, HandlerTypeOK, BuiltPCs
  <2>2. CASE UNCHANGED pointer
    BY <1>6, <2>2, LifecycleStutter DEF SubmitArtifact
  <2>3. CASE /\ pointer[Dep(h)] \in {NoStamp, digest[h]}
             /\ pointer' = [pointer EXCEPT ![Dep(h)] = digest[h]]
    <3>1. CASE pointer[Dep(h)] = digest[h]
      <4>1. pointer' = pointer
        BY <1>1, <2>3, <3>1 DEF TypeOK, ServiceTypeOK
      <4> QED BY <2>2, <4>1
    <3>2. CASE pointer[Dep(h)] = NoStamp
      <4>1. UNCHANGED <<record, readyEvents>>
        BY <1>6 DEF SubmitArtifact
      <4>2. Lifecycle!Register(Dep(h))
        BY <2>1, <2>3, <3>2, <4>1 DEF Lifecycle!Register
      <4> QED BY <1>1, <4>2 DEF Lifecycle!Next
    <3> QED BY <2>3, <3>1, <3>2
  <2> QED BY <1>6, <2>2, <2>3 DEF SubmitArtifact
<1>7. CASE EmitReady(h)
  <2>1. UNCHANGED <<record, pointer>>
    BY <1>7 DEF EmitReady
  <2>2. CASE readyEvents' = readyEvents
    BY <2>1, <2>2, LifecycleStutter
  <2>3. CASE readyEvents' = readyEvents \cup {[dep |-> Dep(h), digest |-> digest[h]]}
    <3>1. {e.dep : e \in readyEvents'} = {e.dep : e \in readyEvents} \cup {Dep(h)}
      BY <2>3, EventAdded
    <3>2. ReadyOrLater(Dep(h))
      BY <1>2, <1>7 DEF Informed, EmitReady
    <3>3. \E d \in Deployments : Lifecycle!Announce(d)
      BY <1>1, <2>1, <3>1, <3>2 DEF Lifecycle!Announce, ReadyOrLater
    <3> QED BY <3>3 DEF Lifecycle!Next
  <2>4. \/ readyEvents' = readyEvents
        \/ readyEvents' = readyEvents \cup {[dep |-> Dep(h), digest |-> digest[h]]}
    BY <1>7 DEF EmitReady
  <2> QED BY <2>2, <2>3, <2>4
<1>8. CASE \/ Load(h) \/ ReemitReady(h) \/ AcquireLock(h) \/ Produce(h)
           \/ ManifestCreatedAt(h) \/ WriteManifest(h) \/ ScheduleRetry(h)
           \/ SendToDLQ(h) \/ EmitFailed(h) \/ Ack(h) \/ Release(h)
  <2>1. UNCHANGED <<record, pointer, readyEvents>>
    BY <1>8 DEF Load, ReemitReady, AcquireLock, Produce, ManifestCreatedAt,
                WriteManifest, ScheduleRetry, SendToDLQ, EmitFailed, Ack, Release,
                serviceVars
  <2> QED BY <2>1, LifecycleStutter
<1> QED BY <1>3, <1>4, <1>5, <1>6, <1>7, <1>8 DEF HandlerStep

\* Every step of the fleet is a step of the lifecycle or a stutter.
LEMMA StepRefines ==
    ASSUME TypeOK, Evidence, [Next]_vars
    PROVE  Lifecycle!Next \/ UNCHANGED Lifecycle!vars
<1>1. ASSUME NEW h \in Handlers, HandlerStep(h)
      PROVE  Lifecycle!Next \/ UNCHANGED Lifecycle!vars
  BY <1>1, HandlerRefines
<1>2. ASSUME NEW d \in Deployments,
             QueueDeployment(d) \/ CancelDeployment(d) \/ CdnAdvance(d)
      PROVE  Lifecycle!Next
  BY <1>2, CasIsMove DEF QueueDeployment, CancelDeployment, CdnAdvance, Announced
<1>3. ASSUME \/ \E h \in Handlers : Fetch(h) \/ \E i \in pending : Reclaim(h, i)
             \/ \E w \in Workers : Dispatch(w) \/ Crash(w)
             \/ FetchReplyLost
             \/ \E d \in Deployments : Expire(d)
             \/ \E r \in Requests : RequestExport(r)
             \/ UNCHANGED vars
      PROVE  UNCHANGED Lifecycle!vars
  <2>1. UNCHANGED <<record, pointer, readyEvents>>
    BY <1>3 DEF Fetch, Reclaim, Start, FetchReplyLost, Dispatch, Crash, Expire,
                RequestExport, vars, serviceVars
  <2> QED BY <2>1, LifecycleStutter
<1> QED BY <1>1, <1>2, <1>3 DEF Next, Platform
-----------------------------------------------------------------------------
(* What a handler knows stays true *)

\* What a lifecycle step never undoes: readiness and registration.
Monotone ==
    \A d \in Deployments : /\ ReadyOrLater(d) => ReadyOrLater(d)'
                           /\ pointer[d] # NoStamp => pointer'[d] # NoStamp

\* A lifecycle step is monotone.
LEMMA LifecycleMonotone ==
    ASSUME TypeOK, Lifecycle!Next \/ UNCHANGED Lifecycle!vars PROVE Monotone
<1>0. record \in [Deployments -> Statuses] /\ pointer \in [Deployments -> Stamps \cup {NoStamp}]
  BY DEF TypeOK, ServiceTypeOK
<1>1. CASE UNCHANGED Lifecycle!vars
  BY <1>1 DEF Lifecycle!vars, Monotone, ReadyOrLater
<1>2. ASSUME NEW d \in Deployments, Lifecycle!Register(d) PROVE Monotone
  BY <1>0, <1>2, StampsFresh DEF Lifecycle!Register, Monotone, ReadyOrLater
<1>3. ASSUME NEW d \in Deployments, Lifecycle!Announce(d) PROVE Monotone
  BY <1>3 DEF Lifecycle!Announce, Monotone, ReadyOrLater
<1>4. ASSUME NEW d \in Deployments,
             \/ Lifecycle!Queue(d) \/ Lifecycle!Start(d) \/ Lifecycle!Abort(d)
             \/ Lifecycle!Cancel(d) \/ Lifecycle!Finish(d) \/ Lifecycle!HandOver(d)
      PROVE  Monotone
  BY <1>0, <1>4 DEF Lifecycle!Queue, Lifecycle!Start, Lifecycle!Abort,
       Lifecycle!Cancel, Lifecycle!Finish, Lifecycle!HandOver, Lifecycle!Move,
       Monotone, ReadyOrLater
<1> QED BY <1>1, <1>2, <1>3, <1>4 DEF Lifecycle!Next

\* The deployment of a handler that keeps its entry is kept.
LEMMA DepKept ==
    ASSUME TypeOK, StreamExtended, NEW h \in Handlers, pc[h] # "idle", msg'[h] = msg[h]
    PROVE  Dep(h)' = Dep(h) /\ Req(h)' = Req(h) /\ Dep(h) \in Deployments
<1>1. stream'[msg[h]] = stream[msg[h]] /\ Dep(h) \in Deployments
  BY EntryKept, EntryType DEF TypeOK
<1> QED BY <1>1 DEF Dep, Req

\* A handler that does not move stays informed.
LEMMA InformedKept ==
    ASSUME TypeOK, StreamExtended, Monotone, NEW h \in Handlers, Informed(h),
           pc'[h] = pc[h], msg'[h] = msg[h]
    PROVE  Informed(h)'
<1>1. CASE pc[h] = "idle"
  BY <1>1 DEF Informed
<1>2. CASE pc[h] # "idle"
  <2>1. Dep(h)' = Dep(h) /\ Dep(h) \in Deployments
    BY <1>2, DepKept
  <2> QED BY <2>1 DEF Informed, Monotone, ReadyOrLater
<1> QED BY <1>1, <1>2

\* Where the steps of a handler lead.  The calls that need knowledge are
\* reached only by the call that obtained it.
LEMMA Reached ==
    ASSUME TypeOK, NEW h \in Handlers, HandlerStep(h),
           pc'[h] \in {"casReady", "reemit", "emitReady"}
    PROVE  /\ pc[h] # "idle" /\ msg'[h] = msg[h]
           /\ pc'[h] = "casReady" =>
                SubmitArtifact(h) /\ pointer' = [pointer EXCEPT ![Dep(h)] = digest[h]]
           /\ pc'[h] = "reemit" => Load(h) /\ record[Dep(h)] = "ARTIFACT_READY"
           /\ pc'[h] = "emitReady" => \/ ReemitReady(h)
                                      \/ record'[Dep(h)] = "ARTIFACT_READY"
<1>0. HandlerTypeOK
  BY DEF TypeOK
<1>1. ASSUME NEW p, NEW s, NEW c, NEW g, Proceed(h, p, s, c, g)
      PROVE  pc'[h] = p /\ msg'[h] = msg[h]
  BY <1>0, <1>1 DEF Proceed, HandlerTypeOK
<1>2. ~Return(h)
  BY <1>0 DEF Return, HandlerTypeOK
<1>3. ASSUME NEW p, Goto(h, p) PROVE pc'[h] = p /\ msg'[h] = msg[h]
  BY <1>1, <1>3 DEF Goto
<1>4. ~Settle(h)
  BY <1>1 DEF Settle
<1>5. ASSUME NEW c, NEW s PROVE ~Fail(h, c, s)
  BY <1>1 DEF Fail, FailBranch
<1>6. CASE Load(h)
  BY <1>1, <1>3, <1>4, <1>5, <1>6 DEF Load, Decide
<1>7. CASE ReemitReady(h)
  BY <1>1, <1>2, <1>4, <1>7 DEF ReemitReady
<1>8. CASE AcquireLock(h)
  BY <1>2, <1>3, <1>4, <1>5, <1>8 DEF AcquireLock
<1>9. CASE CasExporting(h)
  BY <1>1, <1>2, <1>4, <1>5, <1>9 DEF CasExporting
<1>10. CASE Produce(h) \/ ManifestCreatedAt(h) \/ WriteManifest(h)
  BY <1>1, <1>3, <1>5, <1>10 DEF Produce, ManifestCreatedAt, WriteManifest
<1>11. CASE SubmitArtifact(h)
  BY <1>3, <1>5, <1>11 DEF SubmitArtifact
<1>12. CASE CasReady(h)
  <2>1. Dep(h) \in Deployments /\ record \in [Deployments -> Statuses]
    BY <1>12, EntryType DEF CasReady, TypeOK, ServiceTypeOK
  <2> QED BY <1>3, <1>4, <1>5, <1>12, <2>1 DEF CasReady, CasEffect
<1>13. CASE EmitReady(h) \/ ScheduleRetry(h) \/ SendToDLQ(h) \/ EmitFailed(h) \/ Ack(h)
  BY <1>2, <1>3, <1>4, <1>13 DEF EmitReady, ScheduleRetry, SendToDLQ, EmitFailed, Ack
<1>14. CASE CasFailed(h)
  BY <1>2, <1>3, <1>14 DEF CasFailed
<1>15. CASE Release(h)
  BY <1>0, <1>15 DEF Release, HandlerTypeOK
<1> QED BY <1>6, <1>7, <1>8, <1>9, <1>10, <1>11, <1>12, <1>13, <1>14, <1>15
        DEF HandlerStep

\* The step of a handler leaves it informed.
LEMMA InformedStep ==
    ASSUME TypeOK, Evidence, StreamExtended, Monotone, NEW h \in Handlers, HandlerStep(h)
    PROVE  Informed(h)'
<1> SUFFICES ASSUME pc'[h] \in {"casReady", "reemit", "emitReady"} PROVE Informed(h)'
  BY DEF Informed
<1>1. Dep(h)' = Dep(h) /\ Dep(h) \in Deployments /\ Informed(h)
  BY Reached, DepKept DEF Evidence
<1>2. CASE pc'[h] = "casReady"
  <2>1. digest[h] \in Stamps
    BY <1>2, Reached DEF SubmitArtifact, TypeOK, HandlerTypeOK, BuiltPCs
  <2>2. pointer'[Dep(h)] = digest[h]
    BY <1>1, <1>2, Reached DEF TypeOK, ServiceTypeOK
  <2> QED BY <1>1, <1>2, <2>1, <2>2, StampsFresh DEF Informed
<1>3. CASE pc'[h] = "reemit"
  BY <1>1, <1>3, Reached DEF Informed, Monotone, ReadyOrLater
<1>4. CASE pc'[h] = "emitReady"
  BY <1>1, <1>4, Reached DEF Informed, Monotone, ReadyOrLater, ReemitReady
<1> QED BY <1>2, <1>3, <1>4

\* Every step leaves every handler informed.
LEMMA EvidenceStep ==
    ASSUME TypeOK, Evidence, [Next]_vars PROVE Evidence'
<1>1. StreamExtended /\ Monotone
  BY StreamStep, StepRefines, LifecycleMonotone
<1>2. ASSUME NEW h \in Handlers, HandlerStep(h) PROVE Evidence'
  BY <1>1, <1>2, InformedStep, InformedKept, HandlerAlone DEF Evidence, Elsewhere
<1>3. ASSUME NEW h \in Handlers, Fetch(h) \/ \E i \in pending : Reclaim(h, i)
      PROVE  Evidence'
  <2>1. pc'[h] \in {"dlq", "load"}
    BY <1>3 DEF Fetch, Reclaim, Start, TypeOK, HandlerTypeOK
  <2>2. Informed(h)'
    BY <2>1 DEF Informed
  <2> QED BY <1>1, <1>3, <2>2, InformedKept, HandlerAlone DEF Evidence, Elsewhere
<1>4. ASSUME NEW w \in Workers, Crash(w) PROVE Evidence'
  <2>1. ASSUME NEW h \in Handlers PROVE Informed(h)'
    <3>1. CASE WorkerOf[h] = w
      BY <1>4, <3>1 DEF Crash, Informed
    <3>2. CASE WorkerOf[h] # w
      <4>1. pc'[h] = pc[h] /\ msg'[h] = msg[h]
        BY <1>4, <3>2 DEF Crash
      <4> QED BY <1>1, <4>1, InformedKept DEF Evidence
    <3> QED BY <3>1, <3>2
  <2> QED BY <2>1 DEF Evidence
<1>5. ASSUME UNCHANGED localVars PROVE Evidence'
  BY <1>1, <1>5, InformedKept DEF Evidence, localVars
<1>6. ASSUME \/ \E w \in Workers : Dispatch(w)
             \/ FetchReplyLost
             \/ \E d \in Deployments : Expire(d)
             \/ Platform
             \/ UNCHANGED vars
      PROVE  UNCHANGED localVars
  BY <1>6 DEF Dispatch, FetchReplyLost, Expire, Platform, RequestExport,
              QueueDeployment, CancelDeployment, CdnAdvance, vars
<1> QED BY <1>2, <1>3, <1>4, <1>5, <1>6 DEF Next

\* The export workers keep the promise of DeploymentLifecycle, under every
\* interleaving and with any number of crashes, lost answers, expired locks
\* and stolen messages: one artifact per deployment, ARTIFACT_READY only with
\* a registered artifact, ready events only for ready deployments, and no
\* status is ever moved back.
THEOREM FleetImplementsLifecycle == Spec => ImplementsLifecycle
<1>1. Init => Evidence
  BY DEF Init, Evidence, Informed
<1>2. TypeOK /\ Evidence /\ [Next]_vars => Evidence'
  BY EvidenceStep
<1>3. Init => Lifecycle!Init
  BY DEF Init, Lifecycle!Init
<1>4. TypeOK /\ Evidence /\ [Next]_vars => [Lifecycle!Next]_(Lifecycle!vars)
  BY StepRefines
<1> QED BY <1>1, <1>2, <1>3, <1>4, FleetTypeCorrect, PTL
        DEF Spec, ImplementsLifecycle, Lifecycle!Spec

\* What one step keeps of a deployment: the registered pointer, the announcement,
\* a failure, a cancellation, and readiness.
Keeps(d) ==
    /\ pointer[d] # NoStamp => pointer'[d] = pointer[d]
    /\ Announced(d) => Announced(d)'
    /\ record[d] \in {"EXPORT_FAILED", "CANCELLED", "CDN_UPLOADING"} => record'[d] = record[d]
    /\ ReadyOrLater(d) => ReadyOrLater(d)'

\* A lifecycle step keeps that of every deployment.
LEMMA LifecycleKeeps ==
    ASSUME TypeOK, Lifecycle!Next \/ UNCHANGED Lifecycle!vars, NEW d \in Deployments
    PROVE  Keeps(d)
<1>0. record \in [Deployments -> Statuses] /\ pointer \in [Deployments -> Stamps \cup {NoStamp}]
  BY DEF TypeOK, ServiceTypeOK
<1>1. ReadyOrLater(d) => ReadyOrLater(d)'
  BY LifecycleMonotone DEF Monotone
<1> DEFINE A == {e.dep : e \in readyEvents}
<1>2. (Announced(d) <=> d \in A) /\ (Announced(d)' <=> d \in A')
  BY DEF Announced
<1>3. CASE UNCHANGED Lifecycle!vars
  <2>1. record' = record /\ pointer' = pointer /\ A' = A
    BY <1>3 DEF Lifecycle!vars
  <2> HIDE DEF A
  <2> QED BY <1>1, <1>2, <2>1 DEF Keeps
<1>4. ASSUME NEW e \in Deployments, Lifecycle!Register(e) PROVE Keeps(d)
  <2>1. record' = record /\ A' = A /\ pointer[e] = NoStamp
        /\ \E g \in Stamps : pointer' = [pointer EXCEPT ![e] = g]
    BY <1>4 DEF Lifecycle!Register
  <2> HIDE DEF A
  <2> QED BY <1>0, <1>1, <1>2, <2>1 DEF Keeps
<1>5. ASSUME NEW e \in Deployments, Lifecycle!Announce(e) PROVE Keeps(d)
  <2>1. record' = record /\ pointer' = pointer /\ A' = A \cup {e}
    BY <1>5 DEF Lifecycle!Announce
  <2> HIDE DEF A
  <2> QED BY <1>1, <1>2, <2>1 DEF Keeps
<1>6. ASSUME NEW e \in Deployments,
             \/ Lifecycle!Queue(e) \/ Lifecycle!Start(e) \/ Lifecycle!Abort(e)
             \/ Lifecycle!Cancel(e) \/ Lifecycle!Finish(e) \/ Lifecycle!HandOver(e)
      PROVE  Keeps(d)
  <2>1. pointer' = pointer /\ A' = A
    BY <1>6 DEF Lifecycle!Queue, Lifecycle!Start, Lifecycle!Abort,
         Lifecycle!Cancel, Lifecycle!Finish, Lifecycle!HandOver, Lifecycle!Move
  <2>2. record[d] \in {"EXPORT_FAILED", "CANCELLED", "CDN_UPLOADING"} => record'[d] = record[d]
    BY <1>0, <1>6 DEF Lifecycle!Queue, Lifecycle!Start, Lifecycle!Abort,
         Lifecycle!Cancel, Lifecycle!Finish, Lifecycle!HandOver, Lifecycle!Move
  <2> HIDE DEF A
  <2> QED BY <1>1, <1>2, <2>1, <2>2 DEF Keeps
<1> QED BY <1>3, <1>4, <1>5, <1>6 DEF Lifecycle!Next

\* No step of the fleet takes anything back, whatever is lost, repeated or
\* stolen: a second registration never replaces the first pointer
\* (SubmitArtifact), a terminal CAS from a stale snapshot never revives a failed
\* or cancelled deployment nor fails a ready one (Transition), and no event is
\* withdrawn.
THEOREM NothingTakenBack == Spec => [][\A d \in Deployments : Keeps(d)]_vars
<1>1. Init => Evidence
  BY DEF Init, Evidence, Informed
<1>2. TypeOK /\ Evidence /\ [Next]_vars => Evidence'
  BY EvidenceStep
<1>3. TypeOK /\ Evidence /\ [Next]_vars => [\A d \in Deployments : Keeps(d)]_vars
  BY StepRefines, LifecycleKeeps
<1> QED BY <1>1, <1>2, <1>3, FleetTypeCorrect, PTL DEF Spec

-----------------------------------------------------------------------------
(***************************************************************************)
(* What stands behind a ready deployment, for every value of the           *)
(* constants: a registered artifact, and behind that a stored manifest.    *)
(* The order of the pipeline (store, register, CAS) makes it so, and no    *)
(* interleaving undoes it.  With it comes what the announcement rests on:  *)
(* the pipeline after the worker only takes over announced deployments,    *)
(* and only ready ones are announced or passed over.                       *)
(***************************************************************************)

\* A handler in the pipeline has loaded an actionable status.
WorkingPCs ==
    {"lock", "casExporting", "produce", "createdAt", "manifest", "submit", "casReady"}
Working == \A h \in Handlers : pc[h] \in WorkingPCs => Actionable(snap[h])

\* A handler about to register an artifact has stored its manifest.
Uploaded == \A h \in Handlers : pc[h] = "submit" => manifest[Dep(h)] # NoStamp

\* What the status of a deployment says of the rest of the world.
Founded(d) ==
    /\ pointer[d] # NoStamp => manifest[d] # NoStamp
    /\ ReadyOrLater(d) => pointer[d] # NoStamp
    /\ record[d] = "CDN_UPLOADING" => Announced(d)
    /\ Announced(d) \/ d \in passedOver => ReadyOrLater(d)

ArtifactInv == Working /\ Uploaded /\ \A d \in Deployments : Founded(d)

-----------------------------------------------------------------------------
(* How a handler goes on *)

\* The ways a handler goes on.
LEMMA Moves ==
    ASSUME TypeOK, NEW h \in Handlers
    PROVE  /\ \A p, s, c, g : Proceed(h, p, s, c, g) =>
                /\ pc'[h] = p /\ snap'[h] = s /\ msg'[h] = msg[h]
           /\ \A p : Goto(h, p) => /\ pc'[h] = p /\ snap'[h] = snap[h]
                                    /\ msg'[h] = msg[h]
           /\ Settle(h) => pc'[h] = "ack" /\ msg'[h] = msg[h]
           /\ Return(h) => pc'[h] \in {"idle", "release"}
           /\ \A c, s : Fail(h, c, s) =>
                /\ pc'[h] \in {"casExhausted", "dlqExhausted", "schedule",
                                "casFailed", "emitFailed"}
                /\ msg'[h] = msg[h]
                /\ pc'[h] = "emitFailed" =>
                     /\ ~Actionable(s)
                     /\ NonActionable(s) \/ Dep(h) \in givenUp'
                     /\ s = "ARTIFACT_READY" => Dep(h) \in passedOver'
<1>0. HandlerTypeOK
  BY DEF TypeOK
<1>1. ASSUME NEW p, NEW s, NEW c, NEW g, Proceed(h, p, s, c, g)
      PROVE  pc'[h] = p /\ snap'[h] = s /\ msg'[h] = msg[h]
  BY <1>0, <1>1 DEF Proceed, HandlerTypeOK
<1>2. ASSUME NEW p, Goto(h, p)
      PROVE  pc'[h] = p /\ snap'[h] = snap[h] /\ msg'[h] = msg[h]
  BY <1>1, <1>2 DEF Goto
<1>3. Settle(h) => pc'[h] = "ack" /\ msg'[h] = msg[h]
  BY <1>1 DEF Settle
<1>4. Return(h) => pc'[h] \in {"idle", "release"}
  BY <1>0 DEF Return, HandlerTypeOK
<1>5. ASSUME NEW c, NEW s, Fail(h, c, s)
      PROVE  /\ pc'[h] \in {"casExhausted", "dlqExhausted", "schedule",
                             "casFailed", "emitFailed"}
             /\ msg'[h] = msg[h]
             /\ pc'[h] = "emitFailed" =>
                  /\ ~Actionable(s)
                  /\ NonActionable(s) \/ Dep(h) \in givenUp'
                  /\ s = "ARTIFACT_READY" => Dep(h) \in passedOver'
  <2>1. pc'[h] = FailBranch(h, c, s) /\ msg'[h] = msg[h]
    BY <1>1, <1>5 DEF Fail
  <2>2. /\ FailBranch(h, c, s) \in {"casExhausted", "dlqExhausted", "schedule",
                                    "casFailed", "emitFailed"}
        /\ FailBranch(h, c, s) = "emitFailed" => ~Actionable(s)
    BY DEF FailBranch
  <2>3. FailBranch(h, c, s) = "emitFailed" => NonActionable(s) \/ Dep(h) \in givenUp'
    BY <1>5 DEF Fail, GivesUp
  <2>4. FailBranch(h, c, s) = "emitFailed" /\ s = "ARTIFACT_READY" => Dep(h) \in passedOver'
    BY <1>5 DEF Fail, PassOver
  <2> QED BY <2>1, <2>2, <2>3, <2>4
<1> QED BY <1>1, <1>2, <1>3, <1>4, <1>5

\* A step moves a handler by its own call, starts it, ends it, or leaves it.
LEMMA HandlerFate ==
    ASSUME TypeOK, [Next]_vars, NEW h \in Handlers
    PROVE  \/ HandlerStep(h)
           \/ pc'[h] \in {"load", "dlq", "idle"}
           \/ pc'[h] = pc[h] /\ msg'[h] = msg[h] /\ snap'[h] = snap[h]
<1>1. ASSUME NEW g \in Handlers, HandlerStep(g) \/ Fetch(g) \/ \E i \in pending : Reclaim(g, i)
      PROVE  \/ HandlerStep(h)
             \/ pc'[h] \in {"load", "dlq", "idle"}
             \/ pc'[h] = pc[h] /\ msg'[h] = msg[h] /\ snap'[h] = snap[h]
  <2>1. CASE g # h
    BY <1>1, <2>1, HandlerAlone DEF Elsewhere
  <2>2. CASE g = h
    BY <1>1, <2>2 DEF Fetch, Reclaim, Start, TypeOK, HandlerTypeOK
  <2> QED BY <2>1, <2>2
<1>2. ASSUME NEW w \in Workers, Crash(w)
      PROVE  \/ pc'[h] = "idle"
             \/ pc'[h] = pc[h] /\ msg'[h] = msg[h] /\ snap'[h] = snap[h]
  BY <1>2 DEF Crash
<1>3. ASSUME \/ \E w \in Workers : Dispatch(w)
             \/ FetchReplyLost
             \/ \E d \in Deployments : Expire(d)
             \/ Platform
             \/ UNCHANGED vars
      PROVE  UNCHANGED localVars
  BY <1>3 DEF Dispatch, FetchReplyLost, Expire, Platform, RequestExport,
              QueueDeployment, CancelDeployment, CdnAdvance, vars
<1> QED BY <1>1, <1>2, <1>3 DEF Next, localVars

\* A handler that goes on in the pipeline knows an actionable status.
LEMMA WorkingReached ==
    ASSUME TypeOK, Working, NEW h \in Handlers, HandlerStep(h), pc'[h] \in WorkingPCs
    PROVE  Actionable(snap'[h])
<1>0. pc[h] \in WorkingPCs => Actionable(snap[h])
  BY DEF Working
<1>1. ASSUME NEW c, NEW s PROVE ~Fail(h, c, s)
  BY Moves DEF WorkingPCs
<1>2. ~Settle(h) /\ ~Return(h)
  BY Moves DEF WorkingPCs
<1>3. CASE Load(h)
  <2>1. ~Goto(h, "reemit")
    BY Moves DEF WorkingPCs
  <2> QED BY <1>1, <1>2, <1>3, <2>1, Moves DEF Load, Decide
<1>4. CASE AcquireLock(h)
  BY <1>0, <1>1, <1>2, <1>4, Moves DEF AcquireLock, WorkingPCs
<1>5. CASE CasExporting(h)
  BY <1>0, <1>1, <1>2, <1>5, Moves DEF CasExporting, Actionable
<1>6. CASE Produce(h) \/ ManifestCreatedAt(h)
  BY <1>0, <1>1, <1>6, Moves DEF Produce, ManifestCreatedAt, WorkingPCs
<1>7. CASE WriteManifest(h) \/ SubmitArtifact(h) \/ CasReady(h)
  BY <1>0, <1>1, <1>2, <1>7, Moves DEF WriteManifest, SubmitArtifact, CasReady, WorkingPCs
<1>8. ~(ReemitReady(h) \/ EmitReady(h) \/ ScheduleRetry(h) \/ EmitFailed(h) \/ Ack(h))
  BY <1>2, Moves DEF ReemitReady, EmitReady, ScheduleRetry, EmitFailed, Ack, WorkingPCs
<1>9. ~(SendToDLQ(h) \/ CasFailed(h))
  BY <1>2, Moves DEF SendToDLQ, CasFailed, WorkingPCs
<1>10. ~Release(h)
  BY DEF Release, TypeOK, HandlerTypeOK, WorkingPCs
<1> QED BY <1>3, <1>4, <1>5, <1>6, <1>7, <1>8, <1>9, <1>10 DEF HandlerStep

\* Only the upload of the manifest leads to its registration.
LEMMA SubmitReached ==
    ASSUME TypeOK, NEW h \in Handlers, HandlerStep(h), pc'[h] = "submit"
    PROVE  /\ pc[h] = "manifest" /\ msg'[h] = msg[h]
           /\ manifest' = [manifest EXCEPT ![Dep(h)] = digest[h]]
<1>1. ASSUME NEW c, NEW s PROVE ~Fail(h, c, s)
  BY Moves
<1>2. ~Settle(h) /\ ~Return(h)
  BY Moves
<1>3. CASE WriteManifest(h)
  BY <1>1, <1>3, Moves DEF WriteManifest
<1>4. ~Load(h)
  BY <1>1, <1>2, Moves DEF Load, Decide
<1>5. ~(AcquireLock(h) \/ CasExporting(h))
  BY <1>1, <1>2, Moves DEF AcquireLock, CasExporting
<1>6. ~(Produce(h) \/ ManifestCreatedAt(h) \/ SubmitArtifact(h) \/ CasReady(h))
  BY <1>1, <1>2, Moves DEF Produce, ManifestCreatedAt, SubmitArtifact, CasReady
<1>7. ~(ReemitReady(h) \/ EmitReady(h) \/ ScheduleRetry(h) \/ EmitFailed(h) \/ Ack(h))
  BY <1>2, Moves DEF ReemitReady, EmitReady, ScheduleRetry, EmitFailed, Ack
<1>8. ~(SendToDLQ(h) \/ CasFailed(h))
  BY <1>2, Moves DEF SendToDLQ, CasFailed
<1>9. ~Release(h)
  BY DEF Release, TypeOK, HandlerTypeOK
<1> QED BY <1>3, <1>4, <1>5, <1>6, <1>7, <1>8, <1>9 DEF HandlerStep

-----------------------------------------------------------------------------
(* Who writes what *)

\* Who writes what: a manifest is written by a handler that built it, a pointer
\* by one that stored it, readiness and the event by one that registered it.
LEMMA Writers ==
    ASSUME TypeOK, [Next]_vars
    PROVE  /\ \/ manifest' = manifest
              \/ \E h \in Handlers : /\ pc[h] = "manifest"
                                     /\ manifest' = [manifest EXCEPT ![Dep(h)] = digest[h]]
           /\ \/ pointer' = pointer
              \/ \E h \in Handlers : /\ pc[h] = "submit"
                                     /\ pointer' = [pointer EXCEPT ![Dep(h)] = digest[h]]
           /\ \/ readyEvents' = readyEvents
              \/ \E h \in Handlers :
                   /\ pc[h] = "emitReady"
                   /\ readyEvents' = readyEvents \cup {[dep |-> Dep(h), digest |-> digest[h]]}
           /\ \A d \in Deployments :
                ReadyOrLater(d)' => \/ ReadyOrLater(d)
                                    \/ \E h \in Handlers : pc[h] = "casReady" /\ Dep(h) = d
<1>0. record \in [Deployments -> Statuses]
  BY DEF TypeOK, ServiceTypeOK
<1>1. ASSUME UNCHANGED serviceVars PROVE UNCHANGED <<manifest, pointer, readyEvents, record>>
  BY <1>1 DEF serviceVars
<1>2. ASSUME NEW h \in Handlers, HandlerStep(h)
      PROVE  /\ manifest' = manifest \/ (/\ pc[h] = "manifest"
                                         /\ manifest' = [manifest EXCEPT ![Dep(h)] = digest[h]])
             /\ pointer' = pointer \/ (/\ pc[h] = "submit"
                                       /\ pointer' = [pointer EXCEPT ![Dep(h)] = digest[h]])
             /\ readyEvents' = readyEvents
                  \/ (/\ pc[h] = "emitReady"
                      /\ readyEvents' = readyEvents \cup {[dep |-> Dep(h), digest |-> digest[h]]})
             /\ record' = record
                  \/ (\E to \in {"EXPORTING", "EXPORT_FAILED"} : CasEffect(h, to))
                  \/ (pc[h] = "casReady" /\ CasEffect(h, "ARTIFACT_READY"))
  <2>1. CASE \/ Load(h) \/ ReemitReady(h) \/ AcquireLock(h) \/ Produce(h)
             \/ ManifestCreatedAt(h) \/ ScheduleRetry(h)
             \/ SendToDLQ(h) \/ Ack(h) \/ Release(h)
    BY <1>1, <2>1 DEF Load, ReemitReady, AcquireLock, Produce, ManifestCreatedAt,
                ScheduleRetry, SendToDLQ, Ack, Release
  <2>2. CASE WriteManifest(h)
    BY <2>2 DEF WriteManifest
  <2>3. CASE SubmitArtifact(h)
    BY <2>3 DEF SubmitArtifact
  <2>4. CASE EmitReady(h)
    BY <2>4 DEF EmitReady
  <2>5. CASE EmitFailed(h)
    BY <2>5 DEF EmitFailed
  <2>6. CASE CasExporting(h)
    BY <2>6 DEF CasExporting
  <2>7. CASE CasReady(h)
    BY <2>7 DEF CasReady
  <2>8. CASE CasFailed(h)
    BY <2>8 DEF CasFailed
  <2> QED BY <1>2, <2>1, <2>2, <2>3, <2>4, <2>5, <2>6, <2>7, <2>8 DEF HandlerStep
<1>3. ASSUME NEW h \in Handlers, HandlerStep(h), NEW d \in Deployments, ReadyOrLater(d)',
             ~ReadyOrLater(d)
      PROVE  pc[h] = "casReady" /\ Dep(h) = d
  <2>1. record'[d] # record[d]
    BY <1>3 DEF ReadyOrLater
  <2>2. ASSUME NEW to, CasEffect(h, to) PROVE Dep(h) = d /\ record'[d] = to
    BY <1>0, <2>1, <2>2 DEF CasEffect
  <2> QED BY <1>2, <1>3, <2>1, <2>2 DEF ReadyOrLater
<1>4. CASE \E h \in Handlers : HandlerStep(h)
  BY <1>2, <1>3, <1>4
<1>5. ASSUME \/ \E h \in Handlers : Fetch(h) \/ \E i \in pending : Reclaim(h, i)
             \/ \E w \in Workers : Dispatch(w) \/ Crash(w)
             \/ FetchReplyLost
             \/ \E d \in Deployments : Expire(d)
             \/ \E r \in Requests : RequestExport(r)
             \/ UNCHANGED vars
      PROVE  UNCHANGED <<manifest, pointer, readyEvents, record>>
  BY <1>5 DEF Fetch, Reclaim, Start, FetchReplyLost, Dispatch, Crash, Expire,
              RequestExport, vars, serviceVars
<1>6. ASSUME NEW d \in Deployments,
             QueueDeployment(d) \/ CancelDeployment(d) \/ CdnAdvance(d)
      PROVE  /\ UNCHANGED <<manifest, pointer, readyEvents>>
             /\ \A c \in Deployments : ReadyOrLater(c)' => ReadyOrLater(c)
  <2>1. UNCHANGED <<manifest, pointer, readyEvents>>
    BY <1>6 DEF QueueDeployment, CancelDeployment, CdnAdvance
  <2>2. CASE QueueDeployment(d) \/ CancelDeployment(d)
    BY <1>0, <2>2 DEF QueueDeployment, CancelDeployment, ReadyOrLater
  <2>3. CASE CdnAdvance(d)
    BY <1>0, <2>3 DEF CdnAdvance, ReadyOrLater
  <2> QED BY <1>6, <2>1, <2>2, <2>3
<1>7. CASE UNCHANGED <<manifest, pointer, readyEvents, record>>
  BY <1>7 DEF ReadyOrLater
<1> QED BY <1>4, <1>5, <1>6, <1>7 DEF Next, Platform

\* What a step never undoes in storage.
LEMMA StoredKept ==
    ASSUME TypeOK, [Next]_vars, NEW d \in Deployments, manifest[d] # NoStamp
    PROVE  manifest'[d] # NoStamp
<1>1. CASE manifest' = manifest
  BY <1>1
<1>2. ASSUME NEW h \in Handlers, pc[h] = "manifest",
             manifest' = [manifest EXCEPT ![Dep(h)] = digest[h]]
      PROVE  manifest'[d] # NoStamp
  <2>1. digest[h] \in Stamps /\ manifest \in [Deployments -> Stamps \cup {NoStamp}]
    BY <1>2 DEF TypeOK, HandlerTypeOK, ServiceTypeOK, BuiltPCs
  <2> QED BY <1>2, <2>1, StampsFresh
<1> QED BY <1>1, <1>2, Writers

\* A handler passes over only what is ARTIFACT_READY.
LEMMA PassedOverReady ==
    ASSUME TypeOK, Working, NEW h \in Handlers, HandlerStep(h), passedOver' # passedOver
    PROVE  record[Dep(h)] = "ARTIFACT_READY"
<1>0. pc[h] \in WorkingPCs => Actionable(snap[h])
  BY DEF Working
<1>1. ASSUME NEW c, NEW s, Fail(h, c, s) PROVE s = "ARTIFACT_READY"
  BY <1>1 DEF Fail, PassOver
<1>2. ASSUME NEW c, pc[h] \in WorkingPCs PROVE ~Fail(h, c, snap[h])
  BY <1>0, <1>1, <1>2 DEF Actionable
<1>3. ASSUME NEW b, PassOver(h, b) PROVE b
  BY <1>3 DEF PassOver
<1>4. CASE Load(h)
  <2>1. ASSUME NEW c PROVE ~Fail(h, c, NoStatus)
    BY <1>1 DEF NoStatus
  <2> QED BY <1>1, <1>4, <2>1 DEF Load, Decide, PassOver
<1>5. ~(AcquireLock(h) \/ Produce(h))
  BY <1>2 DEF AcquireLock, Produce, WorkingPCs
<1>6. CASE CasExporting(h)
  BY <1>2, <1>6 DEF CasExporting, PassOver, WorkingPCs
<1>7. CASE CasReady(h)
  BY <1>2, <1>7 DEF CasReady, WorkingPCs
<1>8. CASE CasFailed(h)
  BY <1>8 DEF CasFailed, PassOver
<1>9. ~(WriteManifest(h) \/ SubmitArtifact(h))
  BY <1>2 DEF WriteManifest, SubmitArtifact, WorkingPCs
<1>10. ~(\/ ReemitReady(h) \/ ManifestCreatedAt(h) \/ EmitReady(h) \/ ScheduleRetry(h)
         \/ SendToDLQ(h) \/ EmitFailed(h) \/ Ack(h) \/ Release(h))
  BY DEF ReemitReady, ManifestCreatedAt, EmitReady, ScheduleRetry, SendToDLQ,
       EmitFailed, Ack, Release
<1> QED BY <1>4, <1>5, <1>6, <1>7, <1>8, <1>9, <1>10 DEF HandlerStep

\* Only handlers pass over.
LEMMA PassedOverWriters ==
    ASSUME [Next]_vars, passedOver' # passedOver
    PROVE  \E h \in Handlers : HandlerStep(h) /\ passedOver' = passedOver \cup {Dep(h)}
<1>1. ~\E h \in Handlers : Fetch(h) \/ \E i \in pending : Reclaim(h, i)
  BY DEF Fetch, Reclaim, Start
<1>2. ~(\/ \E w \in Workers : Dispatch(w) \/ Crash(w)
        \/ FetchReplyLost
        \/ \E d \in Deployments : Expire(d)
        \/ Platform
        \/ UNCHANGED vars)
  BY DEF Dispatch, Crash, FetchReplyLost, Expire, Platform, RequestExport,
         QueueDeployment, CancelDeployment, CdnAdvance, vars
<1> QED BY <1>1, <1>2, PassedOverStep DEF Next

\* A deployment passes to the pipeline after the worker only when announced.
LEMMA CdnWriters ==
    ASSUME TypeOK, [Next]_vars, NEW d \in Deployments,
           record'[d] = "CDN_UPLOADING", record[d] # "CDN_UPLOADING"
    PROVE  Announced(d)
<1>0. record \in [Deployments -> Statuses]
  BY DEF TypeOK, ServiceTypeOK
<1>1. ASSUME NEW h \in Handlers, NEW to \in {"EXPORTING", "ARTIFACT_READY", "EXPORT_FAILED"}
      PROVE  ~CasEffect(h, to)
  BY <1>0 DEF CasEffect
<1>2. ASSUME NEW h \in Handlers, HandlerStep(h) PROVE FALSE
  <2>1. CASE CasExporting(h) \/ CasReady(h) \/ CasFailed(h)
    BY <1>1, <2>1 DEF CasExporting, CasReady, CasFailed
  <2> QED BY <1>2, <2>1
          DEF HandlerStep, Load, ReemitReady, AcquireLock, Produce, ManifestCreatedAt,
              WriteManifest, SubmitArtifact, EmitReady, ScheduleRetry, SendToDLQ,
              EmitFailed, Ack, Release, serviceVars
<1>3. ASSUME \/ \E h \in Handlers : Fetch(h) \/ \E i \in pending : Reclaim(h, i)
             \/ \E w \in Workers : Dispatch(w) \/ Crash(w)
             \/ FetchReplyLost
             \/ \E e \in Deployments : Expire(e)
             \/ \E r \in Requests : RequestExport(r)
             \/ UNCHANGED vars
      PROVE  FALSE
  BY <1>3 DEF Fetch, Reclaim, Start, FetchReplyLost, Dispatch, Crash, Expire,
              RequestExport, vars, serviceVars
<1>4. ASSUME NEW e \in Deployments, QueueDeployment(e) \/ CancelDeployment(e) PROVE FALSE
  BY <1>0, <1>4 DEF QueueDeployment, CancelDeployment
<1>5. ASSUME NEW e \in Deployments, CdnAdvance(e) PROVE Announced(d)
  BY <1>0, <1>5 DEF CdnAdvance, Announced
<1> QED BY <1>2, <1>3, <1>4, <1>5 DEF Next, Platform

-----------------------------------------------------------------------------
(* The invariant is inductive *)

\* Every event emitted stays emitted.
LEMMA AnnouncedKept ==
    ASSUME TypeOK, [Next]_vars, NEW d, Announced(d) PROVE Announced(d)'
<1>1. readyEvents \subseteq readyEvents'
  BY Writers
<1> QED BY <1>1 DEF Announced

\* A new announcement is of a ready deployment.
LEMMA AnnouncedReady ==
    ASSUME TypeOK, Evidence, [Next]_vars, NEW d \in Deployments, Announced(d)', ~Announced(d)
    PROVE  ReadyOrLater(d)
<1>1. PICK e \in readyEvents' : e.dep = d
  BY DEF Announced
<1>2. e \notin readyEvents
  BY <1>1 DEF Announced
<1>3. PICK h \in Handlers : pc[h] = "emitReady" /\ e = [dep |-> Dep(h), digest |-> digest[h]]
  BY <1>2, Writers
<1> QED BY <1>1, <1>3 DEF Evidence, Informed

\* The status keeps its foundation.
LEMMA FoundedStep ==
    ASSUME TypeOK, Evidence, ArtifactInv, [Next]_vars, NEW d \in Deployments
    PROVE  Founded(d)'
<1>0. Monotone /\ Founded(d) /\ manifest \in [Deployments -> Stamps \cup {NoStamp}]
      /\ pointer \in [Deployments -> Stamps \cup {NoStamp}]
  BY StepRefines, LifecycleMonotone DEF ArtifactInv, TypeOK, ServiceTypeOK
<1>1. pointer'[d] # NoStamp => manifest'[d] # NoStamp
  <2>1. CASE pointer' = pointer
    BY <1>0, <2>1, StoredKept DEF Founded
  <2>2. ASSUME NEW h \in Handlers, pc[h] = "submit",
               pointer' = [pointer EXCEPT ![Dep(h)] = digest[h]]
        PROVE  pointer'[d] # NoStamp => manifest'[d] # NoStamp
    BY <1>0, <2>2, StoredKept DEF Founded, ArtifactInv, Uploaded
  <2> QED BY <2>1, <2>2, Writers
<1>2. ASSUME ReadyOrLater(d)' PROVE pointer'[d] # NoStamp
  <2>1. CASE ReadyOrLater(d)
    BY <1>0, <2>1 DEF Founded, Monotone
  <2>2. ASSUME NEW h \in Handlers, pc[h] = "casReady", Dep(h) = d PROVE pointer'[d] # NoStamp
    BY <1>0, <2>2 DEF Evidence, Informed, Monotone
  <2> QED BY <1>2, <2>1, <2>2, Writers
<1>3. ASSUME record'[d] = "CDN_UPLOADING" PROVE Announced(d)'
  BY <1>0, <1>3, CdnWriters, AnnouncedKept DEF Founded
<1>4. ASSUME Announced(d)' PROVE ReadyOrLater(d)'
  BY <1>0, <1>4, AnnouncedReady DEF Founded, Monotone
<1>5. ASSUME d \in passedOver' PROVE ReadyOrLater(d)'
  <2>1. CASE d \in passedOver
    BY <1>0, <2>1 DEF Founded, Monotone
  <2>2. CASE d \notin passedOver
    <3>1. PICK h \in Handlers : HandlerStep(h) /\ passedOver' = passedOver \cup {Dep(h)}
      BY <1>5, <2>2, PassedOverWriters
    <3>2. Dep(h) = d /\ record[Dep(h)] = "ARTIFACT_READY"
      BY <1>5, <2>2, <3>1, PassedOverReady DEF ArtifactInv
    <3> QED BY <1>0, <3>2 DEF Monotone, ReadyOrLater
  <2> QED BY <2>1, <2>2
<1> QED BY <1>1, <1>2, <1>3, <1>4, <1>5 DEF Founded

\* What a handler has uploaded stays in storage.
LEMMA UploadedStep ==
    ASSUME TypeOK, ArtifactInv, [Next]_vars PROVE Uploaded'
<1> SUFFICES ASSUME NEW h \in Handlers, pc'[h] = "submit" PROVE manifest'[Dep(h)'] # NoStamp
  BY DEF Uploaded
<1>1. CASE HandlerStep(h)
  <2>1. /\ pc[h] = "manifest" /\ msg'[h] = msg[h]
        /\ manifest' = [manifest EXCEPT ![Dep(h)] = digest[h]]
    BY <1>1, SubmitReached
  <2>2. Dep(h)' = Dep(h) /\ Dep(h) \in Deployments
    BY <2>1, StreamStep, DepKept
  <2>3. digest[h] \in Stamps
    BY <2>1 DEF TypeOK, HandlerTypeOK, BuiltPCs
  <2> QED BY <2>1, <2>2, <2>3, StampsFresh DEF TypeOK, ServiceTypeOK
<1>2. CASE pc'[h] = pc[h] /\ msg'[h] = msg[h]
  <2>1. Dep(h)' = Dep(h) /\ Dep(h) \in Deployments
    BY <1>2, StreamStep, DepKept
  <2>2. manifest[Dep(h)] # NoStamp
    BY <1>2 DEF ArtifactInv, Uploaded
  <2> QED BY <2>1, <2>2, StoredKept
<1> QED BY <1>1, <1>2, HandlerFate

\* The whole invariant.
LEMMA ArtifactStep ==
    ASSUME TypeOK, Evidence, ArtifactInv, [Next]_vars PROVE ArtifactInv'
<1>1. Working'
  <2> SUFFICES ASSUME NEW h \in Handlers, pc'[h] \in WorkingPCs PROVE Actionable(snap'[h])
    BY DEF Working, WorkingPCs, Actionable
  <2>1. CASE HandlerStep(h)
    BY <2>1, WorkingReached DEF ArtifactInv
  <2>2. CASE pc'[h] = pc[h] /\ snap'[h] = snap[h]
    BY <2>2 DEF ArtifactInv, Working
  <2> QED BY <2>1, <2>2, HandlerFate DEF WorkingPCs
<1>2. Uploaded'
  BY UploadedStep
<1>3. \A d \in Deployments : Founded(d)'
  BY FoundedStep
<1> QED BY <1>1, <1>2, <1>3 DEF ArtifactInv

\* The invariant holds initially.
LEMMA ArtifactInit == Init => Evidence /\ ArtifactInv
  BY DEF Init, Evidence, Informed, ArtifactInv, Working, WorkingPCs, Uploaded, Founded,
         ReadyOrLater, Announced

\* Behind every ready deployment stand a registered artifact and a stored
\* manifest, with any number of crashes, lost answers and stolen messages.  So
\* ReemitReady always finds the manifest of the event it repeats: its alert for
\* an ARTIFACT_READY deployment without one is never raised by the workers' own
\* doing.
THEOREM ReadyHasArtifact ==
    Spec => [](\A d \in Deployments :
                 ReadyOrLater(d) => pointer[d] # NoStamp /\ manifest[d] # NoStamp)
<1>1. TypeOK /\ Evidence /\ ArtifactInv /\ [Next]_vars => (Evidence /\ ArtifactInv)'
  BY EvidenceStep, ArtifactStep
<1>2. ArtifactInv => \A d \in Deployments :
                       ReadyOrLater(d) => pointer[d] # NoStamp /\ manifest[d] # NoStamp
  BY DEF ArtifactInv, Founded
<1> QED BY <1>1, <1>2, ArtifactInit, FleetTypeCorrect, PTL DEF Spec

-----------------------------------------------------------------------------
(***************************************************************************)
(* Every request is accounted for, for every value of the constants.       *)
(*                                                                         *)
(* EveryRequestAccounted is not inductive: an ack removes the very entry   *)
(* that witnesses it.  The argument is that an entry is released (acked,   *)
(* or about to be) only when its deployment is closed or an attempt beyond *)
(* the entry's own is under way, as an unacked entry or as an envelope the *)
(* dispatchers will find.  When that later attempt is released in turn, it *)
(* was itself handed on to a still later one, so the chain never breaks.   *)
(* The dispatchers add: what a tick removes from the retry store, it or    *)
(* another dispatcher has published before.  ArtifactInv closes the two    *)
(* acks that neither announce nor record anything: ReemitReady's without a *)
(* manifest never happens, and a deployment found further down the         *)
(* pipeline was announced.                                                 *)
(***************************************************************************)

\* Nothing more is owed to the deployment.
Ended(d)  == record[d] \in {"EXPORT_FAILED", "CANCELLED"}
Closed(d) == Announced(d) \/ Ended(d) \/ InDLQ(d) \/ d \in givenUp \/ d \in passedOver

\* Attempt a of deployment d was published at some time.
Sent(d, a) ==
    \E i \in 1..Len(stream) : DepOf[stream[i].req] = d /\ stream[i].attempt = a

\* An attempt of d beyond k is under way.
EntryAhead(d, k) ==
    \E i \in 1..Len(stream) :
        Outstanding(i) /\ DepOf[stream[i].req] = d /\ stream[i].attempt > k
EnvelopeAhead(d, k) ==
    \E env \in payloads : Dispatchable(env) /\ DepOf[env.req] = d /\ env.attempt > k
Ahead(d, k) == EntryAhead(d, k) \/ EnvelopeAhead(d, k)

\* The group has, or is about to have, no claim on entry i any more.
Released(i) ==
    \/ i <= lastDelivered /\ i \notin pending
    \/ \E h \in Handlers : pc[h] = "ack" /\ msg[h] = i

\* A released entry was handed on.
HandedOn(i) ==
    \/ Closed(DepOf[stream[i].req])
    \/ Ahead(DepOf[stream[i].req], stream[i].attempt)
Handed == \A i \in 1..Len(stream) : Released(i) => HandedOn(i)

\* The retry store: an indexed id has a payload, and a dispatcher is about to
\* remove only what was published.
IndexBacked == \A id \in retryIndex : \E env \in payloads : EnvelopeID(env) = id
SlotBacked ==
    \A w \in Workers :
        /\ slot[w].stage = "indexed" =>
             \/ \E env \in payloads : EnvelopeID(env) = slot[w].id
             \/ Sent(slot[w].id[1], slot[w].id[2])
        /\ slot[w].stage \in {"orphan", "remove"} => Sent(slot[w].id[1], slot[w].id[2])

\* A handler about to emit the failed event has closed the deployment.
Concluded == \A h \in Handlers : pc[h] = "emitFailed" => Closed(Dep(h))

WorkInv == Handed /\ IndexBacked /\ SlotBacked /\ Concluded

-----------------------------------------------------------------------------
(* The invariant suffices *)

\* A requested deployment has an entry; it is outstanding, or released and
\* handed on.
LEMMA WorkInvSuffices ==
    ASSUME TypeOK, WorkInv PROVE EveryRequestAccounted
<1> SUFFICES ASSUME NEW d \in Deployments, Requested(d)
             PROVE  Closed(d) \/ WorkLeft(d)
  BY DEF EveryRequestAccounted, Closed, Ended
<1>1. PICK i \in 1..Len(stream) : DepOf[stream[i].req] = d
  BY DEF Requested
<1>2. CASE Outstanding(i)
  BY <1>1, <1>2 DEF WorkLeft
<1>3. CASE ~Outstanding(i)
  <2>1. Released(i)
    BY <1>3 DEF Released, Outstanding, TypeOK, QueueTypeOK
  <2>2. Closed(d) \/ Ahead(d, stream[i].attempt)
    BY <1>1, <2>1 DEF WorkInv, Handed, HandedOn
  <2>3. EntryAhead(d, stream[i].attempt) => WorkLeft(d)
    BY DEF EntryAhead, WorkLeft
  <2>4. EnvelopeAhead(d, stream[i].attempt) => WorkLeft(d)
    BY DEF EnvelopeAhead, WorkLeft
  <2> QED BY <2>2, <2>3, <2>4 DEF Ahead
<1> QED BY <1>2, <1>3

-----------------------------------------------------------------------------
(* What a step does to the queue *)

\* The kinds of queue steps.
QueueKind ==
    \/ UNCHANGED queueVars
    \/ FetchEffect
    \/ \E h \in Handlers : pc[h] = "ack" /\ AckEffect(msg[h])
    \/ \E r \in Requests : SendToDLQEffect(r)
    \/ \E env \in Envelopes : ScheduleEffect(env)
    \/ \E w \in Workers : DispatcherStep(w) \/ DispatcherFault(w)
    \/ \E w \in Workers : /\ slot' = [slot EXCEPT ![w] = IdleSlot]
                          /\ UNCHANGED <<stream, lastDelivered, pending, payloads,
                                         retryIndex, dlq>>
    \/ \E r \in Requests : Publish(r, 0) /\ UNCHANGED slot

\* Every step is one of them.
LEMMA StepKind ==
    ASSUME TypeOK, [Next]_vars PROVE QueueKind
<1>1. ASSUME NEW h \in Handlers, HandlerStep(h) PROVE QueueKind
  <2>0. CASE UNCHANGED queueVars
    BY <2>0 DEF QueueKind
  <2>1. CASE Ack(h)
    BY <2>0, <2>1 DEF Ack, QueueKind
  <2>2. CASE SendToDLQ(h)
    <3>1. Req(h) \in Requests
      BY <2>2, EntryType DEF SendToDLQ, TypeOK
    <3>2. SendToDLQEffect(Req(h)) => QueueKind
      BY <3>1 DEF QueueKind
    <3> QED BY <2>0, <2>2, <3>2 DEF SendToDLQ
  <2>3. CASE ScheduleRetry(h)
    <3> DEFINE env == [req |-> Req(h), attempt |-> Attempt(h) + 1, code |-> code[h]]
    <3>1. env \in Envelopes
      BY <2>3, ScheduledEnvelope
    <3>2. ScheduleEffect(env) => QueueKind
      BY <3>1 DEF QueueKind
    <3> QED BY <2>0, <2>3, <3>2 DEF ScheduleRetry
  <2> QED BY <1>1, <2>0, <2>1, <2>2, <2>3
          DEF HandlerStep, Load, ReemitReady, AcquireLock, CasExporting, Produce,
              ManifestCreatedAt, WriteManifest, SubmitArtifact, CasReady, EmitReady,
              CasFailed, EmitFailed, Release
<1>2. ASSUME NEW h \in Handlers, Fetch(h) \/ \E i \in pending : Reclaim(h, i)
      PROVE  QueueKind
  BY <1>2 DEF Fetch, Reclaim, QueueKind
<1>3. ASSUME NEW w \in Workers, Dispatch(w) PROVE QueueKind
  BY <1>3 DEF Dispatch, QueueKind
<1>4. ASSUME NEW w \in Workers, Crash(w) PROVE QueueKind
  BY <1>4 DEF Crash, QueueKind
<1>5. ASSUME NEW r \in Requests, RequestExport(r) PROVE QueueKind
  BY <1>5 DEF RequestExport, QueueKind
<1>6. ASSUME NEW d \in Deployments,
             Expire(d) \/ QueueDeployment(d) \/ CancelDeployment(d) \/ CdnAdvance(d)
      PROVE  QueueKind
  BY <1>6 DEF Expire, QueueDeployment, CancelDeployment, CdnAdvance, QueueKind
<1>7. CASE UNCHANGED vars
  BY <1>7 DEF vars, QueueKind
<1>8. CASE FetchReplyLost
  BY <1>8 DEF FetchReplyLost, QueueKind
<1> QED BY <1>1, <1>2, <1>3, <1>4, <1>5, <1>6, <1>7, <1>8 DEF Next, Platform

-----------------------------------------------------------------------------
(* What is closed stays closed *)

\* A deployment given up stays so.
LEMMA GivenUpKept ==
    ASSUME [Next]_vars PROVE givenUp \subseteq givenUp'
<1>1. ASSUME NEW h, NEW c, NEW s, Fail(h, c, s) PROVE givenUp \subseteq givenUp'
  BY <1>1 DEF Fail
<1>2. ASSUME NEW h, HandlerStep(h) PROVE givenUp \subseteq givenUp'
  <2>0. CASE UNCHANGED givenUp
    BY <2>0
  <2>1. CASE Load(h)
    BY <1>1, <2>0, <2>1 DEF Load, Decide
  <2>2. CASE AcquireLock(h)
    BY <1>1, <2>0, <2>2 DEF AcquireLock
  <2>3. CASE CasExporting(h)
    BY <1>1, <2>0, <2>3 DEF CasExporting
  <2>4. CASE CasReady(h)
    BY <1>1, <2>0, <2>4 DEF CasReady
  <2>5. CASE Produce(h)
    BY <1>1, <2>0, <2>5 DEF Produce
  <2>6. CASE WriteManifest(h)
    BY <1>1, <2>0, <2>6 DEF WriteManifest
  <2>7. CASE SubmitArtifact(h)
    BY <1>1, <2>0, <2>7 DEF SubmitArtifact
  <2> QED BY <1>2, <2>0, <2>1, <2>2, <2>3, <2>4, <2>5, <2>6, <2>7
          DEF HandlerStep, ReemitReady, ManifestCreatedAt, EmitReady, ScheduleRetry,
              CasFailed, SendToDLQ, EmitFailed, Ack, Release
<1>3. ASSUME NEW h, Fetch(h) \/ \E i \in pending : Reclaim(h, i)
      PROVE  UNCHANGED givenUp
  BY <1>3 DEF Fetch, Reclaim, Start
<1>4. ASSUME \/ \E w \in Workers : Dispatch(w) \/ Crash(w)
             \/ FetchReplyLost
             \/ \E d \in Deployments : Expire(d)
             \/ Platform
             \/ UNCHANGED vars
      PROVE  UNCHANGED givenUp
  BY <1>4 DEF Dispatch, Crash, FetchReplyLost, Expire, Platform, RequestExport,
              QueueDeployment, CancelDeployment, CdnAdvance, vars
<1> QED BY <1>2, <1>3, <1>4 DEF Next

\* No step undoes an end, an announcement, a dead letter or a mark of history.
LEMMA ClosedKept ==
    ASSUME TypeOK, Evidence, [Next]_vars, NEW d \in Deployments, Closed(d)
    PROVE  Closed(d)'
<1>0. record \in [Deployments -> Statuses]
  BY DEF TypeOK, ServiceTypeOK
<1>1. Ended(d) => Ended(d)'
  <2>1. Lifecycle!Next \/ UNCHANGED Lifecycle!vars
    BY StepRefines
  <2>2. CASE UNCHANGED record
    BY <2>2 DEF Ended
  <2>3. ASSUME NEW e \in Deployments, NEW from, NEW to, Lifecycle!Move(e, from, to),
               "EXPORT_FAILED" \notin from, "CANCELLED" \notin from
        PROVE  Ended(d) => Ended(d)'
    BY <1>0, <2>3 DEF Lifecycle!Move, Ended
  <2> QED BY <2>1, <2>2, <2>3
          DEF Lifecycle!Next, Lifecycle!vars, Lifecycle!Queue, Lifecycle!Start,
              Lifecycle!Abort, Lifecycle!Cancel, Lifecycle!Finish, Lifecycle!HandOver,
              Lifecycle!Register, Lifecycle!Announce
<1>2. dlq \subseteq dlq'
  <2>1. QueueKind
    BY StepKind
  <2> QED BY <2>1
          DEF QueueKind, queueVars, FetchEffect, AckEffect, SendToDLQEffect,
              ScheduleEffect, Publish, DispatcherStep, DispatcherFault, DueIndex,
              DuePayload, DropOrphan, Republish, RemoveEnvelope, RemoveEffect,
              TickFails, RepublishReplyLost
<1>3. givenUp \subseteq givenUp' /\ passedOver \subseteq passedOver'
  BY GivenUpKept, PassedOverWriters
<1> QED BY <1>1, <1>2, <1>3, AnnouncedKept DEF Closed, InDLQ

-----------------------------------------------------------------------------
(* What is under way stays under way *)

\* An entry leaves the group's claim only by the ack of a handler.
LEMMA OutstandingKept ==
    ASSUME TypeOK, StreamExtended, QueueKind, NEW i \in 1..Len(stream), Outstanding(i)
    PROVE  \/ Outstanding(i)'
           \/ \E h \in Handlers : pc[h] = "ack" /\ msg[h] = i /\ AckEffect(i)
<1>0. /\ lastDelivered \in Nat /\ lastDelivered' \in Nat
      /\ i \in 1..Len(stream')
  BY DEF StreamExtended, TypeOK, QueueTypeOK
<1>1. CASE lastDelivered' = lastDelivered /\ pending' = pending
  BY <1>0, <1>1 DEF Outstanding
<1>2. CASE FetchEffect
  BY <1>0, <1>2 DEF FetchEffect, Outstanding
<1>3. ASSUME NEW h \in Handlers, pc[h] = "ack", AckEffect(msg[h])
      PROVE  Outstanding(i)' \/ (pc[h] = "ack" /\ msg[h] = i /\ AckEffect(i))
  BY <1>0, <1>3 DEF AckEffect, Outstanding
<1>4. CASE \E w \in Workers : DispatcherStep(w) \/ DispatcherFault(w)
  <2>1. lastDelivered' = lastDelivered /\ pending' = pending
    BY <1>4 DEF DispatcherStep, DispatcherFault, DueIndex, DuePayload, DropOrphan,
                Republish, RemoveEnvelope, RemoveEffect, TickFails,
                RepublishReplyLost, Publish
  <2> QED BY <1>1, <2>1
<1>5. CASE \E r \in Requests : SendToDLQEffect(r) \/ Publish(r, 0)
  BY <1>1, <1>5 DEF SendToDLQEffect, Publish
<1>6. CASE \E env \in Envelopes : ScheduleEffect(env)
  BY <1>1, <1>6 DEF ScheduleEffect
<1>7. CASE UNCHANGED queueVars
  BY <1>1, <1>7 DEF queueVars
<1> QED BY <1>1, <1>2, <1>3, <1>4, <1>5, <1>6, <1>7 DEF QueueKind

\* The attempts of the stream are numbers.
LEMMA AttemptNat ==
    ASSUME TypeOK, NEW j \in 1..Len(stream) PROVE stream[j].attempt \in Nat
<1>1. stream[j] \in Messages
  BY DEF TypeOK, QueueTypeOK
<1> QED BY <1>1, MaxRetriesType DEF Messages

\* What was sent leads on: the deployment is closed, or the sent attempt, or
\* one beyond it, is under way.
LEMMA SentLeads ==
    ASSUME TypeOK, Handed, NEW d \in Deployments, NEW a \in Nat, Sent(d, a),
           NEW k \in Nat, k < a
    PROVE  Closed(d) \/ EntryAhead(d, k) \/ EnvelopeAhead(d, a)
<1>1. PICK i \in 1..Len(stream) : DepOf[stream[i].req] = d /\ stream[i].attempt = a
  BY DEF Sent
<1>2. CASE Outstanding(i)
  BY <1>1, <1>2 DEF EntryAhead
<1>3. CASE ~Outstanding(i)
  <2>1. Released(i)
    BY <1>3 DEF Released, Outstanding, TypeOK, QueueTypeOK
  <2>2. Closed(d) \/ Ahead(d, a)
    BY <1>1, <2>1 DEF Handed, HandedOn
  <2>3. EntryAhead(d, a) => EntryAhead(d, k)
    BY AttemptNat DEF EntryAhead
  <2> QED BY <2>2, <2>3 DEF Ahead
<1> QED BY <1>2, <1>3

\* An outstanding entry beyond k: after the step it is still outstanding, or it
\* was acked, having been handed on.
LEMMA EntryAheadKept ==
    ASSUME TypeOK, Evidence, WorkInv, [Next]_vars,
           NEW d \in Deployments, NEW k \in Nat, EntryAhead(d, k)
    PROVE  Closed(d)' \/ Ahead(d, k)'
<1>0. StreamExtended /\ QueueKind
  BY StreamStep, StepKind
<1>1. \A j \in 1..Len(stream) : stream[j].attempt \in Nat
  BY AttemptNat
<1>2. ASSUME NEW j \in 1..Len(stream), Outstanding(j)', DepOf[stream[j].req] = d,
             stream[j].attempt > k
      PROVE  Ahead(d, k)'
  <2>1. j \in 1..Len(stream') /\ stream'[j] = stream[j]
    BY <1>0 DEF StreamExtended
  <2> QED BY <1>2, <2>1 DEF Ahead, EntryAhead
<1>3. PICK i \in 1..Len(stream) :
        Outstanding(i) /\ DepOf[stream[i].req] = d /\ stream[i].attempt > k
  BY DEF EntryAhead
<1>4. CASE Outstanding(i)'
  BY <1>2, <1>3, <1>4
<1>5. ASSUME NEW h \in Handlers, pc[h] = "ack", msg[h] = i, AckEffect(i)
      PROVE  Closed(d)' \/ Ahead(d, k)'
  <2>1. Closed(d) \/ Ahead(d, stream[i].attempt)
    BY <1>3, <1>5 DEF WorkInv, Handed, Released, HandedOn
  <2>2. CASE Closed(d)
    BY <2>2, ClosedKept
  <2>3. CASE EntryAhead(d, stream[i].attempt)
    <3>1. PICK j \in 1..Len(stream) : /\ Outstanding(j) /\ DepOf[stream[j].req] = d
                                      /\ stream[j].attempt > stream[i].attempt
      BY <2>3 DEF EntryAhead
    <3>2. j # i /\ stream[j].attempt > k
      BY <1>1, <1>3, <3>1
    <3>3. Outstanding(j)'
      BY <1>5, <3>1, <3>2 DEF Outstanding, AckEffect
    <3> QED BY <1>2, <3>1, <3>2, <3>3
  <2>4. CASE EnvelopeAhead(d, stream[i].attempt)
    <3>1. PICK env \in payloads : /\ Dispatchable(env) /\ DepOf[env.req] = d
                                  /\ env.attempt > stream[i].attempt
      BY <2>4 DEF EnvelopeAhead
    <3>2. env.attempt \in Nat
      BY <3>1 DEF TypeOK, QueueTypeOK, Envelopes
    <3>3. env \in payloads' /\ Dispatchable(env)' /\ env.attempt > k
      BY <1>1, <1>3, <1>5, <3>1, <3>2 DEF AckEffect, Dispatchable, EnvelopeID
    <3> QED BY <3>1, <3>3 DEF Ahead, EnvelopeAhead
  <2> QED BY <2>1, <2>2, <2>3, <2>4 DEF Ahead
<1> QED BY <1>0, <1>3, <1>4, <1>5, OutstandingKept

\* A dispatchable envelope beyond k: it stays, or is overwritten by one of the
\* same id, or a dispatcher drops it, its attempt having been sent.
LEMMA EnvelopeAheadKept ==
    ASSUME TypeOK, Evidence, WorkInv, [Next]_vars,
           NEW d \in Deployments, NEW k \in Nat, EnvelopeAhead(d, k)
    PROVE  Closed(d)' \/ Ahead(d, k)'
<1>0. StreamExtended /\ QueueKind
  BY StreamStep, StepKind
<1>1. PICK env \in payloads :
        Dispatchable(env) /\ DepOf[env.req] = d /\ env.attempt > k
  BY DEF EnvelopeAhead
<1>2. env \in Envelopes /\ env.attempt \in Nat
  BY <1>1 DEF TypeOK, QueueTypeOK, Envelopes
<1>3. ASSUME NEW e \in payloads', EnvelopeID(e) \in retryIndex', DepOf[e.req] = d,
             e.attempt > k
      PROVE  Ahead(d, k)'
  BY <1>3 DEF Ahead, EnvelopeAhead, Dispatchable, EnvelopeID
<1>4. CASE payloads' = payloads /\ retryIndex' = retryIndex
  BY <1>1, <1>3, <1>4 DEF Dispatchable
<1>5. ASSUME NEW e \in Envelopes, ScheduleEffect(e) PROVE Ahead(d, k)'
  <2>1. CASE EnvelopeID(e) = EnvelopeID(env)
    <3>1. DepOf[e.req] = d /\ e.attempt > k
      BY <1>1, <2>1 DEF EnvelopeID
    <3>2. e \in payloads' /\ EnvelopeID(e) \in retryIndex'
      BY <1>5 DEF ScheduleEffect
    <3> QED BY <1>3, <3>1, <3>2
  <2>2. CASE EnvelopeID(e) # EnvelopeID(env)
    BY <1>1, <1>3, <1>5, <2>2 DEF ScheduleEffect, Dispatchable
  <2> QED BY <2>1, <2>2
<1>6. ASSUME NEW w \in Workers, slot[w].stage \in {"orphan", "remove"},
             UNCHANGED <<stream, lastDelivered, pending>>,
             \A e \in payloads : EnvelopeID(e) # slot[w].id => e \in payloads',
             retryIndex' = retryIndex \ {slot[w].id}
      PROVE  Closed(d)' \/ Ahead(d, k)'
  <2>0. ASSUME NEW e \in payloads, EnvelopeID(e) # slot[w].id, Dispatchable(e),
               DepOf[e.req] = d, e.attempt > k
        PROVE  Ahead(d, k)'
    BY <1>3, <1>6, <2>0 DEF Dispatchable
  <2>1. CASE EnvelopeID(env) # slot[w].id
    BY <1>1, <2>0, <2>1
  <2>2. CASE EnvelopeID(env) = slot[w].id
    <3>1. slot[w].id[1] = d /\ slot[w].id[2] = env.attempt
      BY <1>1, <2>2 DEF EnvelopeID
    <3>2. Sent(d, env.attempt)
      BY <1>6, <3>1 DEF WorkInv, SlotBacked
    <3>3. Closed(d) \/ EntryAhead(d, k) \/ EnvelopeAhead(d, env.attempt)
      BY <1>1, <1>2, <3>2, SentLeads DEF WorkInv
    <3>4. CASE Closed(d)
      BY <3>4, ClosedKept
    <3>5. CASE EntryAhead(d, k)
      BY <3>5, EntryAheadKept
    <3>6. CASE EnvelopeAhead(d, env.attempt)
      <4>1. PICK e \in payloads :
              Dispatchable(e) /\ DepOf[e.req] = d /\ e.attempt > env.attempt
        BY <3>6 DEF EnvelopeAhead
      <4>2. e.attempt \in Nat
        BY <4>1 DEF TypeOK, QueueTypeOK, Envelopes
      <4>3. EnvelopeID(e)[2] = e.attempt
        BY DEF EnvelopeID
      <4>4. EnvelopeID(e) # slot[w].id /\ e.attempt > k
        BY <1>1, <1>2, <3>1, <4>1, <4>2, <4>3
      <4> QED BY <2>0, <4>1, <4>4
    <3> QED BY <3>3, <3>4, <3>5, <3>6
  <2> QED BY <2>1, <2>2
<1>7. ASSUME NEW w \in Workers, DispatcherStep(w) \/ DispatcherFault(w)
      PROVE  Closed(d)' \/ Ahead(d, k)'
  <2>1. CASE DropOrphan(w)
    BY <1>6, <2>1 DEF DropOrphan
  <2>2. CASE RemoveEnvelope(w)
    BY <1>6, <2>2 DEF RemoveEnvelope, RemoveEffect
  <2> QED BY <1>4, <1>7, <2>1, <2>2
          DEF DispatcherStep, DispatcherFault, DueIndex, DuePayload, Republish,
              TickFails, RepublishReplyLost, Publish
<1> QED BY <1>0, <1>4, <1>5, <1>7
        DEF QueueKind, queueVars, FetchEffect, AckEffect, SendToDLQEffect, Publish

-----------------------------------------------------------------------------
(* The retry store *)

\* What was sent stays sent.
LEMMA SentKept ==
    ASSUME StreamExtended, NEW d, NEW a, Sent(d, a) PROVE Sent(d, a)'
  BY DEF Sent, StreamExtended

\* An id that is indexed has its payload.
LEMMA IndexBackedStep ==
    ASSUME QueueKind, IndexBacked PROVE IndexBacked'
<1>1. CASE payloads' = payloads /\ retryIndex' \subseteq retryIndex
  BY <1>1 DEF IndexBacked, EnvelopeID
<1>2. ASSUME NEW e \in Envelopes, ScheduleEffect(e) PROVE IndexBacked'
  BY <1>2 DEF ScheduleEffect, IndexBacked, EnvelopeID
<1>3. ASSUME NEW w \in Workers, DispatcherStep(w) \/ DispatcherFault(w)
      PROVE  IndexBacked'
  <2>1. CASE RemoveEnvelope(w)
    BY <2>1 DEF RemoveEnvelope, RemoveEffect, IndexBacked, EnvelopeID
  <2>2. CASE DropOrphan(w)
    BY <1>1, <2>2 DEF DropOrphan
  <2> QED BY <1>1, <1>3, <2>1, <2>2
          DEF DispatcherStep, DispatcherFault, DueIndex, DuePayload, Republish,
              TickFails, RepublishReplyLost, Publish
<1> QED BY <1>1, <1>2, <1>3
        DEF QueueKind, queueVars, FetchEffect, AckEffect, SendToDLQEffect, Publish

\* The payload or the sent entry behind id.
Backed(id) == \/ \E env \in payloads : EnvelopeID(env) = id
              \/ Sent(id[1], id[2])

\* It is kept: a payload is overwritten by one of the same id, and removed only
\* when its attempt was sent.
LEMMA BackedKept ==
    ASSUME QueueKind, StreamExtended, SlotBacked, NEW id, Backed(id) PROVE Backed(id)'
<1>1. Sent(id[1], id[2]) => Backed(id)'
  BY SentKept DEF Backed
<1>2. CASE payloads' = payloads
  BY <1>1, <1>2 DEF Backed, EnvelopeID
<1>3. ASSUME NEW e \in Envelopes, ScheduleEffect(e) PROVE Backed(id)'
  BY <1>1, <1>3 DEF ScheduleEffect, Backed, EnvelopeID
<1>4. ASSUME NEW w \in Workers, RemoveEnvelope(w) PROVE Backed(id)'
  <2>1. CASE id = slot[w].id
    BY <1>1, <1>4, <2>1 DEF SlotBacked, RemoveEnvelope
  <2>2. CASE id # slot[w].id
    BY <1>1, <1>4, <2>2 DEF RemoveEnvelope, RemoveEffect, Backed, EnvelopeID
  <2> QED BY <2>1, <2>2
<1>5. ASSUME NEW w \in Workers, DispatcherStep(w) \/ DispatcherFault(w)
      PROVE  Backed(id)'
  BY <1>2, <1>4, <1>5
     DEF DispatcherStep, DispatcherFault, DueIndex, DuePayload, DropOrphan, Republish,
         TickFails, RepublishReplyLost, Publish
<1> QED BY <1>2, <1>3, <1>5
        DEF QueueKind, queueVars, FetchEffect, AckEffect, SendToDLQEffect, Publish

\* What one dispatcher may conclude from its slot.
SlotOK(w) ==
    /\ slot[w].stage = "indexed" => Backed(slot[w].id)
    /\ slot[w].stage \in {"orphan", "remove"} => Sent(slot[w].id[1], slot[w].id[2])

\* Every dispatcher's conclusion stays right.
LEMMA SlotBackedStep ==
    ASSUME TypeOK, QueueKind, StreamExtended, IndexBacked, SlotBacked PROVE SlotBacked'
<1>0. slot \in [Workers -> SlotStates]
  BY DEF TypeOK, QueueTypeOK
<1>1. SUFFICES ASSUME NEW v \in Workers PROVE SlotOK(v)'
  BY DEF SlotBacked, SlotOK, Backed
<1>2. SlotOK(v)
  BY DEF SlotBacked, SlotOK, Backed
<1>9. PICK x : x = slot[v].id
  OBVIOUS
<1>3. CASE slot'[v] = slot[v]
  <2>1. slot[v].stage = "indexed" => Backed(x)'
    BY <1>2, <1>9, BackedKept DEF SlotOK
  <2>2. slot[v].stage \in {"orphan", "remove"} => Sent(x[1], x[2])'
    BY <1>2, <1>9, SentKept DEF SlotOK
  <2> QED BY <1>3, <1>9, <2>1, <2>2 DEF SlotOK
<1>4. CASE slot'[v] = IdleSlot
  BY <1>4 DEF SlotOK, IdleSlot
<1>5. CASE DueIndex(v)
  <2>1. PICK id \in retryIndex : SetSlot(v, "indexed", id, NoReq)
    BY <1>5 DEF DueIndex
  <2>2. slot'[v].stage = "indexed" /\ slot'[v].id = id
    BY <1>0, <2>1 DEF SetSlot
  <2>3. Backed(id)'
    BY BackedKept DEF IndexBacked, Backed
  <2> QED BY <2>2, <2>3 DEF SlotOK
<1>6. CASE DuePayload(v)
  <2>1. CASE slot'[v].stage = "publish"
    BY <2>1 DEF SlotOK
  <2>2. CASE /\ \A env \in payloads : EnvelopeID(env) # slot[v].id
             /\ SetSlot(v, "orphan", slot[v].id, NoReq)
    <3>1. slot'[v].stage = "orphan" /\ slot'[v].id = slot[v].id
      BY <1>0, <2>2 DEF SetSlot
    <3>2. Sent(x[1], x[2])'
      BY <1>2, <1>6, <1>9, <2>2, SentKept DEF SlotOK, Backed, DuePayload
    <3> QED BY <1>9, <3>1, <3>2 DEF SlotOK
  <2>3. ASSUME NEW r, SetSlot(v, "publish", slot[v].id, r)
        PROVE  slot'[v].stage = "publish"
    BY <1>0, <2>3 DEF SetSlot
  <2> QED BY <1>6, <2>1, <2>2, <2>3 DEF DuePayload
<1>7. CASE Republish(v)
  <2>1. slot'[v].stage = "remove" /\ slot'[v].id = slot[v].id
    BY <1>0, <1>7 DEF Republish, SetSlot
  <2>2. DepOf[slot[v].req] = slot[v].id[1]
    BY <1>7 DEF Republish, TypeOK, QueueTypeOK
  <2>3. /\ Len(stream') = Len(stream) + 1 /\ Len(stream) \in Nat
        /\ stream'[Len(stream) + 1] = [req |-> slot[v].req, attempt |-> slot[v].id[2]]
    BY <1>7 DEF Republish, Publish, TypeOK, QueueTypeOK
  <2>4. Sent(x[1], x[2])'
    BY <1>9, <2>2, <2>3 DEF Sent
  <2> QED BY <1>9, <2>1, <2>4 DEF SlotOK
<1>8. ASSUME NEW w \in Workers, DispatcherStep(w) \/ DispatcherFault(w)
      PROVE  SlotOK(v)'
  <2>1. CASE w # v
    <3>1. slot'[v] = slot[v]
      BY <1>0, <1>8, <2>1
         DEF DispatcherStep, DispatcherFault, DueIndex, DuePayload, DropOrphan,
             Republish, RemoveEnvelope, TickFails, RepublishReplyLost, SetSlot, FreeSlot
    <3> QED BY <1>3, <3>1
  <2>2. CASE w = v
    <3>1. CASE FreeSlot(v)
      BY <1>0, <1>4, <3>1 DEF FreeSlot
    <3> QED BY <1>5, <1>6, <1>7, <1>8, <2>2, <3>1
            DEF DispatcherStep, DispatcherFault, DropOrphan, RemoveEnvelope,
                TickFails, RepublishReplyLost
  <2> QED BY <2>1, <2>2
<1> QED BY <1>0, <1>3, <1>4, <1>8
        DEF QueueKind, queueVars, FetchEffect, AckEffect, SendToDLQEffect,
            ScheduleEffect

-----------------------------------------------------------------------------
(* Where a handler decides to ack *)

\* A handler may stop at a status that is not actionable, provided that one it
\* knows to be ARTIFACT_READY is passed over: a deployment further down the
\* pipeline was announced.
LEMMA StopsClosed ==
    ASSUME ArtifactInv, NEW d \in Deployments, NonActionable(record[d]),
           record' = record, readyEvents' = readyEvents,
           record[d] = "ARTIFACT_READY" => d \in passedOver'
    PROVE  Closed(d)'
<1>1. record[d] \in {"EXPORT_FAILED", "CANCELLED"} => Ended(d)'
  BY DEF Ended
<1>2. record[d] = "CDN_UPLOADING" => Announced(d)'
  BY DEF ArtifactInv, Founded, Announced
<1> QED BY <1>1, <1>2 DEF NonActionable, Closed

\* A handler that decides to ack has closed its deployment or handed the
\* entry on to the retry store.
LEMMA AckReached ==
    ASSUME TypeOK, Evidence, ArtifactInv, Concluded, NEW h \in Handlers, HandlerStep(h),
           pc'[h] = "ack", NEW d \in Deployments, d = Dep(h), NEW k \in Nat, k = Attempt(h)
    PROVE  msg'[h] = msg[h] /\ (Closed(d)' \/ EnvelopeAhead(d, k)')
<1>1. ASSUME NEW c, NEW s PROVE ~Fail(h, c, s)
  BY Moves
<1>2. Settle(h) => msg'[h] = msg[h]
  BY Moves
<1>3. CASE Load(h)
  <2>1. ~Goto(h, "reemit") /\ \A s : ~Proceed(h, "lock", s, NoCode, NoStamp)
    BY Moves
  <2>2. /\ Settle(h) /\ NonActionable(record[d])
        /\ record[d] = "ARTIFACT_READY" => d \in passedOver'
    BY <1>1, <1>3, <2>1 DEF Load, Decide, PassOver
  <2>3. record' = record /\ readyEvents' = readyEvents
    BY <1>3 DEF Load, serviceVars
  <2> QED BY <1>2, <2>2, <2>3, StopsClosed
<1>4. ~ReemitReady(h)
  <2>1. ASSUME ReemitReady(h) PROVE manifest[d] # NoStamp
    BY <2>1 DEF ReemitReady, Evidence, Informed, ArtifactInv, Founded
  <2> QED BY <2>1, Moves DEF ReemitReady
<1>5. CASE AcquireLock(h)
  <2>1. msg'[h] = msg[h] /\ givenUp' = givenUp \cup {d}
    BY <1>5, Moves DEF AcquireLock
  <2> QED BY <2>1 DEF Closed
<1>6. CASE CasExporting(h)
  <2>1. ~Return(h) /\ ~Proceed(h, "produce", "EXPORTING", NoCode, NoStamp)
    BY Moves
  <2>2. /\ Settle(h) /\ NonActionable(record[d]) /\ record' = record
        /\ record[d] = "ARTIFACT_READY" => d \in passedOver'
    BY <1>1, <1>6, <2>1 DEF CasExporting, PassOver
  <2>3. readyEvents' = readyEvents
    BY <1>6 DEF CasExporting
  <2> QED BY <1>2, <2>2, <2>3, StopsClosed
<1>7. CASE CasReady(h)
  <2>1. ~Goto(h, "emitReady")
    BY Moves
  <2>2. /\ Settle(h) /\ NonActionable(record[d]) /\ record' = record
        /\ record[d] # "ARTIFACT_READY"
    BY <1>1, <1>7, <2>1 DEF CasReady
  <2>3. readyEvents' = readyEvents
    BY <1>7 DEF CasReady
  <2> QED BY <1>2, <2>2, <2>3, StopsClosed
<1>8. CASE EmitReady(h)
  <2>1. /\ Settle(h)
        /\ readyEvents' = readyEvents \cup {[dep |-> d, digest |-> digest[h]]}
    BY <1>8, Moves DEF EmitReady
  <2>2. [dep |-> d, digest |-> digest[h]].dep = d
    OBVIOUS
  <2>3. Announced(d)'
    BY <2>1, <2>2 DEF Announced
  <2> QED BY <1>2, <2>1, <2>3 DEF Closed
<1>9. CASE ScheduleRetry(h)
  <2> DEFINE env == [req |-> Req(h), attempt |-> Attempt(h) + 1, code |-> code[h]]
  <2>1. ScheduleEffect(env) /\ msg'[h] = msg[h]
    BY <1>9, Moves DEF ScheduleRetry
  <2>2. env \in payloads' /\ EnvelopeID(env) \in retryIndex'
    BY <2>1 DEF ScheduleEffect
  <2>3. DepOf[env.req] = d /\ env.attempt > k
    BY DEF Dep
  <2>4. PICK e : e = env
    OBVIOUS
  <2>5. e \in payloads' /\ Dispatchable(e)' /\ DepOf[e.req] = d /\ e.attempt > k
    BY <2>2, <2>3, <2>4 DEF Dispatchable, EnvelopeID
  <2> QED BY <2>1, <2>5 DEF EnvelopeAhead
<1>10. CASE SendToDLQ(h)
  <2>1. SendToDLQEffect(Req(h)) /\ msg'[h] = msg[h]
    BY <1>10, Moves DEF SendToDLQ
  <2> QED BY <2>1 DEF SendToDLQEffect, Closed, InDLQ, Dep
<1>11. CASE EmitFailed(h)
  <2>1. Closed(d)
    BY <1>11 DEF EmitFailed, Concluded
  <2>2. /\ UNCHANGED <<record, readyEvents, dlq, givenUp, passedOver>>
        /\ msg'[h] = msg[h]
    BY <1>11, Moves DEF EmitFailed, queueVars
  <2> QED BY <2>1, <2>2 DEF Closed, Ended, Announced, InDLQ
<1>12. ~(\/ Produce(h) \/ ManifestCreatedAt(h) \/ WriteManifest(h))
  BY Moves DEF Produce, ManifestCreatedAt, WriteManifest
<1>13. ~(SubmitArtifact(h) \/ Ack(h))
  BY Moves DEF SubmitArtifact, Ack
<1>14. ~CasFailed(h)
  BY Moves DEF CasFailed
<1>15. ~Release(h)
  BY DEF Release, TypeOK, HandlerTypeOK
<1> QED BY <1>3, <1>4, <1>5, <1>6, <1>7, <1>8, <1>9, <1>10, <1>11, <1>12, <1>13,
           <1>14, <1>15 DEF HandlerStep

\* A handler that goes on to the failed event has closed its deployment.
LEMMA ConcludedReached ==
    ASSUME TypeOK, ArtifactInv, NEW h \in Handlers, HandlerStep(h), pc'[h] = "emitFailed",
           NEW d \in Deployments, d = Dep(h)
    PROVE  msg'[h] = msg[h] /\ Closed(d)'
<1>0. /\ record \in [Deployments -> Statuses]
      /\ pc[h] \in WorkingPCs => Actionable(snap[h])
  BY DEF TypeOK, ServiceTypeOK, ArtifactInv, Working
<1>1. ASSUME NEW c, pc[h] \in WorkingPCs PROVE ~Fail(h, c, snap[h])
  BY <1>0, <1>1, Moves
<1>2. ~Settle(h) /\ ~Return(h)
  BY Moves
<1>3. CASE Load(h)
  <2>1. record' = record /\ readyEvents' = readyEvents
    BY <1>3 DEF Load, serviceVars
  <2>2. ASSUME NEW c, NEW s, Fail(h, c, s), s = NoStatus \/ s = record[d]
        PROVE  msg'[h] = msg[h] /\ Closed(d)'
    <3>1. /\ msg'[h] = msg[h]
          /\ NonActionable(s) \/ d \in givenUp'
          /\ s = "ARTIFACT_READY" => d \in passedOver'
      BY <2>2, Moves
    <3>2. CASE d \in givenUp'
      BY <3>1, <3>2 DEF Closed
    <3>3. CASE NonActionable(s)
      <4>1. s = record[d]
        BY <2>2, <3>3 DEF NonActionable, NoStatus
      <4> QED BY <2>1, <3>1, <3>3, <4>1, StopsClosed
    <3> QED BY <3>1, <3>2, <3>3
  <2>3. ~Goto(h, "reemit") /\ \A s : ~Proceed(h, "lock", s, NoCode, NoStamp)
    BY Moves
  <2> QED BY <1>2, <1>3, <2>2, <2>3 DEF Load, Decide
<1>4. CASE SendToDLQ(h)
  <2>1. SendToDLQEffect(Req(h)) /\ Goto(h, "emitFailed")
    BY <1>2, <1>4 DEF SendToDLQ
  <2>2. Closed(d)'
    BY <2>1 DEF SendToDLQEffect, Closed, InDLQ, Dep
  <2> QED BY <2>1, <2>2, Moves
<1>5. CASE CasFailed(h)
  <2>1. ~Goto(h, "dlq") /\ ~Goto(h, "dlqExhausted")
    BY Moves
  <2>2. Goto(h, "emitFailed") /\ readyEvents' = readyEvents
    BY <1>2, <1>5, <2>1 DEF CasFailed
  <2>3. CASE CasEffect(h, "EXPORT_FAILED")
    <3>1. Ended(d)'
      BY <1>0, <2>3 DEF CasEffect, Ended
    <3> QED BY <2>2, <3>1, Moves DEF Closed
  <2>4. CASE ~CasEffect(h, "EXPORT_FAILED")
    <3>1. /\ NonActionable(record[d]) /\ record' = record
          /\ record[d] = "ARTIFACT_READY" => d \in passedOver'
      BY <1>2, <1>5, <2>1, <2>4 DEF CasFailed, PassOver
    <3> QED BY <2>2, <3>1, Moves, StopsClosed
  <2> QED BY <2>3, <2>4
<1>6. ~(AcquireLock(h) \/ CasExporting(h) \/ CasReady(h))
  BY <1>1, <1>2, Moves DEF AcquireLock, CasExporting, CasReady, WorkingPCs
<1>7. ~(Produce(h) \/ ManifestCreatedAt(h) \/ WriteManifest(h) \/ SubmitArtifact(h))
  BY <1>1, Moves DEF Produce, ManifestCreatedAt, WriteManifest, SubmitArtifact, WorkingPCs
<1>8. ~(ReemitReady(h) \/ EmitReady(h) \/ ScheduleRetry(h) \/ EmitFailed(h) \/ Ack(h))
  BY <1>2, Moves DEF ReemitReady, EmitReady, ScheduleRetry, EmitFailed, Ack
<1>9. ~Release(h)
  BY DEF Release, TypeOK, HandlerTypeOK
<1> QED BY <1>3, <1>4, <1>5, <1>6, <1>7, <1>8, <1>9 DEF HandlerStep

-----------------------------------------------------------------------------
(* The invariant is inductive *)

\* What the handlers concluded stays true.
LEMMA ConcludedStep ==
    ASSUME TypeOK, Evidence, ArtifactInv, WorkInv, [Next]_vars PROVE Concluded'
<1> SUFFICES ASSUME NEW h \in Handlers, pc'[h] = "emitFailed" PROVE Closed(Dep(h))'
  BY DEF Concluded
<1>0. StreamExtended /\ Concluded
  BY StreamStep DEF WorkInv
<1>1. pc[h] # "idle"
  BY HandlerFate DEF HandlerStep, Load, ReemitReady, AcquireLock, CasExporting, Produce,
     ManifestCreatedAt, WriteManifest, SubmitArtifact, CasReady, EmitReady,
     ScheduleRetry, CasFailed, SendToDLQ, EmitFailed, Ack, Release
<1>2. PICK d \in Deployments : d = Dep(h)
  BY <1>1, EntryType DEF TypeOK
<1>3. msg'[h] = msg[h] /\ Closed(d)'
  <2>1. CASE HandlerStep(h)
    BY <1>2, <2>1, ConcludedReached
  <2>2. CASE pc'[h] = pc[h] /\ msg'[h] = msg[h]
    <3>1. Closed(d)
      BY <1>0, <1>2, <2>2 DEF Concluded
    <3> QED BY <2>2, <3>1, ClosedKept
  <2> QED BY <2>1, <2>2, HandlerFate
<1>4. Dep(h)' = d
  BY <1>0, <1>1, <1>2, <1>3, DepKept
<1> QED BY <1>3, <1>4

\* An entry the step releases was handed on, and one released before still is.
LEMMA HandedStep ==
    ASSUME TypeOK, Evidence, ArtifactInv, WorkInv, [Next]_vars PROVE Handed'
<1> SUFFICES ASSUME NEW i \in 1..Len(stream'), Released(i)' PROVE HandedOn(i)'
  BY DEF Handed
<1>0. StreamExtended /\ QueueKind /\ Concluded
  BY StreamStep, StepKind DEF WorkInv
<1>1. /\ stream \in Seq(Messages) /\ lastDelivered \in 0..Len(stream)
      /\ pending \subseteq 1..lastDelivered
  BY DEF TypeOK, QueueTypeOK
<1>2. ASSUME i \in 1..Len(stream), NEW d \in Deployments, NEW k \in Nat,
             d = DepOf[stream[i].req], k = stream[i].attempt,
             Closed(d)' \/ Ahead(d, k)'
      PROVE  HandedOn(i)'
  <2>1. stream'[i] = stream[i]
    BY <1>0, <1>2 DEF StreamExtended
  <2>2. DepOf[stream'[i].req] = d /\ stream'[i].attempt = k
    BY <1>2, <2>1
  <2> QED BY <1>2, <2>2 DEF HandedOn
<1>3. ASSUME i \in 1..Len(stream), Released(i) PROVE HandedOn(i)'
  <2>0. stream[i] \in Messages
    BY <1>1, <1>3
  <2>1. PICK d \in Deployments : d = DepOf[stream[i].req]
    BY <2>0, DepOfType DEF Messages
  <2>2. PICK k \in Nat : k = stream[i].attempt
    BY <1>3, AttemptNat
  <2>3. Closed(d) \/ EntryAhead(d, k) \/ EnvelopeAhead(d, k)
    BY <1>3, <2>1, <2>2 DEF WorkInv, Handed, HandedOn, Ahead
  <2>4. Closed(d)' \/ Ahead(d, k)'
    BY <2>3, ClosedKept, EntryAheadKept, EnvelopeAheadKept
  <2> QED BY <1>2, <1>3, <2>1, <2>2, <2>4
<1>4. CASE i <= lastDelivered' /\ i \notin pending'
  <2>1. i \in 1..Len(stream) /\ Released(i)
    <3>1. CASE lastDelivered' = lastDelivered /\ pending' = pending
      BY <1>1, <1>4, <3>1 DEF Released
    <3>2. CASE FetchEffect
      BY <1>1, <1>4, <3>2 DEF FetchEffect, Released
    <3>3. ASSUME NEW h \in Handlers, pc[h] = "ack", AckEffect(msg[h])
          PROVE  i \in 1..Len(stream) /\ Released(i)
      BY <1>1, <1>4, <3>3 DEF AckEffect, Released
    <3>4. CASE \E w \in Workers : DispatcherStep(w) \/ DispatcherFault(w)
      <4>1. lastDelivered' = lastDelivered /\ pending' = pending
        BY <3>4 DEF DispatcherStep, DispatcherFault, DueIndex, DuePayload, DropOrphan,
                    Republish, RemoveEnvelope, RemoveEffect, TickFails,
                    RepublishReplyLost, Publish
      <4> QED BY <3>1, <4>1
    <3> QED BY <1>0, <3>1, <3>2, <3>3, <3>4
            DEF QueueKind, queueVars, SendToDLQEffect, ScheduleEffect, Publish
  <2> QED BY <1>3, <2>1
<1>5. ASSUME NEW h \in Handlers, pc'[h] = "ack", msg'[h] = i PROVE HandedOn(i)'
  <2>1. CASE pc[h] = "ack" /\ msg'[h] = msg[h]
    <3>1. i \in 1..Len(stream) /\ Released(i)
      BY <1>5, <2>1, EntryType DEF Released, TypeOK
    <3> QED BY <1>3, <3>1
  <2>2. CASE HandlerStep(h)
    <3>1. pc[h] # "idle"
      BY <2>2 DEF HandlerStep, Load, ReemitReady, AcquireLock, CasExporting, Produce,
           ManifestCreatedAt, WriteManifest, SubmitArtifact, CasReady, EmitReady,
           ScheduleRetry, CasFailed, SendToDLQ, EmitFailed, Ack, Release
    <3>2. /\ msg[h] \in 1..Len(stream) /\ Dep(h) \in Deployments
          /\ Attempt(h) \in 0..MaxRetries
      BY <3>1, EntryType DEF TypeOK
    <3>3. PICK d \in Deployments : d = Dep(h)
      BY <3>2
    <3>4. PICK k \in Nat : k = Attempt(h)
      BY <3>2, MaxRetriesType
    <3>5. msg'[h] = msg[h] /\ (Closed(d)' \/ EnvelopeAhead(d, k)')
      BY <1>0, <1>5, <2>2, <3>3, <3>4, AckReached
    <3>6. Closed(d)' \/ Ahead(d, k)'
      BY <3>5 DEF Ahead
    <3> QED BY <1>2, <1>5, <3>2, <3>3, <3>4, <3>5, <3>6 DEF Dep, Req, Attempt
  <2> QED BY <1>5, <2>1, <2>2, HandlerFate
<1> QED BY <1>4, <1>5 DEF Released

\* Every request is accounted for, in a fleet of any size, with any number of
\* requests, retries, crashes, lost answers, stolen messages and racing
\* dispatchers: the deployment is announced, failed, cancelled, in the DLQ or
\* given up, or an unacked entry or a dispatchable envelope stands for it, or a
\* handler that knew it to be ARTIFACT_READY acked it for somebody else to
\* announce (Handle's and casFailed's conflicts, Handle on a defective
\* repetition).
THEOREM FleetAccountsForEveryRequest == Spec => []EveryRequestAccounted
<1>1. Init => WorkInv
  BY DEF Init, QueueInit, WorkInv, Handed, IndexBacked, SlotBacked, Concluded, IdleSlot
<1>2. TypeOK /\ Evidence /\ ArtifactInv /\ [Next]_vars => (Evidence /\ ArtifactInv)'
  BY EvidenceStep, ArtifactStep
<1>3. TypeOK /\ Evidence /\ ArtifactInv /\ WorkInv /\ [Next]_vars => WorkInv'
  BY HandedStep, ConcludedStep, IndexBackedStep, SlotBackedStep, StreamStep, StepKind
     DEF WorkInv
<1>4. TypeOK /\ WorkInv => EveryRequestAccounted
  BY WorkInvSuffices
<1> QED BY <1>1, <1>2, <1>3, <1>4, ArtifactInit, FleetTypeCorrect, PTL DEF Spec

\* So no requested deployment is ever forgotten: until its record is terminal,
\* its request in the DLQ or given up, an unacked entry or a dispatchable
\* envelope stands for it (write-then-ack in scheduleRetry, exhausted and fail;
\* removal after re-enqueue in Tick).
THEOREM FleetLosesNoWork == Spec => []NoLostWork
<1>1. TypeOK /\ Evidence /\ ArtifactInv /\ [Next]_vars => (Evidence /\ ArtifactInv)'
  BY EvidenceStep, ArtifactStep
<1>2. ASSUME ArtifactInv, EveryRequestAccounted PROVE NoLostWork
  <2>1. ASSUME NEW d \in Deployments,
               \/ Announced(d) \/ d \in passedOver
               \/ record[d] \in {"EXPORT_FAILED", "CANCELLED"}
        PROVE  Settled(d)
    BY <1>2, <2>1 DEF ArtifactInv, Founded, ReadyOrLater, Settled, NonActionable
  <2> QED BY <1>2, <2>1 DEF EveryRequestAccounted, NoLostWork
<1> QED BY <1>1, <1>2, ArtifactInit, FleetAccountsForEveryRequest, FleetTypeCorrect, PTL
        DEF Spec

-----------------------------------------------------------------------------
(***************************************************************************)
(* Every ready event is truthful, provided the requests of a deployment    *)
(* all carry the same createdAt.  That makes the manifest a function of    *)
(* the deployment: whoever builds it, registers it or finds it in storage  *)
(* has the same digest, and no run can overwrite what another announced.   *)
(***************************************************************************)

\* Every request carries a createdAt, and a repeated request the same.
StampedAlike ==
    \A q, r \in Requests : Stamp[r] # NoStamp /\ (DepOf[q] = DepOf[r] => Stamp[q] = Stamp[r])

\* g is the digest of the manifest of deployment d.
Genuine(d, g) == \E r \in Requests : DepOf[r] = d /\ Stamp[r] = g

\* What a handler has built is genuine, and stored before it is submitted.
BuildsGenuine(h) ==
    /\ pc[h] # "createdAt"
    /\ pc[h] \in BuiltPCs => Genuine(Dep(h), digest[h])
    /\ pc[h] = "submit" => manifest[Dep(h)] # NoStamp

\* What is stored and registered is genuine: stored before it is registered,
\* registered before the deployment is ready.
KeepsGenuine(d) ==
    /\ manifest[d] # NoStamp => Genuine(d, manifest[d])
    /\ pointer[d] # NoStamp => Genuine(d, pointer[d]) /\ manifest[d] # NoStamp
    /\ ReadyOrLater(d) => pointer[d] # NoStamp

EventsGenuine == \A e \in readyEvents : ReadyOrLater(e.dep) /\ Genuine(e.dep, e.digest)

StampInv ==
    /\ \A h \in Handlers : BuildsGenuine(h)
    /\ \A d \in Deployments : KeepsGenuine(d)
    /\ EventsGenuine

\* One deployment has one genuine digest.
LEMMA GenuineUnique ==
    ASSUME StampedAlike, NEW d, NEW f, NEW g, Genuine(d, f), Genuine(d, g)
    PROVE  f = g /\ f # NoStamp
  BY DEF StampedAlike, Genuine

\* StampInv is what ReadyEventTruthful needs.
LEMMA StampInvSuffices ==
    ASSUME TypeOK, StampedAlike, StampInv PROVE ReadyEventTruthful
<1> SUFFICES ASSUME NEW e \in readyEvents
             PROVE  ReadyOrLater(e.dep) /\ e.digest = pointer[e.dep] /\ e.digest = manifest[e.dep]
  BY DEF ReadyEventTruthful
<1>1. e.dep \in Deployments
  BY DEF TypeOK, ServiceTypeOK, ReadyEvents
<1>2. ReadyOrLater(e.dep) /\ Genuine(e.dep, e.digest) /\ KeepsGenuine(e.dep)
  BY <1>1 DEF StampInv, EventsGenuine
<1> QED BY <1>2, GenuineUnique DEF KeepsGenuine

\* Stores and records stay genuine.
LEMMA KeepsGenuineStep ==
    ASSUME TypeOK, Evidence, StampInv, [Next]_vars, NEW d \in Deployments
    PROVE  KeepsGenuine(d)'
<1>0. Monotone /\ KeepsGenuine(d) /\ manifest \in [Deployments -> Stamps \cup {NoStamp}]
      /\ pointer \in [Deployments -> Stamps \cup {NoStamp}]
  BY StepRefines, LifecycleMonotone DEF StampInv, TypeOK, ServiceTypeOK
<1>1. manifest'[d] # NoStamp => Genuine(d, manifest'[d])
  <2>1. CASE manifest' = manifest
    BY <1>0, <2>1 DEF KeepsGenuine
  <2>2. ASSUME NEW h \in Handlers, pc[h] = "manifest",
               manifest' = [manifest EXCEPT ![Dep(h)] = digest[h]]
        PROVE  manifest'[d] # NoStamp => Genuine(d, manifest'[d])
    <3>1. Genuine(Dep(h), digest[h])
      BY <2>2 DEF StampInv, BuildsGenuine, BuiltPCs
    <3>2. CASE Dep(h) = d
      BY <1>0, <2>2, <3>1, <3>2
    <3>3. CASE Dep(h) # d
      BY <1>0, <2>2, <3>3 DEF KeepsGenuine
    <3> QED BY <3>2, <3>3
  <2> QED BY <2>1, <2>2, Writers
<1>2. pointer'[d] # NoStamp => Genuine(d, pointer'[d]) /\ manifest'[d] # NoStamp
  <2>1. CASE pointer' = pointer
    BY <1>0, <2>1, StoredKept DEF KeepsGenuine
  <2>2. ASSUME NEW h \in Handlers, pc[h] = "submit",
               pointer' = [pointer EXCEPT ![Dep(h)] = digest[h]]
        PROVE  pointer'[d] # NoStamp => Genuine(d, pointer'[d]) /\ manifest'[d] # NoStamp
    <3>1. Genuine(Dep(h), digest[h]) /\ manifest[Dep(h)] # NoStamp
      BY <2>2 DEF StampInv, BuildsGenuine, BuiltPCs
    <3>2. CASE Dep(h) = d
      BY <1>0, <2>2, <3>1, <3>2, StoredKept
    <3>3. CASE Dep(h) # d
      BY <1>0, <2>2, <3>3, StoredKept DEF KeepsGenuine
    <3> QED BY <3>2, <3>3
  <2> QED BY <2>1, <2>2, Writers
<1>3. ASSUME ReadyOrLater(d)' PROVE pointer'[d] # NoStamp
  <2>1. CASE ReadyOrLater(d)
    BY <1>0, <2>1 DEF KeepsGenuine, Monotone
  <2>2. ASSUME NEW h \in Handlers, pc[h] = "casReady", Dep(h) = d PROVE pointer'[d] # NoStamp
    BY <1>0, <2>2 DEF Evidence, Informed, Monotone
  <2> QED BY <1>3, <2>1, <2>2, Writers
<1> QED BY <1>1, <1>2, <1>3 DEF KeepsGenuine, Genuine

\* Only genuine events are added, for ready deployments.
LEMMA EventsGenuineStep ==
    ASSUME TypeOK, Evidence, StampInv, [Next]_vars PROVE EventsGenuine'
<1> SUFFICES ASSUME NEW e \in readyEvents' PROVE ReadyOrLater(e.dep)' /\ Genuine(e.dep, e.digest)
  BY DEF EventsGenuine, Genuine
<1>0. Monotone
  BY StepRefines, LifecycleMonotone
<1>1. CASE e \in readyEvents
  <2>1. e.dep \in Deployments
    BY <1>1 DEF TypeOK, ServiceTypeOK, ReadyEvents
  <2> QED BY <1>0, <1>1, <2>1 DEF Monotone, StampInv, EventsGenuine
<1>2. ASSUME NEW h \in Handlers, pc[h] = "emitReady", e = [dep |-> Dep(h), digest |-> digest[h]]
      PROVE  ReadyOrLater(e.dep)' /\ Genuine(e.dep, e.digest)
  <2>1. Dep(h) \in Deployments
    BY <1>2, EntryType DEF TypeOK
  <2>2. ReadyOrLater(Dep(h)) /\ Genuine(Dep(h), digest[h])
    BY <1>2 DEF Evidence, Informed, StampInv, BuildsGenuine, BuiltPCs
  <2>3. e.dep = Dep(h) /\ e.digest = digest[h]
    BY <1>2
  <2> QED BY <1>0, <2>1, <2>2, <2>3 DEF Monotone
<1> QED BY <1>1, <1>2, Writers

\* A handler that does not move keeps what it has built.
LEMMA BuildsGenuineKept ==
    ASSUME TypeOK, [Next]_vars, NEW h \in Handlers, BuildsGenuine(h),
           pc'[h] = pc[h], msg'[h] = msg[h], digest'[h] = digest[h]
    PROVE  BuildsGenuine(h)'
<1>1. CASE pc[h] = "idle"
  BY <1>1 DEF BuildsGenuine, BuiltPCs
<1>2. CASE pc[h] # "idle"
  <2>1. Dep(h)' = Dep(h) /\ Dep(h) \in Deployments
    BY <1>2, DepKept, StreamStep
  <2>2. manifest[Dep(h)] # NoStamp => manifest'[Dep(h)] # NoStamp
    BY <2>1, StoredKept
  <2> QED BY <2>1, <2>2 DEF BuildsGenuine, Genuine
<1> QED BY <1>1, <1>2

\* How a handler comes to hold a digest: from its request, from the step before,
\* or from storage.
LEMMA BuiltReached ==
    ASSUME TypeOK, StampedAlike, NEW h \in Handlers, HandlerStep(h), pc[h] # "createdAt",
           pc'[h] \in BuiltPCs \cup {"createdAt"}
    PROVE  /\ pc[h] # "idle" /\ msg'[h] = msg[h] /\ pc'[h] # "createdAt"
           /\ pc'[h] = "submit" =>
                pc[h] = "manifest" /\ manifest' = [manifest EXCEPT ![Dep(h)] = digest[h]]
           /\ \/ digest'[h] = Stamp[Req(h)]
              \/ pc[h] \in BuiltPCs /\ digest'[h] = digest[h]
              \/ manifest[Dep(h)] # NoStamp /\ digest'[h] = manifest[Dep(h)]
<1>0. HandlerTypeOK
  BY DEF TypeOK
<1> USE DEF BuiltPCs
<1>1. ASSUME NEW p, NEW s, NEW c, NEW g, Proceed(h, p, s, c, g)
      PROVE  pc'[h] = p /\ msg'[h] = msg[h] /\ digest'[h] = g
  BY <1>0, <1>1 DEF Proceed, HandlerTypeOK
<1>2. ~Return(h)
  BY <1>0 DEF Return, HandlerTypeOK
<1>3. ASSUME NEW p, Goto(h, p) PROVE pc'[h] = p /\ msg'[h] = msg[h] /\ digest'[h] = digest[h]
  BY <1>1, <1>3 DEF Goto
<1>4. ~Settle(h)
  BY <1>1 DEF Settle
<1>5. ASSUME NEW c, NEW s PROVE ~Fail(h, c, s)
  BY <1>1 DEF Fail, FailBranch
<1>6. CASE Load(h)
  BY <1>1, <1>3, <1>4, <1>5, <1>6 DEF Load, Decide
<1>7. CASE ReemitReady(h)
  BY <1>1, <1>2, <1>4, <1>7 DEF ReemitReady
<1>8. CASE AcquireLock(h)
  BY <1>2, <1>3, <1>4, <1>5, <1>8 DEF AcquireLock
<1>9. CASE CasExporting(h)
  BY <1>1, <1>2, <1>4, <1>5, <1>9 DEF CasExporting
<1>10. CASE Produce(h)
  <2>1. Req(h) \in Requests
    BY <1>10, EntryType DEF Produce, TypeOK
  <2>2. Stamp[Req(h)] # NoStamp
    BY <2>1 DEF StampedAlike
  <2> QED BY <1>1, <1>5, <1>10, <2>2 DEF Produce
<1>11. ~ManifestCreatedAt(h)
  BY DEF ManifestCreatedAt
<1>12. CASE WriteManifest(h)
  BY <1>3, <1>5, <1>12 DEF WriteManifest
<1>13. CASE SubmitArtifact(h)
  BY <1>3, <1>5, <1>13 DEF SubmitArtifact
<1>14. CASE CasReady(h)
  BY <1>3, <1>4, <1>5, <1>14 DEF CasReady
<1>15. CASE EmitReady(h) \/ ScheduleRetry(h) \/ SendToDLQ(h) \/ EmitFailed(h) \/ Ack(h)
  BY <1>2, <1>3, <1>4, <1>15 DEF EmitReady, ScheduleRetry, SendToDLQ, EmitFailed, Ack
<1>16. CASE CasFailed(h)
  BY <1>2, <1>3, <1>16 DEF CasFailed
<1>17. CASE Release(h)
  BY <1>0, <1>17 DEF Release, HandlerTypeOK
<1> QED BY <1>6, <1>7, <1>8, <1>9, <1>10, <1>11, <1>12, <1>13, <1>14, <1>15, <1>16, <1>17
        DEF HandlerStep

\* The step of a handler keeps what it builds genuine.
LEMMA BuildsGenuineMoves ==
    ASSUME TypeOK, StampedAlike, StampInv, [Next]_vars, NEW h \in Handlers, HandlerStep(h)
    PROVE  BuildsGenuine(h)'
<1>0. BuildsGenuine(h)
  BY DEF StampInv
<1> SUFFICES ASSUME pc'[h] \in BuiltPCs \cup {"createdAt"} PROVE BuildsGenuine(h)'
  BY DEF BuildsGenuine, BuiltPCs
<1>1. /\ pc[h] # "idle" /\ msg'[h] = msg[h] /\ pc'[h] # "createdAt"
      /\ pc'[h] = "submit" =>
           pc[h] = "manifest" /\ manifest' = [manifest EXCEPT ![Dep(h)] = digest[h]]
      /\ \/ digest'[h] = Stamp[Req(h)]
         \/ pc[h] \in BuiltPCs /\ digest'[h] = digest[h]
         \/ manifest[Dep(h)] # NoStamp /\ digest'[h] = manifest[Dep(h)]
  BY <1>0, BuiltReached DEF BuildsGenuine
<1>2. Dep(h)' = Dep(h) /\ Dep(h) \in Deployments /\ Req(h) \in Requests
  BY <1>1, DepKept, StreamStep, EntryType DEF TypeOK
<1>3. Genuine(Dep(h), digest'[h])
  <2>1. CASE digest'[h] = Stamp[Req(h)]
    BY <1>2, <2>1 DEF Genuine, Dep
  <2>2. CASE pc[h] \in BuiltPCs /\ digest'[h] = digest[h]
    BY <1>0, <2>2 DEF BuildsGenuine
  <2>3. CASE manifest[Dep(h)] # NoStamp /\ digest'[h] = manifest[Dep(h)]
    BY <1>2, <2>3 DEF StampInv, KeepsGenuine
  <2> QED BY <1>1, <2>1, <2>2, <2>3
<1>4. ASSUME pc'[h] = "submit" PROVE manifest'[Dep(h)] # NoStamp
  <2>1. digest[h] \in Stamps
    BY <1>1, <1>4 DEF TypeOK, HandlerTypeOK, BuiltPCs
  <2> QED BY <1>1, <1>2, <1>4, <2>1, StampsFresh DEF TypeOK, ServiceTypeOK
<1> QED BY <1>1, <1>2, <1>3, <1>4 DEF BuildsGenuine, Genuine

\* The invariant is kept by every step.
LEMMA StampInvStep ==
    ASSUME TypeOK, Evidence, StampedAlike, StampInv, [Next]_vars PROVE StampInv'
<1>1. (\A d \in Deployments : KeepsGenuine(d)') /\ EventsGenuine'
  BY KeepsGenuineStep, EventsGenuineStep
<1> SUFFICES ASSUME NEW k \in Handlers PROVE BuildsGenuine(k)'
  BY <1>1 DEF StampInv
<1>0. BuildsGenuine(k)
  BY DEF StampInv
<1>2. ASSUME pc'[k] = pc[k], msg'[k] = msg[k], digest'[k] = digest[k] PROVE BuildsGenuine(k)'
  BY <1>0, <1>2, BuildsGenuineKept
<1>3. ASSUME NEW h \in Handlers, HandlerStep(h) PROVE BuildsGenuine(k)'
  <2>1. CASE k = h
    BY <1>3, <2>1, BuildsGenuineMoves
  <2>2. CASE k # h
    BY <1>2, <1>3, <2>2, HandlerAlone DEF Elsewhere
  <2> QED BY <2>1, <2>2
<1>4. ASSUME NEW h \in Handlers, Fetch(h) \/ \E i \in pending : Reclaim(h, i)
      PROVE  BuildsGenuine(k)'
  <2>1. pc'[h] \in {"dlq", "load"}
    BY <1>4 DEF Fetch, Reclaim, Start, TypeOK, HandlerTypeOK
  <2>2. CASE k = h
    BY <2>1, <2>2 DEF BuildsGenuine, BuiltPCs
  <2>3. CASE k # h
    BY <1>2, <1>4, <2>3, HandlerAlone DEF Elsewhere
  <2> QED BY <2>2, <2>3
<1>5. ASSUME NEW w \in Workers, Crash(w) PROVE BuildsGenuine(k)'
  <2>1. CASE WorkerOf[k] = w
    BY <1>5, <2>1 DEF Crash, BuildsGenuine, BuiltPCs
  <2>2. CASE WorkerOf[k] # w
    BY <1>2, <1>5, <2>2 DEF Crash
  <2> QED BY <2>1, <2>2
<1>6. CASE UNCHANGED localVars
  BY <1>2, <1>6 DEF localVars
<1>7. CASE \/ \E w \in Workers : Dispatch(w)
           \/ FetchReplyLost \/ Platform
           \/ \E d \in Deployments : Expire(d)
           \/ UNCHANGED vars
  <2>1. UNCHANGED localVars
    BY <1>7 DEF Dispatch, FetchReplyLost, Platform, Expire, RequestExport, QueueDeployment,
                CancelDeployment, CdnAdvance, vars
  <2> QED BY <1>6, <2>1
<1> QED BY <1>3, <1>4, <1>5, <1>7 DEF Next

\* StampInv holds initially.
LEMMA StampInvInit == Init => StampInv
  BY DEF Init, StampInv, BuildsGenuine, KeepsGenuine, EventsGenuine, BuiltPCs, ReadyOrLater

\* When the requests of a deployment all carry the same createdAt, every ready
\* event carries the registered digest, and that manifest is the one a consumer
\* finds in storage: whatever is repeated, stolen, lost or crashes (Export,
\* manifestCreatedAt, ReemitReady).
THEOREM ReadyEventsTruthful == StampedAlike => (Spec => []ReadyEventTruthful)
<1> SUFFICES ASSUME StampedAlike PROVE Spec => []ReadyEventTruthful
  OBVIOUS
<1>1. Init => TypeOK /\ Evidence /\ StampInv
  BY TypeInit, StampInvInit DEF Init, Evidence, Informed
<1>2. TypeOK /\ Evidence /\ StampInv /\ [Next]_vars => (TypeOK /\ Evidence /\ StampInv)'
  BY TypeStep, EvidenceStep, StampInvStep
<1>3. TypeOK /\ StampInv => ReadyEventTruthful
  BY StampInvSuffices
<1> QED BY <1>1, <1>2, <1>3, PTL DEF Spec
=============================================================================

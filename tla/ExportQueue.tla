----------------------------- MODULE ExportQueue -----------------------------
(***************************************************************************)
(* The queue driver (internal/queue): the main stream and its consumer     *)
(* group, the delayed-retry store (a hash of payloads and a sorted-set     *)
(* index), the dead-letter stream, and the retry dispatcher that every     *)
(* worker process runs.                                                    *)
(*                                                                         *)
(* A call to Redis has three outcomes: it is applied and answered; it      *)
(* fails and nothing changed; it is applied but the answer is lost, which  *)
(* the caller cannot tell from the failure.  The operators below are the   *)
(* effect of an applied call; the modules that use them choose the outcome.*)
(***************************************************************************)
EXTENDS Naturals, Sequences, ErrClass

CONSTANTS
    Deployments,    \* deployment ids
    Requests,       \* deployment.export.requested events
    DepOf,          \* the deployment each request event names
    Workers,        \* worker processes; each runs one retry dispatcher
    MaxRetries,     \* processor.go Deps.MaxRetries
    MaxStream       \* bound on the entries ever appended to the main stream

ASSUME DepOfType == DepOf \in [Requests -> Deployments]
ASSUME MaxRetriesType == MaxRetries \in Nat \ {0}
ASSUME MaxStreamType == MaxStream \in Nat

VARIABLES
    stream,         \* export:requested: every entry ever appended, oldest first
    lastDelivered,  \* the group's last-delivered id (an index of stream)
    pending,        \* delivered and not acked (the group's PEL)
    payloads,       \* retry hash: the envelopes
    retryIndex,     \* retry ZSET: ids of the envelopes to dispatch
    dlq,            \* requests with an entry in the dead-letter stream
    slot            \* per worker: the envelope its dispatcher works on

queueVars == <<stream, lastDelivered, pending, payloads, retryIndex, dlq, slot>>

Messages  == [req : Requests, attempt : 0..MaxRetries]
Envelopes == [req : Requests, attempt : 1..MaxRetries, code : RetryableCodes]
EnvelopeIDs == Deployments \X (1..MaxRetries) \X RetryableCodes

\* retry.go EnvelopeID: deploymentId ":" attempt ":" lastErrorCode
EnvelopeID(env) == <<DepOf[env.req], env.attempt, env.code>>

NoID  == <<>>
NoReq == "none"

\* One envelope of a dispatcher tick: its id was read from the index
\* ("indexed"); its payload was found missing ("orphan"), or is about to be
\* published ("publish"), or was published ("remove").  The id holds the
\* envelope's attempt and code, req the payload.
SlotStages == {"idle", "indexed", "orphan", "publish", "remove"}
IdleSlot   == [stage |-> "idle", id |-> NoID, req |-> NoReq]
SlotStates == [stage : SlotStages, id : EnvelopeIDs \cup {NoID},
               req : Requests \cup {NoReq}]

QueueTypeOK ==
    /\ stream \in Seq(Messages)
    /\ lastDelivered \in 0..Len(stream)
    /\ pending \subseteq 1..lastDelivered
    /\ payloads \subseteq Envelopes
    /\ retryIndex \subseteq EnvelopeIDs
    /\ dlq \subseteq Requests
    /\ slot \in [Workers -> SlotStates]
    /\ \A w \in Workers :
         /\ slot[w].stage # "idle" => slot[w].id \in EnvelopeIDs
         /\ slot[w].stage \in {"publish", "remove"} =>
              slot[w].req \in Requests /\ DepOf[slot[w].req] = slot[w].id[1]

QueueInit ==
    /\ stream = <<>>
    /\ lastDelivered = 0
    /\ pending = {}
    /\ payloads = {}
    /\ retryIndex = {}
    /\ dlq = {}
    /\ slot = [w \in Workers |-> IdleSlot]

-----------------------------------------------------------------------------
(* Effects of the driver's calls *)

\* redis.go Publish (XADD)
Publish(req, attempt) ==
    /\ Len(stream) < MaxStream
    /\ stream' = Append(stream, [req |-> req, attempt |-> attempt])
    /\ UNCHANGED <<lastDelivered, pending, payloads, retryIndex, dlq>>

\* redis.go Fetch with count 1 (XREADGROUP >): the next new entry becomes pending.
FetchEffect ==
    /\ lastDelivered < Len(stream)
    /\ lastDelivered' = lastDelivered + 1
    /\ pending' = pending \cup {lastDelivered + 1}
    /\ UNCHANGED <<stream, payloads, retryIndex, dlq, slot>>

\* redis.go Ack (XACK)
AckEffect(id) ==
    /\ pending' = pending \ {id}
    /\ UNCHANGED <<stream, lastDelivered, payloads, retryIndex, dlq, slot>>

\* redis.go SendToDLQ
SendToDLQEffect(req) ==
    /\ dlq' = dlq \cup {req}
    /\ UNCHANGED <<stream, lastDelivered, pending, payloads, retryIndex, slot>>

\* Slip: Schedule without its ZADD.
ScheduleUnindexed(env) ==
    /\ payloads' = {e \in payloads : EnvelopeID(e) # EnvelopeID(env)} \cup {env}
    /\ UNCHANGED <<stream, lastDelivered, pending, retryIndex, dlq, slot>>

\* retry.go Schedule: HSET and ZADD in one transaction; an envelope with the
\* same id is overwritten.
ScheduleEffect(env) ==
    /\ payloads' = {e \in payloads : EnvelopeID(e) # EnvelopeID(env)} \cup {env}
    /\ retryIndex' = retryIndex \cup {EnvelopeID(env)}
    /\ UNCHANGED <<stream, lastDelivered, pending, dlq, slot>>

\* retry.go Remove: ZREM and HDEL in one transaction.
RemoveEffect(id) ==
    /\ payloads' = {e \in payloads : EnvelopeID(e) # id}
    /\ retryIndex' = retryIndex \ {id}
    /\ UNCHANGED <<stream, lastDelivered, pending, dlq>>

-----------------------------------------------------------------------------
(* The retry dispatcher.  A tick reads the due ids, loads their payloads,  *)
(* drops the ids that have none, then publishes and removes each envelope. *)
(* Nothing excludes the dispatchers of other workers between these steps.  *)

SetSlot(w, stage, id, req) ==
    slot' = [slot EXCEPT ![w] = [stage |-> stage, id |-> id, req |-> req]]

FreeSlot(w) == slot' = [slot EXCEPT ![w] = IdleSlot]

\* retry.go Due, ZRANGEBYSCORE: any indexed id may have become due.
DueIndex(w) ==
    /\ slot[w].stage = "idle"
    /\ \E id \in retryIndex : SetSlot(w, "indexed", id, NoReq)
    /\ UNCHANGED <<stream, lastDelivered, pending, payloads, retryIndex, dlq>>

\* retry.go Due, HMGET: the payload may have gone since the index was read.
DuePayload(w) ==
    /\ slot[w].stage = "indexed"
    /\ \/ \E env \in payloads :
            /\ EnvelopeID(env) = slot[w].id
            /\ SetSlot(w, "publish", slot[w].id, env.req)
       \/ /\ \A env \in payloads : EnvelopeID(env) # slot[w].id
          /\ SetSlot(w, "orphan", slot[w].id, NoReq)
    /\ UNCHANGED <<stream, lastDelivered, pending, payloads, retryIndex, dlq>>

\* retry.go Due: ZREM of an index member without payload, its result ignored.
DropOrphan(w) ==
    /\ slot[w].stage = "orphan"
    /\ retryIndex' = retryIndex \ {slot[w].id}
    /\ FreeSlot(w)
    /\ UNCHANGED <<stream, lastDelivered, pending, payloads, dlq>>

\* dispatcher.go Tick: re-enqueue with the envelope's attempt.
Republish(w) ==
    /\ slot[w].stage = "publish"
    /\ Publish(slot[w].req, slot[w].id[2])
    /\ SetSlot(w, "remove", slot[w].id, slot[w].req)

\* dispatcher.go Tick: removal after a successful re-enqueue.
RemoveEnvelope(w) ==
    /\ slot[w].stage = "remove"
    /\ RemoveEffect(slot[w].id)
    /\ FreeSlot(w)

\* Slip: a tick that removes the envelope although a call failed.
TickFailsRemoving(w) ==
    /\ slot[w].stage # "idle"
    /\ RemoveEffect(slot[w].id)
    /\ FreeSlot(w)

\* A call of the tick fails (HMGET, ZREM, XADD or the removal): the envelope
\* is left for a later tick.
TickFails(w) ==
    /\ slot[w].stage # "idle"
    /\ FreeSlot(w)
    /\ UNCHANGED <<stream, lastDelivered, pending, payloads, retryIndex, dlq>>

\* XADD was applied but its answer lost: published, and not removed.
RepublishReplyLost(w) ==
    /\ slot[w].stage = "publish"
    /\ Publish(slot[w].req, slot[w].id[2])
    /\ FreeSlot(w)

DispatcherStep(w) ==
    \/ DueIndex(w)
    \/ DuePayload(w)
    \/ DropOrphan(w)
    \/ Republish(w)
    \/ RemoveEnvelope(w)

DispatcherFault(w) ==
    \/ TickFails(w)
    \/ RepublishReplyLost(w)

-----------------------------------------------------------------------------
(* What is still to be done *)

\* An entry the group still owes an ack.
Outstanding(i) == i \in 1..Len(stream) /\ (i > lastDelivered \/ i \in pending)

\* An envelope the dispatchers will find.
Dispatchable(env) == env \in payloads /\ EnvelopeID(env) \in retryIndex

Requested(d) == \E i \in 1..Len(stream) : DepOf[stream[i].req] = d
=============================================================================

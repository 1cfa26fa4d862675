---------------------------- MODULE WorkerProcess ----------------------------
(***************************************************************************)
(* The life of worker processes (cmd/export-worker main.go): the fail-fast *)
(* boot, the loops started under one root context, readiness, SIGTERM and  *)
(* the drain, a failing ops server, and the restart of a process that      *)
(* ended.  Handle is one step here, with the ways it leaves its entry.     *)
(***************************************************************************)
EXTENDS Naturals, FiniteSets

CONSTANTS
    Processes,
    Consumers,      \* WORKER_CONCURRENCY fetch loops of each process
    Housekeepers,   \* the retention loop and the pending gauge
    Requests,       \* stream entries 1..Requests are there at the start
    MaxEntries,     \* bound: entries ever published
    MaxRetries,     \* the retry limit of a request
    Batch,          \* entries reclaimed at once (16)
    FaultKinds,     \* the faults that may happen, see Faults
    MaxFaults       \* bound: how many of them happen

Faults == {"boot", "signal", "crash", "ops", "lost", "keep"}

Loops == Consumers \cup Housekeepers \cup {"dispatcher", "reclaimer"}
Ids   == 1..MaxEntries

ASSUME BoundsType ==
    /\ Requests \in Nat /\ MaxEntries \in Nat /\ Requests <= MaxEntries
    /\ MaxRetries \in Nat /\ Batch \in Nat \ {0} /\ MaxFaults \in Nat
    /\ FaultKinds \subseteq Faults
ASSUME LoopsDistinct ==
    /\ {"dispatcher", "reclaimer"} \cap (Consumers \cup Housekeepers) = {}
    /\ Consumers \cap Housekeepers = {}

Nobody == "nobody"

ASSUME NobodyIsNoProcess == Nobody \notin Processes

VARIABLES
    main,           \* per process: where run() is
    ctx,            \* per process: rootCtx, live or done
    life,           \* per process: the state the readiness probe reports
    opsErr,         \* per process: has an ops server put its error in opsErrs
    loop,           \* per process and loop: where it is
    job,            \* per process and loop: the entry under Handle (of the
                    \* dispatcher: the envelope it publishes), 0 for none
    batch,          \* per process: reclaimed entries not handled yet
    entry,          \* per stream entry: what became of it
    taker,          \* per entry: the process it was last delivered to
    attempt,        \* per entry: the attempt of its message
    request,        \* per entry: the request its message carries
    decided,        \* requests handled to their end
    scheduled,      \* entries whose retry envelope is stored
    last,           \* the newest entry
    kept,           \* entries a fault left pending
    faults          \* faults so far

vars == <<main, ctx, life, opsErr, loop, job, batch, entry, taker, attempt,
          request, decided, scheduled, last, kept, faults>>

stream  == <<entry, taker, attempt, request, decided, scheduled, last, kept>>
process == <<main, ctx, life, opsErr>>

Boots == {"config", "redis", "bucket", "group"}

ProcessTypeOK ==
    /\ main \in [Processes -> Boots \cup {"launch", "ready", "select", "drain", "opsdrain",
                                          "stopped", "failed"}]
    /\ ctx \in [Processes -> {"live", "done"}]
    /\ life \in [Processes -> {"STARTING", "READY", "DRAINING", "STOPPED"}]
    /\ opsErr \in [Processes -> BOOLEAN]
    /\ loop \in [Processes -> [Loops -> {"off", "wait", "call", "handle", "done"}]]
    /\ job \in [Processes -> [Loops -> 0..MaxEntries]]
    /\ batch \in [Processes -> SUBSET Ids]
    /\ entry \in [Ids -> {"none", "new", "pending", "acked"}]
    /\ taker \in [Ids -> Processes \cup {Nobody}]
    /\ attempt \in [Ids -> 0..MaxRetries]
    /\ request \in [Ids -> 0..Requests]
    /\ decided \subseteq 1..Requests
    /\ scheduled \subseteq Ids
    /\ last \in 0..MaxEntries
    /\ kept \subseteq Ids
    /\ faults \in 0..MaxFaults

Off  == [l \in Loops |-> "off"]
Idle == [l \in Loops |-> 0]

Init ==
    /\ main = [p \in Processes |-> "config"]
    /\ ctx = [p \in Processes |-> "live"]
    /\ life = [p \in Processes |-> "STARTING"]
    /\ opsErr = [p \in Processes |-> FALSE]
    /\ loop = [p \in Processes |-> Off]
    /\ job = [p \in Processes |-> Idle]
    /\ batch = [p \in Processes |-> {}]
    /\ entry = [e \in Ids |-> IF e <= Requests THEN "new" ELSE "none"]
    /\ taker = [e \in Ids |-> Nobody]
    /\ attempt = [e \in Ids |-> 0]
    /\ request = [e \in Ids |-> IF e <= Requests THEN e ELSE 0]
    /\ decided = {}
    /\ scheduled = {}
    /\ last = Requests
    /\ kept = {}
    /\ faults = 0

Fault(kind) ==
    /\ kind \in FaultKinds
    /\ faults < MaxFaults
    /\ faults' = faults + 1

Goto(p, l, where) == loop' = [loop EXCEPT ![p][l] = where]

-----------------------------------------------------------------------------
(* run() *)

AfterBoot == [config |-> "redis", redis |-> "bucket", bucket |-> "group", group |-> "launch"]

\* config.FromEnv, Ping, EnsureBucket, EnsureGroup, in this order.
BootStep(p) ==
    /\ main[p] \in Boots
    /\ main' = [main EXCEPT ![p] = AfterBoot[@]]
    /\ UNCHANGED <<ctx, life, opsErr, loop, job, batch, stream, faults>>

\* A check fails: return err.
BootFails(p) ==
    /\ main[p] \in Boots
    /\ Fault("boot")
    /\ main' = [main EXCEPT ![p] = "failed"]
    /\ UNCHANGED <<ctx, life, opsErr, loop, job, batch, stream>>

\* NotifyContext, then every loop in a goroutine of its own (wg.Add).
Launch(p) ==
    /\ main[p] = "launch"
    /\ main' = [main EXCEPT ![p] = "ready"]
    /\ loop' = [loop EXCEPT ![p] = [l \in Loops |-> "wait"]]
    /\ UNCHANGED <<ctx, life, opsErr, job, batch, stream, faults>>

\* lifecycle.Set(StateReady)
SetReady(p) ==
    /\ main[p] = "ready"
    /\ main' = [main EXCEPT ![p] = "select"]
    /\ life' = [life EXCEPT ![p] = "READY"]
    /\ UNCHANGED <<ctx, opsErr, loop, job, batch, stream, faults>>

\* select: rootCtx.Done()
SelectDone(p) ==
    /\ main[p] = "select"
    /\ ctx[p] = "done"
    /\ main' = [main EXCEPT ![p] = "drain"]
    /\ life' = [life EXCEPT ![p] = "DRAINING"]
    /\ UNCHANGED <<ctx, opsErr, loop, job, batch, stream, faults>>

\* select: an ops server failed; stop() cancels rootCtx and gives SIGTERM its
\* default action back.
SelectOps(p) ==
    /\ main[p] = "select"
    /\ opsErr[p]
    /\ main' = [main EXCEPT ![p] = "opsdrain"]
    /\ ctx' = [ctx EXCEPT ![p] = "done"]
    /\ UNCHANGED <<life, opsErr, loop, job, batch, stream, faults>>

\* wg.Wait, lifecycle.Set(StateStopped), ops.Shutdown; or wg.Wait, return err.
Stop(p) ==
    /\ main[p] \in {"drain", "opsdrain"}
    /\ \A l \in Loops : loop[p][l] = "done"
    /\ main' = [main EXCEPT ![p] = IF @ = "drain" THEN "stopped" ELSE "failed"]
    /\ life' = [life EXCEPT ![p] = IF main[p] = "drain" THEN "STOPPED" ELSE @]
    /\ UNCHANGED <<ctx, opsErr, loop, job, batch, stream, faults>>

-----------------------------------------------------------------------------
(* What happens to a process *)

Ended(p) == main[p] \in {"stopped", "failed"}

\* The process is gone with all it held.
Die(p) ==
    /\ main' = [main EXCEPT ![p] = "failed"]
    /\ loop' = [loop EXCEPT ![p] = Off]
    /\ job' = [job EXCEPT ![p] = Idle]
    /\ batch' = [batch EXCEPT ![p] = {}]
    /\ UNCHANGED <<ctx, life, opsErr, stream>>

Crash(p) ==
    /\ ~Ended(p)
    /\ Fault("crash")
    /\ Die(p)

\* SIGTERM or SIGINT: trapped from NotifyContext on, until stop().
Signal(p) ==
    /\ ~Ended(p)
    /\ Fault("signal")
    /\ \/ /\ main[p] \in {"ready", "select", "drain"}
          /\ ctx' = [ctx EXCEPT ![p] = "done"]
          /\ UNCHANGED <<main, life, opsErr, loop, job, batch, stream>>
       \/ /\ main[p] \notin {"ready", "select", "drain"}
          /\ Die(p)

\* opsserver.go Start: ListenAndServe of the health or metrics server fails.
OpsFails(p) ==
    /\ main[p] \notin {"config", "stopped", "failed"}
    /\ Fault("ops")
    /\ opsErr' = [opsErr EXCEPT ![p] = TRUE]
    /\ UNCHANGED <<main, ctx, life, loop, job, batch, stream>>

\* The platform starts a process again; its consumer name is a new one.
Restart(p) ==
    /\ Ended(p)
    /\ main' = [main EXCEPT ![p] = "config"]
    /\ ctx' = [ctx EXCEPT ![p] = "live"]
    /\ life' = [life EXCEPT ![p] = "STARTING"]
    /\ opsErr' = [opsErr EXCEPT ![p] = FALSE]
    /\ loop' = [loop EXCEPT ![p] = Off]
    /\ job' = [job EXCEPT ![p] = Idle]
    /\ batch' = [batch EXCEPT ![p] = {}]
    /\ taker' = [e \in Ids |-> IF taker[e] = p THEN Nobody ELSE taker[e]]
    /\ UNCHANGED <<entry, attempt, request, decided, scheduled, last, kept, faults>>

-----------------------------------------------------------------------------
(* The loops *)

\* Slip: the reclaim loop does not watch rootCtx.
QuitUnlessReclaimer(p, l) ==
    /\ l # "reclaimer"
    /\ loop[p][l] = "wait"
    /\ ctx[p] = "done"
    /\ Goto(p, l, "done")
    /\ UNCHANGED <<process, job, batch, stream, faults>>

\* Every loop returns at its select once rootCtx is done.
Quit(p, l) ==
    /\ loop[p][l] = "wait"
    /\ ctx[p] = "done"
    /\ Goto(p, l, "done")
    /\ UNCHANGED <<process, job, batch, stream, faults>>

\* A tick, or the next turn of a fetch loop: a call under rootCtx begins.  Were
\* rootCtx done already the call would fail at once, and nothing happen.
Begin(p, l) ==
    /\ loop[p][l] = "wait"
    /\ ctx[p] = "live"
    /\ Goto(p, l, "call")
    /\ UNCHANGED <<process, job, batch, stream, faults>>

InHand(e) == \E p \in Processes : e \in batch[p] \/ \E l \in Loops : loop[p][l] = "handle" /\ job[p][l] = e

\* What a call under rootCtx would find.  An envelope that is not due and an
\* entry that is not idle long enough are as if the loop had not ticked yet.
Finds(p, l) ==
    \/ l \in Consumers /\ \E e \in Ids : entry[e] = "new"
    \/ l = "reclaimer" /\ \E e \in Ids : entry[e] = "pending" /\ ~InHand(e)
    \/ l = "dispatcher" /\ ctx[p] = "live" /\ scheduled # {} /\ last < MaxEntries

\* The call ends without a result: nothing to fetch, claim or dispatch.
Nothing(p, l) ==
    /\ loop[p][l] = "call"
    /\ job[p][l] = 0
    /\ ~Finds(p, l)
    /\ Goto(p, l, "wait")
    /\ UNCHANGED <<process, job, batch, stream, faults>>

\* XREADGROUP answers; a read under way is not interrupted by SIGTERM.
Deliver(p, l, e) ==
    /\ l \in Consumers /\ loop[p][l] = "call"
    /\ entry[e] = "new"
    /\ \A f \in Ids : entry[f] = "new" => e <= f
    /\ entry' = [entry EXCEPT ![e] = "pending"]
    /\ taker' = [taker EXCEPT ![e] = p]
    /\ Goto(p, l, "handle")
    /\ job' = [job EXCEPT ![p][l] = e]
    /\ UNCHANGED <<process, batch, attempt, request, decided, scheduled, last, kept, faults>>

\* Slip: a fetch loop returns on every error.
FetchLostReturning(p, l, e) ==
    /\ l \in Consumers /\ loop[p][l] = "call"
    /\ entry[e] = "new"
    /\ \A f \in Ids : entry[f] = "new" => e <= f
    /\ Fault("lost")
    /\ entry' = [entry EXCEPT ![e] = "pending"]
    /\ taker' = [taker EXCEPT ![e] = p]
    /\ kept' = kept \cup {e}
    /\ Goto(p, l, "done")
    /\ UNCHANGED <<process, job, batch, attempt, request, decided, scheduled, last>>

\* The answer is lost with the entry in it: the loop returns when rootCtx is
\* done, and goes on after a pause otherwise.
FetchLost(p, l, e) ==
    /\ l \in Consumers /\ loop[p][l] = "call"
    /\ entry[e] = "new"
    /\ \A f \in Ids : entry[f] = "new" => e <= f
    /\ Fault("lost")
    /\ entry' = [entry EXCEPT ![e] = "pending"]
    /\ taker' = [taker EXCEPT ![e] = p]
    /\ kept' = kept \cup {e}
    /\ Goto(p, l, IF ctx[p] = "done" THEN "done" ELSE "wait")
    /\ UNCHANGED <<process, job, batch, attempt, request, decided, scheduled, last>>

Oldest(S) == {e \in S : \A f \in S : e <= f}

\* XAUTOCLAIM answers with entries that were idle long enough (any pending
\* entry, see ReclaimTiming); the first one is handled.
Claim(p, S) ==
    /\ loop[p]["reclaimer"] = "call"
    /\ S # {} /\ Cardinality(S) <= Batch
    /\ \A e \in S : entry[e] = "pending"
    /\ taker' = [e \in Ids |-> IF e \in S THEN p ELSE taker[e]]
    /\ kept' = kept \ S
    /\ Goto(p, "reclaimer", "handle")
    /\ \E e \in Oldest(S) :
         /\ job' = [job EXCEPT ![p]["reclaimer"] = e]
         /\ batch' = [batch EXCEPT ![p] = S \ {e}]
    /\ UNCHANGED <<process, entry, attempt, request, decided, scheduled, last, faults>>

\* The answer of XAUTOCLAIM is lost: the entries are the process's now, and the
\* loop goes on without them.
ClaimLost(p, S) ==
    /\ loop[p]["reclaimer"] = "call"
    /\ S # {} /\ Cardinality(S) <= Batch
    /\ \A e \in S : entry[e] = "pending"
    /\ Fault("lost")
    /\ taker' = [e \in Ids |-> IF e \in S THEN p ELSE taker[e]]
    /\ kept' = kept \cup S
    /\ Goto(p, "reclaimer", "wait")
    /\ UNCHANGED <<process, job, batch, entry, attempt, request, decided, scheduled, last>>

\* Slip: the reclaim loop looks at rootCtx between two entries.
HandledBreaking(p, l) ==
    \/ /\ l = "reclaimer" /\ batch[p] # {} /\ ctx[p] = "live"
       /\ \E e \in Oldest(batch[p]) :
            /\ job' = [job EXCEPT ![p][l] = e]
            /\ batch' = [batch EXCEPT ![p] = @ \ {e}]
       /\ UNCHANGED loop
    \/ /\ l # "reclaimer" \/ batch[p] = {} \/ ctx[p] = "done"
       /\ job' = [job EXCEPT ![p][l] = 0]
       /\ Goto(p, l, "wait")
       /\ UNCHANGED batch

\* for _, m := range msgs: the next entry of the batch, whether or not rootCtx
\* is done.
Handled(p, l) ==
    \/ /\ l = "reclaimer" /\ batch[p] # {}
       /\ \E e \in Oldest(batch[p]) :
            /\ job' = [job EXCEPT ![p][l] = e]
            /\ batch' = [batch EXCEPT ![p] = @ \ {e}]
       /\ UNCHANGED loop
    \/ /\ l # "reclaimer" \/ batch[p] = {}
       /\ job' = [job EXCEPT ![p][l] = 0]
       /\ Goto(p, l, "wait")
       /\ UNCHANGED batch

Working(p, l) == loop[p][l] = "handle"

Ack(e) == entry' = [entry EXCEPT ![e] = "acked"]

\* Handle(drainCtx, m) settles the job and acks.
Settle(p, l) ==
    /\ Working(p, l)
    /\ Ack(job[p][l])
    /\ decided' = decided \cup {request[job[p][l]]}
    /\ Handled(p, l)
    /\ UNCHANGED <<process, taker, attempt, request, scheduled, last, kept, faults>>

\* Slip: the retry is not stored when rootCtx is done.
RescheduleUnderRoot(p, l) ==
    /\ Working(p, l)
    /\ attempt[job[p][l]] < MaxRetries
    /\ scheduled' = IF ctx[p] = "live" THEN scheduled \cup {job[p][l]} ELSE scheduled
    /\ Ack(job[p][l])
    /\ Handled(p, l)
    /\ UNCHANGED <<process, taker, attempt, request, decided, last, kept, faults>>

\* Slip: a retry beyond the limit.
RescheduleOneMore(p, l) ==
    /\ Working(p, l)
    /\ attempt[job[p][l]] <= MaxRetries
    /\ scheduled' = scheduled \cup {job[p][l]}
    /\ Ack(job[p][l])
    /\ Handled(p, l)
    /\ UNCHANGED <<process, taker, attempt, request, decided, last, kept, faults>>

\* Handle schedules a retry and acks.
Reschedule(p, l) ==
    /\ Working(p, l)
    /\ attempt[job[p][l]] < MaxRetries
    /\ scheduled' = scheduled \cup {job[p][l]}
    /\ Ack(job[p][l])
    /\ Handled(p, l)
    /\ UNCHANGED <<process, taker, attempt, request, decided, last, kept, faults>>

\* Handle leaves the entry pending.
Keep(p, l) ==
    /\ Working(p, l)
    /\ Fault("keep")
    /\ kept' = kept \cup {job[p][l]}
    /\ Handled(p, l)
    /\ UNCHANGED <<process, entry, taker, attempt, request, decided, scheduled, last>>

\* dispatcher.go Tick: an envelope is published under rootCtx ...
Publish(p, e) ==
    /\ loop[p]["dispatcher"] = "call" /\ job[p]["dispatcher"] = 0
    /\ ctx[p] = "live"
    /\ e \in scheduled /\ last < MaxEntries
    /\ last' = last + 1
    /\ entry' = [entry EXCEPT ![last'] = "new"]
    /\ attempt' = [attempt EXCEPT ![last'] = attempt[e] + 1]
    /\ request' = [request EXCEPT ![last'] = request[e]]
    /\ job' = [job EXCEPT ![p]["dispatcher"] = e]
    /\ UNCHANGED <<process, loop, batch, taker, decided, scheduled, kept, faults>>

\* ... and then removed, which fails when rootCtx is done by then.
Remove(p) ==
    /\ loop[p]["dispatcher"] = "call" /\ job[p]["dispatcher"] # 0
    /\ scheduled' = IF ctx[p] = "live" THEN scheduled \ {job[p]["dispatcher"]} ELSE scheduled
    /\ job' = [job EXCEPT ![p]["dispatcher"] = 0]
    /\ Goto(p, "dispatcher", "wait")
    /\ UNCHANGED <<process, batch, entry, taker, attempt, request, decided, last, kept, faults>>

-----------------------------------------------------------------------------

Main(p) ==
    BootStep(p) \/ Launch(p) \/ SetReady(p) \/ SelectDone(p) \/ SelectOps(p) \/ Stop(p)

\* A step of a goroutine.
Step(p, l) ==
    \/ Quit(p, l) \/ Begin(p, l) \/ Nothing(p, l) \/ Settle(p, l) \/ Reschedule(p, l)
    \/ \E e \in Ids : Deliver(p, l, e)
    \/ l = "reclaimer" /\ \E S \in SUBSET Ids : Claim(p, S)
    \/ l = "dispatcher" /\ (Remove(p) \/ \E e \in Ids : Publish(p, e))

Misfortune(p) ==
    \/ BootFails(p) \/ Crash(p) \/ Signal(p) \/ OpsFails(p)
    \/ \E l \in Loops : Keep(p, l) \/ \E e \in Ids : FetchLost(p, l, e)
    \/ \E S \in SUBSET Ids : ClaimLost(p, S)

Next ==
    \E p \in Processes : Main(p) \/ Restart(p) \/ Misfortune(p) \/ \E l \in Loops : Step(p, l)

Spec == Init /\ [][Next]_vars

\* run() and every goroutine goes on, calls and jobs end, and the platform
\* restarts what ended.
FairSpec ==
    /\ Spec
    /\ \A p \in Processes :
        /\ WF_vars(Main(p)) /\ WF_vars(Restart(p))
        /\ \A l \in Loops : WF_vars(Step(p, l))

-----------------------------------------------------------------------------

\* A READY worker whose context is live runs all of its loops: no error makes
\* one of them end silently while the probe passes (main.go, the loops).
ReadyServes ==
    \A p \in Processes : life[p] = "READY" /\ ctx[p] = "live" /\ ~Ended(p) =>
        \A l \in Loops : loop[p][l] \in {"wait", "call", "handle"}

\* The drain (main.go, FR-017): a process that stopped cleanly has no job under
\* way, and left no entry it took pending, except where Handle itself left it or
\* the answer with it was lost: the entries of a reclaimed batch are finished
\* as well.
DrainLeavesNothing ==
    \A p \in Processes : main[p] = "stopped" =>
        /\ \A l \in Loops : ~Working(p, l)
        /\ \A e \in Ids : entry[e] = "pending" /\ taker[e] = p => e \in kept

\* A signalled process ends, whatever its loops are doing (wg.Wait).
DrainEnds == \A p \in Processes : ctx[p] = "done" ~> Ended(p)

\* Whatever is signalled, killed or restarted, an undecided request has an
\* entry that is not acked or a stored retry: a drain that outlives its
\* dispatcher leaves the retry where another process finds it.
NothingStranded ==
    \A r \in 1..Requests :
        \/ r \in decided
        \/ \E e \in Ids : request[e] = r /\ (entry[e] \in {"new", "pending"} \/ e \in scheduled)

\* In the end, restarts or not, every request is decided, every entry acked and
\* every stored retry published, for good.
EverythingSettles ==
    <>[](/\ decided = 1..Requests
         /\ scheduled = {}
         /\ \A e \in Ids : entry[e] \notin {"new", "pending"})

\* main.go: "stop consuming, finish in-flight jobs".  A loop that finishes a
\* job after rootCtx was cancelled starts no other one.
StopsConsuming ==
    [][\A p \in Processes, l \in Loops :
           ctx[p] = "done" /\ Working(p, l) /\ Working(p, l)' => job'[p][l] = job[p][l]]_vars

\* main.go: "In-flight work survives SIGTERM up to its own deadline (drain)."
\* Without crashes a process never ends with a job under way.
InFlightSurvives ==
    [][\A p \in Processes : ~Ended(p) /\ Ended(p)' => \A l \in Loops : ~Working(p, l)]_vars
=============================================================================

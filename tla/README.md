# A TLA+ model of anvilkit-export-worker

The export worker consumes `deployment.export.requested` events from a Redis
stream, renders a version-pinned page, uploads the artifact to S3 storage,
registers it with deployment-service, moves the deployment to `ARTIFACT_READY`
and emits `deployment.artifact.ready`. It is run as a fleet of processes that
share nothing but Redis, storage and deployment-service. This directory models
that fleet, checks it with TLC and proves its main properties with TLAPS.

Paths below are relative to `src/`.

## 1. Inventory

| Component | State | Operations | What makes it correct |
|---|---|---|---|
| Job processor `internal/worker` | per job: message, loaded record, classified failure, lease | `Handle`, `fail`, `exhausted`, `casFailed`, `scheduleRetry`, `unparseableToDLQ`, `emitFailed`, `ack` | a message is acked only when its deployment is finished or its work is handed on |
| Queue driver `internal/queue/redis.go` | stream, group position, pending list, DLQ | `Publish`, `Fetch`, `Ack`, `Reclaim`, `SendToDLQ` | at-least-once delivery, the attempt unchanged by a reclaim |
| Retry store and dispatcher `internal/queue/retry.go`, `dispatcher.go` | payload hash, delay index | `Schedule`, `Due`, `Remove`, `Tick` | removal only after re-enqueue; racing dispatchers lose nothing |
| Retention `internal/queue/trim.go` | none of its own | `TrimMain`, `TrimStream` | no pending and no undelivered entry is trimmed |
| Deployment lock `internal/lock` | key with owner and TTL; heartbeat per lease | `Acquire`, `heartbeat`, `Release` | one owner at a time, no foreign release, always freed |
| Export pipeline `internal/export` | per job: files, digest | `Export`, `casReady`, `manifestCreatedAt`, `ReemitReady` | one artifact per deployment; ready only with it; announced after ready, and always in the end |
| Storage `internal/storage` | objects with content hash | `EnsureUploaded`, `UploadAll`, `FetchIfExists`, `BuildManifest` | a nil return means everything is stored; the pool ends |
| deployment-service client `internal/deployment` | none | `Load`, `Transition`, `SubmitArtifact`, `Reconcile` | compare-and-set from the expected status; a 409 stops safely |
| Error classes `internal/errclass` | none | `Retryable`, `From` | what is retried |
| Events `internal/emit` | none | `EmitReady`, `EmitFailed` | truthful events |
| Render client `internal/render` | none | `FetchPage`, `FetchAsset` | the page and the files fetched are those that are published |
| Harvester `internal/harvest` | per job: queue of references, visited paths, files, byte count | `Run`, `harvestSameOrigin`, `harvestExternal`, `NormalizePath`, `MapSlug`, `StorageKey` | ends; exactly the page's dependencies, one file per path, within the limit; every path storable |
| Process `cmd/export-worker`, `internal/obs/opsserver.go` | root context, lifecycle, goroutines | boot, consumer pool, reclaim, dispatcher, retention and gauge loops, drain | ready means that every loop runs; the drain ends and loses no job; no entry is stolen or starved |
| Configuration `internal/config` | none | `Load`, `demoGuard` | what is accepted can be run; guards are relaxed only locally; the lock outlives the job |
| JSON Schema validator `internal/jsonschema` | cache | `Validate`, `Audit` | nothing passes vacuously |
| Logging, metrics, tracing, generated contracts | | | without effect on the job's state |

Interactions. A handler (a consumer goroutine or the reclaim loop) calls, one
after the other, deployment-service, Redis (lock), render-origin, storage,
deployment-service and Redis again. Handlers of all processes, the dispatchers
and the trimmers meet only in Redis, storage and deployment-service.

What is hard here: every call may fail after it took effect; a process may die
between any two calls; a message may be delivered to a second handler while
the first still works; lock TTLs expire under running jobs; dispatchers and
trimmers of several processes run unsynchronised; the record is read before
the lock is taken; loops stop at different times while jobs go on; reclaimed
batches age while they wait; references form cycles; paths are checked in one
encoding and used in another. `PROJECT.json` lists these hazards at their lines.

## 2. Modules

| Module | Models | Uses |
|---|---|---|
| `ErrClass` | error codes, the retryable set, what each service's classifier can answer | |
| `ExportQueue` | stream, group, retry store, DLQ, one dispatcher per process | `ErrClass` |
| `ExportWorker` | the fleet: handlers, pipeline, lock, deployment-service, crashes; the composition of all parts over the queue | `ExportQueue`, `DeploymentLifecycle` |
| `DeploymentLifecycle` | abstract specification: what the platform may rely on about a deployment | |
| `DeploymentLock` | one lock with TTL, heartbeat intervals and owner token | |
| `StreamTrim` | concurrent `TrimMain` passes, a producer and a consumer | |
| `UploadPool` | `UploadAll` and `EnsureUploaded` under the upload budget | |
| `WorkerProcess` | boot, loops, readiness, SIGTERM, drain, failing ops servers, restarts | |
| `ReclaimTiming` | idle times, the reclaim tickers, the batch handled in sequence | |
| `HarvestWalk` | `Harvester.Run` over pages and stylesheets | `ErrClass` |
| `PathRules` | `NormalizePath`, `MapSlug`, `StorageKey`, `pathWithinPrefix`, request targets | |
| `PathInputs` | the texts the path rules are applied to, of any length up to a bound | `PathRules` |
| `WorkerConfig` | `Load`, `demoGuard`, `TTLFor` with the width of integers | |
| `SchemaSubset` | `validate` and `audit`, and the draft's semantics as reference | |
| `MCExportWorker`, `MCDeploymentLock`, `MCHarvestWalk`, `MCInputs` | constants and inputs of the runs | |
| `*Proofs` | theorems | |

**ExportWorker.** `pc[h]` names the next service call of handler `h`; an action
is that call and the local decisions up to the next one, so `Handle` is cut
exactly where other actors can intervene. `Start` is the verdict of
`ParseEvent`, `Load`/`Decide` the part of `Handle` up to the lock,
`AcquireLock` to `CasExporting` the rest, `Produce` to `EmitReady` the body of
`Export`, `Fail`/`FailBranch` the branches of `fail`; `ScheduleRetry`,
`CasFailed`, `SendToDLQ`, `EmitFailed`, `Ack`, `Release` the endings. `Return`
is every return that does not ack; the deferred `lease.Release` follows when a
lease exists. `snap` is the status in the loaded record and is used, as in the
code, after it may have become stale. `CasFailed` is sent from that status.

A call is answered, refused, or applied with its answer lost; the last two, the
death of a process, and the expiry of a lock whose heartbeat runs are *faults*.
A behaviour has at most `MaxFaults` of them in the runs and any number in the
theorems. Job timeouts and lost locks cancel a context and appear as a refusal
of the call they cancel.

Data abstractions. A request is a name with its deployment, the verdict of
parsing and reconciliation (`Kind`) and its `createdAt` (`Stamp`). The files of
an artifact are a function of the pinned version, so the manifest is its
creation time, the only thing two runs can disagree on, and the digest is that
stamp. `CDN_UPLOADING` stands for the four statuses of the pipeline after the
worker. Delays are arbitrary: an indexed envelope may be due at any time.

`givenUp` is a history variable: the deployments whose message was acked on the
path that neither finishes nor hands off (section 5, `AckRule`; and a dry run).
It makes the exception to `NoLostWork` explicit instead of hiding it. So does
`passedOver`: the deployments that a handler acked because it met them
`ARTIFACT_READY`, without announcing them itself (a 409 at the CAS to
`EXPORTING` or to `EXPORT_FAILED`, or a defective repetition of the request).
The code trusts the handler that made the deployment ready to announce it.

Parts outside the repository are modelled from how the code uses them: the
producer (`RequestExport`), deployment-service (`QueueDeployment`,
`CancelDeployment`, the effect of a transition and of the pointer's first
registration), and the CDN pipeline (`CdnAdvance`).

**ExportQueue.** The dispatcher's tick is cut at its calls: index read, payload
read, orphan drop, publish, remove. A tick of the code works through a batch;
the model takes one envelope at a time per process, and two processes give the
concurrent ones. The branch of `Due` for an envelope that does not unmarshal
is unreachable for payloads written by `Schedule` and is left out.

**DeploymentLock.** Time advances in heartbeat intervals, `Beats` per TTL
(`NewLocker` uses three). A running heartbeat tries once per interval. The
owner token is the worker id of the process, as in `Locker`, so the consumers
and the reclaim loop of a process share it. A SETNX may take effect with its
answer lost. `lapsed` is a history variable: the leases whose renewals failed
for a TTL, and those whose key a sibling with the same token released.

**StreamTrim.** Ids are ranks. Entries are delivered at any time, between the
XPENDING and the XINFO GROUPS of a pass too; `late` (history) records those.

**UploadPool.** The feeder's `select`, the unbuffered channel, the first error
and its `cancel()`, the budget's end. A `doomed` call was made with a context
that had already ended.

**WorkerProcess.** `main[p]` is the place of `run()`, `ctx[p]` the root context,
`loop[p][l]` a goroutine: at its `select`, in a call under the root context, or
in `Handle`. The answer of a fetch or of a claim may be lost. `Handle` is one
step that settles, reschedules or leaves its entry, under the drain context, which SIGTERM does not cancel. A call that begins after
the cancellation fails at once and is not a step; a blocking read under way is
not interrupted (the Redis client checks the context before it sends, not while
it reads), so an entry may be delivered after SIGTERM. The dispatcher's publish
and remove are two calls, and the cancellation may fall between them. `stop()`
after an ops error gives SIGTERM its default action back; `Signal` then is fatal,
as it is before `NotifyContext`. The retention loop and the gauge touch nothing
that is modelled here and are instantiated only in `SigtermInFlight.cfg` and `StopConsuming.cfg` (section 5).

**ReclaimTiming.** A unit of time is a tick of the reclaim loop (30 s). `idle` is
what Redis keeps per pending entry, reset by every delivery and claim. `Handle`
takes at most `HandleMax` (the job deadline, which is the lock TTL); the few
calls it makes after the deadline are taken to fit into the slack of minIdle.
`Stuck` entries are those whose `Handle` returns without an ack every time (a
ready event that can never be emitted). A tick that finds its loop busy is kept
once, as by `time.Ticker`. `taker` and `begun` are history: the loop that
fetched or claimed an entry last, and how long after its fetch or claim a loop
began the `Handle` under way.

**HarvestWalk.** A body is the sequence of its references, and a reference the
branch `Run` takes for it with the path it names. `Dependencies` is defined
without a walk, as the least set closed under references.

**PathRules.** A text is a sequence of characters, each with a class and the
number of percent-encodings around it, so that decoding is exact and encodings
of different depth can be mixed in one path. White space is a class, and a
second one where it is a control character. Every path rule is a predicate on
the decoded text. The segments of a path lie between its slashes, taken by
rank, and `path.Clean` is a recursive function over them, so that both can be
reasoned about.

**WorkerConfig.** Variables that `Load` checks alike have one representative.
Integers and durations have `2 * Half` values and wrap around; `Half` is 2^63 in
the code, 128 in the run and anything in the theorems. `DemoGuard` abstracts the origin to
what it tells apart.

**SchemaSubset.** A schema is a record with one field per keyword. `Accepts` and
`Clean` follow `validate` and `audit`; `Satisfies` is what draft 2020-12 says of
the keywords, each by itself; `Enforced` is the part of a schema that `validate`
acts on: a `const` alone, else `enum`, `type` and the keywords beside the type
they apply to, without a pattern that `regexp.Compile` refuses (`validate`
passes it over) and with `minLength` as far as bytes and characters agree. The
operators are RECURSIVE; nothing is proved about this module.

Some definitions have a twin with the comment "Slip", a plausible mistake in
the code it models (a missing guard, a wrong order). No specification uses
them; each property is known to fail when the corresponding twin is put in, so
that the properties are known to see such mistakes.

## 3. Properties and runs

| Run | Instance | Shows |
|---|---|---|
| `fleet` | 2 processes with a handler each, 1 request without `createdAt`, stealing, 1 fault | `TypeOK`, `EveryRequestAccounted`, and that the fleet implements `DeploymentLifecycle` |
| `retry` | 3 defective requests, 1 handler, 2 dispatchers, 2 faults | `NoLostWork` through retry, exhaustion and DLQ |
| `ready` | 2 requests of one deployment, 2 handlers, 1 fault at any call | `ReadyNotLost`, `ReadyEventTruthful` |
| `liveness` | 1 request, 2 handlers, 1 fault at any call, fair | `EventuallyDecided`, `EventuallyAnnounced`, `LockEventuallyFree` |
| `lock` | 2 handlers in one process and 1 in another, TTL of 3 intervals, lost acquire answers, unlimited failures and crashes, fair | `LeaseIsExclusive`, `ReleasesOwnGrant`, `LockReturns` |
| `trim` | 2 trimmers, 4 entries | `UndeliveredKept`, `TrimSparesPending` |
| `upload` | 4 objects, 2 uploaders, fair | `NilMeansStoredInBudget`, `PoolReturns` |
| `rollout` | 1 process, restarted, 1 request with a retry, 3 faults of any kind, fair | `ReadyServes`, `DrainLeavesNothing`, `NothingStranded`, `DrainEnds`, `EverythingSettles` |
| `reclaim` | 2 reclaimers, 2 consumers, 4 entries, one of them stuck, batches of 2 that take up to 4 periods where minIdle is 3 and a job at most 2, 2 faults, fair | `PromptJobKept`, `RecoveryReaches` |
| `harvest` | 100 pages, 81 pairs of stylesheets over 4 paths, limit reached and not, fair | `HarvestExact`, `OnePathOneFile`, `WithinLimit`, `WalkEnds` |
| `inputs` | 460800 environments with 8-bit integers; every text of up to 5 characters of 7 classes at 3 depths of encoding; 322 schemas two levels deep with 98 documents | `LeaseCoversJob`, `AcceptedIsSound`; `AllStorable`, `AllDecoded`, `AllMirrored`; `AuditedIsEnforced` |
| `upload_budget` | as `upload` | violation of `NilMeansStored` (section 5) |

The type invariants of `ExportWorker`, `DeploymentLock`, `StreamTrim`,
`UploadPool`, `WorkerProcess`, `ReclaimTiming` and `HarvestWalk` are checked in
the first run of each.

- `NoLostWork`: until a requested deployment is terminal, in the DLQ or given
  up, an unacked entry or a dispatchable envelope stands for it.
- `EveryRequestAccounted`: the same until it is *announced*, failed, cancelled,
  in the DLQ, given up or passed over. It implies `NoLostWork`, since what is
  announced or passed over is ready, and it says where a ready event can get
  lost: only after an ack that `passedOver` records.
- `ImplementsLifecycle`: one artifact per deployment, ready only with it,
  announced only when ready, no way back.
- `ReadyNotLost`: nothing becomes ready in silence. It holds with one fault and
  without stealing; section 5 (`ReadyLost`) has the two faults that break it, and
  `EveryRequestAccounted` is what is left of it then.
- `ReadyEventTruthful`: a ready event names the registered pointer, and that is
  the stored manifest. It is checked, and proved, for requests that carry `createdAt`;
  see section 6 for the others.
- `LeaseIsExclusive`: a lease that has not lapsed owns the lock by its own
  grant, although the jobs of a process share one token. `ReleasesOwnGrant`: a
  release removes its own grant or, once lapsed, that of a sibling, which the
  token cannot tell apart; never that of another process. Section 5
  (`LockSiblings`) has the sibling's loss.
- `TrimSparesPending`: a pass trims a pending entry only if it was delivered
  between that pass's two reads, the gap `TrimRace` of section 5 shows. A
  delivery before the first read, after the second, or during another worker's
  pass is safe.
- `DrainLeavesNothing`: a process that stopped cleanly left nothing pending but
  what `Handle` itself left; `NothingStranded` and `EverythingSettles` say the
  same of the whole rollout, where a retry may be stored after the dispatcher
  has gone.
- `PromptJobKept`: in the code the batch is 16, a job may take the lock TTL, and
  minIdle is that TTL plus 30 s, so a batch may outlast minIdle and a single job
  does not. A job that begins early enough to end within minIdle of the fetch or
  claim keeps its entry to itself: every fetched one, the first of every batch,
  and the later ones while those before them were quick. The others can be
  stolen (`ReclaimSteals`, section 5).
- `RecoveryReaches`: pending recovery comes to every entry when fewer are stuck
  than the loops claim in minIdle; section 5 (`ReclaimStarves`) has the rest.
- `HarvestExact`: the walk computes the fixpoint.
- `AllDecoded`: one verdict and one path for all encodings of a text.
- `LeaseCoversJob`: what `DeploymentLock` and `ReclaimTiming` assume of their
  constants follows from any accepted configuration without overflow.
- `AuditedIsEnforced`: what the audit test is worth. For a schema without a
  finding, `validate` refuses nothing the draft allows, and what it accepts
  satisfies the draft's reading of every keyword in force (`Enforced`). That
  this is all of the schema, as `audit.go:52` says, is refuted (section 5).

Bounds. `MaxRetries = 1` gives each of the three positions of an attempt: first,
retried, exhausted. `MaxStream` bounds the entries appended (a blocked publish
leaves its envelope in place): two or three are the original, its retry and one
duplicate; `liveness` allows four, so that the bound is never what stops a
retry there. One fault reaches every single failure point, two the pairs within
the retry machinery. `Injected` holds a retryable and a terminal code of
deployment-service, a terminal one of render-origin and a retryable one of
storage (`retry`, where nothing is rendered, only the first two). One deployment is enough because
locks, records, manifests and envelope ids of different deployments are
independent; `retry` adds a second for the unparseable payload. The theorems
need none of these bounds. The runs accept deadlock because a fleet with
nothing left to do is idle.

In `rollout` one process shows every order of boot, signal, crash and restart.
Three faults are what it takes to lose an answer, die, and be signalled in the
middle of the batch that recovers the entries; `MaxEntries = 6` leaves room for
the duplicates they cause, so that the bound never stops a retry. `harvest` has two stylesheets, enough for cycles
of length one and two with repeated, relative and absolute references, a limit
that some walks exceed, and every form of reference. `inputs` has depths 0, 4 and
5, the two sides of the last decoding round, and a blank for what surrounds a slug; five characters hold a drive
prefix, a `..` segment between two others and an empty last segment. For the
environment, four units a millisecond and eight bits put 40 ms beyond a Duration.

Fairness. A handler goes on, because every call has a deadline (`WF` of
`HandlerStep`). Some consumer fetches, and the dispatchers tick (`WF`). The
reclaim loop scans the pending list from the oldest entry, so it comes to each
entry that keeps being reclaimable (`SF` per entry: an entry stops being
reclaimable whenever a handler holds it). Redis expires a lock without renewal
(`WF`). Nothing is assumed of the producer or of deployment-service. In
`DeploymentLock` time passes, heartbeats try, and a job ends by its deadline
(`SF`: an expired lease may come and go). In `UploadPool` goroutines are
scheduled and calls end. In `WorkerProcess` `run()` and every goroutine goes on,
calls and jobs end by their deadlines, and the platform restarts a container
that ended (`WF` each); nothing is assumed of signals and failures. In
`ReclaimTiming` time passes, a loop takes its tick, and `Handle` returns. In
`HarvestWalk` every fetch ends, by the client's timeout.

## 4. Proofs

All theorems hold for every value of the constants, under the named assumptions
in the modules, which TLC evaluates in the runs:

- types of the constants, `MaxRetries` positive, at least two heartbeat
  intervals per TTL;
- `NobodyIsNoProcess`, `LoopsApart`, `StampsFresh` and the like: names of
  different things differ;
- `ReclaimBounds`: `HandleMax < MinIdle`, what `LeaseCoversJob` gives;
- `NumbersType`: a number that parsed is in the range of an integer, as
  `strconv` guarantees; `DurationsType`: the constants of the code, the least
  TTL with its slack included, are positive durations.

The bounds of the runs (`MaxFaults`, `MaxStream`, `MaxEntries`, `MaxLength`) are
constants like any other, so the theorems hold for every bound.

| Module | Theorem | Argument |
|---|---|---|
| `ExportWorkerProofs` | `FleetTypeCorrect` | `TypeOK` is inductive. Besides ranges it says that a handler holds a delivered entry, that the failure CAS starts from an actionable status, and that an envelope is scheduled only for a retryable code below the limit. |
| | `FleetImplementsLifecycle` | every step is a lifecycle step or leaves the mapped state alone. That needs `Evidence`: a handler about to CAS to ready has a registered pointer, and one about to announce has a ready deployment; both are stable because lifecycle steps never undo them (`Monotone`). |
| | `NothingTakenBack` | the same steps, read as what a lifecycle step keeps (`LifecycleKeeps`): an action property of the fleet's own variables. |
| | `ReadyHasArtifact` | `ArtifactInv`: a handler past the upload has stored a manifest (`Uploaded`), and a pointer is backed by a manifest, readiness by a pointer, an announcement by readiness (`Founded`). The order store, register, CAS, emit makes each of them true; nothing is taken back, so they stay true although a second handler overwrites the manifest meanwhile. |
| | `FleetAccountsForEveryRequest` | `EveryRequestAccounted` is not inductive, since an ack removes its own witness. `WorkInv` is: a released entry was *handed on*, i.e. its deployment is closed (announced, ended, in the DLQ, given up or passed over: `Closed`) or a later attempt is under way (`Handed`); the index is backed by payloads (`IndexBacked`); a dispatcher removes or drops only what was published (`SlotBacked`); a handler about to ack without another hand-over has closed the deployment (`Concluded`). The attempt number orders the chain of hand-overs. It covers the overwritten envelope and the orphan drop that hits a freshly scheduled envelope: in both cases a later attempt is already out. |
| | `FleetLosesNoWork` | a consequence: by `ArtifactInv` what is announced or passed over is ready or beyond, hence terminal for the worker. |
| | `ReadyEventsTruthful` | under `StampedAlike`: every request carries `createdAt`, and the requests of one deployment the same one. `StampInv`: whatever a handler builds (`BuildsGenuine`), storage and deployment-service keep (`KeepsGenuine`) and events announce (`EventsGenuine`) is that stamp. That an event's deployment is ready and has stored and registered artifacts comes from `Evidence`. |
| `WorkerProcessProofs` | `ProcessTypeCorrect` | `TypeInv`: the type with the numbering of entries, the entries in the stream, and retries left where one is stored. |
| | `ReadyMeansServing` | `ReadyInv`: no loop runs before the boot is over, all are started when it is, and a loop returns only after the context ended. |
| | `DrainIsClean` | `DrainInv`: an entry taken and neither settled nor left is in a handler's hands or in a batch (`TakenIsHeld`), a batch has a handler, and a stopped process has none. |
| | `NoRequestStranded` | `NothingStranded` is not inductive: the dispatcher's remove takes a witness away. `PublishedHasSuccessor` adds that what a dispatcher has published and not yet removed is decided or lives on in a later attempt. |
| `HarvestWalkProofs` | `WalkTypeCorrect`, `PathsAreDistinct` | every file's path is visited (`FilesVisited`), and a file is appended only for a path that is not. |
| | `WalkIsExact` | `WalkInv`: what is queued or harvested is a dependency or a mirror (`OnlyDependencies`); a reference met is visited or still queued (`NothingForgotten`); a visited path has its file (`VisitedHasFile`). With an empty queue the visited paths are closed under references, so they contain the least such set. |
| | `LimitHolds` | the count is the sum of the sizes of the files (`Counted`), which needs `PathsAreDistinct`: no size is added twice. |
| `ReclaimTimingProofs` | `ReclaimTypeCorrect` | as it stands. |
| | `PromptJobNeverStolen` | `HeldInv`: a loop without an entry in hand has no batch, what it holds was delivered, and until minIdle has passed since its fetch or claim all it holds is its own and has been idle no longer than that (`HeldRecently`), so no other loop can claim it yet. |
| `InputsProofs` | `LeaseAlwaysCoversJob`, `AcceptedConfigIsSound` | `Loaded`: what an accepting `Load` has computed and checked. Arithmetic modulo `2 * Half` is exact below `Half` (`WrapExact`, `MillisExact`). |
| | `EveryPathStorable` | what `NormalizePath` rules out of the decoded text covers what `StorageKey` refuses, and appending `/index.html` to a slug's path brings in nothing of it (`IndexStorable`). |
| | `EncodingNeverMatters` | four rounds of decoding take a character at depth four or less to its plain form, and the rules read only plain characters. |
| | `MirroredBelowEveryPrefix`, `EveryMirrorBelowPrefix` | a path that `NormalizePath` accepts has only names for segments, and so has its escaped form, because an encoding hides a slash but never makes one (`NamesOnly`); so `path.Clean` left it as it was (`CleanKeepsNames`, by a least counterexample); and up to the end of a prefix without encodings escaped and decoded form are the same text (`SameUpTo`), so the decoded path has the same first segments (`PrefixKept`). The lemmas on `Rank` and `Nth` turn segments into positions. |
| `StreamTrimProofs` | `TrimTypeCorrect`, `UndeliveredNeverTrimmed` | a trimmer's bound never passes the group position, which only grows. |
| | `PendingTrimmedOnlyInTheGap` | `BoundPending`: after each read a trimmer's bound is at or below every pending entry that was not delivered between its two reads; acks only remove pending entries and later deliveries lie above the bound. |
| `UploadPoolProofs` | `PoolTypeCorrect`, `NilReturnIsComplete` | every fed object is stored, in work, or an error is recorded; the feed is complete unless the context ended. |
| `DeploymentLockProofs` | `LockTypeCorrect`, `LeaseExclusion`, `ReleaseIsOwn` | `LockInv`: the TTL left plus the renewals missed covers a TTL for every lease that has not lapsed (`LeaseCovered`), the key names the process of the handler that wrote it (`OwnerIsHolder`), a lease told that it lost the lock has lapsed (`LostIsLapsed`), and a new lease starts unlapsed (`IdleIsClean`). |

Two theorems have a hypothesis beside the specification. Each has instances
(the runs check the property where it holds) and is needed:

- `StampedAlike`: without it TLC refutes the property (section 6).
- `PlainPrefix` of `MirroredBelowEveryPrefix`: the allowlist entry has no
  percent-encodings. An encoded one matches URLs that are encoded alike, and
  their files are stored under the decoded path, which does not begin with the
  entry's text. The prefix of the run is plain, so `EveryMirrorBelowPrefix` has
  no hypothesis.

Only model-checked:

- the liveness properties `EventuallyDecided`, `EventuallyAnnounced`,
  `LockEventuallyFree`, `LockReturns`, `PoolReturns`, `DrainEnds`,
  `EverythingSettles`, `RecoveryReaches` and `WalkEnds`: the prover does not
  reason about fairness or `ENABLED`;
- `AuditedIsEnforced`: the operators of `SchemaSubset` are RECURSIVE;
- `ReadyNotLost`: false beyond one fault. The attempt to prove it found the
  behaviour of `ReadyLost`; what is true of any number of faults is
  `EveryRequestAccounted`, which is proved.

## 5. Findings

What the repository says of itself and the model does not keep. The first is a
run of the project:

- `upload_budget`: `UploadAll` returns nil with objects missing when the context
  ends while objects are still to be fed and no upload under way fails
  (`storage.go:178`). TLC's shortest trace is the degenerate case, a budget that
  ends before anything is fed; it is the same when the feeder waits for a free
  uploader and those at work succeed. `export.go:57` promises `ARTIFACT_UPLOAD_TIMEOUT`. The
  manifest, the pointer and `ARTIFACT_READY` follow: `Export` does not look at
  the upload context again, and the calls after it use the job's.

The others are kept as configurations beside the runs; TLC refutes each of them.

| Configuration (module) | Statement | What happens |
|---|---|---|
| `AckRule` (`MCExportWorker`) | `driver.go:40`, a message is acked only when it is settled or handed off | a `Load` answered 401, 403 or 404 leads to an ack with neither (`processor.go:454`) |
| `FailedNeverReady` (`MCExportWorker`) | `processor.go:367`, the failed event follows the `EXPORT_FAILED` transition | a failed event for a ready deployment, after a 409 (`processor.go:463`) |
| `ReadyLost` (`MCExportWorker`, two faults) | `processor.go:157`, what is interrupted between the CAS to ready and the emit repeats the emit on redelivery; `dispatcher.go:13`, dispatching an envelope twice is safe | a `Load` times out and its envelope is published; before the dispatcher removes it, another request of the deployment is exported, the answer to its CAS to ready is lost, and its retry is scheduled under the same id and acked. The published retry meets `ARTIFACT_READY` at its CAS to `EXPORTING` and acks without emitting (`processor.go:245`, the step `passedOver` records). The dispatcher then removes the new envelope (`dispatcher.go:68`): ready, and never announced |
| `DryRun` (`MCExportWorker`) | `config.go:88`, no status writes in a dry run | the failure path writes `EXPORT_FAILED` (`processor.go:189`) |
| `TrimRace` (`StreamTrim`) | `trim.go:40`, no pending entry is removed | an entry delivered between the two reads is trimmed while pending (`trim.go:64`) |
| `LockSiblings` (`MCDeploymentLock`) | `lock.go:131`, a release deletes the lock only if it is still owned, read of the job that releases (of its process it holds: `ReleasesOwnGrant`) | a job whose lease lapsed releases the grant of another job of its process, which has the same token (`lock.go:139`) |
| `StopConsuming` (`WorkerProcess`) | `main.go:316`, the drain stops consuming | the reclaim loop starts a job, with a full deadline, for every entry left in its batch (`main.go:193`) |
| `SigtermInFlight` (`WorkerProcess`) | `main.go:162`, work in flight survives SIGTERM | after an ops server failed, `stop()` has restored the default action of SIGTERM (`main.go:310`) |
| `ReclaimSteals` (`ReclaimTiming`) | `main.go:175`, an active job is never stolen | an entry that waited in a batch is past minIdle while it is handled (`main.go:188`) |
| `ReclaimStarves` (`ReclaimTiming`) | `processor.go:193`, pending recovery redelivers what is not acked | entries that are never acked are claimed again before younger ones, every claim starting at `0-0` (`redis.go:100`); with batches of 16 and a tick of 30 s, some 90 of them occupy a process |
| `HarvestCollision` (`MCHarvestWalk`) | `harvest.go:128`, every allowlisted dependency is harvested | a mirrored URL takes the path of a same-origin dependency (`harvest.go:184`) |
| `FetchedElsewhere` (`PathInputs`) | what is fetched is what is published (`FetchedIsPublished`; `render.go:121`, `paths.go:20`) | the two sides treat a text differently in four ways: `MapSlug` trims blanks, decodes percent signs and maps `index` to `/`, and `escapeSlug` does none of these (`render.go:236`); `NormalizePath` decodes the `?` or `#` of a reference, and `FetchAsset` puts it unescaped into the URL (`render.go:129`) |
| `SchemaVacuous` (`MCInputs`) | `audit.go:52`, no finding means that the schema is fully enforceable | a keyword without its type or beside a `const` is ignored, `minLength` counts bytes, and a pattern that does not compile is passed over (`jsonschema.go:71`, `:108`, `:112`) |

Two more show in the hypotheses of the properties of `inputs`: a timeout in
milliseconds wraps around after it was checked (`config.go:141`,
`LeaseCoversJob`); and a missing `REDIS_URL` hides behind a missing
`QUEUE_DRIVER`, where `config.go:101` says that a boot reports everything at once
(`config.go:247`, no property).

## 6. Met while modelling, without a run

- Two dispatchers may publish the same envelope, so a request can be executed
  more often than `MaxRetries + 1` times. No work is lost by it.
- A request without `createdAt` whose re-run cannot read the stored manifest
  takes the clock and overwrites the stored manifest, while the registered
  pointer keeps the first digest; the second registration is refused.
- A reference to `/`, to a directory with a trailing slash, or to an allowlisted
  URL without a path fails the export with `PATH_TRAVERSAL_DETECTED`, because
  `NormalizePath` rejects empty segments before the allowlist is consulted.
- The page is prepended to the harvested files without a look at `visited`: a
  dependency with the path of the page's entry would be a second object under
  the same key.
- References relative to a stylesheet are queued a second time, so the walk is
  not strictly breadth-first as `harvest.go:100` has it; its result is the same.
- After an ops server failed, the readiness probe (if it is the other server)
  still answers READY while the process drains.
- A connection error of a mirrored URL is a terminal `VALIDATION_FAILED`, where
  one of render-origin is retried.
- With stealing, `ReadyNotLost` fails for a while: the second handler meets
  `ARTIFACT_READY` at its CAS to `EXPORTING` and acks before the first one has
  emitted the event. It is checked without stealing, as is `EventuallyAnnounced`.
  `EveryRequestAccounted` is checked and proved with it.

## 7. Not modelled

Content and layout of files, manifests and events; cache headers; tokenizing
HTML and CSS; host, scheme and port rules of the external allowlist; HTTP
details and the headers of the version pin; trimming of the streams other than
the main one; logging, metrics and tracing; the generated contracts;
numbers beyond int64 and malformed keyword arguments in a schema; a
stylesheet's relative way to the image optimizer (`harvest.go:249`). The backoff delay is any delay. A
stored manifest that cannot be parsed and an event that can never be emitted
appear as `Stuck` entries of `ReclaimTiming`, not in `ExportWorker`.

These parts have no state of their own or are data the properties do not tell
apart. What remains "partly" in `PROJECT.json` is their data, not their control.

## 8. Plan

Built in this order: `ErrClass`, `ExportQueue`, `ExportWorker` with
`DeploymentLifecycle`, `DeploymentLock`, `StreamTrim`, `UploadPool`, their
proofs; then `HarvestWalk`, `WorkerProcess`, `ReclaimTiming`, `PathRules`,
`WorkerConfig`, `SchemaSubset`; then the proofs of these modules and
`ReadyEventsTruthful`; then `EveryRequestAccounted` with its proof,
`ReadyHasArtifact`, `NothingTakenBack` and the segments of a path; then the lock,
the trimmers and the reclaim loops in the proportions the code has, with their
properties weakened to what it provides there. What is left:

1. A property of dry runs: today only the refutation of section 5 is about them.
2. `AuditedIsEnforced` as a theorem, if `validate` and `audit` can be stated over
   the depth of a schema without RECURSIVE operators.
3. The streams other than the main one in `StreamTrim`, with their readers.

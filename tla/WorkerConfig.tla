---------------------------- MODULE WorkerConfig ----------------------------
(***************************************************************************)
(* The fail-fast configuration (internal/config, Load and demoGuard) and   *)
(* what main.go derives from it: the lock TTL (lock.TTLFor), which is also *)
(* the deadline of a job, and the idle time of pending recovery.  Integers *)
(* and Durations are signed machine words: Half stands for 2^63.           *)
(***************************************************************************)
EXTENDS Integers

CONSTANTS
    Environments, QueueDrivers, RedisURLs, Origins, StorageDrivers, OtherKeys,
    AssetURLs, Concurrencies, RenderTimeouts, UploadTimeouts, Retentions,
    ByteLimits, DryRuns,    \* per variable: the values it may have
    Half,           \* an integer and a Duration have 2 * Half values
    Ms,             \* time.Millisecond, in units of Duration
    Margin,         \* 60 s on top of the timeouts
    Floor,          \* 90 s, the least lock TTL
    Slack,          \* 30 s between lock TTL and minIdle
    DefaultRender, DefaultUpload, DefaultRetention

Low  == -Half
High == Half - 1

ASSUME WidthType == Half \in Nat \ {0} /\ Ms \in Nat \ {0}
ASSUME DurationsType ==
    /\ {Margin, Floor, Slack, DefaultRender, DefaultUpload, DefaultRetention} \subseteq 1..High
    /\ Floor + Slack <= High

\* The value of a variable: unset (or blank), bad (it does not parse), or a
\* text.  That of a number is a record, n counts where is = "number".
Unset == "unset"
Bad   == "bad"
Number(n)  == [is |-> "number", n |-> n]
NaN(which) == [is |-> which, n |-> 0]

\* strconv.Atoi and ParseInt report a number that is out of range as bad.
ASSUME NumbersType ==
    Concurrencies \cup RenderTimeouts \cup UploadTimeouts \cup Retentions \cup ByteLimits
      \subseteq [is : {Unset, Bad, "number"}, n : Low..High]

VARIABLES
    env,            \* the environment variables (never changes)
    phase,          \* loading, refused, accepted
    problems,       \* the variables Load reports
    render, upload, retention, ttl, minIdle     \* Durations

durations == <<render, upload, retention, ttl, minIdle>>
vars == <<env, phase, problems, durations>>

Env ==
    [environment : Environments, queue : QueueDrivers, redisURL : RedisURLs,
     origin : Origins, storage : StorageDrivers, others : OtherKeys,
     assetURL : AssetURLs, concurrency : Concurrencies, render : RenderTimeouts,
     upload : UploadTimeouts, retention : Retentions, bytes : ByteLimits, dryRun : DryRuns]

Init ==
    /\ env \in Env
    /\ phase = "loading"
    /\ problems = {}
    /\ render = 0 /\ upload = 0 /\ retention = 0 /\ ttl = 0 /\ minIdle = 0

\* A result as the machine keeps it.
Wrap(n) == ((n - Low) % (2 * Half)) + Low

\* msVal, retentionVal: time.Duration(n) * time.Millisecond, or the default.
Millis(v, default) == IF v.is = "number" THEN Wrap(v.n * Ms) ELSE default

\* Slip: no margin.
TTLForBare(r, u) == LET t == Wrap(r + u) IN IF t < Floor THEN Floor ELSE t

\* lock.go
TTLFor(r, u) == LET t == Wrap(r + u + Margin) IN IF t < Floor THEN Floor ELSE t

-----------------------------------------------------------------------------

\* Config.LocalDev
LocalDev(e) == e.environment \in {"local", "development"}

\* require
Missing(e) == {key \in {"environment", "queue", "origin", "storage", "others"} : e[key] = Unset}

\* intVal, msVal, bytesVal, retentionVal: does not parse, or is out of range.
\* WORKER_CONCURRENCY is a count of 1..64.
Misnumbered(e) ==
    { key \in {"concurrency", "render", "upload", "bytes", "retention"} :
        \/ e[key].is = Bad
        \/ e[key].is = "number" /\ \/ key # "retention" /\ e[key].n <= 0
                                   \/ e[key].n < 0
                                   \/ key = "concurrency" /\ e[key].n > 64 }

\* Slip: REDIS_URL is not looked at.
MischosenWithoutRedis(e) ==
    {key \in {"environment"} : e[key] \notin {Unset, "local", "development", "staging", "production"}}
      \cup {key \in {"queue"} : e[key] \notin {Unset, "redis"}}
      \cup {key \in {"storage"} : e[key] \notin {Unset, "s3"}}
      \cup {key \in {"assetURL"} : e[key] = Bad}

\* The switches on environment, drivers and ASSET_SERVICE_URL.
Mischosen(e) ==
    {key \in {"environment"} : e[key] \notin {Unset, "local", "development", "staging", "production"}}
      \cup {key \in {"queue"} : e[key] \notin {Unset, "redis"}}
      \cup {key \in {"redisURL"} : e[key] = Unset /\ e.queue = "redis"}
      \cup {key \in {"storage"} : e[key] \notin {Unset, "s3"}}
      \cup {key \in {"assetURL"} : e[key] = Bad}

\* demoGuard: not an absolute URL; a path through apps/demo, a demo or loopback
\* host outside local development.
DemoGuard(e) ==
    { key \in {"origin"} :
        \/ e[key] = Bad
        \/ e[key] \in {"apps/demo", "loopback"} /\ ~LocalDev(e) }

\* boolVal, and WORKER_DRY_RUN outside local development.
DryRunProblem(e) ==
    {key \in {"dryRun"} : e[key] = Bad \/ (e[key] = "true" /\ ~LocalDev(e))}

Problems(e) ==
    Missing(e) \cup Misnumbered(e) \cup Mischosen(e) \cup DemoGuard(e) \cup DryRunProblem(e)

Refuse ==
    /\ phase = "loading"
    /\ Problems(env) # {}
    /\ phase' = "refused"
    /\ problems' = Problems(env)
    /\ UNCHANGED <<env, durations>>

\* Load returns the Config; run() computes lock TTL, job deadline and minIdle.
Accept ==
    /\ phase = "loading"
    /\ Problems(env) = {}
    /\ phase' = "accepted"
    /\ render' = Millis(env.render, DefaultRender)
    /\ upload' = Millis(env.upload, DefaultUpload)
    /\ retention' = Millis(env.retention, DefaultRetention)
    /\ ttl' = TTLFor(render', upload')
    /\ minIdle' = Wrap(ttl' + Slack)
    /\ UNCHANGED <<env, problems>>

Next == Refuse \/ Accept

Spec == Init /\ [][Next]_vars

-----------------------------------------------------------------------------

\* The values are small enough for their Durations and for the lock TTL.
NoOverflow(e) ==
    LET r == IF e.render.is = "number" THEN e.render.n * Ms ELSE DefaultRender
        u == IF e.upload.is = "number" THEN e.upload.n * Ms ELSE DefaultUpload
    IN  r + u + Margin + Slack <= High

\* The lock outlives a whole job with render, upload and margin, and an entry
\* is not reclaimed before its job is over (TTLFor, main.go minIdle): what
\* ReclaimTiming and DeploymentLock assume of their constants.
LeaseCoversJob ==
    phase = "accepted" /\ NoOverflow(env) =>
        /\ render > 0 /\ upload > 0
        /\ render + upload + Margin <= ttl
        /\ ttl + Slack <= minIdle

\* What Load accepts is meant to run: run() finds the drivers it is wired for, a
\* Redis URL to parse and at least one consumer, and demo targets and dry runs
\* start only where ENVIRONMENT says local or development; an unset or unknown
\* environment is a strict one (Load, demoGuard).
AcceptedIsSound ==
    phase = "accepted" =>
        /\ env.queue = "redis" /\ env.redisURL # Unset /\ env.storage = "s3"
        /\ env.others # Unset /\ env.origin \notin {Unset, Bad}
        /\ env.concurrency.is # "number" \/ env.concurrency.n \in 1..64
        /\ env.dryRun = "true" \/ env.origin \in {"apps/demo", "loopback"} =>
               env.environment \in {"local", "development"}
=============================================================================

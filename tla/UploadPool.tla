----------------------------- MODULE UploadPool -----------------------------
(***************************************************************************)
(* The bounded upload pool of one artifact (storage.go UploadAll and       *)
(* EnsureUploaded) under the upload budget of export.go: a feeder hands    *)
(* the objects to the uploaders over an unbuffered channel, the first      *)
(* error cancels the pool's context, and the budget may expire at any time.*)
(***************************************************************************)
EXTENDS Naturals

CONSTANTS
    ObjectCount,        \* the files of the artifact are 1..ObjectCount
    Uploaders           \* goroutines of the pool

ASSUME ObjectCountType == ObjectCount \in Nat
ASSUME UploadersSome == Uploaders # {}

Objects == 1..ObjectCount

VARIABLES
    stored,             \* objects in the bucket with this content
    fed,                \* objects handed to the uploaders: 1..fed
    busy,               \* per uploader: the object it works on, 0 when idle
    step,               \* per uploader: the call it is in; "doomed" is a call made
                        \* with a context that had already ended
    ctx,                \* live, cancelled by the first error, or expired
    firstErr,           \* the error UploadAll will return
    phase               \* UploadAll: feeding, closed (waiting), returned

vars == <<stored, fed, busy, step, ctx, firstErr, phase>>

PoolTypeOK ==
    /\ stored \subseteq Objects
    /\ fed \in 0..ObjectCount
    /\ busy \in [Uploaders -> 0..ObjectCount]
    /\ step \in [Uploaders -> {"idle", "stat", "put", "doomed"}]
    /\ ctx \in {"live", "cancelled", "expired"}
    /\ firstErr \in {"nil", "error"}
    /\ phase \in {"feeding", "closed", "returned"}
    /\ \A u \in Uploaders : step[u] # "idle" => busy[u] \in 1..fed

\* A re-run finds some of the objects in the bucket.
Init ==
    /\ stored \in SUBSET Objects
    /\ fed = 0
    /\ busy = [u \in Uploaders |-> 0]
    /\ step = [u \in Uploaders |-> "idle"]
    /\ ctx = "live"
    /\ firstErr = "nil"
    /\ phase = "feeding"

\* A call of the storage client fails at once when its context has ended.
Call(c) == IF ctx = "live" THEN c ELSE "doomed"

\* Slip: the feed runs past the last object.
FeedOneMore(u) ==
    /\ phase = "feeding"
    /\ fed <= ObjectCount
    /\ step[u] = "idle"
    /\ fed' = fed + 1
    /\ busy' = [busy EXCEPT ![u] = fed + 1]
    /\ step' = [step EXCEPT ![u] = Call("stat")]
    /\ UNCHANGED <<stored, ctx, firstErr, phase>>

\* UploadAll: work <- obj; the select may choose it after the context ended.
Feed(u) ==
    /\ phase = "feeding"
    /\ fed < ObjectCount
    /\ step[u] = "idle"
    /\ fed' = fed + 1
    /\ busy' = [busy EXCEPT ![u] = fed + 1]
    /\ step' = [step EXCEPT ![u] = Call("stat")]
    /\ UNCHANGED <<stored, ctx, firstErr, phase>>

\* UploadAll: the feed ends with the last object, or when the context is done.
CloseFeed ==
    /\ phase = "feeding"
    /\ fed = ObjectCount \/ ctx # "live"
    /\ phase' = "closed"
    /\ UNCHANGED <<stored, fed, busy, step, ctx, firstErr>>

Done(u) ==
    /\ busy' = [busy EXCEPT ![u] = 0]
    /\ step' = [step EXCEPT ![u] = "idle"]

\* EnsureUploaded: an object with the same hash is skipped.
Stat(u) ==
    /\ step[u] = "stat"
    /\ IF busy[u] \in stored
       THEN Done(u)
       ELSE step' = [step EXCEPT ![u] = Call("put")] /\ UNCHANGED busy
    /\ UNCHANGED <<stored, fed, ctx, firstErr, phase>>

Put(u) ==
    /\ step[u] = "put"
    /\ stored' = stored \cup {busy[u]}
    /\ Done(u)
    /\ UNCHANGED <<fed, ctx, firstErr, phase>>

\* Slip: an error that is not recorded.
UploadFailsSilently(u) ==
    /\ step[u] # "idle"
    /\ Done(u)
    /\ UNCHANGED <<stored, fed, ctx, firstErr, phase>>

\* A call fails, a Put possibly after it took effect: the first error is
\* recorded and cancels the pool.
UploadFails(u) ==
    /\ step[u] # "idle"
    /\ \/ UNCHANGED stored
       \/ step[u] = "put" /\ stored' = stored \cup {busy[u]}
    /\ firstErr' = "error"
    /\ ctx' = IF ctx = "live" THEN "cancelled" ELSE ctx
    /\ Done(u)
    /\ UNCHANGED <<fed, phase>>

\* The upload budget, or the job's deadline, runs out.
Expire ==
    /\ ctx = "live"
    /\ phase # "returned"
    /\ ctx' = "expired"
    /\ UNCHANGED <<stored, fed, busy, step, firstErr, phase>>

\* Slip: a WaitGroup that counts the objects instead of the uploaders.
ReturnAllCounted ==
    /\ phase = "closed"
    /\ fed = ObjectCount
    /\ \A u \in Uploaders : step[u] = "idle"
    /\ phase' = "returned"
    /\ UNCHANGED <<stored, fed, busy, step, ctx, firstErr>>

\* wg.Wait, return firstErr
ReturnAll ==
    /\ phase = "closed"
    /\ \A u \in Uploaders : step[u] = "idle"
    /\ phase' = "returned"
    /\ UNCHANGED <<stored, fed, busy, step, ctx, firstErr>>

Next ==
    \/ \E u \in Uploaders : Feed(u) \/ Stat(u) \/ Put(u) \/ UploadFails(u)
    \/ CloseFeed \/ Expire \/ ReturnAll

\* Goroutines are scheduled and every storage call ends.
Fairness ==
    /\ WF_vars((\E u \in Uploaders : Feed(u)) \/ CloseFeed)
    /\ WF_vars(ReturnAll)
    /\ \A u \in Uploaders : WF_vars(Stat(u) \/ Put(u) \/ UploadFails(u))

Spec == Init /\ [][Next]_vars
FairSpec == Spec /\ Fairness

-----------------------------------------------------------------------------

\* When UploadAll returns nil within its budget, every object is in the
\* bucket: no error is swallowed by the pool, none of its goroutines is left
\* behind, and a skipped object is really there.
NilMeansStoredInBudget ==
    phase = "returned" /\ firstErr = "nil" /\ ctx = "live" => stored = Objects

\* UploadAll returns, whatever fails and whenever the budget expires: the
\* feeder is never left waiting for uploaders that stopped.
PoolReturns == <>(phase = "returned")

\* export.go: an expired upload budget is an ARTIFACT_UPLOAD_TIMEOUT, so a nil
\* return means a complete upload.  The feed loop stops at an expired context
\* without recording an error.
NilMeansStored == phase = "returned" /\ firstErr = "nil" => stored = Objects
=============================================================================

------------------------- MODULE DeploymentLifecycle -------------------------
(***************************************************************************)
(* What the export workers promise the rest of the platform about a        *)
(* deployment, whatever happens to the workers: each deployment registers  *)
(* at most one artifact, becomes ARTIFACT_READY only with a registered     *)
(* artifact, is announced only once it is ready, and never leaves a        *)
(* terminal status again.                                                  *)
(***************************************************************************)
CONSTANTS Deployments, Digests, NoDigest

VARIABLES
    status,         \* deployment status
    artifact,       \* the digest registered for it, NoDigest before
    announced       \* deployments with a deployment.artifact.ready event

vars == <<status, artifact, announced>>

Init ==
    /\ status = [d \in Deployments |-> "PENDING"]
    /\ artifact = [d \in Deployments |-> NoDigest]
    /\ announced = {}

Move(d, from, to) ==
    /\ status[d] \in from
    /\ status' = [status EXCEPT ![d] = to]
    /\ UNCHANGED <<artifact, announced>>

Queue(d)  == Move(d, {"PENDING"}, "EXPORT_QUEUED")
Start(d)  == Move(d, {"EXPORT_QUEUED"}, "EXPORTING")
Abort(d)  == Move(d, {"EXPORT_QUEUED", "EXPORTING"}, "EXPORT_FAILED")
Cancel(d) == Move(d, {"PENDING", "EXPORT_QUEUED", "EXPORTING"}, "CANCELLED")

Register(d) ==
    /\ artifact[d] = NoDigest
    /\ \E g \in Digests : artifact' = [artifact EXCEPT ![d] = g]
    /\ UNCHANGED <<status, announced>>

Finish(d) ==
    /\ artifact[d] # NoDigest
    /\ Move(d, {"EXPORTING"}, "ARTIFACT_READY")

Announce(d) ==
    /\ status[d] \in {"ARTIFACT_READY", "CDN_UPLOADING"}
    /\ announced' = announced \cup {d}
    /\ UNCHANGED <<status, artifact>>

HandOver(d) ==
    /\ d \in announced
    /\ Move(d, {"ARTIFACT_READY"}, "CDN_UPLOADING")

Next ==
    \E d \in Deployments :
        \/ Queue(d) \/ Start(d) \/ Abort(d) \/ Cancel(d)
        \/ Register(d) \/ Finish(d) \/ Announce(d) \/ HandOver(d)

Spec == Init /\ [][Next]_vars
=============================================================================

-------------------------- MODULE MCDeploymentLock --------------------------
(* A process with two handlers (a consumer and the reclaim loop) beside     *)
(* another process.                                                         *)
EXTENDS DeploymentLock

ThreeHandlers == {"h1", "h2", "h3"}
SharedProcess == [h1 |-> "w1", h2 |-> "w1", h3 |-> "w2"]
=============================================================================

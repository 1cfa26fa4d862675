SPECIFICATION Spec
CONSTANTS
  Deployments = {"d1"}
  Requests <- TwoRequests
  DepOf <- BothD1
  Workers <- OneWorker
  Handlers <- TwoHandlers
  WorkerOf <- SameProcess
  Kind <- BothValid
  Stamps = {"t1"}
  Stamp <- BothStamped
  Injected = {"DEPLOYMENT_SERVICE_TIMEOUT"}
  DryRun = FALSE
  StealActive = FALSE
  MaxRetries = 1
  MaxFaults = 2
  MaxStream = 3
INVARIANTS ReadyNotLost
CHECK_DEADLOCK FALSE

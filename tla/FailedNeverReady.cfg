SPECIFICATION Spec
CONSTANTS
  Deployments = {"d1"}
  Requests <- OneRequest
  DepOf <- OneDep
  Workers <- OneWorker
  Handlers <- OneHandler
  WorkerOf <- Alone
  Kind <- Valid
  Stamps = {"t1"}
  Stamp <- Stamped
  Injected = {"DEPLOYMENT_SERVICE_TIMEOUT"}
  DryRun = FALSE
  StealActive = FALSE
  MaxRetries = 1
  MaxFaults = 2
  MaxStream = 2
INVARIANT FailedNeverReady
CHECK_DEADLOCK FALSE

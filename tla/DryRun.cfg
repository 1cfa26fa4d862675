SPECIFICATION Spec
CONSTANTS
  Deployments = {"d1"}
  Requests <- OneRequest
  DepOf <- OneDep
  Workers <- OneWorker
  Handlers <- OneHandler
  WorkerOf <- Alone
  Kind <- Mismatch
  Stamps = {"t1"}
  Stamp <- Stamped
  Injected = {"DEPLOYMENT_SERVICE_TIMEOUT"}
  DryRun = TRUE
  StealActive = FALSE
  MaxRetries = 1
  MaxFaults = 0
  MaxStream = 2
INVARIANT DryRunWritesNoStatus
CHECK_DEADLOCK FALSE

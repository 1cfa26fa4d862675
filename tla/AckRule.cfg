SPECIFICATION Spec
CONSTANTS
  Deployments = {"d1"}
  Requests <- OneRequest
  DepOf <- OneDep
  Workers <- OneWorker
  Handlers <- OneHandler
  WorkerOf <- Alone
  Kind <- Valid
  Stamps = {"t1"}
  Stamp <- Stamped
  Injected = {"DEPLOYMENT_SERVICE_401"}
  DryRun = FALSE
  StealActive = FALSE
  MaxRetries = 1
  MaxFaults = 1
  MaxStream = 2
INVARIANT AckRule
CHECK_DEADLOCK FALSE

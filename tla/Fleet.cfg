SPECIFICATION Spec
CONSTANTS
  Deployments = {"d1"}
  Requests <- OneRequest
  DepOf <- OneDep
  Workers <- TwoWorkers
  Handlers <- TwoHandlers
  WorkerOf <- TwoProcesses
  Kind <- Valid
  Stamps = {"t1", "t2"}
  Stamp <- Unstamped
  Injected = {"DEPLOYMENT_SERVICE_TIMEOUT", "DEPLOYMENT_SERVICE_401", "RENDER_ORIGIN_404", "STORAGE_5XX"}
  DryRun = FALSE
  StealActive = TRUE
  MaxRetries = 1
  MaxFaults = 1
  MaxStream = 2
INVARIANTS TypeOK EveryRequestAccounted
PROPERTY ImplementsLifecycle
CHECK_DEADLOCK FALSE

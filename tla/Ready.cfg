SPECIFICATION Spec
CONSTANTS
  Deployments = {"d1"}
  Requests <- TwoRequests
  DepOf <- BothD1
  Workers <- OneWorker
  Handlers <- TwoHandlers
  WorkerOf <- SameProcess
  Kind <- BothValid
  Stamps = {"t1", "t2"}
  Stamp <- BothStamped
  Injected = {"DEPLOYMENT_SERVICE_TIMEOUT", "DEPLOYMENT_SERVICE_401", "RENDER_ORIGIN_404", "STORAGE_5XX"}
  DryRun = FALSE
  StealActive = FALSE
  MaxRetries = 1
  MaxFaults = 1
  MaxStream = 3
INVARIANTS ReadyNotLost ReadyEventTruthful
CHECK_DEADLOCK FALSE

SPECIFICATION Spec
CONSTANTS
  Deployments = {"d1", "unknown"}
  Requests <- Defective
  DepOf <- DefectiveDeps
  Workers <- TwoWorkers
  Handlers <- OneHandler
  WorkerOf <- Alone
  Kind <- DefectiveKind
  Stamps = {"t1"}
  Stamp <- DefectiveStamp
  Injected = {"DEPLOYMENT_SERVICE_TIMEOUT", "DEPLOYMENT_SERVICE_401"}
  DryRun = FALSE
  StealActive = FALSE
  MaxRetries = 1
  MaxFaults = 2
  MaxStream = 3
INVARIANTS NoLostWork
CHECK_DEADLOCK FALSE

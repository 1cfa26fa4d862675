SPECIFICATION FairSpec
CONSTANTS
  Deployments = {"d1"}
  Requests <- OneRequest
  DepOf <- OneDep
  Workers <- OneWorker
  Handlers <- TwoHandlers
  WorkerOf <- SameProcess
  Kind <- Valid
  Stamps = {"t1"}
  Stamp <- Stamped
  Injected = {"DEPLOYMENT_SERVICE_TIMEOUT", "DEPLOYMENT_SERVICE_401", "RENDER_ORIGIN_404", "STORAGE_5XX"}
  DryRun = FALSE
  StealActive = FALSE
  MaxRetries = 1
  MaxFaults = 1
  MaxStream = 4
PROPERTIES EventuallyDecided EventuallyAnnounced LockEventuallyFree
CHECK_DEADLOCK FALSE

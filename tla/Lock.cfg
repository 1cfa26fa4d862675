SPECIFICATION FairSpec
CONSTANTS
  Workers = {"w1", "w2"}
  Handlers <- ThreeHandlers
  WorkerOf <- SharedProcess
  Beats = 3
INVARIANTS LockTypeOK LeaseIsExclusive
PROPERTIES ReleasesOwnGrant LockReturns
CHECK_DEADLOCK FALSE

SPECIFICATION FairSpec
CONSTANTS
  Reclaimers = {"r1"}
  Fetchers = {"c1"}
  Messages = 4
  Stuck = {1, 2, 3}
  Batch = 1
  HandleMax = 0
  MinIdle = 3
  MaxFaults = 1
PROPERTIES RecoveryReaches
CHECK_DEADLOCK FALSE

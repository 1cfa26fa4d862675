SPECIFICATION FairSpec
CONSTANTS
  Reclaimers = {"r1", "r2"}
  Fetchers = {"c1", "c2"}
  Messages = 4
  Stuck = {1}
  Batch = 2
  HandleMax = 2
  MinIdle = 3
  MaxFaults = 2
INVARIANTS ReclaimTypeOK PromptJobKept
PROPERTIES RecoveryReaches
CHECK_DEADLOCK FALSE

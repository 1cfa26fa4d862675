SPECIFICATION Spec
CONSTANTS
  Reclaimers = {"r1", "r2"}
  Fetchers = {"c1"}
  Messages = 2
  Stuck = {}
  Batch = 2
  HandleMax = 2
  MinIdle = 3
  MaxFaults = 2
INVARIANTS OneHandler
CHECK_DEADLOCK FALSE

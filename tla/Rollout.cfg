SPECIFICATION FairSpec
CONSTANTS
  Processes = {"w1"}
  Consumers = {"c1"}
  Housekeepers = {}
  Requests = 1
  MaxEntries = 6
  MaxRetries = 1
  Batch = 2
  FaultKinds = {"boot", "signal", "crash", "ops", "lost", "keep"}
  MaxFaults = 3
INVARIANTS ProcessTypeOK ReadyServes DrainLeavesNothing NothingStranded
PROPERTIES DrainEnds EverythingSettles
CHECK_DEADLOCK FALSE

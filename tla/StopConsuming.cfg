SPECIFICATION Spec
CONSTANTS
  Processes = {"w1"}
  Consumers = {"c1"}
  Housekeepers = {"gauge", "retention"}
  Requests = 2
  MaxEntries = 2
  MaxRetries = 0
  Batch = 2
  FaultKinds = {"signal", "lost"}
  MaxFaults = 3
PROPERTIES StopsConsuming
CHECK_DEADLOCK FALSE

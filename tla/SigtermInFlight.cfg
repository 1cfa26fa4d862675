SPECIFICATION Spec
CONSTANTS
  Processes = {"w1"}
  Consumers = {"c1"}
  Housekeepers = {"gauge", "retention"}
  Requests = 1
  MaxEntries = 1
  MaxRetries = 0
  Batch = 1
  FaultKinds = {"signal", "ops"}
  MaxFaults = 2
PROPERTIES InFlightSurvives
CHECK_DEADLOCK FALSE

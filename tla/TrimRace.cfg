SPECIFICATION Spec
CONSTANTS
  Workers = {"w1", "w2"}
  MaxEntries = 4
INVARIANTS PendingKept
CHECK_DEADLOCK FALSE

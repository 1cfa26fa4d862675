SPECIFICATION Spec
CONSTANTS
  Workers = {"w1", "w2"}
  MaxEntries = 4
INVARIANTS TrimTypeOK UndeliveredKept
PROPERTIES TrimSparesPending
CHECK_DEADLOCK FALSE

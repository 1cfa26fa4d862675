SPECIFICATION Spec
CONSTANTS
  ObjectCount = 2
  Uploaders = {"u1", "u2"}
INVARIANT NilMeansStored
CHECK_DEADLOCK FALSE

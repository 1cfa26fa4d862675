SPECIFICATION FairSpec
CONSTANTS
  ObjectCount = 4
  Uploaders = {"u1", "u2"}
INVARIANTS PoolTypeOK NilMeansStoredInBudget
PROPERTY PoolReturns
CHECK_DEADLOCK FALSE

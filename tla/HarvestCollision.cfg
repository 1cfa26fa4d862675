SPECIFICATION Spec
CONSTANTS
  Paths <- FourPaths
  Allowed <- Listed
  CSS <- TwoSheets
  Pages <- SomePages
  Sheets <- SomeSheets
  Size <- SizeOf
  PageSize = 1
  MaxTotalBytes = 0
INVARIANTS EveryDependencyHarvested
CHECK_DEADLOCK FALSE

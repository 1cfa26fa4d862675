SPECIFICATION FairSpec
CONSTANTS
  Paths <- FourPaths
  Allowed <- Listed
  CSS <- TwoSheets
  Pages <- SomePages
  Sheets <- SomeSheets
  Size <- SizeOf
  PageSize = 1
  MaxTotalBytes = 7
INVARIANTS WalkTypeOK HarvestExact OnePathOneFile WithinLimit
PROPERTIES WalkEnds
CHECK_DEADLOCK FALSE

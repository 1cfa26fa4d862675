SPECIFICATION PathSpec
CONSTANTS
  Alphabet = {"slash", "x", "mark", "blank", "index"}
  Depths = {0, 1}
  MaxLength = 3
INVARIANTS AllPublished
CHECK_DEADLOCK FALSE

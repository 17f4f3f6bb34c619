SPECIFICATION StreamSpec
CONSTANTS
  Writers = {w1, w2}
  PageSize = 3
  MaxId = 3
  Commands = 1
INVARIANT NeverDropped
CHECK_DEADLOCK FALSE

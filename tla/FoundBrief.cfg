SPECIFICATION StreamSpec
CONSTANTS
  Writers = {w1, w2}
  PageSize = 1
  MaxId = 3
  Commands = 1
INVARIANT BriefWhole
CHECK_DEADLOCK FALSE

SPECIFICATION Spec
CONSTANTS
  Projects = {p1, p2}
  Caller = p1
  Keys = {1, 2}
  MaxId = 3
  MaxLimit = 2
  Limits = {NULL, 0, 1}
  Orders <- TwoOrders
  Starts <- TwoStarts
  NULL = NULL
INVARIANTS SeenOnce OnlyWanted
CHECK_DEADLOCK FALSE

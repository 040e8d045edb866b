SPECIFICATION Spec
CONSTANTS
  Holders = {h1, h2}
  Uuids = {u1, u2}
  Values = {v1, v2}
  MaxRows = 2
  MaxCalls = 7
  NULL = NULL
INVARIANTS AssignmentsSurvive NothingForgotten
CHECK_DEADLOCK FALSE

CONSTANTS
  b1 = b1
  r = r
  w1 = w1
  s1 = s1
  s2 = s2
  NULL = NULL
  Boards = {b1}
  Agents = {r}
  RegAgent = r
  Workers = {w1}
  Sessions = {s1,s2}
  MaxLosses = 0
SPECIFICATION Spec
PROPERTIES
  OldConnectedIsGone
CHECK_DEADLOCK FALSE

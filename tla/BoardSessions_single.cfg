CONSTANTS
  b1 = b1
  b2 = b2
  r = r
  w1 = w1
  s1 = s1
  s2 = s2
  NULL = NULL
  Boards = {b1,b2}
  Agents = {r}
  RegAgent = r
  Workers = {w1}
  Sessions = {s1,s2}
  MaxLosses = 1
SPECIFICATION FairSpec
INVARIANTS
  TypeOK
PROPERTIES
  GoneBoardGoesOffline
CHECK_DEADLOCK FALSE

SPECIFICATION Spec
CONSTANTS
  Boards = {b1}
  Services = {s1, s2}
  Ports = {p1, p2}
  Workers = {w1, w2}
  NULL = NULL
  MaxRestarts = 0
INVARIANTS ExposedIsAllowed
CHECK_DEADLOCK FALSE

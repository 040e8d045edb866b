SPECIFICATION MixSpec
CONSTANTS
  Boards = {b1, b2}
  Services = {s1, s2}
  Ports = {p1, p2}
  Workers = {w1, w2}
  NULL = NULL
  MaxRestarts = 1
SYMMETRY Symmetry
INVARIANTS NoSharedPort FreeIsUnused ExposedKeepsEntry AllowedIsExposed
CHECK_DEADLOCK FALSE

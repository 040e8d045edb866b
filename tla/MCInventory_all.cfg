SPECIFICATION Spec
CONSTANTS
  Clients = {c1, c2}
  Boards = {b1, b2, b3}
  Plugins = {p1, p2}
  Fleets = {f1, f2}
  Services = {s1, s2}
  Names = {n1, n2}
  Ports = {q1, q2}
  NULL = NULL
  Mixes <- AllMixes
  MaxCalls = 4
  MaxToggles = 1
  MaxCrashes = 1
SYMMETRY ClientSymmetry
CHECK_DEADLOCK FALSE
INVARIANTS UniqueName OneInjection InjectionsAgree BoardIsWhole
PROPERTY PatchKeepsOthers

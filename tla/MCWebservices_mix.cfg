SPECIFICATION MixSpec
CONSTANTS
  a1 = a1
  Boards = {b1, b2}
  Agents = {a1}
  AgentOf <- OneAgent
  Workers = {w1, w2}
  Dns = {d1, d2}
  Names = {n1, n2}
  LocalPorts = {l1, l2}
  Ports = {p1, p2, p3, p4}
  NULL = NULL
  MaxDirty = 2
SYMMETRY Symmetry
INVARIANTS EnabledIsServed NoMisroute RecordIsEnabled UniqueDns WebserviceIsServed NameHasWebservice
CHECK_DEADLOCK FALSE

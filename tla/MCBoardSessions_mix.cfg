CONSTANTS
  b1 = b1
  r = r
  m = m
  w1 = w1
  w2 = w2
  s1 = s1
  s2 = s2
  s3 = s3
  NULL = NULL
  Boards = {b1}
  Agents = {r,m}
  RegAgent = r
  Workers = {w1,w2}
  Sessions = {s1,s2,s3}
  MaxLosses = 1
SPECIFICATION MixSpec
SYMMETRY Symmetry
INVARIANTS
  SessionsAreSingle
  OnlineHasSession
  DeadSessionCovered
  ConnectedIsOnline
PROPERTIES
  AgentIsKept
  OldConnectedIsLate
CHECK_DEADLOCK FALSE

SPECIFICATION Spec
CONSTANTS
  a1 = a1
  Agents = {a1, a2}
  Conductor = host
  Procs = {x1, x2}
  Urls = {u1}
  NULL = NULL
  Budgets <- AllBudgets
  Clients = {c1, c2}
  Boards = {b1}
  MainAgent <- OneAgent
  Numbers = {n1, n2}
  Uuids = {v1, v2, v3}
INVARIANTS TableIsTrue NoSharedNumber RowIsListed PortIsOwned RowIsPlugged
PROPERTY WaitEnds
CHECK_DEADLOCK FALSE

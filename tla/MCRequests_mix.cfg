SPECIFICATION FairSpec
CONSTANTS
  o1 = o1
  o2 = o2
  o3 = o3
  o4 = o4
  Ops = {o1, o2, o3, o4}
  Kind <- EachKind
  Mixes <- AloneOrTwo
  Agent = agent
  NULL = NULL
  MaxCrashes = 1
INVARIANTS CounterNeverLow PendingIsOwed
PROPERTIES ImplementsMain MainCompletes
CHECK_DEADLOCK FALSE

SPECIFICATION SchemaSpec
CONSTANTS
  Operators = {o1, o2}
  NONE = NONE
  MaxCrashes = 1
SYMMETRY Symmetry
INVARIANTS HeadIsModels VersionIsBehind UuidIsUnique
CHECK_DEADLOCK FALSE

SPECIFICATION Spec
CONSTANTS
  e1 = e1
  e2 = e2
  Symbols = {e1, e2}
  MaxLen = 5
  Dmaxs = {0, 1, 2, 3, 4}
INVARIANT SearchSafe
INVARIANT SnakeOptimal
INVARIANT ScriptTransforms
INVARIANT DistanceCorrect
PROPERTY Terminates
CHECK_DEADLOCK FALSE

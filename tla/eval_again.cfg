SPECIFICATION Spec
CONSTANT PathLen = 7
CONSTANT Room = {3, 9}
CONSTANT LineLen = 5
CONSTANT BufSize = {3, 10}
CONSTANT Columns = {1, 4}
CONSTANT Number = {0, 2, 3}
CONSTANT Operator = {"|", "+", "-", "*", "/"}
CONSTANT ExprLen = 5
CONSTANT ReuseLen = 3
CONSTANT MaxLeft = 2
CONSTANT Word = 4
CONSTANT BitOr <- MCOr
CONSTANT BitAnd <- MCAnd
CONSTANT BitXor <- MCXor
CONSTANT TextLen = 4
CONSTANT Extra <- MCExtra
CONSTANT Environ <- MCEnviron
CONSTANT Query <- MCQuery
CONSTANT MaxEvents = 5
CONSTANT StackMax = 3
INVARIANT EvalReusable
CHECK_DEADLOCK FALSE

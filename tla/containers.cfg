SPECIFICATION Spec
CONSTANT Elem = {"x", "y"}
CONSTANT Chunk = 2
CONSTANT StackMax = 8
CONSTANT MaxItems = 8
CONSTANT Node <- MCNode
CONSTANT Datum = {1, 2}
CONSTANT ListMax = 4
CONSTANT CacheSize = 2
CONSTANT Key <- MCKey
CONSTANT Value = {"v"}
CONSTANT Hash <- MCHash
CONSTANT TableSizes <- MCTableSizes
CONSTANT High = 100
CONSTANT Low = 25
CONSTANT Written = {1}
CONSTANT InitSize = 1
CONSTANT Bins = 3
CONSTANT Hdr = 2
CONSTANT MemSize = 53
CONSTANT POff = 2
CONSTANT MinCell = 4
CONSTANT Request = {1, 5, 9}
CONSTANT PoolMax = 5
CONSTANT InitVal = 1
CONSTANT Cond = {"c", "d"}
CONSTANT MaxVal = 1
CONSTANT MsgList <- MCMsgList
CONSTANT NumLists = 4
CONSTANT CodeHigh = 16
INVARIANT StackFaithful
INVARIANT ListFaithful
INVARIANT MapFaithful
INVARIANT VarrayFaithful
INVARIANT SubaSound
INVARIANT PoolSound
INVARIANT MsgnoUnique
CHECK_DEADLOCK FALSE

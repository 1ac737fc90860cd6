SPECIFICATION ShoSpec
CONSTANT Pattern <- MCPattern
CONSTANT BufLen = 3
CONSTANT Byte = {"a", "b", "c"}
CONSTANT Output = 4
CONSTANT Typed = 1
CONSTANT MaxTyped = 2
INVARIANT MatchesFirst
INVARIANT AlarmsOwned
PROPERTY ReturnsUnlessLost

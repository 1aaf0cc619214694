SPECIFICATION Spec
CONSTANTS
  c1 = c1 c2 = c2 s1 = s1 s2 = s2
  Clients <- TwoClients
  Scopes <- TwoScopes
  Seed <- LargeForest
  MaxNodes = 4
  MaxOps = 2
  Temp = 100
  NoNode = NoNode
VIEW LiveState
SYMMETRY Interchange
INVARIANTS NumberingSound QueriesMatchForest
PROPERTY ImplementsOrderedForest
CHECK_DEADLOCK FALSE

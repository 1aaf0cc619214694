SPECIFICATION Spec
CONSTANTS
  a = a b = b k1 = k1 t1 = t1 t2 = t2
  Processes <- TwoProcesses
  NoKey = NoKey
  Keys <- OneKey
  Tags <- TwoTags
  Prefixes <- EachPrefix
SYMMETRY Interchange
INVARIANTS TagsReachValues InvalidationReaches

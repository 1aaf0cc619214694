SPECIFICATION Spec
CONSTANTS
  a = a b = b c = c k1 = k1 k2 = k2 t1 = t1 t2 = t2
  Threads <- TwoThreads
  Keys <- TwoKeys
  Tags <- TwoTags
SYMMETRY Interchange
INVARIANTS EntriesStayTagged StaleOnlyIfRaced

SPECIFICATION Spec
CONSTANTS
  c1 = c1 c2 = c2 c3 = c3 x1 = x1 x2 = x2 x3 = x3 r1 = r1 r2 = r2 r3 = r3
  Callers <- ThreeCallers
  Executors <- ThreeExecutors
  Sticky <- OneSticky
  Conns <- ThreeConns
  None = None
  Max = 2
  MaxStatements = 2
  Faults <- CallFaults
SYMMETRY Interchange
INVARIANTS LeasesFollowTransactions TransactionIsWhole
PROPERTIES StickyKeepsLease UsesBoundedLeases

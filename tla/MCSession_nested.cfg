SPECIFICATION Spec
CONSTANTS
  e1 = e1 e2 = e2 k1 = k1 k2 = k2 va = va vb = vb
  Entities <- OneEntity
  Keys <- OneKey
  NoKey = NoKey
  Vals <- TwoValues
  NoVal = NoVal
  NoEntity = NoEntity
  NoEntry = NoEntry
  NoTx = NoTx
  MaxDepth = 2
  MaxSavepoints = 1
  MaxEvents = 2
  Faults <- FaultKinds
  Calls <- HooksAndDisciplined
SYMMETRY Interchange
INVARIANTS ScopesBalanced EventsAreExact
PROPERTIES ScopeFailureRestores ImplementsNestedTransactions DoomedNeverDurable

SPECIFICATION Spec
CONSTANTS
  e1 = e1 e2 = e2 k1 = k1 k2 = k2 va = va vb = vb
  Entities <- TwoEntities
  Keys <- TwoKeys
  NoKey = NoKey
  Vals <- TwoValues
  NoVal = NoVal
  NoEntity = NoEntity
  NoEntry = NoEntry
  NoTx = NoTx
  MaxDepth = 1
  MaxSavepoints = 0
  MaxEvents = 0
  Faults <- AllButRollbackTo
  Calls <- Disciplined
SYMMETRY Interchange
INVARIANTS OriginalIsRow MemoryCoherent
PROPERTY CommitWritesEverything

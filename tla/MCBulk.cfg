SPECIFICATION FairSpec
CONSTANTS
  k1 = k1 k2 = k2 k3 = k3 va = va vb = vb
  Keys <- ThreeKeys
  Vals <- TwoValues
  Null = Null
  Absent = Absent
  Missing = Missing
  Idle = Idle
  Calls <- Explored
  Tables <- StartTables
  Workers <- ThreeWorkers
INVARIANTS SuccessIsWhole FailureIsClean
PROPERTY CallReturns
CHECK_DEADLOCK FALSE

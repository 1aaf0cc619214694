SPECIFICATION Spec
CONSTANTS
  t1 = t1 t2 = t2 t3 = t3
  r1 = r1 r2 = r2 r3 = r3 r4 = r4 r5 = r5
  Threads <- ThreeThreads
  Resources <- FiveResources
  None = None
  Max = 2
  Min = 1
  HasTimeout = TRUE
  HasReaper = TRUE
  Faults <- AdapterFaults
SYMMETRY ThreadSymmetry
INVARIANTS TypeOK CountersExact CapacityRespected OnePlaceEach DeadPoolStaysEmpty
PROPERTY ImplementsBoundedLeases

SPECIFICATION FairSpec
CONSTANTS
  t1 = t1 t2 = t2 t3 = t3
  r1 = r1 r2 = r2 r3 = r3 r4 = r4 r5 = r5
  Threads <- ThreeThreads
  Resources <- ThreeResources
  None = None
  Max = 1
  Min = 0
  HasTimeout = TRUE
  HasReaper = TRUE
  Faults <- DropReturns
PROPERTIES NoForgottenWaiter ShutdownCompletes

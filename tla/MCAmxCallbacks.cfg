SPECIFICATION Spec
CONSTANTS
  t1 = t1  t2 = t2
  v1 = v1  v2 = v2  f1 = f1  f2 = f2
  Threads <- TwoThreads
  Vms <- TwoVms
  SlotCount = 2
  Cips <- SomeCips
  NULL = NULL
SYMMETRY Symmetric
INVARIANTS SlotsExclusive FullOnlyIfFull PointerRunsItsFunction StopsForCause
PROPERTIES IsTable

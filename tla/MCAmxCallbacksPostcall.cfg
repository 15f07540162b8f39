SPECIFICATION Spec
CONSTANTS
  t1 = t1  t2 = t2
  v1 = v1  v2 = v2  f1 = f1  f2 = f2
  Threads <- TwoThreads
  Vms <- TwoVms
  SlotCount = 1
  Cips <- OneCip
  NULL = NULL
SYMMETRY Symmetric
INVARIANTS PostcallFollows

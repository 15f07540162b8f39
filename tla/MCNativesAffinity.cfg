\* The output of a set of the affinity that failed before it wrote any.
SPECIFICATION AllSpec
CONSTANTS
  Cells = 5
  Values = {0, 1, 2, 5}
  Results = {0, 2}
  Natives <- SomeNatives
  N = 2
  CellSize = 8
  MessageRoom = 6
  MaxArgs = 1
  NameRoom = 3
  MaxParams = 3
  NULL = NULL
  t1 = t1  t2 = t2
  Owner <- Owners
  ByteSize = 4
  Movers <- OneThread
  Processors <- TwoGroups
  UserAffinity <- BothOfGroup0
  U32 = 4
  MaxNesting = 3
  PciThreads <- OneThread
  Offsets <- SomeOffsets
  ConfigSize = 256
  Implemented <- SomeRegisters
  CellValues = {1, 2}
  Indices = {0, 1, 3, 4, 7, 8, 15, 16, 24}
  LastAddress = 4
  ByteRange = 3
INVARIANT FailedSetsAreTold
CHECK_DEADLOCK FALSE

\* Every image of MCAmxLoader behind a signature, and every way to damage
\* the signature of one.  A loader stops once it is destroyed.
CONSTANTS
  Binaries <- AllFiles
  TrustedKeys <- Keys
  SizeT = 8192
  BlobSize = 8
  Junk = Junk
  Images <- MCCode
  Natives = {"known"}
  U32 = 4096
  U64 = 65536
  HeaderSize = 60
  CellSize = 8
  PairSize = 16
  PtrSize = 8
  Align = 16
SPECIFICATION LoadSpec
INVARIANTS SignedIsAccepted HandlesBalanced ParsesOnlySigned
  WritesInRegion TablesComplete StackPlaced
CHECK_DEADLOCK FALSE

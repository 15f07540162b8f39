\* The final check of init against its comment.
CONSTANTS
  Images <- Files
  Natives = {"known"}
  U32 = 4096
  U64 = 65536
  HeaderSize = 60
  CellSize = 8
  PairSize = 16
  PtrSize = 8
  Align = 16
SPECIFICATION Spec
INVARIANTS NothingWentWrong
CHECK_DEADLOCK FALSE

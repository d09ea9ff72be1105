CONSTANTS
  Undef = Undef
  Data = {d1, d2}
  PtrRange = 4
  CntRange = 8
  Depth = 4
  FIFO_SIZE = 4
SPECIFICATION MinerSpec
INVARIANT PointersAgree
PROPERTIES IsQueue

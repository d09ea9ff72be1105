CONSTANTS
  Undef = Undef
  Data = {d1, d2}
  PtrRange = 4
  CntRange = 8
  Depth = 4
SPECIFICATION FairSpec
INVARIANTS TypeOK PointersAgree
PROPERTIES IsQueue HeadLeaves

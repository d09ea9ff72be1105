SPECIFICATION FairSpec
CONSTANTS
  Null = Null
  Undefined = Undefined
  None = None
  Names = {"bob"}
  Files <- MCFiles
  Energies = {0, 1}
  Rests = {0, 1}
  MaxCompiles = 2
CHECK_DEADLOCK FALSE
INVARIANTS Compiled Independent
PROPERTIES CompileEnds

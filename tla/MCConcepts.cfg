CONSTANTS
  Nobody = Nobody
  Laps = 3
  Goal = 2
  MaxOwn = 3
  Stock = 4
  Quit = 1
  Consumers = {0, 1, 2, 3}
  Pieces = 3
  Permits = 2
  Tasks = 4
  Workers = 3
  Distance = 2
  Pool = {"w1", "w2"}
  Submitted = 3
  Refused = Refused
  Work = 2
  Values = {1, 2, 3}
  TreeChanges = 5
  VectorChanges = 4
  Sizes = {1, 2, 4}
  Prices = {1, 2}
  Incoming = 3
  Genes <- MCGenes
  Strings <- MCStrings
  NumGenes = 3
  Queries = 2
  Elements = {1, 2}
  MaxSize = 5
  MaxList = 6
  Unsorted <- MCUnsorted
  Length = 9
  minPerThread = 3
  MaxDepth = 1
  MIN_ELEMENT_COUNT = 2
  sMinBlockSize = 2
  hardware_concurrency = 3
  Limit = 3
  Lengths = {0, 1, 8, 13, 14, 15, 16, 17, 20, 29, 30, 31, 32}
  NonceBits = 2
  Nbits <- MCNbits
SPECIFICATION Spec
INVARIANTS Results Exclusive Computed
PROPERTIES Ends

CONSTANTS
  MemSize = 16
  AddrRange = 128
  Unknown = Unknown
  Default = Default
  Zero = Zero
  LenRange = 16
  Txns <- TwoLengths
  MaxTxns = 2
  MaxResets = 0
  AwSize = 2
  ArSize = 2
  BReady <- Always
  RReady <- Always
SPECIFICATION Spec
INVARIANT MemMatches

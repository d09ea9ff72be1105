CONSTANTS
  MemSize = 16
  AddrRange = 128
  Unknown = Unknown
  Default = Default
  Zero = Zero
  LenRange = 4
  Txns <- Mixed
  MaxTxns = 2
  MaxResets = 1
  AwSize = 2
  ArSize = 2
  BReady <- Sometimes
  RReady <- Always
SPECIFICATION FairSpec
INVARIANTS MemMatches DataMatched BeatsDelivered ResponseAfterData
PROPERTIES OneEvaluation TxnEnds

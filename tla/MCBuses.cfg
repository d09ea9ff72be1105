CONSTANTS
  X = X
  Z = Z
  Bits = 3
  MaxWords = 2
  MaxResets = 1
  Quarter = 3
  Width = 3
  Requests <- MCRequests
  MaxRequests = 3
  MaxBusResets = 1
  MemSize = 16
  Addresses = {0, 1, 6, 13, 16}
  MaxTransfers = 3
  MaxApbResets = 1
  Lanes = 2
  Bursts <- MCBursts
  IncrLimit = 3
  Rounds = 4
  WriteIndices = {0, 3, 4}
  ReadIndices = {1, 4}
SPECIFICATION Spec
INVARIANTS Exchanged Remembered Restored
PROPERTIES Answered

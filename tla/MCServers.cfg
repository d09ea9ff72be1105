CONSTANTS
  Nobody = Nobody
  Sessions = 2
  Polls = 1
  Producers = 2
  ReadMax = 2
  Clients = 2
  Bytes = 2
  Buffer = 2
  Addresses = 2
  Visitors = 2
  Long = 120
  MaxBufLen = 100
  Inquiries = 2
  RxBufferSize = 3
  Arrivals = 4
  Message = 5
  Chunk = 2
SPECIFICATION Spec
INVARIANTS Graceful Delivered Reaped
PROPERTIES Ends

CONSTANTS
  b1 = b1
  b2 = b2
  renderer = renderer
  NoBuffer = NoBuffer
  Buffers <- MCBuffers
  NumProcs = 2
  Releasers <- AllThreads
  StopMayTimeOut = TRUE
  MaxHolds = 1
SPECIFICATION WatchedSpec
SYMMETRY BufferSymmetry
INVARIANTS TypeOK NoBufferLost PendingBitHasHolder
PROPERTIES ImplementsPool

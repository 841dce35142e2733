CONSTANTS
  b1 = b1
  b2 = b2
  renderer = renderer
  NoBuffer = NoBuffer
  Buffers <- MCBuffers
  NumProcs = 2
  Releasers <- TwoThreads
  StopMayTimeOut = FALSE
  MaxHolds = 1
SPECIFICATION Spec
INVARIANT NoWriteWhileHeld
CHECK_DEADLOCK FALSE

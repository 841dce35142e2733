CONSTANTS
  b1 = b1
  b2 = b2
  renderer = renderer
  NoBuffer = NoBuffer
  Buffers <- MCBuffers
  NumProcs = 2
  Releasers <- MainAndFrame
  StopMayTimeOut = FALSE
  MaxHolds = 1
SPECIFICATION FairSpec
INVARIANTS TeardownAfterThread
PROPERTIES EveryBufferReturns StopTerminates
CHECK_DEADLOCK FALSE

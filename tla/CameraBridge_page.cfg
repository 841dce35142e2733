CONSTANTS
  b1 = b1
  b2 = b2
  NoBuffer = NoBuffer
  Freed = Freed
  Buffers <- TwoBuffers
  FrameSizes <- OneSize
  HeaderSize = 56
  Word = 4096
  MaxBytes = 72
  MaxEvents = 2
  MaxSignals = 1
  MaxDepth = 3
SPECIFICATION Spec
INVARIANTS TypeOK OneHolder RecordingNeedsStream FileConsistent PageInStep NoLockCycle
SYMMETRY BufferSymmetry

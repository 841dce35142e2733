CONSTANTS
  b1 = b1
  b2 = b2
  b3 = b3
  c1 = c1
  c2 = c2
  NoBuffer = NoBuffer
  Buffers <- TwoBuffers
  Clients <- OneClient
  MaxInFlight = 2
SPECIFICATION Spec
INVARIANT RawDataValid

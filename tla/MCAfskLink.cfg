SPECIFICATION MCSpec
CONSTANTS
  Frames <- MCFrames
  TxDelay = 4
  TxTail = 5
  BufferSize = 16
  Latency = 1
  MaxQueue = 1
  MaxPacket = 4
  MaxSends = 3
INVARIANTS
  HeardAsConfigured
  KeyedForAReason

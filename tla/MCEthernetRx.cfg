CONSTANTS
  RxSlots = 2
  CounterMod = 1
  ETH_HEADER_BYTES = 2
  MAX_ETH_PAYLOAD_BYTES = 2
  FcsBytes = 2
  PreambleCountMax = 1
  ByteIndexMod = 7
  Frames <- MCFrames
SPECIFICATION WireSpec
INVARIANTS
  TypeOK
  AdmittedFrameOwnsSlot
PROPERTIES
  PublishedStays
  PublishedIffClean
  PublishedIsTheFrame
  RingIsFifo

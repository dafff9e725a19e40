CONSTANTS
  TxSlots = 3
  CounterMod = 1
  TX_FRAME_BODY_BYTES = 4
  MaxBodyLen = 7
  MIN_ETH_FRAME_BODY_BYTES = 3
  SfdIndex = 1
  IFG_NIBBLES = 3
  Bodies <- MCBodies
SPECIFICATION WireSafety
INVARIANTS
  TxTypeOK
  FramerOwnsReadSlot
  ToggleCountsFrames
PROPERTIES
  SlotHeldUntilGapEnds
  FrameIsTheHeadPacket
  FreedOnlyWhenReceived
  GapIsKept
  ToggleFlipsWithFrame
  TxRingIsFifo

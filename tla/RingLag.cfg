CONSTANTS
  Slots = 3
  CounterMod = 2
  Lag = 2
  FrameCycles = 2
  Packet = {a, b}
SPECIFICATION Spec
PROPERTIES
  LateRingIsFifo
  AdmittedIsPublished

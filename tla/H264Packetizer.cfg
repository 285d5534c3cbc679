SPECIFICATION Spec

CONSTANTS
  FrameSizes = {0, 1, 3, 4, 5, 6, 7, 8, 9, 10, 11, 12}
  MaxPayload = 5
  HeadSize = 2
  BufferSize = 8
  MaxClock = 3

INVARIANTS
  TypeOK
  PacketsFit
  FragmentsTile
  FlagsDelimit

PROPERTIES
  HandleFrameReturns

SPECIFICATION Spec
CHECK_DEADLOCK FALSE

CONSTANTS
  Dialogue <- Begin
  Window = 1
  RtcpLengths = {"short"}
  MaxRtcp = 0
  MaxMessage = 24

PROPERTIES
  EveryRequestAnswered

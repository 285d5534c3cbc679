SPECIFICATION Spec
CHECK_DEADLOCK FALSE

CONSTANTS
  Dialogue <- Session
  Window = 3
  RtcpLengths = {"short", "long", "wrapped"}
  MaxRtcp = 2
  MaxMessage = 10

INVARIANTS
  TypeOK
  AnswersMatch

PROPERTIES
  WholeRequestAnswered

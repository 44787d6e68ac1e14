SPECIFICATION Spec

CONSTANTS
  a = a
  b = b
  NL = NL
  NUL = NUL
  Letter <- MCLetter
  Burst <- MCBurst
  USERBUF_SIZE = 5
  UINT_RANGE = 16
  ManyLinesLimit = 5

PROPERTIES
  LinesDelivered

CHECK_DEADLOCK FALSE

SPECIFICATION Spec

CONSTANTS
  a = a
  b = b
  NL = NL
  NUL = NUL
  Letter <- MCLetter
  Burst <- MCBurst
  USERBUF_SIZE = 7
  UINT_RANGE = 32
  ManyLinesLimit = 4

INVARIANTS
  TypeOK
  NothingLeftBehind

PROPERTIES
  LinesDelivered

CHECK_DEADLOCK FALSE

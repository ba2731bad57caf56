CONSTANTS
  Total = 8
  Sizes <- MCSizes
  BufSizes <- MCBufSizes
  MinCap = 2
  AllocLimit = 3
  Slack <- MCSlack
SPECIFICATION Spec
CHECK_DEADLOCK FALSE
INVARIANTS
  LenExact
  AllocBounded
PROPERTIES
  ImplementsStream
  ReadEnds

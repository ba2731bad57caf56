CONSTANTS
  Radix <- MCRadix
  LenRadix <- MCLenRadix
  NegFixedNumLow <- MCNegFixedNumLow
  Precision32 <- MCPrecision32
  Precision64 <- MCPrecision64
  Integers64 <- MCIntegers
  Halves <- MCHalves
  Lengths <- MCLengths
  Garbage <- MCGarbage
  Dests <- MCDests
SPECIFICATION Spec
CHECK_DEADLOCK FALSE
INVARIANTS
  IntRoundTrip
  FloatRoundTrip
  FloatInsideRange
  LenRoundTrip

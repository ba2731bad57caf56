CONSTANTS
  Radix <- MCRadix
  LenRadix <- MCLenRadix
  NegFixedNumLow <- MCNegFixedNumLow
  Precision32 <- MCPrecision32
  Precision64 <- MCPrecision64
  Integers64 <- MCIntegers
  Halves <- MCHalves
  Lengths <- MCLengths
  Garbage <- MCGarbage
  Dests <- Ints64
SPECIFICATION Spec
CHECK_DEADLOCK FALSE
INVARIANTS
  FloatIntoInt

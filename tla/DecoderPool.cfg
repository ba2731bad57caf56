CONSTANTS
  Goroutines = {g1, g2}
  Decoders = {d1, d2, d3}
  Readers = {r1, r2, r3}
  Inputs = {in1, in2}
  DefaultDepth = 3
  Depths = {0, 2}
  MaxPooledBufSize = 1
  BufSizes = {2}
  NoReader = NoReader
  NoInput = NoInput
  MaxNesting = 1
  MaxCalls = 3
SPECIFICATION Spec
SYMMETRY MCSymmetry
INVARIANTS Isolation DefaultOptions NothingRetained
CHECK_DEADLOCK FALSE

CONSTANTS
  Goroutines = {g1, g2}
  Encoders = {e1, e2, e3}
  SmallArrays = {s1, s2, s3}
  BigArrays = {b1, b2}
  Arrays = {s1, s2, s3, b1, b2}
  Capacity <- MCCapacity
  InitialCap = 1
  MaxPooledBufSize = 1
  NoArray = NoArray
  MaxItems = 2
  MaxNesting = 1
  MaxCalls = 3
SPECIFICATION Spec
SYMMETRY MCSymmetry
INVARIANTS ReturnedIntact DefaultOptions
CHECK_DEADLOCK FALSE

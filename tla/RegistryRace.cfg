CONSTANTS
  Goroutines = {g1, g2}
  Values <- MCValues
  Pointers <- MCPointers
  ElemOf <- MCElemOf
  Hooks <- MCHooks
  Ids = {"id1"}
  TimeId = "timeExtID"
  TimeType = "Time"
  Registrable <- MCRegistrable
  UserTypes <- MCUserTypes
  Exclusive = FALSE
  MaxOps = 4
SPECIFICATION Spec
SYMMETRY Symmetric
CHECK_DEADLOCK FALSE
INVARIANT InForce

CONSTANTS
  Goroutines = {g1, g2}
  Values <- MCValues
  Pointers <- MCPointers
  ElemOf <- MCElemOf
  Hooks <- MCHooks
  Ids = {"id1", "id2"}
  TimeId = "timeExtID"
  TimeType = "Time"
  Registrable <- MCRegistrable
  UserTypes <- MCUserTypes
  Exclusive = TRUE
  MaxOps = 3
SPECIFICATION Spec
CHECK_DEADLOCK FALSE
INVARIANTS
  Transparent
  MapsAgree
SYMMETRY Symmetric

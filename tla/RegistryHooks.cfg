CONSTANTS
  Goroutines = {g1}
  Values <- MCValues
  Pointers <- MCPointers
  ElemOf <- MCElemOf
  Hooks <- MixedHooks
  Ids = {"id1"}
  TimeId = "timeExtID"
  TimeType = "Time"
  Registrable = {}
  UserTypes = {}
  Exclusive = TRUE
  MaxOps = 4
SPECIFICATION Spec
CHECK_DEADLOCK FALSE
INVARIANT Transparent

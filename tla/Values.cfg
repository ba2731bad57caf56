CONSTANTS
  Setups <- MCSetups
  Sendable <- MCSendable
  Start <- MCStart
  Foreign <- MCForeign
  Orders <- MCOrders
  AllocLimit = 1
  ArrayLen = 2
  MaxMessages = 2
SPECIFICATION Spec
CHECK_DEADLOCK FALSE
INVARIANTS
  Overwrites
  AllocBounded
  Deterministic
  NestingLimited
  NeverPanics

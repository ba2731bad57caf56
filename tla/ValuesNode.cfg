CONSTANTS
  Setups <- MCSetups_Node
  Sendable <- MCSendable_Node
  Start <- MCStart
  Foreign <- MCForeign
  Orders <- MCOrders
  AllocLimit = 1
  ArrayLen = 2
  MaxMessages = 2
SPECIFICATION Spec
CHECK_DEADLOCK FALSE
INVARIANT NestingLimited

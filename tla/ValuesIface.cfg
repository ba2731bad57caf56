CONSTANTS
  Setups <- MCSetups_Iface
  Sendable <- MCSendable_Any
  Start <- MCStart
  Foreign <- MCForeign
  Orders <- MCOrders
  AllocLimit = 1
  ArrayLen = 2
  MaxMessages = 2
SPECIFICATION Spec
CHECK_DEADLOCK FALSE
INVARIANT NeverPanics

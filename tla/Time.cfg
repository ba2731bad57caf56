CONSTANTS
  Word <- MCWord
  NsPerSec = 3
  ZeroSec <- MCZeroSec
  Times <- MCTimes
  Foreign <- MCForeign
  MaxItems = 3
SPECIFICATION Spec
CHECK_DEADLOCK FALSE
INVARIANTS
  TimeRoundTrip

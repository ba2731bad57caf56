SPECIFICATION Spec
CONSTANTS
  Inputs <- MCInputs
  Configs <- MCConfigs
  DefaultDepthLimit = 3
  AllocLimit = 1
  ExtIDs = {1}
INVARIANTS
  TypeOK
  DepthOK
  RecCleared
  RawIsConsumed
  AllocBounded
  Framing
  Completeness
  Rejection
PROPERTY
  CallsReturn

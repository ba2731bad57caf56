CONSTANTS
  Embeddable <- MCEmbeddable
  Custom = {"K"}
  StructTypes <- PrivateTypes
SPECIFICATION Spec
CHECK_DEADLOCK FALSE
INVARIANT NeverPanics

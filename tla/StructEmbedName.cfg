CONSTANTS
  Embeddable <- MCEmbeddable
  Custom = {"K"}
  StructTypes <- NameTypes
SPECIFICATION Spec
CHECK_DEADLOCK FALSE
INVARIANT RoundTripAlways

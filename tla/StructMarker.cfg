CONSTANTS
  Embeddable <- MCEmbeddable
  Custom = {"K"}
  StructTypes <- MarkerTypes
SPECIFICATION Spec
CHECK_DEADLOCK FALSE
INVARIANT MarkerApplies

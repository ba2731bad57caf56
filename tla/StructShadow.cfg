CONSTANTS
  Embeddable <- MCEmbeddable
  Custom = {"K"}
  StructTypes <- ShadowTypes
SPECIFICATION Spec
CHECK_DEADLOCK FALSE
INVARIANT NamesOnce

CONSTANTS
  Embeddable <- MCEmbeddable
  Custom = {"K"}
  StructTypes <- MCStructTypes
SPECIFICATION Spec
CHECK_DEADLOCK FALSE
INVARIANTS
  TypeOK
  RoundTrip
  Accepted
  NothingForgotten

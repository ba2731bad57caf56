SPECIFICATION Spec
CONSTANTS
  Streams <- MCStreams
  Paths <- MCPaths
  Numerals <- MCNumerals
  Atoi <- MCAtoi
CHECK_DEADLOCK FALSE
INVARIANTS
  QueryCorrect
PROPERTY
  Terminates

SPECIFICATION Spec
CONSTANTS
  Streams <- MCNestedStreams
  Paths <- MCNestedPaths
  Numerals <- MCNumerals
  Atoi <- MCAtoi
CHECK_DEADLOCK FALSE
INVARIANT
  QueryCorrect

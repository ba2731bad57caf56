SPECIFICATION Spec
CONSTANTS
  Strings <- MCStrings
  Long <- MCLong
  Empty = ""
  Seeds <- MCSeeds
  Flags = {FALSE}
  Kinds <- MCBytesKinds
  MaxUint8 = 0
  MaxUint16 = 2
  MaxUint32 = 100
  MaxDictLen = 2
  MaxItems = 3
CHECK_DEADLOCK FALSE
INVARIANTS
  DictsAgree

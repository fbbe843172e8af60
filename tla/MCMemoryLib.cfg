CONSTANTS
  Size = 4
  Byte = 3
  Fills <- MCFills
SPECIFICATION FairSpec
INVARIANTS Moved Filled Compared
PROPERTIES CallsReturn

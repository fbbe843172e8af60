CONSTANTS
  Word = 64
  Align = 4
  Hdr = 6
  HeapBase = 8
  Entry = 6
  Maps <- MCMaps
SPECIFICATION Spec
INVARIANTS TableNotNull
CHECK_DEADLOCK FALSE

CONSTANTS
  Raised <- MCRaised
  MaxDepth = 3
  HalfWord = 8
  Address <- MCAddress
SPECIFICATION Spec
INVARIANTS FrameTellsContext
CHECK_DEADLOCK FALSE

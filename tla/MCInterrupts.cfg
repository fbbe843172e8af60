CONSTANTS
  Raised <- MCRaised
  MaxDepth = 3
  HalfWord = 8
  Address <- MCAddress
SPECIFICATION FairSpec
INVARIANTS IInv GatesReady FrameTellsVector CallAligned ContextRestored
PROPERTIES BootEnds
CHECK_DEADLOCK FALSE

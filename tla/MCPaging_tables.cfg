CONSTANTS
  Entries = 2
  FieldSize = 16
  PageSize = 2
  ShiftSize = 32
  Ram <- MCRam
  Boots <- MCBoots
  Blocks <- MCBlocks
  Pages <- MCPages
  Targets = {8}
  Flags = {2}
SPECIFICATION Spec
INVARIANTS FramesArePhysical
CHECK_DEADLOCK FALSE

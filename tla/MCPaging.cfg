CONSTANTS
  Entries = 2
  FieldSize = 16
  PageSize = 2
  ShiftSize = 32
  Ram <- MCRam
  Boots <- MCBoots
  Blocks <- MCBlocks
  Pages <- MCPages
  Targets = {9}
  Flags = {0, 130}
SPECIFICATION Spec
INVARIANTS IInv MappedAsAsked OthersKept StoresHitTables TLBFresh PhysicalAgrees
CHECK_DEADLOCK FALSE

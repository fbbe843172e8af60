CONSTANTS
  Word = 64
  Align = 4
  Hdr = 6
  HeapBase = 8
  HeapSizes <- MCHeapSizes
  Requests <- MCRequests
SPECIFICATION FairSpec
INVARIANTS Tiled LiveIntact NoLostBlock HeapRecovered FirstFit CopyInBounds IInv
PROPERTIES CallsReturn ImplementsAllocSpec

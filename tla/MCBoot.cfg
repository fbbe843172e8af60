CONSTANTS
  Word = 64
  Align = 4
  Hdr = 6
  HeapBase = 8
  Entry = 6
  Maps <- MCMaps
  Text <- MCText
  LineStates <- MCLineStates
  HandlerText = "irq"
  MaxIrqs = 3
SPECIFICATION Spec
INVARIANTS IInv NoOverrun KmainLogIntact CompletedIsTrue
PROPERTIES FaultReported Settles
CHECK_DEADLOCK FALSE

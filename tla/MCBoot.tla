------------------------------- MODULE MCBoot -------------------------------
(***************************************************************************)
(* Boot with strings of one or two characters, in the units of MCKmem.     *)
(* The maps: a heap with room, no usable region (an error), a region with  *)
(* room for the unrounded table only (a null pointer), a frame buffer.     *)
(***************************************************************************)
EXTENDS Boot

MCText ==
  [Hi |-> <<"H", "i", NUL>>, Device |-> <<"D", "e", NUL>>, IDT |-> <<"I", "T", NUL>>,
   completed |-> <<"c", "o", NUL>>, dead |-> <<"d", "a", NUL>>, irq |-> <<"q", "r", NUL>>]

MCLineStates ==
  [ier : {5}, lcr : {0, 131}, dll : {1}, dlm : {0, 1}, fifoOn : BOOLEAN, mcr : {0},
   fifo : {<<>>, <<Char("x", "loader")>>}]

Region(k, t, l) == [base |-> k, length |-> l, type |-> t]
MCMaps ==
  {<<Region(1, "RESERVED", 12)>>, <<Region(1, "USABLE", 12)>>, <<Region(1, "USABLE", 36)>>,
   <<Region(1, "FRAMEBUFFER", 12), Region(2, "USABLE", 24)>>,
   <<Region(1, "EXECUTABLE_AND_MODULES", 12), Region(2, "USABLE", 24), Region(3, "ACPI_NVS", 12)>>}
==============================================================================

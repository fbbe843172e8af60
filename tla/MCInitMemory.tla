---------------------------- MODULE MCInitMemory ----------------------------
(***************************************************************************)
(* All memory maps of at most three regions, in units of four bytes as in  *)
(* MCKmem, with a page of 12 units: every relation between the number of   *)
(* regions and the length of the largest one occurs; 60 units from HeapBase*)
(* wrap.                                                                   *)
(***************************************************************************)
EXTENDS InitMemory

MCTypes == {"RESERVED", "BOOTLOADER_RECLAIMABLE", "ACPI_NVS", "EXECUTABLE_AND_MODULES",
            "FRAMEBUFFER"}
MCKinds == [type : {"USABLE"}, length : {12, 24, 36, 60}] \cup [type : MCTypes, length : {12}]

MCMaps ==
  {[k \in 1 .. n |-> [base |-> k, length |-> kinds[k].length, type |-> kinds[k].type]] :
     n \in 0 .. 3, kinds \in [1 .. 3 -> MCKinds]}
==============================================================================

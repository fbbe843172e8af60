---------------------------- MODULE MCMemoryLib ----------------------------
(***************************************************************************)
(* Memory of four bytes: ranges of every length that are apart, touch,     *)
(* overlap either way, coincide or are empty.  Three values of a byte, the *)
(* largest of which is negative as a signed one.                           *)
(***************************************************************************)
EXTENDS MemoryLib

MCFills == {-1, 4}
==============================================================================

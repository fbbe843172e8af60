------------------------------- MODULE MCKmem -------------------------------
(***************************************************************************)
(* Small instances of Kmem.  One unit stands for four bytes of the x64     *)
(* build: a 24-byte header is 6 units, the 16-byte alignment is 4.         *)
(***************************************************************************)
EXTENDS Kmem

MCHeapSizes == {6, 31, 36}
MCRequests == {0, 3, 5, 10}
==============================================================================

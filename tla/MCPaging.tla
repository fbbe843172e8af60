------------------------------ MODULE MCPaging ------------------------------
(***************************************************************************)
(* Paging with tables of two entries.  Frame 1 is the root; 2, 3 and 4 are *)
(* the tables below it; 5 is a directory with a large page at 6 and 7 and  *)
(* a table at 10.                                                          *)
(***************************************************************************)
EXTENDS Paging

MCRam == 0 .. 10

Absent ==
  [present |-> 0, writable |-> 0, userAccessible |-> 0, writeThroughCaching |-> 0,
   disableCache |-> 0, pat |-> 0, global |-> 0, noExecute |-> 0, frame |-> 0]
To(frame) == [Absent EXCEPT !.present = 1, !.writable = 1, !.frame = frame]
LargeAt(frame) == [To(frame) EXCEPT !.pat = 1]

(* One page is mapped; its neighbour is not; two of the paths end early.   *)
MCMem ==
  [f \in MCRam |-> [x \in 0 .. 1 |->
     CASE f = 1 /\ x = 0 -> To(2)
       [] f = 2 /\ x = 0 -> To(3)
       [] f = 2 /\ x = 1 -> To(5)
       [] f = 3 /\ x = 0 -> To(4)
       [] f = 4 /\ x = 0 -> To(8)
       [] f = 5 /\ x = 0 -> LargeAt(6)
       [] f = 5 /\ x = 1 -> To(10)
       [] OTHER -> Absent]]

(* All memory but page 0 accessible at its own address, and none.          *)
MCBoots ==
  {[mem |-> MCMem, cr3 |-> 1, reach |-> r] : r \in {MCRam \ {0}, {}}}

(* The heap lies at the top of the address space: its pages do not fit in  *)
(* the field.  kmalloc may also return NULL.                               *)
MCBlocks ==
  {[page |-> 30, offset |-> 1, frame |-> 9], [page |-> 0, offset |-> 0, frame |-> 0]}

Mapped == <<0, 0, 0, 0>>
Neighbour == <<0, 0, 0, 1>>
NoTable == <<0, 0, 1, 0>>
NoPointerTable == <<1, 0, 0, 0>>
InLarge == <<0, 1, 0, 0>>
Elsewhere == <<0, 1, 1, 0>>

MCPages == {Mapped, Neighbour, NoTable, NoPointerTable, InLarge, Elsewhere}
==============================================================================

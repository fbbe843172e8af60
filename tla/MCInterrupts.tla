---------------------------- MODULE MCInterrupts ----------------------------
(***************************************************************************)
(* Interrupts with all 256 gates and one vector of each kind: the NMI, a   *)
(* trap, faults with and without an error code, two device interrupts.     *)
(***************************************************************************)
EXTENDS Interrupts

MCRaised == {2, 6, 14, 17, 32, 255}

(* Addresses of twelve bits in the upper half, half words of three bits.   *)
MCAddress == [v \in Vectors |-> 2048 + 7 * v]
==============================================================================

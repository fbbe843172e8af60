------------------------------ MODULE AllocSpec ------------------------------
(***************************************************************************)
(* What the kernel heap promises to its callers, without headers, free     *)
(* lists or splitting: an arena of bytes and a set of live allocations     *)
(* whose byte ranges lie in the arena and never overlap.  kmalloc grants   *)
(* a range, kfree gives one back, krealloc resizes in place or moves.      *)
(* A call that returns NULL leaves this state unchanged.                   *)
(* Module Kmem is shown to implement this specification.                   *)
(***************************************************************************)
EXTENDS Integers

CONSTANTS
  Arenas,     \* the [lo, hi] ranges the heap may be given
  Requests    \* the byte counts callers ask for

VARIABLES
  arena,      \* [lo, hi]: the bytes lo .. hi - 1; [0, 0] before initialisation
  held        \* live allocation |-> number of bytes granted

avars == <<arena, held>>

NoArena == [lo |-> 0, hi |-> 0]

Apart(p, n, q, m) == p + n <= q \/ q + m <= p

InArena(p, n) == arena.lo <= p /\ p + n <= arena.hi

AInit ==
  /\ arena = NoArena
  /\ held = [p \in {} |-> 0]

Open(a) ==
  /\ arena = NoArena
  /\ arena' = a
  /\ UNCHANGED held

(* The new range p .. p+n-1 is in the arena and apart from every live one. *)
Grantable(p, n) ==
  /\ p \notin DOMAIN held
  /\ InArena(p, n)
  /\ \A q \in DOMAIN held : Apart(p, n, q, held[q])

Grant(p, n) ==
  /\ Grantable(p, n)
  /\ held' = [q \in DOMAIN held \cup {p} |-> IF q = p THEN n ELSE held[q]]
  /\ UNCHANGED arena

GiveBack(p) ==
  /\ p \in DOMAIN held
  /\ held' = [q \in DOMAIN held \ {p} |-> held[q]]
  /\ UNCHANGED arena

(* Resizing in place keeps the range apart from every other live range.    *)
Resize(p, n) ==
  /\ p \in DOMAIN held
  /\ InArena(p, n)
  /\ \A q \in DOMAIN held \ {p} : Apart(p, n, q, held[q])
  /\ held' = [held EXCEPT ![p] = n]
  /\ UNCHANGED arena

(* A move needs the new range apart from the old one too: the payload is   *)
(* copied with memcpy, whose arguments must not overlap.                   *)
Move(p, q, n) ==
  /\ p \in DOMAIN held
  /\ Grantable(q, n)
  /\ held' = [r \in (DOMAIN held \ {p}) \cup {q} |-> IF r = q THEN n ELSE held[r]]
  /\ UNCHANGED arena

ANext ==
  \/ \E a \in Arenas : Open(a)
  \/ \E p \in arena.lo .. arena.hi, n \in Requests : Grant(p, n)
  \/ \E p \in DOMAIN held : GiveBack(p)
  \/ \E p \in DOMAIN held, n \in Requests : Resize(p, n)
  \/ \E p \in DOMAIN held, q \in arena.lo .. arena.hi, n \in Requests : Move(p, q, n)

ASpec == AInit /\ [][ANext]_avars
==============================================================================

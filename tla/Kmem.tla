-------------------------------- MODULE Kmem --------------------------------
(***************************************************************************)
(* The kernel heap of kernel/common/memory/pmmgr.c: a first-fit free-list  *)
(* allocator.  A block is a header (struct kmemBlock) followed by its      *)
(* payload; the headers form a singly linked list that starts at heapStart.*)
(* Every iteration of the search loop of kmalloc and of the coalescing     *)
(* loop of kfree is one step, so the list is traversed through its next    *)
(* pointers and the intermediate states of a call are states of the model. *)
(*                                                                         *)
(* Memory is kept as the function blocks from the address of a header that *)
(* is on the list to its three fields.  Payload bytes are not kept: that   *)
(* no payload overlaps a header or another payload is what is checked.     *)
(* The variable heapEnd of the C file is written once and never read, and  *)
(* is left out.  kfree(NULL) changes nothing and is a stuttering step.     *)
(***************************************************************************)
EXTENDS Integers, Functions

CONSTANTS
  Word,       \* 2^w: size_t and pointer arithmetic is modulo Word
  Align,      \* 16, the alignment of ALIGN16
  Hdr,        \* sizeof(struct kmemBlock), 24 on x64
  HeapBase,   \* the address kmemInit is given
  HeapSizes,  \* the sizes kmemInit may be given
  Requests    \* the sizes callers ask for

(* Words are as wide as the alignment mask and the header are, and the     *)
(* heap does not start at the null pointer.                                *)
ASSUME KmemConstants ==
  /\ Word \in Nat \ {0} /\ Align \in 1 .. Word - 1 /\ Hdr \in 1 .. Word - 1
  /\ HeapBase \in 1 .. Word - 1
  /\ HeapSizes \subseteq 0 .. Word - 1
  /\ Requests \subseteq 0 .. Word - 1

NULL == 0

VARIABLES
  heapStart,  \* the first header, NULL before kmemInit
  heapSize,   \* history: the size kmemInit was given
  blocks,     \* header address |-> [size, isFree, next]
  live,       \* history: pointers callers hold |-> the size they asked for
  pc,         \* where the running call is: "idle" between calls
  curr,       \* the loop cursor of kmalloc and kfree
  size,       \* kmalloc's rounded size
  req,        \* the size the caller asked for
  old         \* the block krealloc is moving, NULL in a plain kmalloc

heapVars == <<heapStart, heapSize, blocks>>
callVars == <<pc, curr, size, req, old>>
vars == <<heapVars, live, callVars>>

-----------------------------------------------------------------------------
(* size_t arithmetic, and the macro ALIGN16: add Align - 1, then clear the *)
(* low bits.                                                               *)

Wrap(n) == n % Word

ALIGN16_Truncates(n) == n - (n % Align)

ALIGN16(n) == LET m == Wrap(n + Align - 1) IN m - (m % Align)

Payload(b) == Wrap(b + Hdr)
BlockOf(p) == Wrap(p - Hdr)

Fits_IgnoresUse(b, n) == blocks[b].size >= n

Fits(b, n) == blocks[b].isFree /\ blocks[b].size >= n

(* The block is split only if a header fits in what would be left over.    *)
Splits(b, n) == blocks[b].size > Wrap(n + Hdr)

(* f with the value v at x, whether or not x was in its domain.            *)
With(f, x, v) == [y \in DOMAIN f \cup {x} |-> IF y = x THEN v ELSE f[y]]

(* f without x.                                                            *)
Without(f, x) == Restrict(f, DOMAIN f \ {x})

NoEntries == [x \in {} |-> 0]

(* kmalloc takes block b for n bytes.                                      *)
Split_ForgetsHeader(b, n) ==
  LET newBlock == Wrap(b + Hdr + n) IN
  With([blocks EXCEPT ![b] = [size |-> n, isFree |-> FALSE, next |-> newBlock]],
       newBlock,
       [size |-> Wrap(blocks[b].size - n), isFree |-> TRUE,
        next |-> blocks[b].next])

Split(b, n) ==
  LET newBlock == Wrap(b + Hdr + n) IN
  With([blocks EXCEPT ![b] = [size |-> n, isFree |-> FALSE, next |-> newBlock]],
       newBlock,
       [size |-> Wrap(blocks[b].size - n - Hdr), isFree |-> TRUE,
        next |-> blocks[b].next])

(* Writing the isFree field of block b.                                    *)
Mark(b, free) ==
  [blocks EXCEPT ![b] = [size |-> blocks[b].size, isFree |-> free, next |-> blocks[b].next]]

Take_SplitOnly(b, n) == IF Splits(b, n) THEN Split(b, n) ELSE blocks

Take(b, n) ==
  IF Splits(b, n) THEN Split(b, n) ELSE Mark(b, FALSE)

(* kfree merges the free block b with the free block after it: the header  *)
(* of the latter leaves the list and becomes payload of b.                 *)
Merge(b) ==
  LET n == blocks[b].next IN
  With(Without(blocks, n), b,
       [size |-> Wrap(blocks[b].size + Hdr + blocks[n].size), isFree |-> blocks[b].isFree,
        next |-> blocks[n].next])

-----------------------------------------------------------------------------
Init ==
  /\ heapStart = NULL /\ heapSize = 0
  /\ blocks = NoEntries
  /\ live = NoEntries
  /\ pc = "idle" /\ curr = NULL /\ size = 0 /\ req = 0 /\ old = NULL

(* The running call returns; its locals are gone.                          *)
Return ==
  /\ pc' = "idle" /\ curr' = NULL /\ size' = 0 /\ req' = 0 /\ old' = NULL

(* kmemInit(base, bytes), once at boot: one free block with the whole heap.*)
kmemInit(base, bytes) ==
  /\ pc = "idle" /\ heapStart = NULL
  /\ heapStart' = base /\ heapSize' = bytes
  /\ blocks' = With(NoEntries, base,
                    [size |-> Wrap(bytes - Hdr), isFree |-> TRUE, next |-> NULL])
  /\ UNCHANGED <<live, callVars>>

(* The common entry of kmalloc(n), for krealloc moving p when p # NULL.    *)
StartSearch(n, p) ==
  /\ pc' = "search" /\ curr' = heapStart
  /\ size' = ALIGN16(n) /\ req' = n /\ old' = p
  /\ UNCHANGED <<heapVars, live>>

(* kmalloc(n); krealloc(NULL, n) is the same call.                         *)
kmalloc(n) ==
  /\ pc = "idle"
  /\ StartSearch(n, NULL)

(* One iteration of the search loop: a block that does not fit is passed.  *)
SearchNext_NoExactFit ==
  /\ pc = "search" /\ curr # NULL
  /\ ~(Fits(curr, size) /\ blocks[curr].size > size)
  /\ curr' = blocks[curr].next
  /\ UNCHANGED <<heapVars, live, pc, size, req, old>>

SearchNext ==
  /\ pc = "search" /\ curr # NULL
  /\ ~Fits(curr, size)
  /\ curr' = blocks[curr].next
  /\ UNCHANGED <<heapVars, live, pc, size, req, old>>

(* The first block that fits is taken: split or whole, and marked used.    *)
TakeCurrent ==
  /\ pc = "search" /\ curr # NULL
  /\ Fits(curr, size)
  /\ blocks' = Take(curr, size)
  /\ UNCHANGED <<heapStart, heapSize>>

(* A plain kmalloc returns the payload of the block it took.               *)
SearchReturns ==
  /\ TakeCurrent
  /\ old = NULL
  /\ live' = With(live, Payload(curr), req)
  /\ Return

(* krealloc got the new block; it will copy the payload into it.           *)
SearchForMove ==
  /\ TakeCurrent
  /\ old # NULL
  /\ pc' = "copy"
  /\ UNCHANGED <<live, curr, size, req, old>>

(* No block fits: NULL.  A krealloc leaves the old allocation alone.       *)
SearchFails ==
  /\ pc = "search" /\ curr = NULL
  /\ Return
  /\ UNCHANGED <<heapVars, live>>

(* kfree up to its loop: mark the block free, start at the first block.    *)
Release(p) ==
  /\ blocks' = Mark(BlockOf(p), TRUE)
  /\ pc' = "coalesce" /\ curr' = heapStart
  /\ size' = 0 /\ req' = 0 /\ old' = NULL
  /\ UNCHANGED <<heapStart, heapSize>>

(* kfree(p) of a live p; krealloc(p, 0) is the same call.                  *)
kfree(p) ==
  /\ pc = "idle"
  /\ Release(p)
  /\ live' = Without(live, p)

(* krealloc(p, n) that fits in place: the block keeps its size.            *)
kreallocInPlace(p, n) ==
  /\ pc = "idle" /\ n # 0
  /\ blocks[BlockOf(p)].size >= n
  /\ live' = [live EXCEPT ![p] = n]
  /\ UNCHANGED <<heapVars, callVars>>

(* krealloc(p, n) that does not: kmalloc(n) first.                         *)
kreallocMove_Always(p, n) ==
  /\ pc = "idle" /\ n # 0
  /\ StartSearch(n, p)

kreallocMove(p, n) ==
  /\ pc = "idle" /\ n # 0
  /\ blocks[BlockOf(p)].size < n
  /\ StartSearch(n, p)

(* krealloc after a kmalloc that succeeded: memcpy of the old block's size *)
(* bytes, then kfree of the old block.  Its caller now holds the new one.  *)
KreallocCopy_Leaks ==
  /\ pc = "copy"
  /\ live' = With(Without(live, old), Payload(curr), req)
  /\ Return
  /\ UNCHANGED heapVars

KreallocCopy ==
  /\ pc = "copy"
  /\ live' = With(Without(live, old), Payload(curr), req)
  /\ Release(old)

(* The coalescing loop of kfree: while (curr && curr->next).               *)
Mergeable(b) == blocks[b].isFree /\ blocks[blocks[b].next].isFree

CoalesceMerge_Advances ==
  /\ pc = "coalesce" /\ curr # NULL /\ blocks[curr].next # NULL
  /\ Mergeable(curr)
  /\ blocks' = Merge(curr)
  /\ curr' = Merge(curr)[curr].next
  /\ UNCHANGED <<heapStart, heapSize, live, pc, size, req, old>>

CoalesceMerge ==
  /\ pc = "coalesce" /\ curr # NULL /\ blocks[curr].next # NULL
  /\ Mergeable(curr)
  /\ blocks' = Merge(curr)
  /\ UNCHANGED <<heapStart, heapSize, live, callVars>>

CoalesceNext_Stays ==
  /\ pc = "coalesce" /\ curr # NULL /\ blocks[curr].next # NULL
  /\ ~Mergeable(curr)
  /\ UNCHANGED vars

CoalesceNext ==
  /\ pc = "coalesce" /\ curr # NULL /\ blocks[curr].next # NULL
  /\ ~Mergeable(curr)
  /\ curr' = blocks[curr].next
  /\ UNCHANGED <<heapVars, live, pc, size, req, old>>

CoalesceEnd ==
  /\ pc = "coalesce"
  /\ curr # NULL => blocks[curr].next = NULL
  /\ Return
  /\ UNCHANGED <<heapVars, live>>

(* A call's own steps; the calls callers may make when none is running.    *)
Step ==
  \/ SearchNext \/ SearchReturns \/ SearchForMove \/ SearchFails
  \/ KreallocCopy
  \/ CoalesceMerge \/ CoalesceNext \/ CoalesceEnd

Call ==
  \/ \E bytes \in HeapSizes : kmemInit(HeapBase, bytes)
  \/ \E n \in Requests : kmalloc(n)
  \/ \E p \in DOMAIN live : kfree(p)
  \/ \E p \in DOMAIN live, n \in Requests : kreallocInPlace(p, n)
  \/ \E p \in DOMAIN live, n \in Requests : kreallocMove(p, n)

Next == Call \/ Step

Spec == Init /\ [][Next]_vars

(* The kernel runs a call to its end: there is one thread of execution, no *)
(* handler calls the allocator, and an interrupt returns to the call.      *)
FairSpec == Spec /\ WF_vars(Step)

-----------------------------------------------------------------------------
(* What kmemInit and kmalloc expect of their callers: a heap that holds at *)
(* least one header and ends below the top of the address space (an empty  *)
(* payload at its very end would otherwise have the address NULL), and     *)
(* requests that ALIGN16 does not wrap.                                    *)
CallerContract ==
  /\ \A bytes \in HeapSizes : Hdr <= bytes /\ HeapBase + bytes < Word
  /\ \A n \in Requests : n + Align <= Word

Header == [size : 0 .. Word - 1, isFree : BOOLEAN, next : 0 .. Word - 1]

(* Every variable has its type (pmmgr.h, struct kmemBlock).                *)
TypeOK ==
  /\ heapStart \in 0 .. Word - 1 /\ heapSize \in 0 .. Word - 1
  /\ DOMAIN blocks \subseteq 1 .. Word - 1
  /\ blocks \in [DOMAIN blocks -> Header]
  /\ DOMAIN live \subseteq 0 .. Word - 1
  /\ live \in [DOMAIN live -> Requests]
  /\ pc \in {"idle", "search", "copy", "coalesce"}
  /\ curr \in 0 .. Word - 1 /\ size \in 0 .. Word - 1
  /\ req \in 0 .. Word - 1 /\ old \in 0 .. Word - 1

HeapEnd == heapStart + heapSize
EndOf(b) == b + Hdr + blocks[b].size

(* The blocks on the list tile the heap: the first starts where the heap   *)
(* does, every other one starts where the one before it ends, the last     *)
(* ends where the heap does.  Splitting in kmalloc and merging in kfree    *)
(* lose no byte and never make two blocks overlap.                         *)
Tiled ==
  heapStart # NULL =>
    /\ heapStart \in DOMAIN blocks
    /\ \A b \in DOMAIN blocks :
         /\ heapStart <= b /\ EndOf(b) <= HeapEnd
         /\ blocks[b].next = IF EndOf(b) = HeapEnd THEN NULL ELSE EndOf(b)
         /\ blocks[b].next # NULL => blocks[b].next \in DOMAIN blocks
    /\ \A a, b \in DOMAIN blocks : a < b => EndOf(a) <= b

(* Every byte a caller asked for and got lies in the payload of a block    *)
(* that is on the list and marked used; with Tiled, writing there harms    *)
(* no header and no other caller.                                          *)
LiveIntact ==
  \A p \in DOMAIN live :
    /\ p - Hdr \in DOMAIN blocks
    /\ ~blocks[p - Hdr].isFree
    /\ live[p] <= blocks[p - Hdr].size

(* Between calls no block is lost: a block marked used is one that a       *)
(* caller still holds, so it can still be freed.  During the copy of a     *)
(* krealloc the block it just took is the only other used one.             *)
NoLostBlock ==
  \A b \in DOMAIN blocks :
    \/ blocks[b].isFree
    \/ b + Hdr \in DOMAIN live
    \/ pc = "copy" /\ b = curr

(* Between calls no two free blocks are neighbours: the single pass of     *)
(* kfree's loop coalesces everything, whichever block was freed, and no    *)
(* split of kmalloc leaves a free block before another one.                *)
FullyCoalesced ==
  pc # "coalesce" =>
    \A b \in DOMAIN blocks : blocks[b].next # NULL => ~Mergeable(b)

(* Nothing is fragmented for good: when all allocations have been given    *)
(* back, in whatever order and through whatever history of kmalloc, kfree  *)
(* and krealloc, the heap is the one block kmemInit made.                  *)
HeapRecovered ==
  pc = "idle" /\ live = NoEntries /\ heapStart # NULL =>
    blocks = With(NoEntries, heapStart,
                  [size |-> heapSize - Hdr, isFree |-> TRUE, next |-> NULL])

(* The search is first fit and its NULL means out of memory: no block the  *)
(* cursor has passed fits, and all of them have been passed at the end.    *)
FirstFit ==
  pc = "search" =>
    \A b \in DOMAIN blocks : (curr = NULL \/ b < curr) => ~Fits(b, size)

(* The memcpy of krealloc stays inside the new block and its two ranges    *)
(* do not overlap, as its restrict parameters demand.                      *)
CopyInBounds ==
  pc = "copy" =>
    LET from == old - Hdr IN
    /\ from \in DOMAIN blocks /\ curr \in DOMAIN blocks
    /\ blocks[from].size <= blocks[curr].size
    /\ EndOf(from) <= curr \/ EndOf(curr) <= from

(* Not a property of its own: what else holds at each point of a call, so  *)
(* that the conjunction IInv is kept by every step.                        *)
HeapShape ==
  /\ heapStart = NULL => blocks = NoEntries /\ live = NoEntries /\ heapSize = 0
  /\ heapStart # NULL => heapStart = HeapBase /\ heapSize \in HeapSizes

Outgrown(p, n) == p \in DOMAIN live /\ blocks[p - Hdr].size < n

SearchInv ==
  pc = "search" =>
    /\ curr \in DOMAIN blocks \cup {NULL}
    /\ req \in Requests /\ size = ALIGN16(req)
    /\ old # NULL => Outgrown(old, req)

CopyInv ==
  pc = "copy" =>
    /\ curr \in DOMAIN blocks /\ ~blocks[curr].isFree
    /\ curr + Hdr \notin DOMAIN live
    /\ req \in Requests /\ req <= blocks[curr].size
    /\ Outgrown(old, req)

CoalesceInv ==
  pc = "coalesce" =>
    /\ curr \in DOMAIN blocks \cup {NULL}
    /\ \A b \in DOMAIN blocks :
         (curr = NULL \/ b < curr) /\ blocks[b].next # NULL => ~Mergeable(b)

IInv ==
  /\ TypeOK /\ HeapShape
  /\ Tiled /\ LiveIntact /\ NoLostBlock /\ FullyCoalesced /\ FirstFit
  /\ SearchInv /\ CopyInv /\ CoalesceInv

(* A heap whose base is aligned hands out aligned payloads: the comment    *)
(* over ALIGN16, pmmgr.c:8, "Alignment to 16 bytes for safety".            *)
PayloadAligned ==
  heapStart % Align = 0 => \A p \in DOMAIN live : p % Align = 0

(* Every call returns: the two loops end.                                  *)
CallsReturn == pc # "idle" ~> pc = "idle"

(* The allocator implements what AllocSpec promises.                       *)
Arena == [lo |-> heapStart, hi |-> HeapEnd]
Abstract == INSTANCE AllocSpec WITH
  Arenas <- {[lo |-> HeapBase, hi |-> HeapBase + bytes] : bytes \in HeapSizes},
  arena <- Arena, held <- live
ImplementsAllocSpec == Abstract!ASpec
==============================================================================

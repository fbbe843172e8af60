----------------------------- MODULE Kmem_proofs -----------------------------
(***************************************************************************)
(* Proofs about Kmem for every word size, alignment, header size, heap and *)
(* set of requests that satisfy CallerContract.                            *)
(***************************************************************************)
EXTENDS Kmem, TLAPS

-----------------------------------------------------------------------------
(* Word arithmetic and function updates.                                   *)

(* Arithmetic that stays below the word size does not wrap.                *)
LEMMA WrapSmall == ASSUME NEW n \in 0 .. Word - 1 PROVE Wrap(n) = n
  BY KmemConstants, SMT DEF Wrap

(* ALIGN16 rounds a request within the contract up, never down.            *)
LEMMA AlignUp ==
  ASSUME CallerContract, NEW n \in Requests
  PROVE  ALIGN16(n) \in 0 .. Word - 1 /\ n <= ALIGN16(n)
<1> DEFINE m == n + Align - 1
<1>1. n \in Nat /\ Align \in Nat \ {0} /\ m \in 0 .. Word - 1
  BY KmemConstants DEF CallerContract
<1>2. Wrap(m) = m
  BY <1>1, WrapSmall
<1>3. m % Align \in 0 .. Align - 1 /\ m % Align <= m
  BY <1>1, SMT
<1> HIDE DEF m
<1>4. m - (m % Align) \in 0 .. Word - 1
  BY <1>1, <1>3, KmemConstants
<1>5. n <= m - (m % Align)
  BY <1>1, <1>3 DEF m
<1> QED
  BY <1>2, <1>4, <1>5 DEF ALIGN16, m

-----------------------------------------------------------------------------
(* Facts about one state.                                                  *)

(* A block that is on the list has typed fields and ends inside the heap,  *)
(* which itself ends inside the address space.                             *)
LEMMA BlockFacts ==
  ASSUME CallerContract, IInv, NEW b \in DOMAIN blocks
  PROVE  /\ heapStart = HeapBase /\ heapStart # NULL
         /\ b \in 1 .. Word - 1 /\ heapStart <= b
         /\ blocks[b] = [size |-> blocks[b].size, isFree |-> blocks[b].isFree,
                         next |-> blocks[b].next]
         /\ blocks[b].size \in 0 .. Word - 1
         /\ blocks[b].isFree \in BOOLEAN
         /\ blocks[b].next \in 0 .. Word - 1
         /\ b + Hdr + blocks[b].size <= heapStart + heapSize
         /\ heapStart \in 1 .. Word - 1 /\ heapSize \in 0 .. Word - 1
         /\ heapStart + heapSize < Word
<1>1. heapStart # NULL
  BY DEF IInv, HeapShape, NoEntries
<1>2. heapStart = HeapBase /\ heapSize \in HeapSizes
  BY <1>1 DEF IInv, HeapShape
<1>3. blocks[b] \in Header /\ b \in 1 .. Word - 1
  BY DEF IInv, TypeOK
<1>4. heapStart <= b /\ b + Hdr + blocks[b].size <= heapStart + heapSize
  BY <1>1 DEF IInv, Tiled, EndOf, HeapEnd
<1> QED
  BY <1>1, <1>2, <1>3, <1>4, KmemConstants DEF CallerContract, Header

(* A live pointer is the payload of a used block, and no wrap is involved. *)
LEMMA LiveFacts ==
  ASSUME CallerContract, IInv, NEW p \in DOMAIN live
  PROVE  /\ p \in Int /\ BlockOf(p) = p - Hdr
         /\ p - Hdr \in DOMAIN blocks
         /\ ~blocks[p - Hdr].isFree
         /\ live[p] \in Requests
<1>1. p \in 0 .. Word - 1 /\ live[p] \in Requests
  BY DEF IInv, TypeOK
<1>2. p - Hdr \in DOMAIN blocks /\ ~blocks[p - Hdr].isFree
  BY DEF IInv, LiveIntact
<1>3. p - Hdr \in 1 .. Word - 1
  BY <1>2 DEF IInv, TypeOK
<1> QED
  BY <1>1, <1>2, <1>3, WrapSmall, KmemConstants DEF BlockOf

-----------------------------------------------------------------------------
(* The initial state, and the steps that only move the cursor.             *)

(* Before kmemInit there is no heap and no call, and nothing to say.       *)
LEMMA InitKeeps == Init => IInv
<1> SUFFICES ASSUME Init PROVE IInv
  OBVIOUS
<1> USE DEF Init, NULL, NoEntries
<1>1. TypeOK
  BY KmemConstants DEF TypeOK
<1>2. HeapShape /\ Tiled
  BY DEF HeapShape, Tiled
<1>3. LiveIntact /\ NoLostBlock /\ FullyCoalesced /\ FirstFit
  BY DEF LiveIntact, NoLostBlock, FullyCoalesced, FirstFit
<1>4. SearchInv /\ CopyInv /\ CoalesceInv
  BY DEF SearchInv, CopyInv, CoalesceInv
<1> QED
  BY <1>1, <1>2, <1>3, <1>4 DEF IInv

(* What only speaks of the heap and of live pointers survives a step that  *)
(* changes neither.                                                        *)
LEMMA SameHeap ==
  ASSUME IInv, UNCHANGED <<heapVars, live>>
  PROVE  /\ HeapShape' /\ Tiled' /\ LiveIntact'
         /\ heapStart' \in 0 .. Word - 1 /\ heapSize' \in 0 .. Word - 1
         /\ DOMAIN blocks' \subseteq 1 .. Word - 1
         /\ blocks' \in [DOMAIN blocks' -> Header]
         /\ DOMAIN live' \subseteq 0 .. Word - 1
         /\ live' \in [DOMAIN live' -> Requests]
  BY DEF IInv, heapVars, TypeOK, HeapShape, Tiled, LiveIntact, HeapEnd, EndOf

(* Leaving a call for "idle" keeps the invariant if the heap is coalesced  *)
(* and no used block is left without an owner.                             *)
LEMMA ReturnKeeps ==
  ASSUME IInv, Return, UNCHANGED <<heapVars, live>>,
         pc # "copy",
         \A b \in DOMAIN blocks : blocks[b].next # NULL => ~Mergeable(b)
  PROVE  IInv'
<1>1. TypeOK' /\ HeapShape' /\ Tiled' /\ LiveIntact'
  BY SameHeap, KmemConstants DEF TypeOK, Return, NULL
<1>2. NoLostBlock'
  BY DEF IInv, NoLostBlock, heapVars, Return
<1>3. FullyCoalesced'
  BY DEF FullyCoalesced, Mergeable, heapVars
<1>4. FirstFit' /\ SearchInv' /\ CopyInv' /\ CoalesceInv'
  BY DEF FirstFit, SearchInv, CopyInv, CoalesceInv, Return
<1> QED
  BY <1>1, <1>2, <1>3, <1>4 DEF IInv

(* Starting a search, for a new allocation or for one that is outgrown.    *)
LEMMA StartSearchKeeps ==
  ASSUME CallerContract, IInv, pc = "idle", NEW n \in Requests, NEW p,
         p = NULL \/ Outgrown(p, n), StartSearch(n, p)
  PROVE  IInv'
<1> USE DEF StartSearch
<1>0. p \in 0 .. Word - 1
  BY KmemConstants DEF IInv, TypeOK, NULL, Outgrown
<1>1. TypeOK' /\ HeapShape' /\ Tiled' /\ LiveIntact'
  BY <1>0, SameHeap, AlignUp, KmemConstants DEF TypeOK, IInv, heapVars
<1>2. NoLostBlock' /\ FullyCoalesced'
  BY DEF IInv, NoLostBlock, FullyCoalesced, Mergeable, heapVars
<1>3. FirstFit'
  <2> SUFFICES ASSUME NEW b \in DOMAIN blocks PROVE ~(heapStart = NULL \/ b < heapStart)
    BY DEF FirstFit, heapVars
  <2> QED
    BY BlockFacts
<1>4. SearchInv'
  <2>1. heapStart \in DOMAIN blocks \cup {NULL}
    BY DEF IInv, Tiled
  <2> QED
    BY <2>1 DEF SearchInv, heapVars, Outgrown
<1>5. CopyInv' /\ CoalesceInv'
  BY DEF CopyInv, CoalesceInv
<1> QED
  BY <1>1, <1>2, <1>3, <1>4, <1>5 DEF IInv

(* A plain kmalloc starts a search that moves nothing.                     *)
LEMMA kmallocKeeps ==
  ASSUME CallerContract, IInv, NEW n \in Requests, kmalloc(n) PROVE IInv'
  BY StartSearchKeeps DEF kmalloc

(* krealloc of a block that is too small starts one for that block.        *)
LEMMA kreallocMoveKeeps ==
  ASSUME CallerContract, IInv, NEW p \in DOMAIN live, NEW n \in Requests,
         kreallocMove(p, n)
  PROVE  IInv'
<1>1. BlockOf(p) = p - Hdr
  BY LiveFacts
<1> QED
  BY <1>1, StartSearchKeeps DEF kreallocMove, Outgrown

(* The list is in address order: what lies before the successor of c is c  *)
(* or lies before c, and everything lies before the end of the list.       *)
LEMMA ListOrder ==
  ASSUME CallerContract, IInv, NEW b \in DOMAIN blocks, NEW c \in DOMAIN blocks,
         blocks[c].next = NULL \/ b < blocks[c].next
  PROVE  b <= c
<1> SUFFICES ASSUME c < b PROVE FALSE
  BY BlockFacts
<1>1. /\ EndOf(c) <= b /\ EndOf(b) <= HeapEnd
      /\ blocks[c].next = IF EndOf(c) = HeapEnd THEN NULL ELSE EndOf(c)
  BY BlockFacts DEF IInv, Tiled
<1>2. EndOf(b) = b + Hdr + blocks[b].size /\ EndOf(c) = c + Hdr + blocks[c].size
  BY DEF EndOf
<1> QED
  BY <1>1, <1>2, BlockFacts, KmemConstants DEF HeapEnd, NULL

(* Where a block has a successor, it is on the list and starts where the   *)
(* block ends.                                                             *)
LEMMA NextFacts ==
  ASSUME CallerContract, IInv, NEW b \in DOMAIN blocks
  PROVE  /\ blocks[b].next # NULL =>
              blocks[b].next \in DOMAIN blocks /\ blocks[b].next = b + Hdr + blocks[b].size
         /\ blocks[b].next \in DOMAIN blocks \cup {NULL}
  BY BlockFacts DEF IInv, Tiled, EndOf, HeapEnd

(* The search passes a block that does not fit; FirstFit grows by it.      *)
LEMMA SearchNextKeeps ==
  ASSUME CallerContract, IInv, SearchNext PROVE IInv'
<1> USE DEF SearchNext
<1>0. curr \in DOMAIN blocks /\ curr' \in DOMAIN blocks \cup {NULL}
  BY NextFacts DEF IInv, SearchInv
<1>1. TypeOK' /\ HeapShape' /\ Tiled' /\ LiveIntact'
  BY <1>0, SameHeap, KmemConstants DEF TypeOK, IInv, heapVars, NULL
<1>2. NoLostBlock' /\ FullyCoalesced'
  BY DEF IInv, NoLostBlock, FullyCoalesced, Mergeable, heapVars
<1>3. FirstFit'
  <2> SUFFICES ASSUME NEW b \in DOMAIN blocks, curr' = NULL \/ b < curr'
               PROVE  ~Fits(b, size)
    BY DEF FirstFit, heapVars, Fits
  <2>1. b <= curr
    BY <1>0, ListOrder
  <2>2. b = curr \/ b < curr
    BY <1>0, <2>1, BlockFacts
  <2> QED
    BY <2>2 DEF IInv, FirstFit
<1>4. SearchInv'
  BY <1>0 DEF IInv, SearchInv, heapVars, Outgrown
<1>5. CopyInv' /\ CoalesceInv'
  BY DEF CopyInv, CoalesceInv
<1> QED
  BY <1>1, <1>2, <1>3, <1>4, <1>5 DEF IInv

(* The search ends with NULL.                                              *)
LEMMA SearchFailsKeeps ==
  ASSUME IInv, SearchFails PROVE IInv'
  BY ReturnKeeps DEF SearchFails, IInv, FullyCoalesced

(* The coalescing loop passes a block it cannot merge.                     *)
LEMMA CoalesceNextKeeps ==
  ASSUME CallerContract, IInv, CoalesceNext PROVE IInv'
<1> USE DEF CoalesceNext
<1>0. curr \in DOMAIN blocks /\ curr' \in DOMAIN blocks \cup {NULL}
  BY NextFacts DEF IInv, CoalesceInv
<1>1. TypeOK' /\ HeapShape' /\ Tiled' /\ LiveIntact'
  BY <1>0, SameHeap, KmemConstants DEF TypeOK, IInv, heapVars, NULL
<1>2. NoLostBlock' /\ FullyCoalesced'
  BY DEF IInv, NoLostBlock, FullyCoalesced, heapVars
<1>3. FirstFit' /\ SearchInv' /\ CopyInv'
  BY DEF FirstFit, SearchInv, CopyInv
<1>4. CoalesceInv'
  <2> SUFFICES ASSUME NEW b \in DOMAIN blocks, curr' = NULL \/ b < curr',
                      blocks[b].next # NULL
               PROVE  ~Mergeable(b)
    BY <1>0 DEF CoalesceInv, heapVars, Mergeable
  <2>1. b <= curr
    BY <1>0, ListOrder
  <2>2. b = curr \/ b < curr
    BY <1>0, <2>1, BlockFacts
  <2> QED
    BY <2>2 DEF IInv, CoalesceInv
<1> QED
  BY <1>1, <1>2, <1>3, <1>4 DEF IInv

(* At the end of the loop every pair of neighbours has been looked at.     *)
LEMMA CoalesceEndKeeps ==
  ASSUME CallerContract, IInv, CoalesceEnd PROVE IInv'
<1>1. ASSUME NEW b \in DOMAIN blocks, blocks[b].next # NULL PROVE ~Mergeable(b)
  <2>1. CASE curr = NULL
    BY <1>1, <2>1 DEF CoalesceEnd, IInv, CoalesceInv
  <2>2. CASE curr # NULL
    <3>1. curr \in DOMAIN blocks /\ blocks[curr].next = NULL
      BY <2>2 DEF CoalesceEnd, IInv, CoalesceInv
    <3>2. b <= curr /\ b # curr
      BY <1>1, <3>1, ListOrder
    <3>3. b < curr
      BY <3>1, <3>2, BlockFacts
    <3> QED
      BY <1>1, <3>3 DEF CoalesceEnd, IInv, CoalesceInv
  <2> QED
    BY <2>1, <2>2
<1> QED
  BY <1>1, ReturnKeeps DEF CoalesceEnd

-----------------------------------------------------------------------------
(* kmalloc takes a block.                                                  *)

(* What Split makes of the list: one more block, inside the old one.       *)
LEMMA SplitShape ==
  ASSUME CallerContract, IInv, NEW b \in DOMAIN blocks, NEW n \in 0 .. Word - 1,
         Splits(b, n), blocks[b].size >= n
  PROVE  /\ b + Hdr + n \in 1 .. Word - 1 /\ b + Hdr + n \notin DOMAIN blocks
         /\ n + Hdr < blocks[b].size
         /\ DOMAIN Split(b, n) = DOMAIN blocks \cup {b + Hdr + n}
         /\ Split(b, n)[b] = [size |-> n, isFree |-> FALSE, next |-> b + Hdr + n]
         /\ Split(b, n)[b + Hdr + n] = [size |-> blocks[b].size - n - Hdr,
                                       isFree |-> TRUE, next |-> blocks[b].next]
         /\ \A c \in DOMAIN blocks : c # b => Split(b, n)[c] = blocks[c]
<1> DEFINE new == b + Hdr + n
           left == [size |-> n, isFree |-> FALSE, next |-> new]
           right == [size |-> blocks[b].size - n - Hdr, isFree |-> TRUE,
                     next |-> blocks[b].next]
           f == [blocks EXCEPT ![b] = left]
<1>1. n + Hdr \in 0 .. Word - 1
  BY BlockFacts, KmemConstants
<1>2. Wrap(n + Hdr) = n + Hdr
  BY <1>1, WrapSmall
<1>3. n + Hdr < blocks[b].size
  BY <1>1, <1>2, BlockFacts DEF Splits
<1>4. new \in 1 .. Word - 1 /\ b < new /\ new < b + Hdr + blocks[b].size
      /\ blocks[b].size - n - Hdr \in 0 .. Word - 1
  BY <1>3, BlockFacts, KmemConstants
<1>5. new \notin DOMAIN blocks
  <2> SUFFICES ASSUME new \in DOMAIN blocks PROVE FALSE
    OBVIOUS
  <2>1. EndOf(b) <= new
    BY <1>4, BlockFacts DEF IInv, Tiled
  <2> QED
    BY <2>1, <1>4, BlockFacts, KmemConstants DEF EndOf
<1>6. Wrap(new) = new /\ Wrap(blocks[b].size - n - Hdr) = blocks[b].size - n - Hdr
  BY <1>4, WrapSmall
<1>7. Split(b, n) = With(f, new, right)
  BY <1>6 DEF Split
<1>8. DOMAIN f = DOMAIN blocks /\ f[b] = left
      /\ \A c \in DOMAIN blocks : c # b => f[c] = blocks[c]
  OBVIOUS
<1> HIDE DEF new, left, right, f
<1>9. /\ DOMAIN With(f, new, right) = DOMAIN f \cup {new}
      /\ With(f, new, right)[new] = right
      /\ \A y \in DOMAIN f : y # new => With(f, new, right)[y] = f[y]
  BY DEF With
<1>10. /\ DOMAIN Split(b, n) = DOMAIN blocks \cup {new}
       /\ Split(b, n)[b] = left /\ Split(b, n)[new] = right
       /\ \A c \in DOMAIN blocks : c # b => Split(b, n)[c] = blocks[c]
  BY <1>5, <1>7, <1>8, <1>9
<1> QED
  BY <1>3, <1>4, <1>5, <1>10 DEF new, left, right

(* The two shapes of a taken block, in terms of the fields of the list     *)
(* before and after: the block itself, all others, and the new one if any. *)
LEMMA TakeShape ==
  ASSUME CallerContract, IInv, TakeCurrent
  PROVE  /\ curr \in DOMAIN blocks /\ curr \in DOMAIN blocks'
         /\ blocks[curr].isFree /\ size <= blocks[curr].size
         /\ \A c \in DOMAIN blocks : c # curr => c \in DOMAIN blocks' /\ blocks'[c] = blocks[c]
         /\ blocks'[curr].isFree = FALSE
         /\ \/ /\ DOMAIN blocks' = DOMAIN blocks
               /\ blocks'[curr] = [size |-> blocks[curr].size, isFree |-> FALSE,
                                   next |-> blocks[curr].next]
            \/ /\ curr + Hdr + size \in 1 .. Word - 1
               /\ curr + Hdr + size \notin DOMAIN blocks
               /\ size + Hdr < blocks[curr].size
               /\ DOMAIN blocks' = DOMAIN blocks \cup {curr + Hdr + size}
               /\ blocks'[curr] = [size |-> size, isFree |-> FALSE, next |-> curr + Hdr + size]
               /\ blocks'[curr + Hdr + size] = [size |-> blocks[curr].size - size - Hdr,
                                              isFree |-> TRUE, next |-> blocks[curr].next]
<1>1. curr \in DOMAIN blocks /\ size \in 0 .. Word - 1
  BY DEF TakeCurrent, IInv, SearchInv, TypeOK
<1>2. blocks[curr].isFree /\ blocks[curr].size >= size
  BY DEF TakeCurrent, Fits
<1>3. size <= blocks[curr].size
  BY <1>1, <1>2, BlockFacts
<1>4. CASE Splits(curr, size)
  <2>1. blocks' = Split(curr, size)
    BY <1>4 DEF TakeCurrent, Take
  <2>2. /\ curr + Hdr + size \in 1 .. Word - 1 /\ curr + Hdr + size \notin DOMAIN blocks
        /\ size + Hdr < blocks[curr].size
        /\ DOMAIN blocks' = DOMAIN blocks \cup {curr + Hdr + size}
        /\ blocks'[curr] = [size |-> size, isFree |-> FALSE, next |-> curr + Hdr + size]
        /\ blocks'[curr + Hdr + size] = [size |-> blocks[curr].size - size - Hdr,
                                       isFree |-> TRUE, next |-> blocks[curr].next]
        /\ \A c \in DOMAIN blocks : c # curr => blocks'[c] = blocks[c]
    BY <1>1, <1>2, <1>4, <2>1, SplitShape
  <2>3. blocks'[curr].isFree = FALSE
    BY <2>2
  <2> QED
    BY <1>1, <1>2, <1>3, <2>2, <2>3
<1>5. CASE ~Splits(curr, size)
  <2>1. blocks' = Mark(curr, FALSE)
    BY <1>5 DEF TakeCurrent, Take
  <2>2. DOMAIN blocks' = DOMAIN blocks
        /\ \A c \in DOMAIN blocks : c # curr => blocks'[c] = blocks[c]
    BY <2>1 DEF Mark
  <2>3. blocks'[curr] = [size |-> blocks[curr].size, isFree |-> FALSE, next |-> blocks[curr].next]
    BY <1>1, <2>1 DEF Mark
  <2> QED
    BY <1>1, <1>2, <1>3, <2>2, <2>3
<1> QED
  BY <1>4, <1>5

(* Taking a block keeps the heap tiled.                                    *)
LEMMA TakeTiled ==
  ASSUME CallerContract, IInv, TakeCurrent PROVE Tiled'
<1> DEFINE new == curr + Hdr + size
<1>1. heapStart' = heapStart /\ HeapEnd' = HeapEnd /\ heapStart # NULL
      /\ HeapEnd = heapStart + heapSize /\ curr \in DOMAIN blocks
      /\ size \in 0 .. Word - 1 /\ Hdr \in Nat \ {0}
  <2>1. curr \in DOMAIN blocks
    BY TakeShape
  <2>2. heapStart # NULL
    BY <2>1, BlockFacts
  <2> QED
    BY <2>1, <2>2, KmemConstants DEF TakeCurrent, HeapEnd, IInv, TypeOK
<1>2. /\ heapStart \in DOMAIN blocks
      /\ \A b \in DOMAIN blocks :
           /\ heapStart <= b /\ b + Hdr + blocks[b].size <= HeapEnd
           /\ blocks[b].next = IF b + Hdr + blocks[b].size = HeapEnd THEN NULL
                              ELSE b + Hdr + blocks[b].size
           /\ blocks[b].next # NULL => blocks[b].next \in DOMAIN blocks
      /\ \A a, b \in DOMAIN blocks : a < b => a + Hdr + blocks[a].size <= b
  BY <1>1 DEF IInv, Tiled, EndOf
<1>3. \A b \in DOMAIN blocks : b \in 1 .. Word - 1 /\ blocks[b].size \in 0 .. Word - 1
  BY BlockFacts
<1>4. SUFFICES
      /\ heapStart \in DOMAIN blocks'
      /\ \A b \in DOMAIN blocks' :
           /\ heapStart <= b /\ b + Hdr + blocks'[b].size <= HeapEnd
           /\ blocks'[b].next = IF b + Hdr + blocks'[b].size = HeapEnd THEN NULL
                               ELSE b + Hdr + blocks'[b].size
           /\ blocks'[b].next # NULL => blocks'[b].next \in DOMAIN blocks'
      /\ \A a, b \in DOMAIN blocks' : a < b => a + Hdr + blocks'[a].size <= b
  BY <1>1 DEF Tiled, EndOf
<1>5. CASE /\ DOMAIN blocks' = DOMAIN blocks
           /\ blocks'[curr] = [size |-> blocks[curr].size, isFree |-> FALSE,
                               next |-> blocks[curr].next]
  <2>1. \A b \in DOMAIN blocks : blocks'[b].size = blocks[b].size /\ blocks'[b].next = blocks[b].next
    BY <1>5, TakeShape
  <2> QED
    BY <1>2, <1>5, <2>1
<1>6. CASE /\ new \in 1 .. Word - 1 /\ new \notin DOMAIN blocks
           /\ size + Hdr < blocks[curr].size
           /\ DOMAIN blocks' = DOMAIN blocks \cup {new}
           /\ blocks'[curr] = [size |-> size, isFree |-> FALSE, next |-> new]
           /\ blocks'[new] = [size |-> blocks[curr].size - size - Hdr,
                              isFree |-> TRUE, next |-> blocks[curr].next]
  <2>1. \A b \in DOMAIN blocks : b # curr => b \in DOMAIN blocks' /\ blocks'[b] = blocks[b]
    BY TakeShape
  <2>2. /\ blocks'[curr].size = size /\ blocks'[curr].next = new
        /\ blocks'[new].size = blocks[curr].size - size - Hdr
        /\ blocks'[new].next = blocks[curr].next
    BY <1>6
  <2>3. new # NULL /\ curr < new /\ new < curr + Hdr + blocks[curr].size
        /\ new + Hdr + blocks'[new].size = curr + Hdr + blocks[curr].size
        /\ curr + Hdr + blocks'[curr].size = new
    BY <1>1, <1>3, <1>6, <2>2 DEF NULL
  <2>4. ASSUME NEW b \in DOMAIN blocks'
        PROVE  /\ heapStart <= b /\ b + Hdr + blocks'[b].size <= HeapEnd
               /\ blocks'[b].next = IF b + Hdr + blocks'[b].size = HeapEnd THEN NULL
                                   ELSE b + Hdr + blocks'[b].size
               /\ blocks'[b].next # NULL => blocks'[b].next \in DOMAIN blocks'
    <3>0. heapStart \in Nat /\ HeapEnd \in Nat
      BY <1>1, BlockFacts
    <3>1. CASE b = curr
      BY <1>1, <1>2, <1>3, <1>6, <2>2, <2>3, <3>0, <3>1
    <3>2. CASE b = new
      BY <1>1, <1>2, <1>3, <1>6, <2>2, <2>3, <3>0, <3>2
    <3>3. CASE b \in DOMAIN blocks /\ b # curr
      BY <1>2, <1>6, <2>1, <3>3
    <3> QED
      BY <1>6, <3>1, <3>2, <3>3
  <2>5. ASSUME NEW a \in DOMAIN blocks', NEW b \in DOMAIN blocks', a < b
        PROVE  a + Hdr + blocks'[a].size <= b
    <3>1. CASE a = new
      BY <1>1, <1>2, <1>3, <1>6, <2>3, <2>5, <3>1
    <3>2. CASE a = curr
      BY <1>1, <1>2, <1>3, <1>6, <2>3, <2>5, <3>2
    <3>3. CASE a \in DOMAIN blocks /\ a # curr
      <4>1. CASE b \in DOMAIN blocks
        BY <1>2, <2>1, <2>5, <3>3, <4>1
      <4>2. CASE b = new
        <5>1. a < curr
          BY <1>1, <1>2, <1>3, <2>3, <2>5, <3>3, <4>2
        <5> QED
          BY <1>1, <1>2, <1>3, <2>1, <2>3, <3>3, <4>2, <5>1
      <4> QED
        BY <1>6, <4>1, <4>2
    <3> QED
      BY <1>6, <3>1, <3>2, <3>3
  <2>6. heapStart \in DOMAIN blocks'
    BY <1>2, <1>6
  <2> HIDE DEF new
  <2> QED
    BY <2>4, <2>5, <2>6
<1> QED
  BY <1>5, <1>6, TakeShape

(* What else the two continuations of the search need: typed headers, the  *)
(* live blocks where they were, nobody's block but curr newly used, and no *)
(* two free neighbours.                                                    *)
LEMMA TakeFacts ==
  ASSUME CallerContract, IInv, TakeCurrent
  PROVE  /\ DOMAIN blocks' \subseteq 1 .. Word - 1
         /\ blocks' \in [DOMAIN blocks' -> Header]
         /\ curr \in DOMAIN blocks' /\ ~blocks'[curr].isFree
         /\ size <= blocks'[curr].size
         /\ \A b \in DOMAIN blocks :
              b # curr => b \in DOMAIN blocks' /\ blocks'[b] = blocks[b]
         /\ \A b \in DOMAIN blocks' : b \notin DOMAIN blocks => blocks'[b].isFree
         /\ curr + Hdr \notin DOMAIN live
<1> DEFINE new == curr + Hdr + size
<1>0. size \in 0 .. Word - 1 /\ curr \in 1 .. Word - 1 /\ Hdr \in 1 .. Word - 1
      /\ curr \in DOMAIN blocks /\ blocks[curr].isFree
  BY KmemConstants, TakeShape DEF IInv, TypeOK
<1>1. \A b \in DOMAIN blocks : b \in 1 .. Word - 1 /\ blocks[b] \in Header
  BY DEF IInv, TypeOK
<1>2. curr + Hdr \notin DOMAIN live
  <2> SUFFICES ASSUME curr + Hdr \in DOMAIN live PROVE FALSE
    OBVIOUS
  <2>1. ~blocks[curr + Hdr - Hdr].isFree /\ curr + Hdr - Hdr = curr
    BY <1>0, LiveFacts
  <2> QED
    BY <1>0, <2>1
<1>3. CASE /\ DOMAIN blocks' = DOMAIN blocks
           /\ blocks'[curr] = [size |-> blocks[curr].size, isFree |-> FALSE,
                               next |-> blocks[curr].next]
  <2>1. blocks'[curr] \in Header /\ ~blocks'[curr].isFree /\ size <= blocks'[curr].size
    BY <1>0, <1>1, <1>3, TakeShape DEF Header
  <2>2. \A b \in DOMAIN blocks' : blocks'[b] \in Header
    BY <1>1, <1>3, <2>1, TakeShape
  <2>3. blocks' \in [DOMAIN blocks' -> Header]
    BY <2>2 DEF TakeCurrent, Take, Split, With, Mark
  <2> QED
    BY <1>1, <1>2, <1>3, <2>1, <2>3, TakeShape
<1>4. CASE /\ new \in 1 .. Word - 1 /\ new \notin DOMAIN blocks
           /\ size + Hdr < blocks[curr].size
           /\ DOMAIN blocks' = DOMAIN blocks \cup {new}
           /\ blocks'[curr] = [size |-> size, isFree |-> FALSE, next |-> new]
           /\ blocks'[new] = [size |-> blocks[curr].size - size - Hdr,
                              isFree |-> TRUE, next |-> blocks[curr].next]
  <2>1. blocks'[curr] \in Header /\ ~blocks'[curr].isFree /\ size <= blocks'[curr].size
    BY <1>0, <1>4 DEF Header
  <2>2. blocks'[new] \in Header /\ blocks'[new].isFree
    <3>1. blocks[curr].size \in 0 .. Word - 1 /\ blocks[curr].next \in 0 .. Word - 1
      BY <1>0, <1>1 DEF Header
    <3>2. blocks[curr].size - size - Hdr \in 0 .. Word - 1
      BY <1>0, <1>4, <3>1, KmemConstants
    <3> QED
      BY <1>4, <3>1, <3>2 DEF Header
  <2>3. \A b \in DOMAIN blocks' : b \in 1 .. Word - 1 /\ blocks'[b] \in Header
    BY <1>1, <1>4, <2>1, <2>2, TakeShape
  <2>4. blocks' \in [DOMAIN blocks' -> Header]
    BY <2>3 DEF TakeCurrent, Take, Split, With, Mark
  <2> QED
    BY <1>2, <1>4, <2>1, <2>2, <2>3, <2>4, TakeShape
<1> QED
  BY <1>3, <1>4, TakeShape

(* kmalloc leaves no two free neighbours: the block it took was free, so   *)
(* the block after it is used and may follow the free rest of a split.     *)
LEMMA TakeCoalesced ==
  ASSUME CallerContract, IInv, TakeCurrent,
         NEW b \in DOMAIN blocks', blocks'[b].next # NULL
  PROVE  ~(blocks'[b].isFree /\ blocks'[blocks'[b].next].isFree)
<1> DEFINE new == curr + Hdr + size
<1>0. curr \in DOMAIN blocks /\ blocks[curr].isFree /\ blocks'[curr].isFree = FALSE
  BY TakeShape
<1>1. \A c \in DOMAIN blocks : blocks[c].next # NULL =>
        blocks[c].next \in DOMAIN blocks
          /\ ~(blocks[c].isFree /\ blocks[blocks[c].next].isFree)
  BY NextFacts DEF TakeCurrent, IInv, FullyCoalesced, Mergeable
<1>2. ASSUME NEW c \in DOMAIN blocks, c # curr
      PROVE  blocks'[c] = blocks[c]
  BY <1>2, TakeShape
<1>3. CASE b = curr
  BY <1>0, <1>3
<1>4. CASE b \in DOMAIN blocks /\ b # curr
  <2>1. blocks'[b] = blocks[b]
    BY <1>2, <1>4
  <2>2. blocks[b].next \in DOMAIN blocks
    BY <1>1, <1>4, <2>1
  <2>3. CASE blocks[b].next = curr
    BY <1>0, <2>1, <2>3
  <2>4. CASE blocks[b].next # curr
    BY <1>1, <1>2, <1>4, <2>1, <2>2, <2>4
  <2> QED
    BY <2>3, <2>4
<1>5. CASE b \notin DOMAIN blocks
  <2>1. blocks'[b].next = blocks[curr].next
    BY <1>5, TakeShape
  <2>2. /\ blocks[curr].next \in DOMAIN blocks
        /\ ~blocks[blocks[curr].next].isFree
    BY <1>0, <1>1, <2>1
  <2>3. blocks[curr].next # curr
    BY <1>0, <2>2
  <2> QED
    BY <1>2, <2>1, <2>2, <2>3
<1> QED
  BY <1>3, <1>4, <1>5

(* A live pointer's block is neither the free block that is taken nor the  *)
(* one a split makes: it is the same block after the step.                 *)
LEMMA TakeLive ==
  ASSUME CallerContract, IInv, TakeCurrent, NEW p \in DOMAIN live
  PROVE  /\ p - Hdr # curr /\ p - Hdr \in DOMAIN blocks'
         /\ blocks'[p - Hdr] = blocks[p - Hdr]
         /\ ~blocks'[p - Hdr].isFree /\ live[p] <= blocks'[p - Hdr].size
<1>1. p - Hdr \in DOMAIN blocks /\ ~blocks[p - Hdr].isFree
      /\ live[p] <= blocks[p - Hdr].size
  BY DEF IInv, LiveIntact
<1>2. p - Hdr # curr
  BY <1>1, TakeShape
<1> QED
  BY <1>1, <1>2, TakeShape

(* The request fits the rounded size, and the payload address is in range. *)
LEMMA TakeRequest ==
  ASSUME CallerContract, IInv, TakeCurrent
  PROVE  /\ req \in Requests /\ req \in Nat /\ req <= blocks'[curr].size
         /\ Payload(curr) = curr + Hdr /\ curr + Hdr \in 0 .. Word - 1
<1>1. req \in Requests /\ req <= size
  BY AlignUp DEF IInv, SearchInv, TakeCurrent
<1>2. curr \in DOMAIN blocks /\ size <= blocks'[curr].size /\ blocks' \in [DOMAIN blocks' -> Header]
      /\ curr \in DOMAIN blocks' /\ blocks'[curr].size \in 0 .. Word - 1
  BY TakeShape, TakeFacts DEF Header
<1>3. req \in Nat /\ size \in Nat
  BY <1>1, KmemConstants DEF IInv, TypeOK
<1>4. curr + Hdr \in 0 .. Word - 1
  BY <1>2, BlockFacts, KmemConstants
<1>5. Payload(curr) = curr + Hdr
  BY <1>4, WrapSmall DEF Payload
<1> QED
  BY <1>1, <1>2, <1>3, <1>4, <1>5

(* kmalloc returns the block it took, which thereby has an owner.          *)
LEMMA SearchReturnsKeeps ==
  ASSUME CallerContract, IInv, SearchReturns PROVE IInv'
<1> USE DEF SearchReturns
<1>1. /\ heapStart' = heapStart /\ heapSize' = heapSize /\ pc' = "idle"
      /\ heapStart # NULL
  BY TakeShape, BlockFacts DEF TakeCurrent, Return
<1>2. /\ DOMAIN live' = DOMAIN live \cup {curr + Hdr} /\ live'[curr + Hdr] = req
      /\ \A p \in DOMAIN live : p # curr + Hdr => live'[p] = live[p]
  BY TakeRequest DEF With
<1>3. TypeOK'
  <2>1. \A p \in DOMAIN live' : p \in 0 .. Word - 1 /\ live'[p] \in Requests
    BY <1>2, TakeRequest DEF IInv, TypeOK
  <2>2. live' \in [DOMAIN live' -> Requests]
    BY <2>1 DEF With
  <2> QED
    BY <1>1, <2>1, <2>2, TakeFacts, KmemConstants DEF IInv, TypeOK, Return, NULL
<1>4. HeapShape'
  BY <1>1 DEF IInv, HeapShape
<1>5. Tiled'
  BY TakeTiled
<1>6. LiveIntact'
  <2> SUFFICES ASSUME NEW p \in DOMAIN live'
               PROVE  /\ p - Hdr \in DOMAIN blocks' /\ ~blocks'[p - Hdr].isFree
                      /\ live'[p] <= blocks'[p - Hdr].size
    BY DEF LiveIntact
  <2>1. CASE p = curr + Hdr
    <3>1. p - Hdr = curr
      BY <2>1, KmemConstants, TakeShape DEF IInv, TypeOK
    <3> QED
      BY <1>2, <2>1, <3>1, TakeFacts, TakeRequest
  <2>2. CASE p \in DOMAIN live /\ p # curr + Hdr
    BY <1>2, <2>2, TakeLive
  <2> QED
    BY <1>2, <2>1, <2>2
<1>7. NoLostBlock'
  <2> SUFFICES ASSUME NEW b \in DOMAIN blocks', ~blocks'[b].isFree
               PROVE  b + Hdr \in DOMAIN live'
    BY DEF NoLostBlock
  <2>1. b \in DOMAIN blocks
    BY TakeFacts
  <2>2. CASE b = curr
    BY <1>2, <2>2
  <2>3. CASE b # curr
    BY <1>2, <2>1, <2>3, TakeFacts DEF IInv, NoLostBlock, TakeCurrent
  <2> QED
    BY <2>2, <2>3
<1>8. FullyCoalesced'
  BY TakeCoalesced DEF FullyCoalesced, Mergeable
<1>9. FirstFit' /\ SearchInv' /\ CopyInv' /\ CoalesceInv'
  BY <1>1 DEF FirstFit, SearchInv, CopyInv, CoalesceInv
<1> QED
  BY <1>3, <1>4, <1>5, <1>6, <1>7, <1>8, <1>9 DEF IInv

(* krealloc has its new block, which is nobody's until the copy is done.   *)
LEMMA SearchForMoveKeeps ==
  ASSUME CallerContract, IInv, SearchForMove PROVE IInv'
<1> USE DEF SearchForMove
<1>1. /\ heapStart' = heapStart /\ heapSize' = heapSize /\ pc' = "copy"
      /\ heapStart # NULL /\ live' = live /\ curr' = curr /\ req' = req /\ old' = old
  BY TakeShape, BlockFacts DEF TakeCurrent
<1>2. TypeOK'
  BY <1>1, TakeFacts DEF IInv, TypeOK
<1>3. HeapShape'
  BY <1>1 DEF IInv, HeapShape
<1>4. Tiled'
  BY TakeTiled
<1>5. LiveIntact'
  BY <1>1, TakeLive DEF LiveIntact
<1>6. NoLostBlock'
  <2> SUFFICES ASSUME NEW b \in DOMAIN blocks', ~blocks'[b].isFree, b # curr
               PROVE  b + Hdr \in DOMAIN live
    BY <1>1 DEF NoLostBlock
  <2> QED
    BY TakeFacts DEF IInv, NoLostBlock, TakeCurrent
<1>7. FullyCoalesced'
  BY TakeCoalesced DEF FullyCoalesced, Mergeable
<1>8. CopyInv'
  <2>1. Outgrown(old, req)'
    BY <1>1, TakeLive DEF IInv, SearchInv, TakeCurrent, Outgrown
  <2> QED
    BY <1>1, <2>1, TakeFacts, TakeRequest DEF CopyInv
<1>9. FirstFit' /\ SearchInv' /\ CoalesceInv'
  BY <1>1 DEF FirstFit, SearchInv, CoalesceInv
<1> QED
  BY <1>2, <1>3, <1>4, <1>5, <1>6, <1>7, <1>8, <1>9 DEF IInv

-----------------------------------------------------------------------------
(* kfree: marking the block, then merging neighbours.                      *)

(* Marking a live block free changes nothing else in any header, and sends *)
(* the cursor to the start, where nothing has been passed yet.             *)
LEMMA ReleaseFacts ==
  ASSUME CallerContract, IInv, NEW p \in DOMAIN live, Release(p)
  PROVE  /\ DOMAIN blocks' = DOMAIN blocks
         /\ blocks' \in [DOMAIN blocks' -> Header]
         /\ blocks'[p - Hdr].isFree
         /\ \A b \in DOMAIN blocks : b # p - Hdr => blocks'[b] = blocks[b]
         /\ HeapShape'
         /\ heapStart' = heapStart /\ heapSize' = heapSize /\ heapStart # NULL
         /\ pc' = "coalesce" /\ curr' = heapStart /\ size' = 0 /\ req' = 0 /\ old' = NULL
         /\ Tiled' /\ FullyCoalesced' /\ FirstFit' /\ SearchInv' /\ CopyInv' /\ CoalesceInv'
<1> DEFINE r == p - Hdr
<1>1. /\ r \in DOMAIN blocks /\ BlockOf(p) = r
  BY LiveFacts
<1>2. /\ blocks' = Mark(r, TRUE) /\ heapStart' = heapStart /\ heapSize' = heapSize
      /\ pc' = "coalesce" /\ curr' = heapStart /\ size' = 0 /\ req' = 0 /\ old' = NULL
  BY <1>1 DEF Release
<1>3. heapStart # NULL
  BY <1>1, BlockFacts
<1>4. /\ DOMAIN blocks' = DOMAIN blocks
      /\ \A b \in DOMAIN blocks : b # r => blocks'[b] = blocks[b]
      /\ blocks'[r] = [size |-> blocks[r].size, isFree |-> TRUE, next |-> blocks[r].next]
  BY <1>1, <1>2 DEF Mark
<1>5. \A b \in DOMAIN blocks : blocks'[b].size = blocks[b].size /\ blocks'[b].next = blocks[b].next
  BY <1>4
<1>6. blocks' \in [DOMAIN blocks' -> Header]
  <2>1. \A b \in DOMAIN blocks : blocks[b] \in Header
    BY DEF IInv, TypeOK
  <2>2. blocks[r].size \in 0 .. Word - 1 /\ blocks[r].next \in 0 .. Word - 1
    BY <1>1, <2>1 DEF Header
  <2>3. blocks'[r] \in Header
    BY <1>4, <2>2 DEF Header
  <2>4. \A b \in DOMAIN blocks : blocks'[b] \in Header
    BY <1>4, <2>1, <2>3
  <2> QED
    BY <1>2, <1>4, <2>4 DEF Mark
<1>7. Tiled'
  <2> DEFINE After(b) == b + Hdr + blocks'[b].size
  <2>1. HeapEnd' = HeapEnd /\ \A b \in DOMAIN blocks : After(b) = EndOf(b)
    BY <1>2, <1>5 DEF HeapEnd, EndOf
  <2>2. /\ heapStart \in DOMAIN blocks
        /\ \A b \in DOMAIN blocks :
             /\ heapStart <= b /\ EndOf(b) <= HeapEnd
             /\ blocks[b].next = IF EndOf(b) = HeapEnd THEN NULL ELSE EndOf(b)
             /\ blocks[b].next # NULL => blocks[b].next \in DOMAIN blocks
        /\ \A a, b \in DOMAIN blocks : a < b => EndOf(a) <= b
    BY <1>3 DEF IInv, Tiled
  <2> HIDE DEF r, After
  <2>3. /\ \A b \in DOMAIN blocks' :
             /\ heapStart <= b /\ After(b) <= HeapEnd
             /\ blocks'[b].next = IF After(b) = HeapEnd THEN NULL ELSE After(b)
             /\ blocks'[b].next # NULL => blocks'[b].next \in DOMAIN blocks'
        /\ \A a, b \in DOMAIN blocks' : a < b => After(a) <= b
    BY <1>4, <1>5, <2>1, <2>2
  <2> QED
    BY <1>2, <1>4, <2>1, <2>2, <2>3 DEF Tiled, EndOf, After
<1>8. HeapShape'
  BY <1>2, <1>3 DEF IInv, HeapShape
<1>9. FullyCoalesced' /\ FirstFit' /\ SearchInv' /\ CopyInv'
  BY <1>2 DEF FullyCoalesced, FirstFit, SearchInv, CopyInv
<1>10. CoalesceInv'
  <2>1. heapStart \in DOMAIN blocks
    BY <1>3 DEF IInv, Tiled
  <2>2. \A b \in DOMAIN blocks : ~(heapStart = NULL \/ b < heapStart)
    BY BlockFacts
  <2> QED
    BY <1>2, <1>4, <2>1, <2>2 DEF CoalesceInv
<1> HIDE DEF r
<1>11. blocks'[r].isFree
  BY <1>4
<1> QED
  BY <1>2, <1>3, <1>4, <1>6, <1>7, <1>8, <1>9, <1>10, <1>11 DEF r

(* kfree up to its loop: the caller gives the pointer up.                  *)
LEMMA kfreeKeeps ==
  ASSUME CallerContract, IInv, NEW p \in DOMAIN live, kfree(p) PROVE IInv'
<1> USE DEF kfree
<1>1. /\ DOMAIN live' = DOMAIN live \ {p}
      /\ \A q \in DOMAIN live : q # p => live'[q] = live[q]
  BY DEF Without, Restrict
<1>2. TypeOK'
  <2>1. \A q \in DOMAIN live' : q \in 0 .. Word - 1 /\ live'[q] \in Requests
    BY <1>1 DEF IInv, TypeOK
  <2>2. live' \in [DOMAIN live' -> Requests]
    BY <2>1 DEF Without, Restrict
  <2> QED
    BY <2>1, <2>2, ReleaseFacts, KmemConstants DEF IInv, TypeOK, NULL
<1>3. LiveIntact'
  <2> SUFFICES ASSUME NEW q \in DOMAIN live, q # p
               PROVE  /\ q - Hdr \in DOMAIN blocks' /\ ~blocks'[q - Hdr].isFree
                      /\ live[q] <= blocks'[q - Hdr].size
    BY <1>1 DEF LiveIntact
  <2>1. q - Hdr # p - Hdr
    BY LiveFacts, KmemConstants
  <2> QED
    BY <2>1, ReleaseFacts DEF IInv, LiveIntact
<1>4. NoLostBlock'
  <2> SUFFICES ASSUME NEW b \in DOMAIN blocks, ~blocks'[b].isFree
               PROVE  b + Hdr \in DOMAIN live /\ b + Hdr # p
    BY <1>1, ReleaseFacts DEF NoLostBlock
  <2>1. b # p - Hdr /\ blocks'[b] = blocks[b]
    BY ReleaseFacts
  <2>2. b + Hdr # p
    BY <2>1, LiveFacts, BlockFacts, KmemConstants
  <2> QED
    BY <2>1, <2>2 DEF IInv, NoLostBlock
<1> QED
  BY <1>2, <1>3, <1>4, ReleaseFacts DEF IInv

(* krealloc's copy and kfree of the old block: the new one has an owner.   *)
LEMMA KreallocCopyKeeps ==
  ASSUME CallerContract, IInv, KreallocCopy PROVE IInv'
<1> USE DEF KreallocCopy
<1> DEFINE new == curr + Hdr
<1>1. /\ curr \in DOMAIN blocks /\ ~blocks[curr].isFree /\ new \notin DOMAIN live
      /\ req \in Requests /\ req <= blocks[curr].size /\ old \in DOMAIN live
  BY DEF IInv, CopyInv, Outgrown
<1>2. new \in 0 .. Word - 1 /\ Payload(curr) = new /\ new - Hdr = curr
  <2>1. new \in 0 .. Word - 1 /\ new - Hdr = curr
    BY <1>1, BlockFacts, KmemConstants
  <2> QED
    BY <2>1, WrapSmall DEF Payload
<1>3. curr # old - Hdr
  BY <1>1, LiveFacts, KmemConstants
<1>4. /\ DOMAIN live' = (DOMAIN live \ {old}) \cup {new} /\ live'[new] = req
      /\ \A q \in DOMAIN live : q # old => live'[q] = live[q]
  BY <1>1, <1>2 DEF With, Without, Restrict
<1>5. TypeOK'
  <2>1. \A q \in DOMAIN live' : q \in 0 .. Word - 1 /\ live'[q] \in Requests
    BY <1>1, <1>2, <1>4 DEF IInv, TypeOK
  <2>2. live' \in [DOMAIN live' -> Requests]
    BY <2>1 DEF With
  <2> QED
    BY <1>1, <2>1, <2>2, ReleaseFacts, KmemConstants DEF IInv, TypeOK, NULL
<1>6. LiveIntact'
  <2> SUFFICES ASSUME NEW q \in DOMAIN live'
               PROVE  /\ q - Hdr \in DOMAIN blocks' /\ ~blocks'[q - Hdr].isFree
                      /\ live'[q] <= blocks'[q - Hdr].size
    BY DEF LiveIntact
  <2>1. CASE q = new
    BY <1>1, <1>2, <1>3, <1>4, <2>1, ReleaseFacts
  <2>2. CASE q \in DOMAIN live /\ q # old
    <3>1. q - Hdr # old - Hdr
      BY <1>1, <2>2, LiveFacts, KmemConstants
    <3> QED
      BY <1>1, <1>4, <2>2, <3>1, ReleaseFacts DEF IInv, LiveIntact
  <2> QED
    BY <1>4, <2>1, <2>2
<1>7. NoLostBlock'
  <2> SUFFICES ASSUME NEW b \in DOMAIN blocks, ~blocks'[b].isFree
               PROVE  b + Hdr \in DOMAIN live'
    BY <1>1, ReleaseFacts DEF NoLostBlock
  <2>1. b # old - Hdr /\ blocks'[b] = blocks[b]
    BY <1>1, ReleaseFacts
  <2>2. b + Hdr # old
    BY <1>1, <2>1, LiveFacts, BlockFacts, KmemConstants
  <2> QED
    BY <1>4, <2>1, <2>2 DEF IInv, NoLostBlock
<1> QED
  BY <1>1, <1>5, <1>6, <1>7, ReleaseFacts DEF IInv

(* krealloc in place: the payload is large enough for the new request.     *)
LEMMA kreallocInPlaceKeeps ==
  ASSUME CallerContract, IInv, NEW p \in DOMAIN live, NEW n \in Requests,
         kreallocInPlace(p, n)
  PROVE  IInv'
<1> USE DEF kreallocInPlace
<1>1. BlockOf(p) = p - Hdr /\ p - Hdr \in DOMAIN blocks /\ n <= blocks[p - Hdr].size
  <2>1. BlockOf(p) = p - Hdr /\ p - Hdr \in DOMAIN blocks
    BY LiveFacts
  <2> QED
    BY <2>1, BlockFacts, KmemConstants
<1>2. /\ DOMAIN live' = DOMAIN live /\ live'[p] = n
      /\ \A q \in DOMAIN live : q # p => live'[q] = live[q]
  OBVIOUS
<1>3. TypeOK'
  <2>1. live' \in [DOMAIN live' -> Requests]
    BY DEF IInv, TypeOK
  <2> QED
    BY <1>2, <2>1 DEF IInv, TypeOK, heapVars, callVars
<1>4. HeapShape' /\ Tiled' /\ FullyCoalesced' /\ FirstFit'
  <2>1. HeapShape'
    BY <1>1 DEF IInv, HeapShape, heapVars, NoEntries
  <2> QED
    BY <2>1 DEF IInv, Tiled, EndOf, HeapEnd, FullyCoalesced, Mergeable, FirstFit, Fits,
                heapVars, callVars
<1>5. LiveIntact'
  BY <1>1, <1>2 DEF IInv, LiveIntact, heapVars
<1>6. NoLostBlock'
  BY <1>2 DEF IInv, NoLostBlock, heapVars, callVars
<1>7. SearchInv' /\ CopyInv' /\ CoalesceInv'
  BY DEF IInv, SearchInv, CopyInv, CoalesceInv, callVars
<1> QED
  BY <1>3, <1>4, <1>5, <1>6, <1>7 DEF IInv

(* Merging a free block with the free one after it: the latter leaves the  *)
(* list, the former now ends where it ended, all others are unchanged.     *)
LEMMA MergeShape ==
  ASSUME CallerContract, IInv, CoalesceMerge
  PROVE  LET n == blocks[curr].next IN
         /\ curr \in DOMAIN blocks /\ n \in DOMAIN blocks /\ n # curr
         /\ blocks[curr].isFree /\ blocks[n].isFree
         /\ n = curr + Hdr + blocks[curr].size
         /\ blocks[curr].size + Hdr + blocks[n].size \in 0 .. Word - 1
         /\ DOMAIN blocks' = DOMAIN blocks \ {n}
         /\ blocks'[curr] = [size |-> blocks[curr].size + Hdr + blocks[n].size,
                             isFree |-> blocks[curr].isFree, next |-> blocks[n].next]
         /\ \A b \in DOMAIN blocks' : b # curr => blocks'[b] = blocks[b]
<1> DEFINE n == blocks[curr].next
           big == [size |-> blocks[curr].size + Hdr + blocks[n].size,
                   isFree |-> blocks[curr].isFree, next |-> blocks[n].next]
           f == Without(blocks, n)
<1>1. curr \in DOMAIN blocks /\ n # NULL /\ blocks[curr].isFree /\ blocks[n].isFree
  BY DEF CoalesceMerge, Mergeable, IInv, CoalesceInv
<1>2. n \in DOMAIN blocks /\ n = curr + Hdr + blocks[curr].size
  BY <1>1, NextFacts
<1>3. n # curr /\ blocks[curr].size + Hdr + blocks[n].size \in 0 .. Word - 1
  BY <1>1, <1>2, BlockFacts, KmemConstants
<1>4. Wrap(blocks[curr].size + Hdr + blocks[n].size) = blocks[curr].size + Hdr + blocks[n].size
  BY <1>3, WrapSmall
<1>5. blocks' = With(f, curr, big)
  BY <1>4 DEF CoalesceMerge, Merge
<1>6. DOMAIN f = DOMAIN blocks \ {n} /\ \A b \in DOMAIN f : f[b] = blocks[b]
  BY DEF Without, Restrict
<1> HIDE DEF f, big
<1>7. /\ DOMAIN blocks' = DOMAIN f \cup {curr} /\ blocks'[curr] = big
      /\ \A b \in DOMAIN f : b # curr => blocks'[b] = f[b]
  BY <1>5 DEF With
<1> HIDE DEF n
<1>8. /\ DOMAIN blocks' = DOMAIN blocks \ {n}
      /\ \A b \in DOMAIN blocks' : b # curr => blocks'[b] = blocks[b]
  BY <1>1, <1>3, <1>6, <1>7
<1> QED
  BY <1>1, <1>2, <1>3, <1>7, <1>8 DEF big, n

(* A merge keeps the tiling: the gap a removed header would leave is now   *)
(* payload, and no other block was followed by the removed one.            *)
LEMMA MergeTiled ==
  ASSUME CallerContract, IInv, CoalesceMerge PROVE Tiled'
<1> DEFINE n == blocks[curr].next
           After(b) == b + Hdr + blocks'[b].size
<1>0. heapStart' = heapStart /\ heapSize' = heapSize /\ HeapEnd' = HeapEnd
  BY DEF CoalesceMerge, HeapEnd
<1>1. /\ curr \in DOMAIN blocks /\ n \in DOMAIN blocks /\ n # curr
      /\ n = curr + Hdr + blocks[curr].size
      /\ blocks[curr].size + Hdr + blocks[n].size \in 0 .. Word - 1
      /\ DOMAIN blocks' = DOMAIN blocks \ {n}
      /\ blocks'[curr].size = blocks[curr].size + Hdr + blocks[n].size
      /\ blocks'[curr].next = blocks[n].next
      /\ \A b \in DOMAIN blocks' : b # curr => blocks'[b] = blocks[b]
  BY MergeShape
<1> HIDE DEF n
<1>2. heapStart # NULL
  BY <1>1, BlockFacts
<1>3. /\ \A b \in DOMAIN blocks :
           /\ b \in Int /\ blocks[b].size \in Nat /\ heapStart <= b /\ EndOf(b) <= HeapEnd
           /\ blocks[b].next = IF EndOf(b) = HeapEnd THEN NULL ELSE EndOf(b)
           /\ blocks[b].next # NULL => blocks[b].next \in DOMAIN blocks
      /\ \A a, b \in DOMAIN blocks : a < b => EndOf(a) <= b
      /\ heapStart \in DOMAIN blocks
  BY <1>2, BlockFacts DEF IInv, Tiled
<1>4. /\ After(curr) = EndOf(n) /\ EndOf(curr) = n
      /\ \A b \in DOMAIN blocks' : b # curr => After(b) = EndOf(b)
  BY <1>1, <1>3, KmemConstants DEF EndOf
<1>5. heapStart # n
  BY <1>1, <1>3, KmemConstants
<1>6. ASSUME NEW b \in DOMAIN blocks'
      PROVE  /\ heapStart <= b /\ After(b) <= HeapEnd
             /\ blocks'[b].next = IF After(b) = HeapEnd THEN NULL ELSE After(b)
             /\ blocks'[b].next # NULL => blocks'[b].next \in DOMAIN blocks'
  <2>1. b \in DOMAIN blocks /\ b # n
    BY <1>1
  <2>2. CASE b = curr
    <3>1. n < EndOf(n) /\ n # 0
      <4>1. n \in 1 .. Word - 1 /\ blocks[n].size \in Nat
        BY <1>1, <1>3, BlockFacts
      <4> QED
        BY <4>1, KmemConstants DEF EndOf
    <3>2. blocks[n].next # n
      BY <1>1, <1>3, <3>1 DEF NULL
    <3>3. heapStart <= b
      BY <1>1, <1>3, <2>2
    <3>4. After(b) = EndOf(n) /\ blocks'[b].next = blocks[n].next
      BY <1>1, <1>4, <2>2
    <3> QED
      BY <1>1, <1>3, <3>2, <3>3, <3>4
  <2>3. CASE b # curr
    <3>1. blocks'[b] = blocks[b] /\ After(b) = EndOf(b)
      BY <1>1, <1>4, <2>3
    <3>2. ASSUME blocks[b].next # NULL, blocks[b].next = n PROVE FALSE
      <4>1. EndOf(b) = n
        BY <1>3, <2>1, <3>2
      <4>2. b < curr \/ curr < b
        BY <1>1, <1>3, <2>1, <2>3
      <4>3. ~(b < curr)
        BY <1>1, <1>3, <2>1, <4>1, KmemConstants
      <4>4. ~(curr < b)
        BY <1>1, <1>3, <1>4, <2>1, <4>1, KmemConstants DEF EndOf
      <4> QED
        BY <4>2, <4>3, <4>4
    <3> QED
      BY <1>1, <1>3, <2>1, <3>1, <3>2
  <2> QED
    BY <2>2, <2>3
<1>7. ASSUME NEW a \in DOMAIN blocks', NEW b \in DOMAIN blocks', a < b
      PROVE  After(a) <= b
  <2>1. a \in DOMAIN blocks /\ b \in DOMAIN blocks /\ b # n
    BY <1>1
  <2>2. CASE a = curr
    <3>1. n <= b
      BY <1>3, <1>4, <1>7, <2>1, <2>2
    <3>2. n < b
      BY <1>1, <1>3, <2>1, <3>1
    <3>3. EndOf(n) <= b
      BY <1>1, <1>3, <2>1, <3>2
    <3> QED
      BY <1>4, <2>2, <3>3
  <2>3. CASE a # curr
    BY <1>3, <1>4, <1>7, <2>1, <2>3
  <2> QED
    BY <2>2, <2>3
<1>8. heapStart \in DOMAIN blocks'
  BY <1>1, <1>3, <1>5
<1> QED
  BY <1>0, <1>6, <1>7, <1>8 DEF Tiled, EndOf

(* A step of the loop that merges keeps the invariant.                     *)
LEMMA CoalesceMergeKeeps ==
  ASSUME CallerContract, IInv, CoalesceMerge PROVE IInv'
<1> DEFINE n == blocks[curr].next
<1>0. /\ heapStart' = heapStart /\ heapSize' = heapSize /\ live' = live
      /\ pc = "coalesce" /\ pc' = "coalesce" /\ curr' = curr /\ size' = size /\ req' = req
      /\ old' = old /\ curr # NULL
  BY DEF CoalesceMerge, callVars
<1>1. /\ curr \in DOMAIN blocks /\ n \in DOMAIN blocks /\ n # curr
      /\ n = curr + Hdr + blocks[curr].size
      /\ blocks[curr].isFree /\ blocks[n].isFree
      /\ blocks[curr].size + Hdr + blocks[n].size \in 0 .. Word - 1
      /\ DOMAIN blocks' = DOMAIN blocks \ {n}
      /\ blocks'[curr] = [size |-> blocks[curr].size + Hdr + blocks[n].size,
                          isFree |-> blocks[curr].isFree, next |-> blocks[n].next]
      /\ \A b \in DOMAIN blocks' : b # curr => blocks'[b] = blocks[b]
  BY MergeShape
<1> HIDE DEF n
<1>2. heapStart # NULL
  BY <1>1, BlockFacts
<1>3. TypeOK'
  <2>1. blocks[n].next \in 0 .. Word - 1
    BY <1>1, BlockFacts
  <2>2. blocks'[curr] \in Header
    BY <1>1, <2>1 DEF Header
  <2>3. \A b \in DOMAIN blocks' : b \in 1 .. Word - 1 /\ blocks'[b] \in Header
    BY <1>1, <2>2 DEF IInv, TypeOK
  <2>4. blocks' \in [DOMAIN blocks' -> Header]
    BY <2>3 DEF CoalesceMerge, Merge, With
  <2> QED
    BY <1>0, <2>3, <2>4 DEF IInv, TypeOK
<1>4. HeapShape'
  BY <1>0, <1>2 DEF IInv, HeapShape
<1>5. LiveIntact'
  <2> SUFFICES ASSUME NEW p \in DOMAIN live
               PROVE  p - Hdr \in DOMAIN blocks' /\ blocks'[p - Hdr] = blocks[p - Hdr]
    BY <1>0 DEF IInv, LiveIntact
  <2>1. p - Hdr \in DOMAIN blocks /\ p - Hdr # curr /\ p - Hdr # n
    BY <1>1, LiveFacts
  <2> QED
    BY <1>1, <2>1
<1>6. NoLostBlock'
  <2> SUFFICES ASSUME NEW b \in DOMAIN blocks', ~blocks'[b].isFree
               PROVE  b + Hdr \in DOMAIN live
    BY <1>0 DEF NoLostBlock
  <2>1. b # curr /\ blocks'[b] = blocks[b] /\ b \in DOMAIN blocks
    BY <1>1
  <2> QED
    BY <1>0, <2>1 DEF IInv, NoLostBlock
<1>7. FullyCoalesced' /\ FirstFit' /\ SearchInv' /\ CopyInv'
  BY <1>0 DEF FullyCoalesced, FirstFit, SearchInv, CopyInv
<1>8. CoalesceInv'
  <2> SUFFICES ASSUME NEW b \in DOMAIN blocks', b < curr, blocks'[b].next # NULL
               PROVE  ~(blocks'[b].isFree /\ blocks'[blocks'[b].next].isFree)
    BY <1>0, <1>1 DEF CoalesceInv, Mergeable
  <2>1. b # curr /\ blocks'[b] = blocks[b] /\ b \in DOMAIN blocks
    BY <1>1, BlockFacts
  <2>2. ~(blocks[b].isFree /\ blocks[blocks[b].next].isFree)
    BY <1>0, <2>1 DEF IInv, CoalesceInv, Mergeable
  <2>3. blocks'[b].next \in DOMAIN blocks'
    BY MergeTiled, <1>0, <1>2 DEF Tiled
  <2>4. blocks'[curr].isFree = blocks[curr].isFree
    BY <1>1
  <2>5. blocks'[blocks'[b].next].isFree = blocks[blocks[b].next].isFree
    BY <1>1, <2>1, <2>3, <2>4
  <2> QED
    BY <2>1, <2>2, <2>5
<1> QED
  BY <1>3, <1>4, <1>5, <1>6, <1>7, <1>8, MergeTiled DEF IInv

(* kmemInit makes one free block that is the whole heap.                   *)
LEMMA kmemInitKeeps ==
  ASSUME CallerContract, IInv, NEW bytes \in HeapSizes, kmemInit(HeapBase, bytes)
  PROVE  IInv'
<1> USE DEF kmemInit
<1>1. bytes \in 0 .. Word - 1 /\ Hdr <= bytes /\ HeapBase + bytes < Word
  BY KmemConstants DEF CallerContract
<1>2. Wrap(bytes - Hdr) = bytes - Hdr
  BY <1>1, WrapSmall, KmemConstants
<1>3. live = NoEntries
  BY DEF IInv, HeapShape
<1>4. /\ heapStart' = HeapBase /\ heapSize' = bytes /\ live' = live /\ pc' = "idle"
      /\ size' = size /\ req' = req /\ old' = old /\ curr' = curr /\ HeapBase # NULL
  BY KmemConstants DEF callVars, NULL
<1>5. /\ DOMAIN blocks' = {HeapBase}
      /\ blocks'[HeapBase] = [size |-> bytes - Hdr, isFree |-> TRUE, next |-> NULL]
  BY <1>2 DEF With, NoEntries
<1>6. TypeOK'
  <2>0. bytes - Hdr \in 0 .. Word - 1 /\ NULL \in 0 .. Word - 1
    BY <1>1, KmemConstants DEF NULL
  <2>1. [size |-> bytes - Hdr, isFree |-> TRUE, next |-> NULL] \in Header
    BY <2>0 DEF Header
  <2> HIDE DEF kmemInit
  <2>2. \A b \in DOMAIN blocks' : blocks'[b] \in Header
    BY <1>5, <2>1
  <2>3. blocks' \in [DOMAIN blocks' -> Header]
    BY <2>2 DEF kmemInit, With
  <2> QED
    BY <1>1, <1>4, <1>5, <2>3, KmemConstants DEF IInv, TypeOK
<1>7. HeapShape'
  BY <1>4 DEF HeapShape
<1>8. Tiled'
  <2>0. blocks'[HeapBase].size = bytes - Hdr /\ blocks'[HeapBase].next = NULL
    BY <1>5
  <2>1. EndOf(HeapBase)' = HeapBase + bytes /\ HeapEnd' = HeapBase + bytes
    BY <1>1, <1>4, <2>0, KmemConstants DEF EndOf, HeapEnd
  <2>2. HeapBase \in Int /\ bytes \in Int /\ HeapBase + bytes \in Int
    BY <1>1, KmemConstants
  <2> HIDE DEF kmemInit
  <2>3. ASSUME NEW b \in DOMAIN blocks'
        PROVE  /\ heapStart' <= b /\ EndOf(b)' <= HeapEnd'
               /\ blocks'[b].next = IF EndOf(b)' = HeapEnd' THEN NULL ELSE EndOf(b)'
               /\ blocks'[b].next = NULL
    <3>1. b = HeapBase
      BY <1>5
    <3>2. heapStart' <= b /\ EndOf(b)' = HeapEnd' /\ HeapEnd' \in Int
      BY <1>4, <2>1, <2>2, <3>1
    <3> QED
      BY <2>0, <3>1, <3>2
  <2>4. ASSUME NEW a \in DOMAIN blocks', NEW b \in DOMAIN blocks', a < b
        PROVE  FALSE
    BY <1>5, <2>2, <2>4
  <2> QED
    BY <1>4, <1>5, <2>3, <2>4 DEF Tiled
<1>9. LiveIntact' /\ NoLostBlock'
  BY <1>3, <1>4, <1>5 DEF LiveIntact, NoLostBlock, NoEntries
<1>10. FullyCoalesced' /\ FirstFit' /\ SearchInv' /\ CopyInv' /\ CoalesceInv'
  BY <1>4, <1>5 DEF FullyCoalesced, FirstFit, SearchInv, CopyInv, CoalesceInv
<1> QED
  BY <1>6, <1>7, <1>8, <1>9, <1>10 DEF IInv

-----------------------------------------------------------------------------
(* The theorems.                                                           *)

(* Every step of the allocator keeps the invariant.                        *)
LEMMA NextKeeps ==
  ASSUME CallerContract, IInv, [Next]_vars PROVE IInv'
<1>1. CASE UNCHANGED vars
  <2>1. UNCHANGED <<heapVars, live, callVars>>
    BY <1>1 DEF vars
  <2>2. TypeOK' /\ HeapShape' /\ Tiled' /\ LiveIntact'
    BY <2>1, SameHeap DEF TypeOK, IInv, callVars
  <2>3. NoLostBlock' /\ FullyCoalesced' /\ FirstFit'
    BY <2>1 DEF IInv, NoLostBlock, FullyCoalesced, FirstFit, Mergeable, Fits, heapVars, callVars
  <2>4. SearchInv' /\ CopyInv' /\ CoalesceInv'
    BY <2>1 DEF IInv, SearchInv, CopyInv, CoalesceInv, Outgrown, Mergeable, heapVars, callVars
  <2> QED
    BY <2>2, <2>3, <2>4 DEF IInv
<1>2. ASSUME NEW bytes \in HeapSizes, kmemInit(HeapBase, bytes) PROVE IInv'
  BY <1>2, kmemInitKeeps
<1>3. ASSUME NEW n \in Requests, kmalloc(n) PROVE IInv'
  BY <1>3, kmallocKeeps
<1>4. ASSUME NEW p \in DOMAIN live, kfree(p) PROVE IInv'
  BY <1>4, kfreeKeeps
<1>5. ASSUME NEW p \in DOMAIN live, NEW n \in Requests, kreallocInPlace(p, n) PROVE IInv'
  BY <1>5, kreallocInPlaceKeeps
<1>6. ASSUME NEW p \in DOMAIN live, NEW n \in Requests, kreallocMove(p, n) PROVE IInv'
  BY <1>6, kreallocMoveKeeps
<1>7. ASSUME Step PROVE IInv'
  BY <1>7, SearchNextKeeps, SearchReturnsKeeps, SearchForMoveKeeps, SearchFailsKeeps,
     KreallocCopyKeeps, CoalesceMergeKeeps, CoalesceNextKeeps, CoalesceEndKeeps DEF Step
<1> QED
  BY <1>1, <1>2, <1>3, <1>4, <1>5, <1>6, <1>7 DEF Next, Call

(* The strengthened invariant holds of every behaviour of the allocator    *)
(* whose callers keep the contract.                                        *)
THEOREM Invariance == CallerContract => (Spec => []IInv)
<1> SUFFICES ASSUME CallerContract PROVE Spec => []IInv
  OBVIOUS
<1>1. Init => IInv
  BY InitKeeps
<1>2. IInv /\ [Next]_vars => IInv'
  BY NextKeeps
<1> QED
  BY <1>1, <1>2, PTL DEF Spec

(* Every variable of the allocator always has its type.                    *)
THEOREM TypeCorrect == CallerContract => (Spec => []TypeOK)
<1>1. IInv => TypeOK
  BY DEF IInv
<1> QED
  BY <1>1, Invariance, PTL

(* The blocks on the list always tile the heap, whatever sequence of       *)
(* kmalloc, kfree and krealloc is called (pmmgr.c:23-77).                  *)
THEOREM AlwaysTiled == CallerContract => (Spec => []Tiled)
<1>1. IInv => Tiled
  BY DEF IInv
<1> QED
  BY <1>1, Invariance, PTL

(* What a caller was given is always inside a used block of its own.       *)
THEOREM AlwaysIntact == CallerContract => (Spec => []LiveIntact)
<1>1. IInv => LiveIntact
  BY DEF IInv
<1> QED
  BY <1>1, Invariance, PTL

(* No block is ever marked used without a caller who can free it.          *)
THEOREM NeverLost == CallerContract => (Spec => []NoLostBlock)
<1>1. IInv => NoLostBlock
  BY DEF IInv
<1> QED
  BY <1>1, Invariance, PTL

(* Outside kfree's loop no two free blocks are neighbours.                 *)
THEOREM AlwaysCoalesced == CallerContract => (Spec => []FullyCoalesced)
<1>1. IInv => FullyCoalesced
  BY DEF IInv
<1> QED
  BY <1>1, Invariance, PTL

(* The search never passes a block that fits; NULL means nothing fits.     *)
THEOREM AlwaysFirstFit == CallerContract => (Spec => []FirstFit)
<1>1. IInv => FirstFit
  BY DEF IInv
<1> QED
  BY <1>1, Invariance, PTL

(* krealloc's memcpy reads and writes two disjoint payloads on the list.   *)
THEOREM AlwaysCopyInBounds == CallerContract => (Spec => []CopyInBounds)
<1>1. ASSUME CallerContract, IInv PROVE CopyInBounds
  <2> SUFFICES ASSUME pc = "copy"
               PROVE  /\ old - Hdr \in DOMAIN blocks /\ curr \in DOMAIN blocks
                      /\ blocks[old - Hdr].size <= blocks[curr].size
                      /\ EndOf(old - Hdr) <= curr \/ EndOf(curr) <= old - Hdr
    BY DEF CopyInBounds
  <2>1. /\ curr \in DOMAIN blocks /\ curr + Hdr \notin DOMAIN live
        /\ req \in Requests /\ req <= blocks[curr].size
        /\ old \in DOMAIN live /\ blocks[old - Hdr].size < req
    BY <1>1 DEF IInv, CopyInv, Outgrown
  <2>2. old - Hdr \in DOMAIN blocks /\ old \in Int
    BY <1>1, <2>1, LiveFacts
  <2>3. blocks[old - Hdr].size <= blocks[curr].size
    BY <1>1, <2>1, <2>2, BlockFacts, KmemConstants
  <2>4. curr # old - Hdr /\ curr \in Int /\ old - Hdr \in Int
    BY <1>1, <2>1, <2>2, BlockFacts, KmemConstants
  <2>5. curr < old - Hdr \/ old - Hdr < curr
    BY <2>4
  <2>6. heapStart # NULL
    BY <1>1, <2>1, BlockFacts
  <2>7. \A a, b \in DOMAIN blocks : a < b => EndOf(a) <= b
    BY <1>1, <2>6 DEF IInv, Tiled
  <2> QED
    BY <2>1, <2>2, <2>3, <2>5, <2>7
<1>2. CallerContract => (IInv => CopyInBounds)
  BY <1>1
<1> SUFFICES ASSUME CallerContract PROVE Spec => []CopyInBounds
  OBVIOUS
<1>3. IInv => CopyInBounds
  BY <1>2
<1> QED
  BY <1>3, Invariance, PTL

(* When every allocation has been given back the heap is one free block    *)
(* again: all blocks are free, so none has a successor, so each of them    *)
(* ends where the heap does, and there is only one such block.             *)
THEOREM AlwaysRecovered == CallerContract => (Spec => []HeapRecovered)
<1>1. ASSUME CallerContract, IInv PROVE HeapRecovered
  <2> SUFFICES ASSUME pc = "idle", live = NoEntries, heapStart # NULL
               PROVE  blocks = With(NoEntries, heapStart,
                                    [size |-> heapSize - Hdr, isFree |-> TRUE, next |-> NULL])
    BY DEF HeapRecovered
  <2>1. /\ heapStart \in DOMAIN blocks
        /\ \A b \in DOMAIN blocks :
             /\ EndOf(b) <= HeapEnd
             /\ blocks[b].next = IF EndOf(b) = HeapEnd THEN NULL ELSE EndOf(b)
             /\ blocks[b].next # NULL => blocks[b].next \in DOMAIN blocks
        /\ \A a, b \in DOMAIN blocks : a < b => EndOf(a) <= b
    BY <1>1 DEF IInv, Tiled
  <2>2. \A b \in DOMAIN blocks : blocks[b].isFree
    BY <1>1 DEF IInv, NoLostBlock, NoEntries
  <2>3. \A b \in DOMAIN blocks : blocks[b].next = NULL
    BY <1>1, <2>1, <2>2 DEF IInv, FullyCoalesced, Mergeable
  <2>4. \A b \in DOMAIN blocks : b \in 1 .. Word - 1 /\ blocks[b].size \in 0 .. Word - 1
                                 /\ heapStart <= b /\ heapStart \in Nat /\ heapSize \in Nat
    BY <1>1, BlockFacts
  <2>5. \A b \in DOMAIN blocks : EndOf(b) = HeapEnd
    <3> SUFFICES ASSUME NEW b \in DOMAIN blocks, EndOf(b) # HeapEnd PROVE FALSE
      OBVIOUS
    <3>1. EndOf(b) = NULL
      BY <2>1, <2>3
    <3> QED
      BY <2>4, <3>1, KmemConstants DEF EndOf, NULL
  <2>6. ASSUME NEW b \in DOMAIN blocks PROVE b = heapStart
    <3> SUFFICES ASSUME heapStart < b PROVE FALSE
      BY <2>1, <2>4
    <3>1. HeapEnd <= b
      BY <2>1, <2>5
    <3>2. b < EndOf(b)
      BY <2>4, KmemConstants DEF EndOf
    <3> QED
      BY <2>4, <2>5, <3>1, <3>2 DEF HeapEnd
  <2>7. DOMAIN blocks = {heapStart}
    BY <2>1, <2>6
  <2>8. blocks[heapStart] = [size |-> heapSize - Hdr, isFree |-> TRUE, next |-> NULL]
    <3>1. blocks[heapStart].size = heapSize - Hdr
      BY <2>1, <2>4, <2>5, KmemConstants DEF EndOf, HeapEnd
    <3>2. blocks[heapStart].isFree = TRUE
      BY <1>1, <2>1, <2>2, BlockFacts
    <3>3. blocks[heapStart].next = NULL
      BY <2>1, <2>3
    <3>4. blocks[heapStart] = [size |-> blocks[heapStart].size,
             isFree |-> blocks[heapStart].isFree, next |-> blocks[heapStart].next]
      BY <1>1, <2>1, BlockFacts
    <3> QED
      BY <3>1, <3>2, <3>3, <3>4
  <2>9. blocks \in [DOMAIN blocks -> Header]
    BY <1>1 DEF IInv, TypeOK
  <2> QED
    BY <2>7, <2>8, <2>9 DEF With, NoEntries
<1>2. CallerContract => (IInv => HeapRecovered)
  BY <1>1
<1> SUFFICES ASSUME CallerContract PROVE Spec => []HeapRecovered
  OBVIOUS
<1>3. IInv => HeapRecovered
  BY <1>2
<1> QED
  BY <1>3, Invariance, PTL
==============================================================================

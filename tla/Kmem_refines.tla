---------------------------- MODULE Kmem_refines ----------------------------
(***************************************************************************)
(* Proof that the free-list allocator implements AllocSpec: the first      *)
(* state maps to a first state, and every step to a step or a stutter.     *)
(***************************************************************************)
EXTENDS Kmem_proofs

(* Two different blocks have disjoint payloads, so what fits in them is    *)
(* apart, and lies in the arena.                                           *)
LEMMA PayloadsApart ==
  ASSUME CallerContract, IInv,
         NEW b \in DOMAIN blocks, NEW c \in DOMAIN blocks,
         NEW n \in Nat, NEW m \in Nat, n <= blocks[b].size, m <= blocks[c].size
  PROVE  /\ b # c => b + Hdr + n <= c + Hdr \/ c + Hdr + m <= b + Hdr
         /\ heapStart <= b + Hdr /\ b + Hdr + n <= HeapEnd
<1>1. /\ b \in 1 .. Word - 1 /\ c \in 1 .. Word - 1 /\ heapStart <= b
      /\ blocks[b].size \in 0 .. Word - 1 /\ blocks[c].size \in 0 .. Word - 1
      /\ heapStart \in 1 .. Word - 1 /\ heapSize \in 0 .. Word - 1
      /\ b + Hdr + blocks[b].size <= heapStart + heapSize /\ heapStart # NULL
  BY BlockFacts
<1>2. b # c => b + Hdr + blocks[b].size <= c \/ c + Hdr + blocks[c].size <= b
  BY <1>1 DEF IInv, Tiled, EndOf
<1> QED
  BY <1>1, <1>2, KmemConstants DEF HeapEnd

(* Requests are naturals.                                                  *)
LEMMA RequestNat == \A r \in Requests : r \in Nat
  BY KmemConstants

(* A live allocation fits in its block.                                    *)
LEMMA LiveFits ==
  ASSUME CallerContract, IInv, NEW p \in DOMAIN live
  PROVE  /\ p \in Int /\ p - Hdr \in DOMAIN blocks /\ (p - Hdr) + Hdr = p
         /\ live[p] \in Nat /\ live[p] <= blocks[p - Hdr].size
<1>1. p \in Int /\ p - Hdr \in DOMAIN blocks /\ live[p] \in Requests
  BY LiveFacts
<1>2. live[p] <= blocks[p - Hdr].size
  BY DEF IInv, LiveIntact
<1>3. live[p] \in Nat
  BY <1>1, RequestNat
<1>4. Hdr \in Int
  BY KmemConstants
<1>5. (p - Hdr) + Hdr = p
  BY <1>1, <1>4
<1> QED
  BY <1>1, <1>2, <1>3, <1>5

(* The state before kmemInit is the abstract initial state.                *)
LEMMA InitRefines == Init => Abstract!AInit
  BY KmemConstants DEF Init, NULL, NoEntries, Arena, HeapEnd, Abstract!AInit, Abstract!NoArena

(* kmemInit opens the arena.                                               *)
LEMMA kmemInitRefines ==
  ASSUME CallerContract, IInv, NEW bytes \in HeapSizes, kmemInit(HeapBase, bytes)
  PROVE  Abstract!ANext
<1> USE DEF kmemInit
<1>1. heapStart = 0 /\ heapSize = 0
  BY DEF IInv, HeapShape, NULL
<1>2. Arena = [lo |-> 0, hi |-> 0]
  BY <1>1 DEF Arena, HeapEnd
<1>3. Arena' = [lo |-> HeapBase, hi |-> HeapBase + bytes] /\ live' = live
  BY DEF Arena, HeapEnd
<1>4. Abstract!Open([lo |-> HeapBase, hi |-> HeapBase + bytes])
  BY <1>2, <1>3 DEF Abstract!Open, Abstract!NoArena
<1> QED
  BY <1>4 DEF Abstract!ANext

(* A block that is taken for a live pointer's sake is apart from all that  *)
(* is live: granting its payload is a legal abstract step.                 *)
LEMMA Grantable ==
  ASSUME CallerContract, IInv, NEW b \in DOMAIN blocks, NEW n \in Requests,
         n <= blocks[b].size, b + Hdr \notin DOMAIN live
  PROVE  /\ Abstract!Grantable(b + Hdr, n)
         /\ b + Hdr \in Arena.lo .. Arena.hi
<1>1. n \in Nat
  BY KmemConstants
<1>2. /\ heapStart <= b + Hdr /\ b + Hdr + n <= HeapEnd
      /\ b \in Int /\ heapStart \in Int /\ HeapEnd \in Int
  BY <1>1, PayloadsApart, BlockFacts DEF HeapEnd
<1>3. Arena.lo = heapStart /\ Arena.hi = HeapEnd
  BY DEF Arena
<1>4. ASSUME NEW q \in DOMAIN live
      PROVE  b + Hdr + n <= q \/ q + live[q] <= b + Hdr
  <2>1. /\ q \in Int /\ q - Hdr \in DOMAIN blocks /\ (q - Hdr) + Hdr = q
        /\ live[q] \in Nat /\ live[q] <= blocks[q - Hdr].size
    BY LiveFits
  <2>2. q - Hdr # b
    BY <2>1
  <2>3. b + Hdr + n <= (q - Hdr) + Hdr \/ (q - Hdr) + Hdr + live[q] <= b + Hdr
    BY <1>1, <2>1, <2>2, PayloadsApart
  <2> QED
    BY <2>1, <2>3
<1>5. Abstract!Grantable(b + Hdr, n)
  BY <1>2, <1>3, <1>4 DEF Abstract!Grantable, Abstract!InArena, Abstract!Apart
<1>6. b + Hdr \in Arena.lo .. Arena.hi
  BY <1>1, <1>2, <1>3, KmemConstants
<1> QED
  BY <1>5, <1>6

(* A plain kmalloc that returns a block grants its payload.                *)
LEMMA SearchReturnsRefines ==
  ASSUME CallerContract, IInv, SearchReturns PROVE Abstract!ANext
<1>1. /\ curr \in DOMAIN blocks /\ blocks[curr].isFree /\ size <= blocks[curr].size
      /\ TakeCurrent
  BY TakeShape DEF SearchReturns
<1>2. req \in Requests /\ req <= size /\ size \in Nat /\ req \in Nat
  BY <1>1, AlignUp, KmemConstants DEF IInv, SearchInv, TakeCurrent, TypeOK
<1>3. req <= blocks[curr].size
  BY <1>1, <1>2, BlockFacts
<1>4. curr + Hdr \notin DOMAIN live
  <2> SUFFICES ASSUME curr + Hdr \in DOMAIN live PROVE FALSE
    OBVIOUS
  <2>1. ~blocks[(curr + Hdr) - Hdr].isFree
    BY LiveFacts
  <2>2. (curr + Hdr) - Hdr = curr
    BY <1>1, BlockFacts, KmemConstants
  <2> QED
    BY <1>1, <2>1, <2>2
<1>5. Payload(curr) = curr + Hdr
  BY <1>1, TakeRequest
<1>6. Arena' = Arena /\ live' = With(live, curr + Hdr, req)
  BY <1>5 DEF SearchReturns, TakeCurrent, Arena, HeapEnd
<1>7. Abstract!Grant(curr + Hdr, req)
  BY <1>1, <1>2, <1>3, <1>4, <1>6, Grantable DEF Abstract!Grant, With
<1>8. curr + Hdr \in Arena.lo .. Arena.hi
  BY <1>1, <1>2, <1>3, <1>4, Grantable
<1> QED
  BY <1>2, <1>7, <1>8 DEF Abstract!ANext

(* kfree gives its pointer back at once; the coalescing is not visible.    *)
LEMMA kfreeRefines ==
  ASSUME NEW p \in DOMAIN live, kfree(p) PROVE Abstract!ANext
<1>1. Arena' = Arena
  BY DEF kfree, Release, Arena, HeapEnd
<1>2. Abstract!GiveBack(p)
  BY <1>1 DEF kfree, Abstract!GiveBack, Without, Restrict
<1> QED
  BY <1>2 DEF Abstract!ANext

(* krealloc in place is a resize.                                          *)
LEMMA kreallocInPlaceRefines ==
  ASSUME CallerContract, IInv, NEW p \in DOMAIN live, NEW n \in Requests,
         kreallocInPlace(p, n)
  PROVE  Abstract!ANext
<1>1. /\ p \in Int /\ p - Hdr \in DOMAIN blocks /\ (p - Hdr) + Hdr = p
  BY LiveFits
<1>2. n \in Nat /\ n <= blocks[p - Hdr].size
  BY <1>1, LiveFacts, BlockFacts, KmemConstants DEF kreallocInPlace
<1>3. ASSUME NEW q \in DOMAIN live \ {p}
      PROVE  p + n <= q \/ q + live[q] <= p
  <2>1. /\ q \in Int /\ q - Hdr \in DOMAIN blocks /\ (q - Hdr) + Hdr = q
        /\ live[q] \in Nat /\ live[q] <= blocks[q - Hdr].size
    BY LiveFits
  <2>2. q - Hdr # p - Hdr
    BY <1>1, <2>1
  <2>3. (p - Hdr) + Hdr + n <= (q - Hdr) + Hdr \/ (q - Hdr) + Hdr + live[q] <= (p - Hdr) + Hdr
    BY <1>1, <1>2, <2>1, <2>2, PayloadsApart
  <2> QED
    BY <1>1, <2>1, <2>3
<1>4. heapStart <= (p - Hdr) + Hdr /\ (p - Hdr) + Hdr + n <= HeapEnd
  BY <1>1, <1>2, PayloadsApart
<1>5. Arena.lo <= p /\ p + n <= Arena.hi /\ Arena' = Arena
  BY <1>1, <1>4 DEF Arena, HeapEnd, kreallocInPlace, heapVars
<1>6. Abstract!Resize(p, n)
  BY <1>3, <1>5 DEF Abstract!Resize, Abstract!InArena, Abstract!Apart, kreallocInPlace
<1> QED
  BY <1>6 DEF Abstract!ANext

(* krealloc's copy is the abstract move: until then its caller holds the   *)
(* old allocation, and the new one is apart from it.                       *)
LEMMA KreallocCopyRefines ==
  ASSUME CallerContract, IInv, KreallocCopy PROVE Abstract!ANext
<1>1. /\ curr \in DOMAIN blocks /\ curr + Hdr \notin DOMAIN live
      /\ req \in Requests /\ req <= blocks[curr].size /\ old \in DOMAIN live
  BY DEF KreallocCopy, IInv, CopyInv, Outgrown
<1>2. Payload(curr) = curr + Hdr
  <2>1. curr + Hdr \in 0 .. Word - 1
    BY <1>1, BlockFacts, KmemConstants
  <2> QED
    BY <2>1, WrapSmall DEF Payload
<1>3. Arena' = Arena /\ live' = With(Without(live, old), curr + Hdr, req)
  BY <1>2 DEF KreallocCopy, Release, Arena, HeapEnd
<1>4. live' = [r \in (DOMAIN live \ {old}) \cup {curr + Hdr} |->
                 IF r = curr + Hdr THEN req ELSE live[r]]
  BY <1>3 DEF With, Without, Restrict
<1>5. Abstract!Move(old, curr + Hdr, req)
  BY <1>1, <1>3, <1>4, Grantable DEF Abstract!Move
<1>6. curr + Hdr \in Arena.lo .. Arena.hi
  BY <1>1, Grantable
<1> QED
  BY <1>1, <1>5, <1>6 DEF Abstract!ANext

(* Every step of the allocator is an abstract step or changes nothing that *)
(* callers can see.                                                        *)
LEMMA NextRefines ==
  ASSUME CallerContract, IInv, [Next]_vars
  PROVE  [Abstract!ANext]_(Abstract!avars)
<1> SUFFICES ASSUME ~(Arena' = Arena /\ live' = live) PROVE Abstract!ANext
  BY DEF Abstract!avars
<1>0. ~UNCHANGED <<heapStart, heapSize, live>>
  BY DEF Arena, HeapEnd
<1>1. ASSUME NEW bytes \in HeapSizes, kmemInit(HeapBase, bytes) PROVE Abstract!ANext
  BY <1>1, kmemInitRefines
<1>2. ASSUME NEW n \in Requests, kmalloc(n) PROVE FALSE
  BY <1>0, <1>2 DEF kmalloc, StartSearch, heapVars
<1>3. ASSUME NEW p \in DOMAIN live, kfree(p) PROVE Abstract!ANext
  BY <1>3, kfreeRefines
<1>4. ASSUME NEW p \in DOMAIN live, NEW n \in Requests, kreallocInPlace(p, n)
      PROVE  Abstract!ANext
  BY <1>4, kreallocInPlaceRefines
<1>5. ASSUME NEW p \in DOMAIN live, NEW n \in Requests, kreallocMove(p, n) PROVE FALSE
  BY <1>0, <1>5 DEF kreallocMove, StartSearch, heapVars
<1>6. ASSUME SearchNext \/ SearchForMove \/ SearchFails PROVE FALSE
  BY <1>0, <1>6 DEF SearchNext, SearchForMove, TakeCurrent, SearchFails, heapVars
<1>7. ASSUME CoalesceMerge \/ CoalesceNext \/ CoalesceEnd PROVE FALSE
  BY <1>0, <1>7 DEF CoalesceMerge, CoalesceNext, CoalesceEnd, heapVars
<1>8. ~UNCHANGED vars
  BY <1>0 DEF vars, heapVars
<1> QED
  BY <1>1, <1>2, <1>3, <1>4, <1>5, <1>6, <1>7, <1>8, SearchReturnsRefines,
     KreallocCopyRefines DEF Next, Call, Step

(* The free list with its headers, splits and merges gives its callers     *)
(* exactly what AllocSpec promises (pmmgr.c:15-77).                        *)
THEOREM Refinement == CallerContract => (Spec => ImplementsAllocSpec)
<1> SUFFICES ASSUME CallerContract PROVE Spec => Abstract!ASpec
  BY DEF ImplementsAllocSpec
<1>1. Init => Abstract!AInit
  BY InitRefines
<1>2. IInv /\ [Next]_vars => [Abstract!ANext]_(Abstract!avars)
  BY NextRefines
<1>3. Spec => []IInv
  BY Invariance
<1> QED
  BY <1>1, <1>2, <1>3, PTL DEF Spec, Abstract!ASpec
==============================================================================

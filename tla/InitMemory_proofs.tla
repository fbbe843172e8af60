------------------------- MODULE InitMemory_proofs -------------------------
(***************************************************************************)
(* Proofs about InitMemory, for every memory map.                          *)
(***************************************************************************)
EXTENDS InitMemory, FiniteSetTheorems, SequenceTheorems, TLAPS

-----------------------------------------------------------------------------
(* The map, and the regions of a part of it.                               *)

(* What is assumed of the map.                                             *)
LEMMA MapFacts ==
  ASSUME memmap \in Maps
  PROVE  /\ Len(memmap) \in Nat /\ Entry * Len(memmap) + Hdr + Align <= Word
         /\ HeapBase + Hdr + Entry * Len(memmap) + Align + Hdr <= Word
         /\ \A k \in 1 .. Len(memmap) :
              /\ memmap[k].base = k /\ memmap[k].length \in 1 .. Word - 1
<1>1. /\ memmap \in Seq([base : Nat, length : 1 .. Word - 1, type : STRING])
      /\ \A k \in 1 .. Len(memmap) : memmap[k].base = k
      /\ HeapBase + Hdr + Entry * Len(memmap) + Align + Hdr <= Word
  BY InitMemoryConstants
<1>2. Len(memmap) \in Nat
  BY <1>1, LenProperties
<1>4. Entry * Len(memmap) + Hdr + Align <= Word
  <2>1. \A bytes \in Int : HeapBase + Hdr + bytes + Align + Hdr <= Word
                           => bytes + Hdr + Align <= Word
    BY InitMemoryConstants
  <2>2. Entry * Len(memmap) \in Int
    BY <1>2, InitMemoryConstants
  <2> QED
    BY <1>1, <2>1, <2>2
<1>3. ASSUME NEW k \in 1 .. Len(memmap) PROVE memmap[k].length \in 1 .. Word - 1
  <2>1. memmap[k] \in [base : Nat, length : 1 .. Word - 1, type : STRING]
    BY <1>1, ElementOfSeq
  <2> QED
    BY <2>1
<1> QED
  BY <1>1, <1>2, <1>3, <1>4

(* A usable region is counted, a counted one takes a slot.                 *)
LEMMA CountedTakesSlot ==
  /\ \A e : IsUsable(e) => Counted(e)
  /\ \A e : Counted(e) => e.type # "FRAMEBUFFER" /\ MemType[e.type] \in Stale
  /\ \A e : Counted(e) => (MemType[e.type] = "MEM_USABLE" <=>
                             e.type \in {"USABLE", "BOOTLOADER_RECLAIMABLE"})
  BY DEF IsUsable, Counted, MemType, Stale, MemTypes

(* There are no more counted regions than slots.                           *)
LEMMA PartsFinite ==
  ASSUME NEW n \in Nat
  PROVE  /\ IsFiniteSet(CountedIn(n)) /\ IsFiniteSet(Slots(n))
         /\ Cardinality(CountedIn(n)) \in 0 .. n /\ Cardinality(Slots(n)) \in Nat
         /\ Cardinality(CountedIn(n)) <= Cardinality(Slots(n))
<1>1. IsFiniteSet(1 .. n) /\ Cardinality(1 .. n) = n
  BY FS_Interval
<1>2. CountedIn(n) \in SUBSET (1 .. n) /\ Slots(n) \in SUBSET (1 .. n)
  BY DEF CountedIn, Slots
<1>3. CountedIn(n) \in SUBSET Slots(n)
  BY CountedTakesSlot DEF CountedIn, Slots
<1>4. IsFiniteSet(CountedIn(n)) /\ IsFiniteSet(Slots(n)) /\ Cardinality(CountedIn(n)) <= n
  BY <1>1, <1>2, FS_Subset
<1>5. Cardinality(CountedIn(n)) <= Cardinality(Slots(n))
  BY <1>3, <1>4, FS_Subset
<1> QED
  BY <1>4, <1>5, FS_CardinalityType

(* One more region.                                                        *)
LEMMA NextRegion ==
  ASSUME NEW n \in Nat
  PROVE  /\ Cardinality(CountedIn(n + 1)) =
              Cardinality(CountedIn(n)) + (IF Counted(memmap[n + 1]) THEN 1 ELSE 0)
         /\ memmap[n + 1].type = "FRAMEBUFFER" => Slots(n + 1) = Slots(n)
         /\ memmap[n + 1].type # "FRAMEBUFFER" =>
              /\ Slots(n + 1) = Slots(n) \cup {n + 1}
              /\ Cardinality(Slots(n + 1)) = Cardinality(Slots(n)) + 1
<1>1. 1 .. n + 1 = (1 .. n) \cup {n + 1} /\ n + 1 \notin 1 .. n
  OBVIOUS
<1>2. /\ CountedIn(n + 1) = IF Counted(memmap[n + 1]) THEN CountedIn(n) \cup {n + 1}
                                                      ELSE CountedIn(n)
      /\ n + 1 \notin CountedIn(n)
  BY <1>1 DEF CountedIn
<1>3. /\ Slots(n + 1) = IF memmap[n + 1].type # "FRAMEBUFFER" THEN Slots(n) \cup {n + 1}
                                                             ELSE Slots(n)
      /\ n + 1 \notin Slots(n)
  BY <1>1 DEF Slots
<1>4. /\ Cardinality(CountedIn(n) \cup {n + 1}) = Cardinality(CountedIn(n)) + 1
      /\ Cardinality(Slots(n) \cup {n + 1}) = Cardinality(Slots(n)) + 1
  BY <1>2, <1>3, PartsFinite, FS_AddElement
<1>5. Cardinality(CountedIn(n)) \in Nat
  BY PartsFinite
<1> QED
  BY <1>2, <1>3, <1>4, <1>5

(* The second loop stays in the map: past its end all slots are filled.    *)
LEMMA InBounds == ASSUME IInv PROVE FillInBounds
<1> SUFFICES ASSUME at = "fill", Len(table) < entryCount, ~(i < Len(memmap)) PROVE FALSE
  BY DEF FillInBounds
<1>1. Len(memmap) \in Nat /\ i \in 0 .. Len(memmap) /\ i = Len(memmap)
  BY MapFacts DEF IInv, TypeOK
<1>2. /\ entryCount = Cardinality(CountedIn(i)) /\ Len(table) = Cardinality(Slots(i))
  BY <1>1 DEF IInv, ScanInv, FillInv
<1>3. /\ Cardinality(CountedIn(i)) <= Cardinality(Slots(i))
      /\ Cardinality(CountedIn(i)) \in Nat /\ Cardinality(Slots(i)) \in Nat
  BY <1>1, PartsFinite
<1> QED
  BY <1>2, <1>3

(* entry0 is a largest usable region: an empty one would not be there.     *)
LEMMA Largest == ASSUME IInv PROVE LargestUsable
<1> DEFINE n == IF at = "scan" THEN i ELSE Len(memmap)
           seen == {k \in Regions(IsUsable) : k <= i \/ at # "scan"}
<1>1. /\ Len(memmap) \in Nat /\ n \in 0 .. Len(memmap)
      /\ \A k \in 1 .. Len(memmap) :
           memmap[k].base = k /\ memmap[k].length \in 1 .. Word - 1
  BY MapFacts DEF IInv, TypeOK
<1>2. seen = {k \in 1 .. n : IsUsable(memmap[k])}
  <2>1. CASE at = "scan"
    BY <1>1, <2>1 DEF Regions
  <2>2. CASE at # "scan"
    BY <2>2 DEF Regions
  <2> QED
    BY <2>1, <2>2
<1>3. /\ \A k \in 1 .. n : IsUsable(memmap[k]) => memmap[k].length <= entry0.size
      /\ \/ entry0 = NoRegion
         \/ \E k \in 1 .. n :
              IsUsable(memmap[k]) /\ entry0 = Region(memmap[k], "MEM_USABLE")
  BY DEF IInv, ScanInv
<1> HIDE DEF n
<1>4. \A k \in seen : memmap[k].length <= entry0.size
  BY <1>2, <1>3
<1>5. ASSUME seen # {}
      PROVE  \E k \in seen :
               entry0 = [base |-> memmap[k].base, size |-> memmap[k].length,
                         type |-> "MEM_USABLE"]
  <2> PICK k \in seen : TRUE
    BY <1>5
  <2>1. k \in 1 .. Len(memmap)
    BY DEF Regions
  <2>2. memmap[k].length >= 1 /\ memmap[k].length <= entry0.size
    BY <1>1, <1>4, <2>1
  <2>3. entry0 # NoRegion
    <3>1. memmap[k].length \in Nat
      BY <1>1, <2>1 DEF IInv
    <3> QED
      BY <2>2, <3>1 DEF NoRegion
  <2> QED
    BY <1>2, <1>3, <2>3 DEF Region
<1> HIDE DEF seen
<1> QED
  BY <1>4, <1>5 DEF LargestUsable, seen

-----------------------------------------------------------------------------
(* Every action keeps the invariant.                                       *)

(* A region scanned.                                                       *)
LEMMA ScanEntryKeeps == ASSUME IInv, ScanEntry PROVE IInv'
<1> DEFINE e == memmap[i + 1]
<1>1. /\ TypeOK /\ memmap \in Maps /\ at = "scan" /\ table = <<>> /\ entries = Heap!NULL
      /\ live = Heap!NoEntries /\ STATUS_FLAGS = {}
  BY DEF IInv, HeapInv, Unpublished, ScanEntry
<1>2. /\ Len(memmap) \in Nat /\ i \in Nat /\ i + 1 \in 1 .. Len(memmap)
      /\ e.base = i + 1 /\ e.length \in 1 .. Word - 1 /\ Word \in Nat
      /\ \A k \in 1 .. Len(memmap) :
           memmap[k].base = k /\ memmap[k].length \in 1 .. Word - 1
  <2>1. i \in 0 .. Len(memmap) /\ i < Len(memmap)
    BY <1>1 DEF TypeOK, ScanEntry
  <2>2. Len(memmap) \in Nat
    BY <1>1, MapFacts
  <2>3. i + 1 \in 1 .. Len(memmap)
    BY <2>1, <2>2
  <2>4. \A k \in 1 .. Len(memmap) :
          memmap[k].base = k /\ memmap[k].length \in 1 .. Word - 1
    BY <1>1, MapFacts
  <2>5. Word \in Nat
    BY InitMemoryConstants
  <2> QED
    BY <2>1, <2>2, <2>3, <2>4, <2>5
<1>3. /\ entry0' = (IF Better(e) THEN Region(e, "MEM_USABLE") ELSE entry0)
      /\ entryCount' = entryCount + (IF Counted(e) THEN 1 ELSE 0)
      /\ i' = i + 1
      /\ UNCHANGED <<heapVars, memmap, at, entries, table, published>>
  BY DEF ScanEntry
<1>4. /\ entryCount = Cardinality(CountedIn(i))
      /\ \A k \in 1 .. i : IsUsable(memmap[k]) => memmap[k].length <= entry0.size
      /\ \/ entry0 = NoRegion
         \/ \E k \in 1 .. i :
              IsUsable(memmap[k]) /\ entry0 = Region(memmap[k], "MEM_USABLE")
  BY <1>1 DEF IInv, ScanInv
<1>5. entryCount' = Cardinality(CountedIn(i + 1)) /\ entryCount' \in 0 .. Len(memmap)
  <2>1. entryCount' = Cardinality(CountedIn(i + 1))
    BY <1>2, <1>3, <1>4, NextRegion
  <2>2. i + 1 \in Nat /\ Cardinality(CountedIn(i + 1)) \in 0 .. i + 1
    BY <1>2, PartsFinite
  <2> QED
    BY <1>2, <2>1, <2>2
<1>6. entry0.size \in Nat /\ entry0' \in [base : Nat, size : Nat, type : {"MEM_USABLE"}]
  BY <1>1, <1>2, <1>3 DEF TypeOK, Region
<1>7. IsUsable(e) => e.length <= entry0'.size
  <2>1. CASE Better(e)
    BY <1>2, <1>3, <2>1 DEF Region
  <2>2. CASE ~Better(e)
    BY <1>2, <1>3, <1>6, <2>2 DEF Better, IsUsable
  <2> QED
    BY <2>1, <2>2
<1>8. \A k \in 1 .. i : IsUsable(memmap[k]) => memmap[k].length <= entry0'.size
  <2> SUFFICES ASSUME NEW k \in 1 .. i, IsUsable(memmap[k])
               PROVE  memmap[k].length <= entry0'.size
    OBVIOUS
  <2>1. k \in 1 .. Len(memmap) /\ memmap[k].length \in Nat
    BY <1>2
  <2>2. memmap[k].length <= entry0.size
    BY <1>4
  <2>3. entryCount # 0
    <3>1. k \in CountedIn(i)
      BY CountedTakesSlot DEF CountedIn
    <3>2. IsFiniteSet(CountedIn(i))
      BY <1>2, PartsFinite
    <3> QED
      BY <1>4, <3>1, <3>2, FS_EmptySet
  <2>4. CASE Better(e)
    BY <1>2, <1>3, <1>6, <2>1, <2>2, <2>3, <2>4 DEF Better, Region
  <2>5. CASE ~Better(e)
    BY <1>3, <2>2, <2>5
  <2> QED
    BY <2>4, <2>5
<1>9. \/ entry0' = NoRegion
      \/ \E k \in 1 .. i + 1 :
           IsUsable(memmap[k]) /\ entry0' = Region(memmap[k], "MEM_USABLE")
  <2>1. CASE Better(e)
    <3>1. IsUsable(e) /\ i + 1 \in 1 .. i + 1
      BY <1>2, <2>1 DEF Better, IsUsable
    <3> QED
      BY <1>3, <2>1, <3>1
  <2>2. CASE ~Better(e)
    <3>1. \A k \in 1 .. i : k \in 1 .. i + 1
      BY <1>2
    <3> QED
      BY <1>3, <1>4, <2>2, <3>1
  <2> QED
    BY <2>1, <2>2
<1>10. ScanInv'
  <2>1. \A k \in 1 .. i + 1 : k = i + 1 \/ k \in 1 .. i
    BY <1>2
  <2>2. \A k \in 1 .. i + 1 : IsUsable(memmap[k]) => memmap[k].length <= entry0'.size
    BY <1>7, <1>8, <2>1
  <2>3. entryCount' = Cardinality(CountedIn(i)')
    BY <1>3, <1>5 DEF CountedIn
  <2> QED
    BY <1>1, <1>3, <1>9, <2>2, <2>3 DEF ScanInv
<1>11. TypeOK'
  BY <1>1, <1>2, <1>3, <1>5, <1>6 DEF TypeOK, published
<1>12. HeapInv' /\ FillInv' /\ Unpublished' /\ TableFaithful' /\ StatusHonest'
  BY <1>1, <1>3 DEF IInv, HeapInv, FillInv, Unpublished, TableFaithful, StatusHonest,
       heapVars, published
<1> QED
  BY <1>1, <1>3, <1>10, <1>11, <1>12 DEF IInv

(* What the loops have done stays while the heap is at work.               *)
LEMMA ScanKept ==
  ASSUME ScanInv, at # "scan" \/ i = Len(memmap), at' # "scan",
         UNCHANGED <<memmap, entryCount, entry0>>
  PROVE  ScanInv'
<1> DEFINE N == Len(memmap)
<1>1. /\ entryCount = Cardinality(CountedIn(N))
      /\ \A k \in 1 .. N : IsUsable(memmap[k]) => memmap[k].length <= entry0.size
      /\ \/ entry0 = NoRegion
         \/ \E k \in 1 .. N :
              IsUsable(memmap[k]) /\ entry0 = Region(memmap[k], "MEM_USABLE")
  BY DEF ScanInv
<1> QED
  BY <1>1 DEF ScanInv, CountedIn

(* The heap is opened with the length of the largest region.               *)
LEMMA OpenHeapKeeps == ASSUME IInv, OpenHeap PROVE IInv'
<1>1. /\ TypeOK /\ memmap \in Maps /\ at = "scan" /\ i = Len(memmap)
      /\ table = <<>> /\ entries = Heap!NULL /\ live = Heap!NoEntries
      /\ STATUS_FLAGS = {} /\ pmmgrEntries = Entry0 /\ pmmgrEntryCount = 1
  BY DEF IInv, HeapInv, Unpublished, OpenHeap
<1>2. /\ at' = "check" /\ heapStart' = HeapBase /\ heapSize' = entry0.size
      /\ blocks' = FirstBlock /\ live' = live
      /\ UNCHANGED <<memmap, i, entryCount, entry0, entries, table, published>>
  BY DEF OpenHeap, Heap!kmemInit, FirstBlock
<1>3. TypeOK'
  BY <1>1, <1>2 DEF TypeOK, published
<1>4. ScanInv'
  BY <1>1, <1>2, ScanKept DEF IInv
<1>5. HeapInv'
  BY <1>1, <1>2 DEF HeapInv, FirstBlock
<1>6. FillInv' /\ Unpublished' /\ TableFaithful' /\ StatusHonest'
  BY <1>1, <1>2 DEF FillInv, Unpublished, TableFaithful, StatusHonest, published
<1> QED
  BY <1>1, <1>2, <1>3, <1>4, <1>5, <1>6 DEF IInv

(* Too small a region: the table of the early boot stays.                  *)
LEMMA GiveUpKeeps == ASSUME IInv, GiveUp PROVE IInv'
<1>1. /\ TypeOK /\ memmap \in Maps /\ at = "check"
      /\ STATUS_FLAGS = {} /\ pmmgrEntries = Entry0 /\ pmmgrEntryCount = 1
  BY DEF IInv, Unpublished, GiveUp
<1>2. /\ at' = "returned" /\ STATUS_FLAGS' = {"STATUS_ERR"}
      /\ UNCHANGED <<heapVars, memmap, i, entryCount, entry0, entries, table,
                     pmmgrEntries, pmmgrEntryCount>>
  BY <1>1 DEF GiveUp
<1>3. TypeOK'
  BY <1>1, <1>2 DEF TypeOK
<1>4. ScanInv'
  BY <1>1, <1>2, ScanKept DEF IInv
<1>5. HeapInv' /\ FillInv' /\ Unpublished' /\ TableFaithful' /\ StatusHonest'
  BY <1>1, <1>2 DEF HeapInv, FillInv, Unpublished, TableFaithful, StatusHonest
<1> QED
  BY <1>1, <1>2, <1>3, <1>4, <1>5 DEF IInv

(* kmalloc is called for the table.                                        *)
LEMMA RequestTableKeeps == ASSUME IInv, RequestTable PROVE IInv'
<1>1. /\ TypeOK /\ memmap \in Maps /\ at = "check" /\ ~TableTooLarge
      /\ table = <<>> /\ entries = Heap!NULL
      /\ heapStart = HeapBase /\ heapSize = entry0.size
      /\ blocks = FirstBlock /\ live = Heap!NoEntries
      /\ STATUS_FLAGS = {} /\ pmmgrEntries = Entry0 /\ pmmgrEntryCount = 1
  BY DEF IInv, HeapInv, Unpublished, RequestTable
<1>2. /\ at' = "kmalloc" /\ curr' = HeapBase /\ old' = Heap!NULL
      /\ req' = TableBytes /\ size' = Heap!ALIGN16(TableBytes)
      /\ UNCHANGED <<heapStart, heapSize, blocks, live>>
      /\ UNCHANGED <<memmap, i, entryCount, entry0, entries, table, published>>
  BY <1>1 DEF RequestTable, Heap!kmalloc, Heap!StartSearch, Heap!heapVars
<1>3. TypeOK'
  BY <1>1, <1>2 DEF TypeOK, published
<1>4. ScanInv'
  BY <1>1, <1>2, ScanKept DEF IInv
<1>5. TableBytes' = TableBytes /\ TableTooLarge' = TableTooLarge /\ FirstBlock' = FirstBlock
  BY <1>2 DEF TableBytes, TableTooLarge, FirstBlock
<1>6. HeapInv'
  BY <1>1, <1>2, <1>5 DEF HeapInv
<1>7. FillInv' /\ Unpublished' /\ TableFaithful' /\ StatusHonest'
  BY <1>1, <1>2 DEF FillInv, Unpublished, TableFaithful, StatusHonest, published
<1> QED
  BY <1>1, <1>2, <1>3, <1>4, <1>6, <1>7 DEF IInv

(* The only block and what it holds.                                       *)
LEMMA OnlyBlock ==
  /\ DOMAIN FirstBlock = {HeapBase}
  /\ FirstBlock[HeapBase].next = Heap!NULL
  /\ FirstBlock[HeapBase].isFree = TRUE
  /\ FirstBlock[HeapBase].size = Heap!Wrap(entry0.size - Hdr)
BY DEF FirstBlock, Heap!With, Heap!NoEntries

(* The cursor passes the only block.                                       *)
LEMMA SearchingKeeps == ASSUME IInv, Searching PROVE IInv'
<1>1. /\ TypeOK /\ memmap \in Maps /\ at = "kmalloc" /\ ~TableTooLarge
      /\ table = <<>> /\ entries = Heap!NULL
      /\ heapStart = HeapBase /\ heapSize = entry0.size
      /\ blocks = FirstBlock /\ live = Heap!NoEntries
      /\ curr \in {HeapBase, Heap!NULL} /\ old = Heap!NULL
      /\ req = TableBytes /\ size = Heap!ALIGN16(TableBytes)
      /\ STATUS_FLAGS = {} /\ pmmgrEntries = Entry0 /\ pmmgrEntryCount = 1
  BY DEF IInv, HeapInv, Unpublished, Searching
<1>2. /\ curr # Heap!NULL /\ curr' = blocks[curr].next
      /\ UNCHANGED <<heapStart, heapSize, blocks, live, size, req, old>>
      /\ UNCHANGED <<memmap, at, i, entryCount, entry0, entries, table, published>>
  BY DEF Searching, Heap!SearchNext, Heap!heapVars
<1>3. curr' = Heap!NULL
  BY <1>1, <1>2, OnlyBlock
<1>4. TypeOK'
  BY <1>1, <1>2 DEF TypeOK, published
<1>5. ScanInv'
  BY <1>1, <1>2, ScanKept DEF IInv
<1>6. TableBytes' = TableBytes /\ TableTooLarge' = TableTooLarge /\ FirstBlock' = FirstBlock
  BY <1>2 DEF TableBytes, TableTooLarge, FirstBlock
<1>7. HeapInv'
  BY <1>1, <1>2, <1>3, <1>6 DEF HeapInv
<1>8. FillInv' /\ Unpublished' /\ TableFaithful' /\ StatusHonest'
  BY <1>1, <1>2 DEF FillInv, Unpublished, TableFaithful, StatusHonest, published
<1> QED
  BY <1>1, <1>2, <1>4, <1>5, <1>7, <1>8 DEF IInv

(* kmalloc returns: NULL, or an allocation of the size of the table.       *)
LEMMA GotTableKeeps == ASSUME IInv, GotTable PROVE IInv'
<1>1. /\ TypeOK /\ memmap \in Maps /\ at = "kmalloc" /\ ~TableTooLarge
      /\ table = <<>> /\ curr \in {HeapBase, Heap!NULL} /\ req = TableBytes
      /\ STATUS_FLAGS = {} /\ pmmgrEntries = Entry0 /\ pmmgrEntryCount = 1
  BY DEF IInv, HeapInv, Unpublished, GotTable
<1>2. /\ at' = "fill" /\ i' = 0
      /\ UNCHANGED <<memmap, entryCount, entry0, table, published>>
  BY DEF GotTable
<1>3. /\ entries' \in 0 .. Word - 1
      /\ entries' # Heap!NULL => entries' \in DOMAIN live' /\ live'[entries'] = TableBytes
  <2>1. CASE Heap!SearchReturns /\ entries' = Heap!Payload(curr)
    <3>1. live' = Heap!With(live, entries', req)
      BY <2>1 DEF Heap!SearchReturns
    <3>2. curr \in Nat
      BY <1>1, InitMemoryConstants DEF Heap!NULL
    <3>3. entries' \in 0 .. Word - 1
      BY <2>1, <3>2, InitMemoryConstants DEF Heap!Payload, Heap!Wrap
    <3> QED
      BY <1>1, <3>1, <3>3 DEF Heap!With
  <2>2. CASE Heap!SearchFails /\ entries' = Heap!NULL
    BY <2>2, InitMemoryConstants DEF Heap!NULL
  <2> QED
    BY <2>1, <2>2 DEF GotTable
<1>4. TypeOK'
  <2>1. Len(memmap) \in Nat
    BY <1>1, MapFacts
  <2> QED
    BY <1>1, <1>2, <1>3, <2>1 DEF TypeOK, published
<1>5. ScanInv'
  BY <1>1, <1>2, ScanKept DEF IInv
<1>6. TableBytes' = TableBytes /\ TableTooLarge' = TableTooLarge
  BY <1>2 DEF TableBytes, TableTooLarge
<1>7. FillInv'
  <2>1. table' = <<>> /\ Len(table') = 0
    BY <1>1, <1>2
  <2>2. Tabled' = {} /\ Slots(i)' = {}
    BY <1>2, <2>1 DEF Tabled, Slots
  <2>3. RowsFaithful'
    BY <2>1 DEF RowsFaithful
  <2> QED
    BY <1>3, <1>6, <2>1, <2>2, <2>3, FS_EmptySet DEF FillInv
<1>8. HeapInv' /\ Unpublished' /\ TableFaithful' /\ StatusHonest'
  BY <1>1, <1>2, <1>6 DEF HeapInv, Unpublished, TableFaithful, StatusHonest, published
<1> QED
  BY <1>1, <1>2, <1>4, <1>5, <1>7, <1>8 DEF IInv

(* What holds at each region of the second loop.                           *)
LEMMA Filling ==
  ASSUME IInv, at = "fill", Len(table) < entryCount
  PROVE  /\ TypeOK /\ memmap \in Maps /\ ~TableTooLarge
         /\ STATUS_FLAGS = {} /\ pmmgrEntries = Entry0 /\ pmmgrEntryCount = 1
         /\ i \in Nat /\ i + 1 \in 1 .. Len(memmap) /\ Len(memmap) \in Nat
         /\ memmap[i + 1].base = i + 1 /\ memmap[i + 1].length \in Nat
         /\ Tabled = Slots(i) /\ Cardinality(Tabled) = Len(table) /\ RowsFaithful
         /\ entries = Heap!NULL => table = <<>>
         /\ entries # Heap!NULL => entries \in DOMAIN live /\ live[entries] = TableBytes
<1>1. TypeOK /\ memmap \in Maps /\ i \in 0 .. Len(memmap)
  BY DEF IInv, TypeOK
<1>2. i < Len(memmap) /\ Len(memmap) \in Nat
  BY <1>1, InBounds, MapFacts DEF FillInBounds
<1>3. i + 1 \in 1 .. Len(memmap)
  BY <1>1, <1>2
<1>4. memmap[i + 1].base = i + 1 /\ memmap[i + 1].length \in 1 .. Word - 1
  BY <1>1, <1>3, MapFacts
<1>5. memmap[i + 1].length \in Nat
  BY <1>4, InitMemoryConstants
<1> QED
  BY <1>1, <1>2, <1>3, <1>4, <1>5 DEF IInv, HeapInv, Unpublished, FillInv

(* A frame buffer is skipped and takes no slot.                            *)
LEMMA SkipFramebufferKeeps == ASSUME IInv, SkipFramebuffer PROVE IInv'
<1>1. /\ at = "fill" /\ Len(table) < entryCount /\ memmap[i + 1].type = "FRAMEBUFFER"
      /\ i' = i + 1
      /\ UNCHANGED <<heapVars, memmap, at, entryCount, entry0, entries, table, published>>
  BY DEF SkipFramebuffer
<1>2. TypeOK'
  BY <1>1, Filling DEF TypeOK, published
<1>3. ScanInv'
  BY <1>1, ScanKept DEF IInv
<1>4. TableBytes' = TableBytes /\ TableTooLarge' = TableTooLarge
  BY <1>1 DEF TableBytes, TableTooLarge
<1>5. FillInv'
  <2>1. Slots(i)' = Slots(i + 1) /\ Slots(i + 1) = Slots(i)
    BY <1>1, Filling, NextRegion DEF Slots
  <2>2. Tabled' = Tabled /\ RowsFaithful'
    BY <1>1, Filling DEF Tabled, RowsFaithful
  <2> QED
    BY <1>1, <1>4, <2>1, <2>2, Filling DEF FillInv, heapVars
<1>6. HeapInv' /\ Unpublished' /\ TableFaithful' /\ StatusHonest'
  BY <1>1, <1>4, Filling DEF HeapInv, Unpublished, TableFaithful, StatusHonest, published
<1> QED
  BY <1>1, <1>2, <1>3, <1>5, <1>6, Filling DEF IInv

(* Any other region takes the next slot, with the kind the map gives it.   *)
LEMMA FillEntryKeeps == ASSUME IInv, FillEntry PROVE IInv'
<1> DEFINE e == memmap[i + 1]
<1>1. PICK t \in (IF Counted(e) THEN {MemType[e.type]} ELSE Stale) :
        /\ at = "fill" /\ Len(table) < entryCount
        /\ e.type # "FRAMEBUFFER" /\ entries # Heap!NULL
        /\ table' = Append(table, Region(e, t)) /\ i' = i + 1
        /\ UNCHANGED <<heapVars, memmap, at, entryCount, entry0, entries, published>>
  BY DEF FillEntry
<1> DEFINE row == Region(e, t)
<1>2. t \in Stale /\ (Counted(e) => t = MemType[e.type])
  BY CountedTakesSlot
<1>3. /\ row \in [base : Nat, size : Nat, type : Stale]
      /\ row.base = i + 1 /\ row.size = e.length /\ row.type = t
  BY <1>1, <1>2, Filling DEF Region
<1> HIDE DEF row
<1>4. /\ Len(table) \in Nat /\ Len(table') = Len(table) + 1
      /\ table' \in Seq([base : Nat, size : Nat, type : Stale])
      /\ table'[Len(table) + 1] = row
      /\ \A k \in 1 .. Len(table) : table'[k] = table[k]
  <2>1. table \in Seq([base : Nat, size : Nat, type : Stale])
    BY <1>1, Filling DEF TypeOK
  <2>2. table' = Append(table, row)
    BY <1>1 DEF row
  <2> QED
    BY <1>3, <2>1, <2>2, AppendProperties, LenProperties
<1>5. entryCount \in Nat
  BY <1>1, Filling DEF TypeOK
<1>6. TypeOK'
  <2>1. TypeOK /\ Len(memmap) \in Nat /\ i + 1 \in 0 .. Len(memmap)
    BY <1>1, Filling
  <2>2. Len(table') <= entryCount
    BY <1>1, <1>4, <1>5
  <2> QED
    BY <1>1, <1>4, <2>1, <2>2 DEF TypeOK, published
<1>7. ScanInv'
  BY <1>1, ScanKept DEF IInv
<1>8. TableBytes' = TableBytes /\ TableTooLarge' = TableTooLarge
  BY <1>1 DEF TableBytes, TableTooLarge
<1>9. Tabled' = Tabled \cup {i + 1}
  <2>1. 1 .. Len(table') = (1 .. Len(table)) \cup {Len(table) + 1}
    BY <1>4
  <2> QED
    BY <1>3, <1>4, <2>1 DEF Tabled
<1>10. Tabled' = Slots(i)' /\ Cardinality(Tabled') = Len(table')
  <2>1. /\ Slots(i + 1) = Slots(i) \cup {i + 1}
        /\ Cardinality(Slots(i + 1)) = Cardinality(Slots(i)) + 1
    BY <1>1, Filling, NextRegion
  <2>2. Slots(i)' = Slots(i + 1)
    BY <1>1 DEF Slots
  <2>3. Tabled = Slots(i) /\ Cardinality(Tabled) = Len(table)
    BY <1>1, Filling
  <2> QED
    BY <1>4, <1>9, <2>1, <2>2, <2>3
<1>11. RowsFaithful'
  <2> SUFFICES ASSUME NEW k \in 1 .. Len(table')
               PROVE  LET f == memmap[table'[k].base] IN
                      /\ table'[k].base \in 1 .. Len(memmap) /\ table'[k].size = f.length
                      /\ Counted(f) => table'[k].type = MemType[f.type]
                      /\ \A l \in 1 .. k - 1 : table'[l].base < table'[k].base
    BY <1>1 DEF RowsFaithful, Counted, MemType
  <2>1. CASE k \in 1 .. Len(table)
    <3>1. table'[k] = table[k] /\ \A l \in 1 .. k - 1 : table'[l] = table[l]
      <4>1. \A l \in 1 .. k - 1 : l \in 1 .. Len(table)
        BY <1>4, <2>1
      <4> QED
        BY <1>4, <2>1, <4>1
    <3> QED
      BY <1>1, <2>1, <3>1, Filling DEF RowsFaithful
  <2>2. CASE k = Len(table) + 1
    <3>1. table'[k] = row /\ i + 1 \in 1 .. Len(memmap)
      BY <1>1, <1>4, <2>2, Filling
    <3>2. ASSUME NEW l \in 1 .. k - 1 PROVE table'[l].base < i + 1
      <4>1. l \in 1 .. Len(table) /\ table'[l] = table[l]
        BY <1>4, <2>2
      <4>2. table[l].base \in Slots(i)
        BY <1>1, <4>1, Filling DEF Tabled
      <4>3. table[l].base \in 1 .. i /\ i \in Nat
        BY <1>1, <4>2, Filling DEF Slots
      <4> QED
        BY <4>1, <4>3
    <3> QED
      BY <1>2, <1>3, <3>1, <3>2
  <2> QED
    BY <1>4, <2>1, <2>2
<1>12. FillInv'
  BY <1>1, <1>8, <1>10, <1>11, Filling DEF FillInv, heapVars
<1>13. HeapInv' /\ Unpublished' /\ TableFaithful' /\ StatusHonest'
  BY <1>1, <1>8, Filling DEF HeapInv, Unpublished, TableFaithful, StatusHonest, published
<1> QED
  BY <1>1, <1>6, <1>7, <1>12, <1>13, Filling DEF IInv

(* A fault publishes nothing.                                              *)
LEMMA FillFaultsKeeps == ASSUME IInv, FillFaults PROVE IInv'
<1>1. /\ at = "fill" /\ Len(table) < entryCount /\ at' = "fault"
      /\ UNCHANGED <<heapVars, memmap, i, entryCount, entry0, entries, table, published>>
  BY DEF FillFaults
<1>2. TypeOK'
  BY <1>1, Filling DEF TypeOK, published
<1>3. ScanInv'
  BY <1>1, ScanKept DEF IInv
<1>4. HeapInv' /\ FillInv' /\ Unpublished' /\ TableFaithful' /\ StatusHonest'
  BY <1>1, Filling DEF HeapInv, FillInv, Unpublished, TableFaithful, StatusHonest, published
<1> QED
  BY <1>1, <1>2, <1>3, <1>4, Filling DEF IInv

(* Without a counted region there is no usable one, and initMemory gives up*)
(* before it gets to the second loop.                                      *)
LEMMA SomeCounted ==
  ASSUME IInv, at = "fill" PROVE entryCount # 0
<1> SUFFICES ASSUME entryCount = 0 PROVE FALSE
  OBVIOUS
<1>1. Len(memmap) \in Nat /\ ~TableTooLarge
  BY MapFacts DEF IInv, HeapInv
<1>2. Cardinality(CountedIn(Len(memmap))) = 0 /\ IsFiniteSet(CountedIn(Len(memmap)))
  BY <1>1, PartsFinite DEF IInv, ScanInv
<1>3. CountedIn(Len(memmap)) = {}
  BY <1>2, FS_EmptySet
<1>4. entry0 = NoRegion
  BY <1>3, CountedTakesSlot DEF IInv, ScanInv, CountedIn
<1>5. TableBytes = 0
  BY InitMemoryConstants DEF TableBytes, Heap!Wrap
<1>6. Heap!Wrap(TableBytes + Hdr) = Hdr
  BY <1>5, InitMemoryConstants DEF Heap!Wrap
<1> QED
  BY <1>1, <1>4, <1>6, InitMemoryConstants DEF TableTooLarge, NoRegion

(* The size of the table does not wrap, nor does what lies around it.      *)
LEMMA BytesExact ==
  ASSUME TypeOK, memmap \in Maps
  PROVE  /\ TableBytes = Entry * entryCount /\ TableBytes \in Nat
         /\ TableBytes + Hdr + Align <= Word
         /\ HeapBase + Hdr + TableBytes + Align + Hdr <= Word
<1>1. PICK n \in Nat : n = Len(memmap) /\ entryCount <= n /\ entryCount \in Nat
  BY MapFacts DEF TypeOK
<1>2. PICK bytes \in Nat : bytes = Entry * entryCount
  BY <1>1, InitMemoryConstants
<1>3. PICK most \in Nat : most = Entry * n /\ bytes <= most
  <2>0. \A e, x, y \in Int : e * x = e * y + e * (x - y)
    OBVIOUS
  <2>1. Entry * n = Entry * entryCount + Entry * (n - entryCount)
    BY <1>1, <2>0, InitMemoryConstants
  <2>2. Entry * (n - entryCount) \in Nat
    BY <1>1, InitMemoryConstants
  <2> QED
    BY <1>2, <2>1, <2>2
<1>4. HeapBase + Hdr + most + Align + Hdr <= Word
  BY <1>1, <1>3, MapFacts
<1>5. bytes + Hdr + Align <= Word /\ HeapBase + Hdr + bytes + Align + Hdr <= Word
  <2>1. HeapBase \in Nat /\ Hdr \in Nat /\ Align \in Nat /\ Word \in Nat /\ bytes <= most
    BY <1>3, InitMemoryConstants
  <2> QED
    BY <1>4, <2>1
<1>6. bytes % Word = bytes
  <2>1. Hdr \in Nat /\ Align \in Nat \ {0} /\ Word \in Nat \ {0}
    BY InitMemoryConstants
  <2>2. bytes < Word
    BY <1>5, <2>1
  <2> QED
    BY <2>1, <2>2
<1>7. TableBytes = bytes
  BY <1>2, <1>6 DEF TableBytes, Heap!Wrap
<1> QED
  BY <1>2, <1>5, <1>7

(* What the steps of the heap need of that.                                *)
LEMMA TableRoom ==
  ASSUME IInv
  PROVE  /\ TableBytes \in Nat /\ TableBytes + Hdr + Align <= Word
         /\ HeapBase + Hdr + TableBytes + Align + Hdr <= Word
<1>1. TypeOK /\ memmap \in Maps
  BY DEF IInv
<1> QED
  BY <1>1, BytesExact

(* The complete table is published.                                        *)
LEMMA PublishKeeps == ASSUME IInv, Publish PROVE IInv'
<1>1. /\ at = "fill" /\ Len(table) = entryCount /\ at' = "returned"
      /\ pmmgrEntries' = entries /\ pmmgrEntryCount' = entryCount
      /\ STATUS_FLAGS' = {"STATUS_MEMOK"}
      /\ UNCHANGED <<heapVars, memmap, i, entryCount, entry0, entries, table>>
  BY DEF Publish, IInv, Unpublished
<1>2. /\ TypeOK /\ memmap \in Maps
      /\ Tabled = Slots(i) /\ Cardinality(Tabled) = Len(table) /\ RowsFaithful
      /\ entries = Heap!NULL => table = <<>>
      /\ entries # Heap!NULL => entries \in DOMAIN live /\ live[entries] = TableBytes
  BY <1>1 DEF IInv, FillInv
<1>3. Len(memmap) \in Nat /\ Entry * Len(memmap) + Hdr + Align <= Word
      /\ i \in 0 .. Len(memmap) /\ entryCount \in 0 .. Len(memmap)
  BY <1>2, MapFacts DEF TypeOK
<1>4. entries # Heap!NULL
  <2>1. entryCount # 0
    BY <1>1, SomeCounted
  <2> QED
    BY <1>1, <1>2, <2>1
<1>5. TableBytes = Entry * entryCount
  BY <1>2, BytesExact
<1>6. StatusHonest'
  <2>1. Entry * entryCount <= TableBytes
    BY <1>3, <1>5, InitMemoryConstants
  <2> QED
    BY <1>1, <1>2, <1>4, <2>1 DEF StatusHonest, heapVars
<1>7. Cardinality(Regions(Counted) \ Tabled) = Cardinality(Tabled \ Regions(Counted))
  <2>1. Regions(Counted) = CountedIn(Len(memmap))
    BY DEF Regions, CountedIn
  <2>2. /\ IsFiniteSet(Regions(Counted)) /\ IsFiniteSet(Tabled)
        /\ Cardinality(Regions(Counted)) = Cardinality(Tabled)
        /\ Cardinality(Tabled) \in Nat
    <3>1. entryCount = Cardinality(CountedIn(Len(memmap)))
      BY <1>1 DEF IInv, ScanInv
    <3>2. i \in Nat /\ Len(memmap) \in Nat
      BY <1>3
    <3> QED
      BY <1>1, <1>2, <2>1, <3>1, <3>2, PartsFinite
  <2> DEFINE A == Regions(Counted)
             B == Tabled
  <2> HIDE DEF A, B
  <2>3. A \cap B = B \cap A
    OBVIOUS
  <2>4. /\ Cardinality(A \ B) = Cardinality(A) - Cardinality(A \cap B)
        /\ Cardinality(B \ A) = Cardinality(B) - Cardinality(B \cap A)
    BY <2>2, FS_Difference DEF A, B
  <2> QED
    BY <2>2, <2>3, <2>4 DEF A, B
<1>8. TableFaithful'
  <2>1. ASSUME NEW k \in 1 .. Len(table)
        PROVE  LET e == memmap[table[k].base] IN
               /\ table[k].size = e.length
               /\ Counted(e) => ((table[k].type = "MEM_USABLE") <=>
                                  e.type \in {"USABLE", "BOOTLOADER_RECLAIMABLE"})
               /\ \A l \in 1 .. k - 1 : table[l].base < table[k].base
    BY <1>2, CountedTakesSlot DEF RowsFaithful
  <2>2. Regions(Counted)' = Regions(Counted) /\ Tabled' = Tabled
    BY <1>1 DEF Regions, Tabled, Counted, MemType
  <2> QED
    BY <1>1, <1>7, <2>1, <2>2 DEF TableFaithful, Counted, MemType
<1>9. TypeOK'
  BY <1>1, <1>2 DEF TypeOK
<1>10. ScanInv'
  BY <1>1, ScanKept DEF IInv
<1>11. HeapInv' /\ FillInv' /\ Unpublished'
  BY <1>1 DEF HeapInv, FillInv, Unpublished
<1> QED
  BY <1>1, <1>2, <1>6, <1>8, <1>9, <1>10, <1>11 DEF IInv

(* No step leaves the invariant.                                           *)
LEMMA NextKeeps == ASSUME IInv, [Next]_vars PROVE IInv'
<1>1. CASE ScanEntry \/ OpenHeap \/ GiveUp \/ RequestTable
  BY <1>1, ScanEntryKeeps, OpenHeapKeeps, GiveUpKeeps, RequestTableKeeps
<1>2. CASE Searching \/ GotTable
  BY <1>2, SearchingKeeps, GotTableKeeps
<1>3. CASE SkipFramebuffer \/ FillEntry \/ FillFaults \/ Publish
  BY <1>3, SkipFramebufferKeeps, FillEntryKeeps, FillFaultsKeeps, PublishKeeps
<1>4. CASE UNCHANGED vars
  <2>1. /\ UNCHANGED <<heapStart, heapSize, blocks, live, pc, curr, size, req, old>>
        /\ UNCHANGED <<memmap, at, i, entryCount, entry0, entries, table>>
        /\ UNCHANGED <<pmmgrEntries, pmmgrEntryCount, STATUS_FLAGS>>
    BY <1>4 DEF vars, heapVars, published
  <2>2. TypeOK'
    BY <2>1 DEF IInv, TypeOK
  <2>3. ScanInv'
    BY <2>1 DEF IInv, ScanInv, CountedIn
  <2>4. TableBytes' = TableBytes /\ TableTooLarge' = TableTooLarge /\ FirstBlock' = FirstBlock
    BY <2>1 DEF TableBytes, TableTooLarge, FirstBlock
  <2>5. HeapInv'
    BY <2>1, <2>4 DEF IInv, HeapInv
  <2>6. Tabled' = Tabled /\ Slots(i)' = Slots(i) /\ (RowsFaithful => RowsFaithful')
        /\ Regions(Counted)' = Regions(Counted)
    BY <2>1 DEF Tabled, Slots, RowsFaithful, Regions
  <2>7. FillInv'
    BY <2>1, <2>4, <2>6 DEF IInv, FillInv
  <2>8. Unpublished' /\ StatusHonest'
    BY <2>1 DEF IInv, Unpublished, StatusHonest
  <2>9. TableFaithful'
    BY <2>1, <2>6 DEF IInv, TableFaithful
  <2> QED
    BY <2>1, <2>2, <2>3, <2>5, <2>7, <2>8, <2>9 DEF IInv
<1> QED
  BY <1>1, <1>2, <1>3, <1>4 DEF Next

(* It holds before the first region is looked at.                          *)
LEMMA InitHolds == ASSUME Init PROVE IInv
<1>1. /\ memmap \in Maps /\ at = "scan" /\ i = 0 /\ entryCount = 0 /\ entry0 = NoRegion
      /\ entries = Heap!NULL /\ table = <<>> /\ Len(table) = 0 /\ live = Heap!NoEntries
      /\ pmmgrEntries = Entry0 /\ pmmgrEntryCount = 1 /\ STATUS_FLAGS = {}
  BY DEF Init, Heap!Init
<1>2. Len(memmap) \in Nat
  BY <1>1, MapFacts
<1>3. TypeOK
  <2>1. entries \in 0 .. Word - 1
    BY <1>1, InitMemoryConstants DEF Heap!NULL
  <2>2. entry0 \in [base : Nat, size : Nat, type : {"MEM_USABLE"}]
    BY <1>1 DEF NoRegion
  <2> QED
    BY <1>1, <1>2, <2>1, <2>2 DEF TypeOK
<1>4. ScanInv
  <2>1. CountedIn(0) = {}
    BY DEF CountedIn
  <2> QED
    BY <1>1, <2>1, FS_EmptySet DEF ScanInv
<1>5. HeapInv /\ FillInv /\ Unpublished /\ TableFaithful /\ StatusHonest
  BY <1>1 DEF HeapInv, FillInv, Unpublished, TableFaithful, StatusHonest
<1> QED
  BY <1>1, <1>3, <1>4, <1>5 DEF IInv

-----------------------------------------------------------------------------
(* The heap behind the table.                                              *)
Sound == HeapTiled /\ Heap!LiveIntact /\ Heap!NoLostBlock

(* Rounding up does not make a size smaller, and is exact to the alignment.*)
LEMMA RoundsUp ==
  ASSUME NEW n \in Nat, n + Align <= Word
  PROVE  Heap!ALIGN16(n) \in n .. n + Align - 1
<1>1. Align \in Nat \ {0} /\ Word \in Nat \ {0}
  BY InitMemoryConstants
<1> DEFINE m == n + Align - 1
<1>2. m \in Nat /\ m < Word /\ Heap!Wrap(n + Align - 1) = m
  BY <1>1 DEF Heap!Wrap
<1>3. m % Align \in 0 .. Align - 1 /\ m % Align <= m
  BY <1>1, <1>2
<1>4. Heap!ALIGN16(n) = m - (m % Align)
  BY <1>2 DEF Heap!ALIGN16
<1> QED
  BY <1>1, <1>2, <1>3, <1>4

(* The only block, as it is, taken whole or split, and the table in it.    *)
LEMMA TableTaken ==
  ASSUME NEW B \in Nat \ {0}, NEW S \in Nat, NEW n \in Nat, NEW bytes \in Nat,
         S < Word, Word \in Nat, Hdr \in Nat \ {0},
         B = HeapBase, heapStart' = B, heapSize' = S, entry0' = entry0, entry0.size = S,
         \/ /\ Hdr <= S /\ DOMAIN blocks' = {B} /\ DOMAIN live' = {}
            /\ blocks'[B].size = S - Hdr /\ blocks'[B].next = 0 /\ blocks'[B].isFree = TRUE
         \/ /\ Hdr + n <= S /\ bytes <= n
            /\ DOMAIN live' = {B + Hdr} /\ live'[B + Hdr] = bytes
            /\ \/ /\ DOMAIN blocks' = {B}
                  /\ blocks'[B] = [size |-> S - Hdr, isFree |-> FALSE, next |-> 0]
               \/ /\ Hdr + n + Hdr < S /\ B + Hdr + n < Word
                  /\ DOMAIN blocks' = {B, B + Hdr + n}
                  /\ blocks'[B] = [size |-> n, isFree |-> FALSE, next |-> B + Hdr + n]
                  /\ blocks'[B + Hdr + n] =
                       [size |-> S - Hdr - n - Hdr, isFree |-> TRUE, next |-> 0]
  PROVE  Sound'
<1>1. Offset(B)' = 0
  <2>1. B - B = 0 /\ 0 % Word = 0
    OBVIOUS
  <2> QED
    BY <2>1 DEF Offset, Heap!Wrap
<1>2. B + Hdr - Hdr = B
  OBVIOUS
<1>3. CASE DOMAIN blocks' = {B}
  <2>1. Hdr <= S /\ blocks'[B].size = S - Hdr /\ blocks'[B].next = 0
    BY <1>3
  <2>2. EndOffset(B)' = S
    BY <1>1, <2>1 DEF EndOffset
  <2>3. HeapTiled'
    BY <1>1, <1>3, <2>1, <2>2 DEF HeapTiled, Heap!NULL
  <2>4. Heap!LiveIntact' /\ Heap!NoLostBlock'
    BY <1>2, <1>3 DEF Heap!LiveIntact, Heap!NoLostBlock
  <2> QED
    BY <2>3, <2>4 DEF Sound
<1>4. CASE DOMAIN blocks' # {B}
  <2> PICK c \in Nat : c = B + Hdr + n
    OBVIOUS
  <2>1. /\ DOMAIN blocks' = {B, c} /\ B < c /\ c < Word /\ Hdr + n + Hdr < S
        /\ blocks'[B] = [size |-> n, isFree |-> FALSE, next |-> c]
        /\ blocks'[c] = [size |-> S - Hdr - n - Hdr, isFree |-> TRUE, next |-> 0]
        /\ bytes <= n /\ DOMAIN live' = {B + Hdr} /\ live'[B + Hdr] = bytes
    BY <1>4
  <2>2. Offset(c)' = Hdr + n
    <3>1. c - B = Hdr + n /\ (Hdr + n) % Word = Hdr + n
      BY <2>1
    <3> QED
      BY <3>1 DEF Offset, Heap!Wrap
  <2>3. EndOffset(B)' = Hdr + n /\ EndOffset(c)' = S
    BY <1>1, <2>1, <2>2 DEF EndOffset
  <2>4. Heap!Wrap(B + (Hdr + n)) = c
    BY <2>1 DEF Heap!Wrap
  <2>5. HeapTiled'
    <3>1. c # 0 /\ Hdr + n # S /\ Hdr + n <= S /\ ~(Hdr + n < 0)
      BY <2>1
    <3> QED
      BY <1>1, <2>1, <2>2, <2>3, <2>4, <3>1 DEF HeapTiled, Heap!NULL
  <2>6. Heap!LiveIntact' /\ Heap!NoLostBlock'
    BY <1>2, <2>1 DEF Heap!LiveIntact, Heap!NoLostBlock
  <2> QED
    BY <2>5, <2>6 DEF Sound
<1> QED
  BY <1>3, <1>4

(* kmalloc leaves a sound heap, whether it finds room or not.              *)
LEMMA GotTableSound == ASSUME IInv, GotTable PROVE Sound'
<1> PICK B \in Nat \ {0} : B = HeapBase
  BY InitMemoryConstants
<1>0. Hdr \in Nat \ {0}
  BY InitMemoryConstants
<1> PICK S \in Nat : S = entry0.size
  BY DEF IInv, TypeOK
<1> PICK bytes \in Nat : bytes = TableBytes
  BY TableRoom
<1> PICK n \in Nat : n = Heap!ALIGN16(bytes) /\ bytes <= n /\ n < bytes + Align
  <2>0. Align \in Nat /\ Word \in Nat /\ bytes + Hdr + Align <= Word
    BY TableRoom, InitMemoryConstants
  <2>1. bytes + Align <= Word
    BY <1>0, <2>0
  <2>2. Heap!ALIGN16(bytes) \in bytes .. bytes + Align - 1
    BY <2>0, <2>1, RoundsUp
  <2> QED
    BY <2>0, <2>2
<1>1. /\ ~TableTooLarge /\ heapStart = HeapBase /\ heapSize = S
      /\ blocks = FirstBlock /\ live = Heap!NoEntries
      /\ curr \in {HeapBase, 0} /\ old = 0 /\ req = bytes /\ size = n
      /\ UNCHANGED <<memmap, entry0>>
  BY DEF IInv, HeapInv, GotTable, Heap!NULL
<1>2. S < Word
  <2>1. entry0 = NoRegion \/ \E k \in 1 .. Len(memmap) : S = memmap[k].length
    BY DEF IInv, ScanInv, GotTable, Region
  <2>2. CASE entry0 = NoRegion
    BY <2>2, InitMemoryConstants DEF NoRegion
  <2>3. CASE \E k \in 1 .. Len(memmap) : S = memmap[k].length
    <3>1. PICK k \in 1 .. Len(memmap) : S = memmap[k].length
      BY <2>3
    <3>2. S \in 1 .. Word - 1
      BY <3>1, MapFacts DEF IInv
    <3> QED
      BY <3>2, InitMemoryConstants
  <2> QED
    BY <2>1, <2>2, <2>3
<1>3. Word \in Nat /\ bytes + Hdr <= S /\ B + Hdr + n + Hdr < Word
  <2>1. /\ bytes + Hdr < Word /\ Word \in Nat \ {0} /\ Align \in Nat
        /\ B + Hdr + bytes + Align + Hdr <= Word
    BY TableRoom, InitMemoryConstants
  <2>2. Heap!Wrap(bytes + Hdr) = bytes + Hdr
    BY <1>0, <2>1 DEF Heap!Wrap
  <2>3. B + Hdr + n + Hdr < Word
    BY <1>0, <2>1
  <2> QED
    BY <1>0, <1>1, <2>1, <2>2, <2>3 DEF TableTooLarge
<1>4. /\ DOMAIN blocks = {B} /\ blocks[B].next = 0 /\ blocks[B].isFree = TRUE
      /\ blocks[B].size = S - Hdr /\ Hdr <= S
  <2>1. Heap!Wrap(S - Hdr) = S - Hdr /\ Hdr <= S
    BY <1>0, <1>2, <1>3 DEF Heap!Wrap
  <2> QED
    BY <1>1, <2>1, OnlyBlock DEF Heap!NULL
<1>5. CASE Heap!SearchFails
  <2>1. /\ heapStart' = B /\ heapSize' = S /\ DOMAIN blocks' = {B} /\ DOMAIN live' = {}
        /\ blocks'[B].next = 0 /\ blocks'[B].isFree = TRUE /\ blocks'[B].size = S - Hdr
    BY <1>1, <1>4, <1>5 DEF Heap!SearchFails, Heap!heapVars, Heap!NoEntries
  <2> QED
    BY <1>0, <1>1, <1>2, <1>3, <1>4, <2>1, TableTaken
<1>6. CASE Heap!SearchReturns
  <2>1. /\ curr = B /\ heapStart' = B /\ heapSize' = S /\ n <= S - Hdr
        /\ blocks' = Heap!Take(B, n) /\ live' = Heap!With(live, Heap!Payload(B), bytes)
    BY <1>1, <1>4, <1>6 DEF Heap!SearchReturns, Heap!TakeCurrent, Heap!Fits, Heap!NULL
  <2>2. Heap!Payload(B) = B + Hdr
    <3>1. B + Hdr < Word
      BY <1>0, <1>3
    <3> QED
      BY <1>0, <1>3, <3>1 DEF Heap!Payload, Heap!Wrap
  <2>3. DOMAIN live' = {B + Hdr} /\ live'[B + Hdr] = bytes
    BY <1>1, <2>1, <2>2 DEF Heap!With, Heap!NoEntries
  <2>4. Heap!Wrap(n + Hdr) = n + Hdr /\ Heap!Wrap(B + Hdr + n) = B + Hdr + n
    <3>1. n + Hdr < Word /\ B + Hdr + n < Word
      BY <1>0, <1>3
    <3> QED
      BY <1>0, <1>3, <3>1 DEF Heap!Wrap
  <2>5. CASE ~Heap!Splits(B, n)
    <3>1. blocks' = [blocks EXCEPT ![B] = [size |-> S - Hdr, isFree |-> FALSE, next |-> 0]]
      BY <1>4, <2>1, <2>5 DEF Heap!Take, Heap!Mark
    <3>2. /\ DOMAIN blocks' = {B}
          /\ blocks'[B] = [size |-> S - Hdr, isFree |-> FALSE, next |-> 0]
      BY <1>4, <3>1
    <3>3. Hdr + n <= S
      BY <1>0, <2>1
    <3> QED
      BY <1>0, <1>1, <1>2, <1>3, <2>1, <2>3, <3>2, <3>3, TableTaken
  <2>6. CASE Heap!Splits(B, n)
    <3> DEFINE c == B + Hdr + n
               taken == [blocks EXCEPT ![B] = [size |-> n, isFree |-> FALSE, next |-> c]]
    <3>1. Hdr + n + Hdr < S
      BY <1>0, <1>4, <2>1, <2>4, <2>6 DEF Heap!Splits
    <3>2. Heap!Wrap(S - Hdr - n - Hdr) = S - Hdr - n - Hdr
      <4>1. S - Hdr - n - Hdr \in Nat /\ S - Hdr - n - Hdr < Word
        BY <1>0, <1>2, <1>3, <3>1
      <4> QED
        BY <1>3, <4>1 DEF Heap!Wrap
    <3>3. blocks' = Heap!With(taken, c,
                              [size |-> S - Hdr - n - Hdr, isFree |-> TRUE, next |-> 0])
      BY <1>4, <2>1, <2>4, <2>6, <3>2 DEF Heap!Take, Heap!Split
    <3>4. B # c /\ DOMAIN taken = {B} /\ taken[B] = [size |-> n, isFree |-> FALSE, next |-> c]
      BY <1>0, <1>4
    <3>5. /\ DOMAIN blocks' = {B, c} /\ blocks'[B] = taken[B]
          /\ blocks'[c] = [size |-> S - Hdr - n - Hdr, isFree |-> TRUE, next |-> 0]
      BY <3>3, <3>4 DEF Heap!With
    <3>6. Hdr + n <= S /\ B + Hdr + n < Word
      BY <1>0, <1>3, <2>1
    <3>7. blocks'[B] = [size |-> n, isFree |-> FALSE, next |-> c]
      BY <3>4, <3>5
    <3>8. Word \in Nat /\ entry0' = entry0
      BY <1>1, <1>3
    <3> HIDE DEF taken
    <3> QED
      BY <1>0, <1>2, <2>1, <2>3, <3>1, <3>5, <3>6, <3>7, <3>8, TableTaken
  <2> QED
    BY <2>5, <2>6
<1> QED
  BY <1>5, <1>6 DEF GotTable

(* The heap is not used after that.                                        *)
LEMMA SoundKept ==
  ASSUME UNCHANGED <<heapVars, entry0>>, Sound PROVE Sound'
BY DEF heapVars, Sound, HeapTiled, Heap!LiveIntact, Heap!NoLostBlock, EndOffset, Offset

-----------------------------------------------------------------------------
(* For every memory map: what has been counted and filled at every step.   *)
THEOREM Invariance == Spec => []IInv
<1>1. Init => IInv
  BY InitHolds
<1>2. IInv /\ [Next]_vars => IInv'
  BY NextKeeps
<1> QED
  BY <1>1, <1>2, PTL DEF Spec

(* Indices, counts and tables keep their types.                            *)
THEOREM TypeCorrect == Spec => []TypeOK
<1>1. IInv => TypeOK
  BY DEF IInv
<1> QED
  BY <1>1, Invariance, PTL

(* The second loop of initMemory, which only its slots bound, never reads  *)
(* past the map.                                                           *)
THEOREM AlwaysFillInBounds == Spec => []FillInBounds
<1>1. IInv => FillInBounds
  BY InBounds
<1> QED
  BY <1>1, Invariance, PTL

(* entry0 is a largest usable region.                                      *)
THEOREM AlwaysLargestUsable == Spec => []LargestUsable
<1>1. IInv => LargestUsable
  BY Largest
<1> QED
  BY <1>1, Invariance, PTL

(* The published table says what the map says.                             *)
THEOREM AlwaysTableFaithful == Spec => []TableFaithful
<1>1. IInv => TableFaithful
  BY DEF IInv
<1> QED
  BY <1>1, Invariance, PTL

(* STATUS_MEMOK means a complete table in a live allocation, STATUS_ERR    *)
(* the one-entry table of the early boot.                                  *)
THEOREM AlwaysStatusHonest == Spec => []StatusHonest
<1>1. IInv => StatusHonest
  BY DEF IInv
<1> QED
  BY <1>1, Invariance, PTL

(* On success the heap behind the table is sound, whatever the length of   *)
(* the region initMemory takes, one that wraps from _kernel_end included.  *)
THEOREM AlwaysHeapSound == Spec => []HeapSound
<1> DEFINE Filled == at = "fill" \/ "STATUS_MEMOK" \in STATUS_FLAGS => Sound
<1>1. Init => Filled
  BY DEF Init
<1>2. ASSUME IInv, Filled, [Next]_vars PROVE Filled'
  <2>1. CASE GotTable
    BY <1>2, <2>1, GotTableSound
  <2>2. CASE ScanEntry \/ OpenHeap \/ GiveUp \/ RequestTable \/ Searching
    BY <1>2, <2>2 DEF IInv, Unpublished, ScanEntry, OpenHeap, GiveUp, RequestTable, Searching,
         published
  <2>3. CASE SkipFramebuffer \/ FillEntry \/ FillFaults \/ Publish
    <3>1. UNCHANGED <<heapVars, entry0>> /\ at = "fill"
      BY <2>3 DEF SkipFramebuffer, FillEntry, FillFaults, Publish
    <3> QED
      BY <1>2, <3>1, SoundKept
  <2>4. CASE UNCHANGED vars
    BY <1>2, <2>4, SoundKept DEF vars, published
  <2> QED
    BY <1>2, <2>1, <2>2, <2>3, <2>4 DEF Next
<1>3. Filled => HeapSound
  BY DEF HeapSound, Sound
<1> HIDE DEF Filled
<1> QED
  BY <1>1, <1>2, <1>3, Invariance, PTL DEF Spec
=============================================================================

----------------------------- MODULE InitMemory -----------------------------
(***************************************************************************)
(* Boot-time memory discovery: initMemory of                               *)
(* kernel/boot_protocol/limine/boot/memory.c.  It scans the boot loader's  *)
(* memory map, opens the kernel heap (module Kmem) with the length of the  *)
(* largest usable region, allocates a table on that heap and copies the    *)
(* map into it.  One iteration of either loop is one step; the kmalloc it  *)
(* calls runs in Kmem's own steps.                                         *)
(*                                                                         *)
(* The map is a sequence of [base, length, type]; entry number k has base  *)
(* k, which is all the properties need to tell regions apart.              *)
(***************************************************************************)
EXTENDS Integers, Sequences, FiniteSets

CONSTANTS
  Word, Align, Hdr, HeapBase,  \* see Kmem; HeapBase is &_kernel_end
  Entry,                       \* sizeof(struct pmmgrEntry), 24 on x64
  Maps                         \* the memory maps the boot loader may hand over

(* Regions are not empty, and the table of a map, rounded up and between   *)
(* two headers, ends below the top of the address space: x64_linker.ld puts*)
(* &_kernel_end near the start of the top 2 GiB, so this takes some eighty *)
(* million regions to fail.  A region itself may be of any length: heap    *)
(* addresses wrap.                                                         *)
ASSUME InitMemoryConstants ==
  /\ Word \in Nat \ {0} /\ Align \in 1 .. Word - 1 /\ Hdr \in 1 .. Word - 1
  /\ HeapBase \in 1 .. Word - 1 /\ Entry \in Nat \ {0}
  /\ \A m \in Maps :
       /\ m \in Seq([base : Nat, length : 1 .. Word - 1, type : STRING])
       /\ \A k \in 1 .. Len(m) : m[k].base = k
       /\ HeapBase + Hdr + Entry * Len(m) + Align + Hdr <= Word

VARIABLES
  heapStart, heapSize, blocks, live, pc, curr, size, req, old,  \* see Kmem
  memmap,           \* memmapRequest.response
  at,               \* where initMemory is
  i,                \* the loop index of both loops
  entryCount,
  entry0,           \* the static one-entry table of the early boot
  entries,          \* what kmalloc returned
  table,            \* entries[0 .. j-1], the slots written so far
  pmmgrEntries,     \* the published table: &entry0 or entries
  pmmgrEntryCount,
  STATUS_FLAGS

Heap == INSTANCE Kmem WITH HeapSizes <- 0 .. Word - 1, Requests <- 0 .. Word - 1

heapVars == <<heapStart, heapSize, blocks, live, pc, curr, size, req, old>>
published == <<pmmgrEntries, pmmgrEntryCount, STATUS_FLAGS>>
vars == <<heapVars, memmap, at, i, entryCount, entry0, entries, table, published>>

(* &entry0, which is static and not in the heap.                           *)
Entry0 == -1

-----------------------------------------------------------------------------
(* The region types of the Limine protocol and the type the table gives to *)
(* each; the types that are not counted have none.                         *)
MemType ==
  [USABLE |-> "MEM_USABLE", BOOTLOADER_RECLAIMABLE |-> "MEM_USABLE",
   ACPI_RECLAIMABLE |-> "MEM_ACPI_RECLAIM", ACPI_NVS |-> "MEM_ACPI_NVS",
   BAD_MEMORY |-> "MEM_BADRAM", RESERVED |-> "MEM_RESERVED"]

Counted_Framebuffer(e) == e.type \in DOMAIN MemType \cup {"FRAMEBUFFER"}

Counted(e) == e.type \in DOMAIN MemType

MemTypes == {MemType[t] : t \in DOMAIN MemType} \cup {"MEM_MMIO"}

(* What a type field that is not assigned holds: fresh heap memory.        *)
Stale == MemTypes \cup {"garbage"}

Region(e, t) == [base |-> e.base, size |-> e.length, type |-> t]
NoRegion == [base |-> 0, size |-> 0, type |-> "MEM_USABLE"]

TableBytes == Heap!Wrap(Entry * entryCount)

TableTooLarge_Subtracts == TableBytes > Heap!Wrap(entry0.size - Hdr)

TableTooLarge == Heap!Wrap(TableBytes + Hdr) > entry0.size

-----------------------------------------------------------------------------
(* pmmgrEntries and pmmgrEntryCount already point to entry0.               *)
Init ==
  /\ Heap!Init
  /\ memmap \in Maps
  /\ at = "scan" /\ i = 0
  /\ entryCount = 0 /\ entry0 = NoRegion
  /\ entries = Heap!NULL /\ table = <<>>
  /\ pmmgrEntries = Entry0 /\ pmmgrEntryCount = 1 /\ STATUS_FLAGS = {}

(* One region of the first loop: the largest usable one is remembered.  A  *)
(* USABLE region falls through to the types that are only counted.         *)
Better_FirstOnly(e) == e.type = "USABLE" /\ entryCount = 0

Better(e) == e.type = "USABLE" /\ (entryCount = 0 \/ e.length > entry0.size)

ScanEntry_CountsTwice ==
  /\ at = "scan" /\ i < Len(memmap)
  /\ LET e == memmap[i + 1] IN
     /\ entry0' = IF Better(e) THEN Region(e, "MEM_USABLE") ELSE entry0
     /\ entryCount' = entryCount + (IF Better(e) THEN 2 ELSE IF Counted(e) THEN 1 ELSE 0)
  /\ i' = i + 1
  /\ UNCHANGED <<heapVars, memmap, at, entries, table, published>>

ScanEntry ==
  /\ at = "scan" /\ i < Len(memmap)
  /\ LET e == memmap[i + 1] IN
     /\ entry0' = IF Better(e) THEN Region(e, "MEM_USABLE") ELSE entry0
     /\ entryCount' = entryCount + (IF Counted(e) THEN 1 ELSE 0)
  /\ i' = i + 1
  /\ UNCHANGED <<heapVars, memmap, at, entries, table, published>>

(* kmemInit comes before the check that the region is large enough.        *)
OpenHeap ==
  /\ at = "scan" /\ i = Len(memmap)
  /\ Heap!kmemInit(HeapBase, entry0.size)
  /\ at' = "check"
  /\ UNCHANGED <<memmap, i, entryCount, entry0, entries, table, published>>

GiveUp_NoReturn ==
  /\ at = "check" /\ TableTooLarge
  /\ STATUS_FLAGS' = STATUS_FLAGS \cup {"STATUS_ERR"}
  /\ Heap!kmalloc(TableBytes)
  /\ at' = "kmalloc"
  /\ UNCHANGED <<memmap, i, entryCount, entry0, entries, table, pmmgrEntries, pmmgrEntryCount>>

GiveUp ==
  /\ at = "check" /\ TableTooLarge
  /\ STATUS_FLAGS' = STATUS_FLAGS \cup {"STATUS_ERR"}
  /\ at' = "returned"
  /\ UNCHANGED <<heapVars, memmap, i, entryCount, entry0, entries, table, pmmgrEntries,
                 pmmgrEntryCount>>

RequestTable ==
  /\ at = "check" /\ ~TableTooLarge
  /\ Heap!kmalloc(TableBytes)
  /\ at' = "kmalloc"
  /\ UNCHANGED <<memmap, i, entryCount, entry0, entries, table, published>>

(* kmalloc at work, and its return; the second loop then starts.           *)
Searching ==
  /\ at = "kmalloc"
  /\ Heap!SearchNext
  /\ UNCHANGED <<memmap, at, i, entryCount, entry0, entries, table, published>>

GotTable ==
  /\ at = "kmalloc"
  /\ \/ Heap!SearchReturns /\ entries' = Heap!Payload(curr)
     \/ Heap!SearchFails /\ entries' = Heap!NULL
  /\ at' = "fill" /\ i' = 0
  /\ UNCHANGED <<memmap, entryCount, entry0, table, published>>

(* One region of the second loop: a frame buffer is skipped, any other     *)
(* takes the next slot.  The loop is bounded by the slots, not by the map. *)
SkipFramebuffer ==
  /\ at = "fill" /\ Len(table) < entryCount
  /\ memmap[i + 1].type = "FRAMEBUFFER"
  /\ i' = i + 1
  /\ UNCHANGED <<heapVars, memmap, at, entryCount, entry0, entries, table, published>>

FillEntry ==
  /\ at = "fill" /\ Len(table) < entryCount
  /\ LET e == memmap[i + 1] IN
     /\ e.type # "FRAMEBUFFER" /\ entries # Heap!NULL
     /\ \E t \in IF Counted(e) THEN {MemType[e.type]} ELSE Stale :
          table' = Append(table, Region(e, t))
  /\ i' = i + 1
  /\ UNCHANGED <<heapVars, memmap, at, entryCount, entry0, entries, published>>

(* The first store through a null pointer faults.                          *)
FillFaults ==
  /\ at = "fill" /\ Len(table) < entryCount
  /\ memmap[i + 1].type # "FRAMEBUFFER" /\ entries = Heap!NULL
  /\ at' = "fault"
  /\ UNCHANGED <<heapVars, memmap, i, entryCount, entry0, entries, table, published>>

Publish_Early ==
  /\ at = "fill" /\ Len(table) >= entryCount - 1 /\ entries # Heap!NULL
  /\ pmmgrEntries' = entries /\ pmmgrEntryCount' = entryCount
  /\ STATUS_FLAGS' = STATUS_FLAGS \cup {"STATUS_MEMOK"}
  /\ at' = "returned"
  /\ UNCHANGED <<heapVars, memmap, i, entryCount, entry0, entries, table>>

Publish ==
  /\ at = "fill" /\ Len(table) = entryCount
  /\ pmmgrEntries' = entries /\ pmmgrEntryCount' = entryCount
  /\ STATUS_FLAGS' = STATUS_FLAGS \cup {"STATUS_MEMOK"}
  /\ at' = "returned"
  /\ UNCHANGED <<heapVars, memmap, i, entryCount, entry0, entries, table>>

Next ==
  \/ ScanEntry \/ OpenHeap \/ GiveUp \/ RequestTable
  \/ Searching \/ GotTable
  \/ SkipFramebuffer \/ FillEntry \/ FillFaults \/ Publish

Spec == Init /\ [][Next]_vars

-----------------------------------------------------------------------------
Regions(P(_)) == {k \in 1 .. Len(memmap) : P(memmap[k])}
IsUsable(e) == e.type = "USABLE"
Tabled == {table[k].base : k \in 1 .. Len(table)}

(* Every variable of initMemory has its type; no more regions are counted  *)
(* and no more slots written than there are.                               *)
TypeOK ==
  /\ at \in {"scan", "check", "kmalloc", "fill", "returned", "fault"}
  /\ i \in 0 .. Len(memmap)
  /\ entryCount \in 0 .. Len(memmap)
  /\ table \in Seq([base : Nat, size : Nat, type : Stale]) /\ Len(table) <= entryCount
  /\ entry0 \in [base : Nat, size : Nat, type : {"MEM_USABLE"}]
  /\ entries \in 0 .. Word - 1
  /\ STATUS_FLAGS \subseteq {"STATUS_ERR", "STATUS_MEMOK"}

(* The second loop never reads past the map although only the slots bound  *)
(* it: what the first loop counts is at most what the second does not skip.*)
FillInBounds == at = "fill" /\ Len(table) < entryCount => i < Len(memmap)

(* entry0 is a largest usable region of what has been scanned.             *)
LargestUsable ==
  LET seen == {k \in Regions(IsUsable) : k <= i \/ at # "scan"} IN
  /\ \A k \in seen : memmap[k].length <= entry0.size
  /\ seen # {} => \E k \in seen :
       entry0 = [base |-> memmap[k].base, size |-> memmap[k].length, type |-> "MEM_USABLE"]

(* The published table lists map regions in map order, each counted one    *)
(* with the kind the map gives it; a counted region is missing from it     *)
(* only because a region that was not counted took a slot.                 *)
TableFaithful ==
  "STATUS_MEMOK" \in STATUS_FLAGS =>
    /\ \A k \in 1 .. Len(table) :
         LET e == memmap[table[k].base] IN
         /\ table[k].size = e.length
         /\ Counted(e) => ((table[k].type = "MEM_USABLE") <=>
                            e.type \in {"USABLE", "BOOTLOADER_RECLAIMABLE"})
         /\ \A l \in 1 .. k - 1 : table[l].base < table[k].base
    /\ Cardinality(Regions(Counted) \ Tabled) = Cardinality(Tabled \ Regions(Counted))

(* initMemory ends with exactly one status, and with the table it says:    *)
(* the heap's, complete and inside a live allocation, or the early one.    *)
StatusHonest ==
  at = "returned" =>
    \/ /\ STATUS_FLAGS = {"STATUS_ERR"}
       /\ pmmgrEntries = Entry0 /\ pmmgrEntryCount = 1
    \/ /\ STATUS_FLAGS = {"STATUS_MEMOK"}
       /\ pmmgrEntries \in DOMAIN live
       /\ pmmgrEntryCount = Len(table)
       /\ Entry * pmmgrEntryCount <= live[pmmgrEntries]

(* Where a block starts and ends in the heap.  Addresses wrap if the region*)
(* is longer than what there is above _kernel_end, offsets do not.         *)
Offset(b) == Heap!Wrap(b - heapStart)
EndOffset(b) == Offset(b) + Hdr + blocks[b].size

(* The blocks tile the region without a gap or an overlap: each is linked  *)
(* to the one that starts where it ends, the last ends where the region    *)
(* does.                                                                   *)
HeapTiled ==
  /\ heapStart = HeapBase /\ heapSize = entry0.size /\ heapStart \in DOMAIN blocks
  /\ \A b \in DOMAIN blocks :
       /\ EndOffset(b) <= heapSize
       /\ IF EndOffset(b) = heapSize THEN blocks[b].next = Heap!NULL
          ELSE /\ blocks[b].next = Heap!Wrap(heapStart + EndOffset(b))
               /\ blocks[b].next \in DOMAIN blocks \ {Heap!NULL}
  /\ \A a, b \in DOMAIN blocks : Offset(a) < Offset(b) => EndOffset(a) <= Offset(b)

(* When initMemory reports success the heap is sound, whatever the length  *)
(* of the region: it is tiled, the table lies in a used block and no other *)
(* block is used.                                                          *)
HeapSound ==
  "STATUS_MEMOK" \in STATUS_FLAGS =>
    HeapTiled /\ Heap!LiveIntact /\ Heap!NoLostBlock

(* Why these hold.  What the first loop has done with the n regions it has *)
(* looked at, and the second with the i regions it has.                    *)
CountedIn(n) == {k \in 1 .. n : Counted(memmap[k])}
Slots(n) == {k \in 1 .. n : memmap[k].type # "FRAMEBUFFER"}

ScanInv ==
  LET n == IF at = "scan" THEN i ELSE Len(memmap) IN
  /\ entryCount = Cardinality(CountedIn(n))
  /\ \A k \in 1 .. n : IsUsable(memmap[k]) => memmap[k].length <= entry0.size
  /\ \/ entry0 = NoRegion
     \/ \E k \in 1 .. n :
          IsUsable(memmap[k]) /\ entry0 = Region(memmap[k], "MEM_USABLE")

RowsFaithful ==
  \A k \in 1 .. Len(table) :
    LET e == memmap[table[k].base] IN
    /\ table[k].base \in 1 .. Len(memmap) /\ table[k].size = e.length
    /\ Counted(e) => table[k].type = MemType[e.type]
    /\ \A l \in 1 .. k - 1 : table[l].base < table[k].base

FillInv ==
  at = "fill" =>
    /\ Tabled = Slots(i) /\ Cardinality(Tabled) = Len(table) /\ RowsFaithful
    /\ entries = Heap!NULL => table = <<>>
    /\ entries # Heap!NULL => entries \in DOMAIN live /\ live[entries] = TableBytes

(* The heap is one free block until kmalloc has searched it.               *)
FirstBlock ==
  Heap!With(Heap!NoEntries, HeapBase,
            [size |-> Heap!Wrap(entry0.size - Hdr), isFree |-> TRUE, next |-> Heap!NULL])

HeapInv ==
  /\ at = "scan" => live = Heap!NoEntries
  /\ at \in {"check", "kmalloc"} =>
       /\ heapStart = HeapBase /\ heapSize = entry0.size
       /\ blocks = FirstBlock /\ live = Heap!NoEntries
  /\ at = "kmalloc" =>
       /\ curr \in {HeapBase, Heap!NULL} /\ old = Heap!NULL
       /\ req = TableBytes /\ size = Heap!ALIGN16(TableBytes)
  /\ at \in {"kmalloc", "fill"} => ~TableTooLarge

Unpublished ==
  at # "returned" =>
    STATUS_FLAGS = {} /\ pmmgrEntries = Entry0 /\ pmmgrEntryCount = 1

IInv ==
  /\ TypeOK /\ memmap \in Maps
  /\ at \in {"scan", "check", "kmalloc"} => table = <<>> /\ entries = Heap!NULL
  /\ ScanInv /\ FillInv /\ HeapInv /\ Unpublished
  /\ TableFaithful /\ StatusHonest

(* memory.c:48, "Guarantee non-null value": kmalloc cannot fail once the   *)
(* check before it has passed.                                             *)
TableNotNull == at = "fill" => entries # Heap!NULL
==============================================================================

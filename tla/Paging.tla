------------------------------- MODULE Paging -------------------------------
(***************************************************************************)
(* Page tables: kernel/common/memory/paging.c, with the CPU that walks     *)
(* them and caches what it finds (external).                               *)
(*                                                                         *)
(* Memory is a function from frames to pages of Entries entries (512 in    *)
(* the code), whether a frame is used as a table or not.  A virtual page   *)
(* is the tuple of its four indices, the one into the root first.          *)
(***************************************************************************)
EXTENDS Integers

CONSTANTS
  Entries,    \* how many entries a table has
  Pages,      \* the virtual pages in use
  Ram,        \* the frames there is memory at
  Boots,      \* what the boot loader may leave: memory, CR3 and the frames
              \* the kernel can access at their own address
  Blocks,     \* what kmalloc(4096) may return: the virtual page, the offset
              \* in it and the frame it is mapped to
  Targets,    \* the frames callers map
  Flags,      \* the flags callers pass
  FieldSize,  \* the values a 40-bit field holds
  PageSize,   \* the bytes of a page
  ShiftSize   \* the values of a frame field shifted left by 12

Index == 0 .. Entries - 1

(* struct PageEntry.  The accessed and dirty bits are the CPU's and the    *)
(* available bits are always written as 0: they are left out.              *)
Entry ==
  [present : 0 .. 1, writable : 0 .. 1, userAccessible : 0 .. 1,
   writeThroughCaching : 0 .. 1, disableCache : 0 .. 1, pat : 0 .. 1,
   global : 0 .. 1, noExecute : 0 .. 1, frame : 0 .. FieldSize - 1]

(* Page 0 is not mapped: an access through a null pointer faults.  The     *)
(* number of a frame the machine may have fits in the field, and the shift *)
(* of the field (clang's, see getPhysicalAddress) loses nothing.           *)
ASSUME PagingConstants ==
  /\ \A b \in Boots : /\ b.mem \in [Ram -> [Index -> Entry]]
                      /\ b.reach \subseteq Ram \ {0} /\ b.cr3 \in Ram
  /\ FieldSize \in Nat \ {0} /\ PageSize \in Nat \ {0}
  /\ ShiftSize \in Nat \ {0} /\ Entries \in Nat \ {0}
  /\ Ram \subseteq 0 .. FieldSize - 1
  /\ Pages \subseteq Index \X Index \X Index \X Index
  /\ FieldSize * PageSize <= ShiftSize
  /\ Targets \subseteq 0 .. FieldSize - 1 /\ Flags \subseteq 0 .. 255
  /\ \A b \in Blocks : b.page \in Nat /\ b.offset \in 0 .. PageSize - 1

VARIABLES
  mem,        \* frame |-> index |-> entry
  reach,      \* the frames mapped at their own address
  pageTable,  \* the frame of the root table, as the kernel knows it
  tlb,        \* page |-> the cached translation, or None
  pc,
  call,       \* the arguments of the running mapPage
  ptr,        \* its three table pointers
  store,      \* the entry setPageTableEntry is writing
  cr3,        \* the frame of the root table, as the CPU knows it
  before      \* history: the translations when the call began

vars == <<mem, reach, pageTable, tlb, pc, call, ptr, store, cr3, before>>

NULL == 0
None == [frame |-> -1]
NoCall == [page |-> <<>>, target |-> NULL, flags |-> 0]
NoPtr == [pdp |-> NULL, pd |-> NULL, pt |-> NULL]
NoStore == [frame |-> NULL, index |-> 0, flags |-> 0, target |-> NULL, ret |-> "idle"]

-----------------------------------------------------------------------------
(* 1 << k for the eight bits of the flags, and x >> k & 1.                 *)
Pow2 == <<1, 2, 4, 8, 16, 32, 64, 128>>
Bit(flags, k) == (flags \div Pow2[k + 1]) % 2

(* x & (1 << k), which still has its bit in place k.                       *)
Mask(x, k) == Bit(x, k) * Pow2[k + 1]

LowBits_ZeroBased(flags) ==
  [present |-> Bit(flags, 0), writable |-> Bit(flags, 1),
   userAccessible |-> Bit(flags, 2), writeThroughCaching |-> 0,
   disableCache |-> 0, pat |-> 0, global |-> 0]

LowBits(flags) ==
  [present |-> Bit(flags, 1), writable |-> Bit(flags, 2),
   userAccessible |-> Bit(flags, 3),
   writeThroughCaching |-> Mask(flags, 3) % 2, disableCache |-> Mask(flags, 4) % 2,
   pat |-> Mask(flags, 5) % 2, global |-> Mask(flags, 6) % 2]

LowFields == {"present", "writable", "userAccessible", "writeThroughCaching",
              "disableCache", "pat", "global"}

-----------------------------------------------------------------------------
(* The CPU's walk.  Rights are those of all levels together; an entry of   *)
(* the two middle levels with the pat bit set maps a large page.           *)
E1(p) == mem[cr3][p[1]]
E2(p) == mem[E1(p).frame][p[2]]
E3(p) == mem[E2(p).frame][p[3]]
E4(p) == mem[E3(p).frame][p[4]]

HasTable(e) == e.present = 1 /\ e.frame \in Ram

LargeAt2(p) == HasTable(E1(p)) /\ E2(p).present = 1 /\ E2(p).pat = 1
LargeAt3(p) ==
  /\ HasTable(E1(p)) /\ HasTable(E2(p)) /\ E2(p).pat = 0
  /\ E3(p).present = 1 /\ E3(p).pat = 1
Large(p) == LargeAt2(p) \/ LargeAt3(p)

Tables(p) ==
  HasTable(E1(p)) /\ HasTable(E2(p)) /\ HasTable(E3(p)) /\ ~Large(p)

Translation(frame, es) ==
  [frame |-> frame,
   writable |-> \A e \in es : e.writable = 1,
   userAccessible |-> \A e \in es : e.userAccessible = 1,
   noExecute |-> \E e \in es : e.noExecute = 1]

(* The frame of p in a large page.                                         *)
FrameIn2(p) == E2(p).frame + p[3] * Entries + p[4]
FrameIn3(p) == E3(p).frame + p[4]

Walk(p) ==
  CASE LargeAt2(p) -> Translation(FrameIn2(p), {E1(p), E2(p)})
    [] LargeAt3(p) -> Translation(FrameIn3(p), {E1(p), E2(p), E3(p)})
    [] Tables(p) /\ E4(p).present = 1 ->
         Translation(E4(p).frame, {E1(p), E2(p), E3(p), E4(p)})
    [] OTHER -> None

(* The CPU may cache any translation and forget any it has cached.         *)
TlbFill(p) ==
  /\ Walk(p) # None
  /\ tlb' = [tlb EXCEPT ![p] = Walk(p)]
  /\ UNCHANGED <<mem, reach, pageTable, pc, call, ptr, store, cr3, before>>

TlbEvict(p) ==
  /\ tlb[p] # None
  /\ tlb' = [tlb EXCEPT ![p] = None]
  /\ UNCHANGED <<mem, reach, pageTable, pc, call, ptr, store, cr3, before>>

-----------------------------------------------------------------------------
(* What the boot loader leaves: mem, cr3 and reach (external).             *)
Init ==
  /\ \E b \in Boots : mem = b.mem /\ cr3 = b.cr3 /\ reach = b.reach
  /\ pageTable = NULL
  /\ tlb = [p \in Pages |-> None]
  /\ pc = "boot" /\ call = NoCall /\ ptr = NoPtr /\ store = NoStore
  /\ before = <<>>

cpu == <<reach, cr3, before>>

initPageTable ==
  /\ pc = "boot" /\ pc' = "idle"
  /\ pageTable' = cr3
  /\ UNCHANGED <<mem, tlb, call, ptr, store, cpu>>

(* An access to a frame not mapped at its own address is a page fault, or  *)
(* a general protection fault if the address is not canonical.  The call   *)
(* does not get past it.                                                   *)
Fault ==
  /\ pc' = "fault"
  /\ UNCHANGED <<mem, pageTable, tlb, call, ptr, store, cpu>>

(* What a field of the size of a frame number keeps of x.                  *)
Field(x) == x % FieldSize

(* setPageTableEntry of the entry at index in the table at frame; execution*)
(* goes on at ret.                                                         *)
setPageTableEntry_Untruncated(frame, index, flags, target, ret) ==
  /\ store' = [frame |-> frame, index |-> index, flags |-> flags,
               target |-> target, ret |-> ret]
  /\ pc' = "low"
  /\ UNCHANGED <<mem, pageTable, tlb, call, ptr, cpu>>

setPageTableEntry(frame, index, flags, target, ret) ==
  /\ store' = [frame |-> frame, index |-> index, flags |-> flags,
               target |-> Field(target), ret |-> ret]
  /\ pc' = "low"
  /\ UNCHANGED <<mem, pageTable, tlb, call, ptr, cpu>>

(* allocateEntry: whatever kmalloc returns is shifted right by 12.  NULL   *)
(* has page and frame 0.                                                   *)
allocateEntry(frame, index, ret) ==
  \E b \in Blocks : setPageTableEntry(frame, index, call.flags, b.page, ret)

(* Line 69: the root table.                                                *)
mapPage(p, target, flags) ==
  /\ pc = "idle" /\ pc' = "root"
  /\ call' = [page |-> p, target |-> target, flags |-> flags]
  /\ before' = [q \in Pages |-> Walk(q)]
  /\ UNCHANGED <<mem, reach, pageTable, tlb, ptr, store, cr3>>

CheckRoot ==
  /\ pc = "root"
  /\ IF pageTable \notin reach THEN Fault
     ELSE IF mem[pageTable][call.page[1]].present = 1
     THEN /\ pc' = "load"
          /\ UNCHANGED <<mem, pageTable, tlb, call, ptr, store, cpu>>
     ELSE allocateEntry(pageTable, call.page[1], "load")

(* Lines 72-74: the pointers to the three lower tables, before line 76     *)
(* looks whether the last two are there.                                   *)
LoadPointers_TooDeep ==
  /\ pc = "load"
  /\ LET pdp == mem[pageTable][call.page[1]].frame
         pd == mem[pdp][call.page[2]].frame
         pt == mem[pd][call.page[3]].frame
     IN IF pdp \in reach /\ pd \in reach /\ pt \in reach
        THEN /\ ptr' = [pdp |-> pdp, pd |-> pd, pt |-> mem[pt][call.page[4]].frame]
             /\ pc' = "pdp"
             /\ UNCHANGED <<mem, pageTable, tlb, call, store, cpu>>
        ELSE Fault

LoadPointers ==
  /\ pc = "load"
  /\ LET pdp == mem[pageTable][call.page[1]].frame
         pd == mem[pdp][call.page[2]].frame
     IN IF pdp \notin reach \/ pd \notin reach THEN Fault
        ELSE /\ ptr' = [pdp |-> pdp, pd |-> pd, pt |-> mem[pd][call.page[3]].frame]
             /\ pc' = "pdp"
             /\ UNCHANGED <<mem, pageTable, tlb, call, store, cpu>>

CheckPdp ==
  /\ pc = "pdp"
  /\ IF mem[ptr.pdp][call.page[2]].present = 1
     THEN /\ pc' = "pd"
          /\ UNCHANGED <<mem, pageTable, tlb, call, ptr, store, cpu>>
     ELSE allocateEntry(ptr.pdp, call.page[2], "pd")

CheckPd ==
  /\ pc = "pd"
  /\ IF mem[ptr.pd][call.page[3]].present = 1
     THEN /\ pc' = "pt"
          /\ UNCHANGED <<mem, pageTable, tlb, call, ptr, store, cpu>>
     ELSE allocateEntry(ptr.pd, call.page[3], "pt")

(* Line 82.                                                                *)
SetLeaf_DirectoryIndex ==
  /\ pc = "pt"
  /\ setPageTableEntry(ptr.pt, call.page[3], call.flags, call.target, "flush")

SetLeaf ==
  /\ pc = "pt"
  /\ setPageTableEntry(ptr.pt, call.page[4], call.flags, call.target, "flush")

(* The stores of setPageTableEntry.  A build may merge them into one; any  *)
(* other stores bit-field by bit-field, and the CPU may walk in between.   *)
(* The bits below the frame are stored together here.                      *)
StoreLow ==
  /\ pc = "low"
  /\ IF store.frame \notin reach THEN Fault
     ELSE /\ mem' = [mem EXCEPT ![store.frame][store.index] =
                       [f \in DOMAIN @ |-> IF f \in LowFields
                                           THEN LowBits(store.flags)[f] ELSE @[f]]]
          /\ pc' = "frame"
          /\ UNCHANGED <<pageTable, tlb, call, ptr, store, cpu>>

StoreFrame ==
  /\ pc = "frame"
  /\ mem' = [mem EXCEPT ![store.frame][store.index].frame = store.target]
  /\ pc' = "nx"
  /\ UNCHANGED <<pageTable, tlb, call, ptr, store, cpu>>

StoreNoExecute ==
  /\ pc = "nx"
  /\ mem' = [mem EXCEPT ![store.frame][store.index].noExecute = Bit(store.flags, 7)]
  /\ pc' = store.ret /\ store' = NoStore
  /\ UNCHANGED <<pageTable, tlb, call, ptr, cpu>>

(* invlpg, and mapPage returns.                                            *)
flushTLB_Skipped ==
  /\ pc = "flush" /\ pc' = "idle"
  /\ call' = NoCall /\ ptr' = NoPtr /\ before' = <<>>
  /\ UNCHANGED <<mem, reach, pageTable, tlb, store, cr3>>

flushTLB ==
  /\ pc = "flush" /\ pc' = "idle"
  /\ tlb' = [tlb EXCEPT ![call.page] = None]
  /\ call' = NoCall /\ ptr' = NoPtr /\ before' = <<>>
  /\ UNCHANGED <<mem, reach, pageTable, store, cr3>>

(* The software walk, for a page whose tables can be accessed.  The frame  *)
(* is a 40-bit field of a 64-bit word: clang shifts it as that word.       *)
(* ShiftSize is how many values the shifted word has.                      *)
getPhysicalAddress_Swapped(p, offset) ==
  LET pd == mem[mem[pageTable][p[1]].frame][p[2]].frame
      pt == mem[pd][p[4]].frame
  IN ((mem[pt][p[3]].frame * PageSize) % ShiftSize) + offset

getPhysicalAddress(p, offset) ==
  LET pd == mem[mem[pageTable][p[1]].frame][p[2]].frame
      pt == mem[pd][p[3]].frame
  IN ((mem[pt][p[4]].frame * PageSize) % ShiftSize) + offset

Kernel ==
  \/ initPageTable
  \/ \E p \in Pages, t \in Targets, f \in Flags : mapPage(p, t, f)
  \/ CheckRoot \/ LoadPointers \/ CheckPdp \/ CheckPd \/ SetLeaf
  \/ StoreLow \/ StoreFrame \/ StoreNoExecute \/ flushTLB

Cpu == \E p \in Pages : TlbFill(p) \/ TlbEvict(p)

Next == Kernel \/ Cpu

Spec == Init /\ [][Next]_vars

-----------------------------------------------------------------------------
Cached == {None} \cup
  [frame : Nat, writable : BOOLEAN, userAccessible : BOOLEAN, noExecute : BOOLEAN]

(* Every field of every entry fits in its bits (paging.h, PageEntry), and  *)
(* the locals of mapPage are frame numbers.                                *)
TypeOK ==
  /\ mem \in [Ram -> [Index -> Entry]] /\ reach \subseteq Ram
  /\ pageTable \in Ram \cup {NULL} /\ cr3 \in Ram
  /\ tlb \in [Pages -> Cached]
  /\ pc \in {"boot", "idle", "root", "load", "pdp", "pd", "pt", "low", "frame",
             "nx", "flush", "fault"}
  /\ call = NoCall \/ call \in [page : Pages, target : Targets, flags : Flags]
  /\ ptr \in [pdp : 0 .. FieldSize - 1, pd : 0 .. FieldSize - 1, pt : 0 .. FieldSize - 1]
  /\ store \in [frame : 0 .. FieldSize - 1, index : Index, flags : 0 .. 255,
               target : 0 .. FieldSize - 1, ret : {"idle", "load", "pd", "pt", "flush"}]

(* When mapPage has made its last store, the page translates to the frame  *)
(* asked for, with no right that was not asked for, unless it lies in a    *)
(* large page.  This holds although the pointers are loaded before the     *)
(* tables are checked (paging.c:72-82): a call that finds a level missing  *)
(* does not get here.                                                      *)
MappedAsAsked ==
  pc = "flush" /\ ~Large(call.page) =>
    LET t == Walk(call.page)
    IN IF Bit(call.flags, 1) = 0 THEN t = None
       ELSE /\ t # None /\ t.frame = call.target
            /\ t.writable => Bit(call.flags, 2) = 1
            /\ t.userAccessible => Bit(call.flags, 3) = 1
            /\ Bit(call.flags, 7) = 1 => t.noExecute

(* ... and every other page translates as before the call: the tables it   *)
(* goes through are shared with them (paging.c:69-82).                     *)
OthersKept ==
  pc = "flush" => \A p \in Pages \ {call.page} : Walk(p) = before[p]

(* Outside large pages, mapPage stores only to tables: the memory of the   *)
(* frames that are mapped is not touched (paging.c:18, 82).                *)
StoresHitTables ==
  pc \in {"frame", "nx"} /\ ~Large(call.page) =>
    LET p == call.page
    IN \/ store.frame = cr3
       \/ HasTable(E1(p)) /\ store.frame = E1(p).frame
       \/ HasTable(E1(p)) /\ HasTable(E2(p)) /\ store.frame = E2(p).frame
       \/ Tables(p) /\ store.frame = E3(p).frame

(* Between calls the CPU has cached no translation that the tables do not  *)
(* give, whatever it cached in the middle of a store: the flush comes last *)
(* and covers all that changed (paging.c:85).                              *)
TLBFresh ==
  pc = "idle" => \A p \in Pages : tlb[p] \in {None, Walk(p)}

CanWalk(p) ==
  /\ cr3 \in reach /\ Tables(p)
  /\ {E1(p).frame, E2(p).frame, E3(p).frame} \subseteq reach

(* The software walk finds what the CPU's walk finds (paging.c:50-62), for *)
(* pages of the normal size.                                               *)
PhysicalAgrees ==
  pc = "idle" =>
    \A p \in Pages, offset \in 0 .. PageSize - 1 :
      CanWalk(p) /\ Walk(p) # None =>
        getPhysicalAddress(p, offset) = Walk(p).frame * PageSize + offset

(* The frame of an entry is "The actual physical address" (paging.h:32):   *)
(* a present root entry names memory.  allocateEntry stores the virtual    *)
(* address kmalloc returned (paging.c:31-32).                              *)
FramesArePhysical ==
  pc \notin {"frame", "nx"} =>
    \A p \in Pages : E1(p).present = 1 => E1(p).frame \in Ram
-----------------------------------------------------------------------------
(* The inductive invariant, from what the boot loader leaves.              *)

(* The table on level k of the path to p, if the path gets that far.       *)
OnPath(p, k) ==
  /\ k > 1 => HasTable(E1(p))
  /\ k > 2 => HasTable(E2(p))
  /\ k > 3 => HasTable(E3(p))

TableOf(p, k) ==
  CASE k = 1 -> cr3 [] k = 2 -> E1(p).frame [] k = 3 -> E2(p).frame [] k = 4 -> E3(p).frame

(* No table is on two levels or on the paths to pages that part before it. *)
TablesFormTree ==
  \A p, q \in Pages, j, k \in 1 .. 4 :
    OnPath(p, j) /\ OnPath(q, k) /\ TableOf(p, j) = TableOf(q, k) =>
      j = k /\ \A l \in 1 .. j - 1 : p[l] = q[l]

(* An absent entry of the two middle levels leads nowhere.                 *)
AbsentLeadsNowhere ==
  \A p \in Pages :
    /\ OnPath(p, 2) => E2(p).present = 1 \/ E2(p).frame \notin reach
    /\ OnPath(p, 3) => E3(p).present = 1 \/ E3(p).frame \notin reach

Clean == TablesFormTree /\ AbsentLeadsNowhere

(* The heap is at the top of the address space: what is left of the number *)
(* of one of its pages in the field is no frame mapped at its own address. *)
HeapOutOfReach == \A b \in Blocks : Field(b.page) \notin reach

(* What is assumed of what the boot loader leaves.                         *)
LoaderContract == Clean /\ HeapOutOfReach

Fresh(ps) == \A p \in ps : tlb[p] \in {None, Walk(p)}
Kept(ps) == \A p \in ps : Walk(p) = before[p]
Others == Pages \ {call.page}

(* Nothing has been stored since the call began.                           *)
Untouched == Clean /\ Fresh(Pages) /\ Kept(Pages)

PointersGood ==
  LET p == call.page
  IN /\ E1(p).present = 1 /\ {E1(p).frame, E2(p).frame} \subseteq reach
     /\ ptr = [pdp |-> E1(p).frame, pd |-> E2(p).frame, pt |-> E3(p).frame]

(* What a call knows at each of its lines.  A root entry that has just been*)
(* allocated leads nowhere, and so does the pointer behind a directory     *)
(* entry that was absent: the call will fault.                             *)
CallInv ==
  LET p == call.page IN
  /\ pc = "root" => Untouched
  /\ pc = "load" => E1(p).frame \notin reach \/ (Untouched /\ E1(p).present = 1)
  /\ pc \in {"pdp", "pd"} => Untouched /\ PointersGood
  /\ pc = "pt" => ptr.pt \notin reach \/ (Untouched /\ PointersGood /\ E3(p).present = 1)

RootStore ==
  /\ store.ret = "load" /\ store.frame = cr3 /\ store.index = call.page[1]
  /\ store.target \notin reach
  /\ pc = "nx" => E1(call.page).frame = store.target

DirectoryStore ==
  LET p == call.page IN
  /\ store.ret = "pt" /\ ptr.pt \notin reach
  /\ OnPath(p, 3) /\ store.frame = E2(p).frame /\ store.index = p[3]
  /\ store.frame \notin {cr3, E1(p).frame}

(* The last store, to the table the path leads to, and what of it is done. *)
Granted(e) ==
  /\ e.present = Bit(call.flags, 1)
  /\ e.writable = Bit(call.flags, 2) /\ e.userAccessible = Bit(call.flags, 3)

LeafStore ==
  /\ store.ret = "flush" /\ store.flags = call.flags
  /\ store.target = Field(call.target)
  /\ Clean /\ Fresh(Others) /\ Kept(Others)
  /\ OnPath(call.page, 4)
  /\ store.frame = E3(call.page).frame /\ store.index = call.page[4]
  /\ pc \in {"frame", "nx"} => Granted(E4(call.page))
  /\ pc = "nx" => E4(call.page).frame = store.target

StoreInv ==
  /\ pc \in {"low", "frame", "nx"} =>
       \/ RootStore \/ DirectoryStore \/ LeafStore
       \/ (pc = "low" /\ store.frame \notin reach)
  /\ pc \in {"frame", "nx"} => store.frame \in reach

FlushInv ==
  pc = "flush" =>
    /\ Clean /\ Fresh(Others) /\ Kept(Others)
    /\ OnPath(call.page, 4) /\ Granted(E4(call.page))
    /\ E4(call.page).frame = Field(call.target)
    /\ E4(call.page).noExecute = Bit(call.flags, 7)

IInv ==
  /\ TypeOK /\ HeapOutOfReach
  /\ reach \subseteq Ram \ {0}
  /\ pc # "boot" => pageTable = cr3
  /\ pc \in {"boot", "idle"} => Clean /\ Fresh(Pages)
  /\ pc \notin {"boot", "idle", "fault"} => call \in [page : Pages, target : Targets, flags : Flags]
  /\ CallInv /\ StoreInv /\ FlushInv
==============================================================================

--------------------------- MODULE Paging_proofs ---------------------------
(***************************************************************************)
(* Proofs about Paging, for page tables of any size and any shape that is  *)
(* a tree, any number of pages and every interleaving of mapPage with the  *)
(* CPU's walks.                                                            *)
(***************************************************************************)
EXTENDS Paging, TLAPS

-----------------------------------------------------------------------------
(* Flags and entries.                                                      *)

(* A bit is 0 or 1.                                                        *)
LEMMA BitType == \A flags \in 0 .. 255, k \in 0 .. 7 : Bit(flags, k) \in 0 .. 1
<1>1. ASSUME NEW flags \in 0 .. 255, NEW k \in 0 .. 7 PROVE Bit(flags, k) \in 0 .. 1
  <2>1. Pow2[k + 1] \in Nat \ {0}
    BY DEF Pow2
  <2>2. ASSUME NEW d \in Nat \ {0} PROVE (flags \div d) % 2 \in 0 .. 1
    OBVIOUS
  <2> QED
    BY <2>1, <2>2 DEF Bit
<1> QED
  BY <1>1

(* The low bits of an entry are bits.                                      *)
LEMMA LowBitsType ==
  ASSUME NEW flags \in 0 .. 255
  PROVE  /\ \A f \in LowFields : LowBits(flags)[f] \in 0 .. 1
         /\ LowBits(flags).present = Bit(flags, 1)
         /\ LowBits(flags).writable = Bit(flags, 2)
         /\ LowBits(flags).userAccessible = Bit(flags, 3)
<1>1. ASSUME NEW k \in 0 .. 7 PROVE Mask(flags, k) % 2 \in 0 .. 1
  <2>1. Pow2[k + 1] \in Nat \ {0}
    BY DEF Pow2
  <2>2. Bit(flags, k) \in 0 .. 1
    BY BitType
  <2> QED
    BY <2>1, <2>2 DEF Mask
<1>2. /\ Bit(flags, 1) \in 0 .. 1 /\ Bit(flags, 2) \in 0 .. 1 /\ Bit(flags, 3) \in 0 .. 1
      /\ Mask(flags, 3) % 2 \in 0 .. 1 /\ Mask(flags, 4) % 2 \in 0 .. 1
      /\ Mask(flags, 5) % 2 \in 0 .. 1 /\ Mask(flags, 6) % 2 \in 0 .. 1
  BY <1>1, BitType
<1> QED
  BY <1>2 DEF LowBits, LowFields

(* What the store of the low bits makes of an entry.                       *)
WithLowBits(e, flags) ==
  [f \in DOMAIN e |-> IF f \in LowFields THEN LowBits(flags)[f] ELSE e[f]]

LEMMA WithLowBitsType ==
  ASSUME NEW e \in Entry, NEW flags \in 0 .. 255
  PROVE  LET n == WithLowBits(e, flags)
         IN /\ n \in Entry /\ n.frame = e.frame
            /\ n.present = Bit(flags, 1) /\ n.writable = Bit(flags, 2)
            /\ n.userAccessible = Bit(flags, 3)
<1> DEFINE n == WithLowBits(e, flags)
<1>1. DOMAIN e = {"present", "writable", "userAccessible", "writeThroughCaching",
                  "disableCache", "pat", "global", "noExecute", "frame"}
  BY DEF Entry
<1>2. n \in Entry
  <2>1. \A f \in LowFields : n[f] \in 0 .. 1
    BY <1>1, LowBitsType DEF WithLowBits, LowFields
  <2>2. n.noExecute = e.noExecute /\ n.frame = e.frame
    BY <1>1 DEF WithLowBits, LowFields
  <2>3. n = [present |-> n.present, writable |-> n.writable,
             userAccessible |-> n.userAccessible,
             writeThroughCaching |-> n.writeThroughCaching,
             disableCache |-> n.disableCache, pat |-> n.pat, global |-> n.global,
             noExecute |-> n.noExecute, frame |-> n.frame]
    BY <1>1 DEF WithLowBits
  <2> HIDE DEF n
  <2> QED
    BY <2>1, <2>2, <2>3 DEF Entry, LowFields
<1>3. n.frame = e.frame
  BY <1>1 DEF WithLowBits, LowFields
<1>4. /\ n.present = LowBits(flags).present /\ n.writable = LowBits(flags).writable
      /\ n.userAccessible = LowBits(flags).userAccessible
  BY <1>1 DEF WithLowBits, LowFields
<1> QED
  BY <1>2, <1>3, <1>4, LowBitsType

(* A page is its four indices.                                             *)
LEMMA PageType ==
  /\ \A p \in Pages : p[1] \in Index /\ p[2] \in Index /\ p[3] \in Index /\ p[4] \in Index
  /\ \A p, q \in Pages :
       p[1] = q[1] /\ p[2] = q[2] /\ p[3] = q[3] /\ p[4] = q[4] => p = q
BY PagingConstants

-----------------------------------------------------------------------------
(* One store to one entry.                                                 *)

MemType == mem \in [Ram -> [Index -> Entry]]

(* Memory is as it was but for one entry, which is now new.                *)
StoresEntry(f, i, new) ==
  /\ mem' \in [Ram -> [Index -> Entry]]
  /\ mem'[f][i] = new
  /\ \A g \in Ram, j \in Index : g # f \/ j # i => mem'[g][j] = mem[g][j]

LEMMA EntryReplaced ==
  ASSUME MemType, NEW f \in Ram, NEW i \in Index, NEW new \in Entry,
         mem' = [mem EXCEPT ![f][i] = new]
  PROVE  StoresEntry(f, i, new)
BY DEF MemType, StoresEntry

LEMMA StoreLowStores ==
  ASSUME TypeOK, StoreLow, store.frame \in reach
  PROVE  StoresEntry(store.frame, store.index,
                     WithLowBits(mem[store.frame][store.index], store.flags))
<1>1. store.frame \in Ram /\ store.index \in Index /\ store.flags \in 0 .. 255 /\ MemType
  BY DEF TypeOK, MemType
<1>2. mem[store.frame][store.index] \in Entry
  BY <1>1 DEF MemType
<1>3. WithLowBits(mem[store.frame][store.index], store.flags) \in Entry
  BY <1>1, <1>2, WithLowBitsType
<1>4. mem' = [mem EXCEPT ![store.frame][store.index] =
                WithLowBits(mem[store.frame][store.index], store.flags)]
  BY <1>1 DEF StoreLow, WithLowBits, MemType
<1> QED
  BY <1>1, <1>3, <1>4, EntryReplaced

LEMMA StoreFrameStores ==
  ASSUME TypeOK, StoreFrame, store.frame \in reach
  PROVE  StoresEntry(store.frame, store.index,
                     [mem[store.frame][store.index] EXCEPT !.frame = store.target])
<1>1. store.frame \in Ram /\ store.index \in Index /\ store.target \in 0 .. FieldSize - 1
      /\ MemType
  BY DEF TypeOK, MemType
<1>2. mem[store.frame][store.index] \in Entry
  BY <1>1 DEF MemType
<1>3. [mem[store.frame][store.index] EXCEPT !.frame = store.target] \in Entry
  BY <1>1, <1>2 DEF Entry
<1>4. mem' = [mem EXCEPT ![store.frame][store.index] =
                [mem[store.frame][store.index] EXCEPT !.frame = store.target]]
  BY <1>1 DEF StoreFrame, MemType
<1> QED
  BY <1>1, <1>3, <1>4, EntryReplaced

LEMMA StoreNoExecuteStores ==
  ASSUME TypeOK, StoreNoExecute, store.frame \in reach
  PROVE  StoresEntry(store.frame, store.index,
                     [mem[store.frame][store.index] EXCEPT !.noExecute = Bit(store.flags, 7)])
<1>1. store.frame \in Ram /\ store.index \in Index /\ store.flags \in 0 .. 255 /\ MemType
  BY DEF TypeOK, MemType
<1>2. mem[store.frame][store.index] \in Entry /\ Bit(store.flags, 7) \in 0 .. 1
  BY <1>1, BitType DEF MemType
<1>3. [mem[store.frame][store.index] EXCEPT !.noExecute = Bit(store.flags, 7)] \in Entry
  BY <1>2 DEF Entry
<1>4. mem' = [mem EXCEPT ![store.frame][store.index] =
                [mem[store.frame][store.index] EXCEPT !.noExecute = Bit(store.flags, 7)]]
  BY <1>1 DEF StoreNoExecute, MemType
<1> QED
  BY <1>1, <1>3, <1>4, EntryReplaced

-----------------------------------------------------------------------------
(* Paths and translations.                                                 *)

(* The entries of a path, as far as it gets.                               *)
LEMMA PathType ==
  ASSUME TypeOK, NEW p \in Pages
  PROVE  /\ E1(p) \in Entry
         /\ E1(p).frame \in Ram => E2(p) \in Entry
         /\ E1(p).frame \in Ram /\ E2(p).frame \in Ram => E3(p) \in Entry
         /\ E1(p).frame \in Ram /\ E2(p).frame \in Ram /\ E3(p).frame \in Ram => E4(p) \in Entry
<1>1. /\ p[1] \in Index /\ p[2] \in Index /\ p[3] \in Index /\ p[4] \in Index
      /\ cr3 \in Ram
      /\ \A f \in Ram, i \in Index : mem[f][i] \in Entry
  BY PageType DEF TypeOK
<1> QED
  BY <1>1 DEF E1, E2, E3, E4

LEMMA OnPathCases ==
  ASSUME NEW p
  PROVE  /\ OnPath(p, 1)
         /\ OnPath(p, 2) <=> HasTable(E1(p))
         /\ OnPath(p, 3) <=> HasTable(E1(p)) /\ HasTable(E2(p))
         /\ OnPath(p, 4) <=> HasTable(E1(p)) /\ HasTable(E2(p)) /\ HasTable(E3(p))
         /\ TableOf(p, 1) = cr3 /\ TableOf(p, 2) = E1(p).frame
         /\ TableOf(p, 3) = E2(p).frame /\ TableOf(p, 4) = E3(p).frame
BY DEF OnPath, TableOf

(* A path whose entries keep their contents keeps its translation.         *)
SameEntries(p) ==
  /\ E1(p)' = E1(p)
  /\ HasTable(E1(p)) => E2(p)' = E2(p)
  /\ HasTable(E1(p)) /\ HasTable(E2(p)) => E3(p)' = E3(p)

LEMMA SamePath ==
  ASSUME NEW p, cr3' = cr3, SameEntries(p)
  PROVE  /\ OnPath(p, 2)' <=> OnPath(p, 2)
         /\ OnPath(p, 3)' <=> OnPath(p, 3)
         /\ OnPath(p, 4)' <=> OnPath(p, 4)
         /\ TableOf(p, 1)' = TableOf(p, 1)
         /\ OnPath(p, 2) => TableOf(p, 2)' = TableOf(p, 2)
         /\ OnPath(p, 3) => TableOf(p, 3)' = TableOf(p, 3)
         /\ OnPath(p, 4) => TableOf(p, 4)' = TableOf(p, 4)
BY DEF OnPath, TableOf, SameEntries, HasTable

LEMMA WalkCases ==
  ASSUME NEW p
  PROVE  /\ LargeAt2(p) => Walk(p) = Translation(FrameIn2(p), {E1(p), E2(p)})
         /\ ~LargeAt2(p) /\ LargeAt3(p) =>
              Walk(p) = Translation(FrameIn3(p), {E1(p), E2(p), E3(p)})
         /\ ~Large(p) /\ Tables(p) /\ E4(p).present = 1 =>
              Walk(p) = Translation(E4(p).frame, {E1(p), E2(p), E3(p), E4(p)})
         /\ ~Large(p) /\ ~(Tables(p) /\ E4(p).present = 1) => Walk(p) = None
<1> /\ LargeAt2(p) => ~LargeAt3(p)
    /\ Large(p) => ~Tables(p)
    /\ Large(p) <=> LargeAt2(p) \/ LargeAt3(p)
  BY DEF LargeAt2, LargeAt3, Large, Tables
<1>1. LargeAt2(p) => Walk(p) = Translation(FrameIn2(p), {E1(p), E2(p)})
  BY DEF Walk
<1>2. ~LargeAt2(p) /\ LargeAt3(p) =>
        Walk(p) = Translation(FrameIn3(p), {E1(p), E2(p), E3(p)})
  BY DEF Walk
<1>3. ~Large(p) /\ Tables(p) /\ E4(p).present = 1 =>
        Walk(p) = Translation(E4(p).frame, {E1(p), E2(p), E3(p), E4(p)})
  BY DEF Walk
<1>4. ~Large(p) /\ ~(Tables(p) /\ E4(p).present = 1) => Walk(p) = None
  BY DEF Walk
<1> QED
  BY <1>1, <1>2, <1>3, <1>4

LEMMA SameWalk ==
  ASSUME NEW p, SameEntries(p), OnPath(p, 4) => E4(p)' = E4(p)
  PROVE  Walk(p)' = Walk(p) /\ (Large(p)' <=> Large(p))
<1>1. /\ HasTable(E1(p))' <=> HasTable(E1(p))
      /\ LargeAt2(p)' <=> LargeAt2(p)
  BY DEF SameEntries, HasTable, LargeAt2
<1>2. HasTable(E1(p)) => (HasTable(E2(p))' <=> HasTable(E2(p)))
  BY DEF SameEntries, HasTable
<1>3. HasTable(E1(p)) /\ HasTable(E2(p)) => (HasTable(E3(p))' <=> HasTable(E3(p)))
  BY DEF SameEntries, HasTable
<1>4. LargeAt3(p)' <=> LargeAt3(p)
  BY <1>1, <1>2 DEF SameEntries, LargeAt3
<1>5. Large(p)' <=> Large(p)
  BY <1>1, <1>4 DEF Large
<1>6. (Tables(p)' <=> Tables(p)) /\ (Tables(p) => OnPath(p, 4))
  BY <1>1, <1>2, <1>3, <1>5, OnPathCases DEF Tables
<1>7. CASE LargeAt2(p)
  <2>1. E1(p)' = E1(p) /\ E2(p)' = E2(p)
    BY <1>7 DEF SameEntries, LargeAt2
  <2>4. FrameIn2(p)' = FrameIn2(p)
    BY <2>1 DEF FrameIn2
  <2>2. Walk(p) = Translation(FrameIn2(p), {E1(p), E2(p)})
    BY <1>7, WalkCases
  <2>3. Walk(p)' = Translation(FrameIn2(p)', {E1(p)', E2(p)'})
    BY <1>1, <1>4, <1>5, <1>6, <1>7 DEF Walk, Large, LargeAt2, LargeAt3, Tables
  <2> QED
    BY <1>5, <2>1, <2>2, <2>3, <2>4
<1>8. CASE ~LargeAt2(p) /\ LargeAt3(p)
  <2>1. E1(p)' = E1(p) /\ E2(p)' = E2(p) /\ E3(p)' = E3(p)
    BY <1>8 DEF SameEntries, LargeAt3
  <2>4. FrameIn3(p)' = FrameIn3(p)
    BY <2>1 DEF FrameIn3
  <2>2. Walk(p) = Translation(FrameIn3(p), {E1(p), E2(p), E3(p)})
    BY <1>8, WalkCases
  <2>3. Walk(p)' = Translation(FrameIn3(p)', {E1(p)', E2(p)', E3(p)'})
    BY <1>1, <1>4, <1>5, <1>6, <1>8 DEF Walk, Large, Tables
  <2> QED
    BY <1>5, <2>1, <2>2, <2>3, <2>4
<1>9. CASE ~Large(p) /\ Tables(p)
  <2>1. E1(p)' = E1(p) /\ E2(p)' = E2(p) /\ E3(p)' = E3(p) /\ E4(p)' = E4(p)
    BY <1>6, <1>9 DEF SameEntries, Tables
  <2> QED
    BY <1>1, <1>4, <1>5, <1>6, <1>9, <2>1 DEF Walk, Translation, Large
<1>10. CASE ~Large(p) /\ ~Tables(p)
  BY <1>1, <1>4, <1>5, <1>6, <1>10 DEF Walk, Large
<1> QED
  BY <1>5, <1>7, <1>8, <1>9, <1>10 DEF Large

(* What the CPU may put in the TLB.                                        *)
LEMMA WalkType == ASSUME TypeOK, NEW p \in Pages PROVE Walk(p) \in Cached
<1>1. ASSUME NEW frame \in Nat, NEW es PROVE Translation(frame, es) \in Cached
  BY <1>1 DEF Translation, Cached
<1>2. p[3] \in Nat /\ p[4] \in Nat /\ Entries \in Nat
  BY PageType, PagingConstants DEF Index
<1>3. /\ HasTable(E1(p)) => E2(p).frame \in Nat
      /\ HasTable(E1(p)) /\ HasTable(E2(p)) => E3(p).frame \in Nat
      /\ Tables(p) => E4(p).frame \in Nat
  BY PathType, PagingConstants DEF HasTable, Entry, Tables
<1>4. CASE LargeAt2(p)
  <2>1. FrameIn2(p) \in Nat
    <3>1. p[3] * Entries \in Nat
      BY <1>2
    <3> QED
      BY <1>2, <1>3, <1>4, <3>1 DEF LargeAt2, FrameIn2
  <2> QED
    BY <1>1, <1>4, <2>1, WalkCases
<1>5. CASE ~LargeAt2(p) /\ LargeAt3(p)
  <2>1. FrameIn3(p) \in Nat
    BY <1>2, <1>3, <1>5 DEF LargeAt3, FrameIn3
  <2> QED
    BY <1>1, <1>5, <2>1, WalkCases
<1>6. CASE ~Large(p) /\ Tables(p) /\ E4(p).present = 1
  BY <1>1, <1>3, <1>6, WalkCases
<1>7. CASE ~Large(p) /\ ~(Tables(p) /\ E4(p).present = 1)
  BY <1>7, WalkCases DEF Cached
<1> QED
  BY <1>4, <1>5, <1>6, <1>7 DEF Large

(* A tree whose entries keep their contents is one still.                  *)
LEMMA CleanKept ==
  ASSUME Clean, cr3' = cr3, reach' = reach, \A p \in Pages : SameEntries(p)
  PROVE  Clean'
<1>1. TablesFormTree'
  <2> SUFFICES ASSUME NEW p \in Pages, NEW q \in Pages, NEW j \in 1 .. 4, NEW k \in 1 .. 4,
                      OnPath(p, j)', OnPath(q, k)', TableOf(p, j)' = TableOf(q, k)'
               PROVE  j = k /\ \A l \in 1 .. j - 1 : p[l] = q[l]
    BY DEF TablesFormTree
  <2>1. ASSUME NEW r \in Pages, NEW m \in 1 .. 4, OnPath(r, m)'
        PROVE  OnPath(r, m) /\ TableOf(r, m)' = TableOf(r, m)
    <3>1. m = 1 \/ m = 2 \/ m = 3 \/ m = 4
      OBVIOUS
    <3> QED
      BY <2>1, <3>1, SamePath, OnPathCases
  <2>2. OnPath(p, j) /\ OnPath(q, k) /\ TableOf(p, j) = TableOf(q, k)
    BY <2>1
  <2> QED
    BY <2>2 DEF Clean, TablesFormTree
<1>2. AbsentLeadsNowhere'
  BY SamePath, OnPathCases DEF Clean, AbsentLeadsNowhere, SameEntries
<1> QED
  BY <1>1, <1>2 DEF Clean

-----------------------------------------------------------------------------
(* What a store to a table disturbs.                                       *)

(* The table a whole path leads to is on no other level, and no other page *)
(* shares the entry.                                                       *)
LEMMA LeafEntryAlone ==
  ASSUME Clean, NEW c \in Pages, NEW p \in Pages, OnPath(c, 4)
  PROVE  /\ cr3 # E3(c).frame
         /\ OnPath(p, 2) => E1(p).frame # E3(c).frame
         /\ OnPath(p, 3) => E2(p).frame # E3(c).frame
         /\ OnPath(p, 4) /\ E3(p).frame = E3(c).frame /\ p[4] = c[4] => p = c
<1>1. ASSUME NEW j \in 1 .. 4, OnPath(p, j), TableOf(p, j) = TableOf(c, 4)
      PROVE  j = 4 /\ p[1] = c[1] /\ p[2] = c[2] /\ p[3] = c[3]
  <2>1. j = 4 /\ \A l \in 1 .. j - 1 : p[l] = c[l]
    BY <1>1 DEF Clean, TablesFormTree
  <2> QED
    BY <2>1
<1> QED
  BY <1>1, OnPathCases, PageType

(* Nor is a directory.                                                     *)
LEMMA DirectoryAlone ==
  ASSUME Clean, NEW c \in Pages, OnPath(c, 3)
  PROVE  E2(c).frame \notin {cr3, E1(c).frame}
<1>1. ASSUME NEW j \in 1 .. 4, OnPath(c, j), TableOf(c, j) = TableOf(c, 3) PROVE j = 3
  BY <1>1 DEF Clean, TablesFormTree
<1> QED
  BY <1>1, OnPathCases

(* Without a store nothing changes.                                        *)
LEMMA NoStoreKeeps ==
  ASSUME mem' = mem, cr3' = cr3, NEW p
  PROVE  /\ E1(p)' = E1(p) /\ E2(p)' = E2(p) /\ E3(p)' = E3(p) /\ E4(p)' = E4(p)
         /\ SameEntries(p) /\ Walk(p)' = Walk(p)
<1>1. E1(p)' = E1(p) /\ E2(p)' = E2(p) /\ E3(p)' = E3(p) /\ E4(p)' = E4(p)
  BY DEF E1, E2, E3, E4
<1> QED
  BY <1>1, SameWalk DEF SameEntries

(* A store to the last table of a path changes what that page translates   *)
(* to and nothing else.                                                    *)
LEMMA LeafStoreKeeps ==
  ASSUME TypeOK, Clean, cr3' = cr3, reach' = reach,
         NEW c \in Pages, OnPath(c, 4), NEW new, StoresEntry(E3(c).frame, c[4], new)
  PROVE  /\ Clean' /\ OnPath(c, 4)'
         /\ E1(c)' = E1(c) /\ E2(c)' = E2(c) /\ E3(c)' = E3(c) /\ E4(c)' = new
         /\ \A p \in Pages \ {c} : Walk(p)' = Walk(p)
<1> DEFINE f == E3(c).frame
<1>1. ASSUME NEW g \in Ram, NEW j \in Index, g # f \/ j # c[4]
      PROVE  mem'[g][j] = mem[g][j]
  BY <1>1 DEF StoresEntry
<1>2. ASSUME NEW p \in Pages PROVE SameEntries(p)
  <2>1. cr3 \in Ram /\ p[1] \in Index /\ p[2] \in Index /\ p[3] \in Index
    BY PageType DEF TypeOK
  <2>2. E1(p)' = E1(p)
    BY <1>1, <2>1, LeafEntryAlone DEF E1
  <2>3. HasTable(E1(p)) => E2(p)' = E2(p)
    <3> SUFFICES ASSUME OnPath(p, 2) PROVE E2(p)' = E2(p)
      BY OnPathCases
    <3>1. E1(p).frame \in Ram /\ E1(p).frame # f
      BY LeafEntryAlone, OnPathCases DEF HasTable
    <3> QED
      BY <1>1, <2>1, <2>2, <3>1 DEF E2
  <2>4. HasTable(E1(p)) /\ HasTable(E2(p)) => E3(p)' = E3(p)
    <3> SUFFICES ASSUME OnPath(p, 3) PROVE E3(p)' = E3(p)
      BY OnPathCases
    <3>1. E2(p).frame \in Ram /\ E2(p).frame # f /\ E2(p)' = E2(p)
      BY <2>3, LeafEntryAlone, OnPathCases DEF HasTable
    <3> QED
      BY <1>1, <2>1, <3>1 DEF E3
  <2> QED
    BY <2>2, <2>3, <2>4 DEF SameEntries
<1>3. Clean'
  BY <1>2, CleanKept
<1>4. /\ OnPath(c, 4)'
      /\ E1(c)' = E1(c) /\ E2(c)' = E2(c) /\ E3(c)' = E3(c)
  BY <1>2, SamePath, OnPathCases DEF SameEntries
<1>5. E4(c)' = new
  BY <1>4 DEF E4, StoresEntry
<1>6. ASSUME NEW p \in Pages \ {c} PROVE Walk(p)' = Walk(p)
  <2>1. OnPath(p, 4) => E4(p)' = E4(p)
    <3> SUFFICES ASSUME OnPath(p, 4) PROVE E4(p)' = E4(p)
      OBVIOUS
    <3>1. E3(p).frame \in Ram /\ p[4] \in Index /\ E3(p)' = E3(p)
      BY <1>2, OnPathCases, PageType DEF HasTable, SameEntries
    <3>2. E3(p).frame # f \/ p[4] # c[4]
      BY LeafEntryAlone
    <3> QED
      BY <1>1, <3>1, <3>2 DEF E4
  <2> QED
    BY <1>2, <2>1, SameWalk
<1> QED
  BY <1>3, <1>4, <1>5, <1>6

(* A store to the directory of a path leaves the path to it.               *)
LEMMA DirectoryStoreKeeps ==
  ASSUME TypeOK, cr3' = cr3, NEW c \in Pages, OnPath(c, 3),
         E2(c).frame \notin {cr3, E1(c).frame},
         NEW i, NEW new, StoresEntry(E2(c).frame, i, new)
  PROVE  E1(c)' = E1(c) /\ E2(c)' = E2(c) /\ OnPath(c, 3)'
<1>1. cr3 \in Ram /\ E1(c).frame \in Ram /\ c[1] \in Index /\ c[2] \in Index
  BY OnPathCases, PageType DEF TypeOK, HasTable
<1>2. E1(c)' = E1(c)
  BY <1>1 DEF E1, StoresEntry
<1>3. E2(c)' = E2(c)
  BY <1>1, <1>2 DEF E2, StoresEntry
<1> QED
  BY <1>2, <1>3, OnPathCases DEF OnPath, HasTable

-----------------------------------------------------------------------------
(* The steps of the kernel that store nothing.                             *)

Frames == 0 .. FieldSize - 1
CallType == call \in [page : Pages, target : Targets, flags : Flags]

LEMMA CallFacts ==
  ASSUME CallType
  PROVE  /\ call.page \in Pages /\ call.flags \in 0 .. 255
         /\ call.target \in Nat /\ Field(call.target) = call.target
<1>1. call.page \in Pages /\ call.flags \in Flags /\ call.target \in Targets
  BY DEF CallType
<1>2. \A n \in Targets : n \in Nat /\ Field(n) = n
  BY PagingConstants DEF Field
<1>3. \A n \in Flags : n \in 0 .. 255
  BY PagingConstants
<1> QED
  BY <1>1, <1>2, <1>3

LEMMA InitHolds == Init /\ LoaderContract => IInv
<1> SUFFICES ASSUME Init, LoaderContract PROVE IInv
  OBVIOUS
<1>1. mem \in [Ram -> [Index -> Entry]] /\ reach \subseteq Ram \ {0} /\ cr3 \in Ram
  BY PagingConstants DEF Init
<1>2. ptr \in [pdp : Frames, pd : Frames, pt : Frames]
  BY PagingConstants DEF Init, NoPtr, NULL, Frames
<1>3. store \in [frame : Frames, index : Index, flags : 0 .. 255,
                 target : Frames, ret : {"idle", "load", "pd", "pt", "flush"}]
  <2>1. 0 \in Frames /\ 0 \in Index /\ 0 \in 0 .. 255
    BY PagingConstants DEF Frames, Index
  <2> QED
    BY <2>1 DEF Init, NoStore, NULL
<1>4. tlb \in [Pages -> Cached] /\ Fresh(Pages)
  BY DEF Init, Cached, Fresh
<1>5. TypeOK
  BY <1>1, <1>2, <1>3, <1>4 DEF Init, TypeOK, Frames
<1> QED
  BY <1>1, <1>4, <1>5 DEF Init, LoaderContract, IInv, CallInv, StoreInv, FlushInv

(* The parts of the invariant in the middle of a call.                     *)
LEMMA InCall ==
  ASSUME TypeOK', HeapOutOfReach', reach' \subseteq Ram \ {0}, pageTable' = cr3',
         pc' \notin {"boot", "idle"}, CallType', CallInv', StoreInv', FlushInv'
  PROVE  IInv'
BY DEF IInv, CallType

(* What holds of memory, the TLB and the history does so still.            *)
LEMMA QuietKeeps ==
  ASSUME mem' = mem, cr3' = cr3, reach' = reach
  PROVE  /\ HeapOutOfReach => HeapOutOfReach'
         /\ Clean => Clean'
         /\ Fresh(Pages) /\ tlb' = tlb => Fresh(Pages)'
         /\ Kept(Pages) /\ before' = before => Kept(Pages)'
         /\ Untouched /\ tlb' = tlb /\ before' = before => Untouched'
<1>1. HeapOutOfReach => HeapOutOfReach'
  BY DEF HeapOutOfReach
<1>2. Clean => Clean'
  BY NoStoreKeeps, CleanKept
<1>3. Fresh(Pages) /\ tlb' = tlb => Fresh(Pages)'
  BY NoStoreKeeps DEF Fresh
<1>4. Kept(Pages) /\ before' = before => Kept(Pages)'
  BY NoStoreKeeps DEF Kept
<1> QED
  BY <1>1, <1>2, <1>3, <1>4 DEF Untouched

LEMMA InitPageTableKeeps == ASSUME IInv, initPageTable PROVE IInv'
<1>1. mem' = mem /\ cr3' = cr3 /\ reach' = reach /\ tlb' = tlb
  BY DEF initPageTable, cpu
<1>2. TypeOK'
  BY DEF IInv, TypeOK, initPageTable, cpu
<1>3. HeapOutOfReach' /\ Clean' /\ Fresh(Pages)'
  BY <1>1, QuietKeeps DEF IInv, initPageTable
<1> QED
  BY <1>1, <1>2, <1>3 DEF IInv, initPageTable, CallInv, StoreInv, FlushInv

LEMMA MapPageKeeps ==
  ASSUME IInv, NEW p \in Pages, NEW t \in Targets, NEW f \in Flags, mapPage(p, t, f)
  PROVE  IInv'
<1>1. mem' = mem /\ cr3' = cr3 /\ reach' = reach /\ tlb' = tlb
  BY DEF mapPage
<1>2. CallType'
  BY DEF mapPage, CallType
<1>3. TypeOK'
  BY <1>2 DEF IInv, TypeOK, mapPage, CallType
<1>4. HeapOutOfReach' /\ Clean' /\ Fresh(Pages)'
  BY <1>1, QuietKeeps DEF IInv, mapPage
<1>5. Kept(Pages)'
  BY <1>1, NoStoreKeeps DEF mapPage, Kept
<1> QED
  <2>1. pc' = "root" /\ pageTable' = cr3' /\ reach' \subseteq Ram \ {0}
    BY <1>1 DEF IInv, mapPage
  <2>2. Untouched'
    BY <1>4, <1>5 DEF Untouched
  <2>3. CallInv' /\ StoreInv' /\ FlushInv'
    BY <2>1, <2>2 DEF CallInv, StoreInv, FlushInv
  <2> QED
    BY <1>2, <1>3, <1>4, <2>1, <2>3, InCall

(* A fault ends the call.                                                  *)
LEMMA FaultKeeps == ASSUME IInv, pc # "boot", Fault PROVE IInv'
<1>1. mem' = mem /\ cr3' = cr3 /\ reach' = reach
  BY DEF Fault, cpu
<1>2. TypeOK'
  BY DEF IInv, TypeOK, Fault, cpu
<1>3. HeapOutOfReach'
  BY <1>1, QuietKeeps DEF IInv
<1> QED
  BY <1>1, <1>2, <1>3 DEF IInv, Fault, cpu, CallInv, StoreInv, FlushInv

(* The call of setPageTableEntry.                                          *)
LEMMA SetPageTableEntryType ==
  ASSUME TypeOK, NEW frame \in Frames, NEW index \in Index, NEW flags \in 0 .. 255,
         NEW target \in Nat, NEW ret \in {"load", "pd", "pt", "flush"},
         setPageTableEntry(frame, index, flags, target, ret)
  PROVE  TypeOK'
<1>1. Field(target) \in Frames
  BY PagingConstants DEF Frames, Field
<1>2. store' \in [frame : Frames, index : Index, flags : 0 .. 255,
                  target : Frames, ret : {"idle", "load", "pd", "pt", "flush"}]
  BY <1>1 DEF setPageTableEntry
<1> QED
  BY <1>2 DEF TypeOK, setPageTableEntry, cpu, Frames

LEMMA CheckRootKeeps == ASSUME IInv, CheckRoot PROVE IInv'
<1> DEFINE c == call.page
<1>1. /\ CallType /\ pageTable = cr3 /\ cr3 \in Ram /\ Untouched /\ TypeOK
      /\ HeapOutOfReach /\ reach \subseteq Ram \ {0}
  BY DEF IInv, CheckRoot, CallType, CallInv, TypeOK
<1>2. c \in Pages /\ c[1] \in Index /\ call.flags \in 0 .. 255 /\ cr3 \in Frames
  BY <1>1, PageType, PagingConstants DEF CallType, Frames
<1>3. CASE pageTable \notin reach
  BY <1>3, FaultKeeps DEF CheckRoot
<1>4. CASE pageTable \in reach /\ E1(c).present = 1
  <2>1. /\ mem' = mem /\ cr3' = cr3 /\ reach' = reach /\ tlb' = tlb /\ before' = before
        /\ call' = call /\ pc' = "load" /\ pageTable' = pageTable /\ ptr' = ptr /\ store' = store
    BY <1>1, <1>4 DEF CheckRoot, E1, cpu
  <2>2. TypeOK'
    BY <1>1, <2>1 DEF TypeOK
  <2>3. Untouched' /\ HeapOutOfReach' /\ E1(c)' = E1(c)
    BY <1>1, <2>1, QuietKeeps, NoStoreKeeps
  <2>4. CallInv' /\ StoreInv' /\ FlushInv'
    BY <1>4, <2>1, <2>3 DEF CallInv, StoreInv, FlushInv
  <2> QED
    BY <1>1, <2>1, <2>2, <2>3, <2>4, InCall DEF CallType
<1>5. CASE pageTable \in reach /\ E1(c).present # 1
  <2>1. PICK b \in Blocks : setPageTableEntry(pageTable, c[1], call.flags, b.page, "load")
    BY <1>1, <1>5 DEF CheckRoot, E1, allocateEntry
  <2>2. b.page \in Nat /\ Field(b.page) \notin reach
    BY <1>1, PagingConstants DEF HeapOutOfReach
  <2>3. /\ TypeOK' /\ mem' = mem /\ cr3' = cr3 /\ reach' = reach
        /\ call' = call /\ pageTable' = pageTable
        /\ pc' = "low" /\ store'.frame = pageTable /\ store'.index = c[1]
        /\ store'.target = Field(b.page) /\ store'.ret = "load"
    <3>1. pageTable \in Frames /\ "load" \in {"load", "pd", "pt", "flush"}
      BY <1>1, <1>2
    <3>2. TypeOK'
      BY <1>1, <1>2, <2>1, <2>2, <3>1, SetPageTableEntryType
    <3> QED
      BY <2>1, <3>2 DEF setPageTableEntry, cpu
  <2>4. RootStore'
    BY <1>1, <2>2, <2>3 DEF RootStore
  <2>5. HeapOutOfReach'
    BY <1>1, <2>3, QuietKeeps
  <2>6. CallInv' /\ StoreInv' /\ FlushInv'
    BY <2>3, <2>4 DEF CallInv, StoreInv, FlushInv
  <2> QED
    BY <1>1, <2>3, <2>5, <2>6, InCall DEF CallType
<1> QED
  BY <1>3, <1>4, <1>5

LEMMA LoadPointersKeeps == ASSUME IInv, LoadPointers PROVE IInv'
<1> DEFINE c == call.page
<1>1. CallType /\ pageTable = cr3 /\ cr3 \in Ram /\ TypeOK /\ HeapOutOfReach
      /\ reach \subseteq Ram \ {0}
  BY DEF IInv, LoadPointers, CallType, TypeOK
<1>2. c \in Pages
  BY <1>1 DEF CallType
<1>3. CASE E1(c).frame \notin reach \/ E2(c).frame \notin reach
  BY <1>1, <1>3, FaultKeeps DEF LoadPointers, E1, E2
<1>4. CASE E1(c).frame \in reach /\ E2(c).frame \in reach
  <2>1. /\ mem' = mem /\ cr3' = cr3 /\ reach' = reach /\ tlb' = tlb /\ before' = before
        /\ call' = call /\ pc' = "pdp" /\ pageTable' = pageTable /\ store' = store
        /\ ptr' = [pdp |-> E1(c).frame, pd |-> E2(c).frame, pt |-> E3(c).frame]
    BY <1>1, <1>4 DEF LoadPointers, E1, E2, E3, cpu
  <2>2. Untouched /\ E1(c).present = 1
    BY <1>4 DEF IInv, CallInv, LoadPointers
  <2>3. ptr' \in [pdp : Frames, pd : Frames, pt : Frames]
    BY <1>1, <1>2, <1>4, <2>1, PathType DEF Entry, Frames
  <2>4. TypeOK'
    BY <1>1, <2>1, <2>3 DEF TypeOK, Frames
  <2>5. Untouched' /\ HeapOutOfReach' /\ E1(c)' = E1(c) /\ E2(c)' = E2(c) /\ E3(c)' = E3(c)
    BY <1>1, <2>1, <2>2, QuietKeeps, NoStoreKeeps
  <2>6. PointersGood'
    BY <1>4, <2>1, <2>2, <2>5 DEF PointersGood
  <2>7. CallInv' /\ StoreInv' /\ FlushInv'
    BY <2>1, <2>5, <2>6 DEF CallInv, StoreInv, FlushInv
  <2> QED
    BY <1>1, <2>1, <2>4, <2>5, <2>7, InCall DEF CallType
<1> QED
  BY <1>3, <1>4

(* What the call has found out before its last two checks.                 *)
LEMMA PointersLead ==
  ASSUME IInv, CallType, Untouched, PointersGood
  PROVE  LET c == call.page
         IN /\ c \in Pages /\ OnPath(c, 3) /\ E2(c).present = 1
            /\ mem[ptr.pdp][c[2]] = E2(c) /\ mem[ptr.pd][c[3]] = E3(c) /\ ptr.pt = E3(c).frame
            /\ E3(c).present = 1 \/ E3(c).frame \notin reach
            /\ ptr.pd = E2(c).frame /\ ptr.pd \in reach
<1> DEFINE c == call.page
<1>1. c \in Pages /\ reach \subseteq Ram
  BY DEF CallType, IInv
<1>2. E1(c).present = 1 /\ E1(c).frame \in reach /\ E2(c).frame \in reach
  BY DEF PointersGood
<1>3. OnPath(c, 2)
  BY <1>1, <1>2, OnPathCases DEF HasTable
<1>4. E2(c).present = 1
  BY <1>1, <1>2, <1>3 DEF Untouched, Clean, AbsentLeadsNowhere
<1>5. OnPath(c, 3)
  BY <1>1, <1>2, <1>3, <1>4, OnPathCases DEF HasTable
<1>6. E3(c).present = 1 \/ E3(c).frame \notin reach
  BY <1>1, <1>5 DEF Untouched, Clean, AbsentLeadsNowhere
<1> QED
  BY <1>1, <1>2, <1>4, <1>5, <1>6 DEF PointersGood, E2, E3

LEMMA PointersStayGood ==
  ASSUME PointersGood, mem' = mem, cr3' = cr3, reach' = reach, call' = call, ptr' = ptr
  PROVE  PointersGood' /\ E3(call.page)' = E3(call.page)
BY NoStoreKeeps DEF PointersGood

(* The second check never fails: a present entry is why the third pointer  *)
(* could be loaded.                                                        *)
LEMMA CheckPdpKeeps == ASSUME IInv, CheckPdp PROVE IInv'
<1>1. CallType /\ pageTable = cr3 /\ Untouched /\ PointersGood /\ TypeOK /\ HeapOutOfReach
      /\ reach \subseteq Ram \ {0}
  BY DEF IInv, CheckPdp, CallType, CallInv
<1>2. /\ mem' = mem /\ cr3' = cr3 /\ reach' = reach /\ tlb' = tlb /\ before' = before
      /\ call' = call /\ pc' = "pd" /\ pageTable' = pageTable /\ ptr' = ptr /\ store' = store
  <2>1. mem[ptr.pdp][call.page[2]].present = 1
    BY <1>1, PointersLead
  <2> QED
    BY <2>1 DEF CheckPdp, cpu
<1>3. TypeOK'
  BY <1>1, <1>2 DEF TypeOK
<1>4. Untouched' /\ HeapOutOfReach' /\ PointersGood'
  BY <1>1, <1>2, QuietKeeps, PointersStayGood
<1>5. CallInv' /\ StoreInv' /\ FlushInv'
  BY <1>2, <1>4 DEF CallInv, StoreInv, FlushInv
<1> QED
  BY <1>1, <1>2, <1>3, <1>4, <1>5, InCall DEF CallType

LEMMA CheckPdKeeps == ASSUME IInv, CheckPd PROVE IInv'
<1> DEFINE c == call.page
<1>1. CallType /\ pageTable = cr3 /\ Untouched /\ PointersGood /\ TypeOK /\ HeapOutOfReach
      /\ reach \subseteq Ram \ {0}
  BY DEF IInv, CheckPd, CallType, CallInv
<1>2. /\ c \in Pages /\ OnPath(c, 3) /\ mem[ptr.pd][c[3]] = E3(c) /\ ptr.pt = E3(c).frame
      /\ E3(c).present = 1 \/ E3(c).frame \notin reach
      /\ ptr.pd = E2(c).frame /\ ptr.pd \in reach
  BY <1>1, PointersLead
<1>3. CASE E3(c).present = 1
  <2>1. /\ mem' = mem /\ cr3' = cr3 /\ reach' = reach /\ tlb' = tlb /\ before' = before
        /\ call' = call /\ pc' = "pt" /\ pageTable' = pageTable /\ ptr' = ptr /\ store' = store
    BY <1>2, <1>3 DEF CheckPd, cpu
  <2>2. TypeOK'
    BY <1>1, <2>1 DEF TypeOK
  <2>3. Untouched' /\ HeapOutOfReach' /\ PointersGood' /\ E3(c)' = E3(c)
    BY <1>1, <2>1, QuietKeeps, PointersStayGood
  <2>4. CallInv' /\ StoreInv' /\ FlushInv'
    BY <1>3, <2>1, <2>3 DEF CallInv, StoreInv, FlushInv
  <2> QED
    BY <1>1, <2>1, <2>2, <2>3, <2>4, InCall DEF CallType
<1>4. CASE E3(c).present # 1
  <2>1. PICK b \in Blocks : setPageTableEntry(ptr.pd, c[3], call.flags, b.page, "pt")
    BY <1>2, <1>4 DEF CheckPd, allocateEntry
  <2>2. /\ mem' = mem /\ cr3' = cr3 /\ reach' = reach /\ call' = call
        /\ pageTable' = pageTable /\ ptr' = ptr
        /\ pc' = "low" /\ store'.frame = ptr.pd /\ store'.index = c[3] /\ store'.ret = "pt"
    BY <2>1 DEF setPageTableEntry, cpu
  <2>3. TypeOK'
    <3>1. /\ ptr.pd \in Frames /\ c[3] \in Index /\ call.flags \in 0 .. 255
          /\ b.page \in Nat /\ "pt" \in {"load", "pd", "pt", "flush"}
      BY <1>1, <1>2, PageType, PagingConstants DEF TypeOK, CallType, Frames
    <3> QED
      BY <1>1, <2>1, <3>1, SetPageTableEntryType
  <2>4. HeapOutOfReach'
    BY <1>1, <2>2, QuietKeeps
  <2>5. OnPath(c, 3)' /\ E1(c)' = E1(c) /\ E2(c)' = E2(c)
    BY <1>2, <2>2, NoStoreKeeps, SamePath
  <2>6. E2(c).frame \notin {cr3, E1(c).frame}
    BY <1>1, <1>2, DirectoryAlone DEF Untouched
  <2>7. DirectoryStore'
    BY <1>2, <1>4, <2>2, <2>5, <2>6 DEF DirectoryStore
  <2>8. CallInv' /\ StoreInv' /\ FlushInv'
    BY <2>2, <2>7 DEF CallInv, StoreInv, FlushInv
  <2> QED
    BY <1>1, <2>2, <2>3, <2>4, <2>8, InCall DEF CallType
<1> QED
  BY <1>3, <1>4

LEMMA SetLeafKeeps == ASSUME IInv, SetLeaf PROVE IInv'
<1> DEFINE c == call.page
<1>1. CallType /\ pageTable = cr3 /\ TypeOK /\ HeapOutOfReach /\ reach \subseteq Ram \ {0}
  BY DEF IInv, SetLeaf, CallType
<1>2. c \in Pages
  BY <1>1 DEF CallType
<1>3. /\ mem' = mem /\ cr3' = cr3 /\ reach' = reach /\ call' = call /\ tlb' = tlb
      /\ before' = before /\ pageTable' = pageTable /\ ptr' = ptr /\ pc' = "low"
      /\ store'.frame = ptr.pt /\ store'.index = c[4] /\ store'.ret = "flush"
      /\ store'.flags = call.flags /\ store'.target = Field(call.target)
  BY DEF SetLeaf, setPageTableEntry, cpu
<1>4. TypeOK'
  <2>1. /\ ptr.pt \in Frames /\ c[4] \in Index /\ call.flags \in 0 .. 255
        /\ call.target \in Nat /\ "flush" \in {"load", "pd", "pt", "flush"}
    <3>1. ptr.pt \in Frames
      BY <1>1 DEF TypeOK, Frames
    <3>2. call.target \in Nat /\ call.flags \in 0 .. 255
      BY <1>1, CallFacts
    <3> QED
      BY <1>2, <3>1, <3>2, PageType
  <2> QED
    BY <1>1, <2>1, SetPageTableEntryType DEF SetLeaf
<1>5. HeapOutOfReach'
  BY <1>1, <1>3, QuietKeeps
<1>6. CASE ptr.pt \notin reach
  <2>1. CallInv' /\ StoreInv' /\ FlushInv'
    BY <1>3, <1>6 DEF CallInv, StoreInv, FlushInv
  <2> QED
    BY <1>1, <1>3, <1>4, <1>5, <2>1, InCall DEF CallType
<1>7. CASE ptr.pt \in reach
  <2>1. Untouched /\ PointersGood /\ E3(c).present = 1
    BY <1>7 DEF IInv, CallInv, SetLeaf
  <2>2. OnPath(c, 3) /\ ptr.pt = E3(c).frame
    BY <1>1, <2>1, PointersLead
  <2>3. OnPath(c, 4)
    BY <1>1, <1>7, <2>1, <2>2, OnPathCases DEF HasTable
  <2>4. Untouched' /\ OnPath(c, 4)' /\ E3(c)' = E3(c)
    BY <1>3, <2>1, <2>3, QuietKeeps, NoStoreKeeps, SamePath
  <2>5. Clean' /\ Fresh(Others)' /\ Kept(Others)'
    BY <2>4 DEF Untouched, Fresh, Kept, Others
  <2>6. LeafStore'
    BY <1>3, <2>2, <2>4, <2>5 DEF LeafStore
  <2>7. CallInv' /\ StoreInv' /\ FlushInv'
    BY <1>3, <2>6 DEF CallInv, StoreInv, FlushInv
  <2> QED
    BY <1>1, <1>3, <1>4, <1>5, <2>7, InCall DEF CallType
<1> QED
  BY <1>6, <1>7

-----------------------------------------------------------------------------
(* The three stores of setPageTableEntry, to each of the places it is      *)
(* called for.                                                             *)

(* What every store leaves alone.                                          *)
LEMMA StoreFacts ==
  ASSUME IInv, pc \in {"low", "frame", "nx"}, cr3' = cr3, reach' = reach, call' = call,
         pageTable' = pageTable
  PROVE  /\ TypeOK /\ CallType /\ CallType' /\ call.page \in Pages /\ HeapOutOfReach'
         /\ reach' \subseteq Ram \ {0} /\ pageTable' = cr3' /\ store.index \in Index
         /\ store.flags \in 0 .. 255
BY DEF IInv, CallType, HeapOutOfReach, TypeOK

(* A store to the last table: the others keep their translations.          *)
LEMMA LeafStoreSteps ==
  ASSUME TypeOK, call.page \in Pages, LeafStore, cr3' = cr3, reach' = reach, call' = call,
         tlb' = tlb, before' = before,
         NEW new, StoresEntry(store.frame, store.index, new)
  PROVE  /\ Clean' /\ Fresh(Others)' /\ Kept(Others)' /\ OnPath(call.page, 4)'
         /\ E3(call.page)' = E3(call.page) /\ E4(call.page)' = new
<1> DEFINE c == call.page
<1>1. /\ Clean /\ OnPath(c, 4) /\ StoresEntry(E3(c).frame, c[4], new)
      /\ Fresh(Others) /\ Kept(Others)
  BY DEF LeafStore
<1>2. /\ Clean' /\ OnPath(c, 4)' /\ E3(c)' = E3(c) /\ E4(c)' = new
      /\ \A p \in Pages \ {c} : Walk(p)' = Walk(p)
  BY <1>1, LeafStoreKeeps
<1>3. Fresh(Others)' /\ Kept(Others)'
  BY <1>1, <1>2 DEF Fresh, Kept, Others
<1> QED
  BY <1>2, <1>3

LEMMA StoreLowKeeps == ASSUME IInv, StoreLow PROVE IInv'
<1> DEFINE c == call.page
           new == WithLowBits(mem[store.frame][store.index], store.flags)
<1>1. CASE store.frame \notin reach
  BY <1>1, FaultKeeps DEF StoreLow
<1>2. CASE store.frame \in reach
  <2>1. /\ pc = "low" /\ pc' = "frame" /\ cr3' = cr3 /\ reach' = reach /\ call' = call
        /\ tlb' = tlb /\ before' = before /\ pageTable' = pageTable /\ ptr' = ptr
        /\ store' = store
    BY <1>2 DEF StoreLow, cpu
  <2>2. /\ TypeOK /\ CallType' /\ c \in Pages /\ HeapOutOfReach' /\ store.flags \in 0 .. 255
        /\ reach' \subseteq Ram \ {0} /\ pageTable' = cr3' /\ store.index \in Index
    BY <2>1, StoreFacts
  <2>3. StoresEntry(store.frame, store.index, new)
    BY <1>2, <2>2, StoreLowStores
  <2>4. TypeOK'
    BY <2>1, <2>2, <2>3 DEF TypeOK, StoresEntry
  <2>5. RootStore \/ DirectoryStore \/ LeafStore
    BY <1>2, <2>1 DEF IInv, StoreInv
  <2>6. ASSUME RootStore PROVE RootStore'
    BY <2>1, <2>6 DEF RootStore
  <2>7. ASSUME DirectoryStore PROVE DirectoryStore'
    <3>1. E1(c)' = E1(c) /\ E2(c)' = E2(c) /\ OnPath(c, 3)'
      BY <2>1, <2>2, <2>3, <2>7, DirectoryStoreKeeps DEF DirectoryStore
    <3> QED
      BY <2>1, <2>7, <3>1 DEF DirectoryStore
  <2>8. ASSUME LeafStore PROVE LeafStore'
    <3>1. /\ Clean' /\ Fresh(Others)' /\ Kept(Others)' /\ OnPath(c, 4)'
          /\ E3(c)' = E3(c) /\ E4(c)' = new
      BY <2>1, <2>2, <2>3, <2>8, LeafStoreSteps
    <3>2. mem[store.frame][store.index] \in Entry
      BY <1>2, <2>2 DEF IInv, TypeOK
    <3>3. /\ new.present = Bit(store.flags, 1) /\ new.writable = Bit(store.flags, 2)
          /\ new.userAccessible = Bit(store.flags, 3)
      BY <2>2, <3>2, WithLowBitsType
    <3>4. Granted(E4(c))'
      BY <2>1, <2>8, <3>1, <3>3 DEF Granted, LeafStore
    <3> QED
      BY <2>1, <2>8, <3>1, <3>4 DEF LeafStore
  <2>9. RootStore' \/ DirectoryStore' \/ LeafStore'
    BY <2>5, <2>6, <2>7, <2>8
  <2>10. CallInv' /\ StoreInv' /\ FlushInv'
    BY <1>2, <2>1, <2>9 DEF CallInv, StoreInv, FlushInv
  <2> QED
    BY <2>1, <2>2, <2>4, <2>10, InCall
<1> QED
  BY <1>1, <1>2

LEMMA StoreFrameKeeps == ASSUME IInv, StoreFrame PROVE IInv'
<1> DEFINE c == call.page
           new == [mem[store.frame][store.index] EXCEPT !.frame = store.target]
<1>1. /\ pc = "frame" /\ pc' = "nx" /\ cr3' = cr3 /\ reach' = reach /\ call' = call
      /\ tlb' = tlb /\ before' = before /\ pageTable' = pageTable /\ ptr' = ptr
      /\ store' = store
  BY DEF StoreFrame, cpu
<1>2. /\ TypeOK /\ CallType' /\ c \in Pages /\ HeapOutOfReach'
      /\ reach' \subseteq Ram \ {0} /\ pageTable' = cr3' /\ store.index \in Index
  BY <1>1, StoreFacts
<1>3. store.frame \in reach /\ (RootStore \/ DirectoryStore \/ LeafStore)
  BY <1>1 DEF IInv, StoreInv
<1>4. StoresEntry(store.frame, store.index, new)
  BY <1>2, <1>3, StoreFrameStores
<1>5. TypeOK'
  BY <1>1, <1>2, <1>4 DEF TypeOK, StoresEntry
<1>6. mem[store.frame][store.index] \in Entry
  BY <1>2, <1>3 DEF IInv, TypeOK
<1>7. new.frame = store.target /\ (Granted(mem[store.frame][store.index]) => Granted(new))
  BY <1>6 DEF Entry, Granted
<1> HIDE DEF new
<1>8. ASSUME RootStore PROVE RootStore'
  <2>1. E1(c)' = new
    BY <1>1, <1>4, <1>8 DEF E1, StoresEntry, RootStore
  <2> QED
    BY <1>1, <1>7, <1>8, <2>1 DEF RootStore
<1>9. ASSUME DirectoryStore PROVE DirectoryStore'
  <2>1. E1(c)' = E1(c) /\ E2(c)' = E2(c) /\ OnPath(c, 3)'
    BY <1>1, <1>2, <1>4, <1>9, DirectoryStoreKeeps DEF DirectoryStore
  <2> QED
    BY <1>1, <1>9, <2>1 DEF DirectoryStore
<1>10. ASSUME LeafStore PROVE LeafStore'
  <2>1. /\ Clean' /\ Fresh(Others)' /\ Kept(Others)' /\ OnPath(c, 4)'
        /\ E3(c)' = E3(c) /\ E4(c)' = new
    BY <1>1, <1>2, <1>4, <1>10, LeafStoreSteps
  <2>2. Granted(mem[store.frame][store.index])
    BY <1>1, <1>10 DEF LeafStore, E4
  <2>3. Granted(E4(c))'
    BY <1>1, <1>7, <2>1, <2>2 DEF Granted
  <2> QED
    BY <1>1, <1>7, <1>10, <2>1, <2>3 DEF LeafStore
<1>11. RootStore' \/ DirectoryStore' \/ LeafStore'
  BY <1>3, <1>8, <1>9, <1>10
<1>12. CallInv' /\ StoreInv' /\ FlushInv'
  BY <1>1, <1>3, <1>11 DEF CallInv, StoreInv, FlushInv
<1> QED
  BY <1>1, <1>2, <1>5, <1>12, InCall

LEMMA StoreNoExecuteKeeps == ASSUME IInv, StoreNoExecute PROVE IInv'
<1> DEFINE c == call.page
           new == [mem[store.frame][store.index] EXCEPT !.noExecute = Bit(store.flags, 7)]
<1>1. /\ pc = "nx" /\ pc' = store.ret /\ cr3' = cr3 /\ reach' = reach /\ call' = call
      /\ tlb' = tlb /\ before' = before /\ pageTable' = pageTable /\ ptr' = ptr
      /\ store' = NoStore
  BY DEF StoreNoExecute, cpu
<1>2. /\ TypeOK /\ CallType' /\ c \in Pages /\ HeapOutOfReach'
      /\ reach' \subseteq Ram \ {0} /\ pageTable' = cr3' /\ store.index \in Index
  BY <1>1, StoreFacts
<1>3. store.frame \in reach /\ (RootStore \/ DirectoryStore \/ LeafStore)
  BY <1>1 DEF IInv, StoreInv
<1>4. StoresEntry(store.frame, store.index, new)
  BY <1>2, <1>3, StoreNoExecuteStores
<1>5. mem[store.frame][store.index] \in Entry
  BY <1>2, <1>3 DEF IInv, TypeOK
<1>6. /\ new.frame = mem[store.frame][store.index].frame
      /\ new.noExecute = Bit(store.flags, 7)
      /\ Granted(mem[store.frame][store.index]) => Granted(new)
  BY <1>5 DEF Entry, Granted
<1> HIDE DEF new
<1>7. TypeOK'
  <2>1. store' \in [frame : Frames, index : Index, flags : 0 .. 255,
                    target : Frames, ret : {"idle", "load", "pd", "pt", "flush"}]
    <3>1. 0 \in Frames /\ 0 \in Index /\ 0 \in 0 .. 255
      BY PagingConstants DEF Frames, Index
    <3> QED
      BY <1>1, <3>1 DEF NoStore, NULL
  <2>2. pc' \in {"load", "pt", "flush"}
    BY <1>1, <1>3 DEF RootStore, DirectoryStore, LeafStore
  <2> QED
    BY <1>1, <1>2, <1>4, <2>1, <2>2 DEF TypeOK, StoresEntry, Frames
<1>8. CASE RootStore
  <2>1. E1(c)' = new /\ mem[store.frame][store.index] = E1(c)
    BY <1>1, <1>4, <1>8 DEF E1, StoresEntry, RootStore
  <2>2. pc' = "load" /\ E1(c)'.frame \notin reach'
    BY <1>1, <1>6, <1>8, <2>1 DEF RootStore
  <2>3. CallInv' /\ StoreInv' /\ FlushInv'
    BY <1>1, <2>2 DEF CallInv, StoreInv, FlushInv
  <2> QED
    BY <1>2, <1>7, <2>2, <2>3, InCall
<1>9. CASE DirectoryStore
  <2>1. pc' = "pt" /\ ptr'.pt \notin reach'
    BY <1>1, <1>9 DEF DirectoryStore
  <2>2. CallInv' /\ StoreInv' /\ FlushInv'
    BY <2>1 DEF CallInv, StoreInv, FlushInv
  <2> QED
    BY <1>2, <1>7, <2>1, <2>2, InCall
<1>10. CASE LeafStore
  <2>1. /\ Clean' /\ Fresh(Others)' /\ Kept(Others)' /\ OnPath(c, 4)'
        /\ E3(c)' = E3(c) /\ E4(c)' = new
    BY <1>1, <1>2, <1>4, <1>10, LeafStoreSteps
  <2>2. mem[store.frame][store.index] = E4(c)
    BY <1>10 DEF LeafStore, E4
  <2>3. pc' = "flush" /\ store.flags = call.flags /\ E4(c).frame = Field(call.target)
        /\ Granted(E4(c))
    BY <1>1, <1>10 DEF LeafStore
  <2>4. /\ Granted(E4(c))' /\ E4(c)'.frame = Field(call'.target)
        /\ E4(c)'.noExecute = Bit(call'.flags, 7)
    BY <1>1, <1>6, <2>1, <2>2, <2>3 DEF Granted
  <2>5. CallInv' /\ StoreInv' /\ FlushInv'
    BY <1>1, <2>1, <2>3, <2>4 DEF CallInv, StoreInv, FlushInv
  <2> QED
    BY <1>2, <1>7, <2>3, <2>5, InCall
<1> QED
  BY <1>3, <1>8, <1>9, <1>10

-----------------------------------------------------------------------------
(* The flush, and the CPU.                                                 *)

LEMMA FlushTLBKeeps == ASSUME IInv, flushTLB PROVE IInv'
<1> DEFINE c == call.page
<1>1. /\ mem' = mem /\ cr3' = cr3 /\ reach' = reach /\ pageTable' = pageTable
      /\ pc' = "idle" /\ tlb' = [tlb EXCEPT ![c] = None] /\ pc = "flush" /\ store' = store
      /\ call' = NoCall /\ ptr' = NoPtr
  BY DEF flushTLB
<1>2. TypeOK /\ c \in Pages /\ Clean /\ Fresh(Others)
  BY <1>1 DEF IInv, FlushInv
<1>3. TypeOK'
  <2>1. tlb' \in [Pages -> Cached]
    BY <1>1, <1>2 DEF TypeOK, Cached
  <2>2. ptr' \in [pdp : Frames, pd : Frames, pt : Frames]
    BY <1>1, PagingConstants DEF NoPtr, NULL, Frames
  <2> QED
    BY <1>1, <1>2, <2>1, <2>2 DEF TypeOK, Frames
<1>4. Fresh(Pages)'
  <2> SUFFICES ASSUME NEW p \in Pages PROVE tlb'[p] \in {None, Walk(p)'}
    BY DEF Fresh
  <2>1. Walk(p)' = Walk(p)
    BY <1>1, NoStoreKeeps
  <2>2. CASE p = c
    BY <1>1, <1>2, <2>2 DEF TypeOK
  <2>3. CASE p # c
    BY <1>1, <1>2, <2>1, <2>3 DEF TypeOK, Fresh, Others
  <2> QED
    BY <2>2, <2>3
<1>5. HeapOutOfReach' /\ Clean'
  BY <1>1, <1>2, QuietKeeps DEF IInv
<1> QED
  BY <1>1, <1>3, <1>4, <1>5 DEF IInv, CallInv, StoreInv, FlushInv

(* A step that changes at most the TLB, and leaves what it holds true.     *)
LEMMA TlbStepKeeps ==
  ASSUME IInv, UNCHANGED <<mem, reach, pageTable, pc, call, ptr, store, cr3, before>>,
         tlb' \in [Pages -> Cached],
         Fresh(Pages) => Fresh(Pages)', Fresh(Others) => Fresh(Others)'
  PROVE  IInv'
<1>1. TypeOK'
  BY DEF IInv, TypeOK
<1>2. /\ HeapOutOfReach' /\ (Clean => Clean') /\ (Kept(Pages) => Kept(Pages)')
  BY QuietKeeps DEF IInv
<1>3. Kept(Others) => Kept(Others)'
  BY NoStoreKeeps DEF Kept, Others
<1>4. /\ E1(call.page)' = E1(call.page) /\ E2(call.page)' = E2(call.page)
      /\ E3(call.page)' = E3(call.page) /\ E4(call.page)' = E4(call.page)
  BY NoStoreKeeps
<1>5. /\ OnPath(call.page, 3)' <=> OnPath(call.page, 3)
      /\ OnPath(call.page, 4)' <=> OnPath(call.page, 4)
  BY NoStoreKeeps, SamePath
<1>6. Untouched => Untouched'
  BY <1>2 DEF Untouched
<1>7. PointersGood => PointersGood'
  BY <1>4 DEF PointersGood
<1>8. CallInv'
  BY <1>4, <1>6, <1>7 DEF IInv, CallInv
<1>9. (RootStore => RootStore') /\ (DirectoryStore => DirectoryStore')
  BY <1>4, <1>5 DEF RootStore, DirectoryStore
<1>10. Granted(E4(call.page)) => Granted(E4(call.page))'
  BY <1>4 DEF Granted
<1>11. LeafStore => LeafStore'
  BY <1>2, <1>3, <1>4, <1>5, <1>10 DEF LeafStore
<1>12. StoreInv'
  BY <1>9, <1>11 DEF IInv, StoreInv
<1>13. FlushInv'
  BY <1>2, <1>3, <1>4, <1>5, <1>10 DEF IInv, FlushInv
<1> QED
  BY <1>1, <1>2, <1>6, <1>8, <1>12, <1>13 DEF IInv

LEMMA CpuKeeps == ASSUME IInv, Cpu PROVE IInv'
<1>1. PICK p \in Pages : TlbFill(p) \/ TlbEvict(p)
  BY DEF Cpu
<1>2. UNCHANGED <<mem, reach, pageTable, pc, call, ptr, store, cr3, before>>
  BY <1>1 DEF TlbFill, TlbEvict
<1>3. PICK t \in {None, Walk(p)} : tlb' = [tlb EXCEPT ![p] = t]
  BY <1>1 DEF TlbFill, TlbEvict
<1>4. tlb \in [Pages -> Cached] /\ t \in Cached
  BY WalkType DEF IInv, TypeOK, Cached
<1>5. ASSUME NEW q \in Pages, tlb[q] \in {None, Walk(q)} PROVE tlb'[q] \in {None, Walk(q)'}
  <2>1. Walk(q)' = Walk(q)
    BY <1>2, NoStoreKeeps
  <2> QED
    BY <1>3, <1>4, <1>5, <2>1
<1>6. (Fresh(Pages) => Fresh(Pages)') /\ (Fresh(Others) => Fresh(Others)')
  BY <1>2, <1>5 DEF Fresh, Others
<1> QED
  BY <1>2, <1>3, <1>4, <1>6, TlbStepKeeps

LEMMA NextKeeps == IInv /\ [Next]_vars => IInv'
<1> SUFFICES ASSUME IInv, [Next]_vars PROVE IInv'
  OBVIOUS
<1>1. CASE initPageTable
  BY <1>1, InitPageTableKeeps
<1>2. CASE \E p \in Pages, t \in Targets, f \in Flags : mapPage(p, t, f)
  BY <1>2, MapPageKeeps
<1>3. CASE CheckRoot
  BY <1>3, CheckRootKeeps
<1>4. CASE LoadPointers
  BY <1>4, LoadPointersKeeps
<1>5. CASE CheckPdp
  BY <1>5, CheckPdpKeeps
<1>6. CASE CheckPd
  BY <1>6, CheckPdKeeps
<1>7. CASE SetLeaf
  BY <1>7, SetLeafKeeps
<1>8. CASE StoreLow
  BY <1>8, StoreLowKeeps
<1>9. CASE StoreFrame
  BY <1>9, StoreFrameKeeps
<1>10. CASE StoreNoExecute
  BY <1>10, StoreNoExecuteKeeps
<1>11. CASE flushTLB
  BY <1>11, FlushTLBKeeps
<1>12. CASE Cpu
  BY <1>12, CpuKeeps
<1>13. CASE UNCHANGED vars
  <2>1. /\ UNCHANGED <<mem, reach, pageTable, pc, call, ptr, store, cr3, before>>
        /\ tlb' \in [Pages -> Cached]
    BY <1>13 DEF vars, IInv, TypeOK
  <2>2. (Fresh(Pages) => Fresh(Pages)') /\ (Fresh(Others) => Fresh(Others)')
    BY <1>13, NoStoreKeeps DEF vars, Fresh, Others
  <2> QED
    BY <2>1, <2>2, TlbStepKeeps
<1> QED
  BY <1>1, <1>2, <1>3, <1>4, <1>5, <1>6, <1>7, <1>8, <1>9, <1>10, <1>11, <1>12, <1>13
     DEF Next, Kernel

-----------------------------------------------------------------------------
(* What follows from the invariant.                                        *)

LEMMA LeafMapped == IInv => MappedAsAsked
<1> SUFFICES ASSUME IInv, pc = "flush", ~Large(call.page) PROVE MappedAsAsked
  BY DEF MappedAsAsked
<1> DEFINE c == call.page
           e == E4(c)
<1>1. CallType /\ c \in Pages /\ OnPath(c, 4) /\ Granted(e) /\ e.frame = Field(call.target)
      /\ e.noExecute = Bit(call.flags, 7)
  BY DEF IInv, FlushInv, CallType
<1>2. Field(call.target) = call.target
  BY <1>1, CallFacts
<1>3. Tables(c)
  BY <1>1, OnPathCases DEF Tables
<1>6. ~Large(c)
  OBVIOUS
<1>4. CASE Bit(call.flags, 1) = 0
  <2>1. ~(Tables(c) /\ E4(c).present = 1)
    BY <1>1, <1>4 DEF Granted
  <2>2. Walk(c) = None
    BY <1>6, <2>1, WalkCases
  <2> QED
    BY <1>4, <2>2 DEF MappedAsAsked
<1>5. CASE Bit(call.flags, 1) # 0
  <2>1. e.present = 1
    <3>1. Bit(call.flags, 1) \in 0 .. 1
      <4>1. call.flags \in 0 .. 255 /\ 1 \in 0 .. 7
        BY <1>1, CallFacts
      <4> QED
        BY <4>1, BitType
    <3> QED
      BY <1>1, <1>5, <3>1 DEF Granted
  <2>2. Walk(c) = Translation(e.frame, {E1(c), E2(c), E3(c), e})
    BY <1>3, <2>1, WalkCases
  <2>3. /\ Walk(c).frame = call.target /\ (Walk(c).writable => e.writable = 1)
        /\ (Walk(c).userAccessible => e.userAccessible = 1)
        /\ (e.noExecute = 1 => Walk(c).noExecute)
    BY <1>1, <1>2, <2>2 DEF Translation
  <2>4. Walk(c) # None
    BY <2>2 DEF Translation, None
  <2> QED
    BY <1>1, <1>5, <2>3, <2>4 DEF MappedAsAsked, Granted
<1> QED
  BY <1>4, <1>5

LEMMA OnlyTables == IInv => StoresHitTables
<1> SUFFICES ASSUME IInv, pc \in {"frame", "nx"}, ~Large(call.page) PROVE StoresHitTables
  BY DEF StoresHitTables
<1>1. RootStore \/ DirectoryStore \/ LeafStore
  BY DEF IInv, StoreInv
<1>2. CASE RootStore
  BY <1>2 DEF RootStore, StoresHitTables
<1>3. CASE DirectoryStore
  BY <1>3, OnPathCases DEF DirectoryStore, StoresHitTables
<1>4. CASE LeafStore
  BY <1>4, OnPathCases DEF LeafStore, StoresHitTables, Tables
<1> QED
  BY <1>1, <1>2, <1>3, <1>4

(* A frame number shifted left by twelve bits fits in the word.            *)
LEMMA ShiftFits ==
  ASSUME NEW n \in Frames PROVE (n * PageSize) % ShiftSize = n * PageSize
<1>1. /\ FieldSize \in Nat \ {0} /\ PageSize \in Nat \ {0} /\ ShiftSize \in Nat \ {0}
      /\ FieldSize * PageSize <= ShiftSize
  BY PagingConstants
<1>2. n \in Nat /\ n + 1 <= FieldSize
  BY <1>1 DEF Frames
<1>3. n * PageSize \in Nat /\ (n + 1) * PageSize = n * PageSize + PageSize
  BY <1>1, <1>2
<1>4. (n + 1) * PageSize <= FieldSize * PageSize
  BY <1>1, <1>2
<1>5. n * PageSize \in 0 .. ShiftSize - 1
  BY <1>1, <1>3, <1>4
<1>6. ASSUME NEW m \in 0 .. ShiftSize - 1 PROVE m % ShiftSize = m
  BY <1>1
<1> QED
  BY <1>5, <1>6

LEMMA WalksAgree == IInv => PhysicalAgrees
<1> SUFFICES ASSUME IInv, pc = "idle", NEW p \in Pages, NEW offset \in 0 .. PageSize - 1,
                    CanWalk(p), Walk(p) # None
             PROVE  getPhysicalAddress(p, offset) = Walk(p).frame * PageSize + offset
  BY DEF PhysicalAgrees
<1>1. pageTable = cr3 /\ TypeOK
  BY DEF IInv
<1>2. Tables(p) /\ ~Large(p)
  BY DEF CanWalk, Tables
<1>3. Walk(p) = Translation(E4(p).frame, {E1(p), E2(p), E3(p), E4(p)})
  BY <1>2, WalkCases
<1>4. Walk(p).frame = E4(p).frame
  BY <1>3 DEF Translation
<1>5. getPhysicalAddress(p, offset) = ((E4(p).frame * PageSize) % ShiftSize) + offset
  BY <1>1 DEF getPhysicalAddress, E1, E2, E3, E4
<1>6. E4(p).frame \in Frames
  BY <1>1, <1>2, PathType DEF Tables, HasTable, Entry, Frames
<1>7. (E4(p).frame * PageSize) % ShiftSize = E4(p).frame * PageSize
  BY <1>6, ShiftFits
<1> QED
  BY <1>4, <1>5, <1>7

-----------------------------------------------------------------------------
(* From tables that form a tree, and while the heap's pages are out of     *)
(* reach at the number the field keeps of them: what memory, the running   *)
(* call and the TLB are at every step.                                     *)
THEOREM Invariance == Spec /\ LoaderContract => []IInv
<1>1. Init /\ LoaderContract => IInv
  BY InitHolds
<1>2. IInv /\ [Next]_vars => IInv'
  BY NextKeeps
<1> QED
  BY <1>1, <1>2, PTL DEF Spec

(* Every field fits in its bits, the locals of mapPage are frame numbers.  *)
THEOREM TypeCorrect == Spec /\ LoaderContract => []TypeOK
<1>1. IInv => TypeOK
  BY DEF IInv
<1> QED
  BY <1>1, Invariance, PTL

(* When mapPage has made its last store the page translates to the frame   *)
(* asked for, with no right that was not asked for (paging.c:63-82).       *)
THEOREM AlwaysMappedAsAsked == Spec /\ LoaderContract => []MappedAsAsked
<1>1. IInv => MappedAsAsked
  BY LeafMapped
<1> QED
  BY <1>1, Invariance, PTL

(* ... and every other page as it did before the call.                     *)
THEOREM AlwaysOthersKept == Spec /\ LoaderContract => []OthersKept
<1>1. IInv => OthersKept
  BY DEF IInv, FlushInv, Kept, Others, OthersKept
<1> QED
  BY <1>1, Invariance, PTL

(* mapPage stores to page tables only, outside large pages (paging.c:16).  *)
THEOREM AlwaysStoresHitTables == Spec /\ LoaderContract => []StoresHitTables
<1>1. IInv => StoresHitTables
  BY OnlyTables
<1> QED
  BY <1>1, Invariance, PTL

(* Between calls the TLB holds nothing that the tables do not say, whatever*)
(* the CPU cached between two stores of a call (paging.c:85).              *)
THEOREM AlwaysTLBFresh == Spec /\ LoaderContract => []TLBFresh
<1>1. IInv => TLBFresh
  BY DEF IInv, Fresh, TLBFresh
<1> QED
  BY <1>1, Invariance, PTL

(* The software walk finds what the CPU's walk finds (paging.c:49-61).     *)
THEOREM AlwaysPhysicalAgrees == Spec /\ LoaderContract => []PhysicalAgrees
<1>1. IInv => PhysicalAgrees
  BY WalksAgree
<1> QED
  BY <1>1, Invariance, PTL
=============================================================================

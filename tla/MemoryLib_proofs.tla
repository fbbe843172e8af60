-------------------------- MODULE MemoryLib_proofs --------------------------
(***************************************************************************)
(* The memory routines do what their names say, for memory of any size,    *)
(* bytes of any width and every legal call.                                *)
(***************************************************************************)
EXTENDS MemoryLib, TLAPS

Bytes == 0 .. Byte - 1

(* What IInv says of a loop in general.                                    *)
LEMMA InLoop ==
  IInv =>
         /\ Size \in Nat /\ Byte \in Nat \ {0}
         /\ mem \in [Addr -> Bytes] /\ old \in [Addr -> Bytes]
         /\ d \in Nat /\ s \in Nat /\ n \in Nat /\ c \in Int
         /\ d + n <= Size /\ s + n <= Size /\ i \in 0 .. n /\ ret \in {-1, 0, 1}
  BY MemoryLibConstants DEF IInv, TypeOK, Bytes

(* One byte stored at a: memory stays a function to bytes, and every other *)
(* byte is as it was.                                                      *)
LEMMA Store ==
  \A m \in [Addr -> Bytes], a \in Addr, b \in Bytes :
    /\ [m EXCEPT ![a] = b] \in [Addr -> Bytes]
    /\ \A x \in Addr : [m EXCEPT ![a] = b][x] = IF x = a THEN b ELSE m[x]
  OBVIOUS

(* The byte a forward copy reads next has not been written by it.          *)
LEMMA CopyUpKeeps == IInv /\ CopyUp => IInv'
<1> SUFFICES ASSUME IInv, CopyUp PROVE IInv'
  OBVIOUS
<1>1. /\ pc = "up" /\ i < n /\ i' = i + 1
      /\ pc' = pc /\ fn' = fn /\ d' = d /\ s' = s /\ n' = n /\ c' = c /\ old' = old /\ ret' = ret
      /\ mem' = [mem EXCEPT ![d + i] = mem[s + i]]
  BY DEF CopyUp, args
<1>2. /\ \/ fn = "memcpy" /\ Disjoint(d, s, n)
         \/ fn = "memmove" /\ s > d
      /\ mem = Moving(0, i)
  BY <1>1 DEF IInv, LoopInv
<1>3. d + i \in Addr /\ s + i \in Addr /\ ~(s + i \in d + 0 .. d + i - 1)
  <2>1. d + n <= s \/ s + n <= d \/ s > d
    BY <1>2 DEF Disjoint
  <2>2. d \in Nat /\ s \in Nat /\ n \in Nat /\ i \in Nat /\ Size \in Nat
        /\ d + n <= Size /\ s + n <= Size
    BY InLoop
  <2> QED
    BY <1>1, <2>1, <2>2 DEF Addr
<1>4. mem[s + i] = old[s + i] /\ mem[s + i] \in Bytes
  BY <1>2, <1>3, InLoop DEF Moving
<1>5. mem' \in [Addr -> Bytes]
  BY <1>1, <1>3, <1>4, InLoop, Store
<1>6. ASSUME NEW a \in Addr
      PROVE  mem'[a] = IF a \in d + 0 .. d + (i + 1) - 1 THEN old[s + (a - d)] ELSE old[a]
  <2>1. mem'[a] = IF a = d + i THEN old[s + i] ELSE mem[a]
    BY <1>1, <1>3, <1>4, InLoop, Store
  <2>2. mem[a] = IF a \in d + 0 .. d + i - 1 THEN old[s + (a - d)] ELSE old[a]
    BY <1>2 DEF Moving
  <2>3. a \in Int /\ (a = d + i => s + (a - d) = s + i)
    BY InLoop DEF Addr
  <2>4. a \in d + 0 .. d + (i + 1) - 1 <=> a = d + i \/ a \in d + 0 .. d + i - 1
    BY <2>3, InLoop
  <2> QED
    BY <2>1, <2>2, <2>3, <2>4
<1>7. mem' = [a \in Addr |-> IF a \in d + 0 .. d + (i + 1) - 1 THEN old[s + (a - d)] ELSE old[a]]
  BY <1>5, <1>6
<1>8. TypeOK'
  BY <1>1, <1>5, InLoop DEF IInv, TypeOK, Bytes
<1>9. LoopInv'
  BY <1>1, <1>2, <1>7 DEF LoopInv, Moving, Disjoint
<1> QED
  BY <1>1, <1>8, <1>9 DEF IInv, Moved, Filled, Compared

(* The same, of a backward copy.                                           *)
LEMMA CopyDownKeeps == IInv /\ CopyDown => IInv'
<1> SUFFICES ASSUME IInv, CopyDown PROVE IInv'
  OBVIOUS
<1>1. /\ pc = "down" /\ i > 0 /\ i' = i - 1
      /\ pc' = pc /\ fn' = fn /\ d' = d /\ s' = s /\ n' = n /\ c' = c /\ old' = old /\ ret' = ret
      /\ mem' = [mem EXCEPT ![d + i - 1] = mem[s + i - 1]]
  BY DEF CopyDown, args
<1>2. fn = "memmove" /\ s < d /\ mem = Moving(i, n)
  BY <1>1 DEF IInv, LoopInv
<1>3. d + i - 1 \in Addr /\ s + i - 1 \in Addr /\ ~(s + i - 1 \in d + i .. d + n - 1)
  BY <1>1, <1>2, InLoop DEF Addr
<1>4. mem[s + i - 1] = old[s + i - 1] /\ mem[s + i - 1] \in Bytes
  BY <1>2, <1>3, InLoop DEF Moving
<1>5. mem' \in [Addr -> Bytes]
  BY <1>1, <1>3, <1>4, InLoop, Store
<1>6. ASSUME NEW a \in Addr
      PROVE  mem'[a] = IF a \in d + (i - 1) .. d + n - 1 THEN old[s + (a - d)] ELSE old[a]
  <2>1. mem'[a] = IF a = d + i - 1 THEN old[s + i - 1] ELSE mem[a]
    BY <1>1, <1>3, <1>4, InLoop, Store
  <2>2. mem[a] = IF a \in d + i .. d + n - 1 THEN old[s + (a - d)] ELSE old[a]
    BY <1>2 DEF Moving
  <2>3. a \in Int /\ (a = d + i - 1 => s + (a - d) = s + i - 1)
    BY InLoop DEF Addr
  <2>4. a \in d + (i - 1) .. d + n - 1 <=> a = d + i - 1 \/ a \in d + i .. d + n - 1
    BY <1>1, <2>3, InLoop
  <2> QED
    BY <2>1, <2>2, <2>3, <2>4
<1>7. mem' = [a \in Addr |-> IF a \in d + (i - 1) .. d + n - 1 THEN old[s + (a - d)] ELSE old[a]]
  BY <1>5, <1>6
<1>8. TypeOK'
  BY <1>1, <1>5, InLoop DEF IInv, TypeOK, Bytes
<1>9. LoopInv'
  BY <1>1, <1>2, <1>7 DEF LoopInv, Moving
<1> QED
  BY <1>1, <1>8, <1>9 DEF IInv, Moved, Filled, Compared

(* memset has filled what lies below its index.                            *)
LEMMA FillKeeps == IInv /\ Fill => IInv'
<1> SUFFICES ASSUME IInv, Fill PROVE IInv'
  OBVIOUS
<1>1. /\ pc = "set" /\ i < n /\ i' = i + 1
      /\ pc' = pc /\ fn' = fn /\ d' = d /\ s' = s /\ n' = n /\ c' = c /\ old' = old /\ ret' = ret
      /\ mem' = [mem EXCEPT ![d + i] = uint8(c)]
  BY DEF Fill, args
<1>2. fn = "memset" /\ mem = Filling(i)
  BY <1>1 DEF IInv, LoopInv
<1>3. d + i \in Addr /\ uint8(c) \in Bytes
  BY <1>1, InLoop DEF Addr, uint8, Bytes
<1>4. mem' \in [Addr -> Bytes]
  BY <1>1, <1>3, InLoop, Store
<1>5. ASSUME NEW a \in Addr
      PROVE  mem'[a] = IF a \in d .. d + (i + 1) - 1 THEN uint8(c) ELSE old[a]
  <2>1. mem'[a] = IF a = d + i THEN uint8(c) ELSE mem[a]
    BY <1>1, <1>3, InLoop, Store
  <2>2. mem[a] = IF a \in d .. d + i - 1 THEN uint8(c) ELSE old[a]
    BY <1>2 DEF Filling
  <2>3. a \in Int /\ d \in Nat /\ i \in Nat
    BY InLoop DEF Addr
  <2>4. a \in d .. d + (i + 1) - 1 <=> a = d + i \/ a \in d .. d + i - 1
    BY <2>3
  <2>5. CASE a = d + i
    BY <2>1, <2>4, <2>5
  <2>6. CASE a # d + i
    BY <2>1, <2>2, <2>4, <2>6
  <2> QED
    BY <2>5, <2>6
<1>6. mem' = [a \in Addr |-> IF a \in d .. d + (i + 1) - 1 THEN uint8(c) ELSE old[a]]
  BY <1>4, <1>5
<1>7. TypeOK'
  BY <1>1, <1>4, InLoop DEF IInv, TypeOK, Bytes
<1>8. LoopInv'
  BY <1>1, <1>2, <1>6 DEF LoopInv, Filling, uint8
<1> QED
  BY <1>1, <1>7, <1>8 DEF IInv, Moved, Filled, Compared

(* memcmp has passed over equal bytes only.                                *)
LEMMA SameKeeps == IInv /\ Same => IInv'
<1> SUFFICES ASSUME IInv, Same PROVE IInv'
  OBVIOUS
<1>1. /\ pc = "cmp" /\ i < n /\ i' = i + 1 /\ mem[d + i] = mem[s + i]
      /\ pc' = pc /\ fn' = fn /\ d' = d /\ s' = s /\ n' = n /\ c' = c /\ old' = old /\ ret' = ret
      /\ mem' = mem
  BY DEF Same, args
<1>2. TypeOK'
  BY <1>1, InLoop DEF IInv, TypeOK
<1>3. LoopInv'
  BY <1>1, InLoop DEF IInv, LoopInv
<1> QED
  BY <1>1, <1>2, <1>3 DEF IInv, Moved, Filled, Compared

(* memcmp returns at the first byte that differs, compared as unsigned.    *)
LEMMA DifferKeeps == IInv /\ Differ => IInv'
<1> SUFFICES ASSUME IInv, Differ PROVE IInv'
  OBVIOUS
<1>1. /\ pc = "cmp" /\ i < n /\ mem[d + i] # mem[s + i] /\ pc' = "done"
      /\ fn' = fn /\ d' = d /\ s' = s /\ n' = n /\ c' = c /\ old' = old /\ i' = i /\ mem' = mem
      /\ ret' = IF mem[d + i] < mem[s + i] THEN -1 ELSE 1
  BY DEF Differ, args
<1>2. fn = "memcmp" /\ mem = old /\ \A k \in 0 .. i - 1 : old[d + k] = old[s + k]
  BY <1>1 DEF IInv, LoopInv
<1>3. TypeOK'
  BY <1>1, InLoop DEF IInv, TypeOK
<1>4. mem[d + i] \in Int /\ mem[s + i] \in Int /\ i \in 0 .. n - 1
  <2>1. d + i \in Addr /\ s + i \in Addr /\ i \in 0 .. n - 1
    BY <1>1, InLoop DEF Addr
  <2> QED
    BY <2>1, InLoop DEF Bytes
<1>5. Compared'
  <2>1. \/ ret' = -1 /\ old[d + i] < old[s + i]
        \/ ret' = 1 /\ old[d + i] > old[s + i]
    BY <1>1, <1>2, <1>4
  <2> QED
    BY <1>1, <1>2, <1>4, <2>1 DEF Compared
<1> QED
  BY <1>1, <1>2, <1>3, <1>5 DEF IInv, LoopInv, Moved, Filled

(* A loop that has ended has done all of the range.                        *)
LEMMA LoopEndsKeeps == IInv /\ LoopEnds => IInv'
<1> SUFFICES ASSUME IInv, LoopEnds PROVE IInv'
  OBVIOUS
<1>1. /\ pc' = "done" /\ ret' = 0
      /\ fn' = fn /\ d' = d /\ s' = s /\ n' = n /\ c' = c /\ old' = old /\ i' = i /\ mem' = mem
  BY DEF LoopEnds, args
<1>2. TypeOK'
  BY <1>1, InLoop DEF IInv, TypeOK
<1>3. Moved'
  BY <1>1 DEF LoopEnds, IInv, LoopInv, Moved, Moving
<1>4. Filled'
  BY <1>1 DEF LoopEnds, IInv, LoopInv, Filled, Filling, uint8
<1>5. Compared'
  BY <1>1 DEF LoopEnds, IInv, LoopInv, Compared
<1> QED
  BY <1>1, <1>2, <1>3, <1>4, <1>5 DEF IInv, LoopInv

(* A result that is taken leaves memory as it is.                          *)
LEMMA ReturnKeeps == IInv /\ Return => IInv'
<1> SUFFICES ASSUME IInv, Return PROVE IInv'
  OBVIOUS
<1>1. TypeOK'
  BY InLoop DEF Return, IInv, TypeOK
<1> QED
  BY <1>1 DEF Return, IInv, LoopInv, Moved, Filled, Compared

(* A call starts with nothing done, or with all of it done if memmove has  *)
(* nothing to move.                                                        *)
LEMMA Started ==
  ASSUME IInv,
         NEW f \in {"memcpy", "memmove", "memset", "memcmp"},
         NEW loop \in {"up", "down", "set", "cmp", "done"},
         NEW dest \in 0 .. Size, NEW src \in 0 .. Size, NEW fill \in Int,
         NEW k \in 0 .. Size, NEW j \in 0 .. k,
         Start(f, loop, dest, src, fill, k, j)
  PROVE  /\ TypeOK' /\ pc' = loop /\ fn' = f /\ i' = j
         /\ d' = dest /\ s' = src /\ n' = k /\ c' = fill
         /\ mem' = mem /\ old' = mem /\ mem \in [Addr -> Bytes]
<1>1. /\ pc' = loop /\ fn' = f /\ i' = j /\ dest + k <= Size /\ src + k <= Size
      /\ d' = dest /\ s' = src /\ n' = k /\ c' = fill
      /\ mem' = mem /\ old' = mem /\ ret' = ret
  BY DEF Start
<1> QED
  BY <1>1, InLoop DEF TypeOK, Bytes

(* Nothing moved is memory as it was.                                      *)
LEMMA NothingDone ==
  \A m \in [Addr -> Bytes], dest \in Nat, src \in Nat, k \in Nat :
    m = [a \in Addr |-> IF a \in dest + k .. dest + k - 1 THEN m[src + (a - dest)] ELSE m[a]]
  OBVIOUS

(* A call starts in its loop invariant.                                    *)
LEMMA CallKeeps == IInv /\ Call => IInv'
<1> SUFFICES ASSUME IInv, NEW dest \in 0 .. Size, NEW src \in 0 .. Size, NEW k \in 0 .. Size,
                    \/ memcpy(dest, src, k) \/ memmove(dest, src, k) \/ memcmp(dest, src, k)
                    \/ \E fill \in Fills : memset(dest, fill, k)
             PROVE  IInv'
  BY DEF Call
<1>0. 0 \in 0 .. k /\ k \in 0 .. k /\ k \in Nat /\ dest \in Nat /\ src \in Nat
  BY MemoryLibConstants
<1>1. CASE memcpy(dest, src, k)
  <2>1. Start("memcpy", "up", dest, src, 0, k, 0) /\ Disjoint(dest, src, k)
    BY <1>1 DEF memcpy
  <2>2. /\ TypeOK' /\ pc' = "up" /\ fn' = "memcpy" /\ i' = 0 /\ d' = dest /\ s' = src /\ n' = k
        /\ mem' = mem /\ old' = mem /\ mem \in [Addr -> Bytes]
    BY <1>0, <2>1, Started
  <2>3. mem' = Moving(0, i)'
    BY <1>0, <2>2, NothingDone DEF Moving
  <2> QED
    BY <2>1, <2>2, <2>3 DEF IInv, LoopInv, Moved, Filled, Compared, Disjoint
<1>2. CASE memmove(dest, src, k) /\ src > dest
  <2>1. Start("memmove", "up", dest, src, 0, k, 0)
    BY <1>0, <1>2 DEF memmove
  <2>2. /\ TypeOK' /\ pc' = "up" /\ fn' = "memmove" /\ i' = 0 /\ d' = dest /\ s' = src /\ n' = k
        /\ mem' = mem /\ old' = mem /\ mem \in [Addr -> Bytes]
    BY <1>0, <2>1, Started
  <2>3. mem' = Moving(0, i)'
    BY <1>0, <2>2, NothingDone DEF Moving
  <2> QED
    BY <1>2, <2>2, <2>3 DEF IInv, LoopInv, Moved, Filled, Compared
<1>3. CASE memmove(dest, src, k) /\ src < dest
  <2>1. Start("memmove", "down", dest, src, 0, k, k)
    BY <1>0, <1>3 DEF memmove
  <2>2. /\ TypeOK' /\ pc' = "down" /\ fn' = "memmove" /\ i' = k /\ d' = dest /\ s' = src /\ n' = k
        /\ mem' = mem /\ old' = mem /\ mem \in [Addr -> Bytes]
    BY <1>0, <2>1, Started
  <2>3. mem = [a \in Addr |-> IF a \in dest + k .. dest + k - 1 THEN mem[src + (a - dest)] ELSE mem[a]]
    BY <1>0, <2>2, NothingDone
  <2>4. mem' = Moving(i, n)'
    BY <2>2, <2>3 DEF Moving
  <2> QED
    BY <1>3, <2>2, <2>4 DEF IInv, LoopInv, Moved, Filled, Compared
<1>4. CASE memmove(dest, src, k) /\ src = dest
  <2>1. Start("memmove", "done", dest, src, 0, k, 0)
    BY <1>0, <1>4 DEF memmove
  <2>2. /\ TypeOK' /\ pc' = "done" /\ fn' = "memmove" /\ i' = 0 /\ d' = dest /\ s' = src /\ n' = k
        /\ mem' = mem /\ old' = mem /\ mem \in [Addr -> Bytes]
    BY <1>0, <2>1, Started
  <2>3. mem = [a \in Addr |-> IF a \in dest + 0 .. dest + k - 1 THEN mem[src + (a - dest)] ELSE mem[a]]
    <3>1. \A a \in Addr : src + (a - dest) = a
      BY <1>0, <1>4, MemoryLibConstants DEF Addr
    <3> QED
      BY <2>2, <3>1
  <2>4. mem' = Moving(0, n)'
    BY <2>2, <2>3 DEF Moving
  <2> QED
    BY <2>2, <2>4 DEF IInv, LoopInv, Moved, Filled, Compared
<1>5. CASE memcmp(dest, src, k)
  <2>1. Start("memcmp", "cmp", dest, src, 0, k, 0)
    BY <1>5 DEF memcmp
  <2>2. TypeOK' /\ pc' = "cmp" /\ fn' = "memcmp" /\ i' = 0 /\ mem' = mem /\ old' = mem
    BY <1>0, <2>1, Started
  <2> QED
    BY <2>2 DEF IInv, LoopInv, Moved, Filled, Compared
<1>6. ASSUME NEW fill \in Fills, memset(dest, fill, k)
      PROVE  IInv'
  <2>1. Start("memset", "set", dest, dest, fill, k, 0) /\ fill \in Int
    BY <1>6, MemoryLibConstants DEF memset
  <2>2. /\ TypeOK' /\ pc' = "set" /\ fn' = "memset" /\ i' = 0 /\ d' = dest /\ n' = k /\ c' = fill
        /\ mem' = mem /\ old' = mem /\ mem \in [Addr -> Bytes]
    BY <1>0, <2>1, Started
  <2>3. mem' = Filling(i)'
    <3>1. \A a \in Addr : ~(a \in dest .. dest + 0 - 1)
      BY <1>0 DEF Addr
    <3> QED
      BY <2>2, <3>1 DEF Filling
  <2> QED
    BY <2>2, <2>3 DEF IInv, LoopInv, Moved, Filled, Compared
<1>7. src > dest \/ src < dest \/ src = dest
  BY <1>0
<1> QED
  BY <1>1, <1>2, <1>3, <1>4, <1>5, <1>6, <1>7

(* Every step is one of these.                                             *)
LEMMA NextKeeps == IInv /\ [Next]_vars => IInv'
<1>1. IInv /\ UNCHANGED vars => IInv'
  BY DEF IInv, TypeOK, LoopInv, Moved, Filled, Compared, Moving, Filling, Disjoint, uint8, vars, args
<1> QED
  BY <1>1, CopyUpKeeps, CopyDownKeeps, FillKeeps, SameKeeps, DifferKeeps, LoopEndsKeeps,
     ReturnKeeps, CallKeeps DEF Next, Step

(* The loops keep their invariant: every call of the four routines leaves  *)
(* memory and its result as the routine promises.                          *)
THEOREM Invariance == Spec => []IInv
<1>1. Init => IInv
  BY MemoryLibConstants DEF Init, IInv, TypeOK, LoopInv, Moved, Filled, Compared
<1> QED
  BY <1>1, NextKeeps, PTL DEF Spec

(* memcpy and memmove move the range, whatever the overlap.                *)
THEOREM AlwaysMoved == Spec => []Moved
<1>1. IInv => Moved
  BY DEF IInv
<1> QED
  BY <1>1, Invariance, PTL

(* memset fills the range and nothing else.                                *)
THEOREM AlwaysFilled == Spec => []Filled
<1>1. IInv => Filled
  BY DEF IInv
<1> QED
  BY <1>1, Invariance, PTL

(* memcmp finds the first difference.                                      *)
THEOREM AlwaysCompared == Spec => []Compared
<1>1. IInv => Compared
  BY DEF IInv
<1> QED
  BY <1>1, Invariance, PTL
==============================================================================

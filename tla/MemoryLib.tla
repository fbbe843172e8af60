------------------------------ MODULE MemoryLib ------------------------------
(***************************************************************************)
(* The memory routines of kernel/lib/memory.c, one loop iteration per      *)
(* step.  Memory is a function from addresses to bytes; a call's ranges    *)
(* lie in it, and those of memcpy are disjoint (restrict): Kmem's          *)
(* CopyInBounds shows that krealloc, its caller, keeps to that.            *)
(***************************************************************************)
EXTENDS Integers

CONSTANTS
  Size,   \* memory has the addresses 0 .. Size - 1
  Byte,   \* a uint8_t has the values 0 .. Byte - 1
  Fills   \* the ints memset may be given

ASSUME MemoryLibConstants == Size \in Nat /\ Byte \in Nat \ {0} /\ Fills \subseteq Int

VARIABLES
  mem,
  pc, fn,         \* the loop that runs, "done" or "idle", and its function
  d, s, n, c, i,  \* the arguments (dest or s1, src or s2) and the loop index
  ret,            \* what memcmp returns
  old             \* history: memory when the call began

args == <<fn, d, s, n, c, old>>
vars == <<mem, pc, args, i, ret>>

Addr == 0 .. Size - 1
uint8(x) == x % Byte

Init ==
  /\ mem \in [Addr -> 0 .. Byte - 1] /\ old = mem
  /\ pc = "idle" /\ fn = "none"
  /\ d = 0 /\ s = 0 /\ n = 0 /\ c = 0 /\ i = 0 /\ ret = 0

-----------------------------------------------------------------------------
Disjoint(dest, src, k) == dest + k <= src \/ src + k <= dest

(* A call of f starts with its loop at index j.                            *)
Start(f, loop, dest, src, fill, k, j) ==
  /\ pc = "idle" /\ dest + k <= Size /\ src + k <= Size
  /\ pc' = loop /\ fn' = f /\ i' = j
  /\ d' = dest /\ s' = src /\ n' = k /\ c' = fill
  /\ old' = mem /\ UNCHANGED <<mem, ret>>

memcpy(dest, src, k) ==
  Disjoint(dest, src, k) /\ Start("memcpy", "up", dest, src, 0, k, 0)

memset(dest, fill, k) == Start("memset", "set", dest, dest, fill, k, 0)

memmove_Forward(dest, src, k) == Start("memmove", "up", dest, src, 0, k, 0)

memmove(dest, src, k) ==
  \/ src > dest /\ Start("memmove", "up", dest, src, 0, k, 0)
  \/ src < dest /\ Start("memmove", "down", dest, src, 0, k, k)
  \/ src = dest /\ Start("memmove", "done", dest, src, 0, k, 0)

memcmp(s1, s2, k) == Start("memcmp", "cmp", s1, s2, 0, k, 0)

(* One iteration of the loops.                                             *)
CopyUp ==
  /\ pc = "up" /\ i < n
  /\ mem' = [mem EXCEPT ![d + i] = mem[s + i]] /\ i' = i + 1
  /\ UNCHANGED <<pc, args, ret>>

CopyDown_Wraps ==
  /\ pc = "down"
  /\ mem' = IF i > 0 THEN [mem EXCEPT ![d + i - 1] = mem[s + i - 1]] ELSE mem
  /\ i' = IF i > 0 THEN i - 1 ELSE n
  /\ UNCHANGED <<pc, args, ret>>

CopyDown ==
  /\ pc = "down" /\ i > 0
  /\ mem' = [mem EXCEPT ![d + i - 1] = mem[s + i - 1]] /\ i' = i - 1
  /\ UNCHANGED <<pc, args, ret>>

Fill_Inclusive ==
  /\ pc = "set" /\ i < n
  /\ mem' = [mem EXCEPT ![d + i] = uint8(c), ![(d + i + 1) % Size] = uint8(c)]
  /\ i' = i + 1
  /\ UNCHANGED <<pc, args, ret>>

Fill ==
  /\ pc = "set" /\ i < n
  /\ mem' = [mem EXCEPT ![d + i] = uint8(c)] /\ i' = i + 1
  /\ UNCHANGED <<pc, args, ret>>

Same ==
  /\ pc = "cmp" /\ i < n /\ mem[d + i] = mem[s + i]
  /\ i' = i + 1 /\ UNCHANGED <<mem, pc, args, ret>>

Differ_Signed ==
  LET char(b) == IF 2 * b >= Byte THEN b - Byte ELSE b IN
  /\ pc = "cmp" /\ i < n /\ mem[d + i] # mem[s + i]
  /\ ret' = IF char(mem[d + i]) < char(mem[s + i]) THEN -1 ELSE 1
  /\ pc' = "done" /\ UNCHANGED <<mem, args, i>>

Differ ==
  /\ pc = "cmp" /\ i < n /\ mem[d + i] # mem[s + i]
  /\ ret' = IF mem[d + i] < mem[s + i] THEN -1 ELSE 1
  /\ pc' = "done" /\ UNCHANGED <<mem, args, i>>

LoopEnds ==
  /\ \/ pc \in {"up", "set", "cmp"} /\ i = n
     \/ pc = "down" /\ i = 0
  /\ ret' = 0 /\ pc' = "done" /\ UNCHANGED <<mem, args, i>>

(* The locals are gone when a call has returned.                           *)
Return ==
  /\ pc = "done" /\ pc' = "idle" /\ fn' = "none"
  /\ d' = 0 /\ s' = 0 /\ n' = 0 /\ c' = 0 /\ i' = 0 /\ ret' = 0
  /\ old' = mem /\ UNCHANGED mem

Step == CopyUp \/ CopyDown \/ Fill \/ Same \/ Differ \/ LoopEnds \/ Return

Call ==
  \E dest, src, k \in 0 .. Size :
    \/ memcpy(dest, src, k) \/ memmove(dest, src, k) \/ memcmp(dest, src, k)
    \/ \E fill \in Fills : memset(dest, fill, k)

Next == Call \/ Step

Spec == Init /\ [][Next]_vars

(* The loops run on the one thread of the kernel; calls are not forced.    *)
FairSpec == Spec /\ WF_vars(Step)

-----------------------------------------------------------------------------
(* Memory with the bytes lo .. hi - 1 of the call's range already moved,   *)
(* or the first k of them already set.                                     *)
Moving(lo, hi) == [a \in Addr |-> IF a \in d + lo .. d + hi - 1 THEN old[s + (a - d)] ELSE old[a]]
Filling(k) == [a \in Addr |-> IF a \in d .. d + k - 1 THEN uint8(c) ELSE old[a]]

(* Memory keeps to bytes and a call to its ranges.                         *)
TypeOK ==
  /\ mem \in [Addr -> 0 .. Byte - 1] /\ old \in [Addr -> 0 .. Byte - 1]
  /\ pc \in {"idle", "up", "down", "set", "cmp", "done"}
  /\ fn \in {"none", "memcpy", "memmove", "memset", "memcmp"}
  /\ d \in Nat /\ s \in Nat /\ n \in Nat /\ c \in Int /\ d + n <= Size /\ s + n <= Size
  /\ i \in 0 .. n /\ ret \in {-1, 0, 1}

(* memcpy and memmove leave at the destination what the source held when   *)
(* they were called, however the ranges overlap, and touch nothing else.   *)
Moved == pc = "done" /\ fn \in {"memcpy", "memmove"} => mem = Moving(0, n)

(* memset leaves its argument, as a byte, in the range and nowhere else.   *)
Filled == pc = "done" /\ fn = "memset" => mem = Filling(n)

(* memcmp gives the sign of the first difference, as unsigned bytes, and 0 *)
(* if there is none.                                                       *)
Compared ==
  pc = "done" /\ fn = "memcmp" =>
    \/ ret = 0 /\ \A k \in 0 .. n - 1 : old[d + k] = old[s + k]
    \/ \E k \in 0 .. n - 1 :
         /\ \A l \in 0 .. k - 1 : old[d + l] = old[s + l]
         /\ \/ ret = -1 /\ old[d + k] < old[s + k]
            \/ ret = 1 /\ old[d + k] > old[s + k]

(* What the loops keep true: the part done so far is done, the bytes still *)
(* to be read are as they were.                                            *)
LoopInv ==
  /\ pc = "up" =>
       /\ \/ fn = "memcpy" /\ Disjoint(d, s, n)
          \/ fn = "memmove" /\ s > d
       /\ mem = Moving(0, i)
  /\ pc = "down" => fn = "memmove" /\ s < d /\ mem = Moving(i, n)
  /\ pc = "set" => fn = "memset" /\ mem = Filling(i)
  /\ pc = "cmp" => fn = "memcmp" /\ mem = old /\ \A k \in 0 .. i - 1 : old[d + k] = old[s + k]

IInv == TypeOK /\ LoopInv /\ Moved /\ Filled /\ Compared

(* Every call returns; the index of memmove's backward loop is unsigned.   *)
CallsReturn == pc # "idle" ~> pc = "idle"
==============================================================================

----------------------------- MODULE Boot_proofs -----------------------------
(***************************************************************************)
(* Proofs about Boot, and about the serial driver in it, for every text,   *)
(* memory map and state of the UART.                                       *)
(***************************************************************************)
EXTENDS Boot, SequenceTheorems, FiniteSetTheorems, TLAPS

(* What is proved of initMemory on its own.                                *)
Discovery == INSTANCE InitMemory_proofs

-----------------------------------------------------------------------------
(* The steps of initMemory are the same ones under both names.             *)
LEMMA DiscoveryStarts == Memory!Init => Discovery!Init
BY DEF Memory!Init, Discovery!Init, Memory!Heap!Init, Discovery!Heap!Init, Memory!Heap!NULL,
  Discovery!Heap!NULL, Memory!Heap!NoEntries, Discovery!Heap!NoEntries, Memory!NoRegion,
  Discovery!NoRegion, Memory!Entry0, Discovery!Entry0

LEMMA Scans == Memory!ScanEntry => Discovery!ScanEntry
BY DEF Memory!ScanEntry, Discovery!ScanEntry, Memory!Better, Discovery!Better,
  Memory!Region, Discovery!Region, Memory!Counted, Discovery!Counted, Memory!MemType,
  Discovery!MemType, Memory!heapVars, Discovery!heapVars, Memory!published,
  Discovery!published

LEMMA Opens == Memory!OpenHeap => Discovery!OpenHeap
BY DEF Memory!OpenHeap, Discovery!OpenHeap, Memory!published, Discovery!published,
  Memory!Heap!kmemInit, Discovery!Heap!kmemInit, Memory!Heap!With, Discovery!Heap!With,
  Memory!Heap!NoEntries, Discovery!Heap!NoEntries, Memory!Heap!Wrap, Discovery!Heap!Wrap,
  Memory!Heap!NULL, Discovery!Heap!NULL, Memory!Heap!callVars, Discovery!Heap!callVars

LEMMA GivesUp == Memory!GiveUp => Discovery!GiveUp
BY DEF Memory!GiveUp, Discovery!GiveUp, Memory!TableTooLarge, Discovery!TableTooLarge,
  Memory!TableBytes, Discovery!TableBytes, Memory!heapVars, Discovery!heapVars,
  Memory!Heap!Wrap, Discovery!Heap!Wrap

LEMMA RequestsTable == Memory!RequestTable => Discovery!RequestTable
BY DEF Memory!RequestTable, Discovery!RequestTable, Memory!TableTooLarge,
  Discovery!TableTooLarge, Memory!TableBytes, Discovery!TableBytes, Memory!published,
  Discovery!published, Memory!Heap!kmalloc, Discovery!Heap!kmalloc, Memory!Heap!StartSearch,
  Discovery!Heap!StartSearch, Memory!Heap!ALIGN16, Discovery!Heap!ALIGN16, Memory!Heap!Wrap,
  Discovery!Heap!Wrap, Memory!Heap!NULL, Discovery!Heap!NULL, Memory!Heap!heapVars,
  Discovery!Heap!heapVars

LEMMA Searches == Memory!Searching => Discovery!Searching
BY DEF Memory!Searching, Discovery!Searching, Memory!published, Discovery!published,
  Memory!Heap!SearchNext, Discovery!Heap!SearchNext, Memory!Heap!Fits, Discovery!Heap!Fits,
  Memory!Heap!NULL, Discovery!Heap!NULL, Memory!Heap!heapVars, Discovery!Heap!heapVars

LEMMA GetsTable == Memory!GotTable => Discovery!GotTable
BY DEF Memory!GotTable, Discovery!GotTable, Memory!published, Discovery!published,
  Memory!Heap!SearchReturns, Discovery!Heap!SearchReturns, Memory!Heap!SearchFails,
  Discovery!Heap!SearchFails, Memory!Heap!TakeCurrent, Discovery!Heap!TakeCurrent,
  Memory!Heap!Return, Discovery!Heap!Return, Memory!Heap!Fits, Discovery!Heap!Fits,
  Memory!Heap!Take, Discovery!Heap!Take, Memory!Heap!Splits, Discovery!Heap!Splits,
  Memory!Heap!Split, Discovery!Heap!Split, Memory!Heap!Mark, Discovery!Heap!Mark,
  Memory!Heap!With, Discovery!Heap!With, Memory!Heap!Payload, Discovery!Heap!Payload,
  Memory!Heap!Wrap, Discovery!Heap!Wrap, Memory!Heap!NULL, Discovery!Heap!NULL,
  Memory!Heap!heapVars, Discovery!Heap!heapVars

LEMMA Skips == Memory!SkipFramebuffer => Discovery!SkipFramebuffer
BY DEF Memory!SkipFramebuffer, Discovery!SkipFramebuffer, Memory!heapVars,
  Discovery!heapVars, Memory!published, Discovery!published

LEMMA Fills == Memory!FillEntry => Discovery!FillEntry
BY DEF Memory!FillEntry, Discovery!FillEntry, Memory!Region, Discovery!Region,
  Memory!Counted, Discovery!Counted, Memory!MemType, Discovery!MemType, Memory!MemTypes,
  Discovery!MemTypes, Memory!Stale, Discovery!Stale, Memory!heapVars, Discovery!heapVars,
  Memory!published, Discovery!published, Memory!Heap!NULL, Discovery!Heap!NULL

LEMMA Faults == Memory!FillFaults => Discovery!FillFaults
BY DEF Memory!FillFaults, Discovery!FillFaults, Memory!heapVars, Discovery!heapVars,
  Memory!published, Discovery!published, Memory!Heap!NULL, Discovery!Heap!NULL

LEMMA Publishes == Memory!Publish => Discovery!Publish
BY DEF Memory!Publish, Discovery!Publish, Memory!heapVars, Discovery!heapVars

LEMMA Discovers == Memory!Next => Discovery!Next
BY Scans, Opens, GivesUp, RequestsTable, Searches, GetsTable,
   Skips, Fills, Faults, Publishes
   DEF Memory!Next, Discovery!Next

LEMMA DiscoveryRests == memoryVars' = memoryVars => Discovery!vars' = Discovery!vars
BY DEF memoryVars, Discovery!vars, Discovery!heapVars, Discovery!published

(* The other steps of the boot sequence leave the variables of initMemory. *)
LEMMA StepIsMemorys == [Next]_vars => Memory!Next \/ memoryVars' = memoryVars
BY DEF Next, vars, kmain, CheckRevision, archOnBeforeInit, LogHi, LogDevice, initIDT,
   initPageTable, initMemory, MemoryReturned, LogCompleted, PageFault, Driver, Irq, Device

(* A behavior of the boot is one of initMemory alone, under this name too. *)
LEMMA BootDiscovers == Spec => Discovery!Spec
<1>1. Init => Discovery!Init
  BY DiscoveryStarts DEF Init
<1>2. [Next]_vars => [Discovery!Next]_(Discovery!vars)
  BY StepIsMemorys, Discovers, DiscoveryRests
<1> QED
  BY <1>1, <1>2, PTL DEF Spec, Discovery!Spec

(* What kmain runs between two lines of its log is initMemory as module    *)
(* InitMemory has it, with interrupts and the log's steps in between.      *)
THEOREM RunsInitMemory == Spec => Memory!Spec
<1>1. Init => Memory!Init
  BY DEF Init
<1>2. [Next]_vars => [Memory!Next]_(Memory!vars)
  BY StepIsMemorys DEF memoryVars, Memory!vars, Memory!heapVars, Memory!published
<1> QED
  BY <1>1, <1>2, PTL DEF Spec, Memory!Spec

-----------------------------------------------------------------------------
(* The strings end with their only NUL.                                    *)
LEMMA TextFacts ==
  ASSUME NEW t \in DOMAIN Text
  PROVE  /\ Text[t] \in Seq(STRING) /\ Chars(t) \in Nat /\ Len(Text[t]) = Chars(t) + 1
         /\ \A k \in 1 .. Len(Text[t]) : Text[t][k] \in STRING
         /\ \A k \in 1 .. Len(Text[t]) : Text[t][k] = NUL <=> k = Chars(t) + 1
<1>1. /\ Text[t] \in Seq(STRING) /\ Len(Text[t]) > 0
      /\ \A k \in 1 .. Len(Text[t]) : Text[t][k] = NUL <=> k = Len(Text[t])
  BY SerialConstants
<1>2. Len(Text[t]) \in Nat
  BY <1>1, LenProperties
<1>3. \A k \in 1 .. Len(Text[t]) : Text[t][k] \in STRING
  BY <1>1, ElementOfSeq
<1> QED
  BY <1>1, <1>2, <1>3 DEF Chars

Strings == {"Hi", "Device", "IDT", "completed"}

(* The strings kmain and the handlers log are there; where each begins.    *)
LEMMA StringFacts ==
  /\ Strings \cup {"dead", HandlerText} \subseteq DOMAIN Text
  /\ \A t \in Strings : Chars(t) \in Nat /\ Before[t] \in Nat
<1>1. Strings \cup {"dead", HandlerText} \subseteq DOMAIN Text
  BY BootConstants DEF Strings
<1>2. \A t \in Strings : Chars(t) \in Nat
  BY <1>1, TextFacts
<1>3. /\ Before["Hi"] = 0 /\ Before["Device"] = Chars("Hi")
      /\ Before["IDT"] = Chars("Hi") + Chars("Device")
      /\ Before["completed"] = Chars("Hi") + Chars("Device") + Chars("IDT")
  BY DEF Before
<1>4. \A t \in Strings : Before[t] \in Nat
  BY <1>2, <1>3 DEF Strings
<1> QED
  BY <1>1, <1>2, <1>4

(* A string without its NUL, and where it is in a text of two parts.       *)
Cut(t) == SubSeq(Text[t], 1, Len(Text[t]) - 1)

LEMMA CutFacts ==
  ASSUME NEW t \in DOMAIN Text
  PROVE  /\ Cut(t) \in Seq(STRING) /\ Len(Cut(t)) = Chars(t)
         /\ \A k \in 1 .. Chars(t) : Cut(t)[k] = Text[t][k]
BY TextFacts, SubSeqProperties, LenProperties DEF Cut

LEMMA Joined ==
  ASSUME NEW s \in Seq(STRING), NEW t \in DOMAIN Text
  PROVE  /\ s \o Cut(t) \in Seq(STRING) /\ Len(s \o Cut(t)) = Len(s) + Chars(t)
         /\ \A k \in 1 .. Len(s) : (s \o Cut(t))[k] = s[k]
         /\ \A k \in 1 .. Chars(t) : (s \o Cut(t))[Len(s) + k] = Text[t][k]
<1>1. /\ Cut(t) \in Seq(STRING) /\ Len(Cut(t)) = Chars(t) /\ Chars(t) \in Nat
      /\ Len(s) \in Nat
  BY CutFacts, TextFacts, LenProperties
<1>2. /\ s \o Cut(t) \in Seq(STRING) /\ Len(s \o Cut(t)) = Len(s) + Chars(t)
      /\ \A k \in 1 .. Len(s) + Chars(t) :
           (s \o Cut(t))[k] = IF k <= Len(s) THEN s[k] ELSE Cut(t)[k - Len(s)]
  BY <1>1, ConcatProperties
<1>3. ASSUME NEW k \in 1 .. Chars(t) PROVE (s \o Cut(t))[Len(s) + k] = Text[t][k]
  <2>1. Len(s) + k \in 1 .. Len(s) + Chars(t) /\ ~(Len(s) + k <= Len(s)) /\ (Len(s) + k) - Len(s) = k
    BY <1>1
  <2>2. (s \o Cut(t))[Len(s) + k] = Cut(t)[(Len(s) + k) - Len(s)]
    BY <1>2, <2>1
  <2> QED
    BY <2>1, <2>2, CutFacts
<1> QED
  BY <1>1, <1>2, <1>3

(* Where the characters of each of kmain's strings are in its script.      *)
LEMMA ScriptFacts ==
  /\ Script \in Seq(STRING)
  /\ Len(Script) = Before["completed"] + Chars("completed")
  /\ \A t \in Strings : \A k \in 1 .. Chars(t) : Script[Before[t] + k] = Text[t][k]
<1> DEFINE A == Cut("Hi") \o Cut("Device")
           B == A \o Cut("IDT")
<1>1. /\ {"Hi", "Device", "IDT", "completed"} \subseteq DOMAIN Text
      /\ Chars("Hi") \in Nat /\ Chars("Device") \in Nat /\ Chars("IDT") \in Nat
      /\ Chars("completed") \in Nat
  BY StringFacts DEF Strings
<1>2. /\ Cut("Hi") \in Seq(STRING) /\ Len(Cut("Hi")) = Chars("Hi")
      /\ \A k \in 1 .. Chars("Hi") : Cut("Hi")[k] = Text["Hi"][k]
  BY <1>1, CutFacts
<1>3. Script = B \o Cut("completed")
  BY DEF Script, Cut
<1>4. /\ A \in Seq(STRING) /\ Len(A) = Chars("Hi") + Chars("Device")
      /\ \A k \in 1 .. Chars("Hi") : A[k] = Text["Hi"][k]
      /\ \A k \in 1 .. Chars("Device") : A[Chars("Hi") + k] = Text["Device"][k]
  <2>1. /\ A \in Seq(STRING) /\ Len(A) = Len(Cut("Hi")) + Chars("Device")
        /\ \A k \in 1 .. Len(Cut("Hi")) : A[k] = Cut("Hi")[k]
        /\ \A k \in 1 .. Chars("Device") : A[Len(Cut("Hi")) + k] = Text["Device"][k]
    BY <1>1, <1>2, Joined
  <2> QED
    BY <1>2, <2>1
<1> HIDE DEF A
<1>5. /\ B \in Seq(STRING) /\ Len(B) = Len(A) + Chars("IDT")
      /\ \A k \in 1 .. Len(A) : B[k] = A[k]
      /\ \A k \in 1 .. Chars("IDT") : B[Len(A) + k] = Text["IDT"][k]
  BY <1>1, <1>4, Joined
<1> HIDE DEF B
<1>6. /\ Script \in Seq(STRING) /\ Len(Script) = Len(B) + Chars("completed")
      /\ \A k \in 1 .. Len(B) : Script[k] = B[k]
      /\ \A k \in 1 .. Chars("completed") : Script[Len(B) + k] = Text["completed"][k]
  BY <1>1, <1>3, <1>5, Joined
<1>7. /\ Before["Hi"] = 0 /\ Before["Device"] = Chars("Hi") /\ Before["IDT"] = Len(A)
      /\ Before["completed"] = Len(B)
  BY <1>4, <1>5 DEF Before
<1>8. \A k \in 1 .. Chars("Hi") : Script[0 + k] = Text["Hi"][k]
  <2>1. \A k \in 1 .. Chars("Hi") : 0 + k = k /\ k \in 1 .. Len(A) /\ k \in 1 .. Len(B)
    BY <1>1, <1>4, <1>5
  <2> QED
    BY <1>4, <1>5, <1>6, <2>1
<1>9. \A k \in 1 .. Chars("Device") : Script[Chars("Hi") + k] = Text["Device"][k]
  <2>1. \A k \in 1 .. Chars("Device") :
          Chars("Hi") + k \in 1 .. Len(A) /\ Chars("Hi") + k \in 1 .. Len(B)
    BY <1>1, <1>4, <1>5
  <2> QED
    BY <1>4, <1>5, <1>6, <2>1
<1>10. \A k \in 1 .. Chars("IDT") : Script[Len(A) + k] = Text["IDT"][k]
  <2>1. \A k \in 1 .. Chars("IDT") : Len(A) + k \in 1 .. Len(B)
    BY <1>1, <1>4, <1>5
  <2> QED
    BY <1>5, <1>6, <2>1
<1>11. ASSUME NEW t \in Strings PROVE \A k \in 1 .. Chars(t) : Script[Before[t] + k] = Text[t][k]
  <2>1. CASE t = "Hi"
    BY <1>7, <1>8, <2>1
  <2>2. CASE t = "Device"
    BY <1>7, <1>9, <2>2
  <2>3. CASE t = "IDT"
    BY <1>7, <1>10, <2>3
  <2>4. CASE t = "completed"
    BY <1>6, <1>7, <2>4
  <2> QED
    BY <2>1, <2>2, <2>3, <2>4 DEF Strings
<1> QED
  BY <1>6, <1>7, <1>11

-----------------------------------------------------------------------------
(* The driver's calls in progress: none, one of kmain's, one of a          *)
(* handler's, or one of a handler's on top of one of kmain's.              *)

LEMMA OneCall ==
  ASSUME NEW c, calls = <<c>>
  PROVE  Len(calls) = 1 /\ calls[1] = c /\ Top = c /\ Rest = <<>> /\ calls # <<>>
<1>1. SubSeq(calls, 1, 0) = <<>>
  BY SubSeqEmpty
<1> QED
  BY <1>1 DEF Top, Rest

LEMMA TwoCalls ==
  ASSUME NEW b, NEW c, calls = <<b, c>>
  PROVE  Len(calls) = 2 /\ calls[1] = b /\ Top = c /\ Rest = <<b>> /\ calls # <<>>
<1>1. calls \in Seq({b, c}) /\ Len(calls) = 2
  OBVIOUS
<1>2. /\ Rest \in Seq({b, c}) /\ Len(Rest) = 1 /\ Rest[1] = b
  BY <1>1, SubSeqProperties DEF Rest
<1>3. Rest = <<b>>
  BY <1>2, SeqEqual
<1> QED
  BY <1>1, <1>3 DEF Top

(* A call on top of another.                                               *)
LEMMA Pushed ==
  ASSUME NEW b \in Calls, NEW c \in Calls PROVE Append(<<b>>, c) = <<b, c>>
<1>1. <<b>> \in Seq(Calls) /\ Len(<<b>>) = 1 /\ <<b>>[1] = b
  OBVIOUS
<1>2. /\ Append(<<b>>, c) \in Seq(Calls) /\ Len(Append(<<b>>, c)) = 2
      /\ Append(<<b>>, c)[1] = b /\ Append(<<b>>, c)[2] = c
  BY <1>1, AppendProperties
<1>3. /\ <<b, c>> \in Seq(Calls) /\ Len(<<b, c>>) = 2
      /\ <<b, c>>[1] = b /\ <<b, c>>[2] = c
  OBVIOUS
<1>4. \A k \in 1 .. Len(<<b, c>>) : Append(<<b>>, c)[k] = <<b, c>>[k]
  BY <1>2, <1>3
<1> QED
  BY <1>2, <1>3, <1>4, SeqEqual

LEMMA OneCallNext ==
  ASSUME NEW c, calls' = <<c>>
  PROVE  Len(calls') = 1 /\ calls'[1] = c /\ Top' = c /\ calls' # <<>>
BY DEF Top

LEMMA TwoCallsNext ==
  ASSUME NEW b, NEW c, calls' = <<b, c>>
  PROVE  /\ Len(calls') = 2 /\ calls'[1] = b /\ calls'[2] = c /\ Top' = c
         /\ calls' # <<>>
BY DEF Top

(* The calls in progress once the line is up.                              *)
LEMMA Shapes ==
  ASSUME calls \in Seq(Calls), CallsInv, LineUp
  PROVE  \/ calls = <<>>
         \/ calls = <<calls[1]>> /\ IsKmainCall(calls[1])
         \/ loaded /\ calls = <<calls[1]>> /\ IsHandlerCall(calls[1])
         \/ /\ loaded /\ calls = <<calls[1], calls[2]>>
            /\ IsKmainCall(calls[1]) /\ IsHandlerCall(calls[2])
<1>1. Len(calls) = 1 => calls = <<calls[1]>>
  <2>1. Len(calls) = 1 => calls[1] \in Calls
    BY ElementOfSeq
  <2> QED
    BY <2>1, SeqEqual
<1>2. Len(calls) = 2 => calls = <<calls[1], calls[2]>>
  <2>1. Len(calls) = 2 => calls[1] \in Calls /\ calls[2] \in Calls
    BY ElementOfSeq
  <2> QED
    BY <2>1, SeqEqual
<1> QED
  BY <1>1, <1>2 DEF CallsInv

LEMMA CallTypes ==
  ASSUME NEW c
  PROVE  /\ IsKmainCall(c) => c \in Calls /\ c.by = "kmain" /\ c.fn = "serialLogz"
         /\ IsHandlerCall(c) => c \in Calls /\ c.by = "handler" /\ c.fn # "initSerial"
<1>1. IsKmainCall(c) => LastLog[next] \in DOMAIN Text
  BY StringFacts DEF IsKmainCall, LastLog, Strings
<1>2. {HandlerText, "dead"} \subseteq DOMAIN Text
  BY StringFacts
<1> QED
  BY <1>1, <1>2 DEF IsKmainCall, IsHandlerCall, Calls, LogCalls

KmainWrites == KmainLogs /\ calls[1].pc = "write"
HandlerWrites == InHandler /\ Top.pc = "write"

(* Before the line is up nothing has been said about it.                   *)
LEMMA LineNotUp ==
  TypeOK /\ SetUpInv /\ ~LineUp /\ ~lost => CallsInv /\ FifoInv /\ LogInv
<1> SUFFICES ASSUME TypeOK, SetUpInv, ~LineUp, ~lost PROVE CallsInv /\ FifoInv /\ LogInv
  OBVIOUS
<1>1. CallsInv /\ FifoInv
  BY DEF CallsInv, FifoInv
<1>2. line = <<>> /\ Len(line) = 0
  BY DEF SetUpInv
<1>3. ~Waiting
  <2>1. uart.fifo \in Seq([char : STRING, by : Kinds])
    BY DEF TypeOK, UartStates
  <2>2. uart.fifo # <<>> => Len(uart.fifo) \in 1 .. Len(uart.fifo)
    BY <2>1, EmptySeq, LenProperties
  <2> QED
    BY <2>2 DEF SetUpInv, Waiting
<1>4. Written = 0
  BY DEF Written
<1> QED
  BY <1>1, <1>2, <1>3, <1>4 DEF LogInv, LineReady

(* A step that leaves the UART alone.                                      *)
LEMMA QuietKeeps ==
  ASSUME FifoInv, LogInv, LineUp, UNCHANGED <<uart, line, lost>>, Written' = Written,
         KmainWrites' => Len(uart.fifo) <= 1 /\ ~Waiting,
         HandlerWrites' => uart.fifo = <<>>
  PROVE  FifoInv' /\ LogInv'
<1>1. FifoInv'
  BY DEF FifoInv, Waiting, KmainWrites, HandlerWrites
<1>2. LogInv'
  BY DEF LogInv, LineReady, Waiting
<1> QED
  BY <1>1, <1>2

-----------------------------------------------------------------------------
LEMMA InitHolds == Init => IInv
<1> SUFFICES ASSUME Init PROVE IInv
  OBVIOUS
<1>1. calls = <<>> /\ line = <<>> /\ Len(calls) = 0
  BY DEF Init
<1>2. uart \in UartStates({"loader"}) /\ Len(uart.fifo) <= 16
  BY BootConstants DEF Init
<1>3. uart.fifo \in Seq([char : STRING, by : {"loader"}])
  BY <1>2 DEF UartStates
<1>4. \A k \in 1 .. Len(uart.fifo) : uart.fifo[k].by = "loader"
  <2>1. \A k \in 1 .. Len(uart.fifo) : uart.fifo[k] \in [char : STRING, by : {"loader"}]
    BY <1>3, ElementOfSeq
  <2> QED
    BY <2>1
<1>5. uart \in UartStates(Kinds)
  <2>1. uart.fifo \in Seq([char : STRING, by : Kinds])
    BY <1>3, SeqMonotonic DEF Kinds
  <2> QED
    BY <1>2, <2>1 DEF UartStates
<1>6. TypeOK
  <2>1. /\ calls \in Seq(Calls)
        /\ line \in Seq([char : STRING, divisor : Nat, lcr : 0 .. 255])
    BY <1>1, EmptySeq
  <2>2. next = "check" /\ irqs \in 0 .. MaxIrqs
    BY BootConstants DEF Init
  <2>3. lost \in BOOLEAN /\ loaded \in BOOLEAN /\ supported \in BOOLEAN
    BY DEF Init
  <2>4. ~InHandler /\ Len(calls) <= 2 /\ Len(calls) # 2
    BY <1>1 DEF InHandler
  <2>5. pageTable \in {"NULL", "CR3"}
    BY DEF Init
  <2> QED
    BY <1>2, <1>5, <2>1, <2>2, <2>3, <2>4, <2>5 DEF TypeOK
<1>7. Early
  BY DEF Init, Early
<1>8. SetUpInv
  BY <1>1, <1>4, <1>7 DEF SetUpInv, Init, LineUp, SettingUp
<1>9. ProgressInv
  BY DEF ProgressInv, Init
<1> QED
  BY <1>6, <1>7, <1>8, <1>9, LineNotUp DEF IInv, LineUp, Init

-----------------------------------------------------------------------------
(* What kmain does between its calls of the driver.                        *)

Steps == {"check", "archOnBeforeInit", "Hi", "Device", "initIDT", "initPageTable",
          "initMemory", "completed", "hang"}

(* A step that leaves the UART and the calls alone keeps the types.        *)
LEMMA RestTypeOK ==
  ASSUME TypeOK, UNCHANGED <<serialVars, supported, irqs>>, next' \in Steps,
         loaded' = loaded, pageTable' \in {"NULL", "CR3"}
  PROVE  TypeOK'
BY DEF TypeOK, serialVars, Steps, InHandler, Top

LEMMA CheckRevisionKeeps == ASSUME IInv, CheckRevision PROVE IInv'
<1>1. /\ TypeOK /\ SetUpInv /\ ~lost /\ ProgressInv
  BY DEF IInv, FifoInv
<1>2. /\ UNCHANGED <<serialVars, supported, irqs, loaded, pageTable, at>>
      /\ next = "check" /\ calls = <<>> /\ calls' = <<>> /\ UNCHANGED <<uart, line, lost>>
      /\ next' = IF supported THEN "archOnBeforeInit" ELSE "hang"
  BY DEF CheckRevision, Kmain, serialVars, memoryVars
<1>3. TypeOK'
  BY <1>1, <1>2, RestTypeOK DEF TypeOK, Steps
<1>4. Early /\ Early' /\ ~LineUp /\ ~LineUp'
  BY <1>2 DEF Early, LineUp
<1>5. SetUpInv'
  BY <1>1, <1>2, <1>4 DEF SetUpInv, SettingUp
<1>6. ProgressInv'
  BY <1>1, <1>2 DEF ProgressInv
<1>7. (TypeOK /\ SetUpInv /\ ~LineUp /\ ~lost)'
  BY <1>1, <1>2, <1>3, <1>4, <1>5
<1>8. (CallsInv /\ FifoInv /\ LogInv)'
  BY <1>7, LineNotUp, PTL
<1> QED
  BY <1>3, <1>5, <1>6, <1>8 DEF IInv

LEMMA ArchOnBeforeInitKeeps == ASSUME IInv, archOnBeforeInit PROVE IInv'
<1>1. /\ TypeOK /\ SetUpInv /\ ~lost /\ ProgressInv
  BY DEF IInv, FifoInv
<1> DEFINE c == initSerial(BaudDivisor)
<1>2. /\ UNCHANGED <<uart, line, lost, supported, irqs, loaded, pageTable, at>>
      /\ next = "archOnBeforeInit" /\ next' = "Hi" /\ calls = <<>> /\ calls' = <<c>>
  BY DEF archOnBeforeInit, Kmain, CallSerial, memoryVars
<1>3. c \in Calls /\ c = [c EXCEPT !.i = 1] /\ c.fn = "initSerial" /\ c.by = "kmain"
  BY DEF Calls, initSerial
<1> HIDE DEF c
<1>4. Len(calls') = 1 /\ calls'[1] = c /\ Top' = c /\ calls' # <<>>
  BY <1>2, OneCallNext
<1>5. TypeOK'
  <2>1. calls' \in Seq(Calls)
    BY <1>2, <1>3
  <2> QED
    BY <1>1, <1>2, <1>3, <1>4, <2>1 DEF TypeOK, InHandler
<1>6. Early /\ ~LineUp /\ SettingUp' /\ ~LineUp' /\ ~Early'
  BY <1>1, <1>2, <1>3, <1>4 DEF Early, LineUp, SettingUp, ProgressInv
<1>7. SetUpInv'
  <2>1. ~loaded' /\ line' = <<>> /\ \A k \in 1 .. Len(uart'.fifo) : uart'.fifo[k].by = "loader"
    BY <1>1, <1>2, <1>6 DEF SetUpInv
  <2>2. calls' = <<[initSerial(BaudDivisor) EXCEPT !.i = 0 + 1]>>
    BY <1>2, <1>3 DEF c
  <2>3. PortsWritten(0)'
    BY DEF PortsWritten
  <2> QED
    BY <1>2, <1>6, <2>1, <2>2, <2>3 DEF SetUpInv
<1>8. ProgressInv'
  BY <1>1, <1>2 DEF ProgressInv
<1>9. (TypeOK /\ SetUpInv /\ ~LineUp /\ ~lost)'
  BY <1>1, <1>2, <1>5, <1>6, <1>7
<1>10. (CallsInv /\ FifoInv /\ LogInv)'
  BY <1>9, LineNotUp, PTL
<1> QED
  BY <1>5, <1>7, <1>8, <1>10 DEF IInv

(* Once the line is up kmain's other steps leave the driver alone.         *)
LEMMA BetweenCalls ==
  ASSUME IInv, LineUp, calls = <<>>, UNCHANGED <<serialVars, supported, irqs, loaded>>,
         next \in {"initPageTable", "initMemory", "completed"},
         next' \in {"initPageTable", "initMemory", "completed"},
         pageTable' \in {"NULL", "CR3"}, ProgressInv'
  PROVE  IInv'
<1>1. /\ TypeOK /\ SetUpInv /\ FifoInv /\ LogInv
  BY DEF IInv
<1>2. UNCHANGED <<uart, line, lost, calls>>
  BY DEF serialVars
<1>3. TypeOK'
  BY <1>1, RestTypeOK DEF Steps
<1>4. LineUp'
  BY <1>2 DEF LineUp, Early, SettingUp
<1>5. SetUpInv' /\ CallsInv'
  BY <1>1, <1>2, <1>4 DEF SetUpInv, CallsInv, LineUp, PortsWritten
<1>6. Written' = Written /\ ~KmainWrites' /\ ~HandlerWrites'
  <2>1. ~KmainLogs /\ ~KmainLogs' /\ ~InHandler'
    BY <1>2 DEF KmainLogs, InHandler
  <2>2. LastLog[next] = "IDT" /\ LastLog[next'] = "IDT" /\ next # "Hi" /\ next' # "Hi"
    BY DEF LastLog
  <2> QED
    BY <1>4, <2>1, <2>2 DEF Written, KmainWrites, HandlerWrites
<1>7. FifoInv' /\ LogInv'
  BY <1>1, <1>2, <1>6, QuietKeeps
<1> QED
  BY <1>3, <1>5, <1>7 DEF IInv

LEMMA InitPageTableKeeps == ASSUME IInv, initPageTable PROVE IInv'
<1>1. LineUp /\ ProgressInv
  BY DEF IInv, initPageTable, Kmain, LineUp, Early, SettingUp, ProgressInv
<1>2. UNCHANGED at
  BY DEF initPageTable, memoryVars
<1>3. ProgressInv'
  BY <1>1, <1>2 DEF initPageTable, Kmain, ProgressInv
<1> QED
  BY <1>1, <1>3, BetweenCalls DEF initPageTable, Kmain

LEMMA InitMemoryKeeps == ASSUME IInv, initMemory PROVE IInv'
<1>1. LineUp /\ ProgressInv
  BY DEF IInv, initMemory, LineUp, Early, SettingUp, ProgressInv
<1>2. ProgressInv'
  BY <1>1 DEF initMemory, kmainVars, ProgressInv
<1>3. pageTable \in {"NULL", "CR3"}
  BY DEF IInv, TypeOK
<1> QED
  BY <1>1, <1>2, <1>3, BetweenCalls DEF initMemory, kmainVars

LEMMA MemoryReturnedKeeps == ASSUME IInv, MemoryReturned PROVE IInv'
<1>1. LineUp /\ ProgressInv
  BY DEF IInv, MemoryReturned, Kmain, LineUp, Early, SettingUp, ProgressInv
<1>2. UNCHANGED at
  BY DEF MemoryReturned, memoryVars
<1>3. ProgressInv'
  BY <1>1, <1>2 DEF MemoryReturned, Kmain, ProgressInv
<1>4. pageTable \in {"NULL", "CR3"}
  BY DEF IInv, TypeOK
<1> QED
  BY <1>1, <1>3, <1>4, BetweenCalls DEF MemoryReturned, Kmain

-----------------------------------------------------------------------------
(* kmain calls the driver, and so do handlers on top of it.                *)

(* A call of serialLogz with a string of kmain's starts within it.         *)
LEMMA KmainCallStarts ==
  ASSUME NEW t \in Strings
  PROVE  LET c == serialLogz("kmain", t)
         IN /\ c \in LogCalls({"serialLogz"}, {"kmain"}, {t}) /\ InText(c)
            /\ c \in Calls /\ c.by = "kmain" /\ c.fn # "initSerial" /\ c.i = 1 /\ c.pc = "next"
<1>1. t \in DOMAIN Text /\ Chars(t) \in Nat /\ Len(Text[t]) = Chars(t) + 1
  BY StringFacts, TextFacts
<1> QED
  BY <1>1 DEF serialLogz, LogCalls, InText, Last, Calls

(* kmain starts to log: nothing of the string has been written yet.        *)
LEMMA KmainLogsKeep ==
  ASSUME IInv, LineUp, calls = <<>>, NEW t \in Strings, CallSerial(serialLogz("kmain", t)),
         next' \in {"Device", "initIDT", "initPageTable", "hang"}, LastLog[next'] = t,
         Before[t] = Written, UNCHANGED <<supported, irqs, pageTable>>, loaded' \in BOOLEAN,
         ProgressInv'
  PROVE  IInv'
<1>1. /\ TypeOK /\ SetUpInv /\ FifoInv /\ LogInv
  BY DEF IInv
<1> DEFINE c == serialLogz("kmain", t)
<1>2. UNCHANGED <<uart, line, lost>> /\ calls' = <<c>>
  BY DEF CallSerial
<1>3. /\ c \in LogCalls({"serialLogz"}, {"kmain"}, {t}) /\ InText(c)
      /\ c \in Calls /\ c.by = "kmain" /\ c.fn # "initSerial" /\ c.i = 1 /\ c.pc = "next"
  BY KmainCallStarts
<1> HIDE DEF c
<1>4. Len(calls') = 1 /\ calls'[1] = c /\ Top' = c /\ calls' # <<>>
  BY <1>2, OneCallNext
<1>5. TypeOK'
  <2>1. calls' \in Seq(Calls)
    BY <1>2, <1>3
  <2> QED
    BY <1>1, <1>2, <1>3, <1>4, <2>1 DEF TypeOK, InHandler
<1>6. LineUp' /\ ~SettingUp' /\ ~Early'
  BY <1>3, <1>4 DEF LineUp, Early, SettingUp
<1>7. SetUpInv'
  BY <1>1, <1>2, <1>6 DEF SetUpInv, LineUp, PortsWritten
<1>8. CallsInv'
  <2>1. IsKmainCall(calls[1])'
    BY <1>3, <1>4 DEF IsKmainCall
  <2> QED
    BY <1>4, <2>1 DEF CallsInv
<1>9. Written' = Written /\ ~KmainWrites' /\ ~HandlerWrites'
  <2>1. Before[t] \in Nat
    BY StringFacts
  <2>2. KmainLogs' /\ ~KmainWrites' /\ ~HandlerWrites'
    BY <1>3, <1>4, <1>6 DEF KmainLogs, KmainWrites, HandlerWrites, InHandler
  <2>3. Written' = Before[t] + (c.i - 1)
    BY <1>4, <1>6, <2>2 DEF Written
  <2> QED
    BY <1>3, <2>1, <2>2, <2>3
<1>10. FifoInv' /\ LogInv'
  BY <1>1, <1>2, <1>9, QuietKeeps
<1> QED
  BY <1>5, <1>7, <1>8, <1>10 DEF IInv

(* Where kmain is in its script when it starts the next string.            *)
LEMMA WrittenBetween ==
  ASSUME LineUp, calls = <<>>
  PROVE  /\ next = "Hi" => Written = Before["Hi"]
         /\ next = "Device" => Written = Before["Device"]
         /\ next = "initIDT" => Written = Before["IDT"]
         /\ next = "completed" => Written = Before["completed"]
<1>1. /\ Chars("Hi") \in Nat /\ Chars("Device") \in Nat /\ Chars("IDT") \in Nat
  BY StringFacts DEF Strings
<1>2. ~KmainLogs
  BY DEF KmainLogs
<1>3. /\ Before["Hi"] = 0 /\ Before["Device"] = Chars("Hi")
      /\ Before["IDT"] = Chars("Hi") + Chars("Device")
      /\ Before["completed"] = Chars("Hi") + Chars("Device") + Chars("IDT")
  BY DEF Before
<1>4. /\ LastLog["Device"] = "Hi" /\ LastLog["initIDT"] = "Device"
      /\ LastLog["completed"] = "IDT"
  BY DEF LastLog
<1> QED
  BY <1>1, <1>2, <1>3, <1>4 DEF Written

LEMMA LogHiKeeps == ASSUME IInv, LogHi PROVE IInv'
<1>1. LineUp /\ ProgressInv /\ UNCHANGED at
  BY DEF IInv, LogHi, Kmain, LineUp, Early, SettingUp, ProgressInv, memoryVars
<1>2. ProgressInv' /\ loaded \in BOOLEAN
  BY <1>1 DEF LogHi, Kmain, ProgressInv, IInv, TypeOK
<1>3. LastLog["Device"] = "Hi" /\ "Hi" \in Strings
  BY DEF LastLog, Strings
<1> QED
  BY <1>1, <1>2, <1>3, WrittenBetween, KmainLogsKeep DEF LogHi, Kmain

LEMMA LogDeviceKeeps == ASSUME IInv, LogDevice PROVE IInv'
<1>1. LineUp /\ ProgressInv /\ UNCHANGED at
  BY DEF IInv, LogDevice, Kmain, LineUp, Early, SettingUp, ProgressInv, memoryVars
<1>2. ProgressInv' /\ loaded \in BOOLEAN
  BY <1>1 DEF LogDevice, Kmain, ProgressInv, IInv, TypeOK
<1>3. LastLog["initIDT"] = "Device" /\ "Device" \in Strings
  BY DEF LastLog, Strings
<1> QED
  BY <1>1, <1>2, <1>3, WrittenBetween, KmainLogsKeep DEF LogDevice, Kmain

LEMMA InitIDTKeeps == ASSUME IInv, initIDT PROVE IInv'
<1>1. LineUp /\ ProgressInv /\ UNCHANGED at
  BY DEF IInv, initIDT, Kmain, LineUp, Early, SettingUp, ProgressInv, memoryVars
<1>2. ProgressInv'
  BY <1>1 DEF initIDT, Kmain, ProgressInv
<1>3. LastLog["initPageTable"] = "IDT" /\ "IDT" \in Strings
  BY DEF LastLog, Strings
<1> QED
  BY <1>1, <1>2, <1>3, WrittenBetween, KmainLogsKeep DEF initIDT, Kmain

LEMMA LogCompletedKeeps == ASSUME IInv, LogCompleted PROVE IInv'
<1>1. LineUp /\ ProgressInv /\ UNCHANGED at
  BY DEF IInv, LogCompleted, Kmain, LineUp, Early, SettingUp, ProgressInv, memoryVars
<1>2. ProgressInv' /\ loaded \in BOOLEAN
  BY <1>1 DEF LogCompleted, Kmain, ProgressInv, IInv, TypeOK
<1>3. LastLog["hang"] = "completed" /\ "completed" \in Strings
  BY DEF LastLog, Strings
<1> QED
  BY <1>1, <1>2, <1>3, WrittenBetween, KmainLogsKeep DEF LogCompleted, Kmain

(* A handler starts to log.                                                *)
LEMMA HandlerLogsKeep ==
  ASSUME IInv, loaded, ~InHandler, NEW c, IsHandlerCall(c), c.pc = "next", CallSerial(c),
         UNCHANGED <<kmainVars, at>>, irqs' \in 0 .. MaxIrqs
  PROVE  IInv'
<1>1. /\ TypeOK /\ SetUpInv /\ CallsInv /\ FifoInv /\ LogInv /\ ProgressInv
  BY DEF IInv
<1>2. LineUp
  BY <1>1 DEF SetUpInv
<1>3. UNCHANGED <<uart, line, lost>> /\ calls' = Append(calls, c)
  BY DEF CallSerial
<1>4. c \in Calls /\ c.by = "handler" /\ c.fn # "initSerial"
  BY CallTypes
<1>5. \/ calls = <<>> /\ calls' = <<c>>
      \/ /\ calls = <<calls[1]>> /\ IsKmainCall(calls[1]) /\ calls' = <<calls[1], c>>
         /\ calls[1] \in Calls /\ calls[1].by = "kmain" /\ calls[1].fn # "initSerial"
  <2>1. CASE calls = <<>>
    BY <1>3, <2>1
  <2>2. CASE calls = <<calls[1]>> /\ IsKmainCall(calls[1])
    <3>1. Append(<<calls[1]>>, c) = <<calls[1], c>>
      BY <1>4, <2>2, CallTypes, Pushed
    <3>2. calls' = <<calls[1], c>>
      BY <1>3, <2>2, <3>1, Zenon
    <3> QED
      BY <2>2, <3>2, CallTypes
  <2>3. ASSUME IsHandlerCall(calls[1]), calls = <<calls[1]>> PROVE FALSE
    BY <2>3, OneCall, CallTypes DEF InHandler
  <2>4. ASSUME IsHandlerCall(calls[2]), calls = <<calls[1], calls[2]>> PROVE FALSE
    BY <2>4, TwoCalls, CallTypes DEF InHandler
  <2>5. calls \in Seq(Calls)
    BY <1>1 DEF TypeOK
  <2>6. \/ calls = <<>>
        \/ calls = <<calls[1]>> /\ IsKmainCall(calls[1])
        \/ calls = <<calls[1]>> /\ IsHandlerCall(calls[1])
        \/ calls = <<calls[1], calls[2]>> /\ IsHandlerCall(calls[2])
    BY <1>1, <1>2, <2>5, Shapes
  <2> QED
    BY <2>1, <2>2, <2>3, <2>4, <2>6
<1>6. /\ Top' = c /\ calls' # <<>> /\ Len(calls') \in {1, 2}
      /\ calls' \in Seq(Calls) /\ calls'[1].fn # "initSerial"
      /\ KmainLogs' => calls # <<>> /\ calls'[1] = calls[1] /\ calls[1].by = "kmain"
      /\ calls # <<>> => calls'[1] = calls[1]
      /\ Len(calls') = 1 => calls = <<>> /\ calls'[1] = c
      /\ Len(calls') = 2 => calls'[2] = c /\ IsKmainCall(calls[1]) /\ calls'[1].by = "kmain"
  <2>1. CASE calls = <<>> /\ calls' = <<c>>
    BY <1>4, <2>1, OneCallNext DEF KmainLogs
  <2>2. CASE /\ calls = <<calls[1]>> /\ IsKmainCall(calls[1]) /\ calls' = <<calls[1], c>>
             /\ calls[1] \in Calls /\ calls[1].by = "kmain" /\ calls[1].fn # "initSerial"
    BY <1>4, <2>2, TwoCallsNext, OneCall
  <2> QED
    BY <1>5, <2>1, <2>2
<1>7. TypeOK'
  BY <1>1, <1>3, <1>4, <1>6 DEF TypeOK, kmainVars
<1>8. LineUp'
  BY <1>2, <1>6 DEF LineUp, Early, SettingUp, kmainVars
<1>9. SetUpInv'
  BY <1>1, <1>2, <1>3, <1>6, <1>8 DEF SetUpInv, LineUp, PortsWritten
<1>10. CallsInv'
  <2>1. IsHandlerCall(c) /\ loaded'
    BY DEF kmainVars
  <2>2. CASE Len(calls') = 1
    BY <1>6, <2>1, <2>2 DEF CallsInv, IsHandlerCall
  <2>3. CASE Len(calls') = 2
    <3>1. calls' # <<>> /\ calls'[1] = calls[1] /\ calls'[2] = c /\ IsKmainCall(calls[1])
      BY <1>5, <1>6, <2>3
    <3>2. IsKmainCall(calls[1])'
      BY <3>1 DEF IsKmainCall, kmainVars
    <3> QED
      BY <2>1, <2>3, <3>1, <3>2 DEF CallsInv, IsHandlerCall
  <2> QED
    BY <1>6, <2>2, <2>3
<1>11. /\ Written' = Written /\ ~HandlerWrites'
       /\ KmainWrites' => KmainWrites
  <2>1. KmainLogs' <=> KmainLogs
    BY <1>2, <1>4, <1>6, <1>8 DEF KmainLogs
  <2> QED
    BY <1>2, <1>6, <1>8, <2>1 DEF Written, KmainWrites, HandlerWrites, kmainVars, KmainLogs
<1>12. FifoInv' /\ LogInv'
  <2>1. KmainWrites => Len(uart.fifo) <= 1 /\ ~Waiting
    BY <1>1, <1>2 DEF FifoInv, KmainWrites
  <2> QED
    BY <1>1, <1>2, <1>3, <1>11, <2>1, QuietKeeps
<1>13. ProgressInv'
  BY <1>1 DEF ProgressInv, kmainVars
<1> QED
  BY <1>7, <1>9, <1>10, <1>12, <1>13 DEF IInv

(* What a handler may call starts within its string.                       *)
LEMMA HandlerCallStarts ==
  /\ \A t \in {HandlerText, "dead"} :
       LET c == serialLogz("handler", t) IN IsHandlerCall(c) /\ c.pc = "next"
  /\ \A n \in 0 .. Len(Text[HandlerText]) :
       LET c == serialLogn("handler", HandlerText, n) IN IsHandlerCall(c) /\ c.pc = "next"
<1>1. ASSUME NEW t \in {HandlerText, "dead"}
      PROVE  LET c == serialLogz("handler", t) IN IsHandlerCall(c) /\ c.pc = "next"
  <2>1. Chars(t) \in Nat /\ Len(Text[t]) = Chars(t) + 1
    BY StringFacts, TextFacts
  <2> QED
    BY <2>1 DEF serialLogz, IsHandlerCall, LogCalls, InText, Last
<1>2. ASSUME NEW n \in 0 .. Len(Text[HandlerText])
      PROVE  LET c == serialLogn("handler", HandlerText, n)
             IN IsHandlerCall(c) /\ c.pc = "next"
  <2>1. Chars(HandlerText) \in Nat /\ Len(Text[HandlerText]) = Chars(HandlerText) + 1
    BY StringFacts, TextFacts
  <2> QED
    BY <2>1 DEF serialLogn, IsHandlerCall, LogCalls, InText, Last
<1> QED
  BY <1>1, <1>2

LEMMA IrqKeeps == ASSUME IInv, Irq PROVE IInv'
<1>1. PICK c : IsHandlerCall(c) /\ c.pc = "next" /\ CallSerial(c)
  BY HandlerCallStarts DEF Irq
<1>2. loaded /\ ~InHandler /\ UNCHANGED <<kmainVars, at>>
  BY DEF Irq, IF0, memoryVars
<1>3. irqs' \in 0 .. MaxIrqs
  BY BootConstants DEF Irq, IInv, TypeOK
<1> QED
  BY <1>1, <1>2, <1>3, HandlerLogsKeep

LEMMA PageFaultKeeps == ASSUME IInv, PageFault PROVE IInv'
<1>1. loaded /\ ~InHandler
  BY DEF IInv, ProgressInv, PageFault, InHandler
<1>2. CallSerial(serialLogz("handler", "dead")) /\ UNCHANGED <<kmainVars, at, irqs>>
  BY <1>1 DEF PageFault, kmainVars, memoryVars
<1>3. irqs' \in 0 .. MaxIrqs
  BY <1>2 DEF IInv, TypeOK
<1> QED
  BY <1>1, <1>2, <1>3, HandlerCallStarts, HandlerLogsKeep

-----------------------------------------------------------------------------
(* initSerial, while nothing else can run.                                 *)

(* What initSerial writes at 9600 baud.                                    *)
LEMMA PortValues ==
  /\ BaudDivisor = 12
  /\ PortWrites(12) = <<<<1, 0>>, <<3, 128>>, <<0, 12>>, <<1, 0>>, <<3, 3>>, <<2, 199>>,
                        <<4, 11>>>>
  /\ FifoOn(199) /\ ClearsFifo(199)
<1>1. 115200 \div 9600 = 12 /\ 12 % 256 = 12 /\ (12 \div 256) % 256 = 0
  OBVIOUS
<1>2. 199 % 2 = 1 /\ (199 \div 4) % 2 = 1
  OBVIOUS
<1> QED
  BY <1>1, <1>2 DEF BaudDivisor, PortWrites, FifoOn, ClearsFifo

(* What a write to each port does to the registers and to the FIFO.        *)
LEMMA Registers ==
  ASSUME uart \in UartStates(Kinds), lost \in BOOLEAN, NEW v \in 0 .. 255
  PROVE  /\ outb(0, v) /\ uart.lcr >= 128 =>
              /\ uart' \in UartStates(Kinds) /\ uart'.fifo = uart.fifo /\ lost' = lost
              /\ uart'.lcr = uart.lcr /\ uart'.dll = v
         /\ outb(1, v) =>
              /\ uart' \in UartStates(Kinds) /\ uart'.fifo = uart.fifo /\ lost' = lost
              /\ uart'.lcr = uart.lcr /\ uart'.dll = uart.dll
              /\ uart.lcr >= 128 => uart'.dlm = v
         /\ outb(3, v) =>
              /\ uart' \in UartStates(Kinds) /\ uart'.fifo = uart.fifo /\ lost' = lost
              /\ uart'.lcr = v /\ uart'.dll = uart.dll /\ uart'.dlm = uart.dlm
         /\ outb(4, v) =>
              /\ uart' \in UartStates(Kinds) /\ uart'.fifo = uart.fifo /\ lost' = lost
              /\ uart'.lcr = uart.lcr /\ uart'.dll = uart.dll /\ uart'.dlm = uart.dlm
              /\ uart'.fifoOn = uart.fifoOn
<1> DEFINE Bytes == 0 .. 255
           Fifos == Seq([char : STRING, by : Kinds])
           Uarts == [ier : Bytes, lcr : Bytes, dll : Bytes, dlm : Bytes, mcr : Bytes,
                     fifoOn : BOOLEAN, fifo : Fifos]
<1>5. UartStates(Kinds) = Uarts /\ uart \in Uarts /\ v \in Bytes
  BY DEF UartStates
<1> HIDE DEF Bytes, Fifos
<1>1. ASSUME outb(0, v), uart.lcr >= 128
      PROVE  /\ uart' \in UartStates(Kinds) /\ uart'.fifo = uart.fifo /\ lost' = lost
             /\ uart'.lcr = uart.lcr /\ uart'.dll = v
  <2>1. uart' = [uart EXCEPT !.dll = v] /\ lost' = lost
    BY <1>1 DEF outb
  <2> QED
    BY <1>5, <2>1
<1>2. ASSUME outb(1, v)
      PROVE  /\ uart' \in UartStates(Kinds) /\ uart'.fifo = uart.fifo /\ lost' = lost
             /\ uart'.lcr = uart.lcr /\ uart'.dll = uart.dll
             /\ uart.lcr >= 128 => uart'.dlm = v
  <2>1. /\ uart' = IF uart.lcr >= 128 THEN [uart EXCEPT !.dlm = v]
                   ELSE [uart EXCEPT !.ier = v]
        /\ lost' = lost
    BY <1>2 DEF outb
  <2>2. CASE uart.lcr >= 128
    <3>1. uart' = [uart EXCEPT !.dlm = v]
      BY <2>1, <2>2
    <3>2. uart' \in UartStates(Kinds) /\ uart'.fifo = uart.fifo
      BY <1>5, <3>1
    <3>3. uart'.lcr = uart.lcr /\ uart'.dll = uart.dll /\ uart'.dlm = v
      BY <1>5, <3>1
    <3> QED
      BY <2>1, <3>2, <3>3
  <2>3. CASE ~(uart.lcr >= 128)
    <3>1. uart' = [uart EXCEPT !.ier = v]
      BY <2>1, <2>3
    <3>2. uart' \in UartStates(Kinds) /\ uart'.fifo = uart.fifo
      BY <1>5, <3>1
    <3>3. uart'.lcr = uart.lcr /\ uart'.dll = uart.dll
      BY <1>5, <3>1
    <3> QED
      BY <2>1, <2>3, <3>2, <3>3
  <2> QED
    BY <2>2, <2>3
<1>3. ASSUME outb(3, v)
      PROVE  /\ uart' \in UartStates(Kinds) /\ uart'.fifo = uart.fifo /\ lost' = lost
             /\ uart'.lcr = v /\ uart'.dll = uart.dll /\ uart'.dlm = uart.dlm
  <2>1. uart' = [uart EXCEPT !.lcr = v] /\ lost' = lost
    BY <1>3 DEF outb
  <2> QED
    BY <1>5, <2>1
<1>4. ASSUME outb(4, v)
      PROVE  /\ uart' \in UartStates(Kinds) /\ uart'.fifo = uart.fifo /\ lost' = lost
             /\ uart'.lcr = uart.lcr /\ uart'.dll = uart.dll /\ uart'.dlm = uart.dlm
             /\ uart'.fifoOn = uart.fifoOn
  <2>1. uart' = [uart EXCEPT !.mcr = v] /\ lost' = lost
    BY <1>4 DEF outb
  <2> QED
    BY <1>5, <2>1
<1> QED
  BY <1>1, <1>2, <1>3, <1>4

(* The FIFO is turned on and cleared, with one write.                      *)
LEMMA FifoTurnedOn ==
  ASSUME uart \in UartStates(Kinds), lost \in BOOLEAN, outb(2, 199)
  PROVE  /\ uart' \in UartStates(Kinds) /\ uart'.fifoOn /\ lost' = lost
         /\ uart'.fifo = <<>>
         /\ uart'.lcr = uart.lcr /\ uart'.dll = uart.dll /\ uart'.dlm = uart.dlm
<1> DEFINE Bytes == 0 .. 255
           Fifos == Seq([char : STRING, by : Kinds])
           Uarts == [ier : Bytes, lcr : Bytes, dll : Bytes, dlm : Bytes, mcr : Bytes,
                     fifoOn : BOOLEAN, fifo : Fifos]
<1>1. /\ uart' = [uart EXCEPT !.fifoOn = FifoOn(199),
                              !.fifo = IF ClearsFifo(199) THEN <<>> ELSE @]
      /\ lost' = lost
  BY DEF outb
<1>2. FifoOn(199) = TRUE /\ ClearsFifo(199) = TRUE
  BY PortValues DEF FifoOn, ClearsFifo
<1> DEFINE new == <<>>
<1>3. uart' = [uart EXCEPT !.fifoOn = TRUE, !.fifo = new]
  BY <1>1, <1>2
<1>4. UartStates(Kinds) = Uarts /\ uart \in Uarts /\ new \in Fifos
  BY EmptySeq DEF UartStates
<1> HIDE DEF Bytes, Fifos, new
<1>5. /\ uart' \in UartStates(Kinds) /\ uart'.fifoOn /\ uart'.fifo = new
      /\ uart'.lcr = uart.lcr /\ uart'.dll = uart.dll /\ uart'.dlm = uart.dlm
  BY <1>3, <1>4
<1> QED
  BY <1>1, <1>5 DEF new

(* Each write of initSerial adds to what the ones before it have set up.   *)
LEMMA PortWritten ==
  ASSUME TypeOK, NEW n \in 0 .. 6, PortsWritten(n),
         outb(PortWrites(12)[n + 1][1], PortWrites(12)[n + 1][2])
  PROVE  /\ PortsWritten(n + 1)' /\ uart' \in UartStates(Kinds) /\ lost' = lost
         /\ uart'.fifo = uart.fifo \/ uart'.fifo = <<>>
         /\ n = 6 => uart'.fifo = <<>>
<1>1. uart \in UartStates(Kinds) /\ lost \in BOOLEAN
  BY DEF TypeOK
<1>2. /\ 0 \in 0 .. 255 /\ 3 \in 0 .. 255 /\ 11 \in 0 .. 255 /\ 12 \in 0 .. 255
      /\ 128 \in 0 .. 255 /\ 199 \in 0 .. 255
  OBVIOUS
<1>3. CASE n = 0
  <2>1. outb(1, 0)
    BY <1>3, PortValues
  <2>2. uart' \in UartStates(Kinds) /\ uart'.fifo = uart.fifo /\ lost' = lost
    BY <1>1, <1>2, <2>1, Registers
  <2> QED
    BY <1>3, <2>2 DEF PortsWritten
<1>4. CASE n = 1
  <2>1. outb(3, 128)
    BY <1>4, PortValues
  <2>2. 128 \in 0 .. 255
    OBVIOUS
  <2>3. /\ uart' \in UartStates(Kinds) /\ uart'.fifo = uart.fifo /\ lost' = lost
        /\ uart'.lcr = 128
    BY <1>1, <2>1, <2>2, Registers
  <2> QED
    BY <1>4, <2>3 DEF PortsWritten
<1>5. CASE n = 2
  <2>1. outb(0, 12) /\ uart.lcr = 128
    BY <1>5, PortValues DEF PortsWritten
  <2>2. uart.lcr >= 128
    BY <2>1
  <2>3. /\ uart' \in UartStates(Kinds) /\ uart'.fifo = uart.fifo /\ lost' = lost
        /\ uart'.lcr = uart.lcr /\ uart'.dll = 12
    BY <1>1, <1>2, <2>1, <2>2, Registers
  <2> QED
    BY <1>5, <2>1, <2>3 DEF PortsWritten
<1>6. CASE n = 3
  <2>1. outb(1, 0) /\ uart.lcr = 128 /\ uart.dll = 12
    BY <1>6, PortValues DEF PortsWritten
  <2>2. uart.lcr >= 128
    BY <2>1
  <2>3. /\ uart' \in UartStates(Kinds) /\ uart'.fifo = uart.fifo /\ lost' = lost
        /\ uart'.lcr = uart.lcr /\ uart'.dll = uart.dll /\ uart'.dlm = 0
    <3>1. outb(1, 0) /\ 0 \in 0 .. 255
      BY <1>2, <2>1
    <3> QED
      BY <1>1, <2>2, <3>1, Registers
  <2> QED
    BY <1>6, <2>1, <2>3 DEF PortsWritten
<1>7. CASE n = 4
  <2>1. outb(3, 3) /\ uart.dll = 12 /\ uart.dlm = 0
    BY <1>7, PortValues DEF PortsWritten
  <2>2. /\ uart' \in UartStates(Kinds) /\ uart'.fifo = uart.fifo /\ lost' = lost
        /\ uart'.lcr = 3 /\ uart'.dll = uart.dll /\ uart'.dlm = uart.dlm
    BY <1>1, <1>2, <2>1, Registers
  <2> QED
    BY <1>7, <2>1, <2>2 DEF PortsWritten
<1>8. CASE n = 5
  <2>1. outb(2, 199) /\ uart.lcr = 3 /\ uart.dll = 12 /\ uart.dlm = 0
    BY <1>8, PortValues DEF PortsWritten
  <2>2. /\ uart' \in UartStates(Kinds) /\ uart'.fifoOn /\ lost' = lost /\ uart'.fifo = <<>>
        /\ uart'.lcr = uart.lcr /\ uart'.dll = uart.dll /\ uart'.dlm = uart.dlm
    BY <1>1, <2>1, FifoTurnedOn
  <2> QED
    BY <1>8, <2>1, <2>2 DEF PortsWritten
<1>9. CASE n = 6
  <2>1. /\ outb(4, 11) /\ uart.lcr = 3 /\ uart.dll = 12 /\ uart.dlm = 0
        /\ uart.fifoOn /\ uart.fifo = <<>>
    BY <1>9, PortValues DEF PortsWritten
  <2>2. /\ uart' \in UartStates(Kinds) /\ uart'.fifo = uart.fifo /\ lost' = lost
        /\ uart'.lcr = uart.lcr /\ uart'.dll = uart.dll /\ uart'.dlm = uart.dlm
        /\ uart'.fifoOn = uart.fifoOn
    BY <1>1, <1>2, <2>1, Registers
  <2>3. uart'.fifoOn
    BY <2>1, <2>2
  <2> QED
    BY <1>9, <2>1, <2>2, <2>3 DEF PortsWritten
<1> QED
  BY <1>3, <1>4, <1>5, <1>6, <1>7, <1>8, <1>9

(* After the last one the line is up and nothing has been written to it.   *)
LEMMA WritePortKeeps ==
  ASSUME IInv, WritePort, UNCHANGED <<kmainVars, irqs, at>> PROVE IInv'
<1>1. /\ TypeOK /\ SetUpInv /\ CallsInv /\ ~lost /\ ProgressInv /\ calls \in Seq(Calls)
  BY DEF IInv, FifoInv, TypeOK
<1>2. SettingUp
  <2>1. LineUp => Top.fn # "initSerial"
    BY <1>1, Shapes, OneCall, TwoCalls, CallTypes DEF WritePort
  <2> QED
    BY <1>1, <2>1 DEF WritePort, LineUp, SetUpInv
<1>3. ~LineUp /\ next = "Hi" /\ supported /\ ~loaded /\ line = <<>>
      /\ \A k \in 1 .. Len(uart.fifo) : uart.fifo[k].by = "loader"
  BY <1>1, <1>2 DEF LineUp, SetUpInv, ProgressInv
<1>4. PICK n \in 0 .. 6 :
        calls = <<[initSerial(12) EXCEPT !.i = n + 1]>> /\ PortsWritten(n)
  BY <1>1, <1>2, PortValues DEF SetUpInv
<1> DEFINE c == [initSerial(12) EXCEPT !.i = n + 1]
<1>5. c.divisor = 12 /\ c.i = n + 1 /\ c.fn = "initSerial"
  BY DEF initSerial
<1>6. Top = c /\ Rest = <<>>
  BY <1>4, OneCall
<1>7. /\ outb(PortWrites(12)[n + 1][1], PortWrites(12)[n + 1][2])
      /\ calls' = IF n + 1 = Len(PortWrites(12)) THEN Rest
                  ELSE Append(Rest, [c EXCEPT !.i = @ + 1])
      /\ line' = line
  BY <1>5, <1>6 DEF WritePort
<1>8. Len(PortWrites(12)) = 7
  BY PortValues
<1>9. /\ PortsWritten(n + 1)' /\ uart' \in UartStates(Kinds) /\ lost' = lost
      /\ uart'.fifo = uart.fifo \/ uart'.fifo = <<>>
      /\ n = 6 => uart'.fifo = <<>>
  BY <1>1, <1>4, <1>7, PortWritten
<1>10. /\ Len(uart'.fifo) <= 16
       /\ \A k \in 1 .. Len(uart'.fifo) : uart'.fifo[k].by = "loader"
  <2>1. CASE uart'.fifo = uart.fifo
    BY <1>1, <1>3, <2>1 DEF TypeOK
  <2>2. CASE uart'.fifo = <<>>
    <3>1. Len(uart'.fifo) = 0
      BY <2>2
    <3> QED
      BY <3>1
  <2> QED
    BY <1>9, <2>1, <2>2
<1>11. ProgressInv'
  BY <1>1 DEF ProgressInv, kmainVars
<1>12. ~lost' /\ ~Early'
  BY <1>1, <1>3, <1>9 DEF Early, kmainVars
<1>13. CASE n < 6
  <2> DEFINE d == [initSerial(BaudDivisor) EXCEPT !.i = (n + 1) + 1]
  <2>1. calls' = <<d>>
    <3>1. n + 1 # 7 /\ Append(<<>>, [c EXCEPT !.i = @ + 1]) = <<[c EXCEPT !.i = @ + 1]>>
      BY <1>13
    <3>2. [c EXCEPT !.i = @ + 1] = d
      BY PortValues DEF initSerial
    <3> HIDE DEF c, d
    <3> QED
      BY <1>6, <1>7, <1>8, <3>1, <3>2
  <2>2. d \in Calls /\ d.fn = "initSerial" /\ d.by = "kmain"
    BY <1>13 DEF Calls, initSerial
  <2>3. Len(calls') = 1 /\ calls'[1] = d /\ Top' = d /\ calls' # <<>> /\ calls' \in Seq(Calls)
    BY <2>1, <2>2, OneCallNext
  <2>4. SettingUp' /\ ~LineUp'
    BY <2>2, <2>3 DEF SettingUp, LineUp
  <2>5. TypeOK'
    <3>1. ~InHandler' /\ Len(calls') <= 2 /\ Len(calls') # 2
      BY <2>2, <2>3 DEF InHandler
    <3>2. lost' \in BOOLEAN /\ Len(uart'.fifo) <= 16 /\ uart' \in UartStates(Kinds)
      BY <1>1, <1>9, <1>10 DEF TypeOK
    <3> QED
      BY <1>1, <1>7, <2>3, <3>1, <3>2 DEF TypeOK, kmainVars
  <2>6. SetUpInv'
    <3>1. n + 1 \in 0 .. 6 /\ calls' = <<[initSerial(BaudDivisor) EXCEPT !.i = (n + 1) + 1]>>
      BY <1>13, <2>1
    <3>2. next' = "Hi" /\ ~loaded' /\ line' = <<>>
      BY <1>3, <1>7 DEF kmainVars
    <3> HIDE DEF d, c
    <3> QED
      BY <1>9, <1>10, <1>12, <2>4, <3>1, <3>2 DEF SetUpInv
  <2>7. (TypeOK /\ SetUpInv /\ ~LineUp /\ ~lost)'
    BY <1>12, <2>4, <2>5, <2>6
  <2>8. (CallsInv /\ FifoInv /\ LogInv)'
    BY <2>7, LineNotUp, PTL
  <2> QED
    BY <1>11, <2>5, <2>6, <2>8 DEF IInv
<1>14. CASE n = 6
  <2>1. calls' = <<>> /\ Len(calls') = 0 /\ calls' \in Seq(Calls)
    BY <1>6, <1>7, <1>8, <1>14
  <2>2. LineUp' /\ ~SettingUp' /\ ~KmainLogs' /\ ~InHandler'
    BY <1>12, <2>1 DEF LineUp, SettingUp, KmainLogs, InHandler
  <2>3. TypeOK'
    BY <1>1, <1>3, <1>7, <1>9, <1>10, <2>1, <2>2 DEF TypeOK, kmainVars
  <2>4. uart'.fifo = <<>> /\ Len(uart'.fifo) = 0 /\ line' = <<>> /\ Len(line') = 0
    <3>1. uart'.fifo = <<>> /\ line' = <<>>
      BY <1>3, <1>7, <1>9, <1>14
    <3> QED
      BY <3>1
  <2>5. PortsWritten(7)'
    BY <1>9, <1>14
  <2>6. SetUpInv' /\ CallsInv'
    BY <1>12, <2>1, <2>2, <2>5 DEF SetUpInv, CallsInv
  <2>7. FifoInv'
    BY <1>12, <2>2, <2>4 DEF FifoInv
  <2>8. Written' = 0 /\ ~Waiting'
    BY <1>3, <2>4 DEF Written, Waiting, kmainVars
  <2>9. LogInv'
    BY <2>4, <2>8 DEF LogInv, LineReady
  <2> QED
    BY <1>11, <2>3, <2>6, <2>7, <2>9 DEF IInv
<1> QED
  BY <1>13, <1>14

-----------------------------------------------------------------------------
(* The call on top is kmain's, or a handler's.                             *)
LEMMA LogShape ==
  ASSUME IInv, Logging
  PROVE  /\ LineUp /\ calls \in Seq(Calls)
         /\ \/ calls = <<Top>> /\ Rest = <<>> /\ IsKmainCall(Top) /\ Top.by = "kmain"
            \/ /\ loaded /\ IsHandlerCall(Top) /\ Top.by = "handler"
               /\ \/ calls = <<Top>> /\ Rest = <<>>
                  \/ /\ calls = <<calls[1], Top>> /\ Rest = <<calls[1]>>
                     /\ IsKmainCall(calls[1]) /\ calls[1].by = "kmain"
<1>1. /\ TypeOK /\ SetUpInv /\ CallsInv /\ calls \in Seq(Calls)
  BY DEF IInv, TypeOK
<1>2. LineUp
  <2>1. ~Early
    BY <1>1 DEF SetUpInv, Logging
  <2>2. SettingUp => Top.fn = "initSerial"
    <3>1. ASSUME SettingUp, NEW n \in 0 .. 6,
                 calls = <<[initSerial(BaudDivisor) EXCEPT !.i = n + 1]>>
          PROVE  Top.fn = "initSerial"
      BY <3>1, OneCall DEF initSerial
    <3> QED
      BY <1>1, <3>1 DEF SetUpInv
  <2> QED
    BY <2>1, <2>2 DEF LineUp, Logging
<1>3. \/ calls = <<calls[1]>> /\ IsKmainCall(calls[1])
      \/ loaded /\ calls = <<calls[1]>> /\ IsHandlerCall(calls[1])
      \/ /\ loaded /\ calls = <<calls[1], calls[2]>>
         /\ IsKmainCall(calls[1]) /\ IsHandlerCall(calls[2])
  BY <1>1, <1>2, Shapes DEF Logging
<1>4. CASE calls = <<calls[1]>> /\ IsKmainCall(calls[1])
  BY <1>1, <1>2, <1>4, OneCall, CallTypes
<1>5. CASE loaded /\ calls = <<calls[1]>> /\ IsHandlerCall(calls[1])
  BY <1>1, <1>2, <1>5, OneCall, CallTypes
<1>6. CASE /\ loaded /\ calls = <<calls[1], calls[2]>>
           /\ IsKmainCall(calls[1]) /\ IsHandlerCall(calls[2])
  BY <1>1, <1>2, <1>6, TwoCalls, CallTypes
<1> QED
  BY <1>3, <1>4, <1>5, <1>6

(* The call on top goes on ...                                             *)
LEMMA TopGoesOn ==
  ASSUME IInv, Logging, NEW d, calls' = Append(Rest, d), UNCHANGED kmainVars,
         IsKmainCall(Top) => IsKmainCall(d), IsHandlerCall(Top) => IsHandlerCall(d)
  PROVE  /\ LineUp /\ LineUp' /\ calls' \in Seq(Calls) /\ CallsInv'
         /\ Top' = d /\ calls' # <<>> /\ (InHandler' <=> InHandler)
         /\ Len(calls') <= 2 /\ (Len(calls') = 2 => d.by = "handler" /\ calls'[1].by = "kmain")
         /\ (KmainLogs' <=> KmainLogs) /\ calls # <<>>
         /\ \/ /\ IsKmainCall(Top) /\ ~InHandler /\ KmainLogs
               /\ calls[1] = Top /\ calls'[1] = d
            \/ /\ IsHandlerCall(Top) /\ InHandler /\ loaded
               /\ KmainLogs => calls'[1] = calls[1]
<1>1. LineUp /\ calls \in Seq(Calls)
  BY LogShape
<1>2. CASE calls = <<Top>> /\ Rest = <<>> /\ IsKmainCall(Top) /\ Top.by = "kmain"
  <2>1. d \in Calls /\ d.by = "kmain" /\ d.fn # "initSerial" /\ IsKmainCall(d)
    BY <1>2, CallTypes
  <2>2. calls' = <<d>>
    BY <1>2
  <2>3. Len(calls') = 1 /\ calls'[1] = d /\ Top' = d /\ calls' # <<>> /\ calls' \in Seq(Calls)
    BY <2>1, <2>2, OneCallNext
  <2>4. LineUp'
    BY <1>1, <2>1, <2>3 DEF LineUp, Early, SettingUp, kmainVars
  <2>5. CallsInv'
    BY <2>1, <2>3 DEF CallsInv, IsKmainCall, kmainVars
  <2>6. calls[1] = Top /\ calls # <<>> /\ KmainLogs /\ KmainLogs' /\ ~InHandler /\ ~InHandler'
    BY <1>1, <1>2, <2>1, <2>3, <2>4, OneCall DEF KmainLogs, InHandler
  <2> QED
    BY <1>1, <1>2, <2>3, <2>4, <2>5, <2>6
<1>3. CASE loaded /\ IsHandlerCall(Top) /\ Top.by = "handler" /\ calls = <<Top>> /\ Rest = <<>>
  <2>1. d \in Calls /\ d.by = "handler" /\ d.fn # "initSerial" /\ IsHandlerCall(d)
    BY <1>3, CallTypes
  <2>2. calls' = <<d>>
    BY <1>3
  <2>3. Len(calls') = 1 /\ calls'[1] = d /\ Top' = d /\ calls' # <<>> /\ calls' \in Seq(Calls)
    BY <2>1, <2>2, OneCallNext
  <2>4. LineUp'
    BY <1>1, <2>1, <2>3 DEF LineUp, Early, SettingUp, kmainVars
  <2>5. CallsInv'
    BY <1>3, <2>1, <2>3 DEF CallsInv, IsHandlerCall, kmainVars
  <2>6. calls[1] = Top /\ calls # <<>> /\ ~KmainLogs /\ ~KmainLogs' /\ InHandler /\ InHandler'
    BY <1>1, <1>3, <2>1, <2>3, <2>4, OneCall DEF KmainLogs, InHandler
  <2> QED
    BY <1>1, <1>3, <2>3, <2>4, <2>5, <2>6
<1>4. CASE /\ loaded /\ IsHandlerCall(Top) /\ Top.by = "handler"
           /\ calls = <<calls[1], Top>> /\ Rest = <<calls[1]>>
           /\ IsKmainCall(calls[1]) /\ calls[1].by = "kmain"
  <2>1. /\ d \in Calls /\ d.by = "handler" /\ d.fn # "initSerial" /\ IsHandlerCall(d)
        /\ calls[1] \in Calls /\ calls[1].fn # "initSerial"
    BY <1>4, CallTypes
  <2>2. calls' = <<calls[1], d>>
    BY <1>4, <2>1, Pushed, Zenon
  <2>3. /\ Len(calls') = 2 /\ calls'[1] = calls[1] /\ calls'[2] = d /\ Top' = d
        /\ calls' # <<>> /\ calls' \in Seq(Calls)
    BY <2>1, <2>2, TwoCallsNext
  <2>4. LineUp'
    BY <1>1, <2>1, <2>3 DEF LineUp, Early, SettingUp, kmainVars
  <2>5. CallsInv'
    <3>1. IsKmainCall(calls[1])'
      BY <1>4, <2>3 DEF IsKmainCall, kmainVars
    <3>2. IsHandlerCall(calls[2])'
      BY <2>1, <2>3 DEF IsHandlerCall
    <3> QED
      BY <1>4, <2>3, <3>1, <3>2 DEF CallsInv, kmainVars
  <2>6. calls # <<>> /\ KmainLogs /\ KmainLogs' /\ InHandler /\ InHandler'
    BY <1>1, <1>4, <2>1, <2>3, <2>4, TwoCalls DEF KmainLogs, InHandler
  <2> QED
    BY <1>1, <1>4, <2>1, <2>3, <2>4, <2>5, <2>6
<1> QED
  BY <1>2, <1>3, <1>4, LogShape

(* ... or returns.                                                         *)
LEMMA TopReturns ==
  ASSUME IInv, Logging, calls' = Rest, UNCHANGED kmainVars
  PROVE  /\ LineUp /\ LineUp' /\ calls' \in Seq(Calls) /\ CallsInv' /\ ~InHandler'
         /\ Len(calls') <= 1
         /\ \/ IsKmainCall(Top) /\ KmainLogs /\ ~KmainLogs' /\ calls[1] = Top
            \/ IsHandlerCall(Top) /\ (KmainLogs' <=> KmainLogs) /\ (KmainLogs => calls'[1] = calls[1])
<1>1. LineUp /\ calls \in Seq(Calls)
  BY LogShape
<1>2. CASE calls = <<Top>> /\ Rest = <<>>
  <2>1. calls' = <<>> /\ Len(calls') = 0 /\ calls' \in Seq(Calls)
    BY <1>2
  <2>2. LineUp' /\ CallsInv' /\ ~KmainLogs' /\ ~InHandler'
    BY <1>1, <2>1 DEF LineUp, Early, SettingUp, kmainVars, CallsInv, KmainLogs, InHandler
  <2>3. calls[1] = Top /\ calls # <<>>
    BY <1>2, OneCall
  <2> QED
    BY <1>1, <2>1, <2>2, <2>3, LogShape DEF KmainLogs, IsHandlerCall, LogCalls
<1>3. CASE /\ loaded /\ IsHandlerCall(Top)
           /\ calls = <<calls[1], Top>> /\ Rest = <<calls[1]>>
           /\ IsKmainCall(calls[1]) /\ calls[1].by = "kmain"
  <2>1. calls[1] \in Calls /\ calls[1].fn # "initSerial"
    BY <1>3, CallTypes
  <2>2. calls' = <<calls[1]>>
    BY <1>3
  <2>3. /\ Len(calls') = 1 /\ calls'[1] = calls[1] /\ Top' = calls[1] /\ calls' # <<>>
        /\ calls' \in Seq(Calls)
    BY <2>1, <2>2, OneCallNext
  <2>4. LineUp'
    BY <1>1, <2>1, <2>3 DEF LineUp, Early, SettingUp, kmainVars
  <2>5. CallsInv'
    BY <1>3, <2>3 DEF CallsInv, IsKmainCall, kmainVars
  <2>6. KmainLogs /\ KmainLogs' /\ ~InHandler'
    BY <1>1, <1>3, <2>3, <2>4, TwoCalls DEF KmainLogs, InHandler
  <2> QED
    BY <1>1, <1>3, <2>3, <2>4, <2>5, <2>6
<1> QED
  BY <1>2, <1>3, LogShape


(* What is known of a call in progress.                                    *)
LEMMA CallFacts ==
  ASSUME NEW c, IsKmainCall(c) \/ IsHandlerCall(c)
  PROVE  /\ c \in LogCalls({"serialLogz", "serialLogn"}, {"kmain", "handler"}, DOMAIN Text)
         /\ c.string \in DOMAIN Text /\ c.i \in Nat \ {0} /\ c.length \in Nat
         /\ c.pc \in {"next", "wait", "write"} /\ c.by \in {"kmain", "handler"}
         /\ Last(c) \in Nat /\ Last(c) <= Len(Text[c.string])
         /\ c.i <= IF c.pc = "next" THEN Last(c) + 1 ELSE Last(c)
         /\ IsKmainCall(c) =>
              /\ next # "Hi" /\ LastLog[next] \in Strings /\ c.string = LastLog[next]
              /\ Last(c) = Chars(c.string)
<1>1. /\ InText(c) /\ (IsKmainCall(c) => next # "Hi" /\ LastLog[next] \in Strings)
      /\ (IsKmainCall(c) => c \in LogCalls({"serialLogz"}, {"kmain"}, {LastLog[next]}))
      /\ (~IsKmainCall(c) =>
            c \in LogCalls({"serialLogz", "serialLogn"}, {"handler"}, {HandlerText, "dead"}))
  BY DEF IsKmainCall, IsHandlerCall, LastLog, Strings
<1>2. Strings \cup {"dead", HandlerText} \subseteq DOMAIN Text
  BY StringFacts
<1>3. /\ c \in LogCalls({"serialLogz", "serialLogn"}, {"kmain", "handler"}, DOMAIN Text)
      /\ IsKmainCall(c) => c.string = LastLog[next] /\ c.fn = "serialLogz"
  BY <1>1, <1>2 DEF LogCalls
<1>4. /\ c.string \in DOMAIN Text /\ c.i \in Nat \ {0} /\ c.length \in Nat
      /\ c.pc \in {"next", "wait", "write"} /\ c.by \in {"kmain", "handler"}
  BY <1>3 DEF LogCalls
<1>5. Chars(c.string) \in Nat
  BY <1>4, TextFacts
<1>6. Last(c) \in Nat /\ (IsKmainCall(c) => Last(c) = Chars(c.string))
  BY <1>3, <1>4, <1>5 DEF Last
<1> QED
  BY <1>1, <1>3, <1>4, <1>6 DEF InText

(* Where kmain is in its script while it logs.                             *)
LEMMA WrittenWithin ==
  ASSUME LineUp, KmainLogs, IsKmainCall(calls[1])
  PROVE  /\ Written = Before[calls[1].string] + (calls[1].i - 1)
         /\ Before[calls[1].string] \in Nat
<1>1. /\ next # "Hi" /\ LastLog[next] \in Strings /\ calls[1].string = LastLog[next]
  BY CallFacts
<1> QED
  BY <1>1, StringFacts DEF Written

(* The loop goes on when there is a character left.                        *)
LEMMA MoreIsLeft ==
  ASSUME IsKmainCall(Top) \/ IsHandlerCall(Top), Top.pc = "next" PROVE More <=> Top.i <= Last(Top)
<1>1. /\ Top.string \in DOMAIN Text /\ Top.i \in Nat \ {0} /\ Last(Top) \in Nat
      /\ Top.i <= Last(Top) + 1
  BY CallFacts
<1>2. CASE Top.fn = "serialLogz"
  <2>1. /\ Last(Top) = Chars(Top.string) /\ Len(Text[Top.string]) = Last(Top) + 1
        /\ \A k \in 1 .. Len(Text[Top.string]) : Text[Top.string][k] = NUL <=> k = Last(Top) + 1
    BY <1>1, <1>2, TextFacts DEF Last
  <2>2. Top.i \in 1 .. Len(Text[Top.string])
    BY <1>1, <2>1
  <2>3. More <=> Top.i # Last(Top) + 1
    BY <1>2, <2>1, <2>2 DEF More
  <2> QED
    BY <1>1, <2>3
<1>3. CASE Top.fn # "serialLogz"
  BY <1>3 DEF More, Last
<1> QED
  BY <1>2, <1>3

(* A step of a call that logs.                                             *)
LEMMA LogTypeOK ==
  ASSUME TypeOK, calls' \in Seq(Calls), Len(calls') <= 2,
         Len(calls') = 2 => Top'.by = "handler" /\ calls'[1].by = "kmain",
         InHandler' => InHandler, UNCHANGED <<kmainVars, irqs, line>>,
         uart' \in UartStates(Kinds), Len(uart'.fifo) <= 16, lost' \in BOOLEAN
  PROVE  TypeOK'
BY DEF TypeOK, kmainVars

LEMMA LineStaysUp ==
  ASSUME LineUp', PortsWritten(7)' PROVE SetUpInv'
BY DEF SetUpInv, LineUp

(* What its step must keep when it goes on ...                             *)
LEMMA CallGoesOn ==
  ASSUME IInv, Logging, NEW d, calls' = Append(Rest, d), UNCHANGED <<kmainVars, irqs, at, line>>,
         IsKmainCall(Top) => IsKmainCall(d), IsHandlerCall(Top) => IsHandlerCall(d),
         uart' \in UartStates(Kinds), Len(uart'.fifo) <= 16, lost' \in BOOLEAN,
         PortsWritten(7)', FifoInv', LogInv'
  PROVE  IInv'
<1>1. /\ TypeOK /\ ProgressInv
  BY DEF IInv
<1>2. /\ LineUp' /\ calls' \in Seq(Calls) /\ CallsInv' /\ Top' = d /\ (InHandler' <=> InHandler)
      /\ Len(calls') <= 2 /\ (Len(calls') = 2 => d.by = "handler" /\ calls'[1].by = "kmain")
  BY TopGoesOn
<1>3. TypeOK'
  BY <1>1, <1>2, LogTypeOK
<1>4. SetUpInv'
  BY <1>2, LineStaysUp
<1>5. ProgressInv'
  BY <1>1 DEF ProgressInv, kmainVars
<1> QED
  BY <1>2, <1>3, <1>4, <1>5 DEF IInv

(* ... and when it returns.                                                *)
LEMMA CallReturns ==
  ASSUME IInv, Logging, calls' = Rest, UNCHANGED <<kmainVars, irqs, at, line, uart, lost>>,
         FifoInv', LogInv'
  PROVE  IInv'
<1>1. /\ TypeOK /\ ProgressInv /\ SetUpInv
  BY DEF IInv
<1>2. /\ LineUp /\ LineUp' /\ calls' \in Seq(Calls) /\ CallsInv' /\ ~InHandler' /\ Len(calls') <= 1
  BY TopReturns
<1>3. TypeOK'
  <2>1. Len(calls') \in Nat /\ Len(calls') <= 1
    BY <1>2, LenProperties
  <2>2. Len(calls') <= 2 /\ Len(calls') # 2
    BY <2>1
  <2> QED
    BY <1>1, <1>2, <2>2, LogTypeOK DEF TypeOK
<1>4. SetUpInv'
  <2>1. PortsWritten(7)'
    BY <1>1, <1>2 DEF SetUpInv, PortsWritten
  <2> QED
    BY <1>2, <2>1, LineStaysUp
<1>5. ProgressInv'
  BY <1>1 DEF ProgressInv, kmainVars
<1> QED
  BY <1>2, <1>3, <1>4, <1>5 DEF IInv

(* A step of the loop, without the UART: from one pc to another.           *)
LEMMA LoopsOn ==
  ASSUME NEW c, NEW p \in {"next", "wait", "write"}, IsKmainCall(c) \/ IsHandlerCall(c),
         c.i <= Last(c)
  PROVE  LET d == [c EXCEPT !.pc = p]
         IN /\ d.i = c.i /\ d.pc = p /\ d.string = c.string
            /\ IsKmainCall(c) => IsKmainCall(d)
            /\ IsHandlerCall(c) => IsHandlerCall(d)
<1> DEFINE d == [c EXCEPT !.pc = p]
<1>1. /\ c \in LogCalls({"serialLogz", "serialLogn"}, {"kmain", "handler"}, DOMAIN Text)
      /\ Last(c) \in Nat /\ Last(c) <= Len(Text[c.string]) /\ c.i \in Nat \ {0}
  BY CallFacts
<1>2. /\ d.i = c.i /\ d.pc = p /\ d.string = c.string /\ d.fn = c.fn /\ d.length = c.length
  BY <1>1 DEF LogCalls
<1>3. InText(d)
  <2>1. Last(d) = Last(c)
    BY <1>2 DEF Last
  <2> QED
    BY <1>1, <1>2, <2>1 DEF InText
<1>4. IsKmainCall(c) => IsKmainCall(d)
  <2>1. IsKmainCall(c) => d \in LogCalls({"serialLogz"}, {"kmain"}, {LastLog[next]})
    BY DEF IsKmainCall, LogCalls
  <2> QED
    BY <1>3, <2>1 DEF IsKmainCall
<1>5. IsHandlerCall(c) => IsHandlerCall(d)
  <2>1. IsHandlerCall(c) =>
          d \in LogCalls({"serialLogz", "serialLogn"}, {"handler"}, {HandlerText, "dead"})
    BY DEF IsHandlerCall, LogCalls
  <2> QED
    BY <1>3, <2>1 DEF IsHandlerCall
<1> QED
  BY <1>2, <1>4, <1>5

(* It leaves kmain where it was in its script.                             *)
LEMMA LoopsOnInPlace ==
  ASSUME IInv, Logging, NEW p \in {"wait", "write"}, Top.i <= Last(Top),
         calls' = Append(Rest, [Top EXCEPT !.pc = p]),
         UNCHANGED <<uart, line, lost, kmainVars, irqs, at>>, p = "write" => uart.fifo = <<>>
  PROVE  IInv'
<1>1. /\ TypeOK /\ SetUpInv /\ FifoInv /\ LogInv
  BY DEF IInv
<1>2. /\ LineUp /\ (IsKmainCall(Top) \/ IsHandlerCall(Top))
  BY LogShape
<1> DEFINE d == [Top EXCEPT !.pc = p]
<1>3. /\ d.i = Top.i /\ d.pc = p
      /\ IsKmainCall(Top) => IsKmainCall(d)
      /\ IsHandlerCall(Top) => IsHandlerCall(d)
  BY <1>2, LoopsOn
<1>4. calls' = Append(Rest, d)
  OBVIOUS
<1> HIDE DEF d
<1>5. /\ LineUp' /\ Top' = d /\ (KmainLogs' <=> KmainLogs)
      /\ \/ /\ IsKmainCall(Top) /\ ~InHandler /\ KmainLogs
            /\ calls[1] = Top /\ calls'[1] = d
         \/ /\ IsHandlerCall(Top) /\ InHandler /\ loaded
            /\ KmainLogs => calls'[1] = calls[1]
  BY <1>3, <1>4, TopGoesOn
<1>6. Written' = Written
  <2>1. KmainLogs => calls'[1].i = calls[1].i
    BY <1>3, <1>5
  <2> QED
    BY <1>2, <1>5, <2>1 DEF Written, kmainVars
<1>7. KmainWrites' => Len(uart.fifo) <= 1 /\ ~Waiting
  <2>1. CASE uart.fifo = <<>>
    <3>1. Len(uart.fifo) = 0
      BY <2>1
    <3> QED
      BY <2>1, <3>1 DEF Waiting
  <2>2. CASE p = "wait"
    <3>1. KmainWrites' => KmainWrites
      BY <1>3, <1>5, <2>2 DEF KmainWrites
    <3> QED
      BY <1>1, <1>2, <3>1 DEF FifoInv, KmainWrites
  <2> QED
    BY <2>1, <2>2
<1>8. HandlerWrites' => uart.fifo = <<>>
  BY <1>3, <1>5 DEF HandlerWrites
<1>9. FifoInv' /\ LogInv'
  BY <1>1, <1>2, <1>6, <1>7, <1>8, QuietKeeps
<1>10. /\ uart' \in UartStates(Kinds) /\ Len(uart'.fifo) <= 16 /\ lost' \in BOOLEAN
       /\ PortsWritten(7)'
  BY <1>1, <1>2 DEF TypeOK, SetUpInv, PortsWritten
<1> QED
  BY <1>3, <1>4, <1>9, <1>10, CallGoesOn

(* At the end of a string all of it has been written.                      *)
LEMMA NextCharKeeps ==
  ASSUME IInv, NextChar, UNCHANGED <<kmainVars, irqs, at>> PROVE IInv'
<1>1. /\ FifoInv /\ LogInv /\ Logging /\ Top.pc = "next" /\ UNCHANGED <<uart, line, lost>>
  BY DEF IInv, NextChar
<1>2. /\ LineUp /\ (IsKmainCall(Top) \/ IsHandlerCall(Top))
  BY <1>1, LogShape
<1>3. More <=> Top.i <= Last(Top)
  BY <1>1, <1>2, MoreIsLeft
<1>4. CASE More
  <2>1. calls' = Append(Rest, [Top EXCEPT !.pc = "wait"])
    BY <1>4 DEF NextChar
  <2> QED
    BY <1>1, <1>3, <1>4, <2>1, LoopsOnInPlace
<1>5. CASE ~More
  <2>1. calls' = Rest
    BY <1>5 DEF NextChar
  <2>2. /\ LineUp' /\ ~InHandler'
        /\ \/ IsKmainCall(Top) /\ KmainLogs /\ ~KmainLogs' /\ calls[1] = Top
           \/ /\ IsHandlerCall(Top) /\ (KmainLogs' <=> KmainLogs)
              /\ KmainLogs => calls'[1] = calls[1]
    BY <1>1, <2>1, TopReturns
  <2>3. Written' = Written
    <3>1. CASE IsKmainCall(Top) /\ KmainLogs /\ ~KmainLogs' /\ calls[1] = Top
      <4>1. /\ Written = Before[Top.string] + (Top.i - 1) /\ Before[Top.string] \in Nat
        BY <1>2, <3>1, WrittenWithin
      <4>2. /\ next # "Hi" /\ Top.string = LastLog[next] /\ Last(Top) = Chars(Top.string)
            /\ Top.i \in Nat /\ Last(Top) \in Nat /\ Top.i <= Last(Top) + 1
        BY <1>1, <3>1, CallFacts
      <4>3. Top.i - 1 = Chars(Top.string)
        BY <1>3, <1>5, <4>2
      <4>4. Written' = Before[Top.string] + Chars(Top.string)
        BY <2>2, <3>1, <4>2 DEF Written, kmainVars
      <4> QED
        BY <4>1, <4>3, <4>4
    <3>2. CASE /\ IsHandlerCall(Top) /\ (KmainLogs' <=> KmainLogs)
               /\ KmainLogs => calls'[1] = calls[1]
      BY <1>2, <2>2, <3>2 DEF Written, kmainVars
    <3> QED
      BY <2>2, <3>1, <3>2
  <2>4. KmainWrites' => Len(uart.fifo) <= 1 /\ ~Waiting
    BY <1>1, <1>2, <2>2 DEF KmainWrites, FifoInv
  <2>5. ~HandlerWrites'
    BY <2>2 DEF HandlerWrites
  <2>6. FifoInv' /\ LogInv'
    BY <1>1, <1>2, <2>3, <2>4, <2>5, QuietKeeps
  <2> QED
    BY <1>1, <2>1, <2>6, CallReturns
<1> QED
  BY <1>4, <1>5

LEMMA PollEmptyKeeps ==
  ASSUME IInv, PollEmpty, UNCHANGED <<kmainVars, irqs, at>> PROVE IInv'
<1>1. /\ Logging /\ Top.pc = "wait" /\ uart.fifo = <<>> /\ UNCHANGED <<uart, line, lost>>
      /\ calls' = Append(Rest, [Top EXCEPT !.pc = "write"])
  BY DEF PollEmpty, THRE
<1>2. IsKmainCall(Top) \/ IsHandlerCall(Top)
  BY <1>1, LogShape
<1>3. Top.i <= Last(Top)
  BY <1>1, <1>2, CallFacts
<1> QED
  BY <1>1, <1>3, LoopsOnInPlace

(* A character goes into the FIFO, which is on and not full.               *)
LEMMA CharWritten ==
  ASSUME uart \in UartStates(Kinds), lost = FALSE, PortsWritten(7), Len(uart.fifo) <= 2,
         NEW ch \in [char : STRING, by : Kinds], outb(0, ch)
  PROVE  /\ uart' \in UartStates(Kinds) /\ lost' = FALSE
         /\ uart'.fifo = Append(uart.fifo, ch) /\ PortsWritten(7)'
<1>1. /\ uart.lcr = 3 /\ uart.dll = 12 /\ uart.dlm = 0 /\ uart.fifoOn
  BY DEF PortsWritten
<1>2. /\ ~(uart.lcr >= 128) /\ Len(uart.fifo) < 16
      /\ uart.fifo \in Seq([char : STRING, by : Kinds])
  BY <1>1, LenProperties DEF UartStates
<1>3. Capacity = 16
  BY <1>1 DEF Capacity
<1>4. Len(uart.fifo) < Capacity /\ ~(Len(uart.fifo) >= Capacity)
  BY <1>2, <1>3, LenProperties
<1> DEFINE new == Append(uart.fifo, ch)
<1>5. uart' = [uart EXCEPT !.fifo = new] /\ lost' = FALSE
  <2>1. /\ uart' = IF Len(uart.fifo) < Capacity THEN [uart EXCEPT !.fifo = new] ELSE uart
        /\ lost' = (lost \/ Len(uart.fifo) >= Capacity)
    BY <1>2 DEF outb
  <2>2. uart' = [uart EXCEPT !.fifo = new]
    BY <1>4, <2>1
  <2>3. lost' = FALSE
    BY <1>4, <2>1
  <2> QED
    BY <2>2, <2>3
<1> DEFINE Bytes == 0 .. 255
           Fifos == Seq([char : STRING, by : Kinds])
           Uarts == [ier : Bytes, lcr : Bytes, dll : Bytes, dlm : Bytes, mcr : Bytes,
                     fifoOn : BOOLEAN, fifo : Fifos]
<1>6. UartStates(Kinds) = Uarts /\ uart \in Uarts /\ new \in Fifos
  BY <1>2, AppendProperties DEF UartStates
<1> HIDE DEF new, Bytes, Fifos
<1>7. /\ uart' \in UartStates(Kinds) /\ uart'.fifo = new
      /\ uart'.lcr = uart.lcr /\ uart'.dll = uart.dll /\ uart'.dlm = uart.dlm
      /\ uart'.fifoOn = uart.fifoOn
  BY <1>5, <1>6
<1>8. uart'.lcr = 3 /\ uart'.dll = 12 /\ uart'.dlm = 0 /\ uart'.fifoOn
  BY <1>1, <1>7
<1> QED
  BY <1>5, <1>7, <1>8 DEF PortsWritten, new

(* kmain's character joins one of a handler's at most, and is the last.    *)
LEMMA WriteCharKeeps ==
  ASSUME IInv, WriteChar, UNCHANGED <<kmainVars, irqs, at>> PROVE IInv'
<1>1. /\ TypeOK /\ SetUpInv /\ FifoInv /\ LogInv /\ Logging /\ Top.pc = "write" /\ line' = line
      /\ outb(0, Char(Text[Top.string][Top.i], Top.by))
  BY DEF IInv, WriteChar
<1>2. /\ LineUp /\ (IsKmainCall(Top) \/ IsHandlerCall(Top)) /\ Top.by \in {"kmain", "handler"}
  BY <1>1, LogShape
<1> DEFINE d == [Top EXCEPT !.pc = "next", !.i = @ + 1]
           ch == Char(Text[Top.string][Top.i], Top.by)
<1>3. /\ Top \in LogCalls({"serialLogz", "serialLogn"}, {"kmain", "handler"}, DOMAIN Text)
      /\ Top.string \in DOMAIN Text /\ Top.i \in Nat \ {0} /\ Last(Top) \in Nat
      /\ Last(Top) <= Len(Text[Top.string]) /\ Top.i <= Last(Top)
      /\ IsKmainCall(Top) => /\ next # "Hi" /\ Top.string \in Strings
                             /\ Last(Top) = Chars(Top.string)
  BY <1>1, <1>2, CallFacts
<1>4. /\ d.i = Top.i + 1 /\ d.pc = "next" /\ d.string = Top.string
      /\ IsKmainCall(Top) => IsKmainCall(d)
      /\ IsHandlerCall(Top) => IsHandlerCall(d)
  <2> DEFINE m == Top.i + 1
  <2>0. m \in Nat \ {0} /\ d = [Top EXCEPT !.pc = "next", !.i = m]
    BY <1>3
  <2> HIDE DEF m, d
  <2>1. /\ d.i = m /\ d.pc = "next" /\ d.string = Top.string
        /\ d.fn = Top.fn /\ d.length = Top.length
    BY <1>3, <2>0 DEF LogCalls
  <2>2. InText(d)
    <3>1. Last(d) = Last(Top)
      BY <2>1 DEF Last
    <3> QED
      BY <1>3, <2>1, <3>1 DEF InText, m
  <2>3. IsKmainCall(Top) => IsKmainCall(d)
    <3>1. IsKmainCall(Top) => d \in LogCalls({"serialLogz"}, {"kmain"}, {LastLog[next]})
      BY <2>0 DEF IsKmainCall, LogCalls
    <3> QED
      BY <2>2, <3>1 DEF IsKmainCall
  <2>4. IsHandlerCall(Top) => IsHandlerCall(d)
    <3>1. IsHandlerCall(Top) =>
            d \in LogCalls({"serialLogz", "serialLogn"}, {"handler"}, {HandlerText, "dead"})
      BY <2>0 DEF IsHandlerCall, LogCalls
    <3> QED
      BY <2>2, <3>1 DEF IsHandlerCall
  <2> QED
    BY <2>1, <2>3, <2>4 DEF m
<1>5. /\ ch \in [char : STRING, by : Kinds] /\ ch.by = Top.by
      /\ ch.char = Text[Top.string][Top.i]
  <2>1. Text[Top.string][Top.i] \in STRING
    <3>1. Top.i \in 1 .. Len(Text[Top.string])
      BY <1>3, TextFacts
    <3> QED
      BY <1>3, <3>1, TextFacts
  <2> QED
    BY <1>2, <2>1 DEF Char, Kinds
<1>6. calls' = Append(Rest, d)
  BY DEF WriteChar
<1> HIDE DEF d, ch
<1>7. /\ uart \in UartStates(Kinds) /\ lost = FALSE /\ PortsWritten(7) /\ Len(uart.fifo) <= 2
      /\ uart.fifo \in Seq([char : STRING, by : Kinds]) /\ Len(uart.fifo) \in Nat
  BY <1>1, <1>2, LenProperties DEF TypeOK, FifoInv, SetUpInv, UartStates
<1>8. /\ uart' \in UartStates(Kinds) /\ lost' = FALSE
      /\ uart'.fifo = Append(uart.fifo, ch) /\ PortsWritten(7)'
  BY <1>1, <1>5, <1>7, CharWritten DEF ch
<1>9. /\ Len(uart'.fifo) = Len(uart.fifo) + 1 /\ uart'.fifo[Len(uart.fifo) + 1] = ch
      /\ uart'.fifo # <<>>
      /\ \A k \in 1 .. Len(uart.fifo) : uart'.fifo[k] = uart.fifo[k]
  <2>1. LET new == Append(uart.fifo, ch)
        IN /\ Len(new) = Len(uart.fifo) + 1 /\ new[Len(uart.fifo) + 1] = ch /\ new # <<>>
           /\ \A k \in 1 .. Len(uart.fifo) : new[k] = uart.fifo[k]
    BY <1>5, <1>7, AppendProperties
  <2>2. uart'.fifo = Append(uart.fifo, ch)
    BY <1>8
  <2> QED
    BY <2>1, <2>2, Zenon
<1>10. /\ LineUp' /\ Top' = d /\ (KmainLogs' <=> KmainLogs)
       /\ \/ /\ IsKmainCall(Top) /\ ~InHandler /\ KmainLogs
             /\ calls[1] = Top /\ calls'[1] = d
          \/ /\ IsHandlerCall(Top) /\ InHandler /\ loaded
             /\ KmainLogs => calls'[1] = calls[1]
  BY <1>1, <1>4, <1>6, TopGoesOn
<1>11. ~HandlerWrites'
  BY <1>4, <1>10 DEF HandlerWrites
<1>12. Waiting' <=> Top.by = "kmain"
  BY <1>5, <1>7, <1>9 DEF Waiting
<1>13. ASSUME IsKmainCall(Top), ~InHandler, KmainLogs, calls[1] = Top, calls'[1] = d
       PROVE  FifoInv' /\ LogInv'
  <2>1. Top.by = "kmain" /\ Waiting'
    BY <1>12, <1>13, CallTypes
  <2>2. Len(uart.fifo) <= 1 /\ ~Waiting
    BY <1>1, <1>2, <1>13 DEF FifoInv
  <2>3. ~KmainWrites'
    BY <1>4, <1>13 DEF KmainWrites
  <2>4. /\ Written = Before[Top.string] + (Top.i - 1) /\ Before[Top.string] \in Nat
        /\ Written' = Before[Top.string] + Top.i
    <3>1. Written = Before[Top.string] + (Top.i - 1) /\ Before[Top.string] \in Nat
      BY <1>2, <1>13, WrittenWithin
    <3>2. next # "Hi" /\ Top.string = LastLog[next]
      BY <1>13, CallFacts
    <3>3. Written' = Before[Top.string] + (d.i - 1)
      BY <1>10, <1>13, <3>2 DEF Written, kmainVars
    <3> QED
      BY <1>3, <1>4, <3>1, <3>3
  <2>5. \A k \in 1 .. Len(uart'.fifo) - 1 : uart'.fifo[k].by # "kmain"
    <3>1. ASSUME NEW k \in 1 .. Len(uart'.fifo) - 1 PROVE uart'.fifo[k].by # "kmain"
      <4>1. k \in 1 .. Len(uart.fifo) /\ k = Len(uart.fifo) /\ uart.fifo # <<>>
        BY <1>7, <1>9, <2>2, EmptySeq
      <4> QED
        BY <1>9, <2>2, <4>1 DEF Waiting
    <3> QED
      BY <3>1
  <2>6. FifoInv'
    BY <1>7, <1>8, <1>9, <1>11, <2>2, <2>3, <2>5 DEF FifoInv, KmainWrites, HandlerWrites
  <2>7. LogInv'
    <3>1. ch.char = Script[Written']
      <4>1. Top.i \in 1 .. Chars(Top.string) /\ Top.string \in Strings
        BY <1>3, <1>13, TextFacts
      <4> QED
        BY <1>5, <2>4, <4>1, ScriptFacts
    <3>2. uart'.fifo[Len(uart'.fifo)].char = Script[Written']
      BY <1>9, <3>1
    <3>3. Len(line') = Written' - 1
      BY <1>1, <1>3, <2>2, <2>4 DEF LogInv
    <3>4. LineReady' /\ \A k \in 1 .. Len(line') : line'[k].char = Script[k]
      BY <1>1 DEF LogInv, LineReady
    <3> QED
      BY <2>1, <3>2, <3>3, <3>4 DEF LogInv
  <2> QED
    BY <2>6, <2>7
<1>14. ASSUME IsHandlerCall(Top), InHandler, KmainLogs => calls'[1] = calls[1]
       PROVE  FifoInv' /\ LogInv'
  <2>1. ~Waiting'
    BY <1>12, <1>14, CallTypes
  <2>2. uart.fifo = <<>> /\ Len(uart.fifo) = 0
    <3>1. uart.fifo = <<>>
      BY <1>1, <1>2, <1>14 DEF FifoInv
    <3> QED
      BY <3>1
  <2>3. Len(uart'.fifo) = 1 /\ ~Waiting
    BY <1>9, <2>2 DEF Waiting
  <2>4. Written' = Written
    BY <1>2, <1>10, <1>14 DEF Written, kmainVars
  <2>5. FifoInv'
    BY <1>8, <1>11, <2>1, <2>3 DEF FifoInv, HandlerWrites
  <2>6. LogInv'
    BY <1>1, <2>1, <2>3, <2>4 DEF LogInv, LineReady
  <2> QED
    BY <2>5, <2>6
<1>15. FifoInv' /\ LogInv'
  BY <1>10, <1>13, <1>14
<1>16. Len(uart'.fifo) <= 16 /\ lost' \in BOOLEAN
  <2>1. \A n \in Nat : n <= 2 => n + 1 <= 16
    OBVIOUS
  <2>2. Len(uart'.fifo) <= 16
    BY <1>7, <1>9, <2>1
  <2> QED
    BY <1>8, <2>2
<1> QED
  BY <1>1, <1>4, <1>6, <1>8, <1>15, <1>16, CallGoesOn

(* kmain's place in its script is within it.                               *)
LEMMA WrittenIsNat ==
  ASSUME IInv, LineUp PROVE Written \in Nat /\ Written <= Len(Script)
<1>1. /\ TypeOK /\ CallsInv /\ SetUpInv /\ ProgressInv /\ calls \in Seq(Calls)
  BY DEF IInv, TypeOK
<1>2. /\ \A t \in Strings : Chars(t) \in Nat /\ Before[t] \in Nat
      /\ \A t \in Strings : Before[t] + Chars(t) <= Len(Script)
  <2>1. /\ Chars("Hi") \in Nat /\ Chars("Device") \in Nat /\ Chars("IDT") \in Nat
        /\ Chars("completed") \in Nat
    BY StringFacts DEF Strings
  <2>2. /\ Before["Hi"] = 0 /\ Before["Device"] = Chars("Hi")
        /\ Before["IDT"] = Chars("Hi") + Chars("Device")
        /\ Before["completed"] = Chars("Hi") + Chars("Device") + Chars("IDT")
    BY DEF Before
  <2>3. Len(Script) = Before["completed"] + Chars("completed")
    BY ScriptFacts
  <2>4. /\ Before["Hi"] + Chars("Hi") <= Len(Script)
        /\ Before["Device"] + Chars("Device") <= Len(Script)
        /\ Before["IDT"] + Chars("IDT") <= Len(Script)
        /\ Before["completed"] + Chars("completed") <= Len(Script)
    BY <2>1, <2>2, <2>3
  <2>5. \A t \in Strings : Before[t] + Chars(t) <= Len(Script)
    BY <2>4 DEF Strings
  <2> QED
    BY <2>5, StringFacts
<1>3. CASE next = "Hi"
  <2>1. Written = 0
    BY <1>3 DEF Written
  <2>2. Len(Script) \in Nat
    BY ScriptFacts, LenProperties
  <2> QED
    BY <2>1, <2>2
<1>4. CASE next # "Hi"
  <2>1. LastLog[next] \in Strings
    <3>1. next \in {"Device", "initIDT", "initPageTable", "initMemory", "completed", "hang"}
      BY <1>1, <1>4 DEF TypeOK, LineUp, Early
    <3> QED
      BY <3>1 DEF LastLog, Strings
  <2>2. CASE ~KmainLogs
    BY <1>2, <1>4, <2>1, <2>2 DEF Written
  <2>3. CASE KmainLogs
    <3>1. IsKmainCall(calls[1])
      BY <1>1, <2>3, CallTypes DEF CallsInv, KmainLogs
    <3>2. /\ calls[1].i \in Nat \ {0} /\ calls[1].string \in Strings
          /\ calls[1].i <= Chars(calls[1].string) + 1
      BY <1>2, <3>1, CallFacts
    <3>3. /\ Written = Before[calls[1].string] + (calls[1].i - 1)
          /\ Before[calls[1].string] \in Nat
      BY <2>3, <3>1, WrittenWithin
    <3>4. Len(Script) \in Nat
      BY ScriptFacts, LenProperties
    <3> DEFINE s == calls[1].string
               n == calls[1].i
    <3>5. /\ Chars(s) \in Nat /\ Before[s] + Chars(s) <= Len(Script) /\ Before[s] \in Nat
          /\ n \in Nat \ {0} /\ n <= Chars(s) + 1 /\ Written = Before[s] + (n - 1)
      BY <1>2, <3>2, <3>3
    <3> HIDE DEF s, n
    <3> QED
      BY <3>4, <3>5
  <2> QED
    BY <2>2, <2>3
<1> QED
  BY <1>3, <1>4

(* The UART sends.                                                         *)
LEMMA UartSendsKeeps ==
  ASSUME IInv, UartSends, UNCHANGED <<kmainVars, irqs, at>> PROVE IInv'
<1>1. /\ TypeOK /\ SetUpInv /\ CallsInv /\ FifoInv /\ LogInv /\ ProgressInv
      /\ uart.fifo # <<>> /\ calls' = calls /\ lost' = lost /\ ~lost
  BY DEF IInv, UartSends, FifoInv
<1>2. /\ uart \in UartStates(Kinds) /\ uart.fifo \in Seq([char : STRING, by : Kinds])
      /\ Len(uart.fifo) \in Nat \ {0}
  BY <1>1, LenProperties, EmptySeq DEF TypeOK, UartStates
<1> DEFINE rest == Tail(uart.fifo)
<1>3. /\ rest \in Seq([char : STRING, by : Kinds]) /\ Len(rest) = Len(uart.fifo) - 1
      /\ \A k \in 1 .. Len(rest) : rest[k] = uart.fifo[k + 1]
      /\ Head(uart.fifo) = uart.fifo[1] /\ uart.fifo[1] \in [char : STRING, by : Kinds]
  <2>1. uart.fifo # <<>> /\ 1 \in 1 .. Len(uart.fifo)
    BY <1>1, <1>2
  <2>2. Head(uart.fifo) = uart.fifo[1] /\ uart.fifo[1] \in [char : STRING, by : Kinds]
    <3>1. uart.fifo[1] \in [char : STRING, by : Kinds]
      BY <1>2, <2>1, ElementOfSeq
    <3>2. Head(uart.fifo) = uart.fifo[1]
      BY <1>2, <2>1
    <3> QED
      BY <3>1, <3>2
  <2>3. /\ rest \in Seq([char : STRING, by : Kinds]) /\ Len(rest) = Len(uart.fifo) - 1
        /\ \A k \in 1 .. Len(rest) : rest[k] = uart.fifo[k + 1]
    BY <1>2, <2>1, HeadTailProperties
  <2> QED
    BY <2>2, <2>3
<1>4. uart' = [uart EXCEPT !.fifo = rest]
  BY DEF UartSends
<1> HIDE DEF rest
<1>5. /\ uart' \in UartStates(Kinds) /\ uart'.fifo = rest /\ uart'.fifoOn = uart.fifoOn
      /\ uart'.lcr = uart.lcr /\ uart'.dll = uart.dll /\ uart'.dlm = uart.dlm
  <2> DEFINE Bytes == 0 .. 255
             Fifos == Seq([char : STRING, by : Kinds])
             Uarts == [ier : Bytes, lcr : Bytes, dll : Bytes, dlm : Bytes, mcr : Bytes,
                       fifoOn : BOOLEAN, fifo : Fifos]
  <2>1. UartStates(Kinds) = Uarts /\ uart \in Uarts /\ rest \in Fifos
    BY <1>2, <1>3 DEF UartStates
  <2> HIDE DEF Bytes, Fifos
  <2> QED
    BY <1>4, <2>1
<1> DEFINE sent == [char |-> uart.fifo[1].char, lcr |-> uart.lcr,
                    divisor |-> 256 * uart.dlm + uart.dll]
<1>6. line' = IF uart.fifo[1].by = "kmain" THEN Append(line, sent) ELSE line
  BY <1>3 DEF UartSends
<1>7. sent \in [char : STRING, divisor : Nat, lcr : 0 .. 255]
  <2>1. uart.dlm \in 0 .. 255 /\ uart.dll \in 0 .. 255 /\ uart.lcr \in 0 .. 255
    BY <1>2 DEF UartStates
  <2>2. \A a \in 0 .. 255, b \in 0 .. 255 : 256 * a + b \in Nat
    OBVIOUS
  <2>3. 256 * uart.dlm + uart.dll \in Nat /\ uart.fifo[1].char \in STRING
    BY <1>3, <2>1, <2>2
  <2> QED
    BY <2>1, <2>3
<1>8. sent.char = uart.fifo[1].char /\ sent.lcr = uart.lcr
      /\ sent.divisor = 256 * uart.dlm + uart.dll
  OBVIOUS
<1> HIDE DEF sent
<1>9. TypeOK'
  <2>1. line' \in Seq([char : STRING, divisor : Nat, lcr : 0 .. 255])
    BY <1>1, <1>6, <1>7, AppendProperties DEF TypeOK
  <2>2. Len(uart'.fifo) <= 16
    BY <1>1, <1>2, <1>3, <1>5 DEF TypeOK
  <2>3. Top' = Top /\ (InHandler' <=> InHandler)
    BY <1>1 DEF Top, InHandler
  <2> QED
    BY <1>1, <1>5, <2>1, <2>2, <2>3 DEF TypeOK, kmainVars
<1>10. /\ (LineUp' <=> LineUp) /\ (Early' <=> Early) /\ (SettingUp' <=> SettingUp)
       /\ (KmainLogs' <=> KmainLogs) /\ Written' = Written
       /\ (KmainWrites' <=> KmainWrites) /\ (HandlerWrites' <=> HandlerWrites)
  BY <1>1 DEF LineUp, Early, SettingUp, kmainVars, KmainLogs, Written, KmainWrites,
     HandlerWrites, InHandler, Top
<1>11. ProgressInv'
  BY <1>1 DEF ProgressInv, kmainVars
<1>12. CASE ~LineUp
  <2>1. \A k \in 1 .. Len(uart.fifo) : uart.fifo[k].by = "loader"
    BY <1>1, <1>12 DEF SetUpInv
  <2>2. uart.fifo[1].by = "loader" /\ line' = line
    BY <1>2, <1>6, <2>1
  <2>3. \A k \in 1 .. Len(uart'.fifo) : uart'.fifo[k].by = "loader"
    BY <1>2, <1>3, <1>5, <2>1
  <2>4. \A n \in 0 .. 6 : PortsWritten(n) => PortsWritten(n)'
    BY <1>1, <1>5 DEF PortsWritten
  <2>5. ~LineUp' /\ line' = <<>> /\ ~loaded'
    BY <1>1, <1>10, <1>12, <2>2 DEF SetUpInv, kmainVars
  <2>6. SetUpInv'
    BY <1>1, <1>10, <2>3, <2>4, <2>5 DEF SetUpInv, kmainVars
  <2>7. (TypeOK /\ SetUpInv /\ ~LineUp /\ ~lost)'
    BY <1>1, <1>9, <2>5, <2>6
  <2>8. (CallsInv /\ FifoInv /\ LogInv)'
    BY <2>7, LineNotUp, PTL
  <2> QED
    BY <1>9, <1>11, <2>6, <2>8 DEF IInv
<1>13. CASE LineUp
  <2>1. SetUpInv'
    <3>1. PortsWritten(7)'
      BY <1>1, <1>5, <1>13 DEF SetUpInv, PortsWritten
    <3> QED
      BY <1>10, <1>13, <3>1, LineStaysUp
  <2>2. CallsInv'
    BY <1>1, <1>10 DEF CallsInv, IsKmainCall, IsHandlerCall, kmainVars
  <2>3. /\ Len(uart.fifo) \in {1, 2} /\ (Len(uart.fifo) = 2 => uart.fifo[1].by # "kmain")
        /\ KmainWrites => Len(uart.fifo) <= 1 /\ ~Waiting
        /\ ~HandlerWrites
    <3>1. /\ Len(uart.fifo) <= 2 /\ (KmainWrites => Len(uart.fifo) <= 1 /\ ~Waiting)
          /\ (HandlerWrites => uart.fifo = <<>>)
          /\ \A k \in 1 .. Len(uart.fifo) - 1 : uart.fifo[k].by # "kmain"
      BY <1>1, <1>13 DEF FifoInv, KmainWrites, HandlerWrites
    <3>2. Len(uart.fifo) \in {1, 2} /\ (Len(uart.fifo) = 2 => 1 \in 1 .. Len(uart.fifo) - 1)
      <4>1. \A n \in Nat \ {0} : n <= 2 => n \in {1, 2} /\ (n = 2 => 1 \in 1 .. n - 1)
        OBVIOUS
      <4> QED
        BY <1>2, <3>1, <4>1
    <3> QED
      BY <1>1, <3>1, <3>2
  <2>4. CASE Len(uart.fifo) = 1
    <3>1. Len(uart'.fifo) = 0 /\ uart'.fifo = <<>>
      BY <1>3, <1>5, <2>4, EmptySeq
    <3>2. ~Waiting' /\ (Waiting <=> uart.fifo[1].by = "kmain")
      BY <1>1, <2>4, <3>1 DEF Waiting
    <3>3. FifoInv'
      BY <1>1, <1>10, <2>3, <3>1, <3>2 DEF FifoInv, KmainWrites, HandlerWrites
    <3>4. ASSUME uart.fifo[1].by = "kmain" PROVE LogInv'
      <4>1. /\ line \in Seq([char : STRING, divisor : Nat, lcr : 0 .. 255])
            /\ line' = Append(line, sent) /\ Len(line) \in Nat
            /\ Len(line) = Written - 1 /\ uart.fifo[1].char = Script[Written]
        BY <1>1, <1>6, <2>4, <3>2, <3>4, LenProperties DEF LogInv, TypeOK
      <4>2. /\ Len(line') = Len(line) + 1 /\ line'[Len(line) + 1] = sent
            /\ \A k \in 1 .. Len(line) : line'[k] = line[k]
        BY <1>7, <4>1, AppendProperties
      <4>3. sent.divisor = 12 /\ sent.lcr = 3
        <5>1. uart.lcr = 3 /\ uart.dll = 12 /\ uart.dlm = 0
          BY <1>1, <1>13 DEF SetUpInv, PortsWritten
        <5> QED
          BY <1>8, <5>1
      <4>4. Written \in Int => Len(line) + 1 = Written
        BY <4>1
      <4>5. Written \in Int
        BY <1>1, <1>13, WrittenIsNat
      <4>6. ASSUME NEW k \in 1 .. Len(line')
            PROVE  line'[k].divisor = 12 /\ line'[k].lcr = 3 /\ line'[k].char = Script[k]
        <5>1. CASE k \in 1 .. Len(line)
          BY <1>1, <4>2, <5>1 DEF LogInv, LineReady
        <5>2. CASE k = Len(line) + 1
          BY <1>8, <4>1, <4>2, <4>3, <4>4, <4>5, <5>2
        <5> QED
          BY <4>1, <4>2, <5>1, <5>2
      <4>7. Len(line') = Written'
        BY <1>10, <4>2, <4>4, <4>5
      <4> QED
        BY <3>2, <4>6, <4>7 DEF LogInv, LineReady
    <3>5. ASSUME uart.fifo[1].by # "kmain" PROVE LogInv'
      <4>1. line' = line /\ ~Waiting
        BY <1>6, <3>2, <3>5
      <4> QED
        BY <1>1, <1>10, <3>2, <4>1 DEF LogInv, LineReady
    <3>6. FifoInv' /\ LogInv'
      BY <3>3, <3>4, <3>5
    <3> QED
      BY <1>9, <1>11, <2>1, <2>2, <3>6 DEF IInv
  <2>5. CASE Len(uart.fifo) = 2
    <3>1. Len(uart'.fifo) = 1 /\ uart'.fifo[1] = uart.fifo[2] /\ uart'.fifo # <<>>
      <4>1. Len(rest) = 1
        BY <1>3, <2>5
      <4>2. 1 \in 1 .. Len(rest) /\ 1 + 1 = 2 /\ rest # <<>>
        BY <4>1
      <4>3. rest[1] = uart.fifo[1 + 1]
        BY <1>3, <4>2
      <4> QED
        BY <1>5, <4>1, <4>2, <4>3
    <3>2. (Waiting' <=> Waiting) /\ uart'.fifo[Len(uart'.fifo)] = uart.fifo[Len(uart.fifo)]
      BY <1>1, <2>5, <3>1 DEF Waiting
    <3>3. line' = line
      BY <1>6, <2>3, <2>5
    <3>4. FifoInv'
      BY <1>1, <1>10, <2>3, <2>5, <3>1, <3>2 DEF FifoInv, KmainWrites, HandlerWrites
    <3>5. LogInv'
      BY <1>1, <1>10, <3>2, <3>3 DEF LogInv, LineReady
    <3> QED
      BY <1>9, <1>11, <2>1, <2>2, <3>4, <3>5 DEF IInv
  <2> QED
    BY <2>3, <2>4, <2>5
<1> QED
  BY <1>12, <1>13

-----------------------------------------------------------------------------
(* Every step of the boot keeps the invariant.                             *)
LEMMA NextKeeps == IInv /\ [Next]_vars => IInv'
<1> SUFFICES ASSUME IInv, [Next]_vars PROVE IInv'
  OBVIOUS
<1>1. CASE kmain
  BY <1>1, CheckRevisionKeeps, ArchOnBeforeInitKeeps, LogHiKeeps, LogDeviceKeeps,
     InitIDTKeeps, InitPageTableKeeps, InitMemoryKeeps, MemoryReturnedKeeps,
     LogCompletedKeeps DEF kmain
<1>2. CASE PageFault
  BY <1>2, PageFaultKeeps
<1>3. CASE Driver
  <2>1. UNCHANGED <<kmainVars, irqs, at>> /\ SerialStep
    BY <1>3 DEF Driver, memoryVars
  <2> QED
    BY <2>1, WritePortKeeps, NextCharKeeps, PollEmptyKeeps, WriteCharKeeps DEF SerialStep
<1>4. CASE Irq
  BY <1>4, IrqKeeps
<1>5. CASE Device
  <2>1. UNCHANGED <<kmainVars, irqs, at>> /\ UartSends
    BY <1>5 DEF Device, memoryVars
  <2> QED
    BY <2>1, UartSendsKeeps
<1>6. CASE UNCHANGED vars
  <2>1. /\ UNCHANGED <<uart, calls, line, lost, supported, next, loaded, pageTable, irqs, at>>
    BY <1>6 DEF vars, serialVars, memoryVars, kmainVars
  <2>2. Top' = Top /\ (InHandler' <=> InHandler)
    BY <2>1 DEF Top, InHandler
  <2>3. /\ (LineUp' <=> LineUp) /\ (Early' <=> Early) /\ (SettingUp' <=> SettingUp)
        /\ (KmainLogs' <=> KmainLogs) /\ Written' = Written /\ (Waiting' <=> Waiting)
    BY <2>1 DEF LineUp, Early, SettingUp, KmainLogs, Written, Waiting
  <2>4. TypeOK'
    BY <2>1, <2>2 DEF IInv, TypeOK
  <2>5. SetUpInv'
    BY <2>1, <2>3 DEF IInv, SetUpInv, PortsWritten
  <2>6. CallsInv'
    BY <2>1, <2>3 DEF IInv, CallsInv, IsKmainCall, IsHandlerCall
  <2>7. FifoInv'
    BY <2>1, <2>2, <2>3 DEF IInv, FifoInv
  <2>8. LogInv'
    BY <2>1, <2>3 DEF IInv, LogInv, LineReady
  <2>9. ProgressInv'
    BY <2>1 DEF IInv, ProgressInv
  <2> QED
    BY <2>4, <2>5, <2>6, <2>7, <2>8, <2>9 DEF IInv
<1> QED
  BY <1>1, <1>2, <1>3, <1>4, <1>5, <1>6 DEF Next

(* The line is set up before anything can interrupt, whoever writes has    *)
(* seen the FIFO empty, and what kmain has sent is its script so far: the  *)
(* whole of the inductive invariant holds.                                 *)
THEOREM Invariance == Spec => []IInv
<1> QED
  BY InitHolds, NextKeeps, PTL DEF Spec

(* Every variable of the boot sequence keeps its type: one handler at most *)
(* runs on top of kmain, and only once there are gates.                    *)
THEOREM TypeCorrect == Spec => []TypeOK
<1>1. IInv => TypeOK
  BY DEF IInv
<1> QED
  BY <1>1, Invariance, PTL

(* serialLogChar never writes to a full transmitter.                       *)
THEOREM AlwaysNoOverrun == Spec => []NoOverrun
<1>1. IInv => NoOverrun
  BY DEF IInv, FifoInv, NoOverrun
<1> QED
  BY <1>1, Invariance, PTL

-----------------------------------------------------------------------------
(* A sequence that agrees with the start of another is a prefix of it.     *)
LEMMA Prefixes ==
  ASSUME NEW s \in Seq(STRING), NEW t \in Seq(STRING), Len(s) <= Len(t),
         \A k \in 1 .. Len(s) : s[k] = t[k]
  PROVE  IsPrefix(s, t)
<1>1. Len(s) \in Nat /\ Len(t) \in Nat
  BY LenProperties
<1> DEFINE u == SubSeq(t, 1, Len(s))
<1>2. /\ u \in Seq(STRING) /\ Len(u) = Len(s)
      /\ \A k \in 1 .. Len(s) : u[k] = t[k]
  BY <1>1, SubSeqProperties
<1> HIDE DEF u
<1>3. s = u
  BY <1>2, SeqEqual
<1> QED
  BY <1>3 DEF IsPrefix, u

(* The characters on the line, without its settings.                       *)
LEMMA SentFacts ==
  ASSUME TypeOK
  PROVE  /\ Sent \in Seq(STRING) /\ Len(Sent) = Len(line)
         /\ \A k \in 1 .. Len(line) : Sent[k] = line[k].char
<1>1. Len(line) \in Nat /\ \A k \in 1 .. Len(line) : line[k].char \in STRING
  <2>1. line \in Seq([char : STRING, divisor : Nat, lcr : 0 .. 255])
    BY DEF TypeOK
  <2>2. \A k \in 1 .. Len(line) : line[k] \in [char : STRING, divisor : Nat, lcr : 0 .. 255]
    BY <2>1, ElementOfSeq
  <2> QED
    BY <2>1, <2>2, LenProperties
<1> QED
  BY <1>1 DEF Sent

LEMMA LogIntact == IInv => KmainLogIntact
<1> SUFFICES ASSUME IInv PROVE KmainLogIntact
  OBVIOUS
<1>1. /\ TypeOK /\ LogInv /\ SetUpInv
  BY DEF IInv
<1>2. /\ Sent \in Seq(STRING) /\ Len(Sent) = Len(line) /\ Len(line) \in Nat
      /\ \A k \in 1 .. Len(line) : Sent[k] = line[k].char
  BY <1>1, SentFacts, LenProperties
<1>3. Script \in Seq(STRING) /\ Len(Script) \in Nat
  BY ScriptFacts, LenProperties
<1>4. Written \in Nat /\ Written <= Len(Script)
  <2>1. CASE LineUp
    BY <2>1, WrittenIsNat
  <2>2. CASE ~LineUp
    BY <1>3, <2>2 DEF Written
  <2> QED
    BY <2>1, <2>2
<1>5. Len(Sent) <= Len(Script) /\ \A k \in 1 .. Len(Sent) : Sent[k] = Script[k]
  BY <1>1, <1>2, <1>3, <1>4 DEF LogInv
<1>6. IsPrefix(Sent, Script)
  BY <1>2, <1>3, <1>5, Prefixes
<1>7. Halted /\ supported /\ THRE => Sent = Script
  <2> SUFFICES ASSUME Halted, supported, THRE PROVE Sent = Script
    OBVIOUS
  <2>1. LineUp /\ ~KmainLogs /\ ~Waiting /\ next = "hang"
    BY DEF Halted, LineUp, Early, SettingUp, KmainLogs, Waiting, THRE
  <2>2. Written = Before["completed"] + Chars("completed")
    BY <2>1 DEF Written, LastLog
  <2>3. Len(Sent) = Len(Script)
    BY <1>1, <1>2, <2>1, <2>2, ScriptFacts DEF LogInv
  <2> QED
    BY <1>2, <1>3, <1>5, <2>3, SeqEqual
<1> QED
  BY <1>1, <1>6, <1>7 DEF KmainLogIntact, LogInv

(* What kmain logs is sent whole and in order, at 9600 baud 8N1, whatever  *)
(* handlers log in between and however slowly the UART sends.              *)
THEOREM AlwaysLogIntact == Spec => []KmainLogIntact
<1> QED
  BY LogIntact, Invariance, PTL

LEMMA StatusIsHonest == Discovery!StatusHonest <=> Memory!StatusHonest
BY DEF Discovery!StatusHonest, Memory!StatusHonest, Discovery!Entry0, Memory!Entry0

(* What kmain knows without looking at STATUS_FLAGS.                       *)
LEMMA Completed == IInv /\ Memory!StatusHonest => CompletedIsTrue
<1> SUFFICES ASSUME IInv, Memory!StatusHonest, next = "hang", supported
    PROVE  /\ loaded /\ pageTable = "CR3" /\ at = "returned"
           /\ Memory!StatusHonest /\ Cardinality(STATUS_FLAGS) = 1
  BY DEF CompletedIsTrue
<1>1. loaded /\ pageTable = "CR3" /\ at = "returned"
  BY DEF IInv, ProgressInv
<1>2. \E f : STATUS_FLAGS = {f}
  BY <1>1 DEF Memory!StatusHonest
<1>3. Cardinality(STATUS_FLAGS) = 1
  BY <1>2, FS_Singleton
<1> QED
  BY <1>1, <1>3

(* "Initial setup completed" is true when kmain logs it: the verdict on    *)
(* memory is the one InitMemory_proofs proves of initMemory alone, and no  *)
(* interrupt in between changes it.                                        *)
THEOREM AlwaysCompletedIsTrue == Spec => []CompletedIsTrue
<1>1. Discovery!InitMemoryConstants
  BY BootConstants DEF Discovery!InitMemoryConstants
<1>2. Discovery!Spec => []Discovery!StatusHonest
  BY <1>1, Discovery!AlwaysStatusHonest
<1>3. Spec => []Discovery!StatusHonest
  BY <1>2, BootDiscovers, PTL
<1> QED
  BY <1>3, StatusIsHonest, Completed, Invariance, PTL
==============================================================================

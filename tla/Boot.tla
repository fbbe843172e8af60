-------------------------------- MODULE Boot --------------------------------
(***************************************************************************)
(* The boot sequence: kmain of kernel/boot_protocol/limine/kernel.c with   *)
(* the serial driver (module Serial) and initMemory on its heap (modules   *)
(* InitMemory and Kmem) running in it step by step, the page fault handler *)
(* and device interrupts on top of it.  initIDT and initPageTable are one  *)
(* step each here; modules Interrupts and Paging take them apart.          *)
(***************************************************************************)
EXTENDS Serial, FiniteSets

CONSTANTS
  Word, Align, Hdr, HeapBase, Entry, Maps,  \* see InitMemory
  LineStates,   \* the states the boot loader may leave the UART in
  HandlerText,  \* what a registered interrupt handler logs
  MaxIrqs       \* the bound on device interrupts

Kinds == {"kmain", "handler", "loader"}
UartStates(who) ==
  [ier : 0 .. 255, lcr : 0 .. 255, dll : 0 .. 255, dlm : 0 .. 255, mcr : 0 .. 255,
   fifoOn : BOOLEAN, fifo : Seq([char : STRING, by : who])]

(* What InitMemory assumes; the strings there are; the UART may have       *)
(* characters of the boot loader's to send.                                *)
ASSUME BootConstants ==
  /\ Word \in Nat \ {0} /\ Align \in 1 .. Word - 1 /\ Hdr \in 1 .. Word - 1
  /\ HeapBase \in 1 .. Word - 1 /\ Entry \in Nat \ {0}
  /\ \A m \in Maps :
       /\ m \in Seq([base : Nat, length : 1 .. Word - 1, type : STRING])
       /\ \A k \in 1 .. Len(m) : m[k].base = k
       /\ HeapBase + Hdr + Entry * Len(m) + Align + Hdr <= Word
  /\ {"Hi", "Device", "IDT", "completed", "dead", HandlerText} \subseteq DOMAIN Text
  /\ MaxIrqs \in Nat
  /\ \A u \in LineStates : u \in UartStates({"loader"}) /\ Len(u.fifo) <= 16

VARIABLES
  heapStart, heapSize, blocks, live, pc, curr, size, req, old, memmap, at, i, entryCount, entry0,
  entries, table, pmmgrEntries, pmmgrEntryCount, STATUS_FLAGS,  \* see InitMemory
  supported,  \* LIMINE_BASE_REVISION_SUPPORTED
  next,       \* what kmain does next
  loaded,     \* the gates are set, lidt and sti executed
  pageTable,
  irqs        \* how many device interrupts have been raised

Memory == INSTANCE InitMemory

memoryVars == <<heapStart, heapSize, blocks, live, pc, curr, size, req, old, memmap, at, i,
                entryCount, entry0, entries, table, pmmgrEntries, pmmgrEntryCount, STATUS_FLAGS>>
kmainVars == <<supported, next, loaded, pageTable>>
vars == <<serialVars, memoryVars, kmainVars, irqs>>

-----------------------------------------------------------------------------
Init ==
  /\ Memory!Init
  /\ uart \in LineStates /\ calls = <<>> /\ line = <<>> /\ lost = FALSE
  /\ supported \in BOOLEAN /\ next = "check"
  /\ loaded = FALSE /\ pageTable = "NULL" /\ irqs = 0

(* A handler runs behind an interrupt gate and does not nest.              *)
InHandler == calls # <<>> /\ Top.by = "handler"

IF0_TrapGate == loaded
IF0 == loaded /\ ~InHandler

CallSerial(frame) == calls' = Append(calls, frame) /\ UNCHANGED <<uart, line, lost>>

(* kmain goes on when the call it made has returned.                       *)
Kmain(step, then) ==
  /\ next = step /\ calls = <<>>
  /\ next' = then
  /\ UNCHANGED <<supported, irqs>>

(* An unsupported boot loader: hang before the serial port is set up.      *)
CheckRevision ==
  /\ Kmain("check", IF supported THEN "archOnBeforeInit" ELSE "hang")
  /\ UNCHANGED <<serialVars, memoryVars, loaded, pageTable>>

BaudDivisor == 115200 \div 9600

archOnBeforeInit ==
  /\ Kmain("archOnBeforeInit", "Hi")
  /\ CallSerial(initSerial(BaudDivisor))
  /\ UNCHANGED <<memoryVars, loaded, pageTable>>

LogHi ==
  /\ Kmain("Hi", "Device") /\ CallSerial(serialLogz("kmain", "Hi"))
  /\ UNCHANGED <<memoryVars, loaded, pageTable>>

LogDevice ==
  /\ Kmain("Device", "initIDT") /\ CallSerial(serialLogz("kmain", "Device"))
  /\ UNCHANGED <<memoryVars, loaded, pageTable>>

initIDT_Later ==
  /\ IF ~loaded /\ at = "scan"
     THEN Kmain("initIDT", "initPageTable") /\ UNCHANGED <<serialVars, loaded>>
     ELSE Kmain("initIDT", "completed") /\ loaded' = TRUE
          /\ CallSerial(serialLogz("kmain", "IDT"))
  /\ UNCHANGED <<memoryVars, pageTable>>

initIDT ==
  /\ Kmain("initIDT", "initPageTable")
  /\ loaded' = TRUE
  /\ CallSerial(serialLogz("kmain", "IDT"))
  /\ UNCHANGED <<memoryVars, pageTable>>

(* It takes the tables the boot loader made from CR3.                      *)
initPageTable ==
  /\ Kmain("initPageTable", "initMemory")
  /\ pageTable' = "CR3"
  /\ UNCHANGED <<serialVars, memoryVars, loaded>>

initMemory ==
  /\ next = "initMemory" /\ calls = <<>>
  /\ Memory!Next
  /\ UNCHANGED <<serialVars, kmainVars, irqs>>

(* kmain does not look at STATUS_FLAGS.                                    *)
MemoryReturned_AfterFault ==
  /\ at \in {"returned", "fault"} /\ Kmain("initMemory", "completed")
  /\ UNCHANGED <<serialVars, memoryVars, loaded, pageTable>>

MemoryReturned ==
  /\ at = "returned" /\ Kmain("initMemory", "completed")
  /\ UNCHANGED <<serialVars, memoryVars, loaded, pageTable>>

LogCompleted ==
  /\ Kmain("completed", "hang") /\ CallSerial(serialLogz("kmain", "completed"))
  /\ UNCHANGED <<memoryVars, loaded, pageTable>>

(* The store through a null pointer faults on a page that is not present:  *)
(* exceptionHandler logs and returns to it, and it faults again.  Without  *)
(* an IDT the CPU resets.                                                  *)
PageFault ==
  /\ next = "initMemory" /\ at = "fault" /\ calls = <<>>
  /\ IF loaded THEN CallSerial(serialLogz("handler", "dead")) /\ UNCHANGED next
     ELSE next' = "reset" /\ UNCHANGED serialVars
  /\ UNCHANGED <<memoryVars, supported, loaded, pageTable, irqs>>

(* A device interrupt whose registered handler logs, with either function. *)
Irq ==
  /\ IF0 /\ irqs < MaxIrqs
  /\ \/ CallSerial(serialLogz("handler", HandlerText))
     \/ \E n \in 0 .. Len(Text[HandlerText]) : CallSerial(serialLogn("handler", HandlerText, n))
  /\ irqs' = irqs + 1
  /\ UNCHANGED <<memoryVars, kmainVars>>

kmain ==
  \/ CheckRevision \/ archOnBeforeInit \/ LogHi \/ LogDevice
  \/ initIDT \/ initPageTable \/ initMemory \/ MemoryReturned \/ LogCompleted

Driver == SerialStep /\ UNCHANGED <<memoryVars, kmainVars, irqs>>
Device == UartSends /\ UNCHANGED <<memoryVars, kmainVars, irqs>>

Next == kmain \/ PageFault \/ Driver \/ Irq \/ Device

(* The CPU executes what there is to execute, the UART sends what it has.  *)
Spec == Init /\ [][Next]_vars /\ WF_vars(kmain \/ PageFault \/ Driver) /\ WF_vars(Device)

-----------------------------------------------------------------------------
IsPrefix(s, t) == Len(s) <= Len(t) /\ s = SubSeq(t, 1, Len(s))

(* What kmain has to log, in the order of its calls.                       *)
Script ==
  LET chars(t) == SubSeq(Text[t], 1, Len(Text[t]) - 1)
  IN chars("Hi") \o chars("Device") \o chars("IDT") \o chars("completed")

Sent == [k \in 1 .. Len(line) |-> line[k].char]

Halted == next = "hang" /\ calls = <<>>

LogCalls(fns, who, strings) ==
  [fn : fns, by : who, string : strings, length : Nat, i : Nat \ {0},
   pc : {"next", "wait", "write"}]
Calls ==
  [fn : {"initSerial"}, by : {"kmain"}, divisor : {BaudDivisor}, i : 1 .. 7] \cup
  LogCalls({"serialLogz", "serialLogn"}, {"kmain", "handler"}, DOMAIN Text)

(* Every variable of the boot sequence has its type; one handler at most   *)
(* is on top of what kmain called, and only once there are gates.          *)
TypeOK ==
  /\ next \in {"check", "archOnBeforeInit", "Hi", "Device", "initIDT", "initPageTable",
               "initMemory", "completed", "hang"}
  /\ uart \in UartStates(Kinds) /\ calls \in Seq(Calls)
  /\ line \in Seq([char : STRING, divisor : Nat, lcr : 0 .. 255]) /\ lost \in BOOLEAN
  /\ loaded \in BOOLEAN /\ supported \in BOOLEAN /\ pageTable \in {"NULL", "CR3"}
  /\ Len(calls) <= 2 /\ (Len(calls) = 2 => Top.by = "handler" /\ calls[1].by = "kmain")
  /\ InHandler => loaded
  /\ Len(uart.fifo) <= 16 /\ irqs \in 0 .. MaxIrqs

(* Handlers may log at any point, but kmain's text is on the line whole    *)
(* and in order, at the speed asked for, and all of it when kmain has      *)
(* halted and the FIFO has run empty.                                      *)
KmainLogIntact ==
  /\ LineReady
  /\ IsPrefix(Sent, Script)
  /\ Halted /\ supported /\ THRE => Sent = Script

(* "Initial setup completed" is logged only by a kernel that can take      *)
(* interrupts, has its page tables, and whose initMemory returned with one *)
(* verdict and a table of regions to go with it.                           *)
CompletedIsTrue ==
  next = "hang" /\ supported =>
    /\ loaded /\ pageTable = "CR3" /\ at = "returned"
    /\ Memory!StatusHonest /\ Cardinality(STATUS_FLAGS) = 1

(* A fault of initMemory is reported: its handler logs.                    *)
FaultReported == at = "fault" ~> InHandler /\ Top.string = "dead"

(* Boot comes to rest: kmain has halted and the last character has left,   *)
(* or the fault is raised and reported again and again.                    *)
Settles ==
  \/ <>[](Halted /\ uart.fifo = <<>>)
  \/ []<>(InHandler /\ Top.string = "dead") /\ <>[](at = "fault")

-----------------------------------------------------------------------------
(* Why the invariants hold.  The serial port is set up while nothing can   *)
(* interrupt, and no character is logged before it is.                     *)
Early == ~supported \/ next \in {"check", "archOnBeforeInit"}
SettingUp == calls # <<>> /\ calls[1].fn = "initSerial"
LineUp == ~Early /\ ~SettingUp

(* After the first n writes of initSerial.                                 *)
PortsWritten(n) ==
  /\ n \in 2 .. 4 => uart.lcr = 128
  /\ n >= 3 => uart.dll = 12
  /\ n >= 4 => uart.dlm = 0
  /\ n >= 5 => uart.lcr = 3
  /\ n >= 6 => uart.fifoOn
  /\ n = 6 => uart.fifo = <<>>

SetUpInv ==
  /\ ~LineUp => ~loaded /\ line = <<>>
               /\ \A k \in 1 .. Len(uart.fifo) : uart.fifo[k].by = "loader"
  /\ Early => calls = <<>>
  /\ SettingUp =>
       /\ next = "Hi" /\ \E n \in 0 .. 6 :
            calls = <<[initSerial(BaudDivisor) EXCEPT !.i = n + 1]>> /\ PortsWritten(n)
  /\ LineUp => PortsWritten(7)

(* The string kmain has logged last, or is logging, by what it does next.  *)
LastLog ==
  [Device |-> "Hi", initIDT |-> "Device", initPageTable |-> "IDT", initMemory |-> "IDT",
   completed |-> "IDT", hang |-> "completed"]

Chars(t) == Len(Text[t]) - 1
Before ==
  [Hi |-> 0, Device |-> Chars("Hi"), IDT |-> Chars("Hi") + Chars("Device"),
   completed |-> Chars("Hi") + Chars("Device") + Chars("IDT")]

KmainLogs == LineUp /\ calls # <<>> /\ calls[1].by = "kmain"

(* How many characters of Script kmain has written to the UART.            *)
Written ==
  IF ~LineUp \/ next = "Hi" THEN 0
  ELSE Before[LastLog[next]] + (IF KmainLogs THEN calls[1].i - 1 ELSE Chars(LastLog[next]))

(* A call of serialLogz or serialLogn is between the string's first        *)
(* character and its last.                                                 *)
Last(c) == IF c.fn = "serialLogz" THEN Chars(c.string) ELSE c.length
InText(c) ==
  /\ Last(c) <= Len(Text[c.string])
  /\ c.i <= IF c.pc = "next" THEN Last(c) + 1 ELSE Last(c)

IsKmainCall(c) ==
  /\ next \in {"Device", "initIDT", "initPageTable", "hang"}
  /\ c \in LogCalls({"serialLogz"}, {"kmain"}, {LastLog[next]}) /\ InText(c)
IsHandlerCall(c) ==
  /\ c \in LogCalls({"serialLogz", "serialLogn"}, {"handler"}, {HandlerText, "dead"})
  /\ InText(c)

CallsInv ==
  LineUp =>
    \/ calls = <<>>
    \/ Len(calls) = 1 /\ IsKmainCall(calls[1])
    \/ loaded /\ Len(calls) = 1 /\ IsHandlerCall(calls[1])
    \/ loaded /\ Len(calls) = 2 /\ IsKmainCall(calls[1]) /\ IsHandlerCall(calls[2])

(* A character of kmain's in the FIFO is the last one in it: whoever writes*)
(* next has seen the FIFO empty first, and a handler that comes between    *)
(* that and kmain's write leaves no more than one character of its own.    *)
Waiting == uart.fifo # <<>> /\ uart.fifo[Len(uart.fifo)].by = "kmain"

FifoInv ==
  /\ ~lost
  /\ LineUp =>
       /\ Len(uart.fifo) <= 2
       /\ \A k \in 1 .. Len(uart.fifo) - 1 : uart.fifo[k].by # "kmain"
       /\ KmainLogs /\ calls[1].pc = "write" => Len(uart.fifo) <= 1 /\ ~Waiting
       /\ InHandler /\ Top.pc = "write" => uart.fifo = <<>>

LogInv ==
  /\ LineReady
  /\ \A k \in 1 .. Len(line) : line[k].char = Script[k]
  /\ Waiting => uart.fifo[Len(uart.fifo)].char = Script[Written]
  /\ Len(line) = IF Waiting THEN Written - 1 ELSE Written

(* How far kmain has got.                                                  *)
ProgressInv ==
  /\ next \notin {"check", "hang"} => supported
  /\ loaded <=> supported /\ next \in {"initPageTable", "initMemory", "completed", "hang"}
  /\ pageTable = "CR3" <=> supported /\ next \in {"initMemory", "completed", "hang"}
  /\ supported /\ next \in {"completed", "hang"} => at = "returned"

IInv == TypeOK /\ SetUpInv /\ CallsInv /\ FifoInv /\ LogInv /\ ProgressInv
==============================================================================

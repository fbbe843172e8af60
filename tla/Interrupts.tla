----------------------------- MODULE Interrupts -----------------------------
(***************************************************************************)
(* Interrupts on x64: initIDT of kernel/arch/x64/idt.c, the assembly stubs *)
(* of isr_stub.c and the C handlers of isr.c.  What the CPU does (the      *)
(* words it pushes, the interrupt flag, iretq) is external.                *)
(*                                                                         *)
(* The stack is a sequence of words that grows at its end; a word is a     *)
(* pair of a tag and a value.  An interrupt may arrive at any step, in     *)
(* main code, in a stub or in a handler, and nests on the same stack.      *)
(***************************************************************************)
EXTENDS Integers, Sequences

CONSTANTS
  Raised,    \* the vectors that occur
  MaxDepth,  \* the bound on nesting
  HalfWord,  \* 2^16: a uint16_t is 0 .. HalfWord - 1, an address has four of them
  Address    \* vector |-> the address of its stub

Vectors == 0 .. 255

(* The vectors whose exceptions push an error code.  #CP (21) and #VC (29) *)
(* do as well, but need CET or an SEV guest, which the kernel never enables.*)
CpuErrorCode == {8, 10, 11, 12, 13, 14, 17, 30}
NMI == 2

Dword == HalfWord * HalfWord

ASSUME InterruptConstants ==
  /\ Raised \subseteq Vectors \ {21, 29} /\ MaxDepth \in Nat /\ HalfWord \in Nat \ {0}
  /\ Address \in [Vectors -> 1 .. Dword * Dword - 1]
  /\ \A v, w \in Vectors : Address[v] = Address[w] => v = w

VARIABLES
  at,                 \* what the CPU executes next
  IF0,                \* the interrupt flag
  regs,               \* the caller-saved registers
  stack,
  entries,            \* the IDT: vector |-> its gate
  i,                  \* the loop index of initIDT, a uint8_t
  loaded,             \* lidt has been executed
  interruptHandlers,
  ctx                 \* history: the interrupted contexts, the latest last

vars == <<at, IF0, regs, stack, entries, i, loaded, interruptHandlers, ctx>>

-----------------------------------------------------------------------------
(* The tables of the assembly file.                                        *)
ISR_ERR_Without17 == {8, 10, 11, 12, 13, 14, 30}

ISR_ERR == {8, 10, 11, 12, 13, 14, 17, 30}
IRQ == 32 .. 255
isr_stub_table == [v \in 0 .. 31 |-> Address[v]]
irq_stub_table == [k \in 0 .. 223 |-> Address[k + 32]]

X64_PUSHAD == <<"rax", "rcx", "rdx", "rdi", "rsi", "r8", "r9", "r10", "r11">>

X64_POPAD_Swapped == <<"r11", "r10", "r9", "r8", "rdi", "rsi", "rdx", "rcx", "rax">>

X64_POPAD == <<"r11", "r10", "r9", "r8", "rsi", "rdi", "rdx", "rcx", "rax">>

Saved == {X64_PUSHAD[k] : k \in 1 .. 9}

(* struct InterruptFrame, in units of words from the frame pointer.        *)
Field_Swapped ==
  [intNo |-> 10, errCode |-> 9, rsp |-> 11, rflags |-> 12, cs |-> 13, rip |-> 14]

Field == [intNo |-> 9, errCode |-> 10, rsp |-> 11, rflags |-> 12, cs |-> 13, rip |-> 14]
Frame(f) == stack[regs["rdi"][2] - Field[f]][2]

NULL == "NULL"

(* An IDT entry, and its fields filled from an address: the low, the next  *)
(* and the upper two half words.                                           *)
IDTEntry(low, high, upper, selector, ist, attributes) ==
  [offsetLow |-> low, offsetHigh |-> high, offset64 |-> upper, segmentSelector |-> selector,
   interruptStackTable |-> ist, typeAttributes |-> attributes]

NoGate == IDTEntry(0, 0, 0, 0, 0, 0)

setIDTEntry64_HalfShift(offset, selector, ist, attributes) ==
  IDTEntry(offset % HalfWord, (offset \div HalfWord) % HalfWord,
           (offset \div HalfWord) % Dword, selector, ist % 8, attributes)

setIDTEntry64(offset, selector, ist, attributes) ==
  IDTEntry(offset % HalfWord, (offset \div HalfWord) % HalfWord,
           (offset \div Dword) % Dword, selector, ist % 8, attributes)

Gate_Trap(offset) == setIDTEntry64(offset, 40, 0, 143)

Gate(offset) == setIDTEntry64(offset, 40, 0, 142)

-----------------------------------------------------------------------------
Init ==
  /\ at = <<"isr_gates", 0>> /\ IF0 = FALSE
  /\ regs = [r \in Saved |-> <<r, 0>>]
  /\ stack = <<>>
  /\ entries = [v \in Vectors |-> NoGate]
  /\ i = 0 /\ loaded = FALSE
  /\ interruptHandlers = [v \in Vectors |-> NULL]
  /\ ctx = <<>>

cpu == <<regs, stack, ctx>>

(* The three parts of initIDT that set gates; the index is eight bits wide.*)
SetIsrGate ==
  /\ at[1] = "isr_gates"
  /\ IF i < 32
     THEN /\ entries' = [entries EXCEPT ![i] = Gate(isr_stub_table[i])]
          /\ i' = (i + 1) % 256 /\ UNCHANGED at
     ELSE at' = <<"irq_gates", 0>> /\ i' = 32 /\ UNCHANGED entries
  /\ UNCHANGED <<IF0, cpu, loaded, interruptHandlers>>

SetIrqGate_Wraps ==
  /\ at[1] = "irq_gates"
  /\ entries' = [entries EXCEPT ![i] = Gate(irq_stub_table[(i - 32) % 224])]
  /\ i' = (i + 1) % 256 /\ UNCHANGED at
  /\ UNCHANGED <<IF0, cpu, loaded, interruptHandlers>>

SetIrqGate ==
  /\ at[1] = "irq_gates"
  /\ IF i < 255
     THEN /\ entries' = [entries EXCEPT ![i] = Gate(irq_stub_table[i - 32])]
          /\ i' = (i + 1) % 256 /\ UNCHANGED at
     ELSE at' = <<"last_gate", 0>> /\ UNCHANGED <<entries, i>>
  /\ UNCHANGED <<IF0, cpu, loaded, interruptHandlers>>

SetLastGate ==
  /\ at[1] = "last_gate"
  /\ entries' = [entries EXCEPT ![255] = Gate(irq_stub_table[223])]
  /\ at' = <<"lidt", 0>>
  /\ UNCHANGED <<IF0, cpu, i, loaded, interruptHandlers>>

Lidt ==
  /\ at[1] = "lidt"
  /\ loaded' = TRUE /\ at' = <<"sti", 0>>
  /\ UNCHANGED <<IF0, cpu, entries, i, interruptHandlers>>

Sti ==
  /\ at[1] = "sti"
  /\ IF0' = TRUE /\ at' = <<"main", 0>>
  /\ UNCHANGED <<cpu, entries, i, loaded, interruptHandlers>>

-----------------------------------------------------------------------------
(* What the CPU makes of a gate: the code it leads to, and the interrupt   *)
(* flag behind it.  Through an absent gate nothing can be delivered.       *)
Target(g) == g.offsetLow + HalfWord * g.offsetHigh + Dword * g.offset64
Present(g) == g.typeAttributes >= 128
IsInterruptGate(g) == g.typeAttributes % 16 = 14

StubAt == [a \in {Address[v] : v \in Vectors} |-> CHOOSE v \in Vectors : Address[v] = a]

StubOf(g) ==
  IF Present(g) /\ Target(g) \in DOMAIN StubAt
  THEN <<"stub", StubAt[Target(g)]>> ELSE <<"lost", 0>>

(* The CPU delivers vector v with error code e: it aligns the stack to 16  *)
(* bytes (two words), pushes the interrupted context and goes through the  *)
(* gate.  A CPU halted with the flag clear is only woken by an NMI.        *)
Deliver(v, e) ==
  /\ loaded /\ Len(ctx) < MaxDepth
  /\ v \in IRQ => IF0
  /\ at[1] = "hang" => v = NMI
  /\ e # 0 => v \in CpuErrorCode
  /\ LET word == [ss |-> <<"ss", 0>>, rsp |-> <<"rsp", Len(stack)>>,
                  rflags |-> <<"rflags", IF0>>, cs |-> <<"cs", 0>>, rip |-> <<"rip", at>>]
         pad == IF Len(stack) % 2 = 0 THEN <<>> ELSE <<<<"pad", 0>>>>
     IN /\ stack' = stack \o pad \o <<word.ss, word.rsp, word.rflags, word.cs, word.rip>>
                      \o (IF v \in CpuErrorCode THEN <<<<"err", e>>>> ELSE <<>>)
        /\ ctx' = Append(ctx, [word |-> word, regs |-> regs, vector |-> v, error |-> e])
  /\ IF0' = (IF0 /\ ~IsInterruptGate(entries[v])) /\ at' = StubOf(entries[v])
  /\ UNCHANGED <<regs, entries, i, loaded, interruptHandlers>>

(* ISR_NOERR and IRQ push 0 in place of an error code, all push the vector.*)
Stub ==
  /\ at[1] = "stub"
  /\ stack' = stack \o (IF at[2] \in ISR_ERR THEN <<>> ELSE <<<<"err", 0>>>>)
                    \o <<<<"n", at[2]>>>>
  /\ at' = <<IF at[2] \in IRQ THEN "irq_common_stub" ELSE "isr_common_stub", 0>>
  /\ UNCHANGED <<IF0, regs, entries, i, loaded, interruptHandlers, ctx>>

(* The common stubs save the registers and call the C handler with the     *)
(* address of the frame.                                                   *)
CommonStub ==
  /\ at[1] \in {"isr_common_stub", "irq_common_stub"}
  /\ stack' = stack \o [k \in 1 .. 9 |-> regs[X64_PUSHAD[k]]] \o <<<<"ret", 0>>>>
  /\ regs' = [regs EXCEPT !["rdi"] = <<"frame", Len(stack) + 9>>]
  /\ at' = <<IF at[1] = "isr_common_stub" THEN "exceptionHandler" ELSE "irqHandler", 0>>
  /\ UNCHANGED <<IF0, entries, i, loaded, interruptHandlers, ctx>>

(* A C function returns to the common stub; the caller-saved registers     *)
(* hold whatever it left there.                                            *)
Ret ==
  /\ stack' = SubSeq(stack, 1, Len(stack) - 1)
  /\ regs' = [r \in Saved |-> <<"clobbered", Len(ctx)>>]
  /\ at' = <<"leave", 0>>
  /\ UNCHANGED <<IF0, entries, i, loaded, ctx>>

(* A page protection violation hangs, every other exception is returned    *)
(* from: a fault is then raised again by the instruction it returns to.    *)
exceptionHandler ==
  /\ at[1] = "exceptionHandler"
  /\ IF Frame("intNo") = 14 /\ Frame("errCode") % 2 = 1
     THEN /\ at' = <<"hang", 0>>
          /\ UNCHANGED <<IF0, cpu, entries, i, loaded>>
     ELSE Ret
  /\ UNCHANGED interruptHandlers

irqHandler ==
  /\ at[1] = "irqHandler"
  /\ IF interruptHandlers[Frame("intNo")] # NULL
     THEN /\ at' = <<"handler", 0>>
          /\ UNCHANGED <<IF0, cpu, entries, i, loaded>>
     ELSE Ret
  /\ UNCHANGED interruptHandlers

HandlerReturns ==
  /\ at[1] = "handler"
  /\ Ret
  /\ UNCHANGED interruptHandlers

(* Main code or a handler registers a handler, or NULL to remove it.       *)
registerInterruptHandler(v, h) ==
  /\ at[1] \in {"main", "handler"}
  /\ interruptHandlers' = [interruptHandlers EXCEPT ![v] = h]
  /\ UNCHANGED <<at, IF0, cpu, entries, i, loaded>>

(* X64_POPAD, the skip of two words, and iretq.                            *)
PoppedReg(r) == stack[Len(stack) + 1 - CHOOSE k \in 1 .. 9 : X64_POPAD[k] = r]
IretWord(k) == stack[Len(stack) - 9 - 2 - k]

Leave ==
  /\ at[1] = "leave"
  /\ regs' = [r \in Saved |-> PoppedReg(r)]
  /\ at' = IretWord(0)[2] /\ IF0' = IretWord(2)[2]
  /\ stack' = SubSeq(stack, 1, IretWord(3)[2])
  /\ ctx' = SubSeq(ctx, 1, Len(ctx) - 1)
  /\ UNCHANGED <<entries, i, loaded, interruptHandlers>>

initIDT == SetIsrGate \/ SetIrqGate \/ SetLastGate \/ Lidt \/ Sti

Next ==
  \/ initIDT
  \/ \E v \in Raised, e \in 0 .. 1 : Deliver(v, e)
  \/ Stub \/ CommonStub \/ exceptionHandler \/ irqHandler \/ HandlerReturns \/ Leave
  \/ \E v \in Raised \cap IRQ, h \in {NULL, "h"} : registerInterruptHandler(v, h)

Spec == Init /\ [][Next]_vars

(* Until lidt nothing but the boot code runs.                              *)
FairSpec == Spec /\ WF_vars(initIDT)

-----------------------------------------------------------------------------
InHandler == at[1] \in {"exceptionHandler", "irqHandler"}

(* Every variable has its type: a place in the code, a word of the stack,  *)
(* an interrupted context.                                                 *)
Boot == {"isr_gates", "irq_gates", "last_gate", "lidt", "sti", "main"}
Code == {"stub", "isr_common_stub", "irq_common_stub", "exceptionHandler", "irqHandler",
         "handler", "hang", "leave"}
Places == (Boot \cup Code) \X Vectors
RegWords == (Saved \cup {"frame", "clobbered"}) \X Nat
Words ==
  ({"ss", "cs", "rsp", "pad", "err", "n", "ret"} \X Nat) \cup ({"rflags"} \X BOOLEAN)
    \cup ({"rip"} \X Places) \cup RegWords
Contexts ==
  [word : [ss : {<<"ss", 0>>}, rsp : {"rsp"} \X Nat, rflags : {"rflags"} \X BOOLEAN,
           cs : {<<"cs", 0>>}, rip : {"rip"} \X Places],
   regs : [Saved -> RegWords], vector : Raised, error : {0, 1}]

TypeOK ==
  /\ at \in Places /\ IF0 \in BOOLEAN /\ loaded \in BOOLEAN /\ i \in 0 .. 255
  /\ regs \in [Saved -> RegWords] /\ stack \in Seq(Words) /\ ctx \in Seq(Contexts)
  /\ DOMAIN entries = Vectors /\ interruptHandlers \in [Vectors -> {NULL, "h"}]

(* No vector can be delivered through a gate that is not set, or that is   *)
(* another vector's: initIDT sets all 256 before lidt.                     *)
GatesReady ==
  loaded => \A v \in Vectors :
              StubOf(entries[v]) = <<"stub", v>> /\ IsInterruptGate(entries[v])

(* A C handler sees the number of the vector that was delivered, and the   *)
(* error code of the CPU or 0, whatever was interrupted and how deep.      *)
FrameTellsVector ==
  InHandler =>
    LET c == ctx[Len(ctx)] IN
    /\ stack[regs["rdi"][2] - Field["intNo"]] = <<"n", c.vector>>
    /\ stack[regs["rdi"][2] - Field["errCode"]] = <<"err", c.error>>

(* The handlers are called on a 16-byte aligned stack, as the ABI demands. *)
CallAligned == InHandler => (Len(stack) - 1) % 2 = 0

(* What a stub pops and what iretq takes off the stack is the context that *)
(* was interrupted, register by register, at every depth of nesting.       *)
ContextRestored ==
  at[1] = "leave" =>
    LET c == ctx[Len(ctx)] IN
    /\ \A r \in Saved : PoppedReg(r) = c.regs[r]
    /\ IretWord(0) = c.word.rip /\ IretWord(1) = c.word.cs
    /\ IretWord(2) = c.word.rflags /\ IretWord(3) = c.word.rsp

(* Why these hold.  Level 0 is the boot code, level k the k-th of the      *)
(* nested interrupts: where it is, its registers, flag and stack height.   *)
PlaceAt(k) == IF k = Len(ctx) THEN at ELSE ctx[k + 1].word.rip[2]
RegsAt(k) == IF k = Len(ctx) THEN regs ELSE ctx[k + 1].regs
FlagAt(k) == IF k = Len(ctx) THEN IF0 ELSE ctx[k + 1].word.rflags[2]
HeightAt(k) == IF k = Len(ctx) THEN Len(stack) ELSE ctx[k + 1].word.rsp[2]
Base(k) == ctx[k].word.rsp[2] + (ctx[k].word.rsp[2] % 2)

(* The frame of level k: what the CPU, the stub and the common stub push.  *)
CpuPushed(k) ==
  /\ stack[Base(k) + 1] = ctx[k].word.ss /\ stack[Base(k) + 2] = ctx[k].word.rsp
  /\ stack[Base(k) + 3] = ctx[k].word.rflags /\ stack[Base(k) + 4] = ctx[k].word.cs
  /\ stack[Base(k) + 5] = ctx[k].word.rip
ErrorPushed(k) == stack[Base(k) + 6] = <<"err", ctx[k].error>>
StubPushed(k) == ErrorPushed(k) /\ stack[Base(k) + 7] = <<"n", ctx[k].vector>>
RegsPushed(k) == \A j \in 1 .. 9 : stack[Base(k) + 7 + j] = ctx[k].regs[X64_PUSHAD[j]]

(* How much of it is there depends on the code that level is in.           *)
InStub(k) ==
  PlaceAt(k)[1] = "stub" =>
    /\ PlaceAt(k)[2] = ctx[k].vector /\ RegsAt(k) = ctx[k].regs
    /\ IF ctx[k].vector \in CpuErrorCode
       THEN HeightAt(k) = Base(k) + 6 /\ ErrorPushed(k)
       ELSE HeightAt(k) = Base(k) + 5 /\ ctx[k].error = 0
InCommonStub(k) ==
  PlaceAt(k)[1] \in {"isr_common_stub", "irq_common_stub"} =>
    HeightAt(k) = Base(k) + 7 /\ StubPushed(k) /\ RegsAt(k) = ctx[k].regs
InC(k) ==
  PlaceAt(k)[1] \in {"exceptionHandler", "irqHandler", "handler", "hang"} =>
    /\ HeightAt(k) = Base(k) + 17 /\ StubPushed(k) /\ RegsPushed(k)
    /\ PlaceAt(k)[1] \in {"exceptionHandler", "irqHandler"} =>
         RegsAt(k)["rdi"] = <<"frame", Base(k) + 16>>
Leaving(k) ==
  PlaceAt(k)[1] = "leave" =>
    HeightAt(k) = Base(k) + 16 /\ StubPushed(k) /\ RegsPushed(k)

FrameOf(k) ==
  /\ PlaceAt(k)[1] \in Code /\ ~FlagAt(k) /\ Base(k) + 5 <= HeightAt(k)
  /\ CpuPushed(k) /\ InStub(k) /\ InCommonStub(k) /\ InC(k) /\ Leaving(k)

Frames ==
  /\ \A k \in 1 .. Len(ctx) : FrameOf(k)
  /\ \A k, l \in 0 .. Len(ctx) : k < l => HeightAt(k) <= ctx[l].word.rsp[2]

BootCode ==
  /\ PlaceAt(0)[1] \in Boot /\ HeightAt(0) = 0
  /\ FlagAt(0) <=> PlaceAt(0)[1] = "main"
  /\ loaded <=> PlaceAt(0)[1] \in {"sti", "main"}
  /\ ctx # <<>> => loaded

(* The gates set so far.                                                   *)
GatesSet ==
  LET place == PlaceAt(0)[1]
      Set(n) == \A v \in Vectors : v < n => entries[v] = Gate(Address[v])
  IN /\ place = "isr_gates" => i <= 32 /\ Set(i)
     /\ place = "irq_gates" => i >= 32 /\ Set(i)
     /\ place = "last_gate" => Set(255)
     /\ place \in {"lidt", "sti", "main"} => Set(256)

IInv == TypeOK /\ Frames /\ BootCode /\ GatesSet

(* The loops of initIDT over an 8-bit index end.                           *)
BootEnds == <>loaded

(* isr.h:16, "CPU-pushed state on interrupt/trap": the frame's fields for  *)
(* it hold it.                                                             *)
FrameTellsContext ==
  InHandler =>
    LET c == ctx[Len(ctx)] IN
    \A f \in {"rip", "cs", "rflags", "rsp"} :
      stack[regs["rdi"][2] - Field[f]] = c.word[f]
==============================================================================

------------------------------- MODULE Serial -------------------------------
(***************************************************************************)
(* The serial port driver of kernel/arch/i386/serial.c on a 16550 UART,    *)
(* port access by port access.  The UART is external: a write means what   *)
(* its divisor latch bit makes it mean, and it sends at its own pace.      *)
(*                                                                         *)
(* calls is the stack of the driver's calls in progress.  An interrupt     *)
(* handler that logs is called on top of whatever it interrupts, between   *)
(* the poll and the write of serialLogChar too.                            *)
(***************************************************************************)
EXTENDS Integers, Sequences

CONSTANT
  Text       \* the strings: a name |-> its characters, NUL at the end

NUL == "NUL"

ASSUME SerialConstants ==
  \A t \in DOMAIN Text :
    /\ Text[t] \in Seq(STRING) /\ Len(Text[t]) > 0
    /\ \A k \in 1 .. Len(Text[t]) : Text[t][k] = NUL <=> k = Len(Text[t])

VARIABLES
  uart,    \* the registers a write reaches and the transmit FIFO
  calls,
  line,    \* history: kmain's characters sent, with the settings of the line
  lost     \* history: a character was written to a full FIFO

serialVars == <<uart, calls, line, lost>>

Top == calls[Len(calls)]
Rest == SubSeq(calls, 1, Len(calls) - 1)

-----------------------------------------------------------------------------
(* Without the FIFO there is a holding register for one character.  LSR    *)
(* bit 5 says that it, or the whole FIFO, is empty.                        *)
Capacity == IF uart.fifoOn THEN 16 ELSE 1
THRE_Inverted == uart.fifo # <<>>

THRE == uart.fifo = <<>>

(* A character in the FIFO; who wrote it is history.                       *)
Char(ch, who) == [char |-> ch, by |-> who]

FifoOn(v) == v % 2 = 1
ClearsFifo(v) == (v \div 4) % 2 = 1

(* outb(COM1_BASE_PORT + p, v).  Changing the FIFO control clears the FIFO *)
(* if bit 2 asks for it.                                                   *)
outb(p, v) ==
  LET latch == uart.lcr >= 128 IN
  /\ uart' = CASE p = 0 /\ latch  -> [uart EXCEPT !.dll = v]
               [] p = 0 /\ ~latch -> IF Len(uart.fifo) < Capacity
                                     THEN [uart EXCEPT !.fifo = Append(@, v)] ELSE uart
               [] p = 1 /\ latch  -> [uart EXCEPT !.dlm = v]
               [] p = 1 /\ ~latch -> [uart EXCEPT !.ier = v]
               [] p = 2 -> [uart EXCEPT !.fifoOn = FifoOn(v),
                                        !.fifo = IF ClearsFifo(v) THEN <<>> ELSE @]
               [] p = 3 -> [uart EXCEPT !.lcr = v]
               [] p = 4 -> [uart EXCEPT !.mcr = v]
  /\ lost' = (lost \/ (p = 0 /\ ~latch /\ Len(uart.fifo) >= Capacity))

UartSends ==
  /\ uart.fifo # <<>>
  /\ uart' = [uart EXCEPT !.fifo = Tail(@)]
  /\ line' = IF Head(uart.fifo).by = "kmain"
             THEN Append(line, [char |-> Head(uart.fifo).char, lcr |-> uart.lcr,
                                divisor |-> 256 * uart.dlm + uart.dll])
             ELSE line
  /\ UNCHANGED <<calls, lost>>

-----------------------------------------------------------------------------
(* The driver's calls: a frame has the caller and the locals.              *)
initSerial(baudDivisor) ==
  [fn |-> "initSerial", by |-> "kmain", divisor |-> baudDivisor, i |-> 1]
serialLogz(who, string) ==
  [fn |-> "serialLogz", by |-> who, string |-> string, length |-> 0, i |-> 1, pc |-> "next"]
serialLogn(who, string, length) ==
  [fn |-> "serialLogn", by |-> who, string |-> string, length |-> length, i |-> 1, pc |-> "next"]

(* The port writes of initSerial: interrupts off, the latch open, the      *)
(* divisor, the latch closed and 8N1, the FIFO on and clear, the modem.    *)
PortWrites_NoFifo(baudDivisor) ==
  <<<<1, 0>>, <<3, 128>>, <<0, baudDivisor % 256>>, <<1, (baudDivisor \div 256) % 256>>,
    <<3, 3>>, <<2, 0>>, <<4, 11>>>>

PortWrites(baudDivisor) ==
  <<<<1, 0>>, <<3, 128>>, <<0, baudDivisor % 256>>, <<1, (baudDivisor \div 256) % 256>>,
    <<3, 3>>, <<2, 199>>, <<4, 11>>>>

WritePort ==
  /\ calls # <<>> /\ Top.fn = "initSerial"
  /\ LET writes == PortWrites(Top.divisor) IN
     /\ outb(writes[Top.i][1], writes[Top.i][2])
     /\ calls' = IF Top.i = Len(writes) THEN Rest
                 ELSE Append(Rest, [Top EXCEPT !.i = @ + 1])
  /\ UNCHANGED line

Logging == calls # <<>> /\ Top.fn \in {"serialLogz", "serialLogn"}

(* serialLogz stops at the NUL, serialLogn at the length.                  *)
More_PreIncrement ==
  IF Top.fn = "serialLogz" THEN Text[Top.string][Top.i + 1] # NUL ELSE Top.i <= Top.length

More == IF Top.fn = "serialLogz" THEN Text[Top.string][Top.i] # NUL ELSE Top.i <= Top.length

NextChar ==
  /\ Logging /\ Top.pc = "next"
  /\ calls' = IF More THEN Append(Rest, [Top EXCEPT !.pc = "wait"]) ELSE Rest
  /\ UNCHANGED <<uart, line, lost>>

(* serialLogChar: the loop polls until the register is empty, then writes. *)
PollEmpty ==
  /\ Logging /\ Top.pc = "wait" /\ THRE
  /\ calls' = Append(Rest, [Top EXCEPT !.pc = "write"])
  /\ UNCHANGED <<uart, line, lost>>

WriteChar ==
  /\ Logging /\ Top.pc = "write"
  /\ outb(0, Char(Text[Top.string][Top.i], Top.by))
  /\ calls' = Append(Rest, [Top EXCEPT !.pc = "next", !.i = @ + 1])
  /\ UNCHANGED line

SerialStep == WritePort \/ NextChar \/ PollEmpty \/ WriteChar

-----------------------------------------------------------------------------
(* What kmain has logged left at 9600 baud, eight bits, no parity.         *)
LineReady == \A k \in 1 .. Len(line) : line[k].divisor = 12 /\ line[k].lcr = 3

(* No character is written to a full register, although a handler may fill *)
(* it between the poll and the write of the logger it interrupts: the FIFO *)
(* initSerial turns on has room for both.                                  *)
NoOverrun == ~lost
==============================================================================

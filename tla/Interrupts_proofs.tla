------------------------- MODULE Interrupts_proofs -------------------------
(***************************************************************************)
(* Proofs about Interrupts, for any depth of nesting, any vectors and any  *)
(* addresses of the stubs.                                                 *)
(***************************************************************************)
EXTENDS Interrupts, SequenceTheorems, TLAPS

-----------------------------------------------------------------------------
(* An address is what its three parts make of it.                          *)

(* Multiplication by a natural number is strictly monotonic, by as much.   *)
LEMMA Multiples ==
  ASSUME NEW d \in Nat, NEW p \in Nat, NEW q \in Nat, p < q
  PROVE  d * p + d <= d * q
<1>1. d * q = d * (p + 1) + d * (q - p - 1)
  OBVIOUS
<1>2. d * (q - p - 1) >= 0
  OBVIOUS
<1> QED
  BY <1>1, <1>2

(* Quotient and remainder.                                                 *)
LEMMA Division ==
  ASSUME NEW a \in Nat, NEW d \in Nat \ {0}
  PROVE  /\ a \div d \in Nat /\ a % d \in 0 .. d - 1
         /\ a = d * (a \div d) + (a % d)
  OBVIOUS

(* They are the only ones.                                                 *)
LEMMA DivisionUnique ==
  ASSUME NEW d \in Nat \ {0}, NEW q \in Nat, NEW r \in 0 .. d - 1
  PROVE  (d * q + r) \div d = q
<1> DEFINE a == d * q + r
           p == a \div d
           s == a % d
<1>1. a \in Nat
  OBVIOUS
<1>2. p \in Nat /\ s \in 0 .. d - 1 /\ a = d * p + s
  BY <1>1, Division
<1>3. d * p + s = d * q + r
  BY <1>2
<1> HIDE DEF p, s, a
<1>4. ~(p < q)
  BY <1>2, <1>3, Multiples
<1>5. ~(q < p)
  BY <1>2, <1>3, Multiples
<1> QED
  BY <1>2, <1>4, <1>5 DEF p, a

(* The three parts of an address and what the CPU makes of them.           *)
LEMMA Parts ==
  ASSUME NEW h \in Nat \ {0}, NEW a \in Nat, a < (h * h) * (h * h)
  PROVE  (a % h) + h * ((a \div h) % h) + (h * h) * ((a \div (h * h)) % (h * h)) = a
<1> DEFINE q == a \div h
           p == q \div h
           r == a % h
           s == q % h
           d == h * h
<1>1. q \in Nat /\ r \in 0 .. h - 1 /\ a = h * q + r
  BY Division
<1>2. p \in Nat /\ s \in 0 .. h - 1 /\ q = h * p + s
  BY <1>1, Division
<1>3. d \in Nat \ {0}
  OBVIOUS
<1> HIDE DEF q, p, r, s
<1>4. a = d * p + (h * s + r)
  <2>1. h * q = h * (h * p) + h * s
    BY <1>1, <1>2
  <2>2. h * (h * p) = d * p
    BY <1>2
  <2> QED
    BY <1>1, <1>2, <2>1, <2>2
<1>5. h * s + r \in 0 .. d - 1
  <2>1. h * s + h <= h * h
    BY <1>2, Multiples
  <2>2. h * s >= 0
    BY <1>2
  <2> QED
    BY <1>1, <1>2, <2>1, <2>2
<1> HIDE DEF d
<1>6. a \div d = p
  BY <1>2, <1>3, <1>4, <1>5, DivisionUnique
<1>7. p < d
  <2> SUFFICES ASSUME ~(p < d) PROVE FALSE
    OBVIOUS
  <2>1. p = d \/ d < p
    BY <1>2, <1>3
  <2>2. d * d <= d * p
    BY <1>2, <1>3, <2>1, Multiples
  <2> QED
    BY <1>2, <1>3, <1>4, <1>5, <2>2 DEF d
<1>8. p % d = p
  BY <1>2, <1>3, <1>7
<1>9. r + h * s + d * ((a \div d) % d) = a
  BY <1>1, <1>2, <1>3, <1>4, <1>6, <1>8
<1> QED
  BY <1>9 DEF q, r, s, d

(* A gate that is set leads to the stub of its vector, flag cleared.       *)
LEMMA GateLeads ==
  ASSUME NEW v \in Vectors
  PROVE  /\ StubOf(Gate(Address[v])) = <<"stub", v>>
         /\ IsInterruptGate(Gate(Address[v]))
<1> DEFINE a == Address[v]
           g == Gate(a)
<1>1. /\ a \in Nat /\ a < Dword * Dword /\ HalfWord \in Nat \ {0}
      /\ \A w \in Vectors : Address[w] = a => w = v
  BY InterruptConstants DEF Dword
<1>2. /\ g.offsetLow = a % HalfWord /\ g.offsetHigh = (a \div HalfWord) % HalfWord
      /\ g.offset64 = (a \div Dword) % Dword /\ g.typeAttributes = 142
  BY DEF Gate, setIDTEntry64, IDTEntry
<1> HIDE DEF g, a
<1>3. Target(g) = a
  <2>1. (a % HalfWord) + HalfWord * ((a \div HalfWord) % HalfWord)
          + Dword * ((a \div Dword) % Dword) = a
    BY <1>1, Parts DEF Dword
  <2> QED
    BY <1>2, <2>1 DEF Target
<1>4. Present(g) /\ IsInterruptGate(g)
  BY <1>2 DEF Present, IsInterruptGate
<1>5. a \in DOMAIN StubAt /\ StubAt[a] = v
  BY <1>1 DEF StubAt, a
<1> QED
  BY <1>3, <1>4, <1>5 DEF StubOf, g, a

(* Hence all gates lead to their stubs once they are set.                  *)
LEMMA GatesLead ==
  ASSUME IInv PROVE GatesReady
<1> SUFFICES ASSUME loaded, NEW v \in Vectors
             PROVE  StubOf(entries[v]) = <<"stub", v>> /\ IsInterruptGate(entries[v])
  BY DEF GatesReady
<1>1. PlaceAt(0)[1] \in {"sti", "main"}
  BY DEF IInv, BootCode
<1>2. v < 256
  BY DEF Vectors
<1>3. entries[v] = Gate(Address[v])
  BY <1>1, <1>2 DEF IInv, GatesSet
<1> QED
  BY <1>3, GateLeads

-----------------------------------------------------------------------------
(* The stack and the contexts.                                             *)

(* Words pushed lie above what was there.                                  *)
LEMMA Concat ==
  ASSUME NEW s \in Seq(Words), NEW w \in Seq(Words)
  PROVE  /\ s \o w \in Seq(Words) /\ Len(s \o w) = Len(s) + Len(w)
         /\ Len(s) \in Nat /\ Len(w) \in Nat
         /\ \A n \in 1 .. Len(s) : (s \o w)[n] = s[n]
         /\ \A n \in 1 .. Len(w) : (s \o w)[Len(s) + n] = w[n]
<1>1. Len(s) \in Nat /\ Len(w) \in Nat
  BY LenProperties
<1>2. /\ s \o w \in Seq(Words) /\ Len(s \o w) = Len(s) + Len(w)
      /\ \A n \in 1 .. Len(s) + Len(w) :
           (s \o w)[n] = IF n <= Len(s) THEN s[n] ELSE w[n - Len(s)]
  BY ConcatProperties
<1>3. ASSUME NEW n \in 1 .. Len(w) PROVE (s \o w)[Len(s) + n] = w[n]
  <2>1. Len(s) + n \in 1 .. Len(s) + Len(w) /\ ~(Len(s) + n <= Len(s))
    BY <1>1
  <2>2. (Len(s) + n) - Len(s) = n
    BY <1>1
  <2> QED
    BY <1>2, <2>1, <2>2
<1> QED
  BY <1>1, <1>2, <1>3

(* One word pushed.                                                        *)
LEMMA PushedOne ==
  ASSUME NEW s \in Seq(Words), NEW x \in Words
  PROVE  /\ s \o <<x>> \in Seq(Words) /\ Len(s \o <<x>>) = Len(s) + 1
         /\ \A n \in 1 .. Len(s) : (s \o <<x>>)[n] = s[n]
         /\ (s \o <<x>>)[Len(s) + 1] = x
<1> DEFINE w == <<x>>
<1>1. w \in Seq(Words) /\ Len(w) = 1 /\ w[1] = x
  OBVIOUS
<1> HIDE DEF w
<1>2. 1 \in 1 .. Len(w)
  BY <1>1
<1>3. (s \o w)[Len(s) + 1] = x
  BY <1>1, <1>2, Concat
<1> QED
  BY <1>1, <1>3, Concat DEF w

(* What is pushed are words.                                               *)
LEMMA WordsTagged ==
  /\ \A n \in Nat : <<"n", n>> \in Words /\ <<"err", n>> \in Words /\ <<"rsp", n>> \in Words
  /\ <<"ret", 0>> \in Words /\ <<"pad", 0>> \in Words /\ <<"ss", 0>> \in Words
  /\ <<"cs", 0>> \in Words
  /\ \A flag \in BOOLEAN : <<"rflags", flag>> \in Words
  /\ \A place \in Places : <<"rip", place>> \in Words
  /\ \A x \in RegWords : x \in Words
<1>1. \A n \in Nat : \A tag \in {"ss", "cs", "rsp", "pad", "err", "n", "ret"} :
        <<tag, n>> \in Words
  BY DEF Words
<1>2. \A flag \in BOOLEAN : <<"rflags", flag>> \in Words
  BY DEF Words
<1>3. \A place \in Places : <<"rip", place>> \in Words
  BY DEF Words
<1>4. \A x \in RegWords : x \in Words
  BY DEF Words
<1> QED
  BY <1>1, <1>2, <1>3, <1>4

(* What is left when words are popped is as it was.                        *)
LEMMA Popped ==
  ASSUME stack \in Seq(Words), NEW n \in 0 .. Len(stack), stack' = SubSeq(stack, 1, n)
  PROVE  /\ stack' \in Seq(Words) /\ Len(stack') = n
         /\ \A j \in 1 .. n : stack'[j] = stack[j]
<1>1. \A j \in 1 .. n : stack[j] \in Words
  BY ElementOfSeq, LenProperties
<1>2. /\ stack' \in Seq(Words) /\ Len(stack') = IF 1 <= n THEN n - 1 + 1 ELSE 0
      /\ \A j \in 1 .. n - 1 + 1 : stack'[j] = stack[1 + j - 1]
  BY <1>1, SubSeqProperties, LenProperties
<1> QED
  BY <1>2, LenProperties

(* A context has a place to return to, a stack height, registers, a vector.*)
LEMMA Context ==
  ASSUME TypeOK, NEW k \in 1 .. Len(ctx)
  PROVE  /\ ctx[k] \in Contexts
         /\ ctx[k].word.rip[2] \in Places /\ ctx[k].word.rsp[2] \in Nat
         /\ ctx[k].word.rflags[2] \in BOOLEAN /\ ctx[k].regs \in [Saved -> RegWords]
         /\ ctx[k].vector \in Vectors /\ ctx[k].error \in {0, 1}
         /\ Base(k) \in Nat /\ Base(k) % 2 = 0 /\ ctx[k].word.rsp[2] <= Base(k)
<1>1. ctx[k] \in Contexts
  BY ElementOfSeq DEF TypeOK
<1>2. /\ ctx[k].word.rip \in {"rip"} \X Places /\ ctx[k].word.rsp \in {"rsp"} \X Nat
      /\ ctx[k].word.rflags \in {"rflags"} \X BOOLEAN
      /\ ctx[k].regs \in [Saved -> RegWords]
      /\ ctx[k].vector \in Raised /\ ctx[k].error \in {0, 1}
  BY <1>1 DEF Contexts
<1>3. ctx[k].word.rsp[2] \in Nat
  BY <1>2
<1>4. \A n \in Nat : n + (n % 2) \in Nat /\ (n + (n % 2)) % 2 = 0 /\ n <= n + (n % 2)
  OBVIOUS
<1> QED
  BY <1>1, <1>2, <1>3, <1>4, InterruptConstants DEF Base

(* At every level there is a place, a stack height, registers and a flag.  *)
LEMMA Level ==
  ASSUME TypeOK, NEW k \in 0 .. Len(ctx)
  PROVE  /\ PlaceAt(k) \in Places /\ PlaceAt(k)[1] \in Boot \cup Code
         /\ HeightAt(k) \in Nat /\ RegsAt(k) \in [Saved -> RegWords]
         /\ FlagAt(k) \in BOOLEAN
<1>1. Len(ctx) \in Nat /\ Len(stack) \in Nat
  BY LenProperties DEF TypeOK
<1>2. k = Len(ctx) \/ k + 1 \in 1 .. Len(ctx)
  BY <1>1
<1>3. PlaceAt(k) \in Places
  BY <1>1, <1>2, Context DEF PlaceAt, TypeOK
<1>4. HeightAt(k) \in Nat
  BY <1>1, <1>2, Context DEF HeightAt
<1>5. RegsAt(k) \in [Saved -> RegWords]
  BY <1>2, Context DEF RegsAt, TypeOK
<1>6. FlagAt(k) \in BOOLEAN
  BY <1>2, Context DEF FlagAt, TypeOK
<1> QED
  BY <1>3, <1>4, <1>5, <1>6 DEF Places

(* A part of a frame stays if the stack does up to it.                     *)
LEMMA PartsKept ==
  ASSUME TypeOK, NEW k \in 1 .. Len(ctx), ctx'[k] = ctx[k], NEW h \in Nat,
         \A n \in 1 .. h : stack'[n] = stack[n]
  PROVE  /\ Base(k)' = Base(k)
         /\ h >= Base(k) + 5 /\ CpuPushed(k) => CpuPushed(k)'
         /\ h >= Base(k) + 6 /\ ErrorPushed(k) => ErrorPushed(k)'
         /\ h >= Base(k) + 7 /\ StubPushed(k) => StubPushed(k)'
         /\ h >= Base(k) + 16 /\ RegsPushed(k) => RegsPushed(k)'
<1> DEFINE b == Base(k)
<1>1. b \in Nat /\ Base(k)' = b
  BY Context DEF Base
<1> HIDE DEF b
<1>2. ASSUME NEW n \in 1 .. 16, h >= b + n PROVE stack'[b + n] = stack[b + n]
  <2>1. b + n \in 1 .. h
    BY <1>1, <1>2
  <2> QED
    BY <2>1
<1>3. ASSUME h >= b + 5, CpuPushed(k) PROVE CpuPushed(k)'
  <2>1. /\ h >= b + 1 /\ h >= b + 2 /\ h >= b + 3 /\ h >= b + 4
    BY <1>1, <1>3
  <2> QED
    BY <1>1, <1>2, <1>3, <2>1 DEF CpuPushed, b
<1>4. ASSUME h >= b + 6, ErrorPushed(k) PROVE ErrorPushed(k)'
  <2>1. stack'[b + 6] = stack[b + 6]
    BY <1>2, <1>4
  <2> QED
    BY <1>1, <1>4, <2>1 DEF ErrorPushed, b
<1>5. ASSUME h >= b + 7, StubPushed(k) PROVE StubPushed(k)'
  <2>1. stack'[b + 7] = stack[b + 7] /\ h >= b + 6
    BY <1>1, <1>2, <1>5
  <2>2. ErrorPushed(k)'
    BY <1>4, <1>5, <2>1 DEF StubPushed
  <2> QED
    BY <1>1, <1>5, <2>1, <2>2 DEF StubPushed, b
<1>6. ASSUME h >= b + 16, RegsPushed(k) PROVE RegsPushed(k)'
  <2> SUFFICES ASSUME NEW j \in 1 .. 9
               PROVE  stack'[b + 7 + j] = ctx[k].regs[X64_PUSHAD[j]]
    BY <1>1 DEF RegsPushed, X64_PUSHAD, b
  <2>1. b + 7 + j \in 1 .. h
    BY <1>1, <1>6
  <2> QED
    BY <1>6, <2>1 DEF RegsPushed, b
<1> QED
  BY <1>1, <1>3, <1>4, <1>5, <1>6 DEF b

(* A frame lies below the top of its level: a step that keeps that part of *)
(* the stack and the level keeps the frame.                                *)
LEMMA FrameKept ==
  ASSUME TypeOK, NEW k \in 1 .. Len(ctx), FrameOf(k),
         ctx'[k] = ctx[k], PlaceAt(k)' = PlaceAt(k), RegsAt(k)' = RegsAt(k),
         FlagAt(k)' = FlagAt(k), HeightAt(k)' = HeightAt(k),
         \A n \in 1 .. HeightAt(k) : stack'[n] = stack[n]
  PROVE  FrameOf(k)'
<1> DEFINE b == Base(k)
           h == HeightAt(k)
<1>1. b \in Nat /\ h \in Nat /\ b + 5 <= h
  BY Context, Level DEF FrameOf
<1>2. /\ Base(k)' = b
      /\ h >= b + 5 /\ CpuPushed(k) => CpuPushed(k)'
      /\ h >= b + 6 /\ ErrorPushed(k) => ErrorPushed(k)'
      /\ h >= b + 7 /\ StubPushed(k) => StubPushed(k)'
      /\ h >= b + 16 /\ RegsPushed(k) => RegsPushed(k)'
  BY <1>1, PartsKept
<1> HIDE DEF b, h
<1>3. CpuPushed(k)'
  BY <1>1, <1>2 DEF FrameOf
<1>4. InStub(k)'
  BY <1>1, <1>2 DEF FrameOf, InStub, b, h
<1>5. InCommonStub(k)'
  BY <1>1, <1>2 DEF FrameOf, InCommonStub, b, h
<1>6. InC(k)'
  BY <1>1, <1>2 DEF FrameOf, InC, b, h
<1>7. Leaving(k)'
  BY <1>1, <1>2 DEF FrameOf, Leaving, b, h
<1> QED
  BY <1>1, <1>2, <1>3, <1>4, <1>5, <1>6, <1>7 DEF FrameOf, b, h

(* Main code and initIDT run on level 0 only, all other code above it.     *)
LEMMA OnTop ==
  ASSUME IInv
  PROVE  /\ at[1] \in Boot => ctx = <<>> /\ Len(ctx) = 0 /\ stack = <<>> /\ Len(stack) = 0
         /\ at[1] \in Code => Len(ctx) \in 1 .. Len(ctx) /\ FrameOf(Len(ctx))
         /\ PlaceAt(Len(ctx)) = at /\ HeightAt(Len(ctx)) = Len(stack)
         /\ RegsAt(Len(ctx)) = regs /\ FlagAt(Len(ctx)) = IF0
<1>1. Len(ctx) \in Nat /\ Len(stack) \in Nat
  BY LenProperties DEF IInv, TypeOK
<1>2. /\ PlaceAt(Len(ctx)) = at /\ HeightAt(Len(ctx)) = Len(stack)
      /\ RegsAt(Len(ctx)) = regs /\ FlagAt(Len(ctx)) = IF0
  BY DEF PlaceAt, HeightAt, RegsAt, FlagAt
<1>3. Boot \cap Code = {}
  BY DEF Boot, Code
<1>4. Len(ctx) # 0 => at[1] \in Code /\ FrameOf(Len(ctx))
  BY <1>1, <1>2 DEF IInv, Frames, FrameOf
<1>5. Len(ctx) = 0 => at[1] \in Boot /\ Len(stack) = 0
  BY <1>2 DEF IInv, BootCode
<1>6. Len(ctx) = 0 => ctx = <<>>
  BY EmptySeq DEF IInv, TypeOK
<1>7. Len(stack) = 0 => stack = <<>>
  BY EmptySeq DEF IInv, TypeOK
<1> QED
  BY <1>1, <1>2, <1>3, <1>4, <1>5, <1>6, <1>7

-----------------------------------------------------------------------------
(* Every action keeps the invariant.                                       *)

(* Boot code that is not interrupted has nothing on the stack.             *)
LEMMA BootStep ==
  ASSUME IInv, at[1] \in Boot, UNCHANGED cpu, TypeOK', GatesSet', at'[1] \in Boot,
         IF0' <=> at'[1] = "main", loaded' <=> at'[1] \in {"sti", "main"}
  PROVE  IInv'
<1>1. /\ ctx = <<>> /\ Len(ctx) = 0 /\ Len(stack) = 0 /\ ctx' = ctx /\ stack' = stack
  BY OnTop DEF cpu
<1>2. Frames'
  BY <1>1 DEF Frames
<1>3. BootCode'
  BY <1>1 DEF BootCode, PlaceAt, HeightAt, FlagAt
<1> QED
  BY <1>2, <1>3 DEF IInv

(* A step of the code on top touches its own frame only.                   *)
LEMMA TopStep ==
  ASSUME IInv, at[1] \in Code, ctx' = ctx, UNCHANGED <<entries, loaded, i>>, TypeOK',
         NEW D \in Nat, D = Len(ctx), FrameOf(D)',
         \A n \in 1 .. Base(D) : stack'[n] = stack[n]
  PROVE  IInv'
<1>1. D \in 1 .. D /\ Len(ctx') = D /\ TypeOK
  BY OnTop DEF IInv
<1>2. ASSUME NEW k \in 0 .. D, k # D
      PROVE  /\ PlaceAt(k)' = PlaceAt(k) /\ RegsAt(k)' = RegsAt(k)
             /\ FlagAt(k)' = FlagAt(k) /\ HeightAt(k)' = HeightAt(k)
  BY <1>1, <1>2 DEF PlaceAt, RegsAt, FlagAt, HeightAt
<1>3. ASSUME NEW k \in 1 .. D, k # D PROVE FrameOf(k)'
  <2>1. FrameOf(k) /\ HeightAt(k) <= ctx[D].word.rsp[2]
    BY <1>1, <1>3 DEF IInv, Frames
  <2>2. HeightAt(k) \in Nat /\ HeightAt(k) <= Base(D) /\ Base(D) \in Nat
    BY <1>1, <2>1, Level, Context
  <2>3. \A n \in 1 .. HeightAt(k) : stack'[n] = stack[n]
    BY <2>2
  <2>4. k \in 0 .. D
    OBVIOUS
  <2> QED
    BY <1>1, <1>2, <1>3, <2>1, <2>3, <2>4, FrameKept
<1>4. \A k \in 1 .. Len(ctx') : FrameOf(k)'
  <2> SUFFICES ASSUME NEW k \in 1 .. Len(ctx') PROVE FrameOf(k)'
    OBVIOUS
  <2>1. CASE k = D
    BY <2>1
  <2>2. CASE k # D
    BY <1>1, <1>3, <2>2
  <2> QED
    BY <2>1, <2>2
<1>5. Frames'
  <2>1. ASSUME NEW k \in 0 .. D, NEW l \in 0 .. D, k < l
        PROVE  HeightAt(k)' <= ctx'[l].word.rsp[2]
    <3>1. k # D
      BY <1>1, <2>1
    <3> QED
      BY <1>1, <1>2, <2>1, <3>1 DEF IInv, Frames
  <2> QED
    BY <1>1, <1>4, <2>1 DEF Frames
<1>6. 0 \in 0 .. D /\ 0 # D
  BY <1>1
<1>7. BootCode'
  BY <1>1, <1>2, <1>6 DEF IInv, BootCode
<1>8. GatesSet'
  BY <1>1, <1>2, <1>6 DEF IInv, GatesSet
<1> QED
  BY <1>5, <1>7, <1>8 DEF IInv

(* The first loop sets the gates below 32, one per iteration.              *)
LEMMA SetIsrGateKeeps == ASSUME IInv, SetIsrGate PROVE IInv'
<1>1. at[1] \in Boot /\ ctx = <<>> /\ Len(ctx) = 0 /\ PlaceAt(0) = at /\ TypeOK
  BY OnTop DEF SetIsrGate, Boot, IInv
<1>2. i \in 0 .. 32 /\ \A v \in Vectors : v < i => entries[v] = Gate(Address[v])
  BY <1>1 DEF IInv, GatesSet, SetIsrGate, TypeOK
<1>3. CASE i < 32
  <2>1. /\ entries' = [entries EXCEPT ![i] = Gate(Address[i])]
        /\ i' = i + 1 /\ at' = at /\ UNCHANGED <<IF0, cpu, loaded, interruptHandlers>>
    BY <1>2, <1>3 DEF SetIsrGate, isr_stub_table
  <2>2. TypeOK'
    BY <1>1, <1>2, <1>3, <2>1 DEF TypeOK, cpu
  <2>3. PlaceAt(0)' = at
    BY <1>1, <2>1 DEF PlaceAt, cpu
  <2>4. \A v \in Vectors : v < i + 1 => entries'[v] = Gate(Address[v])
    <3> SUFFICES ASSUME NEW v \in Vectors, v < i + 1 PROVE entries'[v] = Gate(Address[v])
      OBVIOUS
    <3>1. v < i \/ v = i
      BY <1>2 DEF Vectors
    <3>2. i \in DOMAIN entries /\ v \in DOMAIN entries
      BY <1>1, <1>2, <1>3 DEF TypeOK, Vectors
    <3> QED
      BY <1>2, <2>1, <3>1, <3>2
  <2>5. GatesSet'
    BY <1>2, <1>3, <2>1, <2>3, <2>4 DEF GatesSet, SetIsrGate
  <2>6. (IF0 <=> at[1] = "main") /\ (loaded <=> at[1] \in {"sti", "main"})
    BY <1>1 DEF IInv, BootCode, FlagAt
  <2> QED
    BY <1>1, <2>1, <2>2, <2>5, <2>6, BootStep
<1>4. CASE ~(i < 32)
  <2>1. /\ i = 32 /\ i' = 32 /\ at' = <<"irq_gates", 0>>
        /\ UNCHANGED <<IF0, cpu, loaded, interruptHandlers, entries>>
    BY <1>2, <1>4 DEF SetIsrGate
  <2>2. TypeOK'
    BY <1>1, <2>1 DEF TypeOK, cpu, Places, Boot, Vectors
  <2>3. PlaceAt(0)' = at'
    BY <1>1, <2>1 DEF PlaceAt, cpu
  <2>4. GatesSet'
    BY <1>2, <2>1, <2>3 DEF GatesSet
  <2>5. (IF0 <=> at[1] = "main") /\ (loaded <=> at[1] \in {"sti", "main"})
    BY <1>1 DEF IInv, BootCode, FlagAt
  <2> QED
    BY <1>1, <2>1, <2>2, <2>4, <2>5, BootStep DEF SetIsrGate, Boot
<1> QED
  BY <1>3, <1>4

(* The second loop sets those from 32 to 254.                              *)
LEMMA SetIrqGateKeeps == ASSUME IInv, SetIrqGate PROVE IInv'
<1>1. at[1] \in Boot /\ ctx = <<>> /\ Len(ctx) = 0 /\ PlaceAt(0) = at /\ TypeOK
  BY OnTop DEF SetIrqGate, Boot, IInv
<1>2. i \in 32 .. 255 /\ \A v \in Vectors : v < i => entries[v] = Gate(Address[v])
  BY <1>1 DEF IInv, GatesSet, SetIrqGate, TypeOK
<1>3. (IF0 <=> at[1] = "main") /\ (loaded <=> at[1] \in {"sti", "main"})
  BY <1>1 DEF IInv, BootCode, FlagAt
<1>4. CASE i < 255
  <2>1. /\ entries' = [entries EXCEPT ![i] = Gate(Address[i])]
        /\ i' = i + 1 /\ at' = at /\ UNCHANGED <<IF0, cpu, loaded, interruptHandlers>>
    <3>1. i - 32 \in 0 .. 223 /\ (i - 32) + 32 = i /\ (i + 1) % 256 = i + 1
      BY <1>2, <1>4
    <3>2. irq_stub_table[i - 32] = Address[i]
      BY <3>1 DEF irq_stub_table
    <3> QED
      BY <1>4, <3>1, <3>2 DEF SetIrqGate
  <2>2. TypeOK'
    BY <1>1, <1>2, <1>4, <2>1 DEF TypeOK, cpu
  <2>3. PlaceAt(0)' = at
    BY <1>1, <2>1 DEF PlaceAt, cpu
  <2>4. \A v \in Vectors : v < i + 1 => entries'[v] = Gate(Address[v])
    <3> SUFFICES ASSUME NEW v \in Vectors, v < i + 1 PROVE entries'[v] = Gate(Address[v])
      OBVIOUS
    <3>1. v < i \/ v = i
      BY <1>2 DEF Vectors
    <3>2. i \in DOMAIN entries /\ v \in DOMAIN entries
      BY <1>1, <1>2, <1>4 DEF TypeOK, Vectors
    <3> QED
      BY <1>2, <2>1, <3>1, <3>2
  <2>5. GatesSet'
    BY <1>2, <1>4, <2>1, <2>3, <2>4 DEF GatesSet, SetIrqGate
  <2> QED
    BY <1>1, <1>3, <2>1, <2>2, <2>5, BootStep
<1>5. CASE ~(i < 255)
  <2>1. /\ i = 255 /\ at' = <<"last_gate", 0>>
        /\ UNCHANGED <<IF0, cpu, loaded, interruptHandlers, entries, i>>
    BY <1>2, <1>5 DEF SetIrqGate
  <2>2. TypeOK'
    BY <1>1, <2>1 DEF TypeOK, cpu, Places, Boot, Vectors
  <2>3. PlaceAt(0)' = at'
    BY <1>1, <2>1 DEF PlaceAt, cpu
  <2>4. GatesSet'
    BY <1>2, <2>1, <2>3 DEF GatesSet
  <2> QED
    BY <1>1, <1>3, <2>1, <2>2, <2>4, BootStep DEF SetIrqGate, Boot
<1> QED
  BY <1>4, <1>5

(* The last gate completes them.                                           *)
LEMMA SetLastGateKeeps == ASSUME IInv, SetLastGate PROVE IInv'
<1>1. at[1] \in Boot /\ ctx = <<>> /\ Len(ctx) = 0 /\ PlaceAt(0) = at /\ TypeOK
  BY OnTop DEF SetLastGate, Boot, IInv
<1>2. \A v \in Vectors : v < 255 => entries[v] = Gate(Address[v])
  BY <1>1 DEF IInv, GatesSet, SetLastGate
<1>3. (IF0 <=> at[1] = "main") /\ (loaded <=> at[1] \in {"sti", "main"})
  BY <1>1 DEF IInv, BootCode, FlagAt
<1>4. /\ entries' = [entries EXCEPT ![255] = Gate(Address[255])]
      /\ at' = <<"lidt", 0>> /\ UNCHANGED <<IF0, cpu, i, loaded, interruptHandlers>>
  BY DEF SetLastGate, irq_stub_table
<1>5. TypeOK'
  BY <1>1, <1>4 DEF TypeOK, cpu, Places, Boot, Vectors
<1>6. PlaceAt(0)' = at'
  BY <1>1, <1>4 DEF PlaceAt, cpu
<1>7. \A v \in Vectors : v < 256 => entries'[v] = Gate(Address[v])
  <2> SUFFICES ASSUME NEW v \in Vectors PROVE entries'[v] = Gate(Address[v])
    OBVIOUS
  <2>1. v < 255 \/ v = 255
    BY DEF Vectors
  <2>2. 255 \in DOMAIN entries /\ v \in DOMAIN entries
    BY <1>1 DEF TypeOK, Vectors
  <2> QED
    BY <1>2, <1>4, <2>1, <2>2
<1>8. GatesSet'
  BY <1>4, <1>6, <1>7 DEF GatesSet
<1> QED
  BY <1>1, <1>3, <1>4, <1>5, <1>8, BootStep DEF SetLastGate, Boot

(* lidt makes the gates count, sti lets device interrupts in.              *)
LEMMA LidtKeeps == ASSUME IInv, Lidt PROVE IInv'
<1>1. at[1] \in Boot /\ ctx = <<>> /\ Len(ctx) = 0 /\ PlaceAt(0) = at /\ TypeOK
  BY OnTop DEF Lidt, Boot, IInv
<1>2. ~IF0 /\ at' = <<"sti", 0>> /\ UNCHANGED <<IF0, cpu, entries, i, interruptHandlers>>
  BY <1>1 DEF IInv, BootCode, FlagAt, Lidt
<1>3. TypeOK'
  BY <1>1 DEF TypeOK, cpu, Places, Boot, Vectors, Lidt
<1>4. PlaceAt(0)' = at'
  BY <1>1, <1>2 DEF PlaceAt, cpu
<1>5. GatesSet'
  BY <1>1, <1>2, <1>4 DEF IInv, GatesSet, Lidt
<1> QED
  BY <1>1, <1>2, <1>3, <1>5, BootStep DEF Lidt, Boot

(* Likewise sti.                                                           *)
LEMMA StiKeeps == ASSUME IInv, Sti PROVE IInv'
<1>1. at[1] \in Boot /\ ctx = <<>> /\ Len(ctx) = 0 /\ PlaceAt(0) = at /\ TypeOK
  BY OnTop DEF Sti, Boot, IInv
<1>2. loaded /\ at' = <<"main", 0>> /\ UNCHANGED <<cpu, entries, i, loaded, interruptHandlers>>
  BY <1>1 DEF IInv, BootCode, Sti
<1>3. TypeOK'
  BY <1>1 DEF TypeOK, cpu, Places, Boot, Vectors, Sti
<1>4. PlaceAt(0)' = at'
  BY <1>1, <1>2 DEF PlaceAt, cpu
<1>5. GatesSet'
  BY <1>1, <1>2, <1>4 DEF IInv, GatesSet, Sti
<1> QED
  BY <1>1, <1>2, <1>3, <1>5, BootStep DEF Sti, Boot

(* No frame depends on the table of handlers.                              *)
LEMMA RegisterKeeps ==
  ASSUME IInv, NEW v \in Vectors, NEW h \in {NULL, "h"}, registerInterruptHandler(v, h)
  PROVE  IInv'
<1>1. UNCHANGED <<at, IF0, regs, stack, ctx, entries, i, loaded>>
  BY DEF registerInterruptHandler, cpu
<1>2. TypeOK'
  BY <1>1 DEF IInv, TypeOK, registerInterruptHandler
<1>3. Frames'
  <2>1. TypeOK /\ Len(ctx') = Len(ctx)
    BY <1>1 DEF IInv
  <2>2. ASSUME NEW k \in 1 .. Len(ctx) PROVE FrameOf(k)'
    <3>1. FrameOf(k) /\ ctx'[k] = ctx[k] /\ \A n \in 1 .. HeightAt(k) : stack'[n] = stack[n]
      BY <1>1 DEF IInv, Frames
    <3>2. /\ PlaceAt(k)' = PlaceAt(k) /\ RegsAt(k)' = RegsAt(k)
          /\ FlagAt(k)' = FlagAt(k) /\ HeightAt(k)' = HeightAt(k)
      BY <1>1 DEF PlaceAt, RegsAt, FlagAt, HeightAt
    <3> QED
      BY <2>1, <3>1, <3>2, FrameKept
  <2>3. \A k, l \in 0 .. Len(ctx) : k < l => HeightAt(k)' <= ctx'[l].word.rsp[2]
    BY <1>1 DEF IInv, Frames, HeightAt
  <2> QED
    BY <2>1, <2>2, <2>3 DEF Frames
<1>4. PlaceAt(0)' = PlaceAt(0) /\ HeightAt(0)' = HeightAt(0) /\ FlagAt(0)' = FlagAt(0)
  BY <1>1 DEF PlaceAt, FlagAt, HeightAt
<1>5. BootCode'
  BY <1>1, <1>4 DEF IInv, BootCode
<1>6. GatesSet'
  BY <1>1, <1>4 DEF IInv, GatesSet
<1> QED
  BY <1>2, <1>3, <1>5, <1>6 DEF IInv

(* The frame of the code on top, by its level.                             *)
LEMMA TopFrame ==
  ASSUME IInv, at[1] \in Code, NEW D \in Nat, D = Len(ctx)
  PROVE  /\ D \in 1 .. D /\ TypeOK /\ FrameOf(D) /\ Base(D) \in Nat /\ Base(D) % 2 = 0
         /\ PlaceAt(D) = at /\ HeightAt(D) = Len(stack) /\ RegsAt(D) = regs /\ ~IF0
         /\ ctx[D].vector \in Vectors /\ ctx[D].error \in {0, 1}
         /\ ctx[D].word.rsp[2] <= Base(D) /\ ctx[D].word.rsp[2] \in Nat
<1>1. D \in 1 .. D /\ TypeOK /\ FrameOf(D)
  BY OnTop DEF IInv
<1>2. PlaceAt(D) = at /\ HeightAt(D) = Len(stack) /\ RegsAt(D) = regs /\ FlagAt(D) = IF0
  BY OnTop
<1> QED
  BY <1>1, <1>2, Context DEF FrameOf

(* After the stub there is an error code and a number in every frame.      *)
LEMMA StubKeeps == ASSUME IInv, Stub PROVE IInv'
<1> PICK D \in Nat : D = Len(ctx)
  BY LenProperties DEF IInv, TypeOK
<1> DEFINE b == Base(D)
           v == ctx[D].vector
<1>1. at[1] \in Code /\ at[1] = "stub"
  BY DEF Stub, Code
<1>2. /\ D \in 1 .. D /\ TypeOK /\ FrameOf(D) /\ b \in Nat /\ v \in Vectors
      /\ PlaceAt(D) = at /\ HeightAt(D) = Len(stack) /\ RegsAt(D) = regs /\ ~IF0
  BY <1>1, TopFrame
<1> HIDE DEF b, v
<1>3. /\ at[2] = v /\ regs = ctx[D].regs
      /\ v \in CpuErrorCode => Len(stack) = b + 6 /\ stack[b + 6] = <<"err", ctx[D].error>>
      /\ v \notin CpuErrorCode => Len(stack) = b + 5 /\ ctx[D].error = 0
  BY <1>1, <1>2 DEF FrameOf, InStub, ErrorPushed, b, v
<1>4. /\ stack' \in Seq(Words) /\ Len(stack') = b + 7
      /\ \A n \in 1 .. b + 5 : stack'[n] = stack[n]
      /\ stack'[b + 6] = <<"err", ctx[D].error>> /\ stack'[b + 7] = <<"n", v>>
  <2> DEFINE number == <<"n", v>>
             error == <<"err", 0>>
  <2>1. number \in Words /\ error \in Words /\ stack \in Seq(Words)
    <3>1. v \in Nat /\ 0 \in Nat
      BY <1>2 DEF Vectors
    <3>2. stack \in Seq(Words)
      BY <1>2 DEF TypeOK
    <3> QED
      BY <3>1, <3>2, WordsTagged
  <2>2. CASE v \in CpuErrorCode
    <3>1. stack' = (stack \o <<>>) \o <<number>>
      BY <1>3, <2>2 DEF Stub, ISR_ERR, CpuErrorCode
    <3>2. stack' = stack \o <<number>>
      BY <2>1, <3>1, ConcatEmptySeq
    <3> HIDE DEF number, error
    <3>3. /\ stack' \in Seq(Words) /\ Len(stack') = b + 7 /\ stack'[b + 7] = number
          /\ \A n \in 1 .. b + 6 : stack'[n] = stack[n]
      BY <1>2, <1>3, <2>1, <2>2, <3>2, PushedOne
    <3> QED
      BY <1>2, <1>3, <2>2, <3>3 DEF number
  <2>3. CASE v \notin CpuErrorCode
    <3> DEFINE s == stack \o <<error>>
    <3>1. stack' = s \o <<number>>
      BY <1>3, <2>3 DEF Stub, ISR_ERR, CpuErrorCode
    <3> HIDE DEF number, error
    <3>2. /\ s \in Seq(Words) /\ Len(s) = b + 6
          /\ \A n \in 1 .. b + 5 : s[n] = stack[n]
          /\ s[b + 6] = error
      <4>1. Len(stack) = b + 5 /\ (b + 5) + 1 = b + 6
        BY <1>2, <1>3, <2>3
      <4> QED
        BY <2>1, <4>1, PushedOne
    <3> HIDE DEF s
    <3>3. /\ stack' \in Seq(Words) /\ Len(stack') = b + 7 /\ stack'[b + 7] = number
          /\ \A n \in 1 .. b + 6 : stack'[n] = s[n]
      <4>1. (b + 6) + 1 = b + 7
        BY <1>2
      <4> QED
        BY <2>1, <3>1, <3>2, <4>1, PushedOne
    <3> QED
      BY <1>2, <1>3, <2>3, <3>2, <3>3 DEF number, error
  <2> QED
    BY <2>2, <2>3
<1>5. /\ at' \in Places /\ at'[1] \in {"isr_common_stub", "irq_common_stub"}
      /\ UNCHANGED <<IF0, regs, entries, i, loaded, interruptHandlers, ctx>>
  BY DEF Stub, Places, Code, Vectors
<1>6. TypeOK'
  BY <1>2, <1>4, <1>5 DEF TypeOK
<1>7. /\ PlaceAt(D)' = at' /\ HeightAt(D)' = b + 7 /\ RegsAt(D)' = regs /\ FlagAt(D)' = IF0
      /\ Base(D)' = b /\ ctx'[D] = ctx[D]
  BY <1>4, <1>5 DEF PlaceAt, HeightAt, RegsAt, FlagAt, Base, b
<1>8. FrameOf(D)'
  <2>1. CpuPushed(D)'
    <3>1. b + 5 \in Nat /\ b + 5 >= b + 5 /\ CpuPushed(D)
      BY <1>2 DEF FrameOf
    <3> QED
      BY <1>2, <1>4, <1>7, <3>1, PartsKept DEF b
  <2>2. StubPushed(D)'
    BY <1>4, <1>7 DEF StubPushed, ErrorPushed, v
  <2> QED
    BY <1>2, <1>3, <1>5, <1>7, <2>1, <2>2
       DEF FrameOf, InStub, InCommonStub, InC, Leaving, Code
<1>9. \A n \in 1 .. Base(D) : stack'[n] = stack[n]
  BY <1>2, <1>4 DEF b
<1> QED
  BY <1>1, <1>5, <1>6, <1>8, <1>9, TopStep

(* After the common stub the registers are in the frame, and the argument  *)
(* of the C handler is its address.                                        *)
LEMMA CommonStubKeeps == ASSUME IInv, CommonStub PROVE IInv'
<1> PICK D \in Nat : D = Len(ctx)
  BY LenProperties DEF IInv, TypeOK
<1> DEFINE b == Base(D)
           saved == [k \in 1 .. 9 |-> regs[X64_PUSHAD[k]]]
           ret == <<"ret", 0>>
<1>1. at[1] \in Code /\ at[1] \in {"isr_common_stub", "irq_common_stub"}
  BY DEF CommonStub, Code
<1>2. /\ D \in 1 .. D /\ TypeOK /\ FrameOf(D) /\ b \in Nat
      /\ PlaceAt(D) = at /\ HeightAt(D) = Len(stack) /\ RegsAt(D) = regs /\ ~IF0
  BY <1>1, TopFrame
<1> HIDE DEF b
<1>3. Len(stack) = b + 7 /\ StubPushed(D) /\ CpuPushed(D) /\ regs = ctx[D].regs
  BY <1>1, <1>2 DEF FrameOf, InCommonStub, b
<1>4. /\ stack' = (stack \o saved) \o <<ret>>
      /\ regs' = [regs EXCEPT !["rdi"] = <<"frame", Len(stack) + 9>>]
      /\ at' \in Places /\ at'[1] \in {"exceptionHandler", "irqHandler"}
      /\ UNCHANGED <<IF0, entries, i, loaded, interruptHandlers, ctx>>
  BY DEF CommonStub, Places, Code, Vectors
<1>5. saved \in Seq(Words) /\ Len(saved) = 9 /\ \A k \in 1 .. 9 : saved[k] = regs[X64_PUSHAD[k]]
  <2>1. \A k \in 1 .. 9 : X64_PUSHAD[k] \in Saved
    BY DEF Saved
  <2>2. regs \in [Saved -> RegWords]
    BY <1>2 DEF TypeOK
  <2>3. \A k \in 1 .. 9 : regs[X64_PUSHAD[k]] \in Words
    BY <2>1, <2>2, WordsTagged
  <2>4. saved \in [1 .. 9 -> Words]
    BY <2>3
  <2>5. 9 \in Nat
    OBVIOUS
  <2> HIDE DEF saved
  <2>6. saved \in Seq(Words)
    BY <2>4, <2>5, SeqDef
  <2>7. Len(saved) \in Nat /\ DOMAIN saved = 1 .. Len(saved) /\ DOMAIN saved = 1 .. 9
    BY <2>4, <2>6, LenProperties
  <2> QED
    BY <2>6, <2>7 DEF saved
<1>6. stack \in Seq(Words) /\ ret \in Words
  BY <1>2, WordsTagged DEF TypeOK
<1> HIDE DEF saved, ret
<1>7. /\ stack' \in Seq(Words) /\ Len(stack') = b + 17
      /\ \A n \in 1 .. b + 7 : stack'[n] = stack[n]
      /\ \A k \in 1 .. 9 : stack'[b + 7 + k] = regs[X64_PUSHAD[k]]
  <2> DEFINE s == stack \o saved
  <2>1. /\ s \in Seq(Words) /\ Len(s) = b + 16
        /\ \A n \in 1 .. b + 7 : s[n] = stack[n]
        /\ \A k \in 1 .. 9 : s[b + 7 + k] = regs[X64_PUSHAD[k]]
    <3>1. Len(stack) = b + 7 /\ (b + 7) + 9 = b + 16
      BY <1>2, <1>3
    <3>2. /\ s \in Seq(Words) /\ Len(s) = Len(stack) + Len(saved)
          /\ \A n \in 1 .. Len(stack) : s[n] = stack[n]
          /\ \A k \in 1 .. Len(saved) : s[Len(stack) + k] = saved[k]
      BY <1>5, <1>6, Concat
    <3> HIDE DEF s
    <3> QED
      BY <1>5, <3>1, <3>2
  <2> HIDE DEF s
  <2>2. /\ stack' \in Seq(Words) /\ Len(stack') = b + 17
        /\ \A n \in 1 .. b + 16 : stack'[n] = s[n]
    <3>1. (b + 16) + 1 = b + 17 /\ stack' = s \o <<ret>>
      BY <1>2, <1>4 DEF s
    <3>2. /\ s \o <<ret>> \in Seq(Words) /\ Len(s \o <<ret>>) = Len(s) + 1
          /\ \A n \in 1 .. Len(s) : (s \o <<ret>>)[n] = s[n]
      BY <1>6, <2>1, PushedOne
    <3> QED
      BY <2>1, <3>1, <3>2
  <2>3. ASSUME NEW k \in 1 .. 9 PROVE stack'[b + 7 + k] = regs[X64_PUSHAD[k]]
    <3>1. b + 7 + k \in 1 .. b + 16
      BY <1>2
    <3> QED
      BY <2>1, <2>2, <3>1
  <2> QED
    BY <1>2, <2>1, <2>2, <2>3
<1>8. regs' \in [Saved -> RegWords] /\ regs'["rdi"] = <<"frame", b + 16>>
  <2>1. <<"frame", b + 16>> \in RegWords /\ Len(stack) + 9 = b + 16
    BY <1>2, <1>3 DEF RegWords
  <2>2. "rdi" \in Saved
    BY DEF Saved, X64_PUSHAD
  <2>3. regs \in [Saved -> RegWords]
    BY <1>2 DEF TypeOK
  <2> QED
    BY <1>4, <2>1, <2>2, <2>3
<1>9. TypeOK'
  BY <1>2, <1>4, <1>7, <1>8 DEF TypeOK
<1>10. /\ PlaceAt(D)' = at' /\ HeightAt(D)' = b + 17 /\ RegsAt(D)' = regs' /\ FlagAt(D)' = IF0
       /\ Base(D)' = b /\ ctx'[D] = ctx[D]
  BY <1>4, <1>7 DEF PlaceAt, HeightAt, RegsAt, FlagAt, Base, b
<1>11. CpuPushed(D)' /\ StubPushed(D)'
  <2>1. PICK h \in Nat : h = b + 7
    BY <1>2
  <2>2. h >= b + 5 /\ h >= b + 7
    BY <1>2, <2>1
  <2>3. \A n \in 1 .. h : stack'[n] = stack[n]
    BY <1>7, <2>1
  <2> QED
    BY <1>2, <1>3, <1>10, <2>2, <2>3, PartsKept DEF b
<1>12. RegsPushed(D)'
  BY <1>3, <1>7, <1>10 DEF RegsPushed
<1>13. FrameOf(D)'
  BY <1>2, <1>4, <1>8, <1>10, <1>11, <1>12
     DEF FrameOf, InStub, InCommonStub, InC, Leaving, Code
<1>14. \A n \in 1 .. Base(D) : stack'[n] = stack[n]
  BY <1>2, <1>7, \A n \in 1 .. b : n \in 1 .. b + 7 DEF b
<1> QED
  BY <1>1, <1>4, <1>9, <1>13, <1>14, TopStep

(* A C function that goes on elsewhere, in a handler or in hang, keeps its *)
(* frame.                                                                  *)
LEMMA GoesOnKeeps ==
  ASSUME IInv, at[1] \in {"exceptionHandler", "irqHandler"},
         at' \in Places, at'[1] \in {"handler", "hang"},
         UNCHANGED <<IF0, cpu, entries, i, loaded, interruptHandlers>>
  PROVE  IInv'
<1> PICK D \in Nat : D = Len(ctx)
  BY LenProperties DEF IInv, TypeOK
<1>1. at[1] \in Code
  BY DEF Code
<1>2. /\ D \in 1 .. D /\ TypeOK /\ FrameOf(D) /\ Base(D) \in Nat
      /\ PlaceAt(D) = at /\ HeightAt(D) = Len(stack) /\ RegsAt(D) = regs /\ ~IF0
  BY <1>1, TopFrame
<1>3. Len(stack) = Base(D) + 17 /\ StubPushed(D) /\ RegsPushed(D) /\ CpuPushed(D)
  BY <1>2 DEF FrameOf, InC
<1>4. UNCHANGED <<IF0, regs, stack, ctx, entries, i, loaded, interruptHandlers>>
  BY DEF cpu
<1>5. TypeOK'
  BY <1>2, <1>4 DEF TypeOK
<1>6. /\ PlaceAt(D)' = at' /\ HeightAt(D)' = Base(D) + 17 /\ RegsAt(D)' = regs
      /\ FlagAt(D)' = IF0 /\ Base(D)' = Base(D) /\ ctx'[D] = ctx[D]
  BY <1>3, <1>4 DEF PlaceAt, HeightAt, RegsAt, FlagAt, Base
<1>7. CpuPushed(D)' /\ StubPushed(D)' /\ RegsPushed(D)'
  BY <1>3, <1>4, <1>6 DEF CpuPushed, StubPushed, ErrorPushed, RegsPushed
<1>8. FrameOf(D)'
  BY <1>2, <1>6, <1>7 DEF FrameOf, InStub, InCommonStub, InC, Leaving, Code
<1>9. \A n \in 1 .. Base(D) : stack'[n] = stack[n]
  BY <1>4
<1> QED
  BY <1>1, <1>4, <1>5, <1>8, <1>9, TopStep

(* A C function that returns takes its return address and leaves the frame.*)
LEMMA RetKeeps ==
  ASSUME IInv, at[1] \in {"exceptionHandler", "irqHandler", "handler"}, Ret,
         UNCHANGED interruptHandlers
  PROVE  IInv'
<1> PICK D \in Nat : D = Len(ctx)
  BY LenProperties DEF IInv, TypeOK
<1> DEFINE b == Base(D)
<1>1. at[1] \in Code
  BY DEF Code
<1>2. /\ D \in 1 .. D /\ TypeOK /\ FrameOf(D) /\ b \in Nat
      /\ PlaceAt(D) = at /\ HeightAt(D) = Len(stack) /\ ~IF0
  BY <1>1, TopFrame
<1>3. Len(stack) = b + 17 /\ StubPushed(D) /\ RegsPushed(D) /\ CpuPushed(D)
  BY <1>2 DEF FrameOf, InC
<1> HIDE DEF b
<1>4. /\ at' = <<"leave", 0>> /\ stack' = SubSeq(stack, 1, Len(stack) - 1)
      /\ regs' = [r \in Saved |-> <<"clobbered", Len(ctx)>>]
      /\ UNCHANGED <<IF0, entries, i, loaded, ctx, interruptHandlers>>
  BY DEF Ret
<1>5. /\ stack' \in Seq(Words) /\ Len(stack') = b + 16
      /\ \A n \in 1 .. b + 16 : stack'[n] = stack[n]
  <2>1. b + 16 \in 0 .. Len(stack) /\ Len(stack) - 1 = b + 16 /\ stack \in Seq(Words)
    BY <1>2, <1>3 DEF TypeOK
  <2> QED
    BY <1>4, <2>1, Popped
<1>6. regs' \in [Saved -> RegWords]
  BY <1>4 DEF RegWords
<1>7. at' \in Places
  BY <1>4 DEF Places, Code, Vectors
<1>8. TypeOK'
  BY <1>2, <1>4, <1>5, <1>6, <1>7 DEF TypeOK
<1>9. /\ PlaceAt(D)' = at' /\ HeightAt(D)' = b + 16 /\ FlagAt(D)' = IF0
      /\ Base(D)' = b /\ ctx'[D] = ctx[D]
  BY <1>4, <1>5 DEF PlaceAt, HeightAt, FlagAt, Base, b
<1>10. CpuPushed(D)' /\ StubPushed(D)' /\ RegsPushed(D)'
  <2>1. PICK h \in Nat : h = b + 16
    BY <1>2
  <2>2. h >= b + 5 /\ h >= b + 7 /\ h >= b + 16
    BY <1>2, <2>1
  <2>3. \A n \in 1 .. h : stack'[n] = stack[n]
    BY <1>5, <2>1
  <2> QED
    BY <1>2, <1>3, <1>9, <2>2, <2>3, PartsKept DEF b
<1>11. FrameOf(D)'
  BY <1>2, <1>4, <1>9, <1>10 DEF FrameOf, InStub, InCommonStub, InC, Leaving, Code
<1>12. \A n \in 1 .. Base(D) : stack'[n] = stack[n]
  BY <1>2, <1>5, \A n \in 1 .. b : n \in 1 .. b + 16 DEF b
<1> QED
  BY <1>1, <1>4, <1>8, <1>11, <1>12, TopStep

(* The three places where C code ends or goes on.                          *)
LEMMA CKeeps ==
  ASSUME IInv, exceptionHandler \/ irqHandler \/ HandlerReturns PROVE IInv'
<1>1. CASE exceptionHandler
  <2>1. at[1] = "exceptionHandler" /\ UNCHANGED interruptHandlers
    BY <1>1 DEF exceptionHandler
  <2>2. \/ Ret
        \/ at' = <<"hang", 0>> /\ UNCHANGED <<IF0, cpu, entries, i, loaded>>
    BY <1>1 DEF exceptionHandler
  <2>3. <<"hang", 0>> \in Places
    BY DEF Places, Code, Vectors
  <2> QED
    BY <2>1, <2>2, <2>3, RetKeeps, GoesOnKeeps
<1>2. CASE irqHandler
  <2>1. at[1] = "irqHandler" /\ UNCHANGED interruptHandlers
    BY <1>2 DEF irqHandler
  <2>2. \/ Ret
        \/ at' = <<"handler", 0>> /\ UNCHANGED <<IF0, cpu, entries, i, loaded>>
    BY <1>2 DEF irqHandler
  <2>3. <<"handler", 0>> \in Places
    BY DEF Places, Code, Vectors
  <2> QED
    BY <2>1, <2>2, <2>3, RetKeeps, GoesOnKeeps
<1>3. CASE HandlerReturns
  BY <1>3, RetKeeps DEF HandlerReturns
<1> QED
  BY <1>1, <1>2, <1>3

(* Registers are popped in the reverse order of their pushes.              *)
LEMMA PopsWhatWasPushed ==
  /\ \A r \in Saved : \E j \in 1 .. 9 : X64_PUSHAD[j] = r
  /\ \A j \in 1 .. 9 : (CHOOSE k \in 1 .. 9 : X64_POPAD[k] = X64_PUSHAD[j]) = 10 - j
<1>1. \A r \in Saved : \E j \in 1 .. 9 : X64_PUSHAD[j] = r
  BY DEF Saved
<1>2. ASSUME NEW j \in 1 .. 9
      PROVE  (CHOOSE k \in 1 .. 9 : X64_POPAD[k] = X64_PUSHAD[j]) = 10 - j
  <2>1. 10 - j \in 1 .. 9 /\ X64_POPAD[10 - j] = X64_PUSHAD[j]
    BY DEF X64_POPAD, X64_PUSHAD
  <2>2. \A k \in 1 .. 9 : X64_POPAD[k] = X64_PUSHAD[j] => k = 10 - j
    BY DEF X64_POPAD, X64_PUSHAD
  <2> QED
    BY <2>1, <2>2
<1> QED
  BY <1>1, <1>2

(* A frame that is left holds the interrupted context.                     *)
LEMMA Restored == ASSUME IInv PROVE ContextRestored
<1> SUFFICES ASSUME at[1] = "leave"
             PROVE  LET c == ctx[Len(ctx)] IN
                    /\ \A r \in Saved : PoppedReg(r) = c.regs[r]
                    /\ IretWord(0) = c.word.rip /\ IretWord(1) = c.word.cs
                    /\ IretWord(2) = c.word.rflags /\ IretWord(3) = c.word.rsp
  BY DEF ContextRestored
<1> PICK D \in Nat : D = Len(ctx)
  BY LenProperties DEF IInv, TypeOK
<1> DEFINE b == Base(D)
<1>1. /\ D \in 1 .. D /\ FrameOf(D) /\ b \in Nat
      /\ PlaceAt(D) = at /\ HeightAt(D) = Len(stack)
  BY TopFrame DEF Code
<1>2. Len(stack) = b + 16 /\ CpuPushed(D) /\ RegsPushed(D)
  BY <1>1 DEF FrameOf, Leaving
<1> HIDE DEF b
<1>3. ASSUME NEW r \in Saved PROVE PoppedReg(r) = ctx[D].regs[r]
  <2>1. PICK j \in 1 .. 9 : X64_PUSHAD[j] = r
    BY PopsWhatWasPushed
  <2>2. (CHOOSE k \in 1 .. 9 : X64_POPAD[k] = r) = 10 - j
    BY <2>1, PopsWhatWasPushed
  <2>3. Len(stack) + 1 - (10 - j) = b + 7 + j
    BY <1>1, <1>2
  <2>4. PoppedReg(r) = stack[b + 7 + j]
    BY <2>2, <2>3 DEF PoppedReg
  <2> QED
    BY <1>2, <2>1, <2>4 DEF RegsPushed, b
<1>4. /\ Len(stack) - 9 - 2 - 0 = b + 5 /\ Len(stack) - 9 - 2 - 1 = b + 4
      /\ Len(stack) - 9 - 2 - 2 = b + 3 /\ Len(stack) - 9 - 2 - 3 = b + 2
  BY <1>1, <1>2
<1>5. /\ IretWord(0) = ctx[D].word.rip /\ IretWord(1) = ctx[D].word.cs
      /\ IretWord(2) = ctx[D].word.rflags /\ IretWord(3) = ctx[D].word.rsp
  BY <1>2, <1>4 DEF IretWord, CpuPushed, b
<1> QED
  BY <1>3, <1>5

(* What was interrupted is on top again, with its frame as it was.         *)
LEMMA LeaveKeeps == ASSUME IInv, Leave PROVE IInv'
<1> PICK D \in Nat : D = Len(ctx)
  BY LenProperties DEF IInv, TypeOK
<1> DEFINE c == ctx[D]
<1>1. at[1] = "leave" /\ at[1] \in Code
  BY DEF Leave, Code
<1>2. /\ D \in 1 .. D /\ TypeOK /\ FrameOf(D) /\ Base(D) \in Nat
      /\ HeightAt(D) = Len(stack) /\ c.word.rsp[2] <= Base(D)
  BY <1>1, TopFrame
<1>3. /\ c.word.rip[2] \in Places /\ c.word.rflags[2] \in BOOLEAN
      /\ c.word.rsp[2] \in Nat /\ c.regs \in [Saved -> RegWords]
  BY <1>2, Context
<1> HIDE DEF c
<1>4. /\ \A r \in Saved : PoppedReg(r) = c.regs[r]
      /\ IretWord(0) = c.word.rip /\ IretWord(2) = c.word.rflags /\ IretWord(3) = c.word.rsp
  BY <1>1, Restored DEF ContextRestored, c
<1>5. /\ at' = c.word.rip[2] /\ IF0' = c.word.rflags[2] /\ regs' = c.regs
      /\ stack' = SubSeq(stack, 1, c.word.rsp[2]) /\ ctx' = SubSeq(ctx, 1, D - 1)
      /\ UNCHANGED <<entries, i, loaded, interruptHandlers>>
  <2>1. regs' = [r \in Saved |-> c.regs[r]]
    BY <1>4 DEF Leave
  <2>2. regs' = c.regs
    BY <1>3, <2>1
  <2> QED
    BY <1>4, <2>2 DEF Leave
<1>6. /\ stack' \in Seq(Words) /\ Len(stack') = c.word.rsp[2]
      /\ \A n \in 1 .. c.word.rsp[2] : stack'[n] = stack[n]
  <2>1. c.word.rsp[2] \in 0 .. Len(stack) /\ stack \in Seq(Words)
    <3>1. Base(D) + 5 <= Len(stack) /\ Len(stack) \in Nat
      BY <1>2, LenProperties DEF FrameOf, TypeOK
    <3> QED
      BY <1>2, <1>3, <3>1 DEF TypeOK
  <2> QED
    BY <1>5, <2>1, Popped
<1>7. ctx' \in Seq(Contexts) /\ Len(ctx') = D - 1 /\ \A k \in 1 .. D - 1 : ctx'[k] = ctx[k]
  <2>1. \A k \in 1 .. D - 1 : ctx[k] \in Contexts
    BY <1>2, Context
  <2>2. /\ ctx' \in Seq(Contexts) /\ Len(ctx') = IF 1 <= D - 1 THEN D - 1 - 1 + 1 ELSE 0
        /\ \A k \in 1 .. D - 1 - 1 + 1 : ctx'[k] = ctx[1 + k - 1]
    BY <1>2, <1>5, <2>1, SubSeqProperties
  <2> QED
    BY <1>2, <2>2
<1>8. TypeOK'
  BY <1>2, <1>3, <1>5, <1>6, <1>7 DEF TypeOK
<1>9. ASSUME NEW k \in 0 .. D - 1
      PROVE  /\ PlaceAt(k)' = PlaceAt(k) /\ RegsAt(k)' = RegsAt(k)
             /\ FlagAt(k)' = FlagAt(k) /\ HeightAt(k)' = HeightAt(k)
  <2>1. CASE k = D - 1
    <3>1. k + 1 = D /\ k # Len(ctx) /\ k = Len(ctx')
      BY <1>2, <1>7, <2>1
    <3> QED
      BY <1>5, <1>6, <3>1 DEF PlaceAt, RegsAt, FlagAt, HeightAt, c
  <2>2. CASE k # D - 1
    <3>1. k + 1 \in 1 .. D - 1 /\ k # Len(ctx) /\ k # Len(ctx')
      BY <1>2, <1>7, <2>2
    <3> QED
      BY <1>7, <3>1 DEF PlaceAt, RegsAt, FlagAt, HeightAt
  <2> QED
    BY <2>1, <2>2
<1>10. ASSUME NEW k \in 1 .. D - 1 PROVE FrameOf(k)'
  <2>1. k \in 1 .. Len(ctx) /\ k \in 0 .. D - 1 /\ k < D
    BY <1>2
  <2>2. FrameOf(k) /\ HeightAt(k) <= c.word.rsp[2]
    BY <1>2, <2>1 DEF IInv, Frames, c
  <2>3. HeightAt(k) \in Nat
    BY <1>2, <2>1, Level
  <2>4. \A n \in 1 .. HeightAt(k) : stack'[n] = stack[n]
    <3> TAKE n \in 1 .. HeightAt(k)
    <3>1. n \in 1 .. c.word.rsp[2]
      BY <1>3, <2>2, <2>3
    <3> QED
      BY <1>6, <3>1
  <2> QED
    BY <1>2, <1>7, <1>9, <2>1, <2>2, <2>4, FrameKept
<1>11. Frames'
  <2>1. ASSUME NEW k \in 0 .. D - 1, NEW l \in 0 .. D - 1, k < l
        PROVE  HeightAt(k)' <= ctx'[l].word.rsp[2]
    <3>1. k \in 0 .. Len(ctx) /\ l \in 0 .. Len(ctx) /\ l \in 1 .. D - 1
      BY <1>2, <2>1
    <3> QED
      BY <1>7, <1>9, <2>1, <3>1 DEF IInv, Frames
  <2> QED
    BY <1>7, <1>10, <2>1 DEF Frames
<1>12. 0 \in 0 .. D - 1 /\ ctx # <<>>
  BY <1>2
<1>13. BootCode'
  BY <1>5, <1>9, <1>12 DEF IInv, BootCode
<1>14. GatesSet'
  BY <1>5, <1>9, <1>12 DEF IInv, GatesSet
<1> QED
  BY <1>8, <1>11, <1>13, <1>14 DEF IInv

(* The CPU puts a frame on top of whatever was running.                    *)
LEMMA DeliverKeeps ==
  ASSUME IInv, NEW v \in Raised, NEW e \in 0 .. 1, Deliver(v, e)
  PROVE  IInv'
<1> PICK D \in Nat : D = Len(ctx)
  BY LenProperties DEF IInv, TypeOK
<1> PICK top \in Nat : top = Len(stack)
  BY LenProperties DEF IInv, TypeOK
<1> DEFINE word == [ss |-> <<"ss", 0>>, rsp |-> <<"rsp", top>>, rflags |-> <<"rflags", IF0>>,
                    cs |-> <<"cs", 0>>, rip |-> <<"rip", at>>]
           c == [word |-> word, regs |-> regs, vector |-> v, error |-> e]
           b == top + (top % 2)
           pad == IF top % 2 = 0 THEN <<>> ELSE <<<<"pad", 0>>>>
           five == <<word.ss, word.rsp, word.rflags, word.cs, word.rip>>
           last == IF v \in CpuErrorCode THEN <<<<"err", e>>>> ELSE <<>>
<1>1. TypeOK /\ v \in Vectors /\ b \in Nat /\ top <= b
  BY InterruptConstants DEF IInv
<1>2. /\ loaded /\ (e # 0 => v \in CpuErrorCode)
      /\ stack' = ((stack \o pad) \o five) \o last
      /\ ctx' = Append(ctx, c)
      /\ UNCHANGED <<regs, entries, i, loaded, interruptHandlers>>
  BY DEF Deliver
<1>3. at' = <<"stub", v>> /\ ~IF0'
  <2>1. StubOf(entries[v]) = <<"stub", v>> /\ IsInterruptGate(entries[v])
    BY <1>1, <1>2, GatesLead DEF GatesReady
  <2> QED
    BY <2>1 DEF Deliver
<1>4. c \in Contexts
  <2>1. at \in Places /\ IF0 \in BOOLEAN /\ regs \in [Saved -> RegWords] /\ e \in {0, 1}
    BY <1>1 DEF TypeOK
  <2> QED
    BY <2>1 DEF Contexts
<1>5. ctx' \in Seq(Contexts) /\ Len(ctx') = D + 1 /\ ctx'[D + 1] = c
      /\ \A k \in 1 .. D : ctx'[k] = ctx[k]
  <2>1. ctx \in Seq(Contexts)
    BY <1>1 DEF TypeOK
  <2> HIDE DEF c
  <2> QED
    BY <1>2, <1>4, <2>1, AppendProperties
<1>6. c.word = word /\ c.regs = regs /\ c.vector = v /\ c.error = e /\ word.rsp[2] = top
      /\ word.rip[2] = at /\ word.rflags[2] = IF0
  OBVIOUS
<1>7. stack \in Seq(Words) /\ pad \in Seq(Words) /\ five \in Seq(Words) /\ last \in Seq(Words)
  <2>1. at \in Places /\ IF0 \in BOOLEAN /\ stack \in Seq(Words)
    BY <1>1 DEF TypeOK
  <2>2. <<"pad", 0>> \in Words /\ <<"err", e>> \in Words
    <3>1. e \in Nat
      OBVIOUS
    <3> QED
      BY <3>1, WordsTagged
  <2>3. /\ word.ss \in Words /\ word.rsp \in Words /\ word.rflags \in Words
        /\ word.cs \in Words /\ word.rip \in Words
    BY <2>1, WordsTagged
  <2> HIDE DEF word
  <2> QED
    BY <2>1, <2>2, <2>3
<1>8. /\ Len(pad) = b - top /\ Len(five) = 5
      /\ Len(last) = IF v \in CpuErrorCode THEN 1 ELSE 0
      /\ five[1] = word.ss /\ five[2] = word.rsp /\ five[3] = word.rflags
      /\ five[4] = word.cs /\ five[5] = word.rip
      /\ v \in CpuErrorCode => last[1] = <<"err", e>>
  <2> HIDE DEF word
  <2>1. top % 2 = 0 \/ top % 2 = 1
    OBVIOUS
  <2>2. Len(pad) = b - top
    BY <2>1
  <2> QED
    BY <2>2
<1>9. word.ss = c.word.ss /\ word.rsp = c.word.rsp /\ word.rflags = c.word.rflags
      /\ word.cs = c.word.cs /\ word.rip = c.word.rip
  BY <1>6
<1> HIDE DEF pad, five, last, c, word, b
<1>10. /\ stack' \in Seq(Words)
       /\ Len(stack') = IF v \in CpuErrorCode THEN b + 6 ELSE b + 5
       /\ \A n \in 1 .. top : stack'[n] = stack[n]
       /\ stack'[b + 1] = word.ss /\ stack'[b + 2] = word.rsp /\ stack'[b + 3] = word.rflags
       /\ stack'[b + 4] = word.cs /\ stack'[b + 5] = word.rip
       /\ v \in CpuErrorCode => stack'[b + 6] = <<"err", e>>
  <2> DEFINE s == stack \o pad
             t == s \o five
  <2>1. s \in Seq(Words) /\ Len(s) = b /\ \A n \in 1 .. top : s[n] = stack[n]
    <3>1. top + (b - top) = b
      BY <1>1
    <3>2. /\ s \in Seq(Words) /\ Len(s) = Len(stack) + Len(pad)
          /\ \A n \in 1 .. Len(stack) : s[n] = stack[n]
      BY <1>7, Concat
    <3> HIDE DEF s
    <3> QED
      BY <1>8, <3>1, <3>2
  <2> HIDE DEF s
  <2>2. t \in Seq(Words) /\ Len(t) = b + 5 /\ (\A n \in 1 .. b : t[n] = s[n])
        /\ \A n \in 1 .. 5 : t[b + n] = five[n]
    <3>1. /\ t \in Seq(Words) /\ Len(t) = Len(s) + Len(five)
          /\ \A n \in 1 .. Len(s) : t[n] = s[n]
          /\ \A n \in 1 .. Len(five) : t[Len(s) + n] = five[n]
      BY <1>7, <2>1, Concat
    <3> HIDE DEF t
    <3> QED
      BY <1>8, <2>1, <3>1
  <2> HIDE DEF t
  <2>3. /\ stack' \in Seq(Words) /\ Len(stack') = (b + 5) + Len(last)
        /\ (\A n \in 1 .. b + 5 : stack'[n] = t[n])
        /\ \A n \in 1 .. Len(last) : stack'[b + 5 + n] = last[n]
    <3>1. stack' = t \o last
      BY <1>2 DEF s, t
    <3>2. /\ t \o last \in Seq(Words) /\ Len(t \o last) = Len(t) + Len(last)
          /\ \A n \in 1 .. Len(t) : (t \o last)[n] = t[n]
          /\ \A n \in 1 .. Len(last) : (t \o last)[Len(t) + n] = last[n]
      BY <1>7, <2>2, Concat
    <3> QED
      BY <2>2, <3>1, <3>2
  <2>4. \A n \in 1 .. top : stack'[n] = stack[n]
    <3> TAKE n \in 1 .. top
    <3>1. n \in 1 .. b /\ n \in 1 .. b + 5
      BY <1>1
    <3> QED
      BY <2>1, <2>2, <2>3, <3>1
  <2>5. \A n \in 1 .. 5 : stack'[b + n] = five[n]
    <3> TAKE n \in 1 .. 5
    <3>1. b + n \in 1 .. b + 5
      BY <1>1
    <3> QED
      BY <2>2, <2>3, <3>1
  <2>6. v \in CpuErrorCode => stack'[b + 6] = <<"err", e>>
    <3> SUFFICES ASSUME v \in CpuErrorCode PROVE stack'[b + 6] = <<"err", e>>
      OBVIOUS
    <3>1. 1 \in 1 .. Len(last) /\ b + 5 + 1 = b + 6
      BY <1>1, <1>8
    <3>2. stack'[b + 5 + 1] = last[1]
      BY <2>3, <3>1
    <3> QED
      BY <1>8, <3>1, <3>2
  <2>7. Len(stack') = IF v \in CpuErrorCode THEN b + 6 ELSE b + 5
    BY <1>1, <1>8, <2>3
  <2>8. /\ stack'[b + 1] = word.ss /\ stack'[b + 2] = word.rsp /\ stack'[b + 3] = word.rflags
        /\ stack'[b + 4] = word.cs /\ stack'[b + 5] = word.rip
    BY <1>8, <2>5
  <2> QED
    BY <2>3, <2>4, <2>6, <2>7, <2>8
<1>11. TypeOK'
  <2>1. at' \in Places /\ IF0' \in BOOLEAN
    BY <1>1, <1>3 DEF Places, Code, Deliver, TypeOK
  <2> QED
    BY <1>1, <1>2, <1>5, <1>10, <2>1 DEF TypeOK
<1>12. ASSUME NEW k \in 0 .. D
       PROVE  /\ PlaceAt(k)' = PlaceAt(k) /\ RegsAt(k)' = RegsAt(k)
              /\ FlagAt(k)' = FlagAt(k) /\ HeightAt(k)' = HeightAt(k)
  <2>1. CASE k = D
    <3>1. k # Len(ctx') /\ k + 1 = D + 1
      BY <1>5, <2>1
    <3> QED
      BY <1>5, <1>6, <1>9, <2>1, <3>1 DEF PlaceAt, RegsAt, FlagAt, HeightAt
  <2>2. CASE k # D
    <3>1. k + 1 \in 1 .. D /\ k # Len(ctx')
      BY <1>5, <2>2
    <3> QED
      BY <1>5, <2>2, <3>1 DEF PlaceAt, RegsAt, FlagAt, HeightAt
  <2> QED
    BY <2>1, <2>2
<1>13. ASSUME NEW k \in 0 .. D PROVE HeightAt(k) <= top /\ HeightAt(k) \in Nat
  <2>1. HeightAt(k) \in Nat
    BY <1>1, Level
  <2>2. CASE k = D
    BY <2>1, <2>2 DEF HeightAt
  <2>3. CASE k # D
    <3>1. D \in 1 .. Len(ctx) /\ k < D
      BY <2>3
    <3>2. /\ HeightAt(k) <= ctx[D].word.rsp[2] /\ Base(D) + 5 <= HeightAt(D)
          /\ HeightAt(D) = top
      BY <3>1 DEF IInv, Frames, FrameOf, HeightAt
    <3>3. ctx[D].word.rsp[2] <= Base(D) /\ Base(D) \in Nat /\ ctx[D].word.rsp[2] \in Nat
      BY <1>1, <3>1, Context
    <3>4. ctx[D].word.rsp[2] <= top
      BY <3>2, <3>3
    <3> QED
      BY <2>1, <3>2, <3>3, <3>4
  <2> QED
    BY <2>2, <2>3
<1>14. ASSUME NEW k \in 1 .. D PROVE FrameOf(k)'
  <2>1. FrameOf(k) /\ k \in 0 .. D /\ k \in 1 .. Len(ctx)
    BY DEF IInv, Frames
  <2>2. \A n \in 1 .. HeightAt(k) : stack'[n] = stack[n]
    <3> TAKE n \in 1 .. HeightAt(k)
    <3>1. n \in 1 .. top
      BY <1>13, <2>1
    <3> QED
      BY <1>10, <3>1
  <2> QED
    BY <1>1, <1>5, <1>12, <2>1, <2>2, FrameKept
<1>15. FrameOf(D + 1)'
  <2>1. /\ PlaceAt(D + 1)' = <<"stub", v>> /\ RegsAt(D + 1)' = regs /\ FlagAt(D + 1)' = IF0'
        /\ HeightAt(D + 1)' = (IF v \in CpuErrorCode THEN b + 6 ELSE b + 5)
    BY <1>2, <1>3, <1>5, <1>10 DEF PlaceAt, RegsAt, FlagAt, HeightAt
  <2>2. Base(D + 1)' = b
    BY <1>5, <1>6, <1>9 DEF Base, b
  <2>3. CpuPushed(D + 1)'
    BY <1>5, <1>9, <1>10, <2>2 DEF CpuPushed
  <2>4. InStub(D + 1)'
    <3>1. e = 0 \/ v \in CpuErrorCode
      BY <1>2
    <3>2. v \in CpuErrorCode => ErrorPushed(D + 1)'
      BY <1>5, <1>6, <1>10, <2>2 DEF ErrorPushed
    <3> QED
      BY <1>5, <1>6, <2>1, <2>2, <3>1, <3>2 DEF InStub
  <2>5. InCommonStub(D + 1)' /\ InC(D + 1)' /\ Leaving(D + 1)'
    BY <2>1 DEF InCommonStub, InC, Leaving
  <2>6. b + 5 <= HeightAt(D + 1)'
    BY <1>1, <2>1
  <2> QED
    BY <1>3, <2>1, <2>2, <2>3, <2>4, <2>5, <2>6 DEF FrameOf, Code
<1>16. Frames'
  <2>1. \A k \in 1 .. D + 1 : FrameOf(k)'
    <3> TAKE k \in 1 .. D + 1
    <3>1. CASE k = D + 1
      BY <1>15, <3>1
    <3>2. CASE k # D + 1
      BY <1>14, <3>2
    <3> QED
      BY <3>1, <3>2
  <2>2. ASSUME NEW k \in 0 .. D + 1, NEW l \in 0 .. D + 1, k < l
        PROVE  HeightAt(k)' <= ctx'[l].word.rsp[2]
    <3>1. k \in 0 .. D
      BY <2>2
    <3>2. CASE l = D + 1
      <4>1. ctx'[l].word.rsp[2] = top
        BY <1>5, <1>6, <3>2
      <4> QED
        BY <1>12, <1>13, <3>1, <4>1
    <3>3. CASE l # D + 1
      <4>1. l \in 1 .. D /\ l \in 0 .. D
        BY <2>2, <3>3
      <4> QED
        BY <1>5, <1>12, <2>2, <3>1, <4>1 DEF IInv, Frames
    <3> QED
      BY <3>2, <3>3
  <2> QED
    BY <1>5, <2>1, <2>2 DEF Frames
<1>17. BootCode'
  <2>1. 0 \in 0 .. D
    OBVIOUS
  <2> QED
    BY <1>2, <1>12, <2>1 DEF IInv, BootCode
<1>18. GatesSet'
  <2>1. 0 \in 0 .. D
    OBVIOUS
  <2> QED
    BY <1>2, <1>12, <2>1 DEF IInv, GatesSet
<1> QED
  BY <1>11, <1>16, <1>17, <1>18 DEF IInv

(* A step that changes nothing.                                            *)
LEMMA UnchangedKeeps == ASSUME IInv, UNCHANGED vars PROVE IInv'
<1>1. UNCHANGED <<at, IF0, regs, stack, entries, i, loaded, interruptHandlers, ctx>>
  BY DEF vars
<1>2. TypeOK'
  BY <1>1 DEF IInv, TypeOK
<1>3. Frames'
  <2>1. TypeOK /\ Len(ctx') = Len(ctx)
    BY <1>1 DEF IInv
  <2>2. ASSUME NEW k \in 1 .. Len(ctx) PROVE FrameOf(k)'
    <3>1. FrameOf(k) /\ ctx'[k] = ctx[k] /\ \A n \in 1 .. HeightAt(k) : stack'[n] = stack[n]
      BY <1>1 DEF IInv, Frames
    <3>2. /\ PlaceAt(k)' = PlaceAt(k) /\ RegsAt(k)' = RegsAt(k)
          /\ FlagAt(k)' = FlagAt(k) /\ HeightAt(k)' = HeightAt(k)
      BY <1>1 DEF PlaceAt, RegsAt, FlagAt, HeightAt
    <3> QED
      BY <2>1, <3>1, <3>2, FrameKept
  <2>3. \A k, l \in 0 .. Len(ctx) : k < l => HeightAt(k)' <= ctx'[l].word.rsp[2]
    BY <1>1 DEF IInv, Frames, HeightAt
  <2> QED
    BY <2>1, <2>2, <2>3 DEF Frames
<1>4. PlaceAt(0)' = PlaceAt(0) /\ HeightAt(0)' = HeightAt(0) /\ FlagAt(0)' = FlagAt(0)
  BY <1>1 DEF PlaceAt, FlagAt, HeightAt
<1>5. BootCode'
  BY <1>1, <1>4 DEF IInv, BootCode
<1>6. GatesSet'
  BY <1>1, <1>4 DEF IInv, GatesSet
<1> QED
  BY <1>2, <1>3, <1>5, <1>6 DEF IInv

(* No step leaves the invariant.                                           *)
LEMMA NextKeeps == ASSUME IInv, [Next]_vars PROVE IInv'
<1>1. CASE initIDT
  BY <1>1, SetIsrGateKeeps, SetIrqGateKeeps, SetLastGateKeeps, LidtKeeps, StiKeeps
     DEF initIDT
<1>2. ASSUME NEW v \in Raised, NEW e \in 0 .. 1, Deliver(v, e) PROVE IInv'
  BY <1>2, DeliverKeeps
<1>3. CASE Stub \/ CommonStub
  BY <1>3, StubKeeps, CommonStubKeeps
<1>4. CASE exceptionHandler \/ irqHandler \/ HandlerReturns
  BY <1>4, CKeeps
<1>5. CASE Leave
  BY <1>5, LeaveKeeps
<1>6. ASSUME NEW v \in Raised \cap IRQ, NEW h \in {NULL, "h"}, registerInterruptHandler(v, h)
      PROVE  IInv'
  <2>1. v \in Vectors
    BY InterruptConstants
  <2> QED
    BY <1>6, <2>1, RegisterKeeps
<1>7. CASE UNCHANGED vars
  BY <1>7, UnchangedKeeps
<1> QED
  BY <1>1, <1>2, <1>3, <1>4, <1>5, <1>6, <1>7 DEF Next

(* It holds before initIDT: no interrupt, nothing on the stack.            *)
LEMMA InitHolds == ASSUME Init PROVE IInv
<1>1. /\ at = <<"isr_gates", 0>> /\ ctx = <<>> /\ Len(ctx) = 0 /\ stack = <<>> /\ Len(stack) = 0
      /\ IF0 = FALSE /\ loaded = FALSE /\ i = 0
  BY DEF Init
<1>2. PlaceAt(0) = <<"isr_gates", 0>> /\ HeightAt(0) = 0 /\ FlagAt(0) = FALSE
  BY <1>1 DEF PlaceAt, HeightAt, FlagAt
<1>3. TypeOK
  <2>1. <<"isr_gates", 0>> \in Places
    BY DEF Places, Boot, Vectors
  <2>2. regs \in [Saved -> RegWords]
    BY DEF Init, RegWords
  <2>3. interruptHandlers \in [Vectors -> {NULL, "h"}] /\ DOMAIN entries = Vectors
    BY DEF Init
  <2>4. stack \in Seq(Words) /\ ctx \in Seq(Contexts)
    BY <1>1
  <2>5. IF0 \in BOOLEAN /\ loaded \in BOOLEAN
    BY Zenon DEF Init
  <2>6. at \in Places /\ i \in 0 .. 255
    BY <2>1 DEF Init
  <2> QED
    BY <2>2, <2>3, <2>4, <2>5, <2>6 DEF TypeOK
<1>4. Frames
  BY <1>1 DEF Frames
<1>5. BootCode
  BY <1>1, <1>2 DEF BootCode, Boot
<1>6. GatesSet
  BY <1>1, <1>2 DEF GatesSet, Vectors
<1> QED
  BY <1>3, <1>4, <1>5, <1>6 DEF IInv

-----------------------------------------------------------------------------
(* What the handlers rely on follows from the frame on top.                *)

(* The frame pointer leads to the number and the error code.               *)
LEMMA NumberAndErrorSeen == ASSUME IInv PROVE FrameTellsVector /\ CallAligned
<1> SUFFICES ASSUME InHandler
             PROVE  /\ LET c == ctx[Len(ctx)] IN
                       /\ stack[regs["rdi"][2] - Field["intNo"]] = <<"n", c.vector>>
                       /\ stack[regs["rdi"][2] - Field["errCode"]] = <<"err", c.error>>
                    /\ (Len(stack) - 1) % 2 = 0
  BY DEF FrameTellsVector, CallAligned
<1> PICK D \in Nat : D = Len(ctx)
  BY LenProperties DEF IInv, TypeOK
<1> DEFINE b == Base(D)
<1>1. at[1] \in {"exceptionHandler", "irqHandler"} /\ at[1] \in Code
  BY DEF InHandler, Code
<1>2. /\ FrameOf(D) /\ b \in Nat /\ b % 2 = 0
      /\ PlaceAt(D) = at /\ HeightAt(D) = Len(stack) /\ RegsAt(D) = regs
  BY <1>1, TopFrame
<1>3. Len(stack) = b + 17 /\ StubPushed(D) /\ regs["rdi"] = <<"frame", b + 16>>
  BY <1>1, <1>2 DEF FrameOf, InC
<1>4. /\ stack[b + 7] = <<"n", ctx[D].vector>> /\ stack[b + 6] = <<"err", ctx[D].error>>
  BY <1>3 DEF StubPushed, ErrorPushed
<1> HIDE DEF b
<1>5. /\ regs["rdi"][2] - Field["intNo"] = b + 7
      /\ regs["rdi"][2] - Field["errCode"] = b + 6
  BY <1>2, <1>3 DEF Field
<1>6. (Len(stack) - 1) % 2 = 0
  BY <1>2, <1>3
<1> QED
  BY <1>4, <1>5, <1>6

(* At every depth of nesting each frame lies where its level's code takes  *)
(* it to be, above all that the interrupted levels use.                    *)
THEOREM Invariance == Spec => []IInv
<1>1. Init => IInv
  BY InitHolds
<1>2. IInv /\ [Next]_vars => IInv'
  BY NextKeeps
<1> QED
  BY <1>1, <1>2, PTL DEF Spec

(* Places, words and contexts keep their types.                            *)
THEOREM TypeCorrect == Spec => []TypeOK
<1>1. IInv => TypeOK
  BY DEF IInv
<1> QED
  BY <1>1, Invariance, PTL

(* From lidt on every vector has a gate to its own stub, flag cleared: the *)
(* address that setIDTEntry64 splits is whole again in the CPU.            *)
THEOREM AlwaysGatesReady == Spec => []GatesReady
<1>1. IInv => GatesReady
  BY GatesLead
<1> QED
  BY <1>1, Invariance, PTL

(* exceptionHandler and irqHandler read the vector that was delivered and  *)
(* its error code or 0, whatever was interrupted.                          *)
THEOREM AlwaysFrameTellsVector == Spec => []FrameTellsVector
<1>1. IInv => FrameTellsVector
  BY NumberAndErrorSeen
<1> QED
  BY <1>1, Invariance, PTL

(* The common stubs call C on a 16-byte aligned stack.                     *)
THEOREM AlwaysCallAligned == Spec => []CallAligned
<1>1. IInv => CallAligned
  BY NumberAndErrorSeen
<1> QED
  BY <1>1, Invariance, PTL

(* X64_POPAD and iretq put back the context that was interrupted, at every *)
(* depth of nesting and although interrupts arrive in between.             *)
THEOREM AlwaysContextRestored == Spec => []ContextRestored
<1>1. IInv => ContextRestored
  BY Restored
<1> QED
  BY <1>1, Invariance, PTL
=============================================================================

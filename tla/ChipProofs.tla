---------------------------- MODULE ChipProofs -----------------------------
(***************************************************************************)
(* The processor and the Speech/Sound Cartridge.                            *)
(*                                                                          *)
(* Cpu, for both builds and every bound on stack and W.  Taking an interrupt *)
(* is two moves: a frame is pushed (or CWAI's is used), and the handler is  *)
(* entered.  Between the two the stack has one frame more than there are    *)
(* handlers; Shape(c, n) is the invariant with n such frames, and each      *)
(* operator is shown to move from one n to the other.                       *)
(*                                                                          *)
(* Ssc, for rings of any size whose indices wrap at any multiple of it:     *)
(* neither core of the cartridge overwrites what the other may still read,  *)
(* and READY says the truth.                                                *)
(***************************************************************************)
EXTENDS Cpu, Ssc, ModTheorems, FiniteSetTheorems, SequenceTheorems, TLAPS

Shape(c, n) ==
  /\ c \in MC6809
  /\ Len(c.stack) = Len(c.entered) + n
  /\ \A i \in 1 .. Len(c.stack) : Tells(c.stack[i], c.md)
  /\ \A i \in 1 .. Len(c.entered) : Unmasked(c.entered[i], c.stack[i])

\* A sequence with one element more.
LEMMA Appended ==
  ASSUME NEW S, NEW s \in Seq(S), NEW x \in S
  PROVE  /\ Append(s, x) \in Seq(S)
         /\ Len(Append(s, x)) = Len(s) + 1
         /\ Top(Append(s, x)) = x
         /\ \A i \in 1 .. Len(s) : Append(s, x)[i] = s[i]
BY DEF Top

\* A sequence without its last element.
LEMMA Shortened ==
  ASSUME NEW S, NEW s \in Seq(S), s # <<>>
  PROVE  /\ Rest(s) \in Seq(S)
         /\ Len(Rest(s)) = Len(s) - 1
         /\ \A i \in 1 .. Len(Rest(s)) : Rest(s)[i] = s[i]
         /\ Top(s) \in S
<1>1. Len(s) \in Nat \ {0} /\ s \in [1 .. Len(s) -> S]
  OBVIOUS
<1>2. Rest(s) = [i \in 1 .. Len(s) - 1 |-> s[i]]
  BY <1>1 DEF Rest
<1>3. Rest(s) \in Seq(S) /\ Len(Rest(s)) = Len(s) - 1
  BY <1>1 DEF Rest
<1> QED
  BY <1>1, <1>2, <1>3 DEF Top

\* A push adds one frame that tells what it is.
LEMMA Pushed ==
  ASSUME NEW c, Shape(c, 0), NEW f \in Frame, Tells(f, c.md), NEW cc \in SUBSET CC
  PROVE  /\ Shape([c EXCEPT !.cc = cc, !.stack = Append(c.stack, f)], 1)
         /\ Top([c EXCEPT !.cc = cc, !.stack = Append(c.stack, f)].stack) = f
<1> DEFINE p == [c EXCEPT !.cc = cc, !.stack = Append(c.stack, f)]
<1>c. c \in MC6809
  BY DEF Shape
<1>s. c.stack \in Seq(Frame)
  BY <1>c DEF MC6809
<1>1. p \in MC6809
  BY <1>c, <1>s, Appended DEF MC6809
<1>2. p.stack = Append(c.stack, f) /\ p.entered = c.entered /\ p.md = c.md
  BY <1>c DEF MC6809
<1>3. Len(p.stack) = Len(p.entered) + 1
  BY <1>c, <1>2, <1>s, Appended DEF Shape, MC6809
<1> HIDE DEF p
<1>4. \A i \in 1 .. Len(p.stack) : Tells(p.stack[i], p.md)
  <2> TAKE i \in 1 .. Len(p.stack)
  <2>1. CASE i \in 1 .. Len(c.stack)
    BY <2>1, <1>2, <1>s, Appended DEF Shape
  <2>2. CASE i = Len(c.stack) + 1
    BY <2>2, <1>2, <1>s, Appended DEF Top
  <2> QED
    BY <2>1, <2>2, <1>2, <1>s, Appended
<1>5. \A i \in 1 .. Len(p.entered) : Unmasked(p.entered[i], p.stack[i])
  BY <1>2, <1>s, Appended DEF Shape
<1>6. Shape(p, 1) /\ Top(p.stack) = f
  BY <1>1, <1>2, <1>3, <1>4, <1>5, <1>s, Appended DEF Shape
<1> QED
  BY <1>6 DEF p

\* What the interrupts and the instructions push is such a frame.
LEMMA PushShape ==
  ASSUME NEW c, Shape(c, 0)
  PROVE  /\ Shape(PushEntire(c), 1) /\ Shape(PushFast(c), 1)
         /\ PushEntire(c).cc = c.cc \cup {"E"} /\ Top(PushEntire(c).stack).cc = c.cc \cup {"E"}
         /\ Top(PushFast(c).stack).cc = c.cc \ {"E"}
<1> USE CpuAssumption
<1>c. c \in MC6809
  BY DEF Shape
<1>t. c.cc \subseteq CC /\ c.w \in W /\ 0 \in W /\ c.tfm \in BOOLEAN /\ Native(c) \in BOOLEAN
  BY <1>c DEF MC6809, Native, W
<1>u. c.cc \cup {"E"} \in SUBSET CC /\ c.cc \ {"E"} \in SUBSET CC
  BY <1>t DEF CC
<1> DEFINE f == [cc |-> c.cc \cup {"E"}, entire |-> TRUE, ef |-> Native(c),
                 w |-> IF Native(c) THEN c.w ELSE 0, tfm |-> c.tfm]
           g == [cc |-> c.cc \ {"E"}, entire |-> FALSE, ef |-> FALSE, w |-> 0, tfm |-> c.tfm]
<1>f. f \in Frame /\ Tells(f, c.md) /\ f.cc = c.cc \cup {"E"}
  <2>1. f \in Frame
    BY <1>t, <1>u DEF Frame
  <2>2. f.entire = TRUE /\ f.ef = Native(c) /\ "E" \in f.cc
    OBVIOUS
  <2> HIDE DEF f
  <2>3. f.entire = ("E" \in f.cc)
    BY <2>1, <2>2 DEF Frame
  <2>4. f.ef = (f.entire /\ "NM" \in c.md)
    BY <2>1, <2>2 DEF Frame, Native
  <2> QED
    BY <2>1, <2>3, <2>4 DEF Tells, f
<1>g. g \in Frame /\ Tells(g, c.md) /\ g.cc = c.cc \ {"E"}
  <2>1. g \in Frame
    BY <1>t, <1>u DEF Frame
  <2>2. g.entire = FALSE /\ g.ef = FALSE /\ "E" \notin g.cc
    OBVIOUS
  <2> HIDE DEF g
  <2>3. g.entire = ("E" \in g.cc) /\ g.ef = (g.entire /\ "NM" \in c.md)
    BY <2>1, <2>2 DEF Frame
  <2> QED
    BY <2>1, <2>3 DEF Tells, g
<1>p. PushEntire(c) = [c EXCEPT !.cc = c.cc \cup {"E"}, !.stack = Append(c.stack, f)]
  BY Zenon DEF PushEntire
<1>q. PushFast(c) = [c EXCEPT !.cc = c.cc \ {"E"}, !.stack = Append(c.stack, g)]
  BY Zenon DEF PushFast
<1>r. PushEntire(c).cc = c.cc \cup {"E"}
  BY <1>c, <1>p DEF MC6809
<1> HIDE DEF f, g
<1>1. Shape(PushEntire(c), 1) /\ Top(PushEntire(c).stack) = f
  <2>1. /\ Shape([c EXCEPT !.cc = c.cc \cup {"E"}, !.stack = Append(c.stack, f)], 1)
        /\ Top([c EXCEPT !.cc = c.cc \cup {"E"}, !.stack = Append(c.stack, f)].stack) = f
    BY <1>f, <1>u, Pushed, Zenon
  <2> QED
    BY <1>p, <2>1, Zenon
<1>2. Shape(PushFast(c), 1) /\ Top(PushFast(c).stack) = g
  <2>1. /\ Shape([c EXCEPT !.cc = c.cc \ {"E"}, !.stack = Append(c.stack, g)], 1)
        /\ Top([c EXCEPT !.cc = c.cc \ {"E"}, !.stack = Append(c.stack, g)].stack) = g
    BY <1>g, <1>u, Pushed, Zenon
  <2> QED
    BY <1>q, <2>1, Zenon
<1> QED
  BY <1>f, <1>g, <1>r, <1>1, <1>2

\* Entering a handler takes the frame on top for its own.
LEMMA VectorShape ==
  ASSUME NEW c, Shape(c, 1), NEW by \in {"nmi", "firq", "irq", "sw"}, NEW masks \in SUBSET CC,
         by = "irq" => "I" \notin Top(c.stack).cc,
         by = "firq" => "F" \notin Top(c.stack).cc
  PROVE  /\ Shape(Vector(c, by, masks), 0)
         /\ ~Vector(c, by, masks).cwai_state
         /\ ~Vector(c, by, masks).wait_for_interrupt
<1> USE CpuAssumption
<1> DEFINE e == [by |-> by, w |-> IF c.tfm THEN c.w ELSE 0, tfm |-> c.tfm]
           v == Vector(c, by, masks)
<1>c. c \in MC6809
  BY DEF Shape
<1>t. c.w \in W /\ 0 \in W /\ c.tfm \in BOOLEAN
  BY <1>c DEF MC6809, W
<1>e. e \in Entry /\ e.by = by
  BY <1>t DEF Entry
<1>v. v = [c EXCEPT !.cc = c.cc \cup masks, !.tfm = FALSE,
                    !.wait_for_interrupt = FALSE, !.cwai_state = FALSE,
                    !.entered = Append(c.entered, e)]
  BY Zenon DEF Vector
<1> HIDE DEF e, v
<1>s. c.entered \in Seq(Entry) /\ c.stack \in Seq(Frame)
  BY <1>c DEF MC6809
<1>1. v \in MC6809 /\ v.stack = c.stack /\ v.entered = Append(c.entered, e) /\ v.md = c.md
      /\ ~v.cwai_state /\ ~v.wait_for_interrupt
  BY <1>c, <1>e, <1>s, <1>v, Appended DEF MC6809
<1>2. Len(v.stack) = Len(v.entered) + 0 /\ Len(c.stack) = Len(c.entered) + 1
  BY <1>1, <1>s, <1>e, Appended DEF Shape
<1>3. ASSUME NEW i \in 1 .. Len(v.entered) PROVE Unmasked(v.entered[i], v.stack[i])
  <2>1. CASE i \in 1 .. Len(c.entered)
    BY <2>1, <1>1, <1>s, <1>e, Appended DEF Shape
  <2>2. CASE i = Len(c.entered) + 1
    <3>1. v.entered[i] = e /\ v.stack[i] = Top(c.stack)
      BY <2>2, <1>1, <1>2, <1>s, <1>e, Appended DEF Top
    <3> QED
      BY <3>1, <1>e DEF Unmasked
  <2> QED
    BY <2>1, <2>2, <1>1, <1>s, <1>e, Appended
<1>4. Shape(v, 0)
  BY <1>1, <1>2, <1>3 DEF Shape
<1> QED
  BY <1>4, <1>1 DEF v

\* The invariant of a CPU c between two passes.
Held(c) ==
  /\ Shape(c, IF c.cwai_state THEN 1 ELSE 0)
  /\ c.cwai_state => c.wait_for_interrupt /\ Top(c.stack).cc = c.cc

\* Held is CpuInv, stated of any CPU.
LEMMA HeldIsInv == CpuInv <=> Held(cpu)
BY Zenon DEF CpuInv, Held, Shape, OneFrameEach, FramesMatch, ServedIsUnmasked

\* Taking an interrupt leaves one frame for each handler, and nothing waits.
Entered(c) == Shape(c, 0) /\ ~c.cwai_state /\ ~c.wait_for_interrupt

\* NMI, by CWAI's frame or its own.
LEMMA TakeNmiHeld ==
  ASSUME NEW c, Held(c)
  PROVE  Entered(TakeNmi(c))
<1> DEFINE n == [c EXCEPT !.nmi_pending = FALSE, !.nmi_line = FALSE]
<1>c. c \in MC6809
  BY DEF Held, Shape
<1>1. n \in MC6809 /\ n.stack = c.stack /\ n.entered = c.entered /\ n.md = c.md
      /\ n.cwai_state = c.cwai_state
  BY <1>c DEF MC6809
<1>2. Shape(n, IF c.cwai_state THEN 1 ELSE 0)
  BY <1>1 DEF Held, Shape
<1> DEFINE q == IF c.cwai_state THEN n ELSE PushEntire(n)
<1>t. TakeNmi(c) = Vector(q, "nmi", {"F", "I"})
  BY Zenon DEF TakeNmi
<1> HIDE DEF n
<1>3. Shape(q, 1)
  BY <1>2, PushShape
<1> HIDE DEF q
<1> QED
  BY <1>3, <1>t, VectorShape DEF CC, Entered

\* FIRQ, by CWAI's frame, an entire one or a fast one.
LEMMA TakeFirqHeld ==
  ASSUME NEW c, Held(c), "F" \notin c.cc
  PROVE  Entered(TakeFirq(c))
<1> DEFINE q == FirqFrame(c)
<1>1. Shape(q, 1) /\ "F" \notin Top(q.stack).cc
  BY PushShape DEF FirqFrame, Held
<1>t. TakeFirq(c) = Vector(q, "firq", {"F", "I"})
  BY Zenon DEF TakeFirq
<1> HIDE DEF q
<1> QED
  BY <1>1, <1>t, VectorShape DEF CC, Entered

\* IRQ, by CWAI's frame or its own.
LEMMA TakeIrqHeld ==
  ASSUME NEW c, Held(c), "I" \notin c.cc
  PROVE  Entered(TakeIrq(c))
<1> DEFINE q == IF c.cwai_state THEN c ELSE PushEntire(c)
<1>1. Shape(q, 1) /\ "I" \notin Top(q.stack).cc
  BY PushShape DEF Held
<1>t. TakeIrq(c) = Vector(q, "irq", {"I"})
  BY Zenon DEF TakeIrq
<1> HIDE DEF q
<1> QED
  BY <1>1, <1>t, VectorShape DEF CC, Entered

\* check_interrupts() takes one interrupt or leaves the CPU as it is.
LEMMA CheckedHeld ==
  ASSUME NEW c, Held(c)
  PROVE  CheckInterrupts(c) = c \/ Entered(CheckInterrupts(c))
BY TakeNmiHeld, TakeFirqHeld, TakeIrqHeld DEF CheckInterrupts

\* A pass with an instruction is not one of CWAI's wait.
LEMMA NotInCwai ==
  ASSUME Held(cpu), ~Waits(Checked)
  PROVE  ~Checked.cwai_state
BY CheckedHeld DEF Checked, Held, Entered, Waits

\* The instruction finds a CPU that does not wait, with a frame for each handler.
LEMMA NowHeld ==
  ASSUME Held(cpu), ~Checked.cwai_state
  PROVE  Entered(Now)
<1> DEFINE k == Checked
<1>1. Held(k)
  BY CheckedHeld DEF Checked, Held, Entered
<1>2. ~k.cwai_state
  OBVIOUS
<1>3. Shape(k, 0)
  BY <1>1, <1>2 DEF Held
<1>4. Now = [k EXCEPT !.wait_for_interrupt = FALSE]
  BY DEF Now
<1> HIDE DEF k
<1>5. Now \in MC6809 /\ Now.stack = k.stack /\ Now.entered = k.entered /\ Now.md = k.md
      /\ Now.cwai_state = k.cwai_state /\ ~Now.wait_for_interrupt
  BY <1>3, <1>4 DEF Shape, MC6809
<1> QED
  BY <1>2, <1>3, <1>5 DEF Shape, Entered

-----------------------------------------------------------------------------
(* The instructions.                                                        *)

\* An instruction that changes no more than CC, W, the TFM in progress, NMI's arming
\* or the wait for SYNC.
LEMMA PlainHeld ==
  ASSUME NEW c, Entered(c), NEW d \in MC6809,
         d.stack = c.stack, d.entered = c.entered, d.md = c.md, d.cwai_state = c.cwai_state
  PROVE  Held(d)
BY DEF Entered, Shape, Held

\* Every instruction leaves a CPU the invariant holds of.
LEMMA InstructionHeld ==
  ASSUME NEW c, Entered(c), Instruction(c)
  PROVE  Held(cpu')
<1> USE CpuAssumption
<1>c. c \in MC6809 /\ Shape(c, 0) /\ ~c.cwai_state
  BY DEF Entered, Shape
<1>1. ASSUME NEW cc \in Masks, SetCC(c, cc) PROVE Held(cpu')
  <2>1. cc \in SUBSET CC
    BY DEF CC
  <2>2. cpu' \in MC6809 /\ cpu'.stack = c.stack /\ cpu'.entered = c.entered
        /\ cpu'.md = c.md /\ cpu'.cwai_state = c.cwai_state
    BY <1>1, <1>c, <2>1 DEF SetCC, MC6809
  <2> QED
    BY <2>2, PlainHeld
<1>2. ASSUME NEW cc \in Masks, Cwai(c, cc) PROVE Held(cpu')
  <2> DEFINE a == [c EXCEPT !.cc = cc \cap c.cc]
             p == PushEntire(a)
             q == [p EXCEPT !.wait_for_interrupt = TRUE, !.cwai_state = TRUE]
  <2>1. a \in MC6809 /\ a.stack = c.stack /\ a.entered = c.entered /\ a.md = c.md
    BY <1>c DEF MC6809
  <2>2. cpu' = q
    BY <1>2, Zenon DEF Cwai
  <2> HIDE DEF a
  <2>3. Shape(a, 0)
    BY <2>1, <1>c DEF Shape
  <2>4. Shape(p, 1) /\ Top(p.stack).cc = p.cc
    BY <2>3, PushShape
  <2> HIDE DEF p
  <2>5. q \in MC6809 /\ q.stack = p.stack /\ q.entered = p.entered /\ q.md = p.md /\ q.cc = p.cc
        /\ q.cwai_state = TRUE /\ q.wait_for_interrupt = TRUE
    BY <2>4 DEF Shape, MC6809
  <2> HIDE DEF q
  <2>6. Shape(q, 1)
    BY <2>4, <2>5 DEF Shape
  <2> QED
    BY <2>2, <2>4, <2>5, <2>6 DEF Held
<1>3. ASSUME ArmNmi(c) PROVE Held(cpu')
  <2>1. cpu' \in MC6809 /\ cpu'.stack = c.stack /\ cpu'.entered = c.entered
        /\ cpu'.md = c.md /\ cpu'.cwai_state = c.cwai_state
    BY <1>3, <1>c DEF ArmNmi, MC6809
  <2> QED
    BY <2>1, PlainHeld
<1>4. ASSUME Sync(c) PROVE Held(cpu')
  <2>1. cpu' \in MC6809 /\ cpu'.stack = c.stack /\ cpu'.entered = c.entered
        /\ cpu'.md = c.md /\ cpu'.cwai_state = c.cwai_state
    BY <1>4, <1>c DEF Sync, MC6809
  <2> QED
    BY <2>1, PlainHeld
<1>5. ASSUME NEW masks \in SUBSET CC, cpu' = Vector(PushEntire(c), "sw", masks) PROVE Held(cpu')
  BY <1>5, <1>c, PushShape, VectorShape DEF Held
<1>6. ASSUME Swi(c) \/ Trap(c) PROVE Held(cpu')
  BY <1>5, <1>6 DEF Swi, Trap, CC
<1>7. ASSUME Rti(c) PROVE Held(cpu')
  <2> DEFINE f == Top(c.stack)
             d == Pulled(c, f)
  <2>1. c.stack \in Seq(Frame) /\ c.entered \in Seq(Entry) /\ c.stack # <<>>
        /\ Len(c.stack) = Len(c.entered) /\ cpu' = d
    BY <1>7, <1>c DEF Rti, MC6809, Shape
  <2>2. c.entered # <<>> /\ f \in Frame
    BY <2>1, Shortened
  <2>3. d \in MC6809 /\ d.stack = Rest(c.stack) /\ d.entered = Rest(c.entered) /\ d.md = c.md
        /\ d.cwai_state = c.cwai_state
    BY <1>c, <2>1, <2>2, Shortened DEF Pulled, MC6809, Frame
  <2> HIDE DEF d
  <2>4. Shape(d, 0)
    <3>1. Len(d.stack) = Len(d.entered) + 0 /\ Len(d.stack) = Len(c.stack) - 1
      BY <2>1, <2>2, <2>3, Shortened
    <3>2. \A i \in 1 .. Len(d.stack) : i \in 1 .. Len(c.stack) /\ d.stack[i] = c.stack[i]
                                       /\ d.entered[i] = c.entered[i]
      <4> TAKE i \in 1 .. Len(d.stack)
      <4>1. Rest(c.stack)[i] = c.stack[i]
        BY <2>1, <2>3, Shortened, SMTT(20)
      <4>2. i \in 1 .. Len(Rest(c.entered))
        BY <2>3, <3>1
      <4>3. Rest(c.entered)[i] = c.entered[i]
        BY <2>1, <2>2, <4>2, Shortened
      <4>4. i \in 1 .. Len(c.stack)
        BY <2>1, <3>1
      <4> QED
        BY <2>3, <4>1, <4>3, <4>4
    <3>3. \A i \in 1 .. Len(d.stack) : Tells(d.stack[i], d.md)
      BY <1>c, <2>3, <3>2 DEF Shape
    <3>4. \A i \in 1 .. Len(d.entered) : Unmasked(d.entered[i], d.stack[i])
      <4> TAKE i \in 1 .. Len(d.entered)
      <4>1. i \in 1 .. Len(d.stack) /\ i \in 1 .. Len(c.entered)
        BY <2>1, <3>1, <3>2
      <4> QED
        BY <1>c, <3>2, <4>1 DEF Shape
    <3> QED
      BY <2>3, <3>1, <3>3, <3>4 DEF Shape
  <2> QED
    BY <1>c, <2>1, <2>3, <2>4 DEF Held
<1>8. ASSUME Tfm(c) PROVE Held(cpu')
  <2>1. c.w - 1 \in W
    BY <1>8, <1>c DEF Tfm, MC6809, W
  <2> DEFINE n == c.w - 1
             b == c.w > 1
  <2>2. b \in BOOLEAN /\ cpu' = [c EXCEPT !.w = n, !.tfm = b]
    BY <1>8, <1>c DEF Tfm, MC6809
  <2> HIDE DEF n, b
  <2>3. cpu' \in MC6809 /\ cpu'.stack = c.stack /\ cpu'.entered = c.entered
        /\ cpu'.md = c.md /\ cpu'.cwai_state = c.cwai_state
    BY <1>c, <2>1, <2>2 DEF MC6809, n
  <2> QED
    BY <2>3, PlainHeld
<1>9. ASSUME NEW md \in Modes, Ldmd(c, md) PROVE Held(cpu')
  <2>1. md \in SUBSET MD
    BY DEF MD
  <2>2. cpu' \in MC6809 /\ cpu'.stack = c.stack /\ cpu'.entered = c.entered
        /\ cpu'.cwai_state = c.cwai_state /\ c.stack = <<>>
    BY <1>9, <1>c, <2>1 DEF Ldmd, MC6809
  <2> QED
    BY <1>c, <2>2 DEF Shape, Held
<1>10. ASSUME NEW w \in W, LoadW(c, w) PROVE Held(cpu')
  <2>1. cpu' \in MC6809 /\ cpu'.stack = c.stack /\ cpu'.entered = c.entered
        /\ cpu'.md = c.md /\ cpu'.cwai_state = c.cwai_state
    BY <1>10, <1>c DEF LoadW, MC6809
  <2> QED
    BY <2>1, PlainHeld
<1> QED
  BY <1>1, <1>2, <1>3, <1>4, <1>6, <1>7, <1>8, <1>9, <1>10 DEF Instruction

-----------------------------------------------------------------------------
\* Every pass, reset and change of a line preserves the invariant.
LEMMA NextHeld == CpuInv /\ [CpuNext]_cpu => CpuInv'
<1> SUFFICES ASSUME Held(cpu), [CpuNext]_cpu
             PROVE  Held(cpu')
  <2>1. CpuInv => Held(cpu)
    BY HeldIsInv
  <2>2. Held(cpu') => CpuInv'
    BY Zenon DEF CpuInv, Held, Shape, OneFrameEach, FramesMatch, ServedIsUnmasked
  <2> QED
    BY <2>1, <2>2
<1> USE CpuAssumption
<1>c. cpu \in MC6809
  BY DEF Held, Shape
<1>1. ASSUME Step PROVE Held(cpu')
  BY <1>1, NotInCwai, NowHeld, InstructionHeld DEF Step
<1>2. ASSUME Reset PROVE Held(cpu')
  <2>1. cpu' \in MC6809 /\ cpu'.stack = <<>> /\ cpu'.entered = <<>> /\ cpu'.cwai_state = FALSE
    BY <1>2, <1>c DEF Reset, AfterReset, MC6809, CC
  <2> QED
    BY <2>1 DEF Held, Shape
<1>3. ASSUME NEW d \in MC6809, cpu' = d, d.stack = cpu.stack, d.entered = cpu.entered, d.md = cpu.md,
             d.cwai_state = cpu.cwai_state, d.wait_for_interrupt = cpu.wait_for_interrupt,
             d.cc = cpu.cc
      PROVE  Held(cpu')
  BY <1>3 DEF Held, Shape
<1>4. ASSUME NEW b \in BOOLEAN, Nmi(b) PROVE Held(cpu')
  <2> DEFINE p == cpu.nmi_pending \/ (b /\ ~cpu.nmi_line)
             d == [cpu EXCEPT !.nmi_pending = p, !.nmi_line = b]
  <2>1. p \in BOOLEAN
    OBVIOUS
  <2>2. cpu' = d
    BY <1>4, Zenon DEF Nmi, NmiSet
  <2> HIDE DEF p
  <2>3. d \in MC6809 /\ d.stack = cpu.stack /\ d.entered = cpu.entered /\ d.md = cpu.md
        /\ d.cwai_state = cpu.cwai_state /\ d.wait_for_interrupt = cpu.wait_for_interrupt
        /\ d.cc = cpu.cc
    BY <1>c, <2>1 DEF MC6809
  <2> HIDE DEF d
  <2> QED
    BY <1>3, <2>2, <2>3
<1>5. ASSUME NEW firq \in BOOLEAN, NEW irq \in BOOLEAN, Lines(firq, irq) PROVE Held(cpu')
  <2> DEFINE d == [cpu EXCEPT !.firq_pending = firq, !.irq_pending = irq]
  <2>1. cpu' = d
    BY <1>5 DEF Lines
  <2>2. d \in MC6809 /\ d.stack = cpu.stack /\ d.entered = cpu.entered /\ d.md = cpu.md
        /\ d.cwai_state = cpu.cwai_state /\ d.wait_for_interrupt = cpu.wait_for_interrupt
        /\ d.cc = cpu.cc
    BY <1>c DEF MC6809
  <2> HIDE DEF d
  <2> QED
    BY <1>3, <2>1, <2>2
<1> QED
  BY <1>1, <1>2, <1>4, <1>5 DEF CpuNext

\* The invariant holds after power-up.
LEMMA InitHeld == CpuInit => CpuInv
<1> USE CpuAssumption
<1>1. ASSUME CpuInit
      PROVE  cpu \in MC6809 /\ cpu.stack = <<>> /\ cpu.entered = <<>> /\ cpu.cwai_state = FALSE
  BY <1>1 DEF CpuInit, AfterReset, MC6809, CC, W
<1>2. ASSUME CpuInit PROVE Held(cpu)
  <2>1. cpu \in MC6809 /\ cpu.stack = <<>> /\ cpu.entered = <<>> /\ cpu.cwai_state = FALSE
    BY <1>1, <1>2
  <2> QED
    BY <2>1 DEF Held, Shape
<1> QED
  BY <1>2, HeldIsInv

\* The invariant of the run loop, in both builds.
THEOREM CpuCorrect == CpuSpec => []CpuInv
BY InitHeld, NextHeld, PTL DEF CpuSpec

\* RTI takes from the stack what the interrupt put there.
THEOREM CpuFrames == CpuSpec => []FramesMatch
<1>1. CpuInv => FramesMatch
  BY DEF CpuInv
<1> QED
  BY <1>1, CpuCorrect, PTL

\* Each handler has one frame to return by, whether or not CWAI stacked it.
THEOREM CpuOneFrame == CpuSpec => []OneFrameEach
<1>1. CpuInv => OneFrameEach
  BY DEF CpuInv
<1> QED
  BY <1>1, CpuCorrect, PTL

\* A handler's RTI unmasks the interrupt it served.
THEOREM CpuUnmasks == CpuSpec => []ServedIsUnmasked
<1>1. CpuInv => ServedIsUnmasked
  BY DEF CpuInv
<1> QED
  BY <1>1, CpuCorrect, PTL


-----------------------------------------------------------------------------
(* Interrupts take nothing from the program.                                *)

\* Where an interrupted program finds its W does not change with a push, ...
LEMMA ResumesPushed ==
  ASSUME NEW s \in Seq(Frame), NEW f \in Frame, NEW w \in W, NEW v \in W,
         NEW i \in 1 .. Len(s), Resumes(s, w, i, v), f.ef => f.w = w
  PROVE  Resumes(Append(s, f), w, i, v)
<1> DEFINE t == Append(s, f)
<1>1. /\ Len(t) = Len(s) + 1 /\ t[Len(s) + 1] = f /\ \A k \in 1 .. Len(s) : t[k] = s[k]
      /\ Len(s) \in Nat
  BY Appended DEF Top
<1> HIDE DEF t
<1>2. ASSUME NEW j \in i .. Len(s), s[j].ef, s[j].w = v, \A k \in i .. j - 1 : ~s[k].ef
      PROVE  Resumes(t, w, i, v)
  <2>1. j \in i .. Len(t) /\ t[j] = s[j] /\ \A k \in i .. j - 1 : t[k] = s[k]
    BY <1>1, <1>2
  <2> QED
    BY <1>2, <2>1 DEF Resumes
<1>3. ASSUME w = v, \A k \in i .. Len(s) : ~s[k].ef
      PROVE  Resumes(t, w, i, v)
  <2>1. \A k \in i .. Len(s) : ~t[k].ef
    BY <1>1, <1>3
  <2>2. CASE f.ef
    <3>1. Len(t) \in i .. Len(t) /\ t[Len(t)].ef /\ t[Len(t)].w = v
      BY <1>1, <1>3, <2>2
    <3>2. \A k \in i .. Len(t) - 1 : ~t[k].ef
      BY <1>1, <2>1
    <3> QED
      BY <3>1, <3>2 DEF Resumes
  <2>3. CASE ~f.ef
    <3>1. \A k \in i .. Len(t) : ~t[k].ef
      BY <1>1, <2>1, <2>3
    <3> QED
      BY <1>3, <3>1 DEF Resumes
  <2> QED
    BY <2>2, <2>3
<1> QED
  BY <1>2, <1>3 DEF Resumes, t

\* ... nor with what the program whose frame holds W does with it, ...
LEMMA ResumesOwned ==
  ASSUME NEW s \in Seq(Frame), NEW w, NEW x, NEW v,
         NEW i \in 1 .. Len(s), Resumes(s, w, i, v), Top(s).ef
  PROVE  Resumes(s, x, i, v)
<1>1. Len(s) \in i .. Len(s) /\ s[Len(s)].ef
  BY DEF Top
<1> QED
  BY <1>1 DEF Resumes

\* ... nor with an RTI.
LEMMA ResumesPulled ==
  ASSUME NEW s \in Seq(Frame), s # <<>>, NEW w \in W, NEW v \in W,
         NEW i \in 1 .. Len(s) - 1, Resumes(s, w, i, v)
  PROVE  Resumes(Rest(s), IF Top(s).ef THEN Top(s).w ELSE w, i, v)
<1> DEFINE t == Rest(s)
           x == IF Top(s).ef THEN Top(s).w ELSE w
<1>1. Len(t) = Len(s) - 1 /\ Len(s) \in Nat /\ \A k \in 1 .. Len(t) : t[k] = s[k]
  BY Shortened
<1>t. Top(s) = s[Len(s)]
  BY DEF Top
<1> HIDE DEF t
<1>2. ASSUME NEW j \in i .. Len(s), s[j].ef, s[j].w = v, \A k \in i .. j - 1 : ~s[k].ef
      PROVE  Resumes(t, x, i, v)
  <2>1. CASE j \in i .. Len(t)
    <3>1. t[j] = s[j] /\ \A k \in i .. j - 1 : t[k] = s[k]
      BY <1>1, <2>1
    <3> QED
      BY <1>2, <2>1, <3>1 DEF Resumes
  <2>2. CASE j = Len(s)
    <3>1. x = v
      BY <1>2, <1>t, <2>2
    <3>2. \A k \in i .. Len(t) : ~t[k].ef
      BY <1>1, <1>2, <2>2
    <3> QED
      BY <3>1, <3>2 DEF Resumes
  <2>3. j \in i .. Len(s) - 1 \/ j = Len(s)
    <3>1. Len(s) \in Nat
      BY <1>1
    <3> QED
      BY <3>1
  <2>4. Len(t) = Len(s) - 1
    BY <1>1
  <2> QED
    BY <2>1, <2>2, <2>3, <2>4, Zenon
<1>3. ASSUME w = v, \A k \in i .. Len(s) : ~s[k].ef
      PROVE  Resumes(t, x, i, v)
  <2>1. x = v
    BY <1>1, <1>3, <1>t
  <2>2. \A k \in i .. Len(t) : ~t[k].ef
    BY <1>1, <1>3
  <2> QED
    BY <2>1, <2>2 DEF Resumes
<1> QED
  BY <1>2, <1>3 DEF Resumes, t

\* The program under the last frame finds W there, or in the CPU.
LEMMA ResumesTop ==
  ASSUME NEW s \in Seq(Frame), s # <<>>, NEW w, NEW v
  PROVE  Resumes(s, w, Len(s), v) <=> (IF Top(s).ef THEN Top(s).w ELSE w) = v
<1>1. Len(s) \in Nat /\ \A j \in Len(s) .. Len(s) : j = Len(s)
  OBVIOUS
<1>2. Len(s) \in Len(s) .. Len(s) /\ \A k \in Len(s) .. Len(s) - 1 : FALSE
  BY <1>1
<1> QED
  BY <1>1, <1>2 DEF Resumes, Top


\* A frame has been pushed, and its handler not yet entered.
Saved(c) ==
  /\ c.stack # <<>> /\ TfmKept(c) /\ TfmOwned(c.stack)
  /\ Top(c.stack).tfm <=> c.tfm
  /\ c.tfm /\ Top(c.stack).ef => Top(c.stack).w = c.w

\* A push saves PC and, if it holds E and F, W.
LEMMA PushedSaves ==
  ASSUME NEW c, Shape(c, 0), WorkKept(c), NEW d \in MC6809, NEW f \in Frame,
         d.stack = Append(c.stack, f), d.entered = c.entered, d.w = c.w, d.tfm = c.tfm,
         f.tfm <=> c.tfm, f.ef => f.w = c.w
  PROVE  Saved(d)
<1>1. c.stack \in Seq(Frame) /\ c.entered \in Seq(Entry) /\ c.w \in W /\ Len(c.stack) = Len(c.entered)
  BY DEF Shape, MC6809
<1>2. /\ Len(d.stack) = Len(c.stack) + 1 /\ Top(d.stack) = f /\ d.stack[Len(c.stack) + 1] = f
      /\ \A i \in 1 .. Len(c.stack) : d.stack[i] = c.stack[i]
  BY <1>1, Appended DEF Top
<1>3. TfmKept(d)
  <2> SUFFICES ASSUME NEW i \in 1 .. Len(c.entered), c.entered[i].tfm
               PROVE  d.stack[i].tfm /\ Resumes(d.stack, c.w, i, c.entered[i].w)
    BY DEF TfmKept
  <2>1. i \in 1 .. Len(c.stack) /\ c.entered[i] \in Entry /\ c.entered[i].w \in W
    <3>1. c.entered[i] \in Entry
      BY <1>1
    <3> QED
      BY <1>1, <3>1 DEF Entry
  <2>2. c.stack[i].tfm /\ Resumes(c.stack, c.w, i, c.entered[i].w)
    BY DEF WorkKept, TfmKept
  <2> QED
    BY <1>1, <1>2, <2>1, <2>2, ResumesPushed
<1>4. TfmOwned(d.stack)
  <2> SUFFICES ASSUME NEW i \in 2 .. Len(d.stack), d.stack[i].tfm
               PROVE  d.stack[i - 1].ef
    BY DEF TfmOwned
  <2>1. CASE i \in 2 .. Len(c.stack)
    <3>1. i - 1 \in 1 .. Len(c.stack) /\ i \in 1 .. Len(c.stack)
      BY <1>1, <2>1
    <3> QED
      BY <1>2, <2>1, <3>1 DEF WorkKept, TfmOwned
  <2>2. CASE i = Len(c.stack) + 1
    <3>1. c.stack # <<>> /\ i - 1 = Len(c.stack) /\ Len(c.stack) \in 1 .. Len(c.stack)
      BY <1>1, <2>2
    <3>2. Top(c.stack).ef
      BY <1>2, <2>2, <3>1 DEF WorkKept
    <3> QED
      BY <1>2, <3>1, <3>2 DEF Top
  <2> QED
    BY <1>1, <1>2, <2>1, <2>2
<1>5. d.stack # <<>>
  BY <1>1
<1> QED
  BY <1>2, <1>3, <1>4, <1>5 DEF Saved

\* Both kinds of push do.
LEMMA PushSaves ==
  ASSUME NEW c, Shape(c, 0), WorkKept(c)
  PROVE  Saved(PushEntire(c)) /\ Saved(PushFast(c))
<1> USE CpuAssumption
<1>c. c \in MC6809 /\ c.w \in W /\ c.tfm \in BOOLEAN /\ c.cc \in SUBSET CC
  BY DEF Shape, MC6809
<1> DEFINE f == [cc |-> c.cc \cup {"E"}, entire |-> TRUE, ef |-> Native(c),
                 w |-> IF Native(c) THEN c.w ELSE 0, tfm |-> c.tfm]
           g == [cc |-> c.cc \ {"E"}, entire |-> FALSE, ef |-> FALSE, w |-> 0, tfm |-> c.tfm]
<1>t. Native(c) \in BOOLEAN /\ 0 \in W /\ c.cc \cup {"E"} \in SUBSET CC /\ c.cc \ {"E"} \in SUBSET CC
  BY <1>c DEF Native, W, CC
<1>f. f \in Frame /\ f.tfm = c.tfm /\ (f.ef => f.w = c.w)
  BY <1>c, <1>t DEF Frame
<1>g. g \in Frame /\ g.tfm = c.tfm /\ ~g.ef
  BY <1>c, <1>t DEF Frame
<1>p. PushEntire(c) = [c EXCEPT !.cc = c.cc \cup {"E"}, !.stack = Append(c.stack, f)]
  BY Zenon DEF PushEntire
<1>q. PushFast(c) = [c EXCEPT !.cc = c.cc \ {"E"}, !.stack = Append(c.stack, g)]
  BY Zenon DEF PushFast
<1> HIDE DEF f, g
<1>s. PushEntire(c) \in MC6809 /\ PushFast(c) \in MC6809
  BY PushShape DEF Shape
<1>1. PushEntire(c).stack = Append(c.stack, f) /\ PushEntire(c).entered = c.entered
      /\ PushEntire(c).w = c.w /\ PushEntire(c).tfm = c.tfm
  BY <1>c, <1>p DEF MC6809
<1>2. PushFast(c).stack = Append(c.stack, g) /\ PushFast(c).entered = c.entered
      /\ PushFast(c).w = c.w /\ PushFast(c).tfm = c.tfm
  BY <1>c, <1>q DEF MC6809
<1>3. Saved(PushEntire(c))
  BY <1>f, <1>s, <1>1, PushedSaves
<1>4. Saved(PushFast(c))
  BY <1>g, <1>s, <1>2, PushedSaves
<1> QED
  BY <1>3, <1>4


\* Entering a handler keeps what the push saved.
LEMMA VectorKeeps ==
  ASSUME NEW c, Shape(c, 1), Saved(c), NEW by \in {"nmi", "firq", "irq", "sw"}, NEW masks \in SUBSET CC
  PROVE  WorkKept(Vector(c, by, masks))
<1> USE CpuAssumption
<1> DEFINE e == [by |-> by, w |-> IF c.tfm THEN c.w ELSE 0, tfm |-> c.tfm]
           v == Vector(c, by, masks)
<1>c. c \in MC6809 /\ c.w \in W /\ c.tfm \in BOOLEAN /\ c.entered \in Seq(Entry)
      /\ c.stack \in Seq(Frame) /\ Len(c.stack) = Len(c.entered) + 1
  BY DEF Shape, MC6809
<1>e. e \in Entry /\ e.tfm = c.tfm /\ (c.tfm => e.w = c.w)
  BY <1>c DEF Entry, W
<1>v. v = [c EXCEPT !.cc = c.cc \cup masks, !.tfm = FALSE,
                    !.wait_for_interrupt = FALSE, !.cwai_state = FALSE,
                    !.entered = Append(c.entered, e)]
  BY Zenon DEF Vector
<1> HIDE DEF e, v
<1>1. v.stack = c.stack /\ v.entered = Append(c.entered, e) /\ v.w = c.w
      /\ v.tfm = FALSE /\ v.cwai_state = FALSE
  BY <1>c, <1>v DEF MC6809
<1>2. TfmKept(v)
  <2> SUFFICES ASSUME NEW i \in 1 .. Len(v.entered), v.entered[i].tfm
               PROVE  c.stack[i].tfm /\ Resumes(c.stack, c.w, i, v.entered[i].w)
    BY <1>1 DEF TfmKept
  <2>1. CASE i \in 1 .. Len(c.entered)
    <3>1. v.entered[i] = c.entered[i]
      BY <2>1, <1>1, <1>c, <1>e, Appended
    <3> QED
      BY <2>1, <3>1 DEF Saved, TfmKept
  <2>2. CASE i = Len(c.entered) + 1
    <3>1. v.entered[i] = e /\ i = Len(c.stack) /\ c.stack # <<>>
      BY <2>2, <1>1, <1>c, <1>e, Appended DEF Saved, Top
    <3>2. c.tfm /\ e.w = c.w /\ c.stack[i] = Top(c.stack)
      BY <3>1, <1>e DEF Top
    <3>3. (IF Top(c.stack).ef THEN Top(c.stack).w ELSE c.w) = c.w
      BY <3>2 DEF Saved
    <3>4. Resumes(c.stack, c.w, i, c.w)
      BY <3>1, <3>3, <1>c, ResumesTop
    <3> QED
      BY <3>1, <3>2, <3>4 DEF Saved
  <2> QED
    BY <2>1, <2>2, <1>1, <1>c, <1>e, Appended
<1> QED
  BY <1>1, <1>2 DEF WorkKept, Saved, v

\* While CWAI waits its frame is such a one.
LEMMA CwaiSaved ==
  ASSUME NEW c, Held(c), WorkKept(c), c.cwai_state
  PROVE  Saved(c)
<1>1. Shape(c, 1) /\ c \in MC6809
  BY DEF Held, Shape
<1>2. c.stack # <<>>
  BY <1>1 DEF Shape, MC6809
<1> QED
  BY <1>1, <1>2 DEF WorkKept, Saved

\* check_interrupts() keeps the interrupted work.
LEMMA CheckKeeps ==
  ASSUME NEW c, Held(c), WorkKept(c)
  PROVE  WorkKept(CheckInterrupts(c))
<1>1. WorkKept(TakeNmi(c))
  <2> DEFINE n == [c EXCEPT !.nmi_pending = FALSE, !.nmi_line = FALSE]
             q == IF c.cwai_state THEN n ELSE PushEntire(n)
  <2>1. n \in MC6809 /\ n.stack = c.stack /\ n.entered = c.entered /\ n.md = c.md
        /\ n.cwai_state = c.cwai_state /\ n.w = c.w /\ n.tfm = c.tfm
    BY DEF Held, Shape, MC6809
  <2>2. Shape(n, IF c.cwai_state THEN 1 ELSE 0) /\ WorkKept(n)
    BY <2>1 DEF Held, Shape, WorkKept, TfmKept
  <2>3. TakeNmi(c) = Vector(q, "nmi", {"F", "I"})
    BY Zenon DEF TakeNmi
  <2>4. c.cwai_state => Saved(n)
    BY <2>1, CwaiSaved DEF Saved, TfmKept
  <2> HIDE DEF n
  <2>5. Shape(q, 1) /\ Saved(q)
    BY <2>2, <2>4, PushShape, PushSaves
  <2> HIDE DEF q
  <2> QED
    BY <2>3, <2>5, VectorKeeps DEF CC
<1>2. WorkKept(TakeFirq(c))
  <2> DEFINE q == FirqFrame(c)
  <2>1. Shape(q, 1) /\ Saved(q)
    BY PushShape, PushSaves, CwaiSaved DEF FirqFrame, Held
  <2>2. TakeFirq(c) = Vector(q, "firq", {"F", "I"})
    BY Zenon DEF TakeFirq
  <2> HIDE DEF q
  <2> QED
    BY <2>1, <2>2, VectorKeeps DEF CC
<1>3. WorkKept(TakeIrq(c))
  <2> DEFINE q == IF c.cwai_state THEN c ELSE PushEntire(c)
  <2>1. Shape(q, 1) /\ Saved(q)
    BY PushShape, PushSaves, CwaiSaved DEF Held
  <2>2. TakeIrq(c) = Vector(q, "irq", {"I"})
    BY Zenon DEF TakeIrq
  <2> HIDE DEF q
  <2> QED
    BY <2>1, <2>2, VectorKeeps DEF CC
<1> QED
  BY <1>1, <1>2, <1>3 DEF CheckInterrupts

\* So the instruction finds it kept.
LEMMA NowKeeps ==
  ASSUME Held(cpu), WorkKept(cpu), ~Checked.cwai_state
  PROVE  WorkKept(Now)
<1> DEFINE k == Checked
<1>1. Held(k) /\ WorkKept(k)
  BY CheckedHeld, CheckKeeps DEF Checked, Held, Entered
<1>2. Now = [k EXCEPT !.wait_for_interrupt = FALSE]
  BY DEF Now
<1> HIDE DEF k
<1>3. Now.stack = k.stack /\ Now.entered = k.entered /\ Now.w = k.w /\ Now.tfm = k.tfm
      /\ Now.cwai_state = k.cwai_state
  BY <1>1, <1>2 DEF Held, Shape, MC6809
<1> QED
  BY <1>1, <1>3 DEF WorkKept, TfmKept

\* An instruction that leaves the stack alone keeps it, if it changes W only as its owner.
LEMMA PlainKeeps ==
  ASSUME NEW c, Entered(c), WorkKept(c), NEW d \in MC6809,
         d.stack = c.stack, d.entered = c.entered, d.cwai_state = c.cwai_state,
         d.w # c.w \/ d.tfm => (c.stack # <<>> => Top(c.stack).ef)
  PROVE  WorkKept(d)
<1>1. c.stack \in Seq(Frame) /\ c.entered \in Seq(Entry) /\ Len(c.stack) = Len(c.entered)
  BY DEF Entered, Shape, MC6809
<1>2. TfmKept(d)
  <2> SUFFICES ASSUME NEW i \in 1 .. Len(c.entered), c.entered[i].tfm
               PROVE  c.stack[i].tfm /\ Resumes(c.stack, d.w, i, c.entered[i].w)
    BY DEF TfmKept
  <2>1. c.stack[i].tfm /\ Resumes(c.stack, c.w, i, c.entered[i].w)
    BY DEF WorkKept, TfmKept
  <2>2. i \in 1 .. Len(c.stack) /\ c.stack # <<>>
    BY <1>1
  <2> QED
    BY <1>1, <2>1, <2>2, ResumesOwned
<1> QED
  BY <1>2 DEF WorkKept, Entered


\* RTI gives the TFM it returns to its W, and leaves the others theirs.
LEMMA RtiKeeps ==
  ASSUME NEW c, Entered(c), WorkKept(c), Rti(c)
  PROVE  /\ WorkKept(cpu')
         /\ Top(c.entered).tfm => cpu'.tfm /\ cpu'.w = Top(c.entered).w
<1> DEFINE f == Top(c.stack)
           d == Pulled(c, f)
<1>1. /\ c \in MC6809 /\ c.stack \in Seq(Frame) /\ c.entered \in Seq(Entry) /\ c.stack # <<>>
      /\ Len(c.stack) = Len(c.entered) /\ cpu' = d /\ c.w \in W /\ ~c.cwai_state
      /\ \A i \in 1 .. Len(c.stack) : Tells(c.stack[i], c.md)
  BY DEF Rti, Entered, MC6809, Shape
<1>2. c.entered # <<>> /\ f \in Frame /\ Len(c.stack) \in 1 .. Len(c.stack)
  BY <1>1, Shortened
<1>3. Tells(f, c.md)
  BY <1>1, <1>2 DEF Top
<1>4. "E" \in f.cc /\ Native(c) <=> f.ef
  BY <1>2, <1>3 DEF Tells, Native, Frame
<1>5. /\ d.stack = Rest(c.stack) /\ d.entered = Rest(c.entered) /\ d.tfm = f.tfm
      /\ d.cwai_state = c.cwai_state /\ d.w = IF f.ef THEN f.w ELSE c.w
  <2>1. d = [c EXCEPT !.cc = f.cc, !.tfm = f.tfm, !.stack = Rest(c.stack), !.entered = Rest(c.entered),
                      !.w = IF f.ef THEN f.w ELSE c.w]
    BY <1>4, Zenon DEF Pulled
  <2> HIDE DEF d, f
  <2> QED
    BY <1>1, <2>1 DEF MC6809
<1> HIDE DEF d
<1>6. /\ Len(d.stack) = Len(c.stack) - 1 /\ \A i \in 1 .. Len(d.stack) : d.stack[i] = c.stack[i]
      /\ Len(d.entered) = Len(c.stack) - 1
      /\ \A i \in 1 .. Len(d.entered) : d.entered[i] = c.entered[i]
  <2>1. Len(d.stack) = Len(c.stack) - 1 /\ \A i \in 1 .. Len(d.stack) : d.stack[i] = c.stack[i]
    BY <1>1, <1>5, Shortened
  <2>2. Len(d.entered) = Len(c.entered) - 1
        /\ \A i \in 1 .. Len(d.entered) : d.entered[i] = c.entered[i]
    <3>1. c.entered \in Seq(Entry) /\ c.entered # <<>> /\ d.entered = Rest(c.entered)
      BY <1>1, <1>2, <1>5
    <3> QED
      BY <3>1, Shortened
  <2> QED
    BY <1>1, <2>1, <2>2
<1>n. Len(c.stack) \in Nat
  BY <1>1
<1>7. TfmKept(d)
  <2> SUFFICES ASSUME NEW i \in 1 .. Len(d.entered), d.entered[i].tfm
               PROVE  d.stack[i].tfm /\ Resumes(d.stack, d.w, i, d.entered[i].w)
    BY DEF TfmKept
  <2>1. i \in 1 .. Len(c.stack) - 1 /\ i \in 1 .. Len(c.entered) /\ i \in 1 .. Len(d.stack)
    BY <1>1, <1>6, <1>n
  <2>2. d.entered[i] = c.entered[i] /\ d.stack[i] = c.stack[i]
    BY <1>6, <2>1
  <2>3. c.stack[i].tfm /\ Resumes(c.stack, c.w, i, c.entered[i].w)
    BY <2>1, <2>2 DEF WorkKept, TfmKept
  <2>4. c.entered[i].w \in W
    <3>1. c.entered[i] \in Entry
      BY <1>1, <2>1
    <3> QED
      BY <3>1 DEF Entry
  <2>5. Resumes(Rest(c.stack), IF Top(c.stack).ef THEN Top(c.stack).w ELSE c.w, i, c.entered[i].w)
    BY <1>1, <2>1, <2>3, <2>4, ResumesPulled
  <2> QED
    BY <1>5, <2>2, <2>3, <2>5
<1>8. TfmOwned(d.stack)
  <2> SUFFICES ASSUME NEW i \in 2 .. Len(d.stack), d.stack[i].tfm
               PROVE  d.stack[i - 1].ef
    BY DEF TfmOwned
  <2>1. i \in 2 .. Len(c.stack) /\ i \in 1 .. Len(d.stack) /\ i - 1 \in 1 .. Len(d.stack)
    BY <1>6, <1>n
  <2>2. d.stack[i] = c.stack[i] /\ d.stack[i - 1] = c.stack[i - 1]
    BY <1>6, <2>1
  <2> QED
    BY <2>1, <2>2 DEF WorkKept, TfmOwned
<1>9. d.tfm /\ d.stack # <<>> => Top(d.stack).ef
  <2> SUFFICES ASSUME f.tfm, d.stack # <<>>
               PROVE  Top(d.stack).ef
    BY <1>5
  <2>1. Len(c.stack) \in 2 .. Len(c.stack) /\ Len(d.stack) \in 1 .. Len(d.stack)
    <3>1. d.stack \in Seq(Frame)
      BY <1>1, <1>5, Shortened
    <3>2. Len(d.stack) \in Nat \ {0}
      BY <3>1
    <3> QED
      BY <1>6, <1>n, <3>2
  <2>2. c.stack[Len(c.stack) - 1].ef
    BY <2>1 DEF WorkKept, TfmOwned, Top
  <2>3. d.stack[Len(d.stack)] = c.stack[Len(c.stack) - 1]
    BY <1>6, <2>1
  <2> QED
    BY <2>2, <2>3 DEF Top
<1>10. ASSUME Top(c.entered).tfm
       PROVE  d.tfm /\ d.w = Top(c.entered).w
  <2>1. Top(c.entered) = c.entered[Len(c.stack)] /\ Len(c.stack) \in 1 .. Len(c.entered)
    BY <1>1, <1>2 DEF Top
  <2>2. f.tfm /\ Resumes(c.stack, c.w, Len(c.stack), Top(c.entered).w)
    BY <1>10, <2>1 DEF WorkKept, TfmKept, Top
  <2>3. (IF f.ef THEN f.w ELSE c.w) = Top(c.entered).w
    BY <1>1, <2>2, ResumesTop
  <2> QED
    BY <1>5, <2>2, <2>3
<1>11. WorkKept(d)
  BY <1>1, <1>5, <1>7, <1>8, <1>9 DEF WorkKept
<1> QED
  BY <1>1, <1>10, <1>11

\* Every instruction keeps it.
LEMMA InstructionKeeps ==
  ASSUME NEW c, Entered(c), WorkKept(c), Instruction(c)
  PROVE  WorkKept(cpu')
<1> USE CpuAssumption
<1>c. c \in MC6809 /\ Shape(c, 0) /\ ~c.cwai_state
  BY DEF Entered, Shape
<1>1. ASSUME ~c.tfm, NEW d \in MC6809, cpu' = d, d.stack = c.stack, d.entered = c.entered,
             d.cwai_state = c.cwai_state, d.w = c.w, d.tfm = c.tfm
      PROVE  WorkKept(cpu')
  BY <1>1, PlainKeeps
<1>2. ASSUME NEW cc \in Masks, SetCC(c, cc) PROVE WorkKept(cpu')
  <2>1. cc \in SUBSET CC
    BY DEF CC
  <2> DEFINE d == [c EXCEPT !.cc = cc]
  <2>2. d \in MC6809 /\ d.stack = c.stack /\ d.entered = c.entered
        /\ d.cwai_state = c.cwai_state /\ d.w = c.w /\ d.tfm = c.tfm
    BY <1>c, <2>1 DEF MC6809
  <2>3. ~c.tfm /\ cpu' = d
    BY <1>2 DEF SetCC
  <2> HIDE DEF d
  <2> QED
    BY <1>1, <2>2, <2>3
<1>3. ASSUME ArmNmi(c) \/ Sync(c) PROVE WorkKept(cpu')
  <2> DEFINE a == [c EXCEPT !.nmi_armed = TRUE]
             y == [c EXCEPT !.wait_for_interrupt = TRUE]
  <2>1. a \in MC6809 /\ a.stack = c.stack /\ a.entered = c.entered
        /\ a.cwai_state = c.cwai_state /\ a.w = c.w /\ a.tfm = c.tfm
    BY <1>c DEF MC6809
  <2>2. y \in MC6809 /\ y.stack = c.stack /\ y.entered = c.entered
        /\ y.cwai_state = c.cwai_state /\ y.w = c.w /\ y.tfm = c.tfm
    BY <1>c DEF MC6809
  <2>3. ~c.tfm /\ (cpu' = a \/ cpu' = y)
    BY <1>3 DEF ArmNmi, Sync
  <2> HIDE DEF a, y
  <2> QED
    BY <2>1, <2>2, <2>3, <1>1
<1>4. ASSUME NEW md \in Modes, Ldmd(c, md) PROVE WorkKept(cpu')
  <2>1. md \in SUBSET MD
    BY DEF MD
  <2>2. ~c.tfm /\ cpu' \in MC6809 /\ cpu'.stack = c.stack /\ cpu'.entered = c.entered
        /\ cpu'.cwai_state = c.cwai_state /\ cpu'.w = c.w /\ cpu'.tfm = c.tfm
    BY <1>4, <1>c, <2>1 DEF Ldmd, MC6809
  <2> QED
    BY <2>2, <1>1
<1>5. ASSUME NEW cc \in Masks, Cwai(c, cc) PROVE WorkKept(cpu')
  <2> DEFINE a == [c EXCEPT !.cc = cc \cap c.cc]
             p == PushEntire(a)
             q == [p EXCEPT !.wait_for_interrupt = TRUE, !.cwai_state = TRUE]
  <2>1. a \in MC6809 /\ a.stack = c.stack /\ a.entered = c.entered /\ a.md = c.md
        /\ a.w = c.w /\ a.tfm = c.tfm /\ a.cwai_state = c.cwai_state
    BY <1>c DEF MC6809
  <2>2. cpu' = q /\ ~c.tfm
    BY <1>5, Zenon DEF Cwai
  <2>a. PushEntire(a).tfm = a.tfm
    BY <2>1 DEF PushEntire, MC6809
  <2> HIDE DEF a
  <2>3. Shape(a, 0) /\ WorkKept(a)
    BY <2>1, <1>c DEF Shape, WorkKept, TfmKept
  <2>4. Saved(p) /\ p \in MC6809 /\ ~p.tfm
    BY <2>1, <2>2, <2>3, <2>a, PushShape, PushSaves DEF Shape
  <2> HIDE DEF p
  <2>5. q.stack = p.stack /\ q.entered = p.entered /\ q.w = p.w /\ q.tfm = p.tfm
    BY <2>4 DEF MC6809
  <2> HIDE DEF q
  <2> QED
    BY <2>2, <2>4, <2>5 DEF WorkKept, TfmKept, Saved
<1>6. ASSUME Swi(c) \/ Trap(c) PROVE WorkKept(cpu')
  <2>1. \E masks \in SUBSET CC : cpu' = Vector(PushEntire(c), "sw", masks)
    BY <1>6 DEF Swi, Trap, CC
  <2> QED
    BY <2>1, <1>c, PushShape, PushSaves, VectorKeeps
<1>7. ASSUME Rti(c) PROVE WorkKept(cpu')
  BY <1>7, RtiKeeps
<1>8. ASSUME Tfm(c) PROVE WorkKept(cpu')
  <2>1. c.w - 1 \in W
    BY <1>8, <1>c DEF Tfm, MC6809, W
  <2> DEFINE n == c.w - 1
             b == c.w > 1
  <2>2. b \in BOOLEAN /\ cpu' = [c EXCEPT !.w = n, !.tfm = b]
    BY <1>8, <1>c DEF Tfm, MC6809
  <2> HIDE DEF n, b
  <2>3. cpu' \in MC6809 /\ cpu'.stack = c.stack /\ cpu'.entered = c.entered
        /\ cpu'.cwai_state = c.cwai_state
    BY <1>c, <2>1, <2>2 DEF MC6809, n
  <2>4. c.stack # <<>> => Top(c.stack).ef
    BY <1>8 DEF Tfm, OwnsW, WorkKept
  <2> QED
    BY <2>3, <2>4, PlainKeeps
<1>9. ASSUME NEW w \in W, LoadW(c, w) PROVE WorkKept(cpu')
  <2>1. cpu' \in MC6809 /\ cpu'.stack = c.stack /\ cpu'.entered = c.entered
        /\ cpu'.cwai_state = c.cwai_state
    BY <1>9, <1>c DEF LoadW, MC6809
  <2>2. c.stack # <<>> => Top(c.stack).ef
    BY <1>9 DEF LoadW, OwnsW
  <2> QED
    BY <2>1, <2>2, PlainKeeps
<1> QED
  BY <1>2, <1>3, <1>4, <1>5, <1>6, <1>7, <1>8, <1>9 DEF Instruction


\* Interrupts, resets and the changes of a line keep it too.
LEMMA NextKeeps == CpuInv /\ WorkInv /\ [CpuNext]_cpu => WorkInv'
<1> SUFFICES ASSUME Held(cpu), WorkKept(cpu), [CpuNext]_cpu
             PROVE  WorkKept(cpu')
  BY HeldIsInv DEF WorkInv
<1>c. cpu \in MC6809
  BY DEF Held, Shape
<1>1. ASSUME Step PROVE WorkKept(cpu')
  BY <1>1, NotInCwai, NowHeld, NowKeeps, InstructionKeeps DEF Step
<1>2. ASSUME Reset PROVE WorkKept(cpu')
  <2>1. cpu'.stack = <<>> /\ cpu'.entered = <<>> /\ cpu'.cwai_state = FALSE /\ cpu'.tfm = FALSE
    BY <1>2 DEF Reset, AfterReset
  <2> QED
    BY <2>1 DEF WorkKept, TfmKept, TfmOwned
<1>3. ASSUME NEW d, cpu' = d, d.stack = cpu.stack, d.entered = cpu.entered, d.w = cpu.w,
             d.tfm = cpu.tfm, d.cwai_state = cpu.cwai_state
      PROVE  WorkKept(cpu')
  BY <1>3 DEF WorkKept, TfmKept
<1>4. ASSUME NEW b \in BOOLEAN, Nmi(b) PROVE WorkKept(cpu')
  <2> DEFINE p == cpu.nmi_pending \/ (b /\ ~cpu.nmi_line)
             d == [cpu EXCEPT !.nmi_pending = p, !.nmi_line = b]
  <2>1. cpu' = d
    BY <1>4, Zenon DEF Nmi, NmiSet
  <2> HIDE DEF p
  <2>2. d.stack = cpu.stack /\ d.entered = cpu.entered /\ d.w = cpu.w /\ d.tfm = cpu.tfm
        /\ d.cwai_state = cpu.cwai_state
    BY <1>c DEF MC6809
  <2> HIDE DEF d
  <2> QED
    BY <1>3, <2>1, <2>2
<1>5. ASSUME NEW firq \in BOOLEAN, NEW irq \in BOOLEAN, Lines(firq, irq) PROVE WorkKept(cpu')
  <2> DEFINE d == [cpu EXCEPT !.firq_pending = firq, !.irq_pending = irq]
  <2>1. cpu' = d
    BY <1>5 DEF Lines
  <2>2. d.stack = cpu.stack /\ d.entered = cpu.entered /\ d.w = cpu.w /\ d.tfm = cpu.tfm
        /\ d.cwai_state = cpu.cwai_state
    BY <1>c DEF MC6809
  <2> HIDE DEF d
  <2> QED
    BY <1>3, <2>1, <2>2
<1> QED
  BY <1>1, <1>2, <1>4, <1>5 DEF CpuNext

\* No handler has been entered at power-up.
LEMMA InitKeeps == CpuInit => WorkInv
<1>1. ASSUME CpuInit
      PROVE  cpu.stack = <<>> /\ cpu.entered = <<>> /\ cpu.cwai_state = FALSE /\ cpu.tfm = FALSE
  BY <1>1 DEF CpuInit, AfterReset
<1>2. ASSUME CpuInit PROVE WorkKept(cpu)
  <2>1. cpu.stack = <<>> /\ cpu.entered = <<>> /\ cpu.cwai_state = FALSE /\ cpu.tfm = FALSE
    BY <1>1, <1>2
  <2> QED
    BY <2>1 DEF WorkKept, TfmKept, TfmOwned
<1> QED
  BY <1>2 DEF WorkInv

-----------------------------------------------------------------------------
(* The latched NMI.                                                         *)

\* Stacking and entering a handler leave it latched.
LEMMA StackingNmi ==
  ASSUME NEW c \in MC6809, NEW by, NEW masks
  PROVE  /\ PushEntire(c).nmi_pending = c.nmi_pending
         /\ PushFast(c).nmi_pending = c.nmi_pending
         /\ Vector(c, by, masks).nmi_pending = c.nmi_pending
BY DEF PushEntire, PushFast, Vector, MC6809

\* So does every instruction.
LEMMA InstructionNmi ==
  ASSUME NEW c, Entered(c), Instruction(c)
  PROVE  cpu'.nmi_pending = c.nmi_pending
<1> USE CpuAssumption
<1>c. c \in MC6809 /\ Shape(c, 0)
  BY DEF Entered, Shape
<1>1. ASSUME NEW cc \in Masks, SetCC(c, cc) PROVE cpu'.nmi_pending = c.nmi_pending
  BY <1>1, <1>c DEF SetCC, MC6809
<1>2. ASSUME NEW cc \in Masks, Cwai(c, cc) PROVE cpu'.nmi_pending = c.nmi_pending
  <2> DEFINE a == [c EXCEPT !.cc = cc \cap c.cc]
             p == PushEntire(a)
  <2>1. a \in MC6809 /\ a.nmi_pending = c.nmi_pending /\ a.stack = c.stack
        /\ a.entered = c.entered /\ a.md = c.md
    BY <1>c DEF MC6809
  <2>2. cpu' = [p EXCEPT !.wait_for_interrupt = TRUE, !.cwai_state = TRUE]
    BY <1>2, Zenon DEF Cwai
  <2> HIDE DEF a
  <2>3. Shape(a, 0)
    BY <2>1, <1>c DEF Shape
  <2>4. p \in MC6809 /\ p.nmi_pending = c.nmi_pending
    BY <2>1, <2>3, PushShape, StackingNmi DEF Shape
  <2> HIDE DEF p
  <2> QED
    BY <2>2, <2>4 DEF MC6809
<1>3. ASSUME ArmNmi(c) PROVE cpu'.nmi_pending = c.nmi_pending
  BY <1>3, <1>c DEF ArmNmi, MC6809
<1>4. ASSUME Sync(c) PROVE cpu'.nmi_pending = c.nmi_pending
  BY <1>4, <1>c DEF Sync, MC6809
<1>5. ASSUME Swi(c) \/ Trap(c) PROVE cpu'.nmi_pending = c.nmi_pending
  <2>1. \E masks \in SUBSET CC : cpu' = Vector(PushEntire(c), "sw", masks)
    BY <1>5 DEF Swi, Trap, CC
  <2>2. PushEntire(c) \in MC6809
    BY <1>c, PushShape DEF Shape
  <2> QED
    BY <1>c, <2>1, <2>2, StackingNmi
<1>6. ASSUME Rti(c) PROVE cpu'.nmi_pending = c.nmi_pending
  BY <1>6, <1>c DEF Rti, Pulled, MC6809
<1>7. ASSUME Tfm(c) PROVE cpu'.nmi_pending = c.nmi_pending
  BY <1>7, <1>c DEF Tfm, MC6809
<1>8. ASSUME NEW md \in Modes, Ldmd(c, md) PROVE cpu'.nmi_pending = c.nmi_pending
  BY <1>8, <1>c DEF Ldmd, MC6809
<1>9. ASSUME NEW w \in W, LoadW(c, w) PROVE cpu'.nmi_pending = c.nmi_pending
  BY <1>9, <1>c DEF LoadW, MC6809
<1> QED
  BY <1>1, <1>2, <1>3, <1>4, <1>5, <1>6, <1>7, <1>8, <1>9 DEF Instruction

\* check_interrupts() withdraws it only by entering its handler.
LEMMA CheckNmi ==
  ASSUME NEW c, Held(c), c.nmi_pending, ~CheckInterrupts(c).nmi_pending
  PROVE  c.nmi_armed /\ Top(CheckInterrupts(c).entered).by = "nmi"
<1>c. c \in MC6809
  BY DEF Held, Shape
<1>1. CASE c.nmi_armed
  <2> DEFINE n == [c EXCEPT !.nmi_pending = FALSE, !.nmi_line = FALSE]
             q == IF c.cwai_state THEN n ELSE PushEntire(n)
             e == [by |-> "nmi", w |-> IF q.tfm THEN q.w ELSE 0, tfm |-> q.tfm]
  <2>1. CheckInterrupts(c) = TakeNmi(c)
    BY <1>1 DEF CheckInterrupts
  <2>2. TakeNmi(c) = Vector(q, "nmi", {"F", "I"})
    BY Zenon DEF TakeNmi
  <2>3. n \in MC6809 /\ n.stack = c.stack /\ n.entered = c.entered /\ n.md = c.md
        /\ n.cwai_state = c.cwai_state
    BY <1>c DEF MC6809
  <2>4. Shape(n, IF c.cwai_state THEN 1 ELSE 0)
    BY <2>3 DEF Held, Shape
  <2> HIDE DEF n
  <2>5. q \in MC6809
    BY <2>4, PushShape DEF Shape
  <2> HIDE DEF q
  <2>6. Vector(q, "nmi", {"F", "I"}).entered = Append(q.entered, e)
    BY <2>5 DEF Vector, MC6809
  <2>7. e \in Entry /\ e.by = "nmi"
    BY <2>5, CpuAssumption DEF MC6809, Entry, W
  <2> HIDE DEF e
  <2>8. Top(Append(q.entered, e)) = e
    BY <2>5, <2>7, Appended DEF MC6809
  <2> QED
    BY <1>1, <2>1, <2>2, <2>6, <2>7, <2>8
<1>2. CASE ~c.nmi_armed
  <2>1. CheckInterrupts(c).nmi_pending = c.nmi_pending
    <3>1. CheckInterrupts(c) \in {c, TakeFirq(c), TakeIrq(c)}
      BY <1>2 DEF CheckInterrupts
    <3>2. c.cwai_state \/ Shape(c, 0)
      BY DEF Held
    <3>3. TakeFirq(c).nmi_pending = c.nmi_pending
      <4>1. FirqFrame(c) \in MC6809 /\ FirqFrame(c).nmi_pending = c.nmi_pending
        BY <1>c, <3>2, PushShape, StackingNmi DEF FirqFrame, Shape
      <4> QED
        BY <4>1, StackingNmi DEF TakeFirq
    <3>4. TakeIrq(c).nmi_pending = c.nmi_pending
      <4> DEFINE q == IF c.cwai_state THEN c ELSE PushEntire(c)
      <4>1. q \in MC6809 /\ q.nmi_pending = c.nmi_pending
        BY <1>c, <3>2, PushShape, StackingNmi DEF Shape
      <4>2. TakeIrq(c) = Vector(q, "irq", {"I"})
        BY Zenon DEF TakeIrq
      <4> HIDE DEF q
      <4>3. Vector(q, "irq", {"I"}).nmi_pending = q.nmi_pending
        BY <4>1, StackingNmi
      <4> QED
        BY <4>1, <4>2, <4>3, Zenon
    <3> QED
      BY <3>1, <3>3, <3>4
  <2> QED
    BY <2>1
<1> QED
  BY <1>1, <1>2


-----------------------------------------------------------------------------
\* An NMI that was latched is served: no instruction, change of a line or other
\* interrupt forgets it.
LEMMA NmiStep ==
  ASSUME Held(cpu), CpuNext, cpu.nmi_pending, ~cpu'.nmi_pending
  PROVE  Reset \/ (cpu.nmi_armed /\ Top(Checked.entered).by = "nmi")
<1>c. cpu \in MC6809
  BY DEF Held, Shape
<1>1. CASE Step
  <2>1. Entered(Now)
    BY <1>1, NotInCwai, NowHeld DEF Step
  <2>2. cpu'.nmi_pending = Now.nmi_pending
    BY <1>1, <2>1, InstructionNmi DEF Step
  <2>3. Checked \in MC6809
    BY CheckedHeld DEF Checked, Held, Entered, Shape
  <2>4. Now.nmi_pending = Checked.nmi_pending
    BY <2>3 DEF Now, MC6809
  <2> QED
    BY <2>2, <2>4, CheckNmi DEF Checked
<1>2. ASSUME NEW b \in BOOLEAN, Nmi(b) PROVE FALSE
  <2>1. cpu' = [cpu EXCEPT !.nmi_pending = TRUE, !.nmi_line = b]
    <3>1. (cpu.nmi_pending \/ (b /\ ~cpu.nmi_line)) = TRUE
      OBVIOUS
    <3> QED
      BY <1>2, <3>1, Zenon DEF Nmi, NmiSet
  <2> QED
    BY <1>c, <2>1 DEF MC6809
<1>3. ASSUME NEW firq \in BOOLEAN, NEW irq \in BOOLEAN, Lines(firq, irq) PROVE FALSE
  BY <1>c, <1>3 DEF Lines, MC6809
<1> QED
  BY <1>1, <1>2, <1>3 DEF CpuNext

\* An RTI after check_interrupts() gives an interrupted TFM back what it had left.
LEMMA TfmStep ==
  ASSUME CpuInv, WorkInv, CpuNext, Now.entered # <<>>, Top(Now.entered).tfm, Rti(Now)
  PROVE  cpu'.tfm /\ cpu'.w = Top(Now.entered).w
<1>h. Held(cpu) /\ WorkKept(cpu) /\ cpu \in MC6809
  BY HeldIsInv DEF WorkInv, Held, Shape
<1>1. CASE ~Checked.cwai_state
  BY <1>h, <1>1, NowHeld, NowKeeps, RtiKeeps
<1>2. CASE Checked.cwai_state
  <2>1. Checked = cpu /\ Waits(cpu) /\ Shape(cpu, 1)
    BY <1>h, <1>2, CheckedHeld DEF Checked, Entered, Held, Waits
  <2>2. Now.stack = cpu.stack /\ Now.entered = cpu.entered /\ Now \in MC6809
    BY <1>h, <2>1 DEF Now, MC6809
  <2>3. cpu.stack \in Seq(Frame) /\ cpu.entered \in Seq(Entry)
        /\ Len(cpu.stack) = Len(cpu.entered) + 1
    BY <2>1 DEF Shape, MC6809
  <2>4. cpu'.stack = Rest(cpu.stack)
    BY <2>2 DEF Rti, Pulled, MC6809
  <2>5. Len(cpu.entered) \in Nat \ {0} /\ cpu.stack # <<>>
    BY <2>2, <2>3
  <2>6. cpu'.stack \in Seq(Frame) /\ Len(cpu'.stack) = Len(cpu.stack) - 1
    BY <2>3, <2>4, <2>5, Shortened
  <2>7. cpu'.stack # cpu.stack /\ cpu'.stack # <<>>
    BY <2>3, <2>5, <2>6
  <2>8. CASE Step
    BY <2>1, <2>8 DEF Step
  <2>9. CASE Reset
    BY <2>7, <2>9 DEF Reset, AfterReset
  <2>10. ASSUME NEW b \in BOOLEAN, Nmi(b) PROVE FALSE
    BY <1>h, <2>7, <2>10 DEF Nmi, NmiSet, MC6809
  <2>11. ASSUME NEW firq \in BOOLEAN, NEW irq \in BOOLEAN, Lines(firq, irq) PROVE FALSE
    BY <1>h, <2>7, <2>11 DEF Lines, MC6809
  <2> QED
    BY <2>8, <2>9, <2>10, <2>11 DEF CpuNext
<1> QED
  BY <1>1, <1>2

\* Interrupts take nothing from the program, in both builds, at any depth of nesting:
\* a latched NMI is served, and an interrupted TFM goes on where it was.
THEOREM CpuKeepsWork == CpuSpec => InterruptsKeepWork
<1>1. CpuInv /\ WorkInv /\ [CpuNext]_cpu =>
        [cpu.nmi_pending /\ ~cpu'.nmi_pending
           => Reset \/ (cpu.nmi_armed /\ Top(Checked.entered).by = "nmi")]_cpu
  BY HeldIsInv, NmiStep
<1>2. CpuInv /\ WorkInv /\ [CpuNext]_cpu =>
        [Now.entered # <<>> /\ Top(Now.entered).tfm /\ Rti(Now)
           => cpu'.tfm /\ cpu'.w = Top(Now.entered).w]_cpu
  BY TfmStep
<1> QED
  BY <1>1, <1>2, InitHeld, NextHeld, InitKeeps, NextKeeps, PTL
     DEF CpuSpec, InterruptsKeepWork, NmiNotLost, TfmResumes

-----------------------------------------------------------------------------
(* The cartridge.                                                           *)

-----------------------------------------------------------------------------
(* uint32_t indices.                                                        *)

\* The constants are numbers; both rings are smaller than the range.
LEMMA Sizes ==
  /\ SSC_CMDQ_SIZE \in Nat \ {0} /\ SSC_SMP_SIZE \in Nat \ {0} /\ INDEX_MOD \in Nat \ {0}
  /\ SSC_AHEAD \in Nat \ {0} /\ SSC_BATCH \in Nat \ {0} /\ MaxData \in Nat /\ MaxCtrl \in Nat
  /\ SSC_CMDQ_SIZE < INDEX_MOD /\ SSC_SMP_SIZE < INDEX_MOD
  /\ SSC_AHEAD + SSC_BATCH - 1 <= SSC_SMP_SIZE
  BY SscAssumption

\* head - tail without the modulus.
LEMMA SubValue ==
  ASSUME NEW a \in Index, NEW b \in Index
  PROVE  Sub(a, b) = IF b <= a THEN a - b ELSE a - b + INDEX_MOD
<1>1. a \in Nat /\ b \in Nat /\ a < INDEX_MOD /\ b < INDEX_MOD /\ INDEX_MOD \in Nat \ {0}
  BY Sizes DEF Index
<1>2. CASE b <= a
  <2>1. a - b \in 0 .. INDEX_MOD - 1 /\ a + INDEX_MOD - b = INDEX_MOD * 1 + (a - b)
    BY <1>1, <1>2
  <2>2. (a + INDEX_MOD - b) % INDEX_MOD = a - b
    BY <1>1, <2>1, ModUnique
  <2> QED
    BY <2>2, <1>2 DEF Sub
<1>3. CASE ~(b <= a)
  <2>1. a - b + INDEX_MOD \in 0 .. INDEX_MOD - 1
        /\ a + INDEX_MOD - b = INDEX_MOD * 0 + (a - b + INDEX_MOD)
    BY <1>1, <1>3
  <2>2. (a + INDEX_MOD - b) % INDEX_MOD = a - b + INDEX_MOD
    BY <1>1, <2>1, ModUnique
  <2> QED
    BY <2>2, <1>3 DEF Sub
<1> QED
  BY <1>2, <1>3

\* The next index.
LEMMA AddValue ==
  ASSUME NEW a \in Index
  PROVE  /\ Add(a, 1) = IF a = INDEX_MOD - 1 THEN 0 ELSE a + 1
         /\ Add(a, 1) \in Index
<1>1. a \in Nat /\ a < INDEX_MOD /\ INDEX_MOD \in Nat \ {0}
  BY Sizes DEF Index
<1>2. CASE a = INDEX_MOD - 1
  <2>1. a + 1 = INDEX_MOD * 1 + 0 /\ 0 \in 0 .. INDEX_MOD - 1
    BY <1>1, <1>2
  <2>2. (a + 1) % INDEX_MOD = 0
    BY <1>1, <2>1, ModUnique
  <2> QED
    BY <1>1, <1>2, <2>2 DEF Add, Index
<1>3. CASE a # INDEX_MOD - 1
  <2>1. a + 1 = INDEX_MOD * 0 + (a + 1) /\ a + 1 \in 0 .. INDEX_MOD - 1
    BY <1>1, <1>3
  <2>2. (a + 1) % INDEX_MOD = a + 1
    BY <1>1, <2>1, ModUnique
  <2> QED
    BY <1>1, <1>3, <2>1, <2>2 DEF Add, Index
<1> QED
  BY <1>2, <1>3

\* A distance is in the range, and 0 only from an index to itself.
LEMMA SubRange ==
  ASSUME NEW a \in Index, NEW b \in Index
  PROVE  Sub(a, b) \in Nat /\ Sub(a, b) < INDEX_MOD /\ (Sub(a, b) = 0 <=> a = b)
<1>0. a \in Nat /\ a < INDEX_MOD /\ b \in Nat /\ b < INDEX_MOD /\ INDEX_MOD \in Nat
  BY Sizes DEF Index
<1>1. Sub(a, b) = IF b <= a THEN a - b ELSE a - b + INDEX_MOD
  BY SubValue
<1> QED
  BY <1>0, <1>1

\* Moving the far end on adds one, the near end takes one away.
LEMMA SubNext ==
  ASSUME NEW a \in Index, NEW b \in Index
  PROVE  /\ Sub(a, b) < INDEX_MOD - 1 => Sub(Add(a, 1), b) = Sub(a, b) + 1
         /\ a # b => Sub(a, Add(b, 1)) = Sub(a, b) - 1
<1>0. a \in Nat /\ a < INDEX_MOD /\ b \in Nat /\ b < INDEX_MOD /\ INDEX_MOD \in Nat
  BY Sizes DEF Index
<1>1. Sub(a, b) = IF b <= a THEN a - b ELSE a - b + INDEX_MOD
  BY SubValue
<1>2. /\ Add(a, 1) \in Index /\ Add(b, 1) \in Index
      /\ Add(a, 1) = IF a = INDEX_MOD - 1 THEN 0 ELSE a + 1
      /\ Add(b, 1) = IF b = INDEX_MOD - 1 THEN 0 ELSE b + 1
  BY AddValue
<1>3. Sub(Add(a, 1), b) = IF b <= Add(a, 1) THEN Add(a, 1) - b ELSE Add(a, 1) - b + INDEX_MOD
  BY <1>2, SubValue
<1>4. Sub(a, Add(b, 1)) = IF Add(b, 1) <= a THEN a - Add(b, 1) ELSE a - Add(b, 1) + INDEX_MOD
  BY <1>2, SubValue
<1> QED
  BY <1>0, <1>1, <1>2, <1>3, <1>4

\* Distances from one index add up.
LEMMA SubChain ==
  ASSUME NEW a \in Index, NEW b \in Index, NEW c \in Index, Sub(b, c) <= Sub(a, c)
  PROVE  Sub(a, b) = Sub(a, c) - Sub(b, c)
<1>0. a \in Nat /\ a < INDEX_MOD /\ b \in Nat /\ b < INDEX_MOD /\ c \in Nat /\ c < INDEX_MOD /\ INDEX_MOD \in Nat
  BY Sizes DEF Index
<1>1. /\ Sub(a, b) = IF b <= a THEN a - b ELSE a - b + INDEX_MOD
      /\ Sub(a, c) = IF c <= a THEN a - c ELSE a - c + INDEX_MOD
      /\ Sub(b, c) = IF c <= b THEN b - c ELSE b - c + INDEX_MOD
  BY SubValue
<1> QED
  BY <1>0, <1>1

\* Two indices less than a ring apart are on different slots.
LEMMA SlotsDiffer ==
  ASSUME NEW i \in Index, NEW h \in Index, NEW t \in Index,
         Sub(i, t) < Sub(h, t), Sub(h, t) < SSC_CMDQ_SIZE
  PROVE  i % SSC_CMDQ_SIZE # h % SSC_CMDQ_SIZE
<1>1. /\ i \in Int /\ h \in Int /\ INDEX_MOD \in Int
      /\ SSC_CMDQ_SIZE \in Nat \ {0} /\ INDEX_MOD % SSC_CMDQ_SIZE = 0
  BY Sizes, SscAssumption DEF Index
<1>2. Sub(h, i) = Sub(h, t) - Sub(i, t) /\ Sub(h, i) > 0 /\ Sub(h, i) < SSC_CMDQ_SIZE
  BY SubChain, SubRange, <1>1
<1>3. CASE i <= h
  BY <1>1, <1>2, <1>3, SubValue, ModDiffer
<1>4. CASE ~(i <= h)
  <2>1. Sub(h, i) = h - (i - INDEX_MOD)
    BY <1>1, <1>4, SubValue
  <2>2. (i - INDEX_MOD) % SSC_CMDQ_SIZE # h % SSC_CMDQ_SIZE
    <3>1. /\ i - INDEX_MOD \in Int /\ h \in Int /\ SSC_CMDQ_SIZE \in Nat \ {0}
          /\ h - (i - INDEX_MOD) > 0 /\ h - (i - INDEX_MOD) < SSC_CMDQ_SIZE
      BY <1>1, <1>2, <2>1
    <3> QED
      BY <3>1, ModDiffer
  <2>3. (i - INDEX_MOD) % SSC_CMDQ_SIZE = i % SSC_CMDQ_SIZE
    BY <1>1, ModWrap
  <2> QED
    BY <2>2, <2>3
<1> QED
  BY <1>3, <1>4

\* The k-th slot after an index is that of the index k further on.
LEMMA SlotOf ==
  ASSUME NEW t \in Index, NEW k \in Nat, k < INDEX_MOD
  PROVE  /\ Add(t, k) \in Index /\ Sub(Add(t, k), t) = k
         /\ (t + k) % SSC_CMDQ_SIZE = Add(t, k) % SSC_CMDQ_SIZE
<1>1. /\ t \in Nat /\ t < INDEX_MOD /\ INDEX_MOD \in Nat \ {0}
      /\ SSC_CMDQ_SIZE \in Nat \ {0} /\ INDEX_MOD % SSC_CMDQ_SIZE = 0
  BY Sizes, SscAssumption DEF Index
<1>2. CASE t + k < INDEX_MOD
  <2>1. t + k = INDEX_MOD * 0 + (t + k) /\ t + k \in 0 .. INDEX_MOD - 1
    BY <1>1, <1>2
  <2>2. (t + k) % INDEX_MOD = t + k
    BY <1>1, <2>1, ModUnique
  <2>3. Add(t, k) = t + k /\ Add(t, k) \in Index
    BY <2>1, <2>2 DEF Add, Index
  <2> QED
    BY <1>1, <2>3, SubValue
<1>3. CASE ~(t + k < INDEX_MOD)
  <2>1. t + k = INDEX_MOD * 1 + (t + k - INDEX_MOD) /\ t + k - INDEX_MOD \in 0 .. INDEX_MOD - 1
    BY <1>1, <1>3
  <2>2. (t + k) % INDEX_MOD = t + k - INDEX_MOD
    BY <1>1, <2>1, ModUnique
  <2>3. Add(t, k) = t + k - INDEX_MOD /\ Add(t, k) \in Index
    BY <2>1, <2>2 DEF Add, Index
  <2>4. (t + k - INDEX_MOD) % SSC_CMDQ_SIZE = (t + k) % SSC_CMDQ_SIZE
    <3>1. t + k \in Int /\ INDEX_MOD \in Int /\ SSC_CMDQ_SIZE \in Nat \ {0} /\ INDEX_MOD % SSC_CMDQ_SIZE = 0
      BY <1>1
    <3>2. ((t + k) - INDEX_MOD) % SSC_CMDQ_SIZE = (t + k) % SSC_CMDQ_SIZE
      BY <3>1, ModWrap
    <3>3. (t + k) - INDEX_MOD = t + k - INDEX_MOD
      BY <1>1
    <3> QED
      BY <3>2, <3>3
  <2>5. Sub(Add(t, k), t) = k
    <3>1. Sub(Add(t, k), t) = IF t <= Add(t, k) THEN Add(t, k) - t ELSE Add(t, k) - t + INDEX_MOD
      BY <2>3, SubValue
    <3>2. Add(t, k) = t + k - INDEX_MOD /\ t \in Nat /\ INDEX_MOD \in Nat /\ k < INDEX_MOD
      BY <1>1, <2>3
    <3> QED
      BY <3>1, <3>2
  <2> QED
    BY <2>3, <2>4, <2>5
<1> QED
  BY <1>2, <1>3

-----------------------------------------------------------------------------
(* What lies between two indices.                                           *)

\* The indices between two copies are finitely many.
LEMMA BetweenFinite ==
  ASSUME NEW a, NEW b
  PROVE  IsFiniteSet(Between(a, b)) /\ IsFiniteSet(DataIn(a, b))
<1>1. IsFiniteSet(Index)
  BY Sizes, FS_Interval DEF Index
<1>2. Between(a, b) \subseteq Index /\ DataIn(a, b) \subseteq Index
  BY DEF Between, DataIn
<1> QED
  BY <1>1, <1>2, FS_Subset

\* Storing the head lets the engine see one slot more.
LEMMA BetweenStore ==
  ASSUME NEW a \in Index, NEW b \in Index, Sub(b, a) < INDEX_MOD - 1
  PROVE  /\ Between(a, Add(b, 1)) = Between(a, b) \cup {b}
         /\ b \notin Between(a, b)
<1>1. Sub(Add(b, 1), a) = Sub(b, a) + 1 /\ Sub(b, a) \in Nat
  BY SubNext, SubRange
<1>2. b \notin Between(a, b)
  BY <1>1 DEF Between
<1>3. ASSUME NEW i \in Index
      PROVE  Sub(i, a) < Sub(b, a) + 1 <=> Sub(i, a) < Sub(b, a) \/ i = b
  <2>1. Sub(i, a) \in Nat
    BY SubRange
  <2>2. Sub(i, a) = Sub(b, a) => i = b
    <3>1. SUFFICES ASSUME Sub(i, a) = Sub(b, a) PROVE i = b
      OBVIOUS
    <3>2. Sub(b, i) = Sub(b, a) - Sub(i, a)
      BY <1>1, <3>1, SubChain
    <3> QED
      BY <1>1, <3>1, <3>2, SubRange
  <2> QED
    BY <1>1, <2>1, <2>2
<1> QED
  BY <1>1, <1>2, <1>3 DEF Between

\* Taking a command moves the near end past one slot.
LEMMA BetweenTake ==
  ASSUME NEW a \in Index, NEW b \in Index, a # b
  PROVE  /\ Between(Add(a, 1), b) = Between(a, b) \ {a}
         /\ a \in Between(a, b)
<1>1. Sub(a, a) = 0 /\ Sub(b, a) \in Nat /\ Sub(b, a) > 0
  BY SubRange
<1>2. a \in Between(a, b)
  BY <1>1 DEF Between
<1>3. Sub(b, Add(a, 1)) = Sub(b, a) - 1 /\ Add(a, 1) \in Index
  BY SubNext, AddValue
<1>4. ASSUME NEW i \in Index
      PROVE  Sub(i, Add(a, 1)) < Sub(b, a) - 1 <=> Sub(i, a) < Sub(b, a) /\ i # a
  <2>1. Sub(i, a) \in Nat
    BY SubRange
  <2>2. CASE i = a
    <3>1. Sub(a, Add(a, 1)) = INDEX_MOD - 1
      <4>1. /\ a \in Nat /\ a < INDEX_MOD /\ INDEX_MOD \in Nat \ {0} /\ Add(a, 1) \in Index
            /\ Add(a, 1) = IF a = INDEX_MOD - 1 THEN 0 ELSE a + 1
        BY AddValue, Sizes DEF Index
      <4>2. Sub(a, Add(a, 1)) = IF Add(a, 1) <= a THEN a - Add(a, 1) ELSE a - Add(a, 1) + INDEX_MOD
        BY <4>1, SubValue
      <4> QED
        BY <4>1, <4>2
    <3>2. Sub(b, a) < INDEX_MOD /\ INDEX_MOD \in Nat
      BY SubRange, Sizes
    <3> QED
      BY <1>1, <2>2, <3>1, <3>2
  <2>3. CASE i # a
    BY <1>1, <2>1, <2>3, SubNext
  <2> QED
    BY <2>2, <2>3
<1> QED
  BY <1>2, <1>3, <1>4 DEF Between

\* What one drain saw and what came after it.
LEMMA BetweenSplit ==
  ASSUME NEW a \in Index, NEW t \in Index, NEW h \in Index, NEW b \in Index,
         Sub(t, a) <= Sub(h, a)
  PROVE  Between(a, b) \subseteq Between(a, h) \cup Between(t, b)
<1>1. Sub(t, a) \in Nat /\ Sub(h, a) \in Nat /\ Sub(b, a) \in Nat
  BY SubRange
<1>2. ASSUME NEW i \in Index, Sub(i, a) < Sub(b, a), ~(Sub(i, a) < Sub(h, a))
      PROVE  Sub(i, t) < Sub(b, t)
  <2>1. Sub(i, a) \in Nat /\ Sub(t, a) <= Sub(i, a) /\ Sub(t, a) <= Sub(b, a)
    BY <1>1, <1>2, SubRange
  <2>2. Sub(i, t) = Sub(i, a) - Sub(t, a) /\ Sub(b, t) = Sub(b, a) - Sub(t, a)
    BY <2>1, SubChain
  <2> QED
    BY <1>1, <1>2, <2>1, <2>2
<1> QED
  BY <1>2 DEF Between

\* No slot of the ring a drain or the engine still reads is the one being filled.
LEMMA FillKeeps ==
  ASSUME NEW i \in Index, NEW a \in Index, NEW b \in Index, NEW h \in Index,
         Sub(i, a) < Sub(b, a), Sub(b, a) <= Sub(h, a), Sub(h, a) < SSC_CMDQ_SIZE
  PROVE  /\ i % SSC_CMDQ_SIZE \in 0 .. SSC_CMDQ_SIZE - 1
         /\ i % SSC_CMDQ_SIZE # h % SSC_CMDQ_SIZE
<1>1. Sub(i, a) \in Nat /\ Sub(b, a) \in Nat /\ Sub(h, a) \in Nat
  BY SubRange
<1>2. Sub(i, a) < Sub(h, a)
  BY <1>1
<1>3. i \in Int /\ SSC_CMDQ_SIZE \in Nat \ {0}
  BY Sizes DEF Index
<1> QED
  BY <1>2, <1>3, ModRange, SlotsDiffer

-----------------------------------------------------------------------------
(* The invariant holds initially and every step keeps it.                   *)

\* The counts that the invariant compares.
LEMMA Counts ==
  ASSUME SscInv
  PROVE  /\ Taken \in Index
         /\ Cardinality(DataIn(Taken, s_cmdq_head)) \in Nat
         /\ Cardinality(DataIn(s_cmdq_tail, s_cmdq_head)) \in Nat
         /\ Cardinality(DataIn(s_cmdq_tail, head)) \in Nat
         /\ Cardinality(DataIn(s_cmdq_tail, s_cmdq_head)) <=
              Cardinality(DataIn(Taken, s_cmdq_head))
                + (IF epc = "exec" THEN Cardinality(DataIn(s_cmdq_tail, head)) ELSE 0)
         /\ Sub(s_cmdq_head, Taken) <= Sub(s_cmdq_head, s_cmdq_tail)
<1>0. /\ s_cmdq_tail \in Index /\ s_cmdq_head \in Index /\ tail \in Index /\ head \in Index
      /\ Taken \in Index
  BY DEF SscInv, SscTypeOK, Taken
<1>1. /\ Cardinality(DataIn(Taken, s_cmdq_head)) \in Nat
      /\ Cardinality(DataIn(s_cmdq_tail, s_cmdq_head)) \in Nat
      /\ Cardinality(DataIn(s_cmdq_tail, head)) \in Nat
  BY BetweenFinite, FS_CardinalityType
<1>2. CASE epc = "exec"
  <2>1. /\ Taken = tail /\ Sub(tail, s_cmdq_tail) <= Sub(head, s_cmdq_tail)
        /\ Sub(head, s_cmdq_tail) <= Sub(s_cmdq_head, s_cmdq_tail)
    BY <1>2 DEF SscInv, CmdIndices, Taken
  <2>2. Between(s_cmdq_tail, s_cmdq_head) \subseteq
          Between(s_cmdq_tail, head) \cup Between(Taken, s_cmdq_head)
    BY <1>0, <2>1, BetweenSplit
  <2>3. DataIn(s_cmdq_tail, s_cmdq_head) \subseteq
          DataIn(s_cmdq_tail, head) \cup DataIn(Taken, s_cmdq_head)
    BY <2>2 DEF DataIn
  <2> DEFINE D == DataIn(s_cmdq_tail, s_cmdq_head)
             E == DataIn(s_cmdq_tail, head)
             F == DataIn(Taken, s_cmdq_head)
  <2>4. IsFiniteSet(D) /\ IsFiniteSet(E) /\ IsFiniteSet(F)
    BY BetweenFinite
  <2> HIDE DEF D, E, F
  <2>5. /\ IsFiniteSet(E \cup F)
        /\ Cardinality(E \cup F) = Cardinality(E) + Cardinality(F) - Cardinality(E \cap F)
    BY <2>4, FS_Union
  <2>6. Cardinality(E \cap F) \in Nat /\ Cardinality(E) \in Nat /\ Cardinality(F) \in Nat
    BY <2>4, FS_Intersection, FS_CardinalityType
  <2>7. D \subseteq E \cup F
    BY <2>3 DEF D, E, F
  <2>8. Cardinality(D) <= Cardinality(E \cup F)
    BY <2>5, <2>7, FS_Subset
  <2>9. Cardinality(D) \in Nat
    BY <2>4, FS_CardinalityType
  <2>10. Cardinality(D) <= Cardinality(F) + Cardinality(E)
    BY <2>5, <2>6, <2>8, <2>9
  <2>11. Sub(s_cmdq_head, Taken) <= Sub(s_cmdq_head, s_cmdq_tail)
    <3>1. /\ Sub(tail, s_cmdq_tail) \in Nat /\ Sub(head, s_cmdq_tail) \in Nat
          /\ Sub(s_cmdq_head, s_cmdq_tail) \in Nat
      BY <1>0, SubRange
    <3>2. Sub(s_cmdq_head, tail) = Sub(s_cmdq_head, s_cmdq_tail) - Sub(tail, s_cmdq_tail)
      BY <1>0, <2>1, <3>1, SubChain
    <3> QED
      BY <2>1, <3>1, <3>2
  <2> QED
    BY <1>0, <1>1, <1>2, <2>10, <2>11 DEF D, E, F
<1>3. CASE epc # "exec"
  <2>1. Taken = s_cmdq_tail
    BY <1>3 DEF Taken
  <2>2. Sub(s_cmdq_head, s_cmdq_tail) \in Nat
    BY <1>0, SubRange
  <2> QED
    BY <1>0, <1>1, <1>3, <2>1, <2>2
<1> QED
  BY <1>2, <1>3

\* Both rings start empty.
LEMMA SscInitInv ==
  ASSUME SscInit
  PROVE  SscInv
<1>1. 0 \in Index /\ Sub(0, 0) = 0
  BY Sizes, SubRange DEF Index
<1>2. DataIn(0, 0) = {} /\ Cardinality({}) = 0
  <2>1. ASSUME NEW i \in Index PROVE ~(Sub(i, 0) < Sub(0, 0))
    BY <1>1, SubRange
  <2> QED
    BY <2>1, FS_EmptySet DEF DataIn, Between
<1>3. SscTypeOK
  <2>1. s_cmdq \in [0 .. SSC_CMDQ_SIZE - 1 -> Cmd] /\ ccmd \in Cmd
    BY DEF SscInit, Cmd
  <2>2. /\ {s_cmdq_head, s_cmdq_tail, chead, tail, head, s_smp_head, s_smp_tail, smp} \subseteq Index
        /\ s_cmd_seq \in 0 .. MaxData /\ s_consumed \in 0 .. MaxData /\ s_released \in 0 .. MaxData
        /\ s_cmd_dropped \in 0 .. MaxData + MaxCtrl /\ ctrls \in 0 .. MaxCtrl
        /\ left \in 0 .. SSC_BATCH /\ s_reset_line \in 0 .. 1
    BY <1>1, Sizes DEF SscInit
  <2>3. {int3, bsy, saw, polite, since, quiet} \subseteq BOOLEAN
    BY DEF SscInit
  <2> QED
    BY <2>1, <2>2, <2>3 DEF SscInit, SscTypeOK
<1>4. CommandSlotsFree /\ CmdIndices
  <2>1. ~Pushing /\ cpc = "idle" /\ epc = "drain"
    BY DEF SscInit, Pushing
  <2>2. Sub(s_cmdq_head, s_cmdq_tail) = 0
    BY <1>1 DEF SscInit
  <2> QED
    BY <2>1, <2>2, Sizes DEF CommandSlotsFree, CmdIndices
<1>5. SmpIndices
  BY <1>1, Sizes DEF SscInit, SmpIndices
<1>6. Taken = 0 /\ DataPending = 0 /\ CtrlPending = 0 /\ s_cmdq_head = 0 /\ s_cmdq_tail = 0 /\ Ready
  BY DEF SscInit, Taken, DataPending, CtrlPending, Pushing, Ready
<1>7. BytesCounted
  BY <1>2, <1>6 DEF SscInit, BytesCounted
<1>8. PoliteRoom
  <2>1. saw => Ready
    BY <1>6
  <2>2. polite => s_cmd_seq <= s_released + 1
    BY DEF SscInit
  <2>3. epc # "exec" /\ ctrls = 0
    BY DEF SscInit
  <2>4. /\ Sub(s_cmdq_head, Taken) = 0 /\ Sub(s_cmdq_head, s_cmdq_tail) = 0
        /\ DataIn(Taken, s_cmdq_head) = {} /\ DataIn(s_cmdq_tail, s_cmdq_head) = {}
    BY <1>1, <1>2, <1>6
  <2> QED
    BY <1>2, <1>6, <2>1, <2>2, <2>3, <2>4 DEF PoliteRoom
<1>9. PoliteLosesNothing /\ ReadyAfterReset
  BY <1>6 DEF SscInit, PoliteLosesNothing, ReadyAfterReset
<1> QED
  BY <1>3, <1>4, <1>5, <1>7, <1>8, <1>9 DEF SscInv

\* The parts of the invariant about the command ring and READY.
CommandInv ==
  CommandSlotsFree /\ CmdIndices /\ BytesCounted /\ PoliteRoom /\ PoliteLosesNothing /\ ReadyAfterReset

\* A step that leaves the command ring alone, and at most releases BUSY, keeps them.
LEMMA CommandFrame ==
  ASSUME SscInv,
         UNCHANGED <<s_cmdq, s_cmdq_head, s_cmdq_tail, s_cmd_seq, s_cmd_dropped, ccmd, chead, ctrls,
                     polite, quiet, s_consumed, tail, head>>,
         Pushing' <=> Pushing, cpc' = "push_store" <=> cpc = "push_store",
         epc' = "exec" <=> epc = "exec",
         s_released' \in {s_released, s_consumed},
         saw' => saw \/ Ready
  PROVE  CommandInv'
<1>1. Taken' = Taken /\ DataPending' = DataPending /\ CtrlPending' = CtrlPending
  BY DEF Taken, DataPending, CtrlPending
<1>2. /\ DataIn(Taken, s_cmdq_head)' = DataIn(Taken, s_cmdq_head)
      /\ DataIn(s_cmdq_tail, s_cmdq_head)' = DataIn(s_cmdq_tail, s_cmdq_head)
      /\ DataIn(s_cmdq_tail, head)' = DataIn(s_cmdq_tail, head)
  BY <1>1 DEF DataIn, Between
<1>3. /\ s_consumed \in Nat /\ s_released \in Nat /\ s_cmd_seq \in Nat /\ DataPending \in Nat
      /\ Cardinality(DataIn(Taken, s_cmdq_head)) \in Nat
  BY Counts DEF SscInv, SscTypeOK, DataPending
<1>4. Ready => Ready'
  BY <1>3 DEF SscInv, BytesCounted, Ready
<1>5. CommandSlotsFree' /\ CmdIndices'
  BY DEF SscInv, CommandSlotsFree, CmdIndices, Pushing
<1>6. BytesCounted'
  BY <1>1, <1>2, <1>3 DEF SscInv, BytesCounted
<1>7. PoliteRoom'
  <2>1. (saw => Ready) /\ (saw' => Ready')
    BY <1>4 DEF SscInv, PoliteRoom
  <2>2. polite' => s_cmd_seq' <= s_released' + 1
    <3>1. (polite => s_cmd_seq <= s_released + 1) /\ s_released <= s_consumed
      BY DEF SscInv, PoliteRoom, BytesCounted
    <3>2. s_released' = s_released \/ s_released' = s_consumed
      OBVIOUS
    <3>3. s_cmd_seq' = s_cmd_seq /\ (polite' => polite)
      OBVIOUS
    <3>4. ASSUME polite', s_released' = s_released PROVE s_cmd_seq' <= s_released' + 1
      BY <3>1, <3>3, <3>4
    <3>5. ASSUME polite', s_released' = s_consumed PROVE s_cmd_seq' <= s_released' + 1
      BY <1>3, <3>1, <3>3, <3>5
    <3> QED
      BY <3>2, <3>4, <3>5
  <2>3. /\ polite' /\ epc' = "exec" => Cardinality(DataIn(s_cmdq_tail, head)') <= 1
        /\ Sub(s_cmdq_head, Taken)' + CtrlPending'
             <= ctrls' + Cardinality(DataIn(Taken, s_cmdq_head)')
        /\ Sub(s_cmdq_head, s_cmdq_tail)' + CtrlPending'
             <= ctrls' + Cardinality(DataIn(s_cmdq_tail, s_cmdq_head)')
    BY <1>1, <1>2 DEF SscInv, PoliteRoom
  <2> QED
    BY <2>1, <2>2, <2>3 DEF PoliteRoom
<1>8. PoliteLosesNothing' /\ ReadyAfterReset'
  BY <1>4 DEF SscInv, PoliteLosesNothing, ReadyAfterReset
<1> QED
  BY <1>5, <1>6, <1>7, <1>8 DEF CommandInv

\* What the invariant says of the numbers.
LEMMA Numbers ==
  ASSUME SscInv
  PROVE  /\ s_cmdq \in [0 .. SSC_CMDQ_SIZE - 1 -> Cmd]
         /\ s_cmdq_tail \in Index /\ s_cmdq_head \in Index /\ tail \in Index /\ head \in Index
         /\ s_consumed \in Nat /\ s_released \in Nat /\ s_cmd_seq \in Nat /\ s_cmd_dropped \in Nat
         /\ ctrls \in Nat /\ ctrls <= MaxCtrl /\ MaxCtrl \in Nat
         /\ SSC_CMDQ_SIZE \in Nat /\ INDEX_MOD \in Nat /\ SSC_CMDQ_SIZE < INDEX_MOD
         /\ Sub(s_cmdq_head, Taken) \in Nat /\ Sub(s_cmdq_head, s_cmdq_tail) \in Nat
         /\ DataPending \in Nat /\ CtrlPending \in Nat
<1>1. s_cmdq_tail \in Index /\ s_cmdq_head \in Index /\ Taken \in Index
  BY Counts DEF SscInv, SscTypeOK
<1>2. Sub(s_cmdq_head, Taken) \in Nat /\ Sub(s_cmdq_head, s_cmdq_tail) \in Nat
  BY <1>1, SubRange
<1> QED
  BY <1>1, <1>2, Sizes DEF SscInv, SscTypeOK, DataPending, CtrlPending

\* A program that waits for READY finds room in the ring.
LEMMA RoomForPolite ==
  ASSUME SscInv, polite, MaxCtrl + 2 <= SSC_CMDQ_SIZE, cpc = "idle",
         saw \/ ctrls < MaxCtrl
  PROVE  s_cmd_dropped = 0 /\ ~CmdqFull
<1> DEFINE n == Cardinality(DataIn(Taken, s_cmdq_head))
           d == Cardinality(DataIn(s_cmdq_tail, s_cmdq_head))
           e == IF epc = "exec" THEN Cardinality(DataIn(s_cmdq_tail, head)) ELSE 0
<1>1. n \in Nat /\ d \in Nat /\ e \in Nat /\ d <= n + e
  BY Counts
<1>2. e <= 1
  BY DEF SscInv, PoliteRoom
<1>3. s_released <= s_consumed /\ s_consumed + n + DataPending <= s_cmd_seq
  BY DEF SscInv, BytesCounted
<1>4. s_cmd_seq <= s_released + 1 /\ (saw => s_released = s_cmd_seq)
  BY DEF SscInv, PoliteRoom, Ready
<1>5. Sub(s_cmdq_head, s_cmdq_tail) + CtrlPending <= ctrls + d
  BY DEF SscInv, PoliteRoom
<1>6. s_cmd_dropped = 0
  BY DEF SscInv, PoliteLosesNothing
<1> HIDE DEF n, d, e
<1>7. n <= 1 /\ (saw => n = 0)
  BY Numbers, <1>1, <1>3, <1>4, SMTT(20)
<1>8. ctrls + d < MaxCtrl + 2
  BY Numbers, <1>1, <1>2, <1>7, SMTT(20)
<1>9. Sub(s_cmdq_head, s_cmdq_tail) < SSC_CMDQ_SIZE
  BY Numbers, <1>1, <1>5, <1>8, SMTT(20)
<1> QED
  BY Numbers, <1>6, <1>9 DEF CmdqFull

\* ssc_write($FF7E) counts the byte and pushes or drops it.
LEMMA WriteByteInv ==
  ASSUME SscInv, WriteByte
  PROVE  CommandInv'
<1> DEFINE n == Cardinality(DataIn(Taken, s_cmdq_head))
<1>0. /\ cpc = "idle" /\ s_cmd_seq' = s_cmd_seq + 1 /\ saw' = FALSE /\ quiet' = FALSE
      /\ chead' = s_cmdq_head /\ ccmd' = "data" /\ (polite => saw)
      /\ UNCHANGED <<s_cmdq, s_cmdq_head, s_cmdq_tail, tail, head, epc, ctrls, polite, s_consumed, s_released>>
  BY DEF WriteByte, PushBegin, engineVars, chipVars
<1>1. /\ CmdqFull => cpc' = "idle" /\ s_cmd_dropped' = s_cmd_dropped + 1
      /\ ~CmdqFull => cpc' = "push_fill" /\ s_cmd_dropped' = s_cmd_dropped
  BY Numbers DEF WriteByte, PushBegin
<1>2. /\ Taken' = Taken
      /\ DataIn(Taken, s_cmdq_head)' = DataIn(Taken, s_cmdq_head)
      /\ DataIn(s_cmdq_tail, s_cmdq_head)' = DataIn(s_cmdq_tail, s_cmdq_head)
      /\ DataIn(s_cmdq_tail, head)' = DataIn(s_cmdq_tail, head)
  BY <1>0 DEF DataIn, Between, Taken
<1>3. DataPending = 0 /\ CtrlPending = 0 /\ CtrlPending' = 0
  BY <1>0 DEF DataPending, CtrlPending, Pushing
<1>4. DataPending' = IF CmdqFull THEN 0 ELSE 1
  BY <1>0, <1>1 DEF DataPending, Pushing
<1>5. n \in Nat
  BY Counts
<1>6. CommandSlotsFree' /\ CmdIndices'
  <2>1. Pushing' => ~CmdqFull
    BY <1>1 DEF Pushing
  <2>2. CommandSlotsFree'
    BY <1>0, <2>1, Numbers DEF CommandSlotsFree, Pushing, CmdqFull, SscInv
  <2>3. CmdIndices'
    BY <1>0, <1>1 DEF CmdIndices, SscInv
  <2> QED
    BY <2>2, <2>3
<1>7. BytesCounted'
  <2>1. /\ s_released <= s_consumed /\ s_consumed + n <= s_cmd_seq /\ s_cmd_dropped <= s_cmd_seq + ctrls
        /\ s_cmd_dropped = 0 => s_consumed + n = s_cmd_seq
    BY <1>3, <1>5, Numbers DEF SscInv, BytesCounted
  <2> HIDE DEF n
  <2>2. CASE CmdqFull
    <3>1. s_consumed + n + 0 <= s_cmd_seq + 1 /\ s_cmd_dropped + 1 <= s_cmd_seq + 1 + ctrls
      BY <1>5, <2>1, Numbers, SMTT(20)
    <3>2. s_cmd_dropped + 1 # 0
      BY Numbers
    <3> QED
      BY <1>0, <1>1, <1>2, <1>4, <2>1, <2>2, <3>1, <3>2 DEF BytesCounted, n
  <2>3. CASE ~CmdqFull
    <3>0. s_consumed \in Nat /\ s_cmd_seq \in Nat /\ s_cmd_dropped \in Nat /\ ctrls \in Nat
      BY Numbers
    <3>1. /\ s_consumed + n + 1 <= s_cmd_seq + 1 /\ s_cmd_dropped <= s_cmd_seq + 1 + ctrls
          /\ s_cmd_dropped = 0 => s_consumed + n + 1 = s_cmd_seq + 1
      BY <1>5, <2>1, <3>0
    <3> QED
      BY <1>0, <1>1, <1>2, <1>4, <2>1, <2>3, <3>1 DEF BytesCounted, n
  <2> QED
    BY <2>2, <2>3
<1>8. PoliteRoom'
  <2>1. polite => s_cmd_seq + 1 <= s_released + 1
    BY <1>0, Numbers DEF SscInv, PoliteRoom, Ready
  <2>2. /\ polite /\ epc = "exec" => Cardinality(DataIn(s_cmdq_tail, head)) <= 1
        /\ Sub(s_cmdq_head, Taken) + 0 <= ctrls + Cardinality(DataIn(Taken, s_cmdq_head))
        /\ Sub(s_cmdq_head, s_cmdq_tail) + 0 <= ctrls + Cardinality(DataIn(s_cmdq_tail, s_cmdq_head))
    BY <1>3 DEF SscInv, PoliteRoom
  <2> QED
    BY <1>0, <1>2, <1>3, <2>1, <2>2 DEF PoliteRoom
<1>9. PoliteLosesNothing' /\ ReadyAfterReset'
  <2>1. polite /\ MaxCtrl + 2 <= SSC_CMDQ_SIZE => s_cmd_dropped' = 0
    BY <1>0, <1>1, RoomForPolite
  <2> QED
    BY <1>0, <2>1 DEF PoliteLosesNothing, ReadyAfterReset
<1> QED
  BY <1>6, <1>7, <1>8, <1>9 DEF CommandInv

\* ssc_write($FF7D) and a reset push or drop their command.
LEMMA WriteControlInv ==
  ASSUME SscInv, NEW c \in {"ctrl1", "ctrl0", "reset"}, WriteControl(c)
  PROVE  CommandInv'
<1> DEFINE n == Cardinality(DataIn(Taken, s_cmdq_head))
           d == Cardinality(DataIn(s_cmdq_tail, s_cmdq_head))
<1>0. /\ cpc = "idle" /\ ctrls < MaxCtrl /\ ctrls' = ctrls + 1 /\ saw' = FALSE
      /\ chead' = s_cmdq_head /\ ccmd' = c
      /\ UNCHANGED <<s_cmdq, s_cmdq_head, s_cmdq_tail, tail, head, epc, s_cmd_seq, polite, quiet,
                     s_consumed, s_released>>
  BY DEF WriteControl, PushBegin, engineVars, chipVars
<1>1. /\ CmdqFull => cpc' = "idle" /\ s_cmd_dropped' = s_cmd_dropped + 1
      /\ ~CmdqFull => cpc' = "push_fill" /\ s_cmd_dropped' = s_cmd_dropped
  BY Numbers DEF WriteControl, PushBegin
<1>2. /\ Taken' = Taken
      /\ DataIn(Taken, s_cmdq_head)' = DataIn(Taken, s_cmdq_head)
      /\ DataIn(s_cmdq_tail, s_cmdq_head)' = DataIn(s_cmdq_tail, s_cmdq_head)
      /\ DataIn(s_cmdq_tail, head)' = DataIn(s_cmdq_tail, head)
  BY <1>0 DEF DataIn, Between, Taken
<1>3. DataPending = 0 /\ CtrlPending = 0 /\ DataPending' = 0
  BY <1>0 DEF DataPending, CtrlPending, Pushing
<1>4. CtrlPending' = IF CmdqFull THEN 0 ELSE 1
  BY <1>0, <1>1 DEF CtrlPending, Pushing
<1>5. n \in Nat /\ d \in Nat
  BY Counts
<1>6. CommandSlotsFree' /\ CmdIndices'
  <2>1. Pushing' => ~CmdqFull
    BY <1>1 DEF Pushing
  <2>2. CommandSlotsFree'
    BY <1>0, <2>1, Numbers DEF CommandSlotsFree, Pushing, CmdqFull, SscInv
  <2>3. CmdIndices'
    BY <1>0, <1>1 DEF CmdIndices, SscInv
  <2> QED
    BY <2>2, <2>3
<1>7. BytesCounted'
  <2>1. /\ s_released <= s_consumed /\ s_consumed + n + 0 <= s_cmd_seq
        /\ s_cmd_dropped = 0 => s_consumed + n + 0 = s_cmd_seq
    BY <1>3 DEF SscInv, BytesCounted
  <2>2. s_cmd_dropped <= s_cmd_seq + ctrls
    BY DEF SscInv, BytesCounted
  <2> HIDE DEF n
  <2>3. s_cmd_dropped + 1 # 0 /\ s_cmd_dropped + 1 <= s_cmd_seq + (ctrls + 1)
        /\ s_cmd_dropped <= s_cmd_seq + (ctrls + 1)
    BY <2>2, Numbers, SMTT(20)
  <2> QED
    BY <1>0, <1>1, <1>2, <1>3, <2>1, <2>3 DEF BytesCounted, n
<1>8. PoliteRoom'
  <2>1. /\ polite => s_cmd_seq <= s_released + 1
        /\ polite /\ epc = "exec" => Cardinality(DataIn(s_cmdq_tail, head)) <= 1
    BY DEF SscInv, PoliteRoom
  <2>2. Sub(s_cmdq_head, Taken) + 0 <= ctrls + n /\ Sub(s_cmdq_head, s_cmdq_tail) + 0 <= ctrls + d
    BY <1>3 DEF SscInv, PoliteRoom
  <2> HIDE DEF n, d
  <2>3. /\ Sub(s_cmdq_head, Taken) + 0 <= (ctrls + 1) + n
        /\ Sub(s_cmdq_head, s_cmdq_tail) + 0 <= (ctrls + 1) + d
        /\ Sub(s_cmdq_head, Taken) + 1 <= (ctrls + 1) + n
        /\ Sub(s_cmdq_head, s_cmdq_tail) + 1 <= (ctrls + 1) + d
    <3>1. ctrls \in Nat /\ Sub(s_cmdq_head, Taken) \in Nat /\ Sub(s_cmdq_head, s_cmdq_tail) \in Nat
      BY Numbers
    <3> QED
      BY <1>5, <2>2, <3>1
  <2>4. CtrlPending' = 0 \/ CtrlPending' = 1
    BY <1>4
  <2>5. /\ Sub(s_cmdq_head, Taken) + CtrlPending' <= (ctrls + 1) + n
        /\ Sub(s_cmdq_head, s_cmdq_tail) + CtrlPending' <= (ctrls + 1) + d
    BY <2>3, <2>4
  <2> QED
    BY <1>0, <1>2, <2>1, <2>5 DEF PoliteRoom, n, d
<1>9. PoliteLosesNothing' /\ ReadyAfterReset'
  <2>1. polite /\ MaxCtrl + 2 <= SSC_CMDQ_SIZE => s_cmd_dropped' = 0
    BY <1>0, <1>1, RoomForPolite
  <2>2. s_cmd_dropped' = 0 => s_cmd_dropped = 0
    BY <1>1, Numbers
  <2> QED
    BY <1>0, <2>1, <2>2 DEF SscInv, PoliteLosesNothing, ReadyAfterReset, Ready
<1> QED
  BY <1>6, <1>7, <1>8, <1>9 DEF CommandInv

\* What the invariant needs of the ring when a step neither counts nor takes a byte.
LEMMA NoCount ==
  ASSUME SscInv,
         UNCHANGED <<s_cmd_seq, s_cmd_dropped, ctrls, polite, quiet, s_consumed, s_released, saw>>,
         NEW n \in Nat, NEW p \in Nat,
         Cardinality(DataIn(Taken, s_cmdq_head)') = n, DataPending' = p,
         n + p = Cardinality(DataIn(Taken, s_cmdq_head)) + DataPending
  PROVE  BytesCounted' /\ PoliteLosesNothing' /\ ReadyAfterReset'
<1> DEFINE m == Cardinality(DataIn(Taken, s_cmdq_head))
<1>1. m \in Nat /\ DataPending \in Nat /\ s_consumed \in Nat
  BY Counts, Numbers
<1>2. /\ s_released <= s_consumed /\ s_consumed + m + DataPending <= s_cmd_seq
      /\ s_cmd_dropped = 0 => s_consumed + m + DataPending = s_cmd_seq
      /\ s_cmd_dropped <= s_cmd_seq + ctrls
  BY DEF SscInv, BytesCounted
<1> HIDE DEF m
<1>3. s_consumed + n + p = s_consumed + m + DataPending
  BY <1>1 DEF m
<1>4. BytesCounted'
  BY <1>2, <1>3 DEF BytesCounted
<1>5. PoliteLosesNothing' /\ ReadyAfterReset'
  BY DEF SscInv, PoliteLosesNothing, ReadyAfterReset, Ready
<1> QED
  BY <1>4, <1>5

\* push_cmd() writes the command into a slot nobody reads.
LEMMA PushFillInv ==
  ASSUME SscInv, PushFill
  PROVE  CommandInv'
<1>0. /\ cpc = "push_fill" /\ cpc' = "push_store" /\ s_cmdq' = [s_cmdq EXCEPT ![chead % SSC_CMDQ_SIZE] = ccmd]
      /\ UNCHANGED <<s_cmdq_head, s_cmdq_tail, tail, head, epc, s_cmd_seq, s_cmd_dropped, ctrls, polite,
                     quiet, saw, ccmd, chead, s_consumed, s_released>>
  BY DEF PushFill, engineVars, chipVars
<1>1. Pushing /\ Pushing' /\ Taken' = Taken /\ DataPending' = DataPending /\ CtrlPending' = CtrlPending
  BY <1>0 DEF Pushing, Taken, DataPending, CtrlPending
<1>2. chead = s_cmdq_head /\ Sub(s_cmdq_head, s_cmdq_tail) < SSC_CMDQ_SIZE
  BY <1>0, <1>1 DEF SscInv, CmdIndices, CommandSlotsFree
<1>a. ASSUME NEW a \in Index, NEW b \in Index,
             Sub(b, a) <= Sub(s_cmdq_head, a), Sub(s_cmdq_head, a) < SSC_CMDQ_SIZE
      PROVE  \A i \in Between(a, b) : s_cmdq'[i % SSC_CMDQ_SIZE] = s_cmdq[i % SSC_CMDQ_SIZE]
  <2>1. TAKE i \in Between(a, b)
  <2>2. i \in Index /\ Sub(i, a) < Sub(b, a) /\ s_cmdq_head \in Index
    BY Numbers DEF Between
  <2>3. i % SSC_CMDQ_SIZE \in 0 .. SSC_CMDQ_SIZE - 1 /\ i % SSC_CMDQ_SIZE # s_cmdq_head % SSC_CMDQ_SIZE
    BY <1>a, <2>2, FillKeeps
  <2>4. s_cmdq' = [s_cmdq EXCEPT ![s_cmdq_head % SSC_CMDQ_SIZE] = ccmd]
        /\ s_cmdq \in [0 .. SSC_CMDQ_SIZE - 1 -> Cmd]
    BY <1>0, <1>2, Numbers
  <2> QED
    BY <2>3, <2>4, Zenon
<1>3. /\ DataIn(Taken, s_cmdq_head)' = DataIn(Taken, s_cmdq_head)
      /\ DataIn(s_cmdq_tail, s_cmdq_head)' = DataIn(s_cmdq_tail, s_cmdq_head)
  <2>1. /\ Taken \in Index /\ s_cmdq_head \in Index /\ s_cmdq_tail \in Index
        /\ Sub(s_cmdq_head, Taken) <= Sub(s_cmdq_head, s_cmdq_tail)
        /\ Sub(s_cmdq_head, s_cmdq_tail) \in Nat /\ Sub(s_cmdq_head, Taken) \in Nat
    BY Counts, Numbers
  <2>2. Sub(s_cmdq_head, Taken) < SSC_CMDQ_SIZE
    BY <1>2, <2>1, Sizes
  <2>3. /\ \A i \in Between(Taken, s_cmdq_head) : s_cmdq'[i % SSC_CMDQ_SIZE] = s_cmdq[i % SSC_CMDQ_SIZE]
        /\ \A i \in Between(s_cmdq_tail, s_cmdq_head) :
             s_cmdq'[i % SSC_CMDQ_SIZE] = s_cmdq[i % SSC_CMDQ_SIZE]
    BY <1>2, <1>a, <2>1, <2>2
  <2>4. /\ Between(Taken, s_cmdq_head)' = Between(Taken, s_cmdq_head)
        /\ Between(s_cmdq_tail, s_cmdq_head)' = Between(s_cmdq_tail, s_cmdq_head)
    BY <1>0, <1>1 DEF Between
  <2> QED
    BY <2>3, <2>4 DEF DataIn
<1>4. epc = "exec" => DataIn(s_cmdq_tail, head)' = DataIn(s_cmdq_tail, head)
  <2>1. SUFFICES ASSUME epc = "exec" PROVE DataIn(s_cmdq_tail, head)' = DataIn(s_cmdq_tail, head)
    OBVIOUS
  <2>2. head \in Index /\ s_cmdq_tail \in Index /\ Sub(head, s_cmdq_tail) <= Sub(s_cmdq_head, s_cmdq_tail)
    BY Numbers, <2>1 DEF SscInv, CmdIndices
  <2>3. \A i \in Between(s_cmdq_tail, head) : s_cmdq'[i % SSC_CMDQ_SIZE] = s_cmdq[i % SSC_CMDQ_SIZE]
    BY <1>2, <1>a, <2>2
  <2>4. Between(s_cmdq_tail, head)' = Between(s_cmdq_tail, head)
    BY <1>0 DEF Between
  <2> QED
    BY <2>3, <2>4 DEF DataIn
<1>5. CommandSlotsFree' /\ CmdIndices'
  <2>1. s_cmdq_head % SSC_CMDQ_SIZE \in 0 .. SSC_CMDQ_SIZE - 1
    <3>1. s_cmdq_head \in Int /\ SSC_CMDQ_SIZE \in Nat \ {0}
      BY Numbers, Sizes DEF Index
    <3> QED
      BY <3>1, ModRange
  <2>2. s_cmdq'[chead % SSC_CMDQ_SIZE] = ccmd
    BY <1>0, <1>2, <2>1, Numbers
  <2>3. CommandSlotsFree'
    BY <1>0, <1>2 DEF CommandSlotsFree, SscInv
  <2> QED
    BY <1>0, <1>2, <2>2, <2>3 DEF SscInv, CmdIndices
<1>6. BytesCounted' /\ PoliteLosesNothing' /\ ReadyAfterReset'
  BY <1>0, <1>1, <1>3, Counts, Numbers, NoCount
<1>7. PoliteRoom'
  BY <1>0, <1>1, <1>3, <1>4 DEF SscInv, PoliteRoom, Ready
<1> QED
  BY <1>5, <1>6, <1>7 DEF CommandInv

\* push_cmd() publishes the slot it filled.
LEMMA PushStoreInv ==
  ASSUME SscInv, PushStore
  PROVE  CommandInv'
<1> DEFINE n == Cardinality(DataIn(Taken, s_cmdq_head))
           d == Cardinality(DataIn(s_cmdq_tail, s_cmdq_head))
           next == Add(s_cmdq_head, 1)
           add == IF ccmd = "data" THEN 1 ELSE 0
<1>0. /\ cpc = "push_store" /\ cpc' = "idle" /\ s_cmdq_head' = next
      /\ UNCHANGED <<s_cmdq, s_cmdq_tail, tail, head, epc, s_cmd_seq, s_cmd_dropped, ctrls, polite,
                     quiet, saw, ccmd, chead, s_consumed, s_released>>
  BY DEF PushStore, engineVars, chipVars, SscInv, CmdIndices, Pushing
<1>1. /\ Pushing /\ ~Pushing' /\ Taken' = Taken /\ DataPending' = 0 /\ CtrlPending' = 0
      /\ DataPending = add /\ CtrlPending = 1 - add
  BY <1>0 DEF Pushing, Taken, DataPending, CtrlPending
<1>2. /\ chead = s_cmdq_head /\ Sub(s_cmdq_head, s_cmdq_tail) < SSC_CMDQ_SIZE
      /\ s_cmdq[s_cmdq_head % SSC_CMDQ_SIZE] = ccmd
  BY <1>0, <1>1 DEF SscInv, CmdIndices, CommandSlotsFree
<1>3. /\ Taken \in Index /\ s_cmdq_head \in Index /\ s_cmdq_tail \in Index /\ next \in Index
      /\ Sub(s_cmdq_head, Taken) <= Sub(s_cmdq_head, s_cmdq_tail)
      /\ Sub(s_cmdq_head, s_cmdq_tail) \in Nat /\ Sub(s_cmdq_head, Taken) \in Nat
  BY Counts, Numbers, AddValue
<1>4. Sub(s_cmdq_head, s_cmdq_tail) < INDEX_MOD - 1 /\ Sub(s_cmdq_head, Taken) < INDEX_MOD - 1
  BY <1>2, <1>3, Sizes
<1>5. /\ Sub(next, s_cmdq_tail) = Sub(s_cmdq_head, s_cmdq_tail) + 1
      /\ Sub(next, Taken) = Sub(s_cmdq_head, Taken) + 1
  BY <1>3, <1>4, SubNext
<1>6. ASSUME NEW a \in Index, Sub(s_cmdq_head, a) < INDEX_MOD - 1
      PROVE  Cardinality(DataIn(a, next)) = Cardinality(DataIn(a, s_cmdq_head)) + add
  <2>1. Between(a, next) = Between(a, s_cmdq_head) \cup {s_cmdq_head} /\ s_cmdq_head \notin Between(a, s_cmdq_head)
    BY <1>3, <1>6, BetweenStore
  <2>2. IsFiniteSet(DataIn(a, s_cmdq_head)) /\ Cardinality(DataIn(a, s_cmdq_head)) \in Nat
    BY BetweenFinite, FS_CardinalityType
  <2>3. CASE ccmd = "data"
    <3>1. DataIn(a, next) = DataIn(a, s_cmdq_head) \cup {s_cmdq_head} /\ s_cmdq_head \notin DataIn(a, s_cmdq_head)
      BY <1>2, <2>1, <2>3 DEF DataIn
    <3> QED
      BY <2>2, <2>3, <3>1, FS_AddElement
  <2>4. CASE ccmd # "data"
    <3>1. DataIn(a, next) = DataIn(a, s_cmdq_head)
      BY <1>2, <2>1, <2>4 DEF DataIn
    <3> QED
      BY <2>2, <2>4, <3>1
  <2> QED
    BY <2>3, <2>4
<1>7. /\ DataIn(Taken, s_cmdq_head)' = DataIn(Taken, next)
      /\ DataIn(s_cmdq_tail, s_cmdq_head)' = DataIn(s_cmdq_tail, next)
      /\ DataIn(s_cmdq_tail, head)' = DataIn(s_cmdq_tail, head)
  BY <1>0, <1>1 DEF DataIn, Between
<1>8. /\ Cardinality(DataIn(Taken, s_cmdq_head)') = n + add
      /\ Cardinality(DataIn(s_cmdq_tail, s_cmdq_head)') = d + add
  BY <1>3, <1>4, <1>6, <1>7
<1>9. n \in Nat /\ d \in Nat /\ add \in {0, 1}
  BY Counts
<1>10. CommandSlotsFree' /\ CmdIndices'
  <2>1. CommandSlotsFree'
    <3>1. Sub(next, s_cmdq_tail) <= SSC_CMDQ_SIZE
      BY <1>2, <1>3, <1>5, Sizes
    <3> QED
      BY <1>0, <1>1, <3>1 DEF CommandSlotsFree, Pushing
  <2>2. epc = "exec" => /\ Sub(tail, s_cmdq_tail) <= Sub(head, s_cmdq_tail)
                        /\ Sub(head, s_cmdq_tail) <= Sub(next, s_cmdq_tail)
    <3>1. Sub(head, s_cmdq_tail) \in Nat
      BY Numbers, SubRange
    <3> QED
      BY <1>3, <1>5, <3>1 DEF SscInv, CmdIndices
  <2> QED
    BY <1>0, <1>1, <2>1, <2>2 DEF CmdIndices
<1>11. BytesCounted' /\ PoliteLosesNothing' /\ ReadyAfterReset'
  <2>1. n + add \in Nat /\ (n + add) + 0 = n + DataPending
    BY <1>1, <1>9
  <2> HIDE DEF n, add
  <2>2. n = Cardinality(DataIn(Taken, s_cmdq_head))
    BY DEF n
  <2> QED
    BY <1>0, <1>1, <1>8, <2>1, <2>2, NoCount
<1>12. PoliteRoom'
  <2>1. /\ Sub(s_cmdq_head, Taken) + CtrlPending <= ctrls + n
        /\ Sub(s_cmdq_head, s_cmdq_tail) + CtrlPending <= ctrls + d
    BY DEF SscInv, PoliteRoom
  <2>2. /\ Sub(next, Taken) + 0 <= ctrls + (n + add)
        /\ Sub(next, s_cmdq_tail) + 0 <= ctrls + (d + add)
    <3>1. ctrls \in Nat /\ CtrlPending = 1 - add
      BY <1>1, Numbers
    <3> HIDE DEF n, d, add, next
    <3> QED
      BY <1>3, <1>5, <1>9, <2>1, <3>1
  <2>3. /\ saw => Ready
        /\ polite => s_cmd_seq <= s_released + 1
        /\ polite /\ epc = "exec" => Cardinality(DataIn(s_cmdq_tail, head)) <= 1
    BY DEF SscInv, PoliteRoom
  <2> HIDE DEF n, d, add, next
  <2> QED
    BY <1>0, <1>1, <1>7, <1>8, <2>2, <2>3 DEF PoliteRoom, Ready
<1> QED
  BY <1>10, <1>11, <1>12 DEF CommandInv

\* engine_drain_commands() copies the head it will drain up to.
LEMMA DrainBeginInv ==
  ASSUME SscInv, DrainBegin
  PROVE  CommandInv'
<1> DEFINE n == Cardinality(DataIn(Taken, s_cmdq_head))
<1>0. /\ epc = "drain" /\ tail' = s_cmdq_tail /\ head' = s_cmdq_head /\ (epc' = "exec" \/ epc' = "test")
      /\ UNCHANGED <<s_cmdq, s_cmdq_head, s_cmdq_tail, cpc, s_cmd_seq, s_cmd_dropped, ctrls, polite,
                     quiet, saw, ccmd, chead, s_consumed, s_released>>
  BY DEF DrainBegin, frontVars, chipVars
<1>1. Taken' = s_cmdq_tail /\ Taken = s_cmdq_tail /\ Pushing' = Pushing
      /\ DataPending' = DataPending /\ CtrlPending' = CtrlPending
  BY <1>0 DEF Pushing, Taken, DataPending, CtrlPending
<1>2. /\ DataIn(Taken, s_cmdq_head)' = DataIn(Taken, s_cmdq_head)
      /\ DataIn(s_cmdq_tail, s_cmdq_head)' = DataIn(s_cmdq_tail, s_cmdq_head)
      /\ DataIn(s_cmdq_tail, head)' = DataIn(Taken, s_cmdq_head)
  BY <1>0, <1>1 DEF DataIn, Between
<1>3. n \in Nat
  BY Counts
<1>4. CommandSlotsFree' /\ CmdIndices'
  <2>1. Sub(s_cmdq_tail, s_cmdq_tail) <= Sub(s_cmdq_head, s_cmdq_tail)
        /\ Sub(s_cmdq_head, s_cmdq_tail) <= Sub(s_cmdq_head, s_cmdq_tail)
    BY Numbers, SubRange
  <2>2. CommandSlotsFree'
    BY <1>0, <1>1 DEF SscInv, CommandSlotsFree, Pushing
  <2> QED
    BY <1>0, <1>1, <2>1, <2>2 DEF SscInv, CmdIndices
<1>5. BytesCounted' /\ PoliteLosesNothing' /\ ReadyAfterReset'
  BY <1>0, <1>1, <1>2, <1>3, Numbers, NoCount
<1>6. PoliteRoom'
  <2>1. polite => n <= 1
    <3>1. (polite => s_cmd_seq <= s_released + 1) /\ s_released <= s_consumed
          /\ s_consumed + n + DataPending <= s_cmd_seq
      BY DEF SscInv, PoliteRoom, BytesCounted
    <3> HIDE DEF n
    <3> QED
      BY <1>3, <3>1, Numbers, SMTT(20)
  <2>2. /\ saw => Ready
        /\ polite => s_cmd_seq <= s_released + 1
        /\ Sub(s_cmdq_head, Taken) + CtrlPending <= ctrls + n
        /\ Sub(s_cmdq_head, s_cmdq_tail) + CtrlPending
             <= ctrls + Cardinality(DataIn(s_cmdq_tail, s_cmdq_head))
    BY DEF SscInv, PoliteRoom
  <2> QED
    BY <1>0, <1>1, <1>2, <2>1, <2>2 DEF PoliteRoom, Ready
<1> QED
  BY <1>4, <1>5, <1>6 DEF CommandInv

\* engine_drain_commands() gives back what it drained.
LEMMA DrainEndInv ==
  ASSUME SscInv, DrainEnd
  PROVE  CommandInv'
<1> DEFINE n == Cardinality(DataIn(Taken, s_cmdq_head))
<1>0. /\ epc = "exec" /\ epc' = "test" /\ s_cmdq_tail' = tail
      /\ UNCHANGED <<s_cmdq, s_cmdq_head, tail, head, cpc, s_cmd_seq, s_cmd_dropped, ctrls, polite,
                     quiet, saw, ccmd, chead, s_consumed, s_released>>
  BY DEF DrainEnd, frontVars, chipVars
<1>1. Taken' = tail /\ Taken = tail /\ Pushing' = Pushing
      /\ DataPending' = DataPending /\ CtrlPending' = CtrlPending
  BY <1>0 DEF Pushing, Taken, DataPending, CtrlPending
<1>2. /\ DataIn(Taken, s_cmdq_head)' = DataIn(Taken, s_cmdq_head)
      /\ DataIn(s_cmdq_tail, s_cmdq_head)' = DataIn(Taken, s_cmdq_head)
  BY <1>0, <1>1 DEF DataIn, Between
<1>3. n \in Nat
  BY Counts
<1>4. CommandSlotsFree' /\ CmdIndices'
  <2>1. Sub(s_cmdq_head, tail) <= Sub(s_cmdq_head, s_cmdq_tail)
    BY <1>1, Counts
  <2>2. Sub(s_cmdq_head, tail) <= SSC_CMDQ_SIZE /\ (Pushing => Sub(s_cmdq_head, tail) < SSC_CMDQ_SIZE)
    <3>1. /\ Sub(s_cmdq_head, s_cmdq_tail) <= SSC_CMDQ_SIZE
          /\ (Pushing => Sub(s_cmdq_head, s_cmdq_tail) < SSC_CMDQ_SIZE)
      BY DEF SscInv, CommandSlotsFree, Pushing
    <3>2. Sub(s_cmdq_head, tail) \in Nat
      BY <1>1, Numbers
    <3> QED
      BY <2>1, <3>1, <3>2, Numbers
  <2>3. CommandSlotsFree'
    BY <1>0, <1>1, <2>2 DEF SscInv, CommandSlotsFree, Pushing
  <2> QED
    BY <1>0, <1>1, <2>3 DEF SscInv, CmdIndices
<1>5. BytesCounted' /\ PoliteLosesNothing' /\ ReadyAfterReset'
  BY <1>0, <1>1, <1>2, <1>3, Numbers, NoCount
<1>6. PoliteRoom'
  BY <1>0, <1>1, <1>2 DEF SscInv, PoliteRoom, Ready
<1> QED
  BY <1>4, <1>5, <1>6 DEF CommandInv

\* engine_drain_commands() executes one command.
LEMMA DrainOneInv ==
  ASSUME SscInv, DrainOne
  PROVE  CommandInv' /\ s_consumed' \in 0 .. MaxData /\ s_released' \in 0 .. MaxData
<1> DEFINE c == s_cmdq[tail % SSC_CMDQ_SIZE]
           n == Cardinality(DataIn(Taken, s_cmdq_head))
           next == Add(tail, 1)
           taken == IF c = "data" THEN 1 ELSE 0
<1>0. /\ epc = "exec" /\ tail # head /\ tail' = next
      /\ UNCHANGED <<s_cmdq, s_cmdq_head, s_cmdq_tail, head, epc, cpc, s_cmd_seq, s_cmd_dropped, ctrls,
                     polite, saw, ccmd, chead>>
  BY DEF DrainOne, frontVars
<1>1. \/ c = "data" /\ s_consumed' = s_consumed + 1 /\ s_released' = s_released
      \/ c # "data" /\ s_consumed' = s_consumed /\ s_released' \in {s_released, s_consumed}
  BY DEF DrainOne, DataWrite, CtrlWrite, EngineReset, Released
<1>2. quiet' => \/ quiet
                \/ /\ c # "data" /\ s_released' = s_consumed /\ next = s_cmdq_head
                   /\ cpc \in {"idle", "tick_copy"}
  BY DEF DrainOne, IsReset, CtrlWrite, EngineReset, Released
<1> HIDE DEF c
<1>3. /\ Taken = tail /\ Taken' = next /\ Pushing' = Pushing
      /\ DataPending' = DataPending /\ CtrlPending' = CtrlPending
  BY <1>0 DEF Taken, Pushing, DataPending, CtrlPending
<1>4. /\ tail \in Index /\ s_cmdq_head \in Index /\ s_cmdq_tail \in Index /\ head \in Index /\ next \in Index
      /\ Sub(tail, s_cmdq_tail) <= Sub(head, s_cmdq_tail)
      /\ Sub(head, s_cmdq_tail) <= Sub(s_cmdq_head, s_cmdq_tail)
  BY <1>0, Numbers, AddValue DEF SscInv, CmdIndices
<1>5. /\ Sub(tail, s_cmdq_tail) \in Nat /\ Sub(head, s_cmdq_tail) \in Nat
      /\ Sub(s_cmdq_head, s_cmdq_tail) \in Nat /\ Sub(head, s_cmdq_tail) < INDEX_MOD /\ INDEX_MOD \in Nat
  BY <1>4, SubRange, Sizes
<1>6. Sub(tail, s_cmdq_tail) < Sub(head, s_cmdq_tail)
  <2>1. Sub(tail, s_cmdq_tail) = Sub(head, s_cmdq_tail) => Sub(head, tail) = 0
    BY <1>4, <1>5, SubChain
  <2> QED
    BY <1>0, <1>4, <1>5, <2>1, SubRange
<1>7. Sub(next, s_cmdq_tail) = Sub(tail, s_cmdq_tail) + 1
  <2>1. Sub(tail, s_cmdq_tail) < INDEX_MOD - 1
    BY <1>5, <1>6
  <2> QED
    BY <1>4, <2>1, SubNext
<1>8. tail # s_cmdq_head
  BY <1>4, <1>5, <1>6
<1>9. Sub(s_cmdq_head, next) = Sub(s_cmdq_head, tail) - 1
  BY <1>4, <1>8, SubNext
<1>10. /\ DataIn(Taken, s_cmdq_head)' = DataIn(next, s_cmdq_head)
       /\ DataIn(s_cmdq_tail, s_cmdq_head)' = DataIn(s_cmdq_tail, s_cmdq_head)
       /\ DataIn(s_cmdq_tail, head)' = DataIn(s_cmdq_tail, head)
  BY <1>0, <1>3 DEF DataIn, Between
<1>11. Cardinality(DataIn(next, s_cmdq_head)) = n - taken
  <2>1. Between(next, s_cmdq_head) = Between(tail, s_cmdq_head) \ {tail} /\ tail \in Between(tail, s_cmdq_head)
    BY <1>4, <1>8, BetweenTake
  <2>2. IsFiniteSet(DataIn(tail, s_cmdq_head)) /\ Cardinality(DataIn(tail, s_cmdq_head)) \in Nat
    BY BetweenFinite, FS_CardinalityType
  <2>3. CASE c = "data"
    <3>1. DataIn(next, s_cmdq_head) = DataIn(tail, s_cmdq_head) \ {tail} /\ tail \in DataIn(tail, s_cmdq_head)
      BY <2>1, <2>3 DEF DataIn, c
    <3> QED
      BY <1>3, <2>2, <2>3, <3>1, FS_RemoveElement
  <2>4. CASE c # "data"
    <3>1. DataIn(next, s_cmdq_head) = DataIn(tail, s_cmdq_head)
      BY <2>1, <2>4 DEF DataIn, c
    <3> QED
      BY <1>3, <2>2, <2>4, <3>1
  <2> QED
    BY <2>3, <2>4
<1>12. /\ n \in Nat /\ n - taken \in Nat /\ taken \in {0, 1} /\ s_consumed' = s_consumed + taken
       /\ s_consumed \in Nat /\ s_released \in Nat /\ s_cmd_seq \in Nat /\ DataPending \in Nat
  <2>1. Cardinality(DataIn(next, s_cmdq_head)) \in Nat
    BY BetweenFinite, FS_CardinalityType
  <2> QED
    BY <1>1, <1>11, <2>1, Counts, Numbers, SMTT(20)
<1>13. /\ s_released <= s_consumed /\ s_consumed + n + DataPending <= s_cmd_seq
       /\ s_cmd_dropped = 0 => s_consumed + n + DataPending = s_cmd_seq
       /\ s_cmd_dropped <= s_cmd_seq + ctrls
  BY DEF SscInv, BytesCounted
<1>14. s_released' = s_released \/ (c # "data" /\ s_released' = s_consumed)
  BY <1>1
<1>15. Ready => Ready'
  <2> HIDE DEF n
  <2>1. s_released = s_cmd_seq => s_consumed = s_cmd_seq
    BY <1>12, <1>13
  <2> QED
    BY <1>0, <1>14, <2>1 DEF Ready
<1>16. CommandSlotsFree' /\ CmdIndices'
  <2>1. CommandSlotsFree'
    BY <1>0, <1>3 DEF SscInv, CommandSlotsFree, Pushing
  <2>2. Sub(next, s_cmdq_tail) <= Sub(head, s_cmdq_tail)
    BY <1>5, <1>6, <1>7
  <2> HIDE DEF next
  <2> QED
    BY <1>0, <1>3, <1>4, <2>1, <2>2 DEF SscInv, CmdIndices
<1> HIDE DEF n, next, taken
<1>17. BytesCounted'
  <2>1. s_released' <= s_consumed'
    <3>1. CASE s_released' = s_released
      BY <1>12, <1>13, <3>1
    <3>2. CASE c # "data" /\ s_released' = s_consumed
      BY <1>1, <1>12, <3>2
    <3> QED
      BY <1>14, <3>1, <3>2
  <2>2. /\ (s_consumed + taken) + (n - taken) + DataPending <= s_cmd_seq
        /\ s_cmd_dropped = 0 => (s_consumed + taken) + (n - taken) + DataPending = s_cmd_seq
    BY <1>12, <1>13
  <2> QED
    BY <1>0, <1>3, <1>10, <1>11, <1>12, <1>13, <2>1, <2>2 DEF BytesCounted
<1>18. PoliteRoom'
  <2>1. polite' => s_cmd_seq' <= s_released' + 1
    <3>1. polite => s_cmd_seq <= s_released + 1 /\ s_cmd_seq <= s_consumed + 1
      <4>1. polite => s_cmd_seq <= s_released + 1
        BY DEF SscInv, PoliteRoom
      <4> QED
        BY <1>12, <1>13, <4>1
    <3>2. ASSUME polite', s_released' = s_released PROVE s_cmd_seq' <= s_released' + 1
      BY <1>0, <3>1, <3>2
    <3>3. ASSUME polite', s_released' = s_consumed PROVE s_cmd_seq' <= s_released' + 1
      BY <1>0, <3>1, <3>3
    <3> QED
      BY <1>14, <3>2, <3>3
  <2>2. Sub(s_cmdq_head, next) + CtrlPending <= ctrls + (n - taken)
    <3>1. Sub(s_cmdq_head, tail) + CtrlPending <= ctrls + n
      BY <1>3 DEF SscInv, PoliteRoom, n
    <3>2. Sub(s_cmdq_head, tail) \in Nat /\ CtrlPending \in Nat /\ ctrls \in Nat
      BY <1>3, Numbers
    <3> QED
      BY <1>9, <1>12, <3>1, <3>2
  <2>3. /\ saw => Ready
        /\ polite /\ epc = "exec" => Cardinality(DataIn(s_cmdq_tail, head)) <= 1
        /\ Sub(s_cmdq_head, s_cmdq_tail) + CtrlPending
             <= ctrls + Cardinality(DataIn(s_cmdq_tail, s_cmdq_head))
    BY DEF SscInv, PoliteRoom
  <2>4. saw' => Ready'
    BY <1>0, <1>15, <2>3
  <2>5. polite' /\ epc' = "exec" => Cardinality(DataIn(s_cmdq_tail, head)') <= 1
    BY <1>0, <1>10, <2>3
  <2>6. Sub(s_cmdq_head, Taken)' + CtrlPending' <= ctrls' + Cardinality(DataIn(Taken, s_cmdq_head)')
    BY <1>0, <1>3, <1>10, <1>11, <2>2
  <2>7. Sub(s_cmdq_head, s_cmdq_tail)' + CtrlPending'
          <= ctrls' + Cardinality(DataIn(s_cmdq_tail, s_cmdq_head)')
    BY <1>0, <1>3, <1>10, <2>3
  <2> QED
    BY <2>1, <2>4, <2>5, <2>6, <2>7 DEF PoliteRoom
<1>19. PoliteLosesNothing'
  BY <1>0 DEF SscInv, PoliteLosesNothing
<1>20. ReadyAfterReset'
  <2>1. SUFFICES ASSUME quiet', s_cmd_dropped = 0 PROVE Ready'
    BY <1>0 DEF ReadyAfterReset
  <2>2. CASE quiet
    BY <1>15, <2>1, <2>2 DEF SscInv, ReadyAfterReset
  <2>3. CASE c # "data" /\ s_released' = s_consumed /\ next = s_cmdq_head /\ cpc \in {"idle", "tick_copy"}
    <3>1. DataPending = 0
      BY <2>3 DEF DataPending, Pushing
    <3>2. taken = 0
      BY <2>3 DEF taken
    <3>3. Sub(s_cmdq_head, s_cmdq_head) = 0 /\ \A i \in Index : ~(Sub(i, s_cmdq_head) < 0)
      BY <1>4, SubRange
    <3>4. DataIn(next, s_cmdq_head) = {}
      BY <2>3, <3>3 DEF DataIn, Between
    <3>5. n = 0
      BY <1>11, <1>12, <3>2, <3>4, FS_EmptySet
    <3>6. s_consumed = s_cmd_seq
      BY <1>12, <1>13, <2>1, <3>1, <3>5
    <3> QED
      BY <1>0, <2>3, <3>6 DEF Ready
  <2> QED
    BY <1>2, <2>1, <2>2, <2>3
<1>21. s_consumed' \in 0 .. MaxData /\ s_released' \in 0 .. MaxData
  <2>1. s_cmd_seq <= MaxData /\ MaxData \in Nat
    BY Sizes DEF SscInv, SscTypeOK
  <2>2. s_consumed + taken \in 0 .. MaxData /\ s_released \in 0 .. MaxData /\ s_consumed \in 0 .. MaxData
    BY <1>12, <1>13, <2>1
  <2> QED
    BY <1>12, <1>14, <2>2
<1> QED
  BY <1>16, <1>17, <1>18, <1>19, <1>20, <1>21 DEF CommandInv

\* The sample ring is left alone by the steps that do not play or make samples.
LEMMA SampleFrame ==
  ASSUME SscInv, UNCHANGED <<s_smp_head, s_smp_tail, smp, left>>,
         epc' = "scan" <=> epc = "scan",
         cpc' = "tick_copy" => cpc = "tick_copy" \/ s_smp_tail # s_smp_head
  PROVE  SmpIndices'
<1>1. (IF epc = "scan" THEN left ELSE 0)' = IF epc = "scan" THEN left ELSE 0
  OBVIOUS
<1> QED
  BY <1>1 DEF SscInv, SmpIndices

\* The distances in the sample ring.
LEMMA SampleNumbers ==
  ASSUME SscInv
  PROVE  /\ s_smp_head \in Index /\ s_smp_tail \in Index /\ smp \in Index /\ left \in Nat
         /\ Sub(s_smp_head, s_smp_tail) \in Nat /\ Sub(smp, s_smp_tail) \in Nat
         /\ Sub(s_smp_head, s_smp_tail) <= Sub(smp, s_smp_tail)
         /\ (epc # "scan" => s_smp_head = smp)
         /\ Sub(smp, s_smp_tail) + (IF epc = "scan" THEN left ELSE 0) <= SSC_AHEAD + SSC_BATCH - 1
         /\ cpc = "tick_copy" => s_smp_tail # s_smp_head
         /\ SSC_AHEAD \in Nat /\ SSC_BATCH \in Nat /\ SSC_SMP_SIZE \in Nat /\ INDEX_MOD \in Nat
         /\ SSC_AHEAD + SSC_BATCH - 1 <= SSC_SMP_SIZE /\ SSC_SMP_SIZE < INDEX_MOD
<1>1. s_smp_head \in Index /\ s_smp_tail \in Index /\ smp \in Index /\ left \in Nat
  BY Sizes DEF SscInv, SscTypeOK
<1>2. Sub(s_smp_head, s_smp_tail) \in Nat /\ Sub(smp, s_smp_tail) \in Nat
  BY <1>1, SubRange
<1> QED
  BY <1>1, <1>2, Sizes DEF SscInv, SmpIndices

\* ssc_scanline_tick() gives back the slot of the sample it copied.
LEMMA TickStoreInv ==
  ASSUME SscInv, TickStore
  PROVE  SmpIndices'
<1> DEFINE next == Add(s_smp_tail, 1)
<1>1. /\ cpc = "tick_copy" /\ cpc' = "idle" /\ s_smp_tail' = next
      /\ UNCHANGED <<s_smp_head, smp, left, epc>>
  BY DEF TickStore, engineVars
<1>2. s_smp_tail # s_smp_head /\ smp # s_smp_tail
  BY <1>1, SampleNumbers, SubRange
<1>3. /\ Sub(s_smp_head, next) = Sub(s_smp_head, s_smp_tail) - 1
      /\ Sub(smp, next) = Sub(smp, s_smp_tail) - 1
  BY <1>2, SampleNumbers, SubNext
<1>4. Sub(s_smp_head, next) <= Sub(smp, next)
  BY <1>3, SampleNumbers
<1>5. Sub(smp, next) + (IF epc = "scan" THEN left ELSE 0) <= SSC_AHEAD + SSC_BATCH - 1
  BY <1>3, SampleNumbers
<1> HIDE DEF next
<1> QED
  BY <1>1, <1>4, <1>5, SampleNumbers DEF SmpIndices

\* A batch is started only while it fits.
LEMMA BatchTestInv ==
  ASSUME SscInv, BatchTest
  PROVE  SmpIndices'
<1>1. epc = "test" /\ UNCHANGED <<s_smp_head, s_smp_tail, smp, cpc>>
  BY DEF BatchTest, frontVars
<1>2. Sub(s_smp_head, s_smp_tail) <= Sub(smp, s_smp_tail) /\ s_smp_head = smp
      /\ (cpc = "tick_copy" => s_smp_tail # s_smp_head)
  BY <1>1, SampleNumbers
<1>3. CASE Behind /\ epc' = "scan" /\ left' = SSC_BATCH
  <2>1. Sub(smp, s_smp_tail) + SSC_BATCH <= SSC_AHEAD + SSC_BATCH - 1
    BY <1>3, SampleNumbers DEF Behind
  <2> QED
    BY <1>1, <1>2, <1>3, <2>1 DEF SmpIndices
<1>4. CASE epc' = "drain" /\ left' = left
  <2>1. Sub(smp, s_smp_tail) + 0 <= SSC_AHEAD + SSC_BATCH - 1
    BY <1>1, SampleNumbers
  <2> QED
    BY <1>1, <1>2, <1>4, <2>1 DEF SmpIndices
<1> QED
  BY <1>3, <1>4 DEF BatchTest

\* What Scanline does to the rings.
AnyScanline ==
  Scanline(FirmwareTakes) \/ Scanline(FirmwareReleases) \/ Scanline(FirmwareRuns)

\* Every scanline of the batch fills one slot.
LEMMA ScanlineInv ==
  ASSUME SscInv, AnyScanline
  PROVE  SmpIndices'
<1> DEFINE next == Add(smp, 1)
<1>1. /\ epc = "scan" /\ left > 0 /\ smp' = next /\ left' = left - 1
      /\ UNCHANGED <<s_smp_head, s_smp_tail, cpc, epc>>
  BY DEF AnyScanline, Scanline, frontVars
<1>2. Sub(smp, s_smp_tail) < INDEX_MOD - 1
  BY <1>1, SampleNumbers
<1>3. Sub(next, s_smp_tail) = Sub(smp, s_smp_tail) + 1
  BY <1>2, SampleNumbers, SubNext
<1>4. Sub(s_smp_head, s_smp_tail) <= Sub(next, s_smp_tail)
  BY <1>3, SampleNumbers
<1>5. Sub(next, s_smp_tail) + (left - 1) <= SSC_AHEAD + SSC_BATCH - 1
  BY <1>1, <1>3, SampleNumbers
<1> HIDE DEF next
<1> QED
  BY <1>1, <1>4, <1>5, SampleNumbers DEF SmpIndices

\* The batch is published.
LEMMA BatchEndInv ==
  ASSUME SscInv, BatchEnd
  PROVE  SmpIndices'
<1>1. /\ epc = "scan" /\ left = 0 /\ s_smp_head' = smp /\ epc' = "drain"
      /\ UNCHANGED <<smp, left, s_smp_tail, cpc>>
  BY DEF BatchEnd, frontVars
<1>2. cpc = "tick_copy" => s_smp_tail # smp
  BY SampleNumbers, SubRange
<1>3. Sub(smp, s_smp_tail) <= Sub(smp, s_smp_tail) /\ Sub(smp, s_smp_tail) + 0 <= SSC_AHEAD + SSC_BATCH - 1
  BY <1>1, SampleNumbers
<1> QED
  BY <1>1, <1>2, <1>3 DEF SmpIndices

\* Every step keeps the types.
LEMMA SscNextType ==
  ASSUME SscInv, SscNext
  PROVE  SscTypeOK'
<1>0. /\ s_cmdq \in [0 .. SSC_CMDQ_SIZE - 1 -> Cmd]
      /\ {s_cmdq_head, s_cmdq_tail, chead, tail, head, s_smp_head, s_smp_tail, smp} \subseteq Index
      /\ s_cmd_seq \in 0 .. MaxData /\ s_consumed \in 0 .. MaxData /\ s_released \in 0 .. MaxData
      /\ s_cmd_dropped \in 0 .. MaxData + MaxCtrl /\ ctrls \in 0 .. MaxCtrl
      /\ cpc \in {"idle", "push_fill", "push_store", "tick_copy"} /\ ccmd \in Cmd
      /\ epc \in {"drain", "exec", "test", "scan"} /\ left \in 0 .. SSC_BATCH
      /\ s_reset_line \in 0 .. 1 /\ {int3, bsy, saw, polite, since, quiet} \subseteq BOOLEAN
      /\ SSC_BATCH \in Nat /\ MaxData \in Nat /\ MaxCtrl \in Nat
      /\ s_cmd_dropped <= s_cmd_seq + ctrls
  BY Sizes DEF SscInv, SscTypeOK, BytesCounted
<1>i. \A i \in Index : Add(i, 1) \in Index
  BY AddValue
<1>p. ASSUME NEW c \in Cmd, PushBegin(c), s_cmd_seq' \in 0 .. MaxData, ctrls' \in 0 .. MaxCtrl,
             s_cmd_dropped < MaxData + MaxCtrl, {saw, polite, since, quiet}' \subseteq BOOLEAN
      PROVE  SscTypeOK'
  <2>1. /\ UNCHANGED <<s_cmdq, s_cmdq_head, s_smp_tail, s_cmdq_tail, s_smp_head, epc, tail, head, smp, left,
                       s_reset_line, int3, bsy, s_consumed, s_released>>
        /\ ccmd' = c /\ chead' = s_cmdq_head
        /\ (cpc' = "idle" \/ cpc' = "push_fill")
        /\ (s_cmd_dropped' = s_cmd_dropped + 1 \/ s_cmd_dropped' = s_cmd_dropped + 0)
    BY <1>p DEF PushBegin, engineVars, chipVars
  <2>2. s_cmd_dropped + 1 \in 0 .. MaxData + MaxCtrl /\ s_cmd_dropped + 0 \in 0 .. MaxData + MaxCtrl
    BY <1>0, <1>p
  <2>3. {s_cmdq_head, s_cmdq_tail, chead, tail, head, s_smp_head, s_smp_tail, smp}' \subseteq Index
    BY <1>0, <2>1
  <2>4. {int3, bsy, saw, polite, since, quiet}' \subseteq BOOLEAN
    BY <1>0, <1>p, <2>1
  <2> QED
    BY <1>0, <1>p, <2>1, <2>2, <2>3, <2>4 DEF SscTypeOK
<1>1. CASE ReadReady
  <2>1. {int3, bsy, saw, polite, since, quiet}' \subseteq BOOLEAN
    BY <1>0, <1>1 DEF ReadReady, Ready, engineVars, chipVars
  <2> QED
    BY <1>0, <1>1, <2>1 DEF ReadReady, engineVars, chipVars, SscTypeOK
<1>2. CASE WriteByte
  <2>1. /\ PushBegin("data") /\ "data" \in Cmd /\ s_cmd_seq' \in 0 .. MaxData /\ ctrls' \in 0 .. MaxCtrl
        /\ s_cmd_dropped < MaxData + MaxCtrl
    BY <1>0, <1>2 DEF WriteByte, Cmd
  <2>2. {saw, polite, since, quiet}' \subseteq BOOLEAN
    BY <1>0, <1>2 DEF WriteByte
  <2> QED
    BY <2>1, <2>2, <1>p
<1>3. CASE \E c \in {"ctrl1", "ctrl0", "reset"} : WriteControl(c)
  <2>1. PICK c \in {"ctrl1", "ctrl0", "reset"} : WriteControl(c)
    BY <1>3
  <2>2. /\ PushBegin(c) /\ c \in Cmd /\ s_cmd_seq' \in 0 .. MaxData /\ ctrls' \in 0 .. MaxCtrl
        /\ s_cmd_dropped < MaxData + MaxCtrl
    BY <1>0, <2>1 DEF WriteControl, Cmd
  <2>3. {saw, polite, since, quiet}' \subseteq BOOLEAN
    BY <1>0, <2>1 DEF WriteControl
  <2> QED
    BY <2>2, <2>3, <1>p
<1>4. CASE PushFill
  <2>1. s_cmdq' \in [0 .. SSC_CMDQ_SIZE - 1 -> Cmd]
    BY <1>0, <1>4 DEF PushFill
  <2> QED
    BY <1>0, <1>4, <2>1 DEF PushFill, engineVars, chipVars, SscTypeOK
<1>5. CASE PushStore
  <2>1. {s_cmdq_head, s_cmdq_tail, chead, tail, head, s_smp_head, s_smp_tail, smp}' \subseteq Index
    BY <1>0, <1>5, <1>i DEF PushStore, engineVars
  <2> QED
    BY <1>0, <1>5, <2>1 DEF PushStore, engineVars, chipVars, SscTypeOK
<1>6. CASE TickLook
  BY <1>0, <1>6 DEF TickLook, engineVars, chipVars, SscTypeOK
<1>7. CASE TickStore
  <2>1. {s_cmdq_head, s_cmdq_tail, chead, tail, head, s_smp_head, s_smp_tail, smp}' \subseteq Index
    BY <1>0, <1>7, <1>i DEF TickStore, engineVars
  <2> QED
    BY <1>0, <1>7, <2>1 DEF TickStore, engineVars, chipVars, SscTypeOK
<1>8. CASE DrainBegin
  <2>1. {s_cmdq_head, s_cmdq_tail, chead, tail, head, s_smp_head, s_smp_tail, smp}' \subseteq Index
    BY <1>0, <1>8 DEF DrainBegin, frontVars
  <2> QED
    BY <1>0, <1>8, <2>1 DEF DrainBegin, frontVars, chipVars, SscTypeOK
<1>9. CASE DrainOne
  <2>1. {s_cmdq_head, s_cmdq_tail, chead, tail, head, s_smp_head, s_smp_tail, smp}' \subseteq Index
    BY <1>0, <1>9, <1>i DEF DrainOne, frontVars
  <2>2. s_consumed' \in 0 .. MaxData /\ s_released' \in 0 .. MaxData
    BY <1>9, DrainOneInv
  <2>3. int3' \in BOOLEAN /\ bsy' \in BOOLEAN /\ s_reset_line' \in 0 .. 1
    <3>1. DataWrite \/ CtrlWrite(1) \/ CtrlWrite(0) \/ EngineReset
      BY <1>9 DEF DrainOne
    <3>2. int3 \in BOOLEAN /\ bsy \in BOOLEAN
      BY <1>0
    <3>3. CASE DataWrite
      BY <1>0, <3>2, <3>3 DEF DataWrite
    <3>4. ASSUME NEW v \in 0 .. 1, CtrlWrite(v) PROVE int3' \in BOOLEAN /\ bsy' \in BOOLEAN /\ s_reset_line' \in 0 .. 1
      BY <3>2, <3>4 DEF CtrlWrite
    <3>5. CASE EngineReset
      <4>1. int3' = FALSE /\ bsy' = FALSE /\ s_reset_line' = 1
        BY <3>5 DEF EngineReset
      <4>2. int3' \in BOOLEAN /\ bsy' \in BOOLEAN
        BY <4>1, Zenon
      <4>3. s_reset_line' \in 0 .. 1
        BY <4>1
      <4> QED
        BY <4>2, <4>3
    <3> QED
      BY <3>1, <3>3, <3>4, <3>5
  <2>4. quiet' \in BOOLEAN /\ UNCHANGED <<saw, polite, since>>
    <3>1. \E v : quiet' = (quiet \/ v) /\ UNCHANGED <<saw, polite, since>>
      BY <1>9 DEF DrainOne, frontVars
    <3> QED
      BY <1>0, <3>1
  <2>5. {int3, bsy, saw, polite, since, quiet}' \subseteq BOOLEAN
    BY <1>0, <2>3, <2>4
  <2>6. UNCHANGED <<s_cmdq, s_cmd_seq, s_cmd_dropped, ctrls, cpc, ccmd, epc, left>>
    BY <1>9 DEF DrainOne, frontVars
  <2> QED
    BY <1>0, <2>1, <2>2, <2>3, <2>5, <2>6 DEF SscTypeOK
<1>10. CASE DrainEnd
  <2>1. {s_cmdq_head, s_cmdq_tail, chead, tail, head, s_smp_head, s_smp_tail, smp}' \subseteq Index
    BY <1>0, <1>10 DEF DrainEnd, frontVars
  <2> QED
    BY <1>0, <1>10, <2>1 DEF DrainEnd, frontVars, chipVars, SscTypeOK
<1>11. CASE BatchTest
  <2>1. left' \in 0 .. SSC_BATCH
    BY <1>0, <1>11 DEF BatchTest
  <2> QED
    BY <1>0, <1>11, <2>1 DEF BatchTest, frontVars, chipVars, SscTypeOK
<1>12. CASE AnyScanline
  <2>1. {s_cmdq_head, s_cmdq_tail, chead, tail, head, s_smp_head, s_smp_tail, smp}' \subseteq Index
    BY <1>0, <1>12, <1>i DEF AnyScanline, Scanline, frontVars
  <2>2. s_consumed' \in 0 .. MaxData /\ s_released' \in 0 .. MaxData /\ s_reset_line' \in 0 .. 1
        /\ int3' \in BOOLEAN /\ bsy' \in BOOLEAN
    BY <1>0, <1>12 DEF AnyScanline, Scanline, FirmwareTakes, FirmwareReleases, FirmwareRuns, chipVars
  <2>3. left' \in 0 .. SSC_BATCH /\ UNCHANGED <<frontVars, quiet, epc>>
    BY <1>0, <1>12 DEF AnyScanline, Scanline
  <2>4. {int3, bsy, saw, polite, since, quiet}' \subseteq BOOLEAN
    BY <1>0, <2>2, <2>3 DEF frontVars
  <2> QED
    BY <1>0, <2>1, <2>2, <2>3, <2>4 DEF frontVars, SscTypeOK
<1>13. CASE BatchEnd
  <2>1. {s_cmdq_head, s_cmdq_tail, chead, tail, head, s_smp_head, s_smp_tail, smp}' \subseteq Index
    BY <1>0, <1>13 DEF BatchEnd, frontVars
  <2> QED
    BY <1>0, <1>13, <2>1 DEF BatchEnd, frontVars, chipVars, SscTypeOK
<1> QED
  BY <1>1, <1>2, <1>3, <1>4, <1>5, <1>6, <1>7, <1>8, <1>9, <1>10, <1>11, <1>12, <1>13
     DEF SscNext, FrontEnd, Task, AnyScanline

\* Every step of either core keeps the invariant.
LEMMA SscNextInv ==
  ASSUME SscInv, [SscNext]_sscVars
  PROVE  SscInv'
<1>a. ASSUME SscNext, CommandInv', SmpIndices' PROVE SscInv'
  BY <1>a, SscNextType DEF SscInv, CommandInv
<1>b. ASSUME ReadReady \/ TickLook \/ TickStore \/ BatchTest \/ AnyScanline \/ BatchEnd
      PROVE  CommandInv'
  <2>1. /\ UNCHANGED <<s_cmdq, s_cmdq_head, s_cmdq_tail, s_cmd_seq, s_cmd_dropped, ccmd, chead, ctrls,
                       polite, quiet, s_consumed, tail, head>>
        /\ (cpc' = cpc \/ {cpc, cpc'} \subseteq {"idle", "tick_copy"})
        /\ (epc' = epc \/ {epc, epc'} \subseteq {"drain", "test", "scan"})
        /\ (s_released' = s_released \/ s_released' = s_consumed)
        /\ (saw' = saw \/ saw' = Ready)
    BY <1>b DEF ReadReady, TickLook, TickStore, BatchTest, BatchEnd, AnyScanline, Scanline, frontVars,
       engineVars, chipVars, FirmwareTakes, FirmwareReleases, FirmwareRuns
  <2>2. /\ Pushing' <=> Pushing
        /\ cpc' = "push_store" <=> cpc = "push_store"
        /\ epc' = "exec" <=> epc = "exec"
        /\ s_released' \in {s_released, s_consumed}
        /\ saw' => saw \/ Ready
    BY <2>1 DEF Pushing
  <2> QED
    BY <2>1, <2>2, CommandFrame
<1>c. ASSUME UNCHANGED <<s_smp_head, s_smp_tail, smp, left>>,
             epc' = epc \/ {epc, epc'} \subseteq {"drain", "exec", "test"},
             cpc' # "tick_copy" \/ cpc' = cpc \/ s_smp_tail # s_smp_head
      PROVE  SmpIndices'
  <2>1. epc' = "scan" <=> epc = "scan"
    BY <1>c
  <2>2. cpc' = "tick_copy" => cpc = "tick_copy" \/ s_smp_tail # s_smp_head
    BY <1>c
  <2> QED
    BY <1>c, <2>1, <2>2, SampleFrame
<1>1. CASE ReadReady
  <2>1. SmpIndices'
    BY <1>1, <1>c DEF ReadReady, engineVars
  <2> QED
    BY <1>1, <1>a, <1>b, <2>1 DEF SscNext, FrontEnd
<1>2. CASE WriteByte
  <2>1. SmpIndices'
    BY <1>2, <1>c DEF WriteByte, PushBegin, engineVars
  <2> QED
    BY <1>2, <1>a, <2>1, WriteByteInv DEF SscNext, FrontEnd
<1>3. CASE \E c \in {"ctrl1", "ctrl0", "reset"} : WriteControl(c)
  <2>1. PICK c \in {"ctrl1", "ctrl0", "reset"} : WriteControl(c)
    BY <1>3
  <2>2. SmpIndices'
    BY <2>1, <1>c DEF WriteControl, PushBegin, engineVars
  <2>3. CommandInv'
    BY <2>1, WriteControlInv
  <2> QED
    BY <1>3, <1>a, <2>2, <2>3 DEF SscNext, FrontEnd
<1>4. CASE PushFill
  <2>1. SmpIndices'
    BY <1>4, <1>c DEF PushFill, engineVars
  <2> QED
    BY <1>4, <1>a, <2>1, PushFillInv DEF SscNext, FrontEnd
<1>5. CASE PushStore
  <2>1. SmpIndices'
    BY <1>5, <1>c DEF PushStore, engineVars
  <2> QED
    BY <1>5, <1>a, <2>1, PushStoreInv DEF SscNext, FrontEnd
<1>6. CASE TickLook
  <2>1. SmpIndices'
    BY <1>6, <1>c DEF TickLook, engineVars
  <2> QED
    BY <1>6, <1>a, <1>b, <2>1 DEF SscNext, FrontEnd
<1>7. CASE TickStore
  BY <1>7, <1>a, <1>b, TickStoreInv DEF SscNext, FrontEnd
<1>8. CASE DrainBegin
  <2>1. SmpIndices'
    BY <1>8, <1>c DEF DrainBegin, frontVars
  <2> QED
    BY <1>8, <1>a, <2>1, DrainBeginInv DEF SscNext, Task
<1>9. CASE DrainOne
  <2>1. SmpIndices'
    BY <1>9, <1>c DEF DrainOne, frontVars
  <2> QED
    BY <1>9, <1>a, <2>1, DrainOneInv DEF SscNext, Task
<1>10. CASE DrainEnd
  <2>1. SmpIndices'
    BY <1>10, <1>c DEF DrainEnd, frontVars
  <2> QED
    BY <1>10, <1>a, <2>1, DrainEndInv DEF SscNext, Task
<1>11. CASE BatchTest
  BY <1>11, <1>a, <1>b, BatchTestInv DEF SscNext, Task
<1>12. CASE AnyScanline
  BY <1>12, <1>a, <1>b, ScanlineInv DEF SscNext, Task, AnyScanline
<1>13. CASE BatchEnd
  BY <1>13, <1>a, <1>b, BatchEndInv DEF SscNext, Task
<1>14. CASE UNCHANGED sscVars
  <2>1. SmpIndices'
    BY <1>14, <1>c DEF sscVars, engineVars, frontVars
  <2>2. SscTypeOK'
    BY <1>14 DEF sscVars, engineVars, frontVars, chipVars, SscInv, SscTypeOK
  <2>3. CommandInv'
    <3>1. UNCHANGED <<s_cmdq, s_cmdq_head, s_cmdq_tail, s_cmd_seq, s_cmd_dropped, ccmd, chead, ctrls, polite,
                      quiet, s_consumed, tail, head, cpc, epc, s_released, saw>>
      BY <1>14 DEF sscVars, engineVars, frontVars, chipVars
    <3> QED
      BY <3>1, CommandFrame DEF Pushing
  <2> QED
    BY <2>1, <2>2, <2>3 DEF SscInv, CommandInv
<1> QED
  BY <1>1, <1>2, <1>3, <1>4, <1>5, <1>6, <1>7, <1>8, <1>9, <1>10, <1>11, <1>12, <1>13, <1>14
     DEF SscNext, FrontEnd, Task, AnyScanline

-----------------------------------------------------------------------------
(* What the runs check on small rings.                                      *)

\* READY is not shown while a byte is on its way: with it shown, every byte counted
\* was consumed.
LEMMA NoByteUnderway ==
  ASSUME SscInv
  PROVE  ReadyMeansTaken
<1> DEFINE n == Cardinality(DataIn(Taken, s_cmdq_head))
<1>1. SUFFICES ASSUME Ready
               PROVE  /\ \A i \in DOMAIN Undrained : Undrained[i] # "data"
                      /\ cpc \in {"push_fill", "push_store"} => ccmd # "data"
  BY DEF ReadyMeansTaken
<1>2. n \in Nat /\ DataPending \in Nat /\ s_consumed \in Nat /\ s_cmd_seq \in Nat /\ s_released \in Nat
  BY Counts, Numbers
<1>3. s_released <= s_consumed /\ s_consumed + n + DataPending <= s_cmd_seq /\ s_released = s_cmd_seq
  BY <1>1 DEF SscInv, BytesCounted, Ready
<1>4. n = 0 /\ DataPending = 0
  <2> HIDE DEF n
  <2> QED
    BY <1>2, <1>3
<1>5. DataIn(Taken, s_cmdq_head) = {}
  BY <1>4, BetweenFinite, FS_EmptySet
<1>6. ASSUME NEW i \in DOMAIN Undrained PROVE Undrained[i] # "data"
  <2> DEFINE k == i - 1
  <2>1. /\ i \in 1 .. Sub(s_cmdq_head, Taken) /\ Undrained[i] = s_cmdq[(Taken + i - 1) % SSC_CMDQ_SIZE]
        /\ Taken \in Index /\ s_cmdq_head \in Index /\ Sub(s_cmdq_head, Taken) \in Nat
        /\ Sub(s_cmdq_head, Taken) < INDEX_MOD /\ INDEX_MOD \in Nat
    BY <1>6, Counts, Numbers, SubRange DEF Undrained
  <2>2. k \in Nat /\ k < Sub(s_cmdq_head, Taken) /\ k < INDEX_MOD /\ Taken + i - 1 = Taken + k
    BY <2>1 DEF Index
  <2> HIDE DEF k
  <2>3. /\ Add(Taken, k) \in Index /\ Sub(Add(Taken, k), Taken) = k
        /\ (Taken + k) % SSC_CMDQ_SIZE = Add(Taken, k) % SSC_CMDQ_SIZE
    BY <2>1, <2>2, SlotOf
  <2>4. Add(Taken, k) \in Between(Taken, s_cmdq_head)
    BY <2>2, <2>3 DEF Between
  <2>5. s_cmdq[Add(Taken, k) % SSC_CMDQ_SIZE] # "data"
    BY <1>5, <2>4 DEF DataIn
  <2> QED
    BY <2>1, <2>2, <2>3, <2>5
<1> QED
  BY <1>4, <1>6 DEF DataPending, Pushing

\* No sample that was not played is overwritten.
LEMMA SamplesFree ==
  ASSUME SscInv
  PROVE  SampleSlotsFree
  BY SampleNumbers DEF SampleSlotsFree

\* The inductive invariant.
THEOREM SscCorrect == SscSpec => []SscInv
<1>1. SscInit => SscInv
  BY SscInitInv
<1>2. SscInv /\ [SscNext]_sscVars => SscInv'
  BY SscNextInv
<1> QED
  BY <1>1, <1>2, PTL DEF SscSpec

\* Neither core overwrites what the other may still read: for rings of any size,
\* across every wrap of the indices.
THEOREM SscRings == SscSpec => []RingsSafe
<1>1. SscInv => RingsSafe
  BY SamplesFree DEF SscInv, RingsSafe
<1> QED
  BY <1>1, SscCorrect, PTL

\* READY tells every program the truth, and a program that waits for it loses
\* nothing (ssc_read(), ssc_write(), engine_drain_commands()).
THEOREM SscReady == SscSpec => []ReadyFaithful
<1>1. SscInv => ReadyFaithful
  BY NoByteUnderway DEF SscInv, ReadyFaithful
<1> QED
  BY <1>1, SscCorrect, PTL
=============================================================================

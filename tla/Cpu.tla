-------------------------------- MODULE Cpu ---------------------------------
(***************************************************************************)
(* How the CPU core takes interrupts, waits and returns: the run loop,      *)
(* check_interrupts() and the instructions that stack or unstack the        *)
(* machine state (mc6809_core_impl.h, built as MC6809 and as HD6309, and    *)
(* hd6309_ops.h).  One step is one pass of the run loop: interrupt check,   *)
(* wait test, one instruction.  Interrupt lines move between passes: an     *)
(* instruction's bus access and the end of a scanline both take effect at   *)
(* the next check.  HALT is a pass that is not made; that the disk          *)
(* controller does not hold it for ever is Fdc's NeverHalted.               *)
(*                                                                          *)
(* Registers other than CC, MD and W, and cycle counts, are left out.  The  *)
(* program is free except that it balances its stack, changes MD only with  *)
(* nothing stacked, and a handler changes W only if its frame holds it, as  *)
(* on the real chip.                                                        *)
(***************************************************************************)
EXTENDS Naturals, Sequences

CONSTANTS
  HD6309,           \* which of the two builds
  DEPTH,            \* bound: frames on the stack
  WMAX,             \* bound: values of W
  Masks, Modes      \* bound: what programs put into CC and MD

ASSUME CpuAssumption ==
  /\ HD6309 \in BOOLEAN /\ DEPTH \in Nat \ {0} /\ WMAX \in Nat \ {0}
  /\ Masks \subseteq SUBSET {"E", "F", "I"} /\ Modes \subseteq SUBSET {"NM", "FM"}

VARIABLE cpu        \* MC6809

CC == {"E", "F", "I"}
MD == {"NM", "FM"}
W == 0 .. WMAX

\* What one interrupt leaves on the stack: CC, whether the other registers are there
\* (entire) and whether E and F are (ef, with their value w), and whether the
\* stacked PC stands on a part-done TFM.
Frame == [cc : SUBSET CC, entire : BOOLEAN, ef : BOOLEAN, w : W, tfm : BOOLEAN]

\* History: what entered a handler, and the W and the TFM it interrupted.
Entry == [by : {"nmi", "firq", "irq", "sw"}, w : W, tfm : BOOLEAN]

MC6809 ==
  [cc : SUBSET CC, md : SUBSET MD, w : W, tfm : BOOLEAN,
   wait_for_interrupt : BOOLEAN, cwai_state : BOOLEAN,
   nmi_armed : BOOLEAN, nmi_line : BOOLEAN, nmi_pending : BOOLEAN,
   firq_pending : BOOLEAN, irq_pending : BOOLEAN,
   stack : Seq(Frame), entered : Seq(Entry)]

\* mc6809_reset(); W is kept, and the program starts on a new stack.
AfterReset(w) ==
  [cc |-> {"F", "I"}, md |-> {}, w |-> w, tfm |-> FALSE,
   wait_for_interrupt |-> FALSE, cwai_state |-> FALSE,
   nmi_armed |-> FALSE, nmi_line |-> FALSE, nmi_pending |-> FALSE,
   firq_pending |-> FALSE, irq_pending |-> FALSE,
   stack |-> <<>>, entered |-> <<>>]

CpuInit == cpu = AfterReset(0)

-----------------------------------------------------------------------------
(* Stacking.                                                                *)

Top(s) == s[Len(s)]
Rest(s) == SubSeq(s, 1, Len(s) - 1)
Native(c) == "NM" \in c.md

\* All registers, with E set in the stacked CC; E and F in native mode.
PushEntire(c) ==
  LET cc == c.cc \cup {"E"} IN
  [c EXCEPT !.cc = cc,
            !.stack = Append(c.stack,
               [cc |-> cc, entire |-> TRUE, ef |-> Native(c), w |-> IF Native(c) THEN c.w ELSE 0, tfm |-> c.tfm])]

\* CC and PC only.
PushFast(c) ==
  LET cc == c.cc \ {"E"} IN
  [c EXCEPT !.cc = cc,
            !.stack = Append(c.stack,
               [cc |-> cc, entire |-> FALSE, ef |-> FALSE, w |-> 0, tfm |-> c.tfm])]

\* Mutant: cwai_state outlives the wait.
VectorKeepsCwai(c, by, masks) ==
  [c EXCEPT !.cc = c.cc \cup masks, !.tfm = FALSE, !.wait_for_interrupt = FALSE,
            !.entered = Append(c.entered, [by |-> by, w |-> IF c.tfm THEN c.w ELSE 0, tfm |-> c.tfm])]
\* The handler starts with the masks set; a wait is over.
Vector(c, by, masks) ==
  [c EXCEPT !.cc = c.cc \cup masks, !.tfm = FALSE,
            !.wait_for_interrupt = FALSE, !.cwai_state = FALSE,
            !.entered = Append(c.entered, [by |-> by, w |-> IF c.tfm THEN c.w ELSE 0, tfm |-> c.tfm])]

TakeNmi(c) ==
  LET n == [c EXCEPT !.nmi_pending = FALSE, !.nmi_line = FALSE]
  IN Vector(IF c.cwai_state THEN n ELSE PushEntire(n), "nmi", {"F", "I"})

\* What FIRQ stacks: nothing more after CWAI, everything with MD.FM, else CC and PC.
FirqFrame(c) ==
  IF c.cwai_state THEN c ELSE IF "FM" \in c.md THEN PushEntire(c) ELSE PushFast(c)
TakeFirq(c) == Vector(FirqFrame(c), "firq", {"F", "I"})

TakeIrq(c) == Vector(IF c.cwai_state THEN c ELSE PushEntire(c), "irq", {"I"})

CheckInterrupts(c) ==
  CASE c.nmi_pending /\ c.nmi_armed -> TakeNmi(c)
    [] ~(c.nmi_pending /\ c.nmi_armed) /\ c.firq_pending /\ "F" \notin c.cc -> TakeFirq(c)
    [] ~(c.nmi_pending /\ c.nmi_armed) /\ ~(c.firq_pending /\ "F" \notin c.cc)
       /\ c.irq_pending /\ "I" \notin c.cc -> TakeIrq(c)
    [] OTHER -> c

-----------------------------------------------------------------------------
(* One pass of the run loop.                                                *)

Checked == CheckInterrupts(cpu)

\* Mutant: SYNC does not end on a masked line.
SyncOverUnmasked(c) ==
  (c.irq_pending /\ "I" \notin c.cc) \/ (c.firq_pending /\ "F" \notin c.cc)
\* SYNC ends on an active line, masked or not.
SyncOver(c) == c.irq_pending \/ c.firq_pending

Waits(c) == c.wait_for_interrupt /\ (c.cwai_state \/ ~SyncOver(c))

\* The CPU as the instruction finds it.
Now == [Checked EXCEPT !.wait_for_interrupt = FALSE]

\* Instructions, each a function of the CPU c it finds.  TFM executes until W is 0,
\* so other instructions come only while c is not inside one.

\* ORCC, ANDCC, TFR and EXG to CC, PULS CC.
SetCC(c, cc) == ~c.tfm /\ cpu' = [c EXCEPT !.cc = cc]

\* LDS and LEAS.
ArmNmi(c) == ~c.tfm /\ cpu' = [c EXCEPT !.nmi_armed = TRUE]

Sync(c) == ~c.tfm /\ cpu' = [c EXCEPT !.wait_for_interrupt = TRUE]

Cwai(c, cc) ==
  /\ ~c.tfm
  /\ cpu' = [PushEntire([c EXCEPT !.cc = cc \cap @])
               EXCEPT !.wait_for_interrupt = TRUE, !.cwai_state = TRUE]

\* SWI, and SWI2 and SWI3, which set no masks.
Swi(c) == ~c.tfm /\ \E masks \in {{}, {"F", "I"}} : cpu' = Vector(PushEntire(c), "sw", masks)

\* hd6309_trap(): an illegal instruction or a division by zero.
Trap(c) == HD6309 /\ ~c.tfm /\ cpu' = Vector(PushEntire(c), "sw", {"F", "I"})

\* LDMD.
Ldmd(c, md) == HD6309 /\ ~c.tfm /\ c.stack = <<>> /\ cpu' = [c EXCEPT !.md = md]

\* W is the program's to use: no handler runs, or its frame holds the old one.
OwnsW(c) == HD6309 /\ (c.stack # <<>> => Top(c.stack).ef)

\* An instruction that loads W.
LoadW(c, w) == ~c.tfm /\ OwnsW(c) /\ cpu' = [c EXCEPT !.w = w]

\* h_tfm() moves one byte; the PC stays on it while W is not 0.
Tfm(c) ==
  /\ c.tfm \/ OwnsW(c)
  /\ c.w > 0
  /\ cpu' = [c EXCEPT !.w = @ - 1, !.tfm = c.w > 1]

\* RTI: E in the stacked CC says whether the rest was stacked, MD.NM whether E and F were.
Pulled(c, f) ==
  [c EXCEPT !.cc = f.cc, !.tfm = f.tfm, !.stack = Rest(c.stack), !.entered = Rest(c.entered),
            !.w = IF "E" \in f.cc /\ Native(c) THEN f.w ELSE c.w]

Rti(c) == ~c.tfm /\ c.stack # <<>> /\ cpu' = Pulled(c, Top(c.stack))

Instruction(c) ==
  \/ \E cc \in Masks : SetCC(c, cc) \/ Cwai(c, cc)
  \/ ArmNmi(c) \/ Sync(c) \/ Swi(c) \/ Trap(c) \/ Rti(c) \/ Tfm(c)
  \/ \E md \in Modes : Ldmd(c, md)
  \/ \E w \in W : LoadW(c, w)

Step ==
  /\ ~Waits(Checked)
  /\ \E c \in {Now} : Instruction(c)
  /\ Len(cpu'.stack) <= DEPTH

-----------------------------------------------------------------------------
(* The lines and the machine.                                               *)

\* Mutant: NMI as a level.
NmiLevel(c, active) == [c EXCEPT !.nmi_pending = active, !.nmi_line = active]
\* mc6809_nmi(): latched on the change to active.
NmiSet(c, active) ==
  [c EXCEPT !.nmi_pending = @ \/ (active /\ ~c.nmi_line), !.nmi_line = active]

\* The disk controller drives NMI; every call it makes is allowed.
Nmi(active) == cpu' = NmiSet(cpu, active)

Lines(firq, irq) ==
  /\ <<firq, irq>> # <<cpu.firq_pending, cpu.irq_pending>>
  /\ cpu' = [cpu EXCEPT !.firq_pending = firq, !.irq_pending = irq]

Reset == cpu' = AfterReset(cpu.w)

CpuNext ==
  \/ Step \/ Reset
  \/ \E b \in BOOLEAN : Nmi(b)
  \/ \E firq, irq \in BOOLEAN : Lines(firq, irq)

\* The machine runs the CPU in every scanline, so a pass that ends a wait is made
\* when it can be.
Resume == cpu.wait_for_interrupt /\ Step
CpuSpec == CpuInit /\ [][CpuNext]_cpu /\ WF_cpu(Resume)

-----------------------------------------------------------------------------
\* A frame says of itself what it is: E in its CC that the registers follow, the
\* mode md that E and F do.
Tells(f, md) == f.entire = ("E" \in f.cc) /\ f.ef = (f.entire /\ "NM" \in md)

\* The frame under a handler holds the CC of a program that had not masked it.
Unmasked(e, f) ==
  /\ e.by = "irq" => "I" \notin f.cc
  /\ e.by = "firq" => "F" \notin f.cc

\* RTI takes from the stack what the interrupt put there: the E it will find in the
\* stacked CC says whether the registers follow, and MD.NM whether E and F do,
\* however the program set E and whatever mix of CWAI, FIRQ, FM and native mode
\* stacked the frame.
FramesMatch == \A i \in 1 .. Len(cpu.stack) : Tells(cpu.stack[i], cpu.md)

\* Each handler has one frame to return by: a frame CWAI stacked in advance serves
\* the one interrupt that ends the wait.
OneFrameEach == Len(cpu.stack) = Len(cpu.entered) + (IF cpu.cwai_state THEN 1 ELSE 0)

\* A handler's RTI unmasks the interrupt it served: the stacked CC is the interrupted
\* program's.
ServedIsUnmasked == \A i \in 1 .. Len(cpu.entered) : Unmasked(cpu.entered[i], cpu.stack[i])

\* The inductive invariant: types, the three above, and that the frame of a CWAI
\* still being waited in is the last, with the CC the CPU has.
CpuInv ==
  /\ cpu \in MC6809
  /\ OneFrameEach /\ FramesMatch /\ ServedIsUnmasked
  /\ cpu.cwai_state => cpu.wait_for_interrupt /\ Top(cpu.stack).cc = cpu.cc

\* The W that the program below frame i of stack s will find is v: the first frame from
\* i up that holds E and F has it, or the CPU if none does.
Resumes(s, w, i, v) ==
  \/ \E j \in i .. Len(s) : s[j].ef /\ s[j].w = v /\ \A k \in i .. j - 1 : ~s[k].ef
  \/ w = v /\ \A k \in i .. Len(s) : ~s[k].ef

\* Every interrupted TFM will find its PC and its W.
TfmKept(c) ==
  \A i \in 1 .. Len(c.entered) :
    c.entered[i].tfm => c.stack[i].tfm /\ Resumes(c.stack, c.w, i, c.entered[i].w)

\* A program inside a TFM owns W: the frame below its own holds E and F.
TfmOwned(s) == \A i \in 2 .. Len(s) : s[i].tfm => s[i - 1].ef

\* What nested handlers leave of the TFMs they interrupt; CWAI is not executed in one.
WorkKept(c) ==
  /\ TfmKept(c) /\ TfmOwned(c.stack)
  /\ c.tfm /\ c.stack # <<>> => Top(c.stack).ef
  /\ c.cwai_state => ~c.tfm /\ ~Top(c.stack).tfm

\* The invariant behind TfmResumes.
WorkInv == WorkKept(cpu)

\* A latched NMI is not forgotten before it is served, while it is unarmed or when
\* the line falls again at once: only the NMI handler and a reset withdraw it.
NmiNotLost ==
  [][cpu.nmi_pending /\ ~cpu'.nmi_pending
     => Reset \/ (cpu.nmi_armed /\ Top(Checked.entered).by = "nmi")]_cpu

\* A TFM that was interrupted goes on with the bytes it had left, whatever handlers
\* did with W and however they nested.
TfmResumes ==
  [][Now.entered # <<>> /\ Top(Now.entered).tfm /\ Rti(Now) => cpu'.tfm /\ cpu'.w = Top(Now.entered).w]_cpu

\* Interrupts take nothing from the program: both of the above.
InterruptsKeepWork == NmiNotLost /\ TfmResumes

\* There is reason to wake up: an active line for SYNC, an interrupt that can be
\* taken for CWAI.
Woken ==
  /\ cpu.wait_for_interrupt /\ Len(cpu.stack) < DEPTH
  /\ IF cpu.cwai_state
     THEN \/ cpu.irq_pending /\ "I" \notin cpu.cc
          \/ cpu.firq_pending /\ "F" \notin cpu.cc
          \/ cpu.nmi_pending /\ cpu.nmi_armed
     ELSE cpu.irq_pending \/ cpu.firq_pending

\* A CPU that waits does not wait for ever while there is reason to wake up.
WaitEnds == []<>~Woken
=============================================================================

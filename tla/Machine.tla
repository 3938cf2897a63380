------------------------------- MODULE Machine -------------------------------
(***************************************************************************)
(* The machine (core/machine.cpp): the dispatch to the CoCo 2 or the CoCo 3, *)
(* the CPU's accesses, its interrupt entries and returns, and the lines of a *)
(* frame, interleaved as the emulator interleaves them: within a line the    *)
(* CPU runs first, then the line is processed; resets come between frames.   *)
(* A scene says which machine it is, what the CPU may access in which lines, *)
(* and how far the run goes; hist remembers what the properties speak of.    *)
(***************************************************************************)
EXTENDS Coco2, Coco3, Sequences

CONSTANT
  Scenes        \* records of kind, ram_pages, fitted, loaded, keys, unmask,
                \* setup (writes done before the run), writes, reads, slots
                \* (lines with CPU accesses), accesses and lines (bounds),
                \* and probes (addresses the decoders are compared on)

LAST_ADDRESS == 65535
Address == 0 .. LAST_ADDRESS
ASSUME ScenesAssumption ==
  \A s \in Scenes :
    /\ s.kind \in {"coco2", "coco3"} /\ s.ram_pages \in Nat \ {0}
    /\ s.reads \subseteq Address /\ s.probes \subseteq Address
    /\ s.writes \subseteq Address \X SUBSET Bits /\ s.setup \in Seq(Address \X SUBSET Bits)

VARIABLES mach, keys, scene, hist
mvars == <<mach, keys, scene, hist>>

BETWEEN == SCANLINES_PER_FRAME          \* the scanline of a frame that is over

\* The dispatchers: machine_read, machine_write, machine_reset, ...
IsCoco3 == scene.kind = "coco3"
machine_read(c, addr) == IF IsCoco3 THEN AfterRead(c, addr, keys) ELSE AfterRead2(c, addr, keys)
machine_write(c, addr, val) == IF IsCoco3 THEN AfterWrite(c, addr, val) ELSE AfterWrite2(c, addr, val)
machine_reset(c) == [(IF IsCoco3 THEN machine_reset_coco3(c) ELSE machine_reset_coco2(c)) EXCEPT !.acia_irq = FALSE]
machine_run_scanline(c) == IF IsCoco3 THEN machine_run_scanline_coco3(c) ELSE machine_run_scanline_coco2(c)
machine_run_frame(c) == IF IsCoco3 THEN FrameStart(c) ELSE FrameStart2(c)

\* machine_init: both machines share one structure; each resets its own part.
Allocated(s) ==
  [pia0 |-> mc6821_reset, pia1 |-> mc6821_reset, sound |-> sound_init("mame"), orch90 |-> [i \in {0, 1} |-> 0],
   stick |-> [i \in {0, 1} |-> [j \in {0, 1} |-> 32]], fitted |-> s.fitted, irq |-> FALSE, firq |-> FALSE,
   masked |-> TRUE, acia_irq |-> FALSE, scanline |-> 0, ram_pages |-> s.ram_pages, loaded |-> s.loaded,
   g |-> tcc1014_init, cart_bank |-> 0, sam |-> sam6883_reset, vdg |-> mc6847_reset,
   rd_page |-> [i \in 0 .. 7 |-> NullPage], wr_page |-> [i \in 0 .. 7 |-> NullPage]]
machine_init(s) ==
  IF s.kind = "coco3" THEN machine_reset_coco3(Allocated(s)) ELSE machine_reset_coco2(Allocated(s))

\* hist: writes of the setup, accesses and lines so far; for the frame, lines
\* drawn, VBORDs latched, whether nothing touched the video and whether VBORD
\* was enabled and idle from the start; for the timer, lines and expiries since
\* it was armed and whether its reload is the one it was armed with.
NoHist == [setup |-> 0, accesses |-> 0, lines |-> 0, drawn |-> 0, borders |-> 0, steady |-> FALSE,
           listening |-> FALSE, since |-> 0, fires |-> 0, armed |-> FALSE]

MachineInit ==
  /\ scene \in Scenes
  /\ mach = [machine_init(scene) EXCEPT !.scanline = BETWEEN]
  /\ keys = {}
  /\ hist = NoHist

\* The writes that the scene begins with
Ready == hist.setup = Len(scene.setup)
SetUp ==
  /\ ~Ready
  /\ LET w == scene.setup[hist.setup + 1] IN mach' = machine_write(mach, w[1], w[2])
  /\ hist' = [hist EXCEPT !.setup = @ + 1, !.armed = FALSE]
  /\ UNCHANGED <<keys, scene>>

CpuRuns == mach.scanline \in scene.slots /\ hist.accesses < scene.accesses
\* The CoCo 2 takes port B of PIA 1 at each of its mirrors.
Mirrors == IF IsCoco3 THEN {} ELSE {addr \in 65312 .. 65343 : addr % 4 >= 2}
VideoRegs == {65424} \cup (65432 .. 65439) \cup (65472 .. 65503) \cup {65314, 65315} \cup Mirrors
IntRegs == {65424, 65426, 65427}

\* Does this write load the timer, and does it change the value it reloads?
Arms(addr, val) == addr = 65428 \/ (addr = 65425 /\ (5 \in val) # TINS(mach.g))
Noted(addr, val) ==
  [hist EXCEPT !.accesses = @ + 1,
               !.steady = @ /\ addr \notin VideoRegs, !.listening = @ /\ addr \notin IntRegs,
               !.armed = IF IsCoco3 /\ Arms(addr, val) THEN TRUE ELSE @ /\ addr # 65429,
               !.since = IF IsCoco3 /\ Arms(addr, val) THEN 0 ELSE @,
               !.fires = IF IsCoco3 /\ Arms(addr, val) THEN mach.g.timer_fires ELSE @]

CpuWrite(addr, val) ==
  /\ CpuRuns
  /\ mach' = machine_write(mach, addr, val) /\ hist' = Noted(addr, val)
  /\ UNCHANGED <<keys, scene>>

CpuRead(addr) ==
  /\ CpuRuns
  /\ mach' = machine_read(mach, addr) /\ hist' = [hist EXCEPT !.accesses = @ + 1]
  /\ UNCHANGED <<keys, scene>>

\* The CPU between two instructions: the interrupt entry masks, RTI unmasks.
TakeInterrupt ==
  /\ CpuRuns /\ (mach.irq \/ mach.firq) /\ ~mach.masked
  /\ mach' = [mach EXCEPT !.masked = TRUE]
  /\ UNCHANGED <<keys, scene, hist>>
Rti ==
  /\ CpuRuns /\ mach.masked /\ scene.unmask
  /\ mach' = [mach EXCEPT !.masked = FALSE] /\ hist' = [hist EXCEPT !.accesses = @ + 1]
  /\ UNCHANGED <<keys, scene>>

Scanline ==
  /\ mach.scanline < BETWEEN /\ hist.lines < scene.lines
  /\ mach' = machine_run_scanline(mach)
  /\ hist' = IF IsCoco3
             THEN [hist EXCEPT !.lines = @ + 1, !.since = @ + 1,
                               !.drawn = @ + (IF mach.scanline >= 7 /\ mach'.g.active_area THEN 1 ELSE 0),
                               !.borders = @ + (IF VBORD \in mach'.g.irq_state \ mach.g.irq_state THEN 1 ELSE 0)]
             ELSE [hist EXCEPT !.lines = @ + 1]
  /\ UNCHANGED <<keys, scene>>

StartFrame ==
  /\ Ready /\ mach.scanline = BETWEEN /\ hist.lines < scene.lines
  /\ mach' = machine_run_frame(mach)
  /\ hist' = [hist EXCEPT !.drawn = 0, !.borders = 0, !.steady = TRUE,
                          !.listening = IsCoco3 /\ VBORD \in mach.g.registers[2] \ mach.g.irq_state]
  /\ UNCHANGED <<keys, scene>>

\* From the supervisor or the debug server, between frames
Reset ==
  /\ Ready /\ mach.scanline = BETWEEN /\ hist.accesses < scene.accesses
  /\ mach' = [machine_reset(mach) EXCEPT !.scanline = BETWEEN]
  /\ hist' = [hist EXCEPT !.accesses = @ + 1, !.armed = FALSE, !.steady = FALSE, !.listening = FALSE]
  /\ UNCHANGED <<keys, scene>>

\* A key goes down or up, a byte arrives at the RS-232 Pak.
Press(k) ==
  /\ CpuRuns /\ k \in scene.keys
  /\ keys' = IF k \in keys THEN keys \ {k} ELSE keys \cup {k}
  /\ hist' = [hist EXCEPT !.accesses = @ + 1]
  /\ UNCHANGED <<mach, scene>>
AciaIrq ==
  /\ CpuRuns /\ "acia" \in scene.fitted
  /\ mach' = [mach EXCEPT !.acia_irq = ~@] /\ hist' = [hist EXCEPT !.accesses = @ + 1]
  /\ UNCHANGED <<keys, scene>>

\* The Speech/Sound Cartridge's next sample; the OSD's choice of mixer.
SscSample ==
  /\ CpuRuns /\ "ssc" \in scene.fitted
  /\ \E level \in {-128, 0, 127} : mach' = [mach EXCEPT !.sound = sound_set_ssc(@, level)]
  /\ hist' = [hist EXCEPT !.accesses = @ + 1]
  /\ UNCHANGED <<keys, scene>>
ChangeMixer ==
  /\ Ready /\ mach.scanline = BETWEEN /\ hist.accesses < scene.accesses /\ "orch90" \in scene.fitted
  /\ \E mixer \in {"mame", "xroar"} : mach' = [mach EXCEPT !.sound = sound_set_mixer(@, mixer)]
  /\ hist' = [hist EXCEPT !.accesses = @ + 1]
  /\ UNCHANGED <<keys, scene>>

Over ==
  /\ hist.lines >= scene.lines /\ UNCHANGED mvars

MachineNext ==
  \/ \E w \in scene.writes : CpuWrite(w[1], w[2])
  \/ \E addr \in scene.reads : CpuRead(addr)
  \/ SetUp \/ TakeInterrupt \/ Rti \/ Scanline \/ StartFrame \/ Reset \/ AciaIrq
  \/ SscSample \/ ChangeMixer \/ Over
  \/ \E k \in scene.keys : Press(k)

MachineSpec == MachineInit /\ [][MachineNext]_mvars

-----------------------------------------------------------------------------
(* Properties.                                                              *)

\* Wherever the CPU core's page pointers, the short cuts of machine_read and
\* machine_write and the register decode can answer, they answer alike, after
\* any order of MMU, INIT, SAM and reset (a write below $FE00 goes to the RAM
\* that the MMU selects, ROM or not); and the video state the GIME keeps
\* beside its registers is the state the registers say.
UnderRom(c, addr) == Ram(BankOf(c.g, addr \div 8192) % c.g.ram_pages, addr)
DecodersAgree ==
  /\ IsCoco3 => /\ mach.g.video = Geometry(mach.g)
                /\ \A addr \in scene.probes : /\ CpuReads(mach, addr) = ReadChain(mach, addr)
                                        /\ CpuWrites(mach, addr) =
                                             IF addr < 65024 THEN UnderRom(mach, addr) ELSE WriteChain(mach, addr)
  /\ ~IsCoco3 => \A addr \in scene.probes : /\ CpuReads2(mach, addr) = machine_read_coco2(mach, addr)
                                      /\ CpuWrites2(mach, addr) = machine_write_coco2(mach, addr)

\* A frame in which the program leaves the video registers alone draws the
\* active area once, as far as the frame goes, interrupts once at its end if
\* the end is reached, and walks the video memory row by row.
Least(a, b) == IF a < b THEN a ELSE b
LinesPerRow(g) == IF g.video.rowmask = 0 THEN 1 ELSE g.video.rowmask
Skipped(g) == IF COCO(g) THEN 0 ELSE VSC(g)
RowsEnd(g) == COCO(g) \/ (LPR(g) # 7 /\ VSC(g) < LinesPerRow(g))
RowAddress(g, drawn) == StartAddress(g) + row_stride(g) * ((drawn + Skipped(g)) \div LinesPerRow(g))
Area(g) == Least(lAA(g), 255 - Least(lTB(g), 255))
FrameShape ==
  IsCoco3 /\ hist.steady =>
    /\ mach.scanline = BETWEEN =>
         /\ hist.drawn = Area(mach.g)
         /\ hist.listening => hist.borders = IF lTB(mach.g) + lAA(mach.g) < 255 THEN 1 ELSE 0
    /\ mach.scanline >= 8 /\ RowsEnd(mach.g) => mach.g.B = RowAddress(mach.g, hist.drawn)

\* The timer has expired as often, since it was last armed, as its period fits
\* in the lines since: no expiry is lost or stretched to the end of a line.
TimerKeepsRate ==
  IsCoco3 /\ hist.armed =>
    mach.g.timer_fires - hist.fires =
      IF Reload(mach.g) = 0 THEN 0
      ELSE IF TINS(mach.g)
      THEN (TIMER_FAST_X2_PER_LINE * hist.since) \div (2 * (Reload(mach.g) + TIMER_OFFSET))
      ELSE hist.since \div (Reload(mach.g) + TIMER_OFFSET)

\* The mixer's inputs and its output level are what the PIA pins say, whatever
\* was written in which order.
MixerFollowsPins == SoundAgrees(mach)

\* A CoCo 2 frame in which the program leaves SAM and VDG alone shows video
\* memory row by row from the display base, from the left edge to the right,
\* in text and in the graphics modes whose SAM and VDG settings match; and though the two sides of a PIA
\* overwrite each other's request on the shared line, the field sync raises it
\* again in every frame.
Matched(c) == vdg_mode(c.sam) = IF c.vdg.AG THEN <<1, 1, 2, 3, 4, 5, 6, 6>>[c.vdg.GM + 1] ELSE 0
RowBytes(c) == IF c.vdg.AG THEN gfx_modes[c.vdg.GM + 1].bytes ELSE 32
RowLines(c) == IF c.vdg.AG THEN <<3, 3, 3, 2, 2, 1, 1, 1>>[c.vdg.GM + 1] ELSE 12
FieldShape ==
  [][Scanline /\ ~IsCoco3 =>
       /\ hist.steady /\ Matched(mach) /\ mach.scanline < ACTIVE_SCANLINES =>
            \A x \in {0, 255} :
              mc6847_render_scanline(mach'.vdg, mach.scanline, x).addr =
                ((vdg_base(mach.sam) + RowBytes(mach) * (mach.scanline \div RowLines(mach))) % 65536)
                + (IF x = 0 THEN 0 ELSE RowBytes(mach) - 1)
       /\ 0 \in mach.pia0.b.ctrl
          /\ mach.scanline = (IF 1 \in mach.pia0.b.ctrl THEN 0 ELSE ACTIVE_SCANLINES) => mach'.irq]_mvars

-----------------------------------------------------------------------------
(* The inductive invariants behind DecodersAgree, MixerFollowsPins and       *)
(* TimerKeepsRate: the page pointers of either machine are those that its    *)
(* registers say, the mixer's inputs those of the pins, and the timer has    *)
(* left what its lines and expiries leave of its periods.                    *)

PiaShape(p) == DOMAIN p = {"a", "b"} /\ \A s \in {"a", "b"} : DOMAIN p[s] = {"data", "ddr", "ctrl", "input"}
MachineShape(c) ==
  /\ DOMAIN c = DOMAIN Allocated(scene) /\ c.ram_pages \in Nat \ {0}
  /\ PiaShape(c.pia0) /\ PiaShape(c.pia1) /\ DOMAIN c.sound = DOMAIN sound_init("mame")
  /\ DOMAIN c.sam = DOMAIN sam6883_reset /\ GimeShape(c.g)
Paged2(c) ==
  \A i \in 0 .. 7 : /\ c.rd_page[i] = ReadSlot(c, i)
                     /\ c.wr_page[i] = IF i < 4 \/ ty(c.sam) THEN <<"ram", i>> ELSE NullPage
InForce(c) == IF IsCoco3 THEN Mapped(c.g) /\ c.g.video = Geometry(c.g) ELSE Paged2(c)

TimerType(g) == g.timer_fires \in Int /\ g.timer_counter \in Int /\ g.timer_left_x2 \in Int
Period(g) == Reload(g) + TIMER_OFFSET
TimerLeft(g, since, expired) ==
  IF Reload(g) = 0 THEN g.timer_counter = 0 /\ expired = 0
  ELSE IF TINS(g) THEN /\ g.timer_counter = Period(g) /\ g.timer_left_x2 \in 1 .. 2 * Period(g)
                       /\ g.timer_left_x2 = (2 * Period(g)) * (expired + 1) - TIMER_FAST_X2_PER_LINE * since
  ELSE g.timer_counter \in 1 .. Period(g) /\ g.timer_counter = Period(g) * (expired + 1) - since

MachineIInv ==
  /\ scene \in Scenes /\ MachineShape(mach) /\ SoundAgrees(mach) /\ InForce(mach)
  /\ DOMAIN hist = DOMAIN NoHist /\ hist.setup \in 0 .. Len(scene.setup)
  /\ TimerType(mach.g) /\ hist.since \in Nat /\ hist.fires \in Int
  /\ IsCoco3 /\ hist.armed => TimerLeft(mach.g, hist.since, mach.g.timer_fires - hist.fires)

\* FrameShape's: where the beam is l lines after the blanking, what was drawn
\* and whether the border came; and IL lines that are the keyboard's.
DrawnAfter(g, l) == IF l <= lTB(g) THEN 0 ELSE Least(l - lTB(g), lAA(g))
Beam(g, l) == g.lcount = l /\ (g.active_area <=> lTB(g) < l /\ l <= lTB(g) + lAA(g))
RowReached(g, drawn) ==
  RowsEnd(g) => /\ g.B = RowAddress(g, drawn)
                /\ drawn > 0 => g.row = (drawn + Skipped(g)) % LinesPerRow(g)
Bordered(g, l, borders) ==
  /\ VBORD \in g.registers[2]
  /\ IF l <= lTB(g) + lAA(g) THEN borders = 0 /\ VBORD \notin g.irq_state ELSE borders = 1
FrameSoFar(g, l, h) ==
  /\ h.drawn = DrawnAfter(g, l)
  /\ l > 0 => Beam(g, l) /\ RowReached(g, h.drawn)
  /\ h.listening => Bordered(g, l, h.borders)
FrameIInv ==
  /\ hist.steady => Ready
  /\ IsCoco3 => /\ mach.scanline \in 0 .. BETWEEN /\ VBORD \notin mach.g.IL
                /\ hist.steady => FrameSoFar(mach.g, mach.scanline - 7, hist)

\* FieldShape's: how far the SAM's counter is after l lines of a field, and
\* which of the divide stages counts the lines of a row; and the display base,
\* which the VDG keeps beside the SAM's.
Walked(c, l) ==
  LET byX == RowBytes(c) = 16
  IN /\ c.sam.vdg_address = (vdg_base(c.sam) + RowBytes(c) * (l \div RowLines(c))) % 65536
     /\ c.sam.xcount = IF byX THEN l % RowLines(c) ELSE 0
     /\ c.sam.ycount = IF byX THEN 0 ELSE l % RowLines(c)
VdgFollows(c) ==
  DOMAIN c.vdg = DOMAIN mc6847_reset /\ c.vdg.GM \in 0 .. 7 /\ c.vdg.vram_offset = vdg_base(c.sam)
FieldIInv ==
  ~IsCoco3 =>
    /\ mach.scanline \in 0 .. BETWEEN /\ VdgFollows(mach)
    /\ hist.steady /\ Matched(mach) /\ mach.scanline \in 1 .. ACTIVE_SCANLINES - 1 => Walked(mach, mach.scanline)
=============================================================================

-------------------------------- MODULE Coco2 --------------------------------
(***************************************************************************)
(* The CoCo 2 (core/machine.cpp, *_coco2): the SAM's memory map with its     *)
(* page tables, the PIA callbacks that drive the CPU's interrupt lines, and  *)
(* a scanline.  A machine c is a record, as in Coco3.                        *)
(***************************************************************************)
EXTENDS Ports, SamVdg

CONSTANT NullPage                \* a null page pointer

ACTIVE_SCANLINES == 192
Ram2(addr) == <<"ram", addr \div 8192, addr % 8192>>
RomImage(c, name, offset) == IF name \in c.loaded THEN <<name, offset>> ELSE <<"none">>

\* update_fast_pages_coco2: what each 8 KB slot reads and writes; a ROM slot
\* writes nowhere.
ReadSlot(c, i) ==
  IF i < 4 \/ ty(c.sam) THEN <<"ram", i>>
  ELSE LET image == CASE i = 4 -> <<"extbas", 0>> [] i = 5 -> <<"basic", 0>> [] OTHER -> <<"cart", (i - 6) * 8192>>
       IN IF image[1] \in c.loaded THEN image ELSE NullPage
update_fast_pages_coco2(c) ==
  [c EXCEPT !.rd_page = [i \in 0 .. 7 |-> ReadSlot(c, i)],
            !.wr_page = [i \in 0 .. 7 |-> IF i < 4 \/ ty(c.sam) THEN <<"ram", i>> ELSE NullPage]]

\* Where the callbacks land.  Devices at $FF00 up are named by their address.
Io(c, addr) ==
  CASE addr < 65312 -> <<"pia0", addr % 4>>
    [] addr \in 65312 .. 65343 -> <<"pia1", addr % 4>>
    [] addr \in 65344 .. 65375 -> IF "becker" \in c.fitted /\ addr \in {65345, 65346}
                                  THEN <<"becker", addr>> ELSE <<"fdc", addr>>
    [] addr \in 65384 .. 65387 /\ "acia" \in c.fitted -> <<"acia", addr % 4>>
    [] addr \in 65405 .. 65406 /\ "ssc" \in c.fitted -> <<"ssc", addr>>
    [] addr \in 65408 .. 65414 /\ "vhd" \in c.fitted -> <<"vhd", addr>>
    [] OTHER -> <<"none">>
Vector(c, addr) ==
  IF {"extbas", "basic"} \subseteq c.loaded THEN <<"basic", 8160 + (addr % 32)>> ELSE <<"none">>

machine_read_coco2(c, addr) ==
  IF addr >= 65504 THEN Vector(c, addr)
  ELSE IF addr >= 65280 THEN Io(c, addr)
  ELSE IF addr < 32768 \/ ty(c.sam) THEN Ram2(addr)
  ELSE IF addr >= 49152 THEN RomImage(c, "cart", addr - 49152)
  ELSE IF addr >= 40960 THEN RomImage(c, "basic", addr - 40960)
  ELSE RomImage(c, "extbas", addr - 32768)
machine_write_coco2(c, addr) ==
  IF addr >= 65472 THEN IF addr < 65504 THEN <<"sam", addr - 65472>> ELSE <<"none">>
  ELSE IF addr >= 65280
       THEN IF "orch90" \in c.fitted /\ addr \in {65402, 65403} THEN <<"orch90", addr>> ELSE Io(c, addr)
  ELSE IF addr < 32768 \/ ty(c.sam) THEN Ram2(addr) ELSE <<"none">>

\* The CPU core's view: a page pointer below $FF00, else the callback.
Paged(page, addr) ==
  IF page[1] = "ram" THEN <<"ram", page[2], addr % 8192>> ELSE <<page[1], page[2] + (addr % 8192)>>
CpuReads2(c, addr) ==
  IF addr < 65280 /\ c.rd_page[addr \div 8192] # NullPage
  THEN Paged(c.rd_page[addr \div 8192], addr) ELSE machine_read_coco2(c, addr)
CpuWrites2(c, addr) ==
  IF addr < 65280 /\ c.wr_page[addr \div 8192] # NullPage
  THEN Paged(c.wr_page[addr \div 8192], addr) ELSE machine_write_coco2(c, addr)

-----------------------------------------------------------------------------
(* The PIAs.  Each side's callback assigns the line it shares with the other. *)

Assign(c, which, s, pia) ==
  IF which = "pia0" THEN [c EXCEPT !.pia0 = pia, !.irq = pia_irq(pia[s].ctrl)]
  ELSE [c EXCEPT !.pia1 = pia, !.firq = pia_irq(pia[s].ctrl)]
Keep(c, which, pia) == IF which = "pia0" THEN [c EXCEPT !.pia0 = pia] ELSE [c EXCEPT !.pia1 = pia]

PiaRead(c, which, reg) ==
  LET pia == mc6821_read(c[which], reg)
  IN IF Notifies(c[which], reg, FALSE) THEN Assign(c, which, SideOf(reg), pia) ELSE c
PiaWrite(c, which, reg, val) ==
  LET pia == mc6821_write(c[which], reg, val)
  IN IF Notifies(c[which], reg, TRUE) THEN Assign(c, which, SideOf(reg), pia) ELSE Keep(c, which, pia)
\* Mutant: the flag is set and the line left for the next access to find.
SilentTransition(c, which, s, rising) == Keep(c, which, c1_transition(c[which], s, rising))
Transition(c, which, s, rising) ==
  IF EdgeMatches(c[which], s, rising)
  THEN Assign(c, which, s, c1_transition(c[which], s, rising)) ELSE c

\* The VDG's pins from PIA1 port B
update_vdg_mode_coco2(c) ==
  LET pb == c.pia1.b.data \cap c.pia1.b.ddr
  IN [c EXCEPT !.vdg.AG = 7 \in pb, !.vdg.CSS = 3 \in pb, !.vdg.GM = Field(pb, 4, 3)]

AfterRead2(c, addr, keys) ==
  LET where == machine_read_coco2(c, addr)
      scanned == [c EXCEPT !.pia0.a.input = Rows(c, keys)]
  IN CASE where[1] = "pia0" -> PiaRead(IF where[2] = 0 /\ DataRead(c.pia0, 0) THEN scanned ELSE c, "pia0", where[2])
       [] where[1] = "pia1" -> PiaRead(c, "pia1", where[2])
       [] OTHER -> c
AfterWrite2(c, addr, val) ==
  LET where == machine_write_coco2(c, addr)
      written == PiaWrite(c, where[1], where[2], val)
      sammed == [c EXCEPT !.sam = sam6883_write(@, where[2])]
  IN CASE where[1] = "pia0" -> sound_pia0_written(written, where[2])
       [] where[1] = "pia1" -> sound_pia1_written(
                                 IF where[2] >= 2 THEN update_vdg_mode_coco2(written) ELSE written, where[2])
       [] where[1] = "orch90" -> orch90_write(c, addr, val)
       [] where[1] = "sam" -> update_vdg_mode_coco2(
                                [update_fast_pages_coco2(sammed) EXCEPT !.vdg.vram_offset = vdg_base(sammed.sam)])
       [] OTHER -> c

machine_reset_coco2(c) ==
  update_fast_pages_coco2(
    [c EXCEPT !.pia0 = mc6821_reset, !.pia1 = mc6821_reset, !.sam = sam6883_reset, !.vdg = mc6847_reset,
              !.sound = sound_reset(@),
              !.scanline = 0, !.irq = FALSE, !.firq = FALSE, !.masked = TRUE])

-----------------------------------------------------------------------------
(* A scanline, after the CPU has run its cycles.                            *)

\* With the RS-232 Pak on, FIRQ is recomputed every line.
AciaLine(c) ==
  IF "acia" \in c.fitted THEN [c EXCEPT !.firq = AnyIrq(c.pia1) \/ c.acia_irq] ELSE c

FieldStart(c) == [Transition(c, "pia0", "b", TRUE) EXCEPT !.sam = sam6883_vdg_fsync(@), !.vdg.fs = FALSE]
FieldEnd(c) == [Transition(c, "pia0", "b", FALSE) EXCEPT !.vdg.fs = TRUE]

bytes_per_row == <<16, 16, 32, 16, 32, 16, 32, 32>>
ActiveLine(c) ==
  LET bpr == IF c.vdg.AG THEN bytes_per_row[vdg_mode(c.sam) + 1] ELSE 32
  IN [c EXCEPT !.vdg.row_address = c.sam.vdg_address, !.sam = sam6883_vdg_fetch_bytes(@, bpr)]

machine_run_scanline_coco2(c) ==
  LET a == AciaLine(c)
      b == IF c.scanline = 0 THEN FieldStart(a) ELSE a
      d == IF c.scanline < ACTIVE_SCANLINES THEN ActiveLine(b) ELSE b
      e == [d EXCEPT !.sam = sam6883_vdg_hsync(@)]
      f == IF c.scanline = ACTIVE_SCANLINES THEN FieldEnd(e) ELSE e
  IN [f EXCEPT !.scanline = @ + 1]

FrameStart2(c) ==
  [(IF "autostart" \in c.fitted THEN Transition(Transition(c, "pia1", "b", TRUE), "pia1", "b", FALSE) ELSE c)
     EXCEPT !.scanline = 0]
=============================================================================

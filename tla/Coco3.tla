-------------------------------- MODULE Coco3 --------------------------------
(***************************************************************************)
(* The CoCo 3 (core/machine.cpp, *_coco3): which chip or memory answers an   *)
(* address, what an access does to the GIME and the PIAs, and what a         *)
(* scanline does after the CPU has run it.  A machine c is a record; an       *)
(* operator takes one and gives the next.  Memory is where an access lands,  *)
(* not what it holds.  c.fitted names the cartridge hardware that is on.     *)
(***************************************************************************)
EXTENDS Gime, Ports

SCANLINES_PER_FRAME == 262
ROM_DISK_END == 57344
Ram(page, addr) == <<"ram", page, addr % 8192>>
Rom(addr) == <<"rom", addr % 32768>>
Nothing == <<"none">>

IsAcia(c, addr) == "acia" \in c.fitted /\ addr \in 65384 .. 65387
IsOrch90(c, addr) == "orch90" \in c.fitted /\ addr \in 65402 .. 65403
IsSsc(c, addr) == "ssc" \in c.fitted /\ addr \in 65405 .. 65406
IsVhd(c, addr) == "vhd" \in c.fitted /\ addr \in 65408 .. 65414
IsBecker(c, addr) == "becker" \in c.fitted /\ addr \in 65345 .. 65346

\* CTS: a banked cartridge answers everywhere, a plain one at $C000 up.
Cartridge(c, addr) ==
  IF "banked" \in c.fitted THEN <<"cart", c.cart_bank, addr % 16384>>
  ELSE IF 49152 <= addr /\ addr < ROM_DISK_END THEN <<"cart", 0, addr - 49152>> ELSE Rom(addr)

\* The generic chain, for reads and for writes.
ReadChain(c, addr) ==
  LET d == tcc1014_decode(c.g, addr)
  IN CASE IsAcia(c, addr) -> <<"acia", addr % 4>>
       [] IsSsc(c, addr) -> <<"ssc", addr>>
       [] IsVhd(c, addr) -> <<"vhd", addr>>
       [] OTHER ->
            IF d.reg THEN <<"gime", addr>>
            ELSE IF d.RAS THEN Ram(d.page, addr)
            ELSE CASE d.S = 0 -> Rom(addr)
                   [] d.S = 1 -> Cartridge(c, addr)
                   [] d.S = 2 -> <<IF (addr \div 32) % 2 = 0 THEN "pia0" ELSE "pia1", addr % 4>>
                   [] d.S = 6 -> IF IsBecker(c, addr) THEN <<"becker", addr>> ELSE <<"fdc", addr>>
                   [] OTHER -> Nothing
WriteChain(c, addr) ==
  LET d == tcc1014_decode(c.g, addr)
  IN CASE IsAcia(c, addr) -> <<"acia", addr % 4>>
       [] IsOrch90(c, addr) -> <<"orch90", addr>>
       [] IsSsc(c, addr) -> <<"ssc", addr>>
       [] IsVhd(c, addr) -> <<"vhd", addr>>
       [] OTHER ->
            IF d.reg THEN <<"gime", addr>>
            ELSE IF d.RAS THEN Ram(d.page, addr)
            ELSE CASE d.S = 2 -> <<IF (addr \div 32) % 2 = 0 THEN "pia0" ELSE "pia1", addr % 4>>
                   [] d.S = 6 -> IF IsBecker(c, addr) THEN <<"becker", addr>>
                                 ELSE IF "banked" \in c.fitted THEN <<"bank", addr>> ELSE <<"fdc", addr>>
                   [] OTHER -> Nothing

\* machine_read_coco3 and machine_write_coco3: RAM below $FE00 straight from
\* active_banks, a few hot addresses directly, the rest through the chain.
machine_read_coco3(c, addr) ==
  LET bank == c.g.active_banks[addr \div 8192]
  IN IF addr < 65024 /\ (TY(c.g) \/ bank % 64 < 60) THEN Ram(bank % c.g.ram_pages, addr)
     ELSE IF addr \in {65426, 65427} THEN <<"gime", addr>>
     ELSE IF addr >= 65504 THEN Rom(addr)
     ELSE IF addr \in 65024 .. 65279 /\ MC3(c.g) THEN Ram(63 % c.g.ram_pages, addr)
     ELSE ReadChain(c, addr)
machine_write_coco3(c, addr) ==
  IF addr < 65024 THEN Ram(c.g.active_banks[addr \div 8192] % c.g.ram_pages, addr)
  ELSE IF addr = 65312 THEN <<"pia1", 0>>
  ELSE IF addr = 65425 THEN <<"gime", addr>>
  ELSE IF addr < 65280 /\ MC3(c.g) THEN Ram(63 % c.g.ram_pages, addr)
  ELSE WriteChain(c, addr)

\* The CPU core: its page tables below fast_limit, else the callbacks.
CpuReads(c, addr) ==
  IF addr < 65024 /\ c.g.rd_page[addr \div 8192] # NoPage THEN Ram(c.g.rd_page[addr \div 8192], addr)
  ELSE machine_read_coco3(c, addr)
CpuWrites(c, addr) ==
  IF addr < 65024 /\ c.g.wr_page[addr \div 8192] # NoPage THEN Ram(c.g.wr_page[addr \div 8192], addr)
  ELSE machine_write_coco3(c, addr)

-----------------------------------------------------------------------------
(* What an access changes.                                                  *)

\* The keyboard is GIME input IL1 as well.
ScanKeys(c, keys) ==
  IF ~DataRead(c.pia0, 0) THEN c
  ELSE [c EXCEPT !.g.IL = IF 0 \in Rows(c, keys) THEN {} ELSE {EI1},
                 !.pia0.a.input = Rows(c, keys)]

\* Reads with an effect: the PIAs, and the GIME's acknowledging registers.
\* Anything the direct paths do not take passes through tcc1014_mem_cycle.
AfterRead(c, addr, keys) ==
  LET where == machine_read_coco3(c, addr)
      seen == [c EXCEPT !.g = tcc1014_mem_read(@, addr)]
  IN CASE where[1] = "ram" \/ addr >= 65504 -> c
       [] where[1] = "pia0" ->
            LET s == IF where[2] = 0 THEN ScanKeys(seen, keys) ELSE seen
            IN [s EXCEPT !.pia0 = mc6821_read(@, where[2])]
       [] where[1] = "pia1" -> [seen EXCEPT !.pia1 = mc6821_read(@, where[2])]
       [] where[1] \in {"acia", "ssc", "vhd"} -> c
       [] OTHER -> seen

WritePia(c, which, reg, val) ==
  IF which = "pia0" THEN sound_pia0_written([c EXCEPT !.pia0 = mc6821_write(@, reg, val)], reg)
  ELSE sound_pia1_written([c EXCEPT !.pia1 = mc6821_write(@, reg, val)], reg)
AfterWrite(c, addr, val) ==
  LET where == machine_write_coco3(c, addr)
      seen == [c EXCEPT !.g = tcc1014_mem_write(@, addr, val)]
  IN CASE where[1] \in {"ram", "acia", "ssc", "vhd"} -> c
       [] where[1] = "orch90" -> orch90_write(c, addr, val)
       [] addr = 65312 -> WritePia(c, "pia1", 0, val)
       [] addr = 65425 -> [c EXCEPT !.g = tcc1014_write_register(@, 1, val)]
       [] where[1] \in {"pia0", "pia1"} /\ addr # 65312 -> WritePia(seen, where[1], where[2], val)
       [] where[1] = "bank" -> [seen EXCEPT !.cart_bank = IF addr = 65344 THEN Number(val) % 2 ELSE @]
       [] OTHER -> seen

machine_reset_coco3(c) ==
  [c EXCEPT !.g = tcc1014_set_ram(tcc1014_reset(@), c.ram_pages),
            !.pia0 = mc6821_reset, !.pia1 = mc6821_reset, !.sound = sound_reset(@), !.cart_bank = 0,
            !.scanline = 0, !.irq = FALSE, !.firq = FALSE, !.masked = TRUE]

-----------------------------------------------------------------------------
(* A scanline, after the CPU has run its cycles.                            *)

\* IRQ = PIA0 or GIME; FIRQ = PIA1, GIME or the RS-232 Pak.
RouteInterrupts(c) ==
  [c EXCEPT !.irq = AnyIrq(c.pia0) \/ c.g.IRQ # {},
            !.firq = AnyIrq(c.pia1) \/ c.g.FIRQ # {} \/ ("acia" \in c.fitted /\ c.acia_irq)]

Sync(c) ==
  LET pia == c1_transition(c1_transition(c.pia0, "a", FALSE), "a", TRUE)
  IN RouteInterrupts([c EXCEPT !.g = tcc1014_tick_scanline(@), !.pia0 = pia])

\* VRAM start, row counter and row advance
StartAddress(g) ==
  IF COCO(g) THEN (Y(g) % 512) + 65536 * ((Y(g) \div 65536) % 8) + 512 * SAM_F(g) ELSE Y(g)
RowFull(row, rowmask) == \A b \in 0 .. 4 : (rowmask \div 2^b) % 2 = 1 => (row \div 2^b) % 2 = 1
EnterActive(g) ==
  [g EXCEPT !.active_area = TRUE,
            !.row = IF COCO(g) \/ RowFull(VSC(g), g.video.rowmask) THEN 0 ELSE VSC(g)]
LeaveActive(g) == set_interrupt([g EXCEPT !.active_area = FALSE], {VBORD})
AdvanceRow(g) ==
  LET row == (g.row + 1) % 16
      full == RowFull(row, g.video.rowmask)
  IN [g EXCEPT !.row = IF full THEN 0 ELSE row, !.video.row_stride = row_stride(g),
               !.B = IF full /\ (COCO(g) \/ LPR(g) # 7) THEN @ + row_stride(g) ELSE @]

\* Mutant: one line late.
PastActiveLate(g) == g.lcount < g.video.lTB \/ g.lcount - g.video.lTB > g.video.lAA
\* vline - lTB is unsigned: a top border that grew past the line ends the area.
PastActive(g) == g.lcount < g.video.lTB \/ g.lcount - g.video.lTB >= g.video.lAA

\* The three steps of a line of the frame's lower part: enter the active area,
\* leave it, and draw the line or the border.
Entered(g) == IF ~g.active_area /\ g.lcount = g.video.lTB THEN EnterActive(g) ELSE g
LeftActive(g) == IF g.active_area /\ PastActive(g) THEN LeaveActive(g) ELSE g
DrawnLine(g) ==
  [(IF g.active_area THEN AdvanceRow(g) ELSE g)
     EXCEPT !.video.border_colour = border_colour(g), !.lcount = @ + 1]
VerticalLine(g) == DrawnLine(LeftActive(Entered(g)))
EndOfBlanking(g) == [g EXCEPT !.B = StartAddress(g), !.lcount = 0, !.active_area = FALSE]

Vertical(c) ==
  CASE c.scanline = 0 -> [c EXCEPT !.pia0 = c1_transition(@, "b", FALSE), !.g.video.lAA = lAA(c.g),
                                   !.g.video.lTB = IF COCO(c.g) THEN lTB(c.g) ELSE @]
    [] c.scanline = 4 -> [c EXCEPT !.pia0 = c1_transition(@, "b", TRUE)]
    [] c.scanline = 7 -> [c EXCEPT !.g = VerticalLine(EndOfBlanking(@))]
    [] c.scanline > 7 -> [c EXCEPT !.g = VerticalLine(@)]
    [] OTHER -> c

machine_run_scanline_coco3(c) ==
  LET v == Vertical(Sync(c))
  IN [v EXCEPT !.g = set_interrupt(@, {HBORD}), !.scanline = @ + 1]

\* machine_run_frame_coco3 before its lines: one pulse of a program cartridge.
FrameStart(c) ==
  [c EXCEPT !.scanline = 0,
            !.pia1 = IF "autostart" \in c.fitted
                     THEN c1_transition(c1_transition(@, "b", TRUE), "b", FALSE) ELSE @]
=============================================================================

-------------------------------- MODULE Gime --------------------------------
(***************************************************************************)
(* The GIME, TCC1014 (core/tcc1014.cpp, up to the renderer): MMU, interrupt  *)
(* controller, timer, address decode and the video state derived from the    *)
(* registers.  A register byte is the set of its bits that are 1.  Fields    *)
(* that the code keeps but that are always some bits of a register (MMUEN,   *)
(* TR, MC0-3, COCO, TINS, TY, ...)     are operators here; active_banks, the *)
(* page tables, the interrupt outputs and the video geometry are state, for  *)
(* the code maintains them separately.  Physical memory is counted in pages  *)
(* of 8 KB: an address is a page and an offset.                              *)
(***************************************************************************)
EXTENDS BitSets

CONSTANT NoPage                  \* a null page pointer

TMR == 5
HBORD == 4
VBORD == 3
EI1 == 1

TIMER_OFFSET == 1
TIMER_FAST_X2_PER_LINE == 456

COCO(g) == 7 \in g.registers[0]
MMUEN(g) == 6 \in g.registers[0]
IEN(g) == 5 \in g.registers[0]
FEN(g) == 4 \in g.registers[0]
MC3(g) == 3 \in g.registers[0]
MC2(g) == 2 \in g.registers[0]
MC1(g) == 1 \in g.registers[0]
MC0(g) == 0 \in g.registers[0]
TINS(g) == 5 \in g.registers[1]
TR(g) == IF 0 \in g.registers[1] THEN 8 ELSE 0
TY(g) == 15 \in g.SAM_register
SAM_F(g) == Field(g.SAM_register, 3, 7)
SAM_V(g) == Field(g.SAM_register, 0, 3)
BP(g) == 7 \in g.registers[8]
H50(g) == 3 \in g.registers[8]
LPR(g) == Field(g.registers[8], 0, 3)
LPF(g) == Field(g.registers[9], 5, 2)
HRES(g) == Field(g.registers[9], 2, 3)
CRES(g) == Field(g.registers[9], 0, 2)
VSC(g) == Field(g.registers[12], 0, 4)
HVEN(g) == 7 \in g.registers[15]
Xoffset(g) == 2 * Field(g.registers[15], 0, 7)
Y(g) == Number(g.registers[13]) * 2048 + Number(g.registers[14]) * 8
GnA(g) == 7 \in g.pdr
GM2(g) == 6 \in g.pdr
GM1(g) == 5 \in g.pdr
GM0(g) == 4 \in g.pdr
CSS(g) == 3 \in g.pdr

-----------------------------------------------------------------------------
(* Interrupts and the timer.                                                *)

Gate(g) == [g EXCEPT !.IRQ = IF IEN(g) THEN g.irq_state ELSE {},
                     !.FIRQ = IF FEN(g) THEN g.firq_state ELSE {}]

set_interrupt(g, flags) ==
  Gate([g EXCEPT !.irq_state = @ \cup (flags \cap g.registers[2]),
                 !.firq_state = @ \cup (flags \cap g.registers[3])])

\* A line latches on its rise only, not while it stays high.
edge_detect_il(g) == [set_interrupt(g, g.IL \ g.IL_state) EXCEPT !.IL_state = g.IL]

\* Pending bits still enabled, and active sources newly enabled.
enable_latch(g, state, val, changed) ==
  LET set_int == (IF g.timer_counter = 0 THEN {TMR} ELSE {}) \cup g.IL_state
  IN (state \cap val) \cup (set_int \cap changed \cap val)

Reload(g) == Field(g.registers[4], 0, 4) * 256 + Number(g.registers[5])
arm_timer(g) ==
  LET counter == IF Reload(g) = 0 THEN 0 ELSE Reload(g) + TIMER_OFFSET
  IN [g EXCEPT !.timer_counter = counter, !.timer_left_x2 = 2 * counter]

timer_expired(g) == set_interrupt([g EXCEPT !.blink = ~@, !.timer_fires = @ + 1], {TMR})

\* The while loop of the fast timer: period after period until the half-ticks
\* left are positive again; a reload of 0 stops it at its first expiry.
Expiries(g) == IF Reload(g) = 0 THEN 1 ELSE 1 + (-g.timer_left_x2) \div (2 * (Reload(g) + TIMER_OFFSET))
ExpireFast(g) ==
  LET n == Expiries(g)
      e == set_interrupt(arm_timer([g EXCEPT !.timer_fires = @ + n, !.blink = IF n % 2 = 1 THEN ~@ ELSE @]), {TMR})
  IN IF g.timer_left_x2 > 0 THEN g
     ELSE [e EXCEPT !.timer_left_x2 = IF Reload(g) = 0 THEN 0 ELSE n * @ + g.timer_left_x2]

\* Mutant: the next period starts at the line's end, not at the expiry.
ForgetsOvershoot(g) ==
  LET h == [g EXCEPT !.timer_left_x2 = @ - TIMER_FAST_X2_PER_LINE]
  IN IF g.timer_counter <= 0 THEN g
     ELSE IF h.timer_left_x2 <= 0 THEN arm_timer(timer_expired(h)) ELSE h
tcc1014_tick_scanline(g) ==
  IF g.timer_counter <= 0 THEN g
  ELSE IF TINS(g) THEN ExpireFast([g EXCEPT !.timer_left_x2 = @ - TIMER_FAST_X2_PER_LINE])
  ELSE LET h == [g EXCEPT !.timer_counter = @ - 1]
       IN IF h.timer_counter <= 0 THEN arm_timer(timer_expired(h)) ELSE h

-----------------------------------------------------------------------------
(* Memory: the banks in force and the pages the CPU reads and writes.       *)

update_fast_pages(g) ==
  LET page(i) == IF g.ram_pages = 0 THEN NoPage ELSE g.active_banks[i] % g.ram_pages
  IN [g EXCEPT !.wr_page = [i \in 0 .. 7 |-> page(i)],
               !.rd_page = [i \in 0 .. 7 |->
                              IF TY(g) \/ g.active_banks[i] % 64 < 60 THEN page(i) ELSE NoPage]]

BankOf(g, slot) == IF MMUEN(g) THEN g.mmu_bank[TR(g) + slot] ELSE 56 + slot

tcc1014_update_active_banks(g) ==
  update_fast_pages([g EXCEPT !.active_banks = [i \in 0 .. 7 |-> BankOf(g, i)]])

BankMask(g) == IF g.ram_pages > 128 THEN 255 ELSE IF g.ram_pages > 64 THEN 127 ELSE 63

tcc1014_set_ram(g, ram_pages) ==
  tcc1014_update_active_banks([g EXCEPT !.ram_pages = ram_pages, !.vram_base = 0])

-----------------------------------------------------------------------------
(* The video geometry.                                                      *)

VRES_LPF_lTB == << <<36, 34, 65535, 19>>, <<63, 59, 65535, 46>> >>
VRES_LPF_lAA == <<192, 199, 65535, 225>>
VRES_HRES_BPR == <<16, 20, 32, 40, 64, 80, 128, 160>>
VRES_HRES_BPR_TEXT == <<32, 40, 32, 40, 64, 80, 64, 80>>
LPR_rowmask == <<0, 1, 2, 8, 9, 10, 11, 16>>
SAM_V_rowmask == <<3, 3, 3, 2, 2, 1, 1, 1>>
VSC_rowmask == <<11, 10, 9, 8, 7, 6, 5, 4, 3, 2, 1, 4, 3, 2, 1, 12>>
LPR_underline_row == <<-1, -1, -1, 7, 8, 8, 9, -1>>

HalfWidth(g) == GnA(g) /\ SAM_V(g) % 2 = 1
lTB(g) == VRES_LPF_lTB[IF H50(g) THEN 2 ELSE 1][IF COCO(g) THEN 1 ELSE LPF(g) + 1]
lAA(g) == IF COCO(g) THEN 192 ELSE VRES_LPF_lAA[LPF(g) + 1]
BPR(g) ==
  IF COCO(g) THEN IF HalfWidth(g) THEN 16 ELSE 32
  ELSE (IF BP(g) THEN VRES_HRES_BPR ELSE VRES_HRES_BPR_TEXT)[HRES(g) + 1]
row_stride(g) ==
  IF HVEN(g) THEN 256
  ELSE IF ~COCO(g) /\ ~BP(g) /\ CRES(g) % 2 = 1 THEN 2 * BPR(g) ELSE BPR(g)
border_colour(g) ==
  IF ~COCO(g) THEN Field(g.registers[10], 0, 6)
  ELSE IF GnA(g) THEN IF CSS(g) THEN 63 ELSE 18
  ELSE IF ~GM1(g) /\ GM2(g) THEN IF CSS(g) THEN 38 ELSE 18 ELSE 0

Geometry(g) ==
  [BPR |-> BPR(g),
   resolution |-> IF COCO(g) THEN IF HalfWidth(g) THEN 0 ELSE 1
                  ELSE IF BP(g) THEN HRES(g) \div 2 ELSE IF HRES(g) >= 4 THEN 2 ELSE 1,
   lTB |-> lTB(g), lAA |-> lAA(g), row_stride |-> row_stride(g), border_colour |-> border_colour(g),
   rowmask |-> IF ~COCO(g) THEN LPR_rowmask[LPR(g) + 1]
               ELSE IF GnA(g) THEN SAM_V_rowmask[SAM_V(g) + 1] ELSE VSC_rowmask[VSC(g) + 1]]

update_from_gime_registers(g) == [g EXCEPT !.video = Geometry(g)]
update_from_sam_register(g) == update_from_gime_registers(update_fast_pages(g))

-----------------------------------------------------------------------------
(* The registers.                                                           *)

\* Mutant: a change of task leaves the banks of the other task in force.
KeepsTask(g, val) ==
  LET h == [g EXCEPT !.registers[1] = val]
  IN IF TINS(h) # TINS(g) THEN arm_timer(h) ELSE h
WriteInit1(g, val) ==
  LET h == [g EXCEPT !.registers[1] = val]
      timed == IF TINS(h) # TINS(g) THEN arm_timer(h) ELSE h
  IN IF TR(h) # TR(g) THEN tcc1014_update_active_banks(timed) ELSE timed

tcc1014_write_register(g, reg, val) ==
  LET h == [g EXCEPT !.registers[reg] = val]
      changed == Differs(g.registers[reg], val)
  IN CASE reg = 0 -> update_from_gime_registers(tcc1014_update_active_banks(Gate(h)))
       [] reg = 1 -> WriteInit1(g, val)
       [] reg = 2 -> Gate([h EXCEPT !.irq_state = enable_latch(h, @, val, changed)])
       [] reg = 3 -> Gate([h EXCEPT !.firq_state = enable_latch(h, @, val, changed)])
       [] reg = 4 -> arm_timer(h)
       [] reg \in {8, 9, 10, 12, 15} -> update_from_gime_registers(h)
       [] reg = 11 -> IF BankMask(g) = 63 THEN h
                      ELSE [h EXCEPT !.vram_base = (64 * Field(val, 0, 2)) % g.ram_pages]
       [] OTHER -> h

\* $FF92 and $FF93 acknowledge what they return; the others read $FF.
tcc1014_read_register(g, reg) ==
  LET h == edge_detect_il(g)
  IN CASE reg = 2 -> [value |-> h.irq_state, g |-> [h EXCEPT !.irq_state = {}, !.IRQ = {}]]
       [] reg = 3 -> [value |-> h.firq_state, g |-> [h EXCEPT !.firq_state = {}, !.FIRQ = {}]]
       [] OTHER -> [value |-> Bits, g |-> g]

tcc1014_write_mmu(g, offset, bank) ==
  tcc1014_update_active_banks([g EXCEPT !.mmu_bank[offset] = bank % (BankMask(g) + 1)])

\* Even offset clears the bit, odd sets it.
tcc1014_write_sam(g, offset) ==
  update_from_sam_register(
    [g EXCEPT !.SAM_register = IF offset % 2 = 1 THEN @ \cup {offset \div 2} ELSE @ \ {offset \div 2}])

\* $FF22 and $FF23 writes, seen in passing
tcc1014_snoop_pia1b(g, addr, val) ==
  CASE addr = 65314 /\ g.ddr -> update_from_gime_registers([g EXCEPT !.pdr = val \ {0, 1, 2}])
    [] addr = 65315 -> [g EXCEPT !.ddr = 2 \in val]
    [] OTHER -> g

tcc1014_init ==
  [registers |-> [r \in 0 .. 15 |-> {}], mmu_bank |-> [i \in 0 .. 15 |-> 0],
   active_banks |-> [i \in 0 .. 7 |-> 0], rd_page |-> [i \in 0 .. 7 |-> NoPage],
   wr_page |-> [i \in 0 .. 7 |-> NoPage], ram_pages |-> 0, vram_base |-> 0, SAM_register |-> {},
   pdr |-> {}, ddr |-> FALSE, irq_state |-> {}, firq_state |-> {}, IRQ |-> {}, FIRQ |-> {},
   IL |-> {}, IL_state |-> {}, timer_counter |-> 0, timer_left_x2 |-> 0, timer_fires |-> 0,
   blink |-> FALSE, row |-> 0, B |-> 394240, active_area |-> FALSE, lcount |-> 0, line_width |-> 0,
   video |-> [BPR |-> 0, resolution |-> 0, lTB |-> 0, lAA |-> 0, row_stride |-> 0,
              border_colour |-> 0, rowmask |-> 0]]

\* Every register written with 0, then what no register write resets.
tcc1014_reset(g) ==
  update_from_gime_registers(tcc1014_update_active_banks(
    [tcc1014_init EXCEPT !.mmu_bank = [i \in 0 .. 15 |-> 56 + (i % 8)], !.ram_pages = g.ram_pages,
                         !.B = g.B, !.timer_fires = g.timer_fires]))

-----------------------------------------------------------------------------
(* tcc1014_mem_cycle: what answers the address, after the IL lines have been *)
(* looked at.  S is the chip select, 7 for none; RAS selects RAM, at page    *)
(* and offset; reg that the GIME itself took the access.                     *)

Decoded(S, RAS, page, reg) == [S |-> S, RAS |-> RAS, page |-> page, reg |-> reg]

DecodeMain(g, addr) ==
  LET top == addr >= 65024 /\ MC3(g)
      bank == IF top THEN 56 + addr \div 8192 ELSE BankOf(g, addr \div 8192)
      rom == ~TY(g) /\ bank % 64 >= 60
      cart == IF MC1(g) THEN MC0(g) ELSE bank % 64 >= 62
  IN Decoded(IF rom THEN IF cart THEN 1 ELSE 0 ELSE 7, top \/ ~rom, bank % g.ram_pages, FALSE)

tcc1014_decode(g, addr) ==
  CASE addr < 65280 -> DecodeMain(g, addr)
    [] 65280 <= addr /\ addr < 65344 -> Decoded(IF (addr \div 16) % 2 = 0 THEN 2 ELSE 7, FALSE, 0, FALSE)
    [] 65344 <= addr /\ addr < 65376 -> Decoded(IF MC2(g) \/ addr >= 65360 THEN 6 ELSE 7, FALSE, 0, FALSE)
    [] 65376 <= addr /\ addr < 65424 -> Decoded(7, FALSE, 0, FALSE)
    [] 65424 <= addr /\ addr < 65504 -> Decoded(7, FALSE, 0, TRUE)
    [] OTHER -> Decoded(0, FALSE, 0, FALSE)

\* The write half: registers, MMU, SAM, and the PIA writes the GIME overhears.
\* (The palette is GimeRender's.)
tcc1014_mem_write(g, addr, val) ==
  LET h == edge_detect_il(g)
  IN CASE addr \in 65424 .. 65439 -> tcc1014_write_register(h, addr - 65424, val)
       [] addr \in 65440 .. 65455 -> tcc1014_write_mmu(h, addr - 65440, Number(val))
       [] addr \in 65472 .. 65503 -> tcc1014_write_sam(h, addr - 65472)
       [] OTHER -> tcc1014_snoop_pia1b(h, addr, val)
tcc1014_mem_read(g, addr) ==
  LET h == edge_detect_il(g)
  IN IF addr \in {65426, 65427} THEN tcc1014_read_register(h, addr - 65424).g ELSE h

-----------------------------------------------------------------------------
(* What the proofs need of a GIME: its fields, and that the banks and page   *)
(* pointers in force are those that the registers say.                       *)

GimeShape(g) == DOMAIN g = DOMAIN tcc1014_init /\ DOMAIN g.registers = 0 .. 15
Mapped(g) ==
  /\ g.ram_pages \in Nat \ {0}
  /\ DOMAIN g.mmu_bank = 0 .. 15 /\ \A i \in 0 .. 15 : g.mmu_bank[i] \in Nat
  /\ \A i \in 0 .. 7 :
       /\ g.active_banks[i] = BankOf(g, i) /\ g.wr_page[i] = BankOf(g, i) % g.ram_pages
       /\ g.rd_page[i] = IF TY(g) \/ BankOf(g, i) % 64 < 60 THEN BankOf(g, i) % g.ram_pages ELSE NoPage
=============================================================================

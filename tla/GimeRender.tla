----------------------------- MODULE GimeRender -----------------------------
(***************************************************************************)
(* The GIME's line renderers (core/tcc1014.cpp): the monolith kept as the    *)
(* reference, which decides the mode anew for every byte and fetches through *)
(* a one-byte cache, and the per-mode renderers over a line fetched at once. *)
(* A rendered line is, for each nibble, the palette slots of its four        *)
(* pixels, and how far they are stretched.  What video memory and the font   *)
(* hold is a parameter.  view is a GIME whose video registers a program      *)
(* writes; RANK bounds how many it writes.                                   *)
(***************************************************************************)
EXTENDS Gime, Sequences

CONSTANTS
  ViewWrites,    \* pairs of an address and a value the program may write
  VRAM_SIZE,     \* bytes of the video bank, a power of two
  Vram(_),       \* what is in it
  Font(_),       \* font_gime_dram
  FIRST,         \* where the line starts in the bank
  RANK           \* the bound on register writes

ASSUME ViewAssumption ==
  /\ VRAM_SIZE \in Nat \ {0} /\ FIRST \in 0 .. VRAM_SIZE - 1 /\ RANK \in Nat
  /\ \A a \in 0 .. VRAM_SIZE - 1 : Vram(a) \in 0 .. 255

VARIABLES view, writes
rvars == <<view, writes>>

BitOf(v, b) == (v \div 2^b) % 2 = 1
Pair(v, b) == (v \div 2^b) % 4
Invert(v) == 255 - v

GREEN == 0
WHITE == 4
RGCSS0_0 == 8
RGCSS0_1 == 9
RGCSS1_0 == 10
RGCSS1_1 == 11
DARK_GREEN == 12
BRIGHT_GREEN == 13
DARK_ORANGE == 14
BRIGHT_ORANGE == 15

X0(g) == IF COCO(g) THEN 0 ELSE Xoffset(g)
Attr(g) == ~COCO(g) /\ ~BP(g) /\ CRES(g) % 2 = 1
Zeroed(g) == ~COCO(g) /\ BP(g) /\ HRES(g) = 0 /\ CRES(g) >= 2
AllGm(g) == {4, 5, 6} \subseteq g.pdr
Choose(css, one, zero) == IF css THEN one ELSE zero
Two(gdata, fg, bg) ==
  LET c(b) == IF BitOf(gdata, b) THEN fg ELSE bg
  IN << <<c(7), c(6), c(5), c(4)>>, <<c(3), c(2), c(1), c(0)>> >>
Alike(a, b, c, d) == << <<a, a, b, b>>, <<c, c, d, d>> >>

-----------------------------------------------------------------------------
(* The reference.                                                           *)

\* Fetch number i of the line: a real one, at the X offset, every second time,
\* else the second byte of the pair, which the 16-byte 16-colour mode zeroes.
fetch_byte_vram(g, i) ==
  LET addr == (FIRST + ((X0(g) + i - (i % 2)) % 256)) % VRAM_SIZE
  IN IF i % 2 = 0 THEN Vram(addr) ELSE IF Zeroed(g) THEN 0 ELSE Vram((addr + 1) % VRAM_SIZE)

\* Byte byte_idx: what it means in this mode, and its two nibbles.
LegacyVdg(g, vdata) ==
  LET row == g.row % 16
      c == vdata % 128
      low == c < 32
      glyph == IF low THEN c + (IF GM0(g) THEN 96 ELSE 64) ELSE IF c >= 96 THEN c - 64 ELSE c
      inv == (BitOf(vdata, 6) # GM1(g)) # (low /\ GM0(g))
      gdata == Font(glyph * 12 + row)
      sg == IF row < 6 THEN vdata \div 4 ELSE vdata
      sgc(b) == IF BitOf(sg, b) THEN (vdata \div 16) % 8 ELSE RGCSS0_0
      cg == Choose(CSS(g), WHITE, GREEN)
      fg == Choose(CSS(g), RGCSS1_1, RGCSS0_1)
      bg == Choose(CSS(g), RGCSS1_0, RGCSS0_0)
      rg2(b) == IF BitOf(vdata, b) THEN fg ELSE bg
  IN CASE GnA(g) /\ ~GM0(g) ->
            Alike(cg + Pair(vdata, 6), cg + Pair(vdata, 4), cg + Pair(vdata, 2), cg + Pair(vdata, 0))
       [] GnA(g) /\ GM0(g) /\ (g.video.resolution > 0 \/ AllGm(g)) -> Two(vdata, fg, bg)
       [] GnA(g) /\ GM0(g) /\ g.video.resolution = 0 /\ ~AllGm(g) -> Alike(rg2(6), rg2(4), rg2(2), rg2(0))
       [] ~GnA(g) /\ BitOf(vdata, 7) -> Alike(sgc(1), sgc(1), sgc(0), sgc(0))
       [] OTHER -> Two(IF inv THEN Invert(gdata) ELSE gdata,
                       Choose(CSS(g), BRIGHT_ORANGE, BRIGHT_GREEN), Choose(CSS(g), DARK_ORANGE, DARK_GREEN))

LegacyNative(g, byte_idx) ==
  LET vdata == fetch_byte_vram(g, IF Attr(g) THEN 2 * byte_idx ELSE byte_idx)
      attr == fetch_byte_vram(g, 2 * byte_idx + 1)
      font_row == IF (g.row + 1) % 16 > 11 THEN 0 ELSE (g.row + 1) % 16
      glyph == Font((vdata % 128) * 12 + font_row)
      under == BitOf(attr, 6) /\ g.row = LPR_underline_row[LPR(g) + 1]
      fg == IF BitOf(attr, 7) /\ g.blink THEN attr % 8 ELSE 8 + ((attr \div 8) % 8)
      one(b) == (vdata \div 2^b) % 2
  IN CASE BP(g) /\ CRES(g) = 0 -> << <<one(7), one(6), one(5), one(4)>>, <<one(3), one(2), one(1), one(0)>> >>
       [] BP(g) /\ CRES(g) = 1 -> Alike(Pair(vdata, 6), Pair(vdata, 4), Pair(vdata, 2), Pair(vdata, 0))
       [] BP(g) /\ CRES(g) >= 2 -> Alike(vdata \div 16, vdata \div 16, vdata % 16, vdata % 16)
       [] Attr(g) -> Two(IF under THEN 255 ELSE glyph, fg, attr % 8)
       [] OTHER -> Two(glyph, 1, 0)

\* Pixels per nibble, the resolution's stretch, and the stop at 640
PerNibble(res) == <<16, 8, 4, 2>>[res + 1]
tcc1014_render_scanline_legacy(g) ==
  LET per == 2 * PerNibble(g.video.resolution)
      bytes == IF g.video.BPR * per <= 640 THEN g.video.BPR ELSE 640 \div per
  IN [width |-> bytes * per,
      line |-> [k \in 0 .. bytes - 1 |-> IF COCO(g) THEN LegacyVdg(g, fetch_byte_vram(g, k)) ELSE LegacyNative(g, k)]]

-----------------------------------------------------------------------------
(* The per-mode renderers.                                                  *)

\* A pointer into the bank where the line wraps nowhere, else a staged copy.
\* Mutant: the pointer is used though the line leaves the 256-byte X window.
PastTheWindow(g, n, k) ==
  LET a == (FIRST + X0(g)) % VRAM_SIZE
  IN IF a + n <= VRAM_SIZE THEN Vram(a + k) ELSE Vram((FIRST + ((X0(g) + k) % 256)) % VRAM_SIZE)
fetch_line_bytes(g, n, k) ==
  LET x == X0(g)
      a == (FIRST + x) % VRAM_SIZE
  IN IF x + n <= 256 /\ a + n <= VRAM_SIZE THEN Vram(a + k) ELSE Vram((FIRST + ((x + k) % 256)) % VRAM_SIZE)

emit_bits8(gdata, fg, bg) == Two(gdata, fg, bg)

render_native_gfx(cres, v) ==
  CASE cres = 0 -> LET bit(b) == IF BitOf(v, b) THEN 1 ELSE 0
                   IN << <<bit(7), bit(6), bit(5), bit(4)>>, <<bit(3), bit(2), bit(1), bit(0)>> >>
    [] cres = 1 -> Alike(Pair(v, 6), Pair(v, 4), Pair(v, 2), Pair(v, 0))
    [] OTHER -> Alike(v \div 16, v \div 16, v % 16, v % 16)

render_native_text(g, c, attr) ==
  LET row == (g.row + 1) % 16
      glyph == Font((IF row > 11 THEN 0 ELSE row) + (c % 128) * 12)
      fg == IF BitOf(attr, 7) /\ g.blink THEN attr % 8 ELSE 8 + Pair(attr, 3) + 4 * ((attr \div 32) % 2)
  IN IF ~Attr(g) THEN emit_bits8(glyph, 1, 0)
     ELSE emit_bits8(IF BitOf(attr, 6) /\ LPR_underline_row[LPR(g) + 1] = g.row THEN 255 ELSE glyph, fg, attr % 8)

render_coco_cg(g, v) ==
  LET cg(b) == Choose(CSS(g), WHITE, GREEN) + Pair(v, b) IN Alike(cg(6), cg(4), cg(2), cg(0))
render_coco_rg(g, v) == emit_bits8(v, Choose(CSS(g), RGCSS1_1, RGCSS0_1), Choose(CSS(g), RGCSS1_0, RGCSS0_0))
render_coco_rg2(g, v) ==
  LET c(b) == IF BitOf(v, b) THEN Choose(CSS(g), RGCSS1_1, RGCSS0_1) ELSE Choose(CSS(g), RGCSS1_0, RGCSS0_0)
  IN Alike(c(6), c(4), c(2), c(0))
render_coco_text(g, v) ==
  LET row == g.row % 16
      gd == IF row < 6 THEN v \div 4 ELSE v
      sg(b) == IF BitOf(gd, b) THEN (v \div 16) % 8 ELSE RGCSS0_0
      c == v % 128
      code == IF c < 32 THEN c + (IF GM0(g) THEN 96 ELSE 64) ELSE IF c >= 96 THEN c - 64 ELSE c
      inv == (IF c < 32 THEN BitOf(v, 6) # GM0(g) ELSE BitOf(v, 6)) # GM1(g)
      glyph == Font(code * 12 + row)
  IN IF BitOf(v, 7) THEN Alike(sg(1), sg(1), sg(0), sg(0))
     ELSE emit_bits8(IF inv THEN Invert(glyph) ELSE glyph,
                     Choose(CSS(g), BRIGHT_ORANGE, BRIGHT_GREEN), Choose(CSS(g), DARK_ORANGE, DARK_GREEN))

\* The dispatch, once per line (artifact colours off)
render_line(g, src, k) ==
  CASE COCO(g) /\ GnA(g) /\ ~GM0(g) -> render_coco_cg(g, src[k])
    [] COCO(g) /\ GnA(g) /\ GM0(g) /\ (g.video.resolution # 0 \/ AllGm(g)) -> render_coco_rg(g, src[k])
    [] COCO(g) /\ GnA(g) /\ GM0(g) /\ g.video.resolution = 0 /\ ~AllGm(g) -> render_coco_rg2(g, src[k])
    [] COCO(g) /\ ~GnA(g) -> render_coco_text(g, src[k])
    [] ~COCO(g) /\ BP(g) -> render_native_gfx(CRES(g), IF Zeroed(g) /\ k % 2 = 1 THEN 0 ELSE src[k])
    [] OTHER -> IF Attr(g) THEN render_native_text(g, src[2 * k], src[2 * k + 1])
                ELSE render_native_text(g, src[k], 0)

tcc1014_render_scanline(g) ==
  LET per == 32 \div 2^g.video.resolution
      n == IF g.video.BPR > 640 \div per THEN 640 \div per ELSE g.video.BPR
      nbytes == IF Attr(g) THEN 2 * n ELSE n
      src == [k \in 0 .. nbytes - 1 |-> fetch_line_bytes(g, nbytes, k)]
  IN [width |-> n * per, line |-> [k \in 0 .. n - 1 |-> render_line(g, src, k)]]

-----------------------------------------------------------------------------

RenderInit ==
  /\ view = tcc1014_set_ram(tcc1014_reset(tcc1014_init), 64)
  /\ writes = 0

\* The program writes a register; the beam goes down a line; the timer expires.
WriteView ==
  /\ writes < RANK
  /\ \E w \in ViewWrites : view' = tcc1014_mem_write(view, w[1], w[2])
  /\ writes' = writes + 1
NextLine ==
  /\ view' = [view EXCEPT !.row = IF (@ + 1) % 16 = view.video.rowmask THEN 0 ELSE (@ + 1) % 16]
  /\ UNCHANGED writes
Blink == view' = [view EXCEPT !.blink = ~@] /\ UNCHANGED writes

RenderNext == WriteView \/ NextLine \/ Blink
RenderSpec == RenderInit /\ [][RenderNext]_rvars

-----------------------------------------------------------------------------
\* In every video mode a program can set up, at every row, scroll position and
\* blink phase, the per-mode renderers draw the line that the reference draws.
RenderersAgree == tcc1014_render_scanline(view) = tcc1014_render_scanline_legacy(view)

-----------------------------------------------------------------------------
(* The inductive invariant behind RenderersAgree: the video state is what    *)
(* the registers say, although few writes recompute it.                      *)

RenderIInv == GimeShape(view) /\ view.video = Geometry(view) /\ view.row \in 0 .. 15
=============================================================================

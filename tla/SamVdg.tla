------------------------------- MODULE SamVdg -------------------------------
(***************************************************************************)
(* The CoCo 2's SAM address counter and VDG (core/sam6883.cpp, mc6847.cpp).  *)
(* The SAM's register is the set of its bits that are 1; its counter walks   *)
(* through video memory with divide-by-X and -Y stages that repeat rows.     *)
(* The VDG turns a row of bytes into 256 colours; a byte is a number.        *)
(***************************************************************************)
EXTENDS BitSets

vdg_mod_xdivs == <<1, 3, 1, 2, 1, 1, 1, 1>>
vdg_mod_ydivs == <<12, 1, 3, 1, 2, 1, 1, 1>>
vdg_mod_adds == <<16, 8, 16, 8, 16, 8, 16, 0>>
\* the number of low bits, above bit 0, that vdg_mod_clears clears
vdg_mod_cleared == <<4, 3, 4, 3, 4, 3, 4, 0>>

vdg_mode(sam) == Field(sam.reg, 0, 3)
vdg_base(sam) == 512 * Field(sam.reg, 3, 7)
ty(sam) == 15 \in sam.reg

sam6883_reset == [reg |-> {}, vdg_address |-> 0, xcount |-> 0, ycount |-> 0]
sam6883_write(sam, addr) ==
  [sam EXCEPT !.reg = IF addr % 2 = 1 THEN @ \cup {addr \div 2} ELSE @ \ {addr \div 2}]
sam6883_vdg_fsync(sam) == [sam EXCEPT !.vdg_address = vdg_base(sam), !.xcount = 0, !.ycount = 0]

Differ(a, b, bit) == (a \div 2^bit) % 2 # (b \div 2^bit) % 2
vdg_address_add(sam, n) ==
  LET new == (sam.vdg_address + n) % 65536
      x == (sam.xcount + 1) % vdg_mod_xdivs[vdg_mode(sam) + 1]
      y == (sam.ycount + 1) % vdg_mod_ydivs[vdg_mode(sam) + 1]
  IN IF ~Differ(sam.vdg_address, new, 4) THEN [sam EXCEPT !.vdg_address = new]
     ELSE IF x # 0 THEN [sam EXCEPT !.vdg_address = (new - 16) % 65536, !.xcount = x]
     ELSE IF ~Differ(sam.vdg_address, new, 5) THEN [sam EXCEPT !.vdg_address = new, !.xcount = x]
     ELSE [sam EXCEPT !.vdg_address = IF y # 0 THEN (new - 32) % 65536 ELSE new, !.xcount = x, !.ycount = y]

\* In chunks that end at a 16-byte boundary; only a whole one goes through the
\* divide stages.  At most three chunks make up the 32 bytes of a row.
Chunk(sam, n) == LET room == 16 - (sam.vdg_address % 16) IN IF room > n THEN n ELSE room
FetchChunk(sam, n) ==
  IF n < 16 - (sam.vdg_address % 16) THEN [sam EXCEPT !.vdg_address = @ + n] ELSE vdg_address_add(sam, n)
NextChunk(p) ==
  LET n == Chunk(p.sam, p.left)
  IN IF p.left = 0 THEN p ELSE [sam |-> FetchChunk(p.sam, n), left |-> p.left - n]
sam6883_vdg_fetch_bytes(sam, nbytes) == NextChunk(NextChunk(NextChunk([sam |-> sam, left |-> nbytes]))).sam

sam6883_vdg_hsync(sam) ==
  LET s == vdg_address_add(sam, vdg_mod_adds[vdg_mode(sam) + 1])
      m == 2^(vdg_mod_cleared[vdg_mode(sam) + 1] + 1)
  IN [s EXCEPT !.vdg_address = IF m = 2 THEN @ ELSE @ - (@ % m) + (@ % 2)]

-----------------------------------------------------------------------------
(* The VDG.  vdg.mode is a set of pins, GM a number.                        *)

mc6847_reset == [AG |-> FALSE, CSS |-> FALSE, GM |-> 0, vram_offset |-> 0, row_address |-> 0, fs |-> FALSE]
gfx_modes == << [width |-> 64, bytes |-> 16, bpp |-> 2], [width |-> 128, bytes |-> 16, bpp |-> 1],
                [width |-> 128, bytes |-> 32, bpp |-> 2], [width |-> 128, bytes |-> 16, bpp |-> 1],
                [width |-> 128, bytes |-> 32, bpp |-> 2], [width |-> 128, bytes |-> 16, bpp |-> 1],
                [width |-> 128, bytes |-> 32, bpp |-> 2], [width |-> 256, bytes |-> 32, bpp |-> 1] >>

\* The address render_text_scanline and render_graphics_scanline read for
\* pixel x of an active scanline, and the bits of that byte it shows.
TextCell(vdg, scanline, x) ==
  [addr |-> vdg.vram_offset + 32 * (scanline \div 12) + x \div 8, row |-> scanline % 12, column |-> x % 8]
GraphicsCell(vdg, x) ==
  LET info == gfx_modes[vdg.GM + 1]
      pixel == x \div (256 \div info.width)
      perByte == 8 \div info.bpp
  IN [addr |-> vdg.row_address + pixel \div perByte, row |-> 0, column |-> pixel % perByte]
mc6847_render_scanline(vdg, scanline, x) ==
  IF vdg.AG THEN GraphicsCell(vdg, x) ELSE TextCell(vdg, scanline, x)
=============================================================================

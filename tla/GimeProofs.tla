----------------------------- MODULE GimeProofs -----------------------------
(***************************************************************************)
(* The GIME, for video memory and a font of any contents and whatever a      *)
(* program writes.  The geometry that the GIME keeps is the one its          *)
(* registers say, and then the per-mode renderers draw what the monolith     *)
(* draws.  Then what each of its steps touches, and what a write does to the *)
(* page pointers and to the timer: the lemmas that the machine's invariant   *)
(* (BoardProofs) rests on.                                                   *)
(***************************************************************************)
EXTENDS GimeRender, ModTheorems, TLAPS

-----------------------------------------------------------------------------
(* What is fetched.                                                         *)

\* Some bits of a register, as a number.
LEMMA FieldType ==
  ASSUME NEW bits, NEW lo, NEW n
  PROVE  Field(bits, lo, n) \in Nat
<1> DEFINE weight(i) == IF i < n /\ lo + i \in bits THEN 2^i ELSE 0
<1>1. /\ weight(0) \in Nat /\ weight(1) \in Nat /\ weight(2) \in Nat /\ weight(3) \in Nat
      /\ weight(4) \in Nat /\ weight(5) \in Nat /\ weight(6) \in Nat /\ weight(7) \in Nat
  <2>1. /\ 2^0 = 1 /\ 2^1 = 2 /\ 2^2 = 4 /\ 2^3 = 8 /\ 2^4 = 16 /\ 2^5 = 32 /\ 2^6 = 64 /\ 2^7 = 128
    OBVIOUS
  <2> QED
    BY <2>1
<1>2. Field(bits, lo, n)
        = weight(0) + weight(1) + weight(2) + weight(3) + weight(4) + weight(5) + weight(6) + weight(7)
  BY DEF Field
<1> HIDE DEF weight
<1> QED
  BY <1>1, <1>2

\* Three bits.
LEMMA Field3 ==
  ASSUME NEW bits, NEW lo
  PROVE  Field(bits, lo, 3) \in 0 .. 7
<1> DEFINE weight(i) == IF i < 3 /\ lo + i \in bits THEN 2^i ELSE 0
<1>0. 2^0 = 1 /\ 2^1 = 2 /\ 2^2 = 4
  OBVIOUS
<1>1. weight(0) \in 0 .. 1 /\ weight(1) \in 0 .. 2 /\ weight(2) \in 0 .. 4
  BY <1>0
<1>2. weight(3) = 0 /\ weight(4) = 0 /\ weight(5) = 0 /\ weight(6) = 0 /\ weight(7) = 0
  OBVIOUS
<1>3. Field(bits, lo, 3)
        = weight(0) + weight(1) + weight(2) + weight(3) + weight(4) + weight(5) + weight(6) + weight(7)
  BY DEF Field
<1> HIDE DEF weight
<1> QED
  BY <1>1, <1>2, <1>3

\* Two bits.
LEMMA Field2 ==
  ASSUME NEW bits, NEW lo
  PROVE  Field(bits, lo, 2) \in 0 .. 3
<1> DEFINE weight(i) == IF i < 2 /\ lo + i \in bits THEN 2^i ELSE 0
<1>0. 2^0 = 1 /\ 2^1 = 2
  OBVIOUS
<1>1. weight(0) \in 0 .. 1 /\ weight(1) \in 0 .. 2
  BY <1>0
<1>2. /\ weight(2) = 0 /\ weight(3) = 0 /\ weight(4) = 0 /\ weight(5) = 0 /\ weight(6) = 0 /\ weight(7) = 0
  OBVIOUS
<1>3. Field(bits, lo, 2)
        = weight(0) + weight(1) + weight(2) + weight(3) + weight(4) + weight(5) + weight(6) + weight(7)
  BY DEF Field
<1> HIDE DEF weight
<1> QED
  BY <1>1, <1>2, <1>3

\* The line in the video bank starts at an even byte of its window.
LEMMA StartsEven ==
  ASSUME NEW g
  PROVE  \E h \in Nat : X0(g) = 2 * h
<1>1. CASE COCO(g)
  BY <1>1 DEF X0
<1>2. CASE ~COCO(g)
  <2>1. X0(g) = 2 * Field(g.registers[15], 0, 7) /\ Field(g.registers[15], 0, 7) \in Nat
    BY <1>2, FieldType DEF X0, Xoffset
  <2> QED
    BY <2>1
<1> QED
  BY <1>1, <1>2

\* What both renderers want of byte i, in the 256-byte window and in the bank.
Wanted(g, i) == Vram((FIRST + ((X0(g) + i) % 256)) % VRAM_SIZE)

\* The reference fetches pairs: the second byte is the next, unless it is to be zero.
LEMMA ReferenceFetches ==
  ASSUME NEW g, NEW i \in Nat
  PROVE  fetch_byte_vram(g, i) = IF i % 2 = 1 /\ Zeroed(g) THEN 0 ELSE Wanted(g, i)
<1> DEFINE x == X0(g)
           pair == i - (i % 2)
           m == (x + pair) % 256
           addr == (FIRST + m) % VRAM_SIZE
<1>1. PICK h \in Nat : x = 2 * h
  BY StartsEven
<1>2. i % 2 \in 0 .. 1 /\ i \in Int
  BY ModRange
<1>3. fetch_byte_vram(g, i) =
        IF i % 2 = 0 THEN Vram(addr) ELSE IF Zeroed(g) THEN 0 ELSE Vram((addr + 1) % VRAM_SIZE)
  BY Zenon DEF fetch_byte_vram
<1>4. CASE i % 2 = 0
  <2>1. x + pair = x + i
    BY <1>1, <1>4
  <2>2. Vram(addr) = Wanted(g, i)
    BY <2>1, Zenon DEF Wanted
  <2> QED
    BY <1>3, <1>4, <2>2
<1>5. CASE i % 2 = 1
  <2> DEFINE q == i \div 2
             t == h + q
             w == t % 128
             p == t \div 128
  <2>1. i = 2 * q + 1 /\ q \in Int
    BY <1>5, ModDiv
  <2>2. x + pair = 2 * t /\ x + i = 2 * t + 1 /\ t \in Int
    BY <1>1, <1>5, <2>1
  <2>3. t = 128 * p + w /\ p \in Int /\ w \in 0 .. 127
    BY <2>2, ModDiv, ModRange
  <2> HIDE DEF t, w, p
  <2>4. m = 2 * w
    <3>1. x + pair = 256 * p + 2 * w /\ 2 * w \in 0 .. 255 /\ x + pair \in Int
      BY <2>2, <2>3
    <3> HIDE DEF x, pair
    <3> QED
      BY <3>1, <2>3, ModUnique
  <2>5. (x + i) % 256 = 2 * w + 1
    <3>1. x + i = 256 * p + (2 * w + 1) /\ 2 * w + 1 \in 0 .. 255 /\ x + i \in Int
      BY <2>2, <2>3
    <3> DEFINE xi == x + i
    <3> HIDE DEF xi
    <3>2. xi % 256 = 2 * w + 1
      BY <3>1, <2>3, ModUnique DEF xi
    <3> QED
      BY <3>2 DEF xi
  <2>6. (addr + 1) % VRAM_SIZE = (FIRST + (2 * w + 1)) % VRAM_SIZE
    <3>1. FIRST + m \in Int /\ VRAM_SIZE \in Nat \ {0} /\ FIRST \in Int
      BY <2>3, <2>4, ViewAssumption
    <3>2. (FIRST + m) + 1 = FIRST + (2 * w + 1)
      BY <2>3, <2>4, <3>1
    <3> DEFINE a == FIRST + m
    <3> HIDE DEF a, m
    <3>3. ((a % VRAM_SIZE) + 1) % VRAM_SIZE = (a + 1) % VRAM_SIZE
      BY <3>1, ModPlus DEF a
    <3> QED
      BY <3>2, <3>3 DEF a
  <2>7. Vram((addr + 1) % VRAM_SIZE) = Wanted(g, i)
    BY <2>5, <2>6, Zenon DEF Wanted
  <2> QED
    BY <1>3, <1>5, <2>7
<1> QED
  BY <1>2, <1>4, <1>5

\* A pointer into the bank is as good as the staged copy where it is used.
LEMMA LineFetches ==
  ASSUME NEW g, NEW n \in Nat, NEW k \in 0 .. n - 1
  PROVE  fetch_line_bytes(g, n, k) = Wanted(g, k)
<1> DEFINE x == X0(g)
           a == (FIRST + x) % VRAM_SIZE
<1>1. PICK h \in Nat : x = 2 * h
  BY StartsEven
<1>2. fetch_line_bytes(g, n, k) =
        IF x + n <= 256 /\ a + n <= VRAM_SIZE THEN Vram(a + k) ELSE Vram((FIRST + ((x + k) % 256)) % VRAM_SIZE)
  BY Zenon DEF fetch_line_bytes
<1>3. CASE ~(x + n <= 256 /\ a + n <= VRAM_SIZE)
  BY <1>2, <1>3, Zenon DEF Wanted
<1>4. CASE x + n <= 256 /\ a + n <= VRAM_SIZE
  <2>1. /\ x + k \in 0 .. 255 /\ FIRST + x \in Int /\ VRAM_SIZE \in Nat \ {0} /\ k \in Int
        /\ FIRST + (x + k) = (FIRST + x) + k
    BY <1>1, <1>4, ViewAssumption
  <2>2. (x + k) % 256 = x + k
    <3> DEFINE y == x + k
    <3>1. y = 256 * 0 + y /\ y \in 0 .. 255
      BY <2>1
    <3> HIDE DEF y
    <3>2. y % 256 = y
      BY <3>1, ModUnique
    <3> QED
      BY <3>2 DEF y
  <2> DEFINE b == FIRST + x
  <2>3. a \in Int /\ a + k \in 0 .. VRAM_SIZE - 1
    <3> HIDE DEF b
    <3>1. b % VRAM_SIZE \in 0 .. VRAM_SIZE - 1
      BY <2>1, ModRange DEF b
    <3>2. a \in 0 .. VRAM_SIZE - 1
      BY <3>1 DEF b
    <3> HIDE DEF a, x
    <3> QED
      BY <1>4, <2>1, <3>2
  <2>4. (FIRST + (x + k)) % VRAM_SIZE = a + k
    <3>1. ((b % VRAM_SIZE) + k) % VRAM_SIZE = (b + k) % VRAM_SIZE
      <4> HIDE DEF b
      <4> QED
        BY <2>1, ModPlus DEF b
    <3> DEFINE c == a + k
    <3>2. c = VRAM_SIZE * 0 + c /\ c \in 0 .. VRAM_SIZE - 1
      BY <2>1, <2>3
    <3> HIDE DEF c
    <3>3. c % VRAM_SIZE = c
      BY <3>2, <2>1, ModUnique
    <3> QED
      BY <3>1, <3>3, <2>1 DEF c
  <2>5. Vram(a + k) = Wanted(g, k)
    BY <2>2, <2>4, Zenon DEF Wanted
  <2> QED
    BY <1>2, <1>4, <2>5
<1> QED
  BY <1>3, <1>4

\* A byte of the bank.
LEMMA WantedByte ==
  ASSUME NEW g, NEW i \in Nat
  PROVE  Wanted(g, i) \in 0 .. 255
<1>1. (X0(g) + i) \in Int
  BY StartsEven
<1>2. FIRST + ((X0(g) + i) % 256) \in Int /\ VRAM_SIZE \in Nat \ {0}
  BY <1>1, ViewAssumption, ModRange
<1> DEFINE a == FIRST + ((X0(g) + i) % 256)
<1> HIDE DEF a
<1>3. a % VRAM_SIZE \in 0 .. VRAM_SIZE - 1
  BY <1>2, ModRange DEF a
<1> QED
  BY <1>3, ViewAssumption DEF a, Wanted

-----------------------------------------------------------------------------
(* What is drawn.                                                           *)

\* One bit of a number, the one that weighs w.
LEMMA OneBit ==
  ASSUME NEW v \in Nat, NEW w \in Nat \ {0}
  PROVE  (v \div w) % 2 = IF (v \div w) % 2 = 1 THEN 1 ELSE 0
<1> DEFINE q == v \div w
<1>1. q \in Int
  BY ModDiv
<1> HIDE DEF q
<1>2. q % 2 \in 0 .. 1
  BY <1>1, ModRange
<1>3. q % 2 = IF q % 2 = 1 THEN 1 ELSE 0
  BY <1>2
<1> QED
  BY <1>3 DEF q

\* Bits 3 to 5, taken together or the two lower ones and the third.
LEMMA ThreeBits ==
  ASSUME NEW v \in Nat
  PROVE  8 + ((v \div 8) % 8) = 8 + Pair(v, 3) + 4 * ((v \div 32) % 2)
<1> DEFINE a == v \div 8
           r == v % 8
           c == a \div 4
           s == a % 4
           d == c \div 2
           t == c % 2
<1>1. v = 8 * a + r /\ a \in Int /\ r \in 0 .. 7 /\ v \in Int
  BY DivMod
<1>2. a = 4 * c + s /\ c \in Int /\ s \in 0 .. 3
  BY <1>1, DivMod
<1>3. c = 2 * d + t /\ d \in Int /\ t \in 0 .. 1
  BY <1>2, DivMod
<1>4. Pair(v, 3) = s
  <2>1. 2^3 = 8
    OBVIOUS
  <2> QED
    BY <2>1 DEF Pair
<1> HIDE DEF a, r, c, s, d, t
<1>5. v = 32 * c + (8 * s + r) /\ 8 * s + r \in 0 .. 31
  BY <1>1, <1>2
<1>6. v \div 32 = c
  BY <1>1, <1>2, <1>5, DivUnique
<1>7. a = 8 * d + (4 * t + s) /\ 4 * t + s \in 0 .. 7
  BY <1>2, <1>3
<1>8. a % 8 = 4 * t + s
  BY <1>1, <1>3, <1>7, ModUnique
<1>9. (v \div 8) % 8 = 4 * t + s /\ (v \div 32) % 2 = t
  BY <1>6, <1>8 DEF a, t
<1> DEFINE e == (v \div 8) % 8
           f == (v \div 32) % 2
<1>10. e = 4 * t + s /\ f = t
  BY <1>9
<1> HIDE DEF e, f
<1>11. 8 + e = 8 + Pair(v, 3) + 4 * f
  BY <1>2, <1>3, <1>4, <1>10
<1> QED
  BY <1>11 DEF e, f

\* A CoCo mode: the renderer of the line's mode draws a byte as the monolith does.
LEMMA CocoAgrees ==
  ASSUME NEW g, COCO(g), g.video.resolution \in Nat, NEW src, NEW k
  PROVE  render_line(g, src, k) = LegacyVdg(g, src[k])
<1> DEFINE v == src[k]
<1>1. CASE GnA(g) /\ ~GM0(g)
  <2>1. render_line(g, src, k) = render_coco_cg(g, v)
    BY <1>1 DEF render_line
  <2>2. LegacyVdg(g, v)
          = Alike(Choose(CSS(g), WHITE, GREEN) + Pair(v, 6), Choose(CSS(g), WHITE, GREEN) + Pair(v, 4),
                  Choose(CSS(g), WHITE, GREEN) + Pair(v, 2), Choose(CSS(g), WHITE, GREEN) + Pair(v, 0))
    BY <1>1 DEF LegacyVdg
  <2> QED
    BY <2>1, <2>2 DEF render_coco_cg
<1>2. CASE GnA(g) /\ GM0(g) /\ (g.video.resolution > 0 \/ AllGm(g))
  <2>1. render_line(g, src, k) = render_coco_rg(g, v)
    BY <1>2 DEF render_line
  <2>2. LegacyVdg(g, v)
          = Two(v, Choose(CSS(g), RGCSS1_1, RGCSS0_1), Choose(CSS(g), RGCSS1_0, RGCSS0_0))
    BY <1>2 DEF LegacyVdg
  <2> QED
    BY <2>1, <2>2 DEF render_coco_rg, emit_bits8
<1>3. CASE GnA(g) /\ GM0(g) /\ g.video.resolution = 0 /\ ~AllGm(g)
  <2> DEFINE c(b) == IF BitOf(v, b) THEN Choose(CSS(g), RGCSS1_1, RGCSS0_1) ELSE Choose(CSS(g), RGCSS1_0, RGCSS0_0)
  <2>1. render_line(g, src, k) = render_coco_rg2(g, v)
    BY <1>3 DEF render_line
  <2>2. LegacyVdg(g, v) = Alike(c(6), c(4), c(2), c(0))
    BY <1>3 DEF LegacyVdg
  <2> QED
    BY <2>1, <2>2 DEF render_coco_rg2
<1>4. CASE ~GnA(g)
  <2> DEFINE row == g.row % 16
             gd == IF row < 6 THEN v \div 4 ELSE v
             sg(b) == IF BitOf(gd, b) THEN (v \div 16) % 8 ELSE RGCSS0_0
             c == v % 128
             code == IF c < 32 THEN c + (IF GM0(g) THEN 96 ELSE 64) ELSE IF c >= 96 THEN c - 64 ELSE c
             inv == (IF c < 32 THEN BitOf(v, 6) # GM0(g) ELSE BitOf(v, 6)) # GM1(g)
             was == (BitOf(v, 6) # GM1(g)) # (c < 32 /\ GM0(g))
             glyph == Font(code * 12 + row)
             fg == Choose(CSS(g), BRIGHT_ORANGE, BRIGHT_GREEN)
             bg == Choose(CSS(g), DARK_ORANGE, DARK_GREEN)
  <2>1. render_line(g, src, k) = render_coco_text(g, v)
    BY <1>4 DEF render_line
  <2>2. render_coco_text(g, v) = IF BitOf(v, 7) THEN Alike(sg(1), sg(1), sg(0), sg(0))
                                 ELSE Two(IF inv THEN Invert(glyph) ELSE glyph, fg, bg)
    BY Zenon DEF render_coco_text, emit_bits8
  <2>3. LegacyVdg(g, v) = IF BitOf(v, 7) THEN Alike(sg(1), sg(1), sg(0), sg(0))
                          ELSE Two(IF was THEN Invert(glyph) ELSE glyph, fg, bg)
    BY <1>4 DEF LegacyVdg
  <2>4. inv <=> was
    <3>1. BitOf(v, 6) \in BOOLEAN /\ GM0(g) \in BOOLEAN /\ GM1(g) \in BOOLEAN
      BY DEF BitOf, GM0, GM1
    <3> QED
      BY <3>1
  <2> HIDE DEF sg, inv, was, glyph, fg, bg
  <2> QED
    BY <2>1, <2>2, <2>3, <2>4
<1>5. GnA(g) /\ GM0(g) => g.video.resolution > 0 \/ AllGm(g) \/ (g.video.resolution = 0 /\ ~AllGm(g))
  OBVIOUS
<1> QED
  BY <1>1, <1>2, <1>3, <1>4, <1>5

\* A native graphics byte: a pixel per bit, per two bits or per nibble.
LEMMA GraphicsAgree ==
  ASSUME NEW g, ~COCO(g), BP(g), NEW k, fetch_byte_vram(g, k) \in Nat
  PROVE  LegacyNative(g, k) = render_native_gfx(CRES(g), fetch_byte_vram(g, k))
<1> DEFINE v == fetch_byte_vram(g, k)
           one(b) == (v \div 2^b) % 2
           bit(b) == IF BitOf(v, b) THEN 1 ELSE 0
<1>1. ~Attr(g)
  BY DEF Attr
<1>2. CASE CRES(g) = 0
  <2>1. LegacyNative(g, k) = << <<one(7), one(6), one(5), one(4)>>, <<one(3), one(2), one(1), one(0)>> >>
    BY <1>1, <1>2 DEF LegacyNative
  <2>2. render_native_gfx(CRES(g), v)
          = << <<bit(7), bit(6), bit(5), bit(4)>>, <<bit(3), bit(2), bit(1), bit(0)>> >>
    BY <1>2 DEF render_native_gfx
  <2> HIDE DEF v
  <2>3. one(0) = bit(0) /\ one(1) = bit(1) /\ one(2) = bit(2) /\ one(3) = bit(3)
    BY OneBit DEF BitOf, v
  <2>4. one(4) = bit(4) /\ one(5) = bit(5) /\ one(6) = bit(6) /\ one(7) = bit(7)
    BY OneBit DEF BitOf, v
  <2> HIDE DEF one, bit
  <2> QED
    BY <2>1, <2>2, <2>3, <2>4 DEF v
<1>3. CASE CRES(g) = 1
  <2>1. LegacyNative(g, k) = Alike(Pair(v, 6), Pair(v, 4), Pair(v, 2), Pair(v, 0))
    BY <1>1, <1>3 DEF LegacyNative
  <2>2. render_native_gfx(CRES(g), v) = Alike(Pair(v, 6), Pair(v, 4), Pair(v, 2), Pair(v, 0))
    BY <1>3 DEF render_native_gfx
  <2> QED
    BY <2>1, <2>2
<1>4. CASE CRES(g) >= 2
  <2>0. CRES(g) \in Nat /\ CRES(g) # 0 /\ CRES(g) # 1
    BY <1>4, FieldType DEF CRES
  <2>1. LegacyNative(g, k) = Alike(v \div 16, v \div 16, v % 16, v % 16)
    BY <1>1, <1>4, <2>0 DEF LegacyNative
  <2>2. render_native_gfx(CRES(g), v) = Alike(v \div 16, v \div 16, v % 16, v % 16)
    BY <2>0 DEF render_native_gfx
  <2> QED
    BY <2>1, <2>2
<1>5. CRES(g) \in 0 .. 3
  BY Field2 DEF CRES
<1> QED
  BY <1>2, <1>3, <1>4, <1>5

\* A character with its attributes, or without.
LEMMA TextAgrees ==
  ASSUME NEW g, ~COCO(g), ~BP(g), g.row \in Nat, NEW k, NEW v \in Nat, NEW a \in Nat, NEW b,
         v = fetch_byte_vram(g, IF Attr(g) THEN 2 * k ELSE k), a = fetch_byte_vram(g, 2 * k + 1), Attr(g) => b = a
  PROVE  LegacyNative(g, k) = render_native_text(g, v, b)
<1> DEFINE row == (g.row + 1) % 16
           was == Font((v % 128) * 12 + (IF row > 11 THEN 0 ELSE row))
           glyph == Font((IF row > 11 THEN 0 ELSE row) + (v % 128) * 12)
           low == a % 8
           fg == 8 + Pair(a, 3) + 4 * ((a \div 32) % 2)
           wasfg == 8 + ((a \div 8) % 8)
           under == BitOf(a, 6) /\ g.row = LPR_underline_row[LPR(g) + 1]
<1>1. was = glyph
  <2> DEFINE n == g.row + 1
  <2>0. n \in Int
    OBVIOUS
  <2> HIDE DEF n
  <2>9. n % 16 \in Int
    BY <2>0
  <2>1. (v % 128) \in Int /\ row \in Int
    BY <2>9 DEF n
  <2> DEFINE m == v % 128
  <2> HIDE DEF m, row
  <2>2. m * 12 + (IF row > 11 THEN 0 ELSE row) = (IF row > 11 THEN 0 ELSE row) + m * 12
    BY <2>1 DEF m
  <2> QED
    BY <2>2 DEF m
<1>2. fg = wasfg
  BY ThreeBits
<1>3. CASE Attr(g)
  <2>1. LegacyNative(g, k) = Two(IF under THEN 255 ELSE was, IF BitOf(a, 7) /\ g.blink THEN low ELSE wasfg, low)
    BY <1>3 DEF LegacyNative
  <2>2. render_native_text(g, v, b) = Two(IF under THEN 255 ELSE glyph, IF BitOf(a, 7) /\ g.blink THEN low ELSE fg, low)
    BY <1>3 DEF render_native_text, emit_bits8
  <2> HIDE DEF was, glyph, low, fg, wasfg, under
  <2> QED
    BY <1>1, <1>2, <2>1, <2>2
<1>4. CASE ~Attr(g)
  <2>1. LegacyNative(g, k) = Two(was, 1, 0)
    BY <1>4 DEF LegacyNative
  <2>2. render_native_text(g, v, b) = Two(glyph, 1, 0)
    BY <1>4 DEF render_native_text, emit_bits8
  <2> HIDE DEF was, glyph
  <2> QED
    BY <1>1, <2>1, <2>2
<1> QED
  BY <1>3, <1>4

\* What is fetched is a number.
LEMMA FetchType ==
  ASSUME NEW g, NEW i \in Nat
  PROVE  fetch_byte_vram(g, i) \in Nat
<1>1. fetch_byte_vram(g, i) = IF i % 2 = 1 /\ Zeroed(g) THEN 0 ELSE Wanted(g, i)
  BY ReferenceFetches
<1>2. Wanted(g, i) \in 0 .. 255
  BY WantedByte
<1> QED
  BY <1>1, <1>2

\* Every byte of a line, in every mode.
LEMMA BytesAgree ==
  ASSUME NEW g, g.row \in Nat, g.video.resolution \in Nat,
         NEW n \in Nat, NEW m, m = (IF Attr(g) THEN 2 * n ELSE n), NEW k \in 0 .. n - 1,
         NEW src, \A i \in 0 .. m - 1 : src[i] = Wanted(g, i)
  PROVE  render_line(g, src, k) = IF COCO(g) THEN LegacyVdg(g, fetch_byte_vram(g, k)) ELSE LegacyNative(g, k)
<1>0. /\ m \in Nat /\ k \in 0 .. m - 1 /\ k \in Nat
      /\ Attr(g) => 2 * k \in 0 .. m - 1 /\ 2 * k + 1 \in 0 .. m - 1
  OBVIOUS
<1>1. \A i \in 0 .. m - 1 : src[i] = Wanted(g, i)
  OBVIOUS
<1>2. \A i \in Nat : fetch_byte_vram(g, i) = IF i % 2 = 1 /\ Zeroed(g) THEN 0 ELSE Wanted(g, i)
  BY ReferenceFetches
<1>3. \A i \in Nat : fetch_byte_vram(g, i) \in Nat
  BY FetchType
<1>4. CASE COCO(g)
  <2>1. fetch_byte_vram(g, k) = src[k]
    BY <1>0, <1>1, <1>2, <1>4 DEF Zeroed
  <2> QED
    BY <1>4, <2>1, CocoAgrees
<1>5. CASE ~COCO(g) /\ BP(g)
  <2> DEFINE v == IF Zeroed(g) /\ k % 2 = 1 THEN 0 ELSE src[k]
  <2>1. fetch_byte_vram(g, k) = v
    BY <1>0, <1>1, <1>2
  <2>2. render_line(g, src, k) = render_native_gfx(CRES(g), v)
    BY <1>5, Zenon DEF render_line
  <2>3. LegacyNative(g, k) = render_native_gfx(CRES(g), fetch_byte_vram(g, k))
    BY <1>0, <1>3, <1>5, GraphicsAgree
  <2> QED
    BY <1>5, <2>1, <2>2, <2>3
<1>6. CASE ~COCO(g) /\ ~BP(g)
  <2>0. ~Zeroed(g) /\ 2 * k \in Nat /\ 2 * k + 1 \in Nat
    BY <1>0, <1>6 DEF Zeroed
  <2>1. CASE Attr(g)
    <3>1. fetch_byte_vram(g, 2 * k) = src[2 * k] /\ fetch_byte_vram(g, 2 * k + 1) = src[2 * k + 1]
      BY <1>0, <1>1, <1>2, <2>0, <2>1
    <3>2. render_line(g, src, k) = render_native_text(g, src[2 * k], src[2 * k + 1])
      BY <1>6, <2>1, Zenon DEF render_line
    <3>3. src[2 * k] \in Nat /\ src[2 * k + 1] \in Nat
      BY <1>3, <2>0, <3>1
    <3>4. LegacyNative(g, k) = render_native_text(g, src[2 * k], src[2 * k + 1])
      BY <1>6, <2>1, <3>1, <3>3, TextAgrees
    <3> QED
      BY <1>6, <3>2, <3>4
  <2>2. CASE ~Attr(g)
    <3>1. fetch_byte_vram(g, k) = src[k]
      BY <1>0, <1>1, <1>2, <2>0
    <3>2. render_line(g, src, k) = render_native_text(g, src[k], 0)
      BY <1>6, <2>2, Zenon DEF render_line
    <3>3. src[k] \in Nat /\ fetch_byte_vram(g, 2 * k + 1) \in Nat
      BY <1>0, <1>3, <2>0, <3>1
    <3>4. LegacyNative(g, k) = render_native_text(g, src[k], 0)
      BY <1>6, <2>2, <3>1, <3>3, TextAgrees
    <3> QED
      BY <1>6, <3>2, <3>4
  <2> QED
    BY <2>1, <2>2
<1> QED
  BY <1>4, <1>5, <1>6

\* The geometry the registers say: at most 160 bytes, and a resolution from 0 to 3.
LEMMA GeometryType ==
  ASSUME NEW g, g.video = Geometry(g)
  PROVE  g.video.BPR \in Nat /\ g.video.resolution \in 0 .. 3
<1>1. HRES(g) \in 0 .. 7
  BY Field3 DEF HRES
<1>2. g.video.BPR = BPR(g)
  BY DEF Geometry
<1>3. BPR(g) \in Nat
  <2>1. CASE COCO(g)
    BY <2>1 DEF BPR
  <2>2. CASE ~COCO(g)
    BY <1>1, <2>2 DEF BPR, VRES_HRES_BPR, VRES_HRES_BPR_TEXT
  <2> QED
    BY <2>1, <2>2
<1>4. g.video.resolution = IF COCO(g) THEN IF HalfWidth(g) THEN 0 ELSE 1
                           ELSE IF BP(g) THEN HRES(g) \div 2 ELSE IF HRES(g) >= 4 THEN 2 ELSE 1
  BY DEF Geometry
<1>5. HRES(g) \div 2 \in 0 .. 3
  <2> DEFINE h == HRES(g)
  <2> HIDE DEF h
  <2>1. h = 2 * (h \div 2) + (h % 2) /\ h \div 2 \in Int /\ h % 2 \in 0 .. 1 /\ h \in 0 .. 7
    BY <1>1, DivMod DEF h
  <2>2. h \div 2 \in 0 .. 3
    BY <2>1
  <2> QED
    BY <2>2 DEF h
<1> QED
  BY <1>2, <1>3, <1>4, <1>5

\* Both draw the same width of the same bytes.
LEMMA LinesAgree ==
  ASSUME NEW g, g.video = Geometry(g), g.row \in Nat
  PROVE  tcc1014_render_scanline(g) = tcc1014_render_scanline_legacy(g)
<1> DEFINE per == 32 \div 2^g.video.resolution
           was == 2 * PerNibble(g.video.resolution)
           n == IF g.video.BPR > 640 \div per THEN 640 \div per ELSE g.video.BPR
           bytes == IF g.video.BPR * was <= 640 THEN g.video.BPR ELSE 640 \div was
           m == IF Attr(g) THEN 2 * n ELSE n
           src == [k \in 0 .. m - 1 |-> fetch_line_bytes(g, m, k)]
           line == [k \in 0 .. n - 1 |-> render_line(g, src, k)]
           legacy(k) == IF COCO(g) THEN LegacyVdg(g, fetch_byte_vram(g, k)) ELSE LegacyNative(g, k)
<1>1. g.video.BPR \in Nat /\ g.video.resolution \in 0 .. 3
  BY GeometryType
<1>2. per = was /\ was \in {32, 16, 8, 4}
  <2>1. CASE g.video.resolution = 0
    <3>1. 32 \div 2^0 = 32
      OBVIOUS
    <3> QED
      BY <2>1, <3>1 DEF PerNibble
  <2>2. CASE g.video.resolution = 1
    <3>1. 32 \div 2^1 = 16
      OBVIOUS
    <3> QED
      BY <2>2, <3>1 DEF PerNibble
  <2>3. CASE g.video.resolution = 2
    <3>1. 32 \div 2^2 = 8
      OBVIOUS
    <3> QED
      BY <2>3, <3>1 DEF PerNibble
  <2>4. CASE g.video.resolution = 3
    <3>1. 32 \div 2^3 = 4
      OBVIOUS
    <3> QED
      BY <2>4, <3>1 DEF PerNibble
  <2> QED
    BY <1>1, <2>1, <2>2, <2>3, <2>4
<1>3. n = bytes /\ n \in Nat
  BY <1>1, <1>2
<1>4. tcc1014_render_scanline(g) = [width |-> n * per, line |-> line]
  BY Zenon DEF tcc1014_render_scanline
<1>5. tcc1014_render_scanline_legacy(g) = [width |-> bytes * was, line |-> [k \in 0 .. bytes - 1 |-> legacy(k)]]
  BY Zenon DEF tcc1014_render_scanline_legacy
<1>6. \A k \in 0 .. n - 1 : render_line(g, src, k) = legacy(k)
  <2> HIDE DEF n
  <2> SUFFICES ASSUME NEW k \in 0 .. n - 1 PROVE render_line(g, src, k) = legacy(k)
    OBVIOUS
  <2>1. m = (IF Attr(g) THEN 2 * n ELSE n)
    OBVIOUS
  <2> HIDE DEF m
  <2>2. \A i \in 0 .. m - 1 : src[i] = Wanted(g, i)
    <3>1. m \in Nat
      BY <1>3, <2>1
    <3> QED
      BY <3>1, LineFetches
  <2> HIDE DEF src
  <2>3. g.video.resolution \in Nat
    BY <1>1
  <2> QED
    BY <1>3, <2>1, <2>2, <2>3, BytesAgree
<1> HIDE DEF per, was, n, bytes, src, legacy
<1>7. line = [k \in 0 .. n - 1 |-> legacy(k)]
  BY <1>6
<1> QED
  BY <1>2, <1>3, <1>4, <1>5, <1>7

-----------------------------------------------------------------------------
(* The video state is what the registers say.                               *)

GimeFields == DOMAIN tcc1014_init

\* The fields by name.
LEMMA FieldsAre ==
  GimeFields = {"registers", "mmu_bank", "active_banks", "rd_page", "wr_page", "ram_pages", "vram_base",
                "SAM_register", "pdr", "ddr", "irq_state", "firq_state", "IRQ", "FIRQ", "IL", "IL_state",
                "timer_counter", "timer_left_x2", "timer_fires", "blink", "row", "B", "active_area", "lcount",
                "line_width", "video"}
  BY DEF GimeFields, tcc1014_init

\* Registers, SAM and PIA bits that the geometry is computed from.
SameInputs(g, h) ==
  /\ DOMAIN h.registers = DOMAIN g.registers
  /\ \A r \in {0, 8, 9, 10, 12, 15} : h.registers[r] = g.registers[r]
  /\ h.SAM_register = g.SAM_register /\ h.pdr = g.pdr
Unmoved(g, h) == DOMAIN h = DOMAIN g /\ h.row = g.row
Kept(g, h) == Unmoved(g, h) /\ SameInputs(g, h) /\ h.video = g.video

\* They decide the geometry.
LEMMA SameGeometry ==
  ASSUME NEW g, NEW h, SameInputs(g, h)
  PROVE  Geometry(h) = Geometry(g)
<1>1. /\ h.registers[0] = g.registers[0] /\ h.registers[8] = g.registers[8] /\ h.registers[9] = g.registers[9]
      /\ h.registers[10] = g.registers[10] /\ h.registers[12] = g.registers[12]
      /\ h.registers[15] = g.registers[15] /\ h.SAM_register = g.SAM_register /\ h.pdr = g.pdr
  BY DEF SameInputs
<1>2. /\ COCO(h) <=> COCO(g)
      /\ BP(h) <=> BP(g)
      /\ H50(h) <=> H50(g)
      /\ HVEN(h) <=> HVEN(g)
  BY <1>1 DEF COCO, BP, H50, HVEN
<1>3. /\ GnA(h) <=> GnA(g)
      /\ GM1(h) <=> GM1(g)
      /\ GM2(h) <=> GM2(g)
      /\ CSS(h) <=> CSS(g)
  BY <1>1 DEF GnA, GM1, GM2, CSS
<1>4. /\ LPR(h) = LPR(g) /\ LPF(h) = LPF(g) /\ HRES(h) = HRES(g) /\ CRES(h) = CRES(g) /\ VSC(h) = VSC(g)
      /\ SAM_V(h) = SAM_V(g) /\ Field(h.registers[10], 0, 6) = Field(g.registers[10], 0, 6)
  BY <1>1 DEF LPR, LPF, HRES, CRES, VSC, SAM_V
<1>5. HalfWidth(h) <=> HalfWidth(g)
  BY <1>3, <1>4 DEF HalfWidth
<1>6. lTB(h) = lTB(g) /\ lAA(h) = lAA(g)
  BY <1>2, <1>4 DEF lTB, lAA
<1>7. BPR(h) = BPR(g)
  BY <1>2, <1>4, <1>5 DEF BPR
<1>8. row_stride(h) = row_stride(g)
  BY <1>2, <1>4, <1>7 DEF row_stride
<1>9. border_colour(h) = border_colour(g)
  BY <1>2, <1>3, <1>4 DEF border_colour
<1> QED
  BY <1>2, <1>3, <1>4, <1>5, <1>6, <1>7, <1>8, <1>9 DEF Geometry

\* The state of a GIME whose video state is up to date, as a whole.
UpToDate(g) == GimeShape(g) /\ g.video = Geometry(g)

\* It stays up to date where its inputs and itself are kept.
LEMMA KeptUpToDate ==
  ASSUME NEW g, NEW h, UpToDate(g), Kept(g, h)
  PROVE  UpToDate(h) /\ h.row = g.row
<1>1. Geometry(h) = Geometry(g)
  BY SameGeometry DEF Kept
<1> QED
  BY <1>1 DEF UpToDate, Kept, Unmoved, SameInputs, GimeShape

\* Recomputed.
LEMMA Recomputed ==
  ASSUME NEW g, GimeShape(g)
  PROVE  UpToDate(update_from_gime_registers(g)) /\ update_from_gime_registers(g).row = g.row
<1> DEFINE h == [g EXCEPT !.video = Geometry(g)]
<1>1. update_from_gime_registers(g) = h
  BY Zenon DEF update_from_gime_registers
<1>2. DOMAIN g = GimeFields
  BY DEF GimeShape, GimeFields
<1>3. /\ DOMAIN h = GimeFields /\ h.video = Geometry(g) /\ h.row = g.row /\ h.registers = g.registers
      /\ h.SAM_register = g.SAM_register /\ h.pdr = g.pdr
  BY <1>2, FieldsAre
<1> HIDE DEF h
<1>4. SameInputs(g, h)
  BY <1>3 DEF SameInputs
<1>5. Geometry(h) = Geometry(g)
  BY <1>4, SameGeometry
<1> QED
  BY <1>1, <1>3, <1>5 DEF UpToDate, GimeShape, GimeFields

\* Interrupts, timer and memory map leave the video alone.
LEMMA GateKeeps ==
  ASSUME NEW g, GimeShape(g)
  PROVE  Kept(g, Gate(g))
<1>1. DOMAIN g = GimeFields
  BY DEF GimeShape, GimeFields
<1> QED
  BY <1>1, FieldsAre DEF Gate, Kept, Unmoved, SameInputs

\* One after the other.
LEMMA KeptTwice ==
  ASSUME NEW g, NEW h, NEW i, GimeShape(g), Kept(g, h), Kept(h, i)
  PROVE  Kept(g, i) /\ GimeShape(i) /\ GimeShape(h)
  BY DEF Kept, Unmoved, SameInputs, GimeShape

\* What one of these leaves alone has the fields it had.
LEMMA KeptShape ==
  ASSUME NEW g, NEW h, GimeShape(g), Kept(g, h)
  PROVE  GimeShape(h)
  BY DEF Kept, Unmoved, SameInputs, GimeShape

\* The IL lines are latched.
LEMMA EdgeKeeps ==
  ASSUME NEW g, GimeShape(g)
  PROVE  Kept(g, edge_detect_il(g))
<1> DEFINE flags == g.IL \ g.IL_state
           m == [g EXCEPT !.irq_state = @ \cup (flags \cap g.registers[2]),
                          !.firq_state = @ \cup (flags \cap g.registers[3])]
           h == Gate(m)
           e == [h EXCEPT !.IL_state = g.IL]
<1>0. DOMAIN g = GimeFields
  BY DEF GimeShape, GimeFields
<1>1. edge_detect_il(g) = e
  BY Zenon DEF edge_detect_il, set_interrupt
<1>2. Kept(g, m)
  BY <1>0, FieldsAre DEF Kept, Unmoved, SameInputs
<1> HIDE DEF m
<1>3. GimeShape(m) /\ Kept(m, h)
  BY <1>2, KeptShape, GateKeeps
<1> HIDE DEF h
<1>4. Kept(g, h) /\ GimeShape(h)
  BY <1>2, <1>3, KeptTwice
<1>5. Kept(h, e)
  <2>1. DOMAIN h = GimeFields
    BY <1>4 DEF GimeShape, GimeFields
  <2> QED
    BY <2>1, FieldsAre DEF Kept, Unmoved, SameInputs
<1> HIDE DEF e
<1> QED
  BY <1>1, <1>4, <1>5, KeptTwice

\* The timer is armed.
LEMMA ArmKeeps ==
  ASSUME NEW g, GimeShape(g)
  PROVE  Kept(g, arm_timer(g))
<1> DEFINE counter == IF Reload(g) = 0 THEN 0 ELSE Reload(g) + TIMER_OFFSET
           h == [g EXCEPT !.timer_counter = counter, !.timer_left_x2 = 2 * counter]
<1>1. arm_timer(g) = h
  BY Zenon DEF arm_timer
<1> HIDE DEF counter
<1>2. DOMAIN g = GimeFields
  BY DEF GimeShape, GimeFields
<1>3. Kept(g, h)
  BY <1>2, FieldsAre DEF Kept, Unmoved, SameInputs
<1> QED
  BY <1>1, <1>3

\* The page pointers.
LEMMA PagesKeep ==
  ASSUME NEW g, GimeShape(g)
  PROVE  Kept(g, update_fast_pages(g))
<1> DEFINE page(i) == IF g.ram_pages = 0 THEN NoPage ELSE g.active_banks[i] % g.ram_pages
           wr == [i \in 0 .. 7 |-> page(i)]
           rd == [i \in 0 .. 7 |-> IF TY(g) \/ g.active_banks[i] % 64 < 60 THEN page(i) ELSE NoPage]
           h == [g EXCEPT !.wr_page = wr, !.rd_page = rd]
<1>1. update_fast_pages(g) = h
  BY Zenon DEF update_fast_pages
<1> HIDE DEF wr, rd
<1>2. DOMAIN g = GimeFields
  BY DEF GimeShape, GimeFields
<1>3. Kept(g, h)
  BY <1>2, FieldsAre DEF Kept, Unmoved, SameInputs
<1> QED
  BY <1>1, <1>3

\* The banks in force.
LEMMA BanksKeep ==
  ASSUME NEW g, GimeShape(g)
  PROVE  Kept(g, tcc1014_update_active_banks(g))
<1> DEFINE banks == [i \in 0 .. 7 |-> BankOf(g, i)]
           h == [g EXCEPT !.active_banks = banks]
<1>1. tcc1014_update_active_banks(g) = update_fast_pages(h)
  BY Zenon DEF tcc1014_update_active_banks
<1> HIDE DEF banks
<1>2. DOMAIN g = GimeFields
  BY DEF GimeShape, GimeFields
<1>3. Kept(g, h)
  BY <1>2, FieldsAre DEF Kept, Unmoved, SameInputs
<1> HIDE DEF h
<1>4. Kept(h, update_fast_pages(h))
  BY <1>3, KeptShape, PagesKeep
<1> QED
  BY <1>1, <1>3, <1>4, KeptTwice

\* Every register of the GIME: what the video is computed from is followed by its computation.
LEMMA RegisterWritten ==
  ASSUME NEW g, UpToDate(g), NEW reg \in 0 .. 15, NEW val
  PROVE  UpToDate(tcc1014_write_register(g, reg, val)) /\ tcc1014_write_register(g, reg, val).row = g.row
<1> DEFINE w == tcc1014_write_register(g, reg, val)
           h == [g EXCEPT !.registers[reg] = val]
<1>1. DOMAIN g = GimeFields /\ DOMAIN g.registers = 0 .. 15 /\ GimeShape(g)
  BY DEF UpToDate, GimeShape, GimeFields
<1>2. /\ DOMAIN h = GimeFields /\ h.row = g.row /\ h.video = g.video /\ DOMAIN h.registers = 0 .. 15
      /\ h.SAM_register = g.SAM_register /\ h.pdr = g.pdr
      /\ \A r \in 0 .. 15 : r # reg => h.registers[r] = g.registers[r]
  BY <1>1, FieldsAre
<1> DEFINE changed == Differs(g.registers[reg], val)
<1>3. w = CASE reg = 0 -> update_from_gime_registers(tcc1014_update_active_banks(Gate(h)))
            [] reg = 1 -> WriteInit1(g, val)
            [] reg = 2 -> Gate([h EXCEPT !.irq_state = enable_latch(h, @, val, changed)])
            [] reg = 3 -> Gate([h EXCEPT !.firq_state = enable_latch(h, @, val, changed)])
            [] reg = 4 -> arm_timer(h)
            [] reg \in {8, 9, 10, 12, 15} -> update_from_gime_registers(h)
            [] reg = 11 -> IF BankMask(g) = 63 THEN h
                           ELSE [h EXCEPT !.vram_base = (64 * Field(val, 0, 2)) % g.ram_pages]
            [] OTHER -> h
  BY Zenon DEF tcc1014_write_register
<1> HIDE DEF h, w, changed
<1>4. GimeShape(h)
  BY <1>2 DEF GimeShape, GimeFields
<1>5. CASE reg = 0
  <2>1. w = update_from_gime_registers(tcc1014_update_active_banks(Gate(h)))
    BY <1>3, <1>5
  <2>2. Kept(h, Gate(h)) /\ GimeShape(Gate(h))
    BY <1>4, GateKeeps, KeptShape
  <2> DEFINE b == tcc1014_update_active_banks(Gate(h))
  <2>3. Kept(h, b) /\ GimeShape(b)
    BY <1>4, <2>2, BanksKeep, KeptTwice
  <2> HIDE DEF b
  <2>4. b.row = g.row
    BY <1>2, <2>3 DEF Kept, Unmoved
  <2> QED
    BY <2>1, <2>3, <2>4, Recomputed DEF b, w
<1>6. CASE reg \in {8, 9, 10, 12, 15}
  <2>1. w = update_from_gime_registers(h)
    BY <1>3, <1>6
  <2> QED
    BY <1>2, <1>4, <2>1, Recomputed DEF w
<1>7. CASE reg \notin {0, 8, 9, 10, 12, 15}
  <2>0. Kept(g, h)
    BY <1>1, <1>2, <1>7 DEF Kept, Unmoved, SameInputs
  <2>1. CASE reg = 1
    <3> DEFINE one == [g EXCEPT !.registers[1] = val]
               timed == IF TINS(one) # TINS(g) THEN arm_timer(one) ELSE one
    <3>1. one = h
      BY <2>1 DEF h
    <3>2. w = IF TR(one) # TR(g) THEN tcc1014_update_active_banks(timed) ELSE timed
      <4>1. w = WriteInit1(g, val)
        BY <1>3, <2>1
      <4>2. WriteInit1(g, val) = IF TR(one) # TR(g) THEN tcc1014_update_active_banks(timed) ELSE timed
        BY Zenon DEF WriteInit1
      <4> QED
        BY <4>1, <4>2
    <3>3. Kept(g, timed) /\ GimeShape(timed)
      BY <1>1, <1>4, <2>0, <3>1, ArmKeeps, KeptTwice
    <3> HIDE DEF timed
    <3>4. Kept(g, tcc1014_update_active_banks(timed))
      BY <1>1, <3>3, BanksKeep, KeptTwice
    <3> QED
      BY <3>2, <3>3, <3>4, KeptUpToDate DEF w
  <2>2. CASE reg = 2
    <3> DEFINE i == [h EXCEPT !.irq_state = enable_latch(h, @, val, changed)]
    <3>1. w = Gate(i)
      BY <1>3, <2>2
    <3>2. Kept(h, i)
      BY <1>2, FieldsAre DEF Kept, Unmoved, SameInputs
    <3> HIDE DEF i
    <3>3. Kept(g, i) /\ GimeShape(i)
      BY <1>1, <2>0, <3>2, KeptTwice
    <3>4. Kept(g, Gate(i))
      BY <1>1, <3>3, GateKeeps, KeptTwice
    <3> QED
      BY <3>1, <3>4, KeptUpToDate DEF w
  <2>3. CASE reg = 3
    <3> DEFINE i == [h EXCEPT !.firq_state = enable_latch(h, @, val, changed)]
    <3>1. w = Gate(i)
      BY <1>3, <2>3
    <3>2. Kept(h, i)
      BY <1>2, FieldsAre DEF Kept, Unmoved, SameInputs
    <3> HIDE DEF i
    <3>3. Kept(g, i) /\ GimeShape(i)
      BY <1>1, <2>0, <3>2, KeptTwice
    <3>4. Kept(g, Gate(i))
      BY <1>1, <3>3, GateKeeps, KeptTwice
    <3> QED
      BY <3>1, <3>4, KeptUpToDate DEF w
  <2>4. CASE reg = 4
    <3>1. w = arm_timer(h)
      BY <1>3, <2>4
    <3>2. Kept(g, arm_timer(h))
      BY <1>1, <1>4, <2>0, ArmKeeps, KeptTwice
    <3> QED
      BY <3>1, <3>2, KeptUpToDate DEF w
  <2>5. CASE reg = 11
    <3> DEFINE b == (64 * Field(val, 0, 2)) % g.ram_pages
               i == [h EXCEPT !.vram_base = b]
    <3>1. w = IF BankMask(g) = 63 THEN h ELSE i
      BY <1>3, <2>5
    <3> HIDE DEF b
    <3>2. Kept(h, i)
      BY <1>2, FieldsAre DEF Kept, Unmoved, SameInputs
    <3> HIDE DEF i
    <3>3. Kept(g, i)
      BY <1>1, <2>0, <3>2, KeptTwice
    <3> QED
      BY <2>0, <3>1, <3>3, KeptUpToDate DEF w
  <2>6. CASE reg \notin {1, 2, 3, 4, 11}
    <3>1. w = h
      BY <1>3, <1>7, <2>6
    <3> QED
      BY <2>0, <3>1, KeptUpToDate DEF w
  <2> QED
    BY <2>1, <2>2, <2>3, <2>4, <2>5, <2>6
<1> QED
  BY <1>5, <1>6, <1>7

\* The MMU.
LEMMA MmuWritten ==
  ASSUME NEW g, UpToDate(g), NEW offset, NEW bank
  PROVE  UpToDate(tcc1014_write_mmu(g, offset, bank)) /\ tcc1014_write_mmu(g, offset, bank).row = g.row
<1> DEFINE b == bank % (BankMask(g) + 1)
           h == [g EXCEPT !.mmu_bank[offset] = b]
<1>1. tcc1014_write_mmu(g, offset, bank) = tcc1014_update_active_banks(h)
  BY Zenon DEF tcc1014_write_mmu
<1> HIDE DEF b
<1>2. DOMAIN g = GimeFields /\ GimeShape(g)
  BY DEF UpToDate, GimeShape, GimeFields
<1>3. Kept(g, h)
  BY <1>2, FieldsAre DEF Kept, Unmoved, SameInputs
<1> HIDE DEF h
<1>4. Kept(g, tcc1014_update_active_banks(h))
  BY <1>2, <1>3, KeptShape, BanksKeep, KeptTwice
<1> QED
  BY <1>1, <1>4, KeptUpToDate

\* The SAM, whose V and F bits the CoCo modes use.
LEMMA SamWritten ==
  ASSUME NEW g, UpToDate(g), NEW offset
  PROVE  UpToDate(tcc1014_write_sam(g, offset)) /\ tcc1014_write_sam(g, offset).row = g.row
<1> DEFINE sam == IF offset % 2 = 1 THEN g.SAM_register \cup {offset \div 2} ELSE g.SAM_register \ {offset \div 2}
           h == [g EXCEPT !.SAM_register = sam]
           p == update_fast_pages(h)
<1>1. tcc1014_write_sam(g, offset) = update_from_gime_registers(p)
  BY Zenon DEF tcc1014_write_sam, update_from_sam_register
<1> HIDE DEF sam
<1>2. DOMAIN g = GimeFields /\ GimeShape(g)
  BY DEF UpToDate, GimeShape, GimeFields
<1>3. DOMAIN h = GimeFields /\ h.registers = g.registers /\ h.row = g.row
  BY <1>2, FieldsAre
<1> HIDE DEF h
<1>4. GimeShape(h)
  BY <1>2, <1>3 DEF GimeShape, GimeFields
<1>5. Kept(h, p) /\ GimeShape(p)
  BY <1>4, PagesKeep, KeptShape
<1> HIDE DEF p
<1> QED
  BY <1>1, <1>3, <1>5, Recomputed DEF Kept, Unmoved

\* What the GIME overhears of PIA 1.
LEMMA Overheard ==
  ASSUME NEW g, UpToDate(g), NEW addr, NEW val
  PROVE  UpToDate(tcc1014_snoop_pia1b(g, addr, val)) /\ tcc1014_snoop_pia1b(g, addr, val).row = g.row
<1> DEFINE bits == val \ {0, 1, 2}
           h == [g EXCEPT !.pdr = bits]
           d == [g EXCEPT !.ddr = 2 \in val]
<1>1. tcc1014_snoop_pia1b(g, addr, val) =
        CASE addr = 65314 /\ g.ddr -> update_from_gime_registers(h)
          [] addr = 65315 -> d
          [] OTHER -> g
  BY DEF tcc1014_snoop_pia1b
<1> HIDE DEF bits
<1>2. DOMAIN g = GimeFields /\ GimeShape(g)
  BY DEF UpToDate, GimeShape, GimeFields
<1>3. DOMAIN h = GimeFields /\ h.registers = g.registers /\ h.row = g.row
  BY <1>2, FieldsAre
<1>4. GimeShape(h)
  BY <1>2, <1>3 DEF GimeShape, GimeFields
<1>5. Kept(g, d)
  BY <1>2, FieldsAre DEF Kept, Unmoved, SameInputs
<1> HIDE DEF h, d
<1>6. UpToDate(d) /\ d.row = g.row
  BY <1>5, KeptUpToDate
<1>7. UpToDate(update_from_gime_registers(h)) /\ update_from_gime_registers(h).row = g.row
  BY <1>3, <1>4, Recomputed
<1>8. \/ tcc1014_snoop_pia1b(g, addr, val) = update_from_gime_registers(h)
      \/ tcc1014_snoop_pia1b(g, addr, val) = d
      \/ tcc1014_snoop_pia1b(g, addr, val) = g
  <2>1. CASE addr = 65314 /\ g.ddr
    BY <1>1, <2>1
  <2>2. CASE addr = 65315
    BY <1>1, <2>2
  <2>3. CASE ~(addr = 65314 /\ g.ddr) /\ addr # 65315
    BY <1>1, <2>3
  <2> QED
    BY <2>1, <2>2, <2>3
<1> QED
  BY <1>6, <1>7, <1>8

\* Whatever a program writes, and wherever.
LEMMA Written ==
  ASSUME NEW g, UpToDate(g), NEW addr, NEW val
  PROVE  UpToDate(tcc1014_mem_write(g, addr, val)) /\ tcc1014_mem_write(g, addr, val).row = g.row
<1> DEFINE h == edge_detect_il(g)
           w == tcc1014_mem_write(g, addr, val)
<1>1. w = CASE addr \in 65424 .. 65439 -> tcc1014_write_register(h, addr - 65424, val)
            [] addr \in 65440 .. 65455 -> tcc1014_write_mmu(h, addr - 65440, Number(val))
            [] addr \in 65472 .. 65503 -> tcc1014_write_sam(h, addr - 65472)
            [] OTHER -> tcc1014_snoop_pia1b(h, addr, val)
  BY DEF tcc1014_mem_write
<1>2. UpToDate(h) /\ h.row = g.row
  BY EdgeKeeps, KeptUpToDate DEF UpToDate
<1> HIDE DEF h, w
<1>3. CASE addr \in 65424 .. 65439
  <2>1. w = tcc1014_write_register(h, addr - 65424, val) /\ addr - 65424 \in 0 .. 15
    BY <1>1, <1>3
  <2> QED
    BY <1>2, <2>1, RegisterWritten DEF w
<1>4. CASE addr \in 65440 .. 65455
  <2>1. w = tcc1014_write_mmu(h, addr - 65440, Number(val))
    BY <1>1, <1>4
  <2> QED
    BY <1>2, <2>1, MmuWritten DEF w
<1>5. CASE addr \in 65472 .. 65503
  <2>1. w = tcc1014_write_sam(h, addr - 65472)
    BY <1>1, <1>5
  <2> QED
    BY <1>2, <2>1, SamWritten DEF w
<1>6. CASE addr \notin 65424 .. 65439 /\ addr \notin 65440 .. 65455 /\ addr \notin 65472 .. 65503
  <2>1. w = tcc1014_snoop_pia1b(h, addr, val)
    BY <1>1, <1>6
  <2> QED
    BY <1>2, <2>1, Overheard DEF w
<1> QED
  BY <1>3, <1>4, <1>5, <1>6

\* A reset, whatever was there before.
LEMMA ResetUpToDate ==
  ASSUME NEW g
  PROVE  UpToDate(tcc1014_reset(g)) /\ tcc1014_reset(g).row = 0
<1> DEFINE mmu == [i \in 0 .. 15 |-> 56 + (i % 8)]
           h == [tcc1014_init EXCEPT !.mmu_bank = mmu, !.ram_pages = g.ram_pages,
                                     !.B = g.B, !.timer_fires = g.timer_fires]
           b == tcc1014_update_active_banks(h)
<1>1. tcc1014_reset(g) = update_from_gime_registers(b)
  BY Zenon DEF tcc1014_reset
<1> HIDE DEF mmu
<1>2. DOMAIN tcc1014_init = GimeFields /\ tcc1014_init.row = 0 /\ DOMAIN tcc1014_init.registers = 0 .. 15
  <2>1. DOMAIN tcc1014_init = GimeFields
    BY DEF GimeFields
  <2>2. tcc1014_init.row = 0
    BY DEF tcc1014_init
  <2>3. tcc1014_init.registers = [r \in 0 .. 15 |-> {}]
    BY DEF tcc1014_init
  <2> QED
    BY <2>1, <2>2, <2>3
<1>3. DOMAIN h = GimeFields /\ h.row = 0 /\ DOMAIN h.registers = 0 .. 15
  BY <1>2, FieldsAre
<1> HIDE DEF h
<1>4. GimeShape(h)
  BY <1>2, <1>3 DEF GimeShape
<1>5. Kept(h, b) /\ GimeShape(b)
  BY <1>4, BanksKeep, KeptShape
<1> HIDE DEF b
<1> QED
  BY <1>1, <1>3, <1>5, Recomputed DEF Kept, Unmoved

-----------------------------------------------------------------------------
(* The theorem.                                                             *)

\* The renderers draw what the monolith draws, in every mode a program can set up.
THEOREM RendererCorrect == RenderSpec => []RenderersAgree
<1>1. RenderInit => RenderIInv
  <2> SUFFICES ASSUME RenderInit PROVE RenderIInv
    OBVIOUS
  <2> DEFINE r == tcc1014_reset(tcc1014_init)
             h == [r EXCEPT !.ram_pages = 64, !.vram_base = 0]
  <2>1. view = tcc1014_update_active_banks(h)
    BY Zenon DEF RenderInit, tcc1014_set_ram
  <2>2. UpToDate(r) /\ r.row = 0
    BY ResetUpToDate
  <2> HIDE DEF r
  <2>3. Kept(r, h) /\ GimeShape(r)
    <3>1. DOMAIN r = GimeFields
      BY <2>2 DEF UpToDate, GimeShape, GimeFields
    <3> QED
      BY <3>1, <2>2, FieldsAre DEF Kept, Unmoved, SameInputs, UpToDate
  <2> HIDE DEF h
  <2>4. Kept(r, view)
    BY <2>1, <2>3, KeptShape, BanksKeep, KeptTwice
  <2>5. UpToDate(view) /\ view.row = 0
    BY <2>2, <2>4, KeptUpToDate
  <2> QED
    BY <2>5 DEF UpToDate, RenderIInv
<1>2. RenderIInv /\ [RenderNext]_rvars => RenderIInv'
  <2> SUFFICES ASSUME RenderIInv, [RenderNext]_rvars PROVE RenderIInv'
    OBVIOUS
  <2>0. UpToDate(view) /\ view.row \in 0 .. 15 /\ DOMAIN view = GimeFields
    BY DEF RenderIInv, UpToDate, GimeShape, GimeFields
  <2>1. CASE WriteView
    <3>1. PICK w \in ViewWrites : view' = tcc1014_mem_write(view, w[1], w[2])
      BY <2>1 DEF WriteView
    <3>2. UpToDate(view') /\ view'.row = view.row
      BY <2>0, <3>1, Written
    <3> QED
      BY <2>0, <3>2 DEF UpToDate, RenderIInv
  <2>2. CASE NextLine
    <3> DEFINE n == (view.row + 1) % 16
               r == IF n = view.video.rowmask THEN 0 ELSE n
    <3>1. view' = [view EXCEPT !.row = r]
      BY <2>2 DEF NextLine
    <3>2. r \in 0 .. 15
      BY <2>0
    <3> HIDE DEF r
    <3>3. DOMAIN view' = GimeFields /\ view'.row = r /\ SameInputs(view, view') /\ view'.video = view.video
      BY <2>0, <3>1, FieldsAre DEF SameInputs
    <3>4. Geometry(view') = Geometry(view)
      BY <3>3, SameGeometry
    <3> QED
      BY <2>0, <3>2, <3>3, <3>4 DEF UpToDate, RenderIInv, GimeShape, GimeFields, SameInputs
  <2>3. CASE Blink
    <3>1. Kept(view, view')
      BY <2>0, <2>3, FieldsAre DEF Blink, Kept, Unmoved, SameInputs
    <3>2. UpToDate(view') /\ view'.row = view.row
      BY <2>0, <3>1, KeptUpToDate
    <3> QED
      BY <2>0, <3>2 DEF UpToDate, RenderIInv
  <2>4. CASE UNCHANGED rvars
    <3>1. view' = view
      BY <2>4 DEF rvars
    <3> QED
      BY <2>0, <3>1 DEF UpToDate, RenderIInv
  <2> QED
    BY <2>1, <2>2, <2>3, <2>4 DEF RenderNext
<1>3. RenderIInv => RenderersAgree
  BY LinesAgree DEF RenderIInv, RenderersAgree
<1> QED
  BY <1>1, <1>2, <1>3, PTL DEF RenderSpec

-----------------------------------------------------------------------------
(* The GIME: what each of its steps touches.                                *)

\* Only the fields F differ.
Touches(g, h, F) == DOMAIN h = DOMAIN g /\ \A f \in DOMAIN g \ F : h[f] = g[f]
InterruptFields == {"irq_state", "firq_state", "IRQ", "FIRQ", "IL", "IL_state"}
PageFields == {"rd_page", "wr_page"}
TimerFields == {"timer_counter", "timer_left_x2"}

\* Two steps touch what either touches.
LEMMA TouchesBoth ==
  ASSUME NEW g, NEW h, NEW i, NEW F, NEW G, Touches(g, h, F), Touches(h, i, G)
  PROVE  Touches(g, i, F \cup G)
  BY DEF Touches

\* Fewer fields touched are not more.
LEMMA TouchesMore ==
  ASSUME NEW g, NEW h, NEW F, NEW G, Touches(g, h, F), F \subseteq G
  PROVE  Touches(g, h, G)
  BY DEF Touches

\* Gating the interrupt outputs is an affair of the interrupt fields,
LEMMA GateTouches ==
  ASSUME NEW g, DOMAIN g = GimeFields
  PROVE  Touches(g, Gate(g), InterruptFields)
  BY FieldsAre DEF Gate, Touches, InterruptFields

\* and so is raising one,
LEMMA InterruptTouches ==
  ASSUME NEW g, DOMAIN g = GimeFields, NEW flags
  PROVE  Touches(g, set_interrupt(g, flags), InterruptFields)
<1> DEFINE a == g.irq_state \cup (flags \cap g.registers[2])
           b == g.firq_state \cup (flags \cap g.registers[3])
           h == [g EXCEPT !.irq_state = a, !.firq_state = b]
<1>1. set_interrupt(g, flags) = Gate(h)
  BY Zenon DEF set_interrupt
<1> HIDE DEF a, b
<1>2. Touches(g, h, InterruptFields)
  BY FieldsAre DEF Touches, InterruptFields
<1> HIDE DEF h
<1>3. DOMAIN h = GimeFields
  BY <1>2 DEF Touches
<1>4. Touches(h, Gate(h), InterruptFields)
  BY <1>3, GateTouches
<1> QED
  BY <1>1, <1>2, <1>4, TouchesBoth

\* and looking at the IL lines.
LEMMA EdgeTouches ==
  ASSUME NEW g, DOMAIN g = GimeFields
  PROVE  Touches(g, edge_detect_il(g), InterruptFields)
<1> DEFINE h == set_interrupt(g, g.IL \ g.IL_state)
           lines == g.IL
<1>1. edge_detect_il(g) = [h EXCEPT !.IL_state = lines]
  BY Zenon DEF edge_detect_il
<1>2. Touches(g, h, InterruptFields)
  BY InterruptTouches
<1> HIDE DEF h, lines
<1>3. Touches(h, [h EXCEPT !.IL_state = lines], InterruptFields)
  BY FieldsAre DEF Touches, InterruptFields
<1> QED
  BY <1>1, <1>2, <1>3, TouchesBoth

\* Arming the timer loads it with its period.
LEMMA ArmTouches ==
  ASSUME NEW g, DOMAIN g = GimeFields
  PROVE  LET h == arm_timer(g)
         IN /\ Touches(g, h, TimerFields)
            /\ h.timer_counter = IF Reload(g) = 0 THEN 0 ELSE Reload(g) + TIMER_OFFSET
            /\ h.timer_left_x2 = 2 * h.timer_counter
<1> DEFINE counter == IF Reload(g) = 0 THEN 0 ELSE Reload(g) + TIMER_OFFSET
           left == 2 * counter
           h == [g EXCEPT !.timer_counter = counter, !.timer_left_x2 = left]
<1>1. arm_timer(g) = h
  BY Zenon DEF arm_timer
<1> HIDE DEF counter, left
<1>2. Touches(g, h, TimerFields) /\ h.timer_counter = counter /\ h.timer_left_x2 = left
  BY FieldsAre DEF Touches, TimerFields
<1> QED
  BY <1>1, <1>2 DEF counter, left

\* The derived video state is one field.
LEMMA VideoTouches ==
  ASSUME NEW g, DOMAIN g = GimeFields
  PROVE  Touches(g, update_from_gime_registers(g), {"video"})
<1> DEFINE v == Geometry(g)
<1>1. update_from_gime_registers(g) = [g EXCEPT !.video = v]
  BY Zenon DEF update_from_gime_registers
<1> HIDE DEF v
<1> QED
  BY <1>1, FieldsAre DEF Touches

-----------------------------------------------------------------------------
(* The banks and page pointers in force.                                    *)

\* What they depend on.
MapInputs(g) ==
  /\ g.ram_pages \in Nat \ {0} /\ DOMAIN g.mmu_bank = 0 .. 15 /\ \A i \in 0 .. 15 : g.mmu_bank[i] \in Nat
SameMap(g, h) ==
  /\ (MMUEN(h) <=> MMUEN(g)) /\ TR(h) = TR(g) /\ (TY(h) <=> TY(g))
  /\ h.mmu_bank = g.mmu_bank /\ h.ram_pages = g.ram_pages
SamePages(g, h) == h.active_banks = g.active_banks /\ h.rd_page = g.rd_page /\ h.wr_page = g.wr_page

\* The same registers select the same banks.
LEMMA SameBanks ==
  ASSUME NEW g, NEW h, SameMap(g, h)
  PROVE  \A i \in 0 .. 7 : BankOf(h, i) = BankOf(g, i)
  BY DEF SameMap, BankOf

\* Pointers stay right while neither they nor their registers change.
LEMMA StillMapped ==
  ASSUME NEW g, NEW h, Mapped(g), SameMap(g, h), SamePages(g, h)
  PROVE  Mapped(h)
<1>1. \A i \in 0 .. 7 : BankOf(h, i) = BankOf(g, i)
  BY SameBanks
<1> QED
  BY <1>1 DEF Mapped, SameMap, SamePages

\* Recomputed
LEMMA PagesMapped ==
  ASSUME NEW g, DOMAIN g = GimeFields, MapInputs(g), \A i \in 0 .. 7 : g.active_banks[i] = BankOf(g, i)
  PROVE  Mapped(update_fast_pages(g)) /\ Touches(g, update_fast_pages(g), PageFields)
<1> DEFINE page(i) == IF g.ram_pages = 0 THEN NoPage ELSE g.active_banks[i] % g.ram_pages
           wr == [i \in 0 .. 7 |-> page(i)]
           rd == [i \in 0 .. 7 |-> IF TY(g) \/ g.active_banks[i] % 64 < 60 THEN page(i) ELSE NoPage]
           h == [g EXCEPT !.wr_page = wr, !.rd_page = rd]
<1>1. update_fast_pages(g) = h
  BY Zenon DEF update_fast_pages
<1>2. \A i \in 0 .. 7 :
        /\ wr[i] = BankOf(g, i) % g.ram_pages
        /\ rd[i] = IF TY(g) \/ BankOf(g, i) % 64 < 60 THEN BankOf(g, i) % g.ram_pages ELSE NoPage
  BY DEF MapInputs
<1> HIDE DEF wr, rd
<1>3. Touches(g, h, PageFields) /\ h.wr_page = wr /\ h.rd_page = rd
  BY FieldsAre DEF Touches, PageFields
<1> HIDE DEF h
<1>4. h.registers = g.registers /\ h.SAM_register = g.SAM_register /\ h.mmu_bank = g.mmu_bank
      /\ h.ram_pages = g.ram_pages /\ h.active_banks = g.active_banks
  BY <1>3, FieldsAre DEF Touches, PageFields
<1>5. SameMap(g, h)
  BY <1>4 DEF SameMap, MMUEN, TR, TY
<1>6. \A i \in 0 .. 7 : BankOf(h, i) = BankOf(g, i)
  BY <1>5, SameBanks
<1>7. TY(h) <=> TY(g)
  BY <1>5 DEF SameMap
<1>8. Mapped(h)
  BY <1>2, <1>3, <1>4, <1>6, <1>7 DEF Mapped, MapInputs
<1> QED
  BY <1>1, <1>3, <1>8

\* tcc1014_update_active_banks puts the registers' banks and pages in force.
LEMMA BanksMapped ==
  ASSUME NEW g, DOMAIN g = GimeFields, MapInputs(g)
  PROVE  LET h == tcc1014_update_active_banks(g)
         IN Mapped(h) /\ Touches(g, h, {"active_banks", "rd_page", "wr_page"})
<1> DEFINE banks == [i \in 0 .. 7 |-> BankOf(g, i)]
           h == [g EXCEPT !.active_banks = banks]
<1>1. tcc1014_update_active_banks(g) = update_fast_pages(h)
  BY Zenon DEF tcc1014_update_active_banks
<1>2. \A i \in 0 .. 7 : banks[i] = BankOf(g, i)
  OBVIOUS
<1> HIDE DEF banks
<1>3. Touches(g, h, {"active_banks"}) /\ h.active_banks = banks
  BY FieldsAre DEF Touches
<1> HIDE DEF h
<1>4. DOMAIN h = GimeFields /\ h.registers = g.registers /\ h.SAM_register = g.SAM_register
      /\ h.mmu_bank = g.mmu_bank /\ h.ram_pages = g.ram_pages
  BY <1>3, FieldsAre DEF Touches
<1>5. SameMap(g, h)
  BY <1>4 DEF SameMap, MMUEN, TR, TY
<1>6. MapInputs(h) /\ \A i \in 0 .. 7 : h.active_banks[i] = BankOf(h, i)
  BY <1>2, <1>3, <1>4, <1>5, SameBanks DEF MapInputs
<1>7. Mapped(update_fast_pages(h)) /\ Touches(h, update_fast_pages(h), PageFields)
  BY <1>4, <1>6, PagesMapped
<1>8. Touches(g, update_fast_pages(h), {"active_banks"} \cup PageFields)
  BY <1>3, <1>7, TouchesBoth
<1> QED
  BY <1>1, <1>7, <1>8, TouchesMore DEF PageFields

\* Steps that touch none of it
MapFields == {"registers", "SAM_register", "mmu_bank", "ram_pages", "active_banks", "rd_page", "wr_page"}

\* Nor is the map disturbed by a step that touches other fields.
LEMMA MapUntouched ==
  ASSUME NEW g, NEW h, DOMAIN g = GimeFields, Mapped(g), NEW F, Touches(g, h, F), F \cap MapFields = {}
  PROVE  Mapped(h)
<1>1. h.registers = g.registers /\ h.SAM_register = g.SAM_register /\ h.mmu_bank = g.mmu_bank
      /\ h.ram_pages = g.ram_pages /\ h.active_banks = g.active_banks /\ h.rd_page = g.rd_page /\ h.wr_page = g.wr_page
  BY FieldsAre DEF Touches, MapFields
<1>2. SameMap(g, h) /\ SamePages(g, h)
  BY <1>1 DEF SameMap, SamePages, MMUEN, TR, TY
<1> QED
  BY <1>2, StillMapped

-----------------------------------------------------------------------------
(* What a write to the GIME does to the memory map and to the timer.        *)

SameTimer(g, h) ==
  /\ h.timer_counter = g.timer_counter /\ h.timer_left_x2 = g.timer_left_x2 /\ h.timer_fires = g.timer_fires
  /\ Reload(h) = Reload(g) /\ (TINS(h) <=> TINS(g))
SameCount(g, h) == h.timer_counter = g.timer_counter /\ h.timer_left_x2 = g.timer_left_x2
Armed(g, h) ==
  /\ h.timer_fires = g.timer_fires /\ h.timer_left_x2 = 2 * h.timer_counter
  /\ h.timer_counter = IF Reload(h) = 0 THEN 0 ELSE Reload(h) + TIMER_OFFSET

\* The timer keeps its count when a step touches none of its fields.
LEMMA TimerUntouched ==
  ASSUME NEW g, NEW h, DOMAIN g = GimeFields, NEW F, Touches(g, h, F),
         F \cap {"registers", "timer_counter", "timer_left_x2", "timer_fires"} = {}
  PROVE  SameTimer(g, h)
<1>1. h.registers = g.registers /\ h.timer_counter = g.timer_counter /\ h.timer_left_x2 = g.timer_left_x2
      /\ h.timer_fires = g.timer_fires
  BY FieldsAre DEF Touches
<1> QED
  BY <1>1 DEF SameTimer, Reload, TINS

\* arm_timer arms it.
LEMMA TimerArmed ==
  ASSUME NEW g, DOMAIN g = GimeFields
  PROVE  Armed(g, arm_timer(g))
<1> DEFINE h == arm_timer(g)
<1>1. /\ Touches(g, h, TimerFields) /\ h.timer_counter = IF Reload(g) = 0 THEN 0 ELSE Reload(g) + TIMER_OFFSET
      /\ h.timer_left_x2 = 2 * h.timer_counter
  BY ArmTouches
<1> HIDE DEF h
<1>2. h.registers = g.registers /\ h.timer_fires = g.timer_fires
  BY <1>1, FieldsAre DEF Touches, TimerFields
<1>3. Reload(h) = Reload(g)
  BY <1>2 DEF Reload
<1> QED
  BY <1>1, <1>2, <1>3 DEF Armed, h

\* A register of the sixteen: INIT1's TINS and the timer's high byte arm.
TimerWritten(g, h, reg, val) ==
  /\ h.timer_fires = g.timer_fires
  /\ reg = 4 => Armed(g, h)
  /\ reg = 1 => IF (5 \in val) # TINS(g) THEN Armed(g, h) ELSE SameTimer(g, h)
  /\ reg = 5 => SameCount(g, h)
  /\ reg \notin {1, 4, 5} => SameTimer(g, h)

\* A register write leaves the map right, and the timer armed or alone.
LEMMA RegisterMapped ==
  ASSUME NEW g, GimeShape(g), Mapped(g), NEW reg \in 0 .. 15, NEW val
  PROVE  LET w == tcc1014_write_register(g, reg, val)
         IN Mapped(w) /\ TimerWritten(g, w, reg, val)
<1> DEFINE w == tcc1014_write_register(g, reg, val)
           h == [g EXCEPT !.registers[reg] = val]
           changed == Differs(g.registers[reg], val)
           base == (64 * Field(val, 0, 2)) % g.ram_pages
<1>1. DOMAIN g = GimeFields /\ DOMAIN g.registers = 0 .. 15
  BY DEF GimeShape, GimeFields
<1>2. /\ DOMAIN h = GimeFields /\ \A f \in GimeFields \ {"registers"} : h[f] = g[f]
      /\ h.registers[reg] = val /\ \A r \in 0 .. 15 : r # reg => h.registers[r] = g.registers[r]
  BY <1>1, FieldsAre
<1>3. w = CASE reg = 0 -> update_from_gime_registers(tcc1014_update_active_banks(Gate(h)))
            [] reg = 1 -> WriteInit1(g, val)
            [] reg = 2 -> Gate([h EXCEPT !.irq_state = enable_latch(h, @, val, changed)])
            [] reg = 3 -> Gate([h EXCEPT !.firq_state = enable_latch(h, @, val, changed)])
            [] reg = 4 -> arm_timer(h)
            [] reg \in {8, 9, 10, 12, 15} -> update_from_gime_registers(h)
            [] reg = 11 -> IF BankMask(g) = 63 THEN h ELSE [h EXCEPT !.vram_base = base]
            [] OTHER -> h
  BY Zenon DEF tcc1014_write_register
<1> HIDE DEF h, w, changed, base
<1>4. h.mmu_bank = g.mmu_bank /\ h.ram_pages = g.ram_pages /\ h.SAM_register = g.SAM_register
      /\ h.timer_counter = g.timer_counter /\ h.timer_left_x2 = g.timer_left_x2 /\ h.timer_fires = g.timer_fires
      /\ h.active_banks = g.active_banks /\ h.rd_page = g.rd_page /\ h.wr_page = g.wr_page
  BY <1>2, FieldsAre
<1>5. MapInputs(h)
  BY <1>4 DEF MapInputs, Mapped
<1>6. reg \notin {0, 1} => Mapped(h)
  <2> SUFFICES ASSUME reg \notin {0, 1} PROVE Mapped(h)
    OBVIOUS
  <2>1. h.registers[0] = g.registers[0] /\ h.registers[1] = g.registers[1]
    BY <1>2
  <2>2. SameMap(g, h) /\ SamePages(g, h)
    BY <1>4, <2>1 DEF SameMap, SamePages, MMUEN, TR, TY
  <2> QED
    BY <2>2, StillMapped
<1>7. reg \notin {1, 4, 5} => SameTimer(g, h)
  <2> SUFFICES ASSUME reg \notin {1, 4, 5} PROVE SameTimer(g, h)
    OBVIOUS
  <2>1. h.registers[4] = g.registers[4] /\ h.registers[1] = g.registers[1] /\ h.registers[5] = g.registers[5]
    BY <1>2
  <2> QED
    BY <1>4, <2>1 DEF SameTimer, Reload, TINS
\* Whatever touches neither the map nor the timer adds nothing.
<1>8. \A F : Touches(h, w, F) /\ F \cap (MapFields \cup {"timer_counter", "timer_left_x2", "timer_fires"}) = {}
             /\ reg \notin {0, 1, 4}
             => Mapped(w) /\ TimerWritten(g, w, reg, val)
  <2> TAKE F
  <2> HAVE Touches(h, w, F) /\ F \cap (MapFields \cup {"timer_counter", "timer_left_x2", "timer_fires"}) = {}
           /\ reg \notin {0, 1, 4}
  <2>1. Mapped(w)
    BY <1>2, <1>6, MapUntouched
  <2>2. SameTimer(h, w)
    BY <1>2, TimerUntouched DEF MapFields
  <2> QED
    BY <1>4, <1>7, <2>1, <2>2 DEF TimerWritten, SameTimer, SameCount
<1>9. CASE reg = 0
  <2>1. w = update_from_gime_registers(tcc1014_update_active_banks(Gate(h)))
    BY <1>3, <1>9
  <2> DEFINE a == Gate(h)
             b == tcc1014_update_active_banks(a)
  <2>2. Touches(h, a, InterruptFields)
    BY <1>2, GateTouches
  <2> HIDE DEF a
  <2>3. DOMAIN a = GimeFields /\ a.mmu_bank = h.mmu_bank /\ a.ram_pages = h.ram_pages
    BY <1>2, <2>2, FieldsAre DEF Touches, InterruptFields
  <2>4. MapInputs(a)
    BY <1>5, <2>3 DEF MapInputs
  <2>5. Mapped(b) /\ Touches(a, b, {"active_banks", "rd_page", "wr_page"})
    BY <2>3, <2>4, BanksMapped
  <2> HIDE DEF b
  <2>6. DOMAIN b = GimeFields
    BY <2>3, <2>5 DEF Touches
  <2>7. Touches(b, w, {"video"})
    BY <2>1, <2>6, VideoTouches DEF a, b
  <2>8. Mapped(w)
    BY <2>5, <2>6, <2>7, MapUntouched DEF MapFields
  <2>9. SameTimer(h, a) /\ SameTimer(a, b) /\ SameTimer(b, w)
    BY <1>2, <2>2, <2>3, <2>5, <2>6, <2>7, TimerUntouched DEF InterruptFields
  <2> QED
    BY <1>4, <1>7, <1>9, <2>8, <2>9 DEF TimerWritten, SameTimer, w
<1>10. CASE reg = 1
  <2> DEFINE one == [g EXCEPT !.registers[1] = val]
             timed == IF TINS(one) # TINS(g) THEN arm_timer(one) ELSE one
  <2>1. w = IF TR(one) # TR(g) THEN tcc1014_update_active_banks(timed) ELSE timed
    <3>1. w = WriteInit1(g, val)
      BY <1>3, <1>10
    <3>2. WriteInit1(g, val) = IF TR(one) # TR(g) THEN tcc1014_update_active_banks(timed) ELSE timed
      BY Zenon DEF WriteInit1
    <3> QED
      BY <3>1, <3>2
  <2>2. one = h
    BY <1>10 DEF h
  <2> HIDE DEF one
  <2>3. /\ TINS(h) <=> 5 \in val
        /\ MMUEN(h) <=> MMUEN(g)
        /\ TY(h) <=> TY(g)
        /\ Reload(h) = Reload(g)
    BY <1>2, <1>4, <1>10 DEF TINS, MMUEN, TY, Reload
  <2>4. Touches(h, timed, TimerFields)
    <3>1. Touches(h, h, TimerFields)
      BY DEF Touches
    <3> QED
      BY <1>2, <2>2, <3>1, ArmTouches
  <2>5. IF (5 \in val) # TINS(g) THEN Armed(g, timed) ELSE SameTimer(g, timed)
    <3>1. CASE TINS(one) # TINS(g)
      <4>1. Armed(h, timed)
        BY <1>2, <2>2, <3>1, TimerArmed
      <4>2. (5 \in val) # TINS(g)
        BY <2>2, <2>3, <3>1 DEF TINS
      <4> QED
        BY <1>4, <4>1, <4>2 DEF Armed
    <3>2. CASE ~(TINS(one) # TINS(g))
      <4>1. timed = h
        BY <2>2, <3>2
      <4>2. ~((5 \in val) # TINS(g)) /\ (TINS(h) <=> TINS(g))
        BY <2>2, <2>3, <3>2 DEF TINS
      <4> QED
        BY <1>4, <2>3, <4>1, <4>2 DEF SameTimer
    <3> QED
      BY <3>1, <3>2
  <2> HIDE DEF timed
  <2>6. DOMAIN timed = GimeFields /\ timed.registers = h.registers /\ timed.mmu_bank = h.mmu_bank
        /\ timed.ram_pages = h.ram_pages /\ timed.SAM_register = h.SAM_register
        /\ timed.active_banks = h.active_banks /\ timed.rd_page = h.rd_page /\ timed.wr_page = h.wr_page
    BY <1>2, <2>4, FieldsAre DEF Touches, TimerFields
  <2>7. CASE TR(one) = TR(g)
    <3>1. w = timed
      BY <2>1, <2>7
    <3>2. TR(timed) = TR(g) /\ (MMUEN(timed) <=> MMUEN(h)) /\ (TY(timed) <=> TY(h))
      BY <2>2, <2>6, <2>7 DEF TR, MMUEN, TY
    <3>3. SameMap(g, timed) /\ SamePages(g, timed)
      BY <1>4, <2>3, <2>6, <3>2 DEF SameMap, SamePages
    <3>4. Mapped(w)
      BY <3>1, <3>3, StillMapped
    <3> QED
      BY <1>10, <2>5, <3>1, <3>4 DEF TimerWritten, Armed, SameTimer, w
  <2>8. CASE TR(one) # TR(g)
    <3>1. w = tcc1014_update_active_banks(timed)
      BY <2>1, <2>8
    <3>2. MapInputs(timed)
      BY <1>5, <2>6 DEF MapInputs
    <3>3. Mapped(w) /\ Touches(timed, w, {"active_banks", "rd_page", "wr_page"})
      BY <2>6, <3>1, <3>2, BanksMapped
    <3>4. SameTimer(timed, w)
      BY <2>6, <3>3, TimerUntouched
    <3>5. IF (5 \in val) # TINS(g) THEN Armed(g, w) ELSE SameTimer(g, w)
      BY <2>5, <3>4 DEF Armed, SameTimer
    <3> QED
      BY <1>10, <3>3, <3>5 DEF TimerWritten, Armed, SameTimer, w
  <2> QED
    BY <2>7, <2>8
<1>11. CASE reg = 2
  <2> DEFINE v == enable_latch(h, h.irq_state, val, changed)
             i == [h EXCEPT !.irq_state = v]
  <2>1. w = Gate(i)
    BY <1>3, <1>11
  <2> HIDE DEF v
  <2>2. Touches(h, i, InterruptFields)
    BY <1>2, FieldsAre DEF Touches, InterruptFields
  <2> HIDE DEF i
  <2>3. DOMAIN i = GimeFields
    BY <1>2, <2>2 DEF Touches
  <2>4. Touches(h, w, InterruptFields)
    BY <2>1, <2>2, <2>3, GateTouches, TouchesBoth
  <2> QED
    BY <1>8, <1>11, <2>4 DEF InterruptFields, MapFields, w
<1>12. CASE reg = 3
  <2> DEFINE v == enable_latch(h, h.firq_state, val, changed)
             i == [h EXCEPT !.firq_state = v]
  <2>1. w = Gate(i)
    BY <1>3, <1>12
  <2> HIDE DEF v
  <2>2. Touches(h, i, InterruptFields)
    BY <1>2, FieldsAre DEF Touches, InterruptFields
  <2> HIDE DEF i
  <2>3. DOMAIN i = GimeFields
    BY <1>2, <2>2 DEF Touches
  <2>4. Touches(h, w, InterruptFields)
    BY <2>1, <2>2, <2>3, GateTouches, TouchesBoth
  <2> QED
    BY <1>8, <1>12, <2>4 DEF InterruptFields, MapFields, w
<1>13. CASE reg = 4
  <2>1. w = arm_timer(h)
    BY <1>3, <1>13
  <2>2. Touches(h, w, TimerFields) /\ Armed(h, w)
    BY <1>2, <2>1, ArmTouches, TimerArmed
  <2>3. Mapped(w)
    BY <1>2, <1>6, <1>13, <2>2, MapUntouched DEF TimerFields, MapFields
  <2>4. Armed(g, w)
    BY <1>4, <2>2 DEF Armed
  <2> QED
    BY <1>13, <2>3, <2>4 DEF TimerWritten, Armed, w
<1>14. CASE reg \in {8, 9, 10, 12, 15}
  <2>1. w = update_from_gime_registers(h)
    BY <1>3, <1>14
  <2>2. Touches(h, w, {"video"})
    BY <1>2, <2>1, VideoTouches
  <2> QED
    BY <1>8, <1>14, <2>2 DEF MapFields, w
<1>15. CASE reg \notin {0, 1, 2, 3, 4, 8, 9, 10, 12, 15}
  <2>1. w = h \/ w = [h EXCEPT !.vram_base = base]
    <3>1. CASE reg = 11
      BY <1>3, <3>1
    <3>2. CASE reg # 11
      BY <1>3, <1>15, <3>2
    <3> QED
      BY <3>1, <3>2
  <2>2. Touches(h, w, {"vram_base"})
    BY <1>2, <2>1, FieldsAre DEF Touches
  <2> QED
    BY <1>8, <1>15, <2>2 DEF MapFields, w
<1> QED
  BY <1>9, <1>10, <1>11, <1>12, <1>13, <1>14, <1>15

\* The fields of the video and of the memory map are untouched with the rest.
LEMMA VideoUntouched ==
  ASSUME NEW g, NEW h, UpToDate(g), NEW F, Touches(g, h, F),
         F \cap {"registers", "SAM_register", "pdr", "video"} = {}
  PROVE  UpToDate(h)
<1>1. DOMAIN g = GimeFields
  BY DEF UpToDate, GimeShape, GimeFields
<1>2. DOMAIN h = GimeFields /\ h.registers = g.registers /\ h.SAM_register = g.SAM_register /\ h.pdr = g.pdr
      /\ h.video = g.video
  BY <1>1, FieldsAre DEF Touches
<1>3. SameInputs(g, h)
  BY <1>2 DEF SameInputs
<1>4. Geometry(h) = Geometry(g)
  BY <1>3, SameGeometry
<1> QED
  BY <1>1, <1>2, <1>4 DEF UpToDate, GimeShape, GimeFields

\* The GIME of a machine: its video and its memory map are what the registers say.
Consistent(g) == UpToDate(g) /\ Mapped(g)

\* A consistent GIME has its fields.
LEMMA ConsistentFields ==
  ASSUME NEW g, Consistent(g)
  PROVE  DOMAIN g = GimeFields /\ GimeShape(g)
  BY DEF Consistent, UpToDate, GimeShape, GimeFields

\* Steps that touch none of that
LEMMA UntouchedConsistent ==
  ASSUME NEW g, NEW h, Consistent(g), NEW F, Touches(g, h, F), F \cap (MapFields \cup {"pdr", "video"}) = {}
  PROVE  Consistent(h)
<1>1. DOMAIN g = GimeFields
  BY ConsistentFields
<1>2. UpToDate(h)
  BY VideoUntouched DEF Consistent, MapFields
<1>3. Mapped(h)
  BY <1>1, MapUntouched DEF Consistent
<1> QED
  BY <1>2, <1>3 DEF Consistent

\* Interrupts disturb neither map nor timer.
LEMMA InterruptConsistent ==
  ASSUME NEW g, NEW h, Consistent(g), Touches(g, h, InterruptFields)
  PROVE  Consistent(h) /\ SameTimer(g, h)
<1>1. DOMAIN g = GimeFields
  BY ConsistentFields
<1>2. Consistent(h)
  BY UntouchedConsistent DEF InterruptFields, MapFields
<1>3. SameTimer(g, h)
  BY <1>1, TimerUntouched DEF InterruptFields
<1> QED
  BY <1>2, <1>3

\* The MMU.
LEMMA MmuMapped ==
  ASSUME NEW g, Consistent(g), NEW offset \in 0 .. 15, NEW bank \in Nat
  PROVE  LET w == tcc1014_write_mmu(g, offset, bank) IN Consistent(w) /\ SameTimer(g, w)
<1> DEFINE b == bank % (BankMask(g) + 1)
           h == [g EXCEPT !.mmu_bank[offset] = b]
           w == tcc1014_write_mmu(g, offset, bank)
<1>0. DOMAIN g = GimeFields /\ MapInputs(g)
  BY ConsistentFields DEF Consistent, Mapped, MapInputs
<1>1. w = tcc1014_update_active_banks(h)
  BY Zenon DEF tcc1014_write_mmu
<1>2. b \in Nat
  <2>1. BankMask(g) + 1 \in Nat \ {0}
    BY <1>0 DEF BankMask, MapInputs
  <2> QED
    BY <2>1, ModRange
<1>3. UpToDate(w)
  BY MmuWritten DEF Consistent
<1> HIDE DEF b, w
<1>4. Touches(g, h, {"mmu_bank"}) /\ h.mmu_bank = [g.mmu_bank EXCEPT ![offset] = b]
  BY <1>0, FieldsAre DEF Touches
<1> HIDE DEF h
<1>5. DOMAIN h = GimeFields /\ h.ram_pages = g.ram_pages
  BY <1>0, <1>4, FieldsAre DEF Touches
<1>6. MapInputs(h)
  BY <1>0, <1>2, <1>4, <1>5 DEF MapInputs
<1>7. Mapped(w) /\ Touches(h, w, {"active_banks", "rd_page", "wr_page"})
  BY <1>1, <1>5, <1>6, BanksMapped
<1>8. SameTimer(g, h) /\ SameTimer(h, w)
  BY <1>0, <1>4, <1>5, <1>7, TimerUntouched
<1> QED
  BY <1>3, <1>7, <1>8 DEF Consistent, SameTimer, w

\* The SAM, whose TY bit puts RAM where the ROM was.
LEMMA SamMapped ==
  ASSUME NEW g, Consistent(g), NEW offset
  PROVE  LET w == tcc1014_write_sam(g, offset) IN Consistent(w) /\ SameTimer(g, w)
<1> DEFINE sam == IF offset % 2 = 1 THEN g.SAM_register \cup {offset \div 2} ELSE g.SAM_register \ {offset \div 2}
           h == [g EXCEPT !.SAM_register = sam]
           p == update_fast_pages(h)
           w == tcc1014_write_sam(g, offset)
<1>0. DOMAIN g = GimeFields /\ MapInputs(g) /\ \A i \in 0 .. 7 : g.active_banks[i] = BankOf(g, i)
  BY ConsistentFields DEF Consistent, Mapped, MapInputs
<1>1. w = update_from_gime_registers(p)
  BY Zenon DEF tcc1014_write_sam, update_from_sam_register
<1>2. UpToDate(w)
  BY SamWritten DEF Consistent
<1> HIDE DEF sam, w
<1>3. Touches(g, h, {"SAM_register"})
  BY <1>0, FieldsAre DEF Touches
<1> HIDE DEF h
<1>4. DOMAIN h = GimeFields /\ h.registers = g.registers /\ h.mmu_bank = g.mmu_bank /\ h.ram_pages = g.ram_pages
      /\ h.active_banks = g.active_banks
  BY <1>0, <1>3, FieldsAre DEF Touches
<1>5. MapInputs(h) /\ \A i \in 0 .. 7 : h.active_banks[i] = BankOf(h, i)
  BY <1>0, <1>4 DEF MapInputs, BankOf, MMUEN, TR
<1>6. Mapped(p) /\ Touches(h, p, PageFields)
  BY <1>4, <1>5, PagesMapped
<1> HIDE DEF p
<1>7. DOMAIN p = GimeFields
  BY <1>4, <1>6 DEF Touches
<1>8. Touches(p, w, {"video"})
  BY <1>1, <1>7, VideoTouches
<1>9. Mapped(w)
  BY <1>6, <1>7, <1>8, MapUntouched DEF MapFields
<1>10. SameTimer(g, h) /\ SameTimer(h, p) /\ SameTimer(p, w)
  BY <1>0, <1>3, <1>4, <1>6, <1>7, <1>8, TimerUntouched DEF PageFields
<1> QED
  BY <1>2, <1>9, <1>10 DEF Consistent, SameTimer, w

\* What the GIME overhears.
LEMMA SnoopMapped ==
  ASSUME NEW g, Consistent(g), NEW addr, NEW val
  PROVE  LET w == tcc1014_snoop_pia1b(g, addr, val) IN Consistent(w) /\ SameTimer(g, w)
<1> DEFINE bits == val \ {0, 1, 2}
           h == [g EXCEPT !.pdr = bits]
           d == [g EXCEPT !.ddr = 2 \in val]
           w == tcc1014_snoop_pia1b(g, addr, val)
<1>0. DOMAIN g = GimeFields
  BY ConsistentFields
<1>1. w = CASE addr = 65314 /\ g.ddr -> update_from_gime_registers(h)
            [] addr = 65315 -> d
            [] OTHER -> g
  BY DEF tcc1014_snoop_pia1b
<1>2. UpToDate(w)
  BY Overheard DEF Consistent
<1> HIDE DEF bits, w
<1>3. Touches(g, h, {"pdr"}) /\ Touches(g, d, {"ddr"}) /\ Touches(g, g, {})
  BY <1>0, FieldsAre DEF Touches
<1> HIDE DEF h, d
<1>4. DOMAIN h = GimeFields
  BY <1>0, <1>3 DEF Touches
<1>5. Touches(h, update_from_gime_registers(h), {"video"})
  BY <1>4, VideoTouches
<1>6. w = update_from_gime_registers(h) \/ w = d \/ w = g
  <2>1. CASE addr = 65314 /\ g.ddr
    BY <1>1, <2>1
  <2>2. CASE addr = 65315
    BY <1>1, <2>2
  <2>3. CASE ~(addr = 65314 /\ g.ddr) /\ addr # 65315
    BY <1>1, <2>3
  <2> QED
    BY <2>1, <2>2, <2>3
<1>7. Touches(g, w, {"pdr", "ddr", "video"})
  <2>1. Touches(g, update_from_gime_registers(h), {"pdr"} \cup {"video"})
    BY <1>3, <1>5, TouchesBoth
  <2> QED
    BY <1>3, <1>6, <2>1, TouchesMore
<1>8. Mapped(w)
  BY <1>0, <1>7, MapUntouched DEF Consistent, MapFields
<1>9. SameTimer(g, w)
  BY <1>0, <1>7, TimerUntouched
<1> QED
  BY <1>2, <1>8, <1>9 DEF Consistent, w

\* A write that passes through tcc1014_mem_cycle, wherever it goes.
LEMMA GimeWritten ==
  ASSUME NEW g, Consistent(g), NEW addr, NEW val
  PROVE  LET w == tcc1014_mem_write(g, addr, val)
         IN /\ Consistent(w) /\ w.timer_fires = g.timer_fires
            /\ addr = 65428 => Armed(g, w)
            /\ addr = 65429 => SameCount(g, w)
            /\ addr \notin {65425, 65428, 65429} => SameTimer(g, w)
<1> DEFINE h == edge_detect_il(g)
           w == tcc1014_mem_write(g, addr, val)
<1>1. w = CASE addr \in 65424 .. 65439 -> tcc1014_write_register(h, addr - 65424, val)
            [] addr \in 65440 .. 65455 -> tcc1014_write_mmu(h, addr - 65440, Number(val))
            [] addr \in 65472 .. 65503 -> tcc1014_write_sam(h, addr - 65472)
            [] OTHER -> tcc1014_snoop_pia1b(h, addr, val)
  BY DEF tcc1014_mem_write
<1>2. Consistent(h) /\ SameTimer(g, h)
  BY ConsistentFields, EdgeTouches, InterruptConsistent
<1>3. UpToDate(w)
  BY Written DEF Consistent
<1> HIDE DEF h, w
<1>4. CASE addr \in 65424 .. 65439
  <2> DEFINE reg == addr - 65424
  <2>1. w = tcc1014_write_register(h, reg, val)
    BY <1>1, <1>4
  <2>2. reg \in 0 .. 15 /\ (addr = 65428 => reg = 4) /\ (addr = 65429 => reg = 5)
        /\ (addr \notin {65425, 65428, 65429} => reg \notin {1, 4, 5})
    BY <1>4
  <2> HIDE DEF reg
  <2>3. Mapped(w) /\ TimerWritten(h, w, reg, val)
    BY <1>2, <2>1, <2>2, ConsistentFields, RegisterMapped DEF Consistent
  <2>4. w.timer_fires = g.timer_fires
    BY <1>2, <2>3 DEF TimerWritten, SameTimer
  <2>5. addr = 65428 => Armed(g, w)
    BY <1>2, <2>2, <2>3 DEF TimerWritten, SameTimer, Armed
  <2>6. addr \notin {65425, 65428, 65429} => SameTimer(g, w)
    BY <1>2, <2>2, <2>3 DEF TimerWritten, SameTimer
  <2>7. addr = 65429 => SameCount(g, w)
    BY <1>2, <2>2, <2>3 DEF TimerWritten, SameTimer, SameCount
  <2> QED
    BY <1>3, <2>3, <2>4, <2>5, <2>6, <2>7 DEF Consistent, w
<1>5. CASE addr \notin 65424 .. 65439
  <2>1. CASE addr \in 65440 .. 65455
    <3> DEFINE bank == Number(val)
               offset == addr - 65440
    <3>1. w = tcc1014_write_mmu(h, offset, bank) /\ offset \in 0 .. 15
      BY <1>1, <2>1
    <3>2. bank \in Nat
      BY FieldType DEF Number
    <3> HIDE DEF bank, offset
    <3>3. Consistent(w) /\ SameTimer(h, w)
      BY <1>2, <3>1, <3>2, MmuMapped
    <3> QED
      BY <1>2, <2>1, <3>3 DEF SameTimer, SameCount, w
  <2>2. CASE addr \in 65472 .. 65503
    <3>1. w = tcc1014_write_sam(h, addr - 65472)
      BY <1>1, <2>2
    <3>2. Consistent(w) /\ SameTimer(h, w)
      BY <1>2, <3>1, SamMapped
    <3> QED
      BY <1>2, <2>2, <3>2 DEF SameTimer, SameCount, w
  <2>3. CASE addr \notin 65440 .. 65455 /\ addr \notin 65472 .. 65503
    <3>1. w = tcc1014_snoop_pia1b(h, addr, val)
      BY <1>1, <1>5, <2>3
    <3>2. Consistent(w) /\ SameTimer(h, w)
      BY <1>2, <3>1, SnoopMapped
    <3>3. addr # 65428 /\ addr # 65429
      BY <1>5
    <3> QED
      BY <1>2, <3>2, <3>3 DEF SameTimer, w
  <2> QED
    BY <2>1, <2>2, <2>3
<1> QED
  BY <1>4, <1>5

\* INIT1, which the CPU writes without the memory cycle.
LEMMA Init1Written ==
  ASSUME NEW g, Consistent(g), NEW val
  PROVE  LET w == tcc1014_write_register(g, 1, val)
         IN Consistent(w) /\ w.timer_fires = g.timer_fires
            /\ IF (5 \in val) # TINS(g) THEN Armed(g, w) ELSE SameTimer(g, w)
<1> DEFINE w == tcc1014_write_register(g, 1, val)
<1>1. Mapped(w) /\ TimerWritten(g, w, 1, val)
  BY ConsistentFields, RegisterMapped DEF Consistent
<1>2. UpToDate(w)
  BY RegisterWritten DEF Consistent
<1> HIDE DEF w
<1> QED
  BY <1>1, <1>2 DEF Consistent, TimerWritten, w

\* A read acknowledges interrupts and nothing else.
LEMMA GimeReadTouches ==
  ASSUME NEW g, DOMAIN g = GimeFields, NEW addr
  PROVE  Touches(g, tcc1014_mem_read(g, addr), InterruptFields)
<1> DEFINE h == edge_detect_il(g)
           i == edge_detect_il(h)
           reg == addr - 65424
<1>1. Touches(g, h, InterruptFields)
  BY EdgeTouches
<1>2. DOMAIN h = GimeFields
  BY <1>1 DEF Touches
<1>3. tcc1014_mem_read(g, addr) = IF addr \in {65426, 65427} THEN tcc1014_read_register(h, reg).g ELSE h
  BY DEF tcc1014_mem_read
<1>4. tcc1014_read_register(h, reg) =
        CASE reg = 2 -> [value |-> i.irq_state, g |-> [i EXCEPT !.irq_state = {}, !.IRQ = {}]]
          [] reg = 3 -> [value |-> i.firq_state, g |-> [i EXCEPT !.firq_state = {}, !.FIRQ = {}]]
          [] OTHER -> [value |-> Bits, g |-> h]
  BY DEF tcc1014_read_register
<1>5. Touches(g, i, InterruptFields)
  BY <1>1, <1>2, EdgeTouches, TouchesBoth
<1> HIDE DEF h, i
<1>6. DOMAIN i = GimeFields
  BY <1>5 DEF Touches
<1>7. Touches(i, [i EXCEPT !.irq_state = {}, !.IRQ = {}], InterruptFields)
      /\ Touches(i, [i EXCEPT !.firq_state = {}, !.FIRQ = {}], InterruptFields)
  BY <1>6, FieldsAre DEF Touches, InterruptFields
<1>8. Touches(g, [i EXCEPT !.irq_state = {}, !.IRQ = {}], InterruptFields)
      /\ Touches(g, [i EXCEPT !.firq_state = {}, !.FIRQ = {}], InterruptFields)
  BY <1>5, <1>7, TouchesBoth
<1>9. CASE addr = 65426
  <2>1. reg = 2
    BY <1>9
  <2>2. tcc1014_read_register(h, reg).g = [i EXCEPT !.irq_state = {}, !.IRQ = {}]
    BY <1>4, <2>1
  <2> QED
    BY <1>3, <1>8, <1>9, <2>2
<1>10. CASE addr = 65427
  <2>1. reg = 3
    BY <1>10
  <2>2. tcc1014_read_register(h, reg).g = [i EXCEPT !.firq_state = {}, !.FIRQ = {}]
    BY <1>4, <2>1
  <2> QED
    BY <1>3, <1>8, <1>10, <2>2
<1>11. CASE addr \notin {65426, 65427}
  BY <1>1, <1>3, <1>11
<1> QED
  BY <1>9, <1>10, <1>11

\* A reset, and the RAM that the machine fits.
LEMMA GimeReset ==
  ASSUME NEW g, NEW pages \in Nat \ {0}
  PROVE  LET w == tcc1014_set_ram(tcc1014_reset(g), pages)
         IN /\ Consistent(w) /\ w.timer_fires = g.timer_fires
            /\ w.timer_counter = 0 /\ w.timer_left_x2 = 0
<1> DEFINE mmu == [i \in 0 .. 15 |-> 56 + (i % 8)]
           z == [tcc1014_init EXCEPT !.mmu_bank = mmu, !.ram_pages = g.ram_pages,
                                     !.B = g.B, !.timer_fires = g.timer_fires]
           b == tcc1014_update_active_banks(z)
           r == tcc1014_reset(g)
           s == [r EXCEPT !.ram_pages = pages, !.vram_base = 0]
           w == tcc1014_set_ram(r, pages)
<1>1. r = update_from_gime_registers(b)
  BY Zenon DEF tcc1014_reset
<1>2. UpToDate(r)
  BY ResetUpToDate
<1>3. DOMAIN mmu = 0 .. 15 /\ \A i \in 0 .. 15 : mmu[i] \in Nat
  <2>1. \A i \in 0 .. 15 : i % 8 \in 0 .. 7
    BY ModRange
  <2> QED
    BY <2>1
<1> HIDE DEF mmu
<1>4. DOMAIN z = GimeFields /\ z.mmu_bank = mmu /\ z.timer_fires = g.timer_fires
      /\ z.timer_counter = 0 /\ z.timer_left_x2 = 0
  BY FieldsAre DEF GimeFields, tcc1014_init
<1>5. w = tcc1014_update_active_banks(s)
  BY Zenon DEF tcc1014_set_ram
<1> HIDE DEF z, r, w
<1>6. DOMAIN b = GimeFields /\ b.mmu_bank = mmu /\ b.timer_fires = g.timer_fires
      /\ b.timer_counter = 0 /\ b.timer_left_x2 = 0
  <2> DEFINE banks == [i \in 0 .. 7 |-> BankOf(z, i)]
             y == [z EXCEPT !.active_banks = banks]
             page(i) == IF y.ram_pages = 0 THEN NoPage ELSE y.active_banks[i] % y.ram_pages
             wr == [i \in 0 .. 7 |-> page(i)]
             rd == [i \in 0 .. 7 |-> IF TY(y) \/ y.active_banks[i] % 64 < 60 THEN page(i) ELSE NoPage]
  <2>1. b = [y EXCEPT !.wr_page = wr, !.rd_page = rd]
    BY Zenon DEF tcc1014_update_active_banks, update_fast_pages
  <2> HIDE DEF banks, wr, rd
  <2> QED
    BY <1>4, <2>1, FieldsAre
<1> HIDE DEF b
<1>7. Touches(b, r, {"video"})
  BY <1>1, <1>6, VideoTouches
<1>8. DOMAIN r = GimeFields /\ r.mmu_bank = mmu /\ r.timer_fires = g.timer_fires
      /\ r.timer_counter = 0 /\ r.timer_left_x2 = 0
  BY <1>6, <1>7, FieldsAre DEF Touches
<1>9. Touches(r, s, {"ram_pages", "vram_base"}) /\ s.ram_pages = pages
  BY <1>8, FieldsAre DEF Touches
<1> HIDE DEF s
<1>10. DOMAIN s = GimeFields /\ s.mmu_bank = mmu /\ s.timer_fires = g.timer_fires
      /\ s.timer_counter = 0 /\ s.timer_left_x2 = 0
  BY <1>8, <1>9, FieldsAre DEF Touches
<1>11. MapInputs(s)
  BY <1>3, <1>9, <1>10 DEF MapInputs
<1>12. Mapped(w) /\ Touches(s, w, {"active_banks", "rd_page", "wr_page"})
  BY <1>5, <1>10, <1>11, BanksMapped
<1>13. Touches(r, w, {"ram_pages", "vram_base"} \cup {"active_banks", "rd_page", "wr_page"})
  BY <1>9, <1>12, TouchesBoth
<1>14. UpToDate(w)
  BY <1>2, <1>13, VideoUntouched
<1>15. w.timer_fires = g.timer_fires /\ w.timer_counter = 0 /\ w.timer_left_x2 = 0
  BY <1>10, <1>12, FieldsAre DEF Touches
<1> QED
  BY <1>12, <1>14, <1>15 DEF Consistent, w, r
=============================================================================

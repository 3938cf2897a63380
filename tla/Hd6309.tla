------------------------------- MODULE Hd6309 -------------------------------
(***************************************************************************)
(* The HD6309's own instructions (hd6309_ops.h): register-to-register        *)
(* arithmetic, bit operations, TFM, division, and pages 1 to 3.  Each page   *)
(* operator gives the next machine, or traps on an opcode it does not know. *)
(***************************************************************************)
EXTENDS CpuState

\* NEG COM LSR ROR ASR ASL ROL DEC INC TST CLR on v, by the opcode's low nibble.
Unary(cc, sub, v, width) ==
  LET top == 2^(width - 1)
      C == Ones("C" \in cc)
      half == v \div 2
      twice == (2 * v) % 2^width
      Result(r, flags) == [r |-> r, cc |-> flags]
      Right(r) == Result(r, CC_PUT(update_nz(cc, r, width), "C", v % 2 = 1))
      Left(r) == Result(r, CC_PUT(CC_PUT(update_nz(cc, r, width), "C", v >= top),
                                  "V", (v >= top) # (twice >= top)))
      Count(r, edge) == Result(r, CC_PUT(update_nz(cc, r, width), "V", v = edge))
  IN CASE sub = 0 -> Minus(cc, 0, v, 0, width)
       [] sub = 3 -> LET r == 2^width - 1 - v IN Result(r, h_logic(cc, r, width) \cup {"C"})
       [] sub = 4 -> Right(half)
       [] sub = 6 -> Right(half + C * top)
       [] sub = 7 -> Right(half + (IF v >= top THEN top ELSE 0))
       [] sub = 8 -> Left(twice)
       [] sub = 9 -> Left(twice + C)
       [] sub = \hA -> Count((v - 1) % 2^width, top)
       [] sub = \hC -> Count((v + 1) % 2^width, top - 1)
       [] sub = \hD -> Result(v, h_logic(cc, v, width))
       [] sub = \hF -> Result(0, (cc \ {"N", "V", "C"}) \cup {"Z"})

\* A register takes a result, the machine its flags.
Take(m, r, res) == [Set(m, r, res.r) EXCEPT !.cc = res.cc]
Loaded(m, r, v) == LET width == IF r \in Wide THEN 16 ELSE 8
                   IN [Set(m, r, v) EXCEPT !.cc = h_logic(@, v, width)]
FlagsOf(m, res) == [m EXCEPT !.cc = res.cc]

\* Opcode bits 5-4
H_MODE(opcode) == <<"immediate", "direct", "indexed", "extended">>[((opcode \div 16) % 4) + 1]
h_ea(m, opcode, size) == Ea(m, H_MODE(opcode), size)

-----------------------------------------------------------------------------
(* TFR and EXG.                                                             *)

Codes == <<"d", "x", "y", "u", "s", "pc", "w", "v", "a", "b", "cc", "dp", "zero", "zero", "e", "f">>
Coded(code) == Codes[code + 1]

\* An 8-bit source is on both halves of the bus.
h_tfr_read(m, code) ==
  LET r == Coded(code)
  IN IF r = "zero" THEN 0 ELSE IF r \in Wide THEN Get(m, r) ELSE Get(m, r) * 257

\* A, DP and E take the high half; S arms NMI.
h_tfr_write(m, code, val) ==
  LET r == Coded(code)
  IN CASE r = "zero" -> m
       [] r \in {"a", "dp", "e"} -> Set(m, r, val \div 256)
       [] r = "s" -> [Set(m, r, val) EXCEPT !.nmi_armed = TRUE]
       [] OTHER -> Set(m, r, val)

\* The MC6809's: 8-bit registers read as they are, codes 6 7 C-F as FF and never written.
Unknown == {"w", "v", "zero", "e", "f"}
tfr_read_reg(m, code) == IF Coded(code) \in Unknown THEN 255 ELSE Get(m, Coded(code))
tfr_write_reg(m, code, val) == IF Coded(code) \in Unknown THEN m ELSE Set(m, Coded(code), val)

-----------------------------------------------------------------------------
(* ADDR ADCR SUBR SBCR ANDR ORR EORR CMPR: the destination's width decides.  *)

Arith(cc, op, a, b, width) ==
  LET c == Ones("C" \in cc)
      Logic(r) == [r |-> r, cc |-> h_logic(cc, r, width)]
  IN CASE op < 2 -> Plus(cc, a, b, op * c, width)
       [] op \in {2, 3} -> Minus(cc, a, b, (op - 2) * c, width)
       [] op \in 4 .. 6 -> Logic(CASE op = 4 -> AndBits(a, b) [] op = 5 -> OrBits(a, b) [] op = 6 -> XorBits(a, b))
       [] op = 7 -> [Minus(cc, a, b, 0, width) EXCEPT !.r = a]

\* What the source is to a 16-bit destination, and to an 8-bit one.
Source16(m, r) ==
  CASE r \in {"a", "b"} -> m.d
    [] r \in {"e", "f"} -> m.w
    [] r = "dp" -> m.dp * 256
    [] r = "zero" -> 0
    [] OTHER -> Get(m, r)
Source8(m, r) == IF r = "zero" THEN 0 ELSE Byte(Get(m, r))

\* CC as the destination takes the result over the flags.
Give(m, dst, res) == IF dst = "zero" THEN FlagsOf(m, res) ELSE Set(FlagsOf(m, res), dst, res.r)
Register(m, op, src, dst) ==
  Give(m, dst, IF dst \in Wide THEN Arith(m.cc, op, m[dst], Source16(m, src), 16)
               ELSE Arith(m.cc, op, Source8(m, dst), Source8(m, src), 8))
h_reg_reg(m, op) == Register(Skip(m, 1), op % 8, Coded(Operand8(m) \div 16), Coded(Operand8(m) % 16))

-----------------------------------------------------------------------------
(* BAND BIAND BOR BIOR BEOR BIEOR LDBT STBT: postbyte bits 7-6 register,     *)
(* 5-3 source bit, 2-0 destination bit.                                     *)

WithBit(v, n, bit) == v + (bit - Bit(v, n)) * 2^n
BitOut(op, s, d) ==
  <<s * d, (1 - s) * d, s + d - s * d, (1 - s) + d - (1 - s) * d, (s + d) % 2, (1 - s + d) % 2, s>>[op + 1]
BitReg == <<"cc", "a", "b", "cc">>
\* The fourth register reads as 0; what is written to it goes to CC.
OnBit(m, ea, op, code, from, to, mem, reg) ==
  IF op = 7 THEN mem_write(m, ea, WithBit(mem, to, Bit(reg, from)))
  ELSE Set(m, BitReg[code], WithBit(Get(m, BitReg[code]), to, BitOut(op, Bit(mem, from), Bit(reg, to))))
BitAt(at, op, postbyte) ==
  LET code == postbyte \div 64 + 1
  IN OnBit(at.m, at.ea, op, code, (postbyte \div 8) % 8, postbyte % 8, mem_read(at.m, at.ea),
           IF code = 4 THEN 0 ELSE Get(at.m, BitReg[code]))
h_bit_op(m, op) == BitAt(addr_direct(Skip(m, 1)), op % 8, Operand8(m))

\* One byte a pass; pc goes back to the instruction (its first prefix byte) until W is 0.
\* m.tfm is tfm_pc while tfm_busy, else -1.
TfmBy == <<<<1, 1>>, <<-1, -1>>, <<1, 0>>, <<0, 1>>>>      \* source and destination
TfmRegs == 0 .. 4                                          \* D X Y U S
Bump(m, r, by) == Set(m, r, m[r] + by)
Move(m, src, dst, by) == Bump(Bump(mem_write(m, m[dst], mem_read(m, m[src])), src, by[1]), dst, by[2])
TfmCount(m, first) == IF m.w = 1 THEN [m EXCEPT !.w = 0, !.cc = @ \cup {"Z"}, !.tfm = -1]
                   ELSE [m EXCEPT !.w = @ - 1, !.pc = first]
TfmPass(m, op, first, sc, dc) ==
  CASE sc \notin TfmRegs \/ dc \notin TfmRegs -> hd6309_trap(m, "IL")
    [] sc \in TfmRegs /\ dc \in TfmRegs /\ m.w = 0 -> [m EXCEPT !.cc = @ \cup {"Z"}, !.tfm = -1]
    [] OTHER -> TfmCount(Move(m, Coded(sc), Coded(dc), TfmBy[op + 1]), first)
TfmBegins(m, first) == IF m.tfm = first THEN m ELSE [m EXCEPT !.cc = @ \ {"Z"}, !.tfm = first]
h_tfm(m, op, first) ==
  TfmPass(TfmBegins(Skip(m, 1), first), op % 4, first, Operand8(m) \div 16, Operand8(m) % 16)

-----------------------------------------------------------------------------
(* Division and multiplication.                                             *)

Magnitude(n) == IF n < 0 THEN -n ELSE n

Remainder(dividend, divisor) ==
  LET r == Magnitude(dividend) % Magnitude(divisor) IN IF dividend < 0 THEN -r ELSE r

\* Signs that differ negate the quotient, but only where that sets its sign bit.
Negates(dividend, divisor, q, width) ==
  /\ (dividend < 0) # (divisor < 0)
  /\ q < 2^(width - 1) /\ (-q) % 2^width >= 2^(width - 1)
Quotient(dividend, divisor, q, width) ==
  IF Negates(dividend, divisor, q, width) THEN (-q) % 2^width ELSE q

\* C is the quotient's bit 0; a sign bit that is not the quotient's is an overflow.
DivideFlags(cc, dividend, divisor, q, width) ==
  LET low == Quotient(dividend, divisor, q, width)
      c == CC_PUT(cc \ {"N", "Z", "V"}, "C", low % 2 = 1)
  IN IF Negates(dividend, divisor, q, width) = (low >= 2^(width - 1))
     THEN update_nz(c, low, width) ELSE c \cup {"N", "V"}
DivideByZero(m) == hd6309_trap([m EXCEPT !.cc = (@ \ {"N", "V"}) \cup {"Z"}], "D0")
\* The registers keep the dividend's magnitude.
RangeOverflow(m, dividend) ==
  [m EXCEPT !.cc = CC_PUT((@ \ {"Z", "C"}) \cup {"V"}, "N", dividend < 0)]

DivideD(m, dividend, divisor, q) ==
  IF q >= 256 THEN RangeOverflow(Set(m, "d", Magnitude(dividend)), dividend)
  ELSE [m EXCEPT !.d = Byte(Remainder(dividend, divisor)) * 256 + Quotient(dividend, divisor, q, 8),
                 !.cc = DivideFlags(@, dividend, divisor, q, 8)]
DivdAt(m, dividend, divisor) ==
  IF divisor = 0 THEN DivideByZero(m)
  ELSE DivideD(m, dividend, divisor, Magnitude(dividend) \div Magnitude(divisor))
h_divd(at) == DivdAt(at.m, Signed(at.m.d, 16), Signed(mem_read(at.m, at.ea), 8))

\* The dividend is D:W.
DivideQ(m, dividend, divisor, q) ==
  IF q >= 65536
  THEN RangeOverflow([m EXCEPT !.d = Word(Magnitude(dividend) \div 65536), !.w = Word(Magnitude(dividend))], dividend)
  ELSE [m EXCEPT !.d = Word(Remainder(dividend, divisor)), !.w = Quotient(dividend, divisor, q, 16),
                 !.cc = DivideFlags(@, dividend, divisor, q, 16)]
DivqAt(m, dividend, divisor) ==
  IF divisor = 0 THEN DivideByZero(m)
  ELSE DivideQ(m, dividend, divisor, Magnitude(dividend) \div Magnitude(divisor))
h_divq(at) == DivqAt(at.m, Signed(at.m.d, 16) * 65536 + at.m.w, Signed(mem_read16(at.m, at.ea), 16))

\* N and Z come from D alone.
Product(m, p) == [m EXCEPT !.d = Word(p \div 65536), !.w = Word(p), !.cc = update_nz(@, Word(p \div 65536), 16)]
h_muld(at) == Product(at.m, Signed(at.m.d, 16) * Signed(mem_read16(at.m, at.ea), 16))

-----------------------------------------------------------------------------
(* The pages.  m is past the opcode.                                        *)

Illegal(m) == hd6309_trap(m, "IL")

\* OIM AIM EIM TIM: memory with immediate, direct, indexed or extended.
ImmediateOf(col, old, imm) ==
  CASE col = 1 -> OrBits(old, imm) [] col = 5 -> XorBits(old, imm) [] OTHER -> AndBits(old, imm)
TestedInto(at, val, keeps) ==
  LET n == [at.m EXCEPT !.cc = h_logic(@, val, 8)] IN IF keeps THEN n ELSE mem_write(n, at.ea, val)
ImmediateAt(at, col, imm) == TestedInto(at, ImmediateOf(col, mem_read(at.m, at.ea), imm), col = \hB)
MemoryImmediate(m, opcode) ==
  ImmediateAt(Ea(Skip(m, 1), IF opcode < 16 THEN "direct" ELSE IF opcode < \h70 THEN "indexed" ELSE "extended", 1),
              opcode % 16, Operand8(m))

hd6309_exec_page1(m, opcode) ==
  CASE opcode \div 16 \in {0, 6, 7} /\ opcode % 16 \in {1, 2, 5, \hB} -> MemoryImmediate(m, opcode)
    [] opcode = \h14 ->                                                       \* SEXW
         [m EXCEPT !.d = IF m.w >= 32768 THEN 65535 ELSE 0,
                   !.cc = CC_PUT(CC_PUT(@, "N", m.w >= 32768), "Z", m.w = 0)]
    [] opcode = \hCD ->                                                       \* LDQ #
         [Skip(m, 4) EXCEPT !.d = Operand16(m), !.w = mem_read16(m, m.pc + 2),
                            !.cc = update_nz(@, Operand16(m), 16)]
    [] OTHER -> Illegal(m)

\* LDQ and STQ in memory: N from D, Z from all 32 bits.
QuadFlags(m) == [m EXCEPT !.cc = CC_PUT(CC_PUT(@ \ {"V"}, "N", m.d >= 32768), "Z", m.d = 0 /\ m.w = 0)]
Quad(at, store) ==
  QuadFlags(IF store THEN mem_write16(mem_write16(at.m, at.ea, at.m.d), at.ea + 2, at.m.w)
            ELSE [at.m EXCEPT !.d = mem_read16(at.m, at.ea), !.w = mem_read16(at.m, at.ea + 2)])

\* A memory operand for the register r: 8 or 16 bits wide as r is.
ReadFor(m, r, ea) == IF r \in Wide THEN mem_read16(m, ea) ELSE mem_read(m, ea)
SizeOf(r) == IF r \in Wide THEN 2 ELSE 1
\* LD, ST, and an operation of Arith with the register on the left.
Load(at, r) == Loaded(at.m, r, ReadFor(at.m, r, at.ea))
Stored(m, r, ea, v) ==
  [IF r \in Wide THEN mem_write16(m, ea, v) ELSE mem_write(m, ea, v) EXCEPT !.cc = h_logic(@, v, 8 * SizeOf(r))]
Store(at, r) == Stored(at.m, r, at.ea, Get(at.m, r))
Combine(at, r, op) ==
  Take(at.m, r, Arith(at.m.cc, op, Get(at.m, r), ReadFor(at.m, r, at.ea), 8 * SizeOf(r)))

Ops16 == 2 :> 3 @@ 4 :> 4 @@ 8 :> 6 @@ 9 :> 1 @@ \hA :> 5
\* SUBW CMPW ADDW, SBCD ANDD EORD ADCD ORD, BITD, LDW STW: 16 bits of memory.
Wide16(at, col) ==
  CASE col \in {0, 1, \hB} -> Combine(at, "w", (0 :> 2 @@ 1 :> 7 @@ \hB :> 0)[col])
    [] col \in DOMAIN Ops16 -> Combine(at, "d", Ops16[col])
    [] col = 5 -> [at.m EXCEPT !.cc = Combine(at, "d", 4).cc]
    [] col = 6 -> Load(at, "w")
    [] col = 7 -> Store(at, "w")
hd6309_exec_page2(m, opcode) ==
  LET row == opcode \div 16
      col == opcode % 16
  IN CASE row = 3 /\ col < 8 -> h_reg_reg(m, opcode)
       [] opcode = \h38 -> PushAll(m, "s", <<"f", "e">>)
       [] opcode = \h39 -> PullAll(m, "s", <<"e", "f">>)
       [] opcode = \h3A -> PushAll(m, "u", <<"f", "e">>)
       [] opcode = \h3B -> PullAll(m, "u", <<"e", "f">>)
       [] row = 4 /\ col \in {0, 3, 4, 6, 7, 8, 9, \hA, \hC, \hD, \hF} -> Take(m, "d", Unary(m.cc, col, m.d, 16))
       [] row = 5 /\ col \in {3, 4, 6, 9, \hA, \hC, \hD, \hF} -> Take(m, "w", Unary(m.cc, col, m.w, 16))
       [] row \in 8 .. \hB /\ col < \hC /\ col # 3 /\ (col = 7 => row > 8) ->
            Wide16(h_ea(m, opcode, 2), col)
       [] row \in \hD .. \hF /\ col \in {\hC, \hD} -> Quad(h_ea(m, opcode, 4), opcode % 2 = 1)
       [] OTHER -> Illegal(m)

\* Bits of MD: NM 0, FM 1, IL 6, D0 7.
MdBits(byte, bits) ==
  {b \in bits : Bit(byte, ("NM" :> 0 @@ "FM" :> 1 @@ "IL" :> 6 @@ "D0" :> 7)[b]) = 1}

\* SUB CMP ADD LD ST of E or F, DIVD DIVQ MULD.
MemoryCols(row) ==
  {0, 1, 6, \hB} \cup (IF row % 4 = 0 THEN {} ELSE {7}) \cup (IF row < \hC THEN {\hD, \hE, \hF} ELSE {})
Memory3(at, half, col) ==
  CASE col \in {0, 1, \hB} -> Combine(at, half, (0 :> 2 @@ 1 :> 7 @@ \hB :> 0)[col])
    [] col = 6 -> Load(at, half)
    [] col = 7 -> Store(at, half)
    [] col = \hD -> h_divd(at)
    [] col = \hE -> h_divq(at)
    [] col = \hF -> h_muld(at)
hd6309_exec_page3(m, opcode, insn_pc) ==
  LET row == opcode \div 16
      col == opcode % 16
      named(bits) == MdBits(Operand8(m), bits)
  IN CASE row = 3 /\ col < 8 -> h_bit_op(m, opcode)
       [] row = 3 /\ col \in 8 .. \hB -> h_tfm(m, opcode, insn_pc)
       [] opcode = \h3C -> [Skip(m, 1) EXCEPT                                  \* BITMD
            !.cc = CC_PUT(@, "Z", m.md \cap named({"IL", "D0"}) = {}), !.md = @ \ named({"IL", "D0"})]
       [] opcode = \h3D -> [Skip(m, 1) EXCEPT                                  \* LDMD
            !.md = (@ \ {"NM", "FM"}) \cup named({"NM", "FM"})]
       [] row \in {4, 5} /\ col \in {3, \hA, \hC, \hD, \hF} ->
            LET r == IF row = 4 THEN "e" ELSE "f" IN Take(m, r, Unary(m.cc, col, Get(m, r), 8))
       [] row >= 8 /\ col \in MemoryCols(row) ->
            Memory3(h_ea(m, opcode, IF col > \hD THEN 2 ELSE 1), IF row >= \hC THEN "f" ELSE "e", col)
       [] OTHER -> Illegal(m)
=============================================================================

------------------------------ MODULE CpuState ------------------------------
(***************************************************************************)
(* What an instruction of the CPU core works on (mc6809_core_impl.h, lines  *)
(* up to the opcode switches): the registers, memory, the two stacks, the   *)
(* flags of the adder and the addressing modes.  A machine m is a record;   *)
(* an operator takes one and gives the next.  m.hd tells the HD6309 build   *)
(* from the MC6809 build.  Cycle counts are left out.  mem holds the bytes   *)
(* that differ from 0; which chip answers an address is Machine's.          *)
(***************************************************************************)
EXTENDS Integers, Sequences, SequencesExt, TLC
LOCAL INSTANCE Bitwise

Word(n) == n % 65536
Byte(n) == n % 256
Bit(v, n) == (v \div 2^n) % 2
Ones(p) == IF p THEN 1 ELSE 0
AndBits(v, w) == v & w
OrBits(v, w) == v | w
XorBits(v, w) == v ^^ w

\* int8_t, int16_t
Signed(v, width) == IF v >= 2^(width - 1) THEN v - 2^width ELSE v

-----------------------------------------------------------------------------
(* The condition codes, as a set of flags and as the byte a stack holds.    *)

Flags == <<"C", "V", "Z", "N", "I", "H", "F", "E">>
CcByte(cc) == FoldLeft(LAMBDA n, i : n + (IF Flags[i] \in cc THEN 2^(i - 1) ELSE 0), 0, [i \in 1 .. 8 |-> i])
CcSet(byte) == {Flags[i] : i \in {j \in 1 .. 8 : Bit(byte, j - 1) = 1}}
CC_PUT(cc, flag, on) == IF on THEN cc \cup {flag} ELSE cc \ {flag}

update_nz(cc, r, width) == CC_PUT(CC_PUT(cc, "N", r >= 2^(width - 1)), "Z", r = 0)

\* AND, OR, EOR, LD, ST: N, Z and V = 0.
h_logic(cc, r, width) == update_nz(cc, r, width) \ {"V"}

Top2(v, width) == v >= 2^(width - 1)

\* A result r and the flags it leaves.
Added(cc, a, b, carry, width) ==
  LET r == (a + b + carry) % 2^width
      V == Top2(a, width) # Top2(r, width) /\ Top2(b, width) # Top2(r, width)
  IN [r |-> r, cc |-> CC_PUT(CC_PUT(update_nz(cc, r, width), "V", V), "C", a + b + carry >= 2^width)]
Subtracted(cc, a, b, carry, width) ==
  LET r == (a - b - carry) % 2^width
      V == Top2(a, width) # Top2(b, width) /\ Top2(a, width) # Top2(r, width)
  IN [r |-> r, cc |-> CC_PUT(CC_PUT(update_nz(cc, r, width), "V", V), "C", a - b - carry < 0)]

\* H, N, Z, V, C
op_add8(cc, a, b, carry) ==
  LET s == Added(cc, a, b, carry, 8)
  IN [s EXCEPT !.cc = CC_PUT(s.cc, "H", (Bit(a, 4) + Bit(b, 4) + Bit(s.r, 4)) % 2 = 1)]
\* Mutant: V looks only at the operands' signs.
OperandSignsOnly(cc, a, b, carry) ==
  LET s == Subtracted(cc, a, b, carry, 8)
  IN [s EXCEPT !.cc = CC_PUT(s.cc, "V", Top2(a, 8) # Top2(b, 8))]
\* N, Z, V, C; H is kept.
op_sub8(cc, a, b, carry) == Subtracted(cc, a, b, carry, 8)
\* 16 bits: op_add16() and op_sub16() are these with no carry; H is kept.
h_add16c(cc, a, b, carry) == Added(cc, a, b, carry, 16)
h_sub16c(cc, a, b, carry) == Subtracted(cc, a, b, carry, 16)
Plus(cc, a, b, carry, width) ==
  IF width = 8 THEN op_add8(cc, a, b, carry) ELSE h_add16c(cc, a, b, carry)
Minus(cc, a, b, carry, width) ==
  IF width = 8 THEN op_sub8(cc, a, b, carry) ELSE h_sub16c(cc, a, b, carry)

-----------------------------------------------------------------------------
(* Memory, registers and stacks.                                            *)

mem_read(m, a) == IF Word(a) \in DOMAIN m.mem THEN m.mem[Word(a)] ELSE 0
mem_write(m, a, v) == [m EXCEPT !.mem = (Word(a) :> v) @@ m.mem]
mem_read16(m, a) == mem_read(m, a) * 256 + mem_read(m, a + 1)
mem_write16(m, a, v) == mem_write(mem_write(m, a, v \div 256), a + 1, Byte(v))

\* fetch8() and fetch16() are a read at pc and a Skip.
Skip(m, n) == [m EXCEPT !.pc = Word(m.pc + n)]
Operand8(m) == mem_read(m, m.pc)
Operand16(m) == mem_read16(m, m.pc)

Halves == "a" :> "d" @@ "b" :> "d" @@ "e" :> "w" @@ "f" :> "w"
Wide == {"d", "w", "x", "y", "u", "s", "pc", "v"}

\* GET_A() ... SET_F(); the flags are read and written as their byte.
Get(m, r) ==
  CASE r \in {"a", "e"} -> m[Halves[r]] \div 256
    [] r \in {"b", "f"} -> Byte(m[Halves[r]])
    [] r = "cc" -> CcByte(m.cc)
    [] OTHER -> m[r]
Set(m, r, v) ==
  CASE r \in {"a", "e"} -> [m EXCEPT ![Halves[r]] = Byte(v) * 256 + Byte(@)]
    [] r \in {"b", "f"} -> [m EXCEPT ![Halves[r]] = (@ \div 256) * 256 + Byte(v)]
    [] r = "cc" -> [m EXCEPT !.cc = CcSet(Byte(v))]
    [] r = "dp" -> [m EXCEPT !.dp = Byte(v)]
    [] OTHER -> [m EXCEPT ![r] = Word(v)]

\* The stack pointer sp is "s" or "u"; a wide register goes low byte first.
push8(m, sp, v) == LET p == Word(m[sp] - 1) IN mem_write([m EXCEPT ![sp] = p], p, v)
push16(m, sp, v) == push8(push8(m, sp, Byte(v)), sp, v \div 256)
Push(m, sp, r) == IF r \in Wide THEN push16(m, sp, Get(m, r)) ELSE push8(m, sp, Get(m, r))
Pull(m, sp, r) ==
  IF r \in Wide
  THEN Set([m EXCEPT ![sp] = Word(@ + 2)], r, mem_read16(m, m[sp]))
  ELSE Set([m EXCEPT ![sp] = Word(@ + 1)], r, mem_read(m, m[sp]))
PushAll(m, sp, rs) == FoldLeft(LAMBDA n, r : Push(n, sp, r), m, rs)
PullAll(m, sp, rs) == FoldLeft(LAMBDA n, r : Pull(n, sp, r), m, rs)

\* The registers a postbyte names, the one of bit 7 first; sp itself is never one.
Named(postbyte, sp) ==
  LET rs == <<"pc", IF sp = "s" THEN "u" ELSE "s", "y", "x", "dp", "b", "a", "cc">>
      is == SelectSeq(<<1, 2, 3, 4, 5, 6, 7, 8>>, LAMBDA i : Bit(postbyte, 8 - i) = 1)
  IN [i \in DOMAIN is |-> rs[is[i]]]
do_psh(m, sp, postbyte) == PushAll(m, sp, Named(postbyte, sp))
do_pul(m, sp, postbyte) == PullAll(m, sp, Reverse(Named(postbyte, sp)))

\* The entire state, with E and F between DP and B in native mode.
NATIVE(m) == m.hd /\ "NM" \in m.md
EntireState(m) ==
  <<"pc", "u", "y", "x", "dp">> \o (IF NATIVE(m) THEN <<"f", "e">> ELSE <<>>) \o <<"b", "a", "cc">>

\* SWI, SWI2, SWI3, a trap: everything with E set, then the masks, then the vector.
SoftwareEntry(m, masks, vector) ==
  LET n == PushAll([m EXCEPT !.cc = @ \cup {"E"}], "s", EntireState(m))
  IN [n EXCEPT !.cc = @ \cup masks, !.pc = mem_read16(n, vector)]

VEC_TRAP == \hFFF0
VEC_SWI3 == \hFFF2
VEC_SWI2 == \hFFF4
VEC_SWI == \hFFFA

\* The caller names the mode bit: IL or D0.
hd6309_trap(m, md_bit) ==
  SoftwareEntry([m EXCEPT !.md = @ \cup {md_bit}, !.tfm = -1], {"I", "F"}, VEC_TRAP)

-----------------------------------------------------------------------------
(* Addressing: the effective address and the machine after the operand      *)
(* bytes, and after the mode's own change of its register.                  *)

At(m, ea) == [m |-> m, ea |-> Word(ea)]
addr_direct(m) == At(Skip(m, 1), m.dp * 256 + Operand8(m))
addr_extended(m) == At(Skip(m, 2), Operand16(m))

\* Bits 6-5
idx_reg(postbyte) == <<"x", "y", "u", "s">>[((postbyte \div 32) % 4) + 1]

\* ,R+  ,R++  ,-R  ,--R: the address is the register before a step up, after one down.
Stepped(m, reg, by) == At(Set(m, reg, m[reg] + by), IF by < 0 THEN m[reg] + by ELSE m[reg])

\* ,W  n16,W  ,W++  ,--W
WIndexed(m, postbyte) ==
  CASE (postbyte \div 32) % 4 = 0 -> At(m, m.w)
    [] (postbyte \div 32) % 4 = 1 -> At(Skip(m, 2), m.w + Operand16(m))
    [] (postbyte \div 32) % 4 = 2 -> Stepped(m, "w", 2)
    [] OTHER                      -> Stepped(m, "w", -2)

\* The modes of the low nibble, before indirection; an unknown one is ,R.
Indexed(m, reg, mode, indirect) ==
  CASE mode < 4 -> Stepped(m, reg, <<1, 2, -1, -2>>[mode + 1])
    [] mode = 5 -> At(m, m[reg] + Signed(Get(m, "b"), 8))
    [] mode = 6 -> At(m, m[reg] + Signed(Get(m, "a"), 8))
    [] mode = 7 /\ m.hd -> At(m, m[reg] + Signed(Get(m, "e"), 8))
    [] mode = 8 -> At(Skip(m, 1), m[reg] + Signed(Operand8(m), 8))
    [] mode = 9 -> At(Skip(m, 2), m[reg] + Operand16(m))
    [] mode = \hA /\ m.hd -> At(m, m[reg] + Signed(Get(m, "f"), 8))
    [] mode = \hB -> At(m, m[reg] + m.d)
    [] mode = \hC -> At(Skip(m, 1), m.pc + 1 + Signed(Operand8(m), 8))
    [] mode = \hD -> At(Skip(m, 2), m.pc + 2 + Operand16(m))
    [] mode = \hE /\ m.hd -> At(m, m[reg] + m.w)
    [] mode = \hF /\ indirect -> At(Skip(m, 2), Operand16(m))
    [] OTHER -> At(m, m[reg])

\* The HD6309's W modes take the place of the unknown mode F and of ,R+ indirect.
OnW(m, postbyte) == m.hd /\ postbyte % 32 \in {\h0F, \h10}
Direct(m, reg, postbyte) ==
  IF postbyte < 128 THEN At(m, m[reg] + Signed(postbyte % 32, 5))
  ELSE IF OnW(m, postbyte) THEN WIndexed(m, postbyte)
  ELSE Indexed(m, reg, postbyte % 16, Bit(postbyte, 4) = 1)

\* Mode F dereferences even without the indirect bit; ,R+ and ,-R never do.
Deref(m, postbyte) ==
  /\ postbyte >= 128
  /\ IF OnW(m, postbyte) THEN Bit(postbyte, 4) = 1
     ELSE postbyte % 16 \notin {0, 2} /\ (Bit(postbyte, 4) = 1 \/ postbyte % 16 = \hF)
Through(at, indirect) == IF indirect THEN At(at.m, mem_read16(at.m, at.ea)) ELSE at
IndexedBy(m, postbyte) == Through(Direct(m, idx_reg(postbyte), postbyte), Deref(m, postbyte))
addr_indexed(m) == IndexedBy(Skip(m, 1), Operand8(m))

\* An operand of an instruction with immediate data is at pc.
Ea(m, mode, size) ==
  CASE mode = "immediate" -> At(Skip(m, size), m.pc)
    [] mode = "direct" -> addr_direct(m)
    [] mode = "indexed" -> addr_indexed(m)
    [] mode = "extended" -> addr_extended(m)

\* Branch conditions 0-F.
eval_branch(cc, cond) ==
  LET C == "C" \in cc
      Z == "Z" \in cc
      V == "V" \in cc
      N == "N" \in cc
      even == <<TRUE, ~(C \/ Z), ~C, ~Z, ~V, ~N, N = V, ~Z /\ N = V>>[cond \div 2 + 1]
  IN IF cond % 2 = 0 THEN even ELSE ~even
=============================================================================

-------------------------------- MODULE Isa ---------------------------------
(***************************************************************************)
(* The instruction set (the opcode switches of mc6809_core_impl.h):         *)
(* execute_one() as an operator from machine to machine.  The source writes *)
(* every addressing mode of every operation out by hand; the rows below     *)
(* keep one operator per row of the opcode table.                           *)
(***************************************************************************)
EXTENDS Hd6309

\* An opcode of page 1 the MC6809 does not have: a NOP there.
Other(m, opcode) == IF m.hd THEN hd6309_exec_page1(m, opcode) ELSE m

-----------------------------------------------------------------------------
(* $00, $40, $50, $60, $70: read-modify-write.                              *)

UnaryCols == {0, 3, 4, 6, 7, 8, 9, \hA, \hC, \hD, \hF}

\* TST writes nothing back.
PutBack(at, res, tests) ==
  IF tests THEN FlagsOf(at.m, res) ELSE mem_write(FlagsOf(at.m, res), at.ea, res.r)
\* JMP is column E.
Rmw(at, col) ==
  IF col = \hE THEN [at.m EXCEPT !.pc = at.ea]
  ELSE PutBack(at, Unary(at.m.cc, col, mem_read(at.m, at.ea), 8), col = \hD)

RmwDirect(m, col) == Rmw(addr_direct(m), col)
InherentA(m, col) == Take(m, "a", Unary(m.cc, col, Get(m, "a"), 8))
InherentB(m, col) == Take(m, "b", Unary(m.cc, col, Get(m, "b"), 8))
RmwIndexed(m, col) == Rmw(addr_indexed(m), col)
RmwExtended(m, col) == Rmw(addr_extended(m), col)

-----------------------------------------------------------------------------
(* $10-$3F.                                                                 *)

\* C is only ever set.
Daa(m) ==
  LET a == Get(m, "a")
      correction == (IF a % 16 > 9 \/ "H" \in m.cc THEN 6 ELSE 0)
                  + (IF a \div 16 > 9 \/ "C" \in m.cc \/ (a \div 16 > 8 /\ a % 16 > 9) THEN 96 ELSE 0)
  IN [Loaded(m, "a", Byte(a + correction)) EXCEPT !.cc = IF a + correction > 255 THEN @ \cup {"C"} ELSE @]

\* The 6809 writes the source's register first, the 6309 the destination's.
Exg(m0) ==
  LET src == Operand8(m0) \div 16
      dst == Operand8(m0) % 16
      m == Skip(m0, 1)
  IN IF m.hd
     THEN h_tfr_write(h_tfr_write(m, dst, h_tfr_read(m, src)), src, h_tfr_read(m, dst))
     ELSE tfr_write_reg(tfr_write_reg(m, src, tfr_read_reg(m, dst)), dst, tfr_read_reg(m, src))
Tfr(m0) ==
  LET src == Operand8(m0) \div 16
      dst == Operand8(m0) % 16
      m == Skip(m0, 1)
  IN IF m.hd THEN h_tfr_write(m, dst, h_tfr_read(m, src))
     ELSE tfr_write_reg(m, dst, tfr_read_reg(m, src))

Jump16(m) == Skip(Skip(m, 2), Operand16(m))
Misc1(m, opcode) ==
  CASE opcode = \h12 -> m                                                      \* NOP
    [] opcode = \h13 -> [m EXCEPT !.wait = TRUE]                               \* SYNC
    [] opcode = \h16 -> Jump16(m)                                              \* LBRA
    [] opcode = \h17 -> [Push(Skip(m, 2), "s", "pc") EXCEPT !.pc = Jump16(m).pc] \* LBSR
    [] opcode = \h19 -> Daa(m)
    [] opcode = \h1A -> [Skip(m, 1) EXCEPT !.cc = @ \cup CcSet(Operand8(m))]   \* ORCC
    [] opcode = \h1C -> [Skip(m, 1) EXCEPT !.cc = @ \cap CcSet(Operand8(m))]   \* ANDCC
    [] opcode = \h1D -> Loaded(m, "d", Get(m, "b") + (IF Get(m, "b") > 127 THEN \hFF00 ELSE 0)) \* SEX
    [] opcode = \h1E -> Exg(m)
    [] opcode = \h1F -> Tfr(m)

\* Where the idle-loop skip looks (HD6309) is IdleLoop's.
ShortBranch(m, cond) ==
  LET n == Skip(m, 1)
  IN IF eval_branch(m.cc, cond) THEN Skip(n, Signed(Operand8(m), 8)) ELSE n

\* Z for X and Y; S arms NMI.
LeaAt(at, r) ==
  [Set(at.m, r, at.ea) EXCEPT !.cc = IF r \in {"x", "y"} THEN CC_PUT(@, "Z", at.ea = 0) ELSE @,
                              !.nmi_armed = @ \/ r = "s"]
Lea(m, col) == LeaAt(addr_indexed(m), <<"x", "y", "s", "u">>[col + 1])

PushPull(m, col) ==
  LET sp == IF col < 6 THEN "s" ELSE "u"
  IN IF col % 2 = 0 THEN do_psh(Skip(m, 1), sp, Operand8(m)) ELSE do_pul(Skip(m, 1), sp, Operand8(m))

\* Mutant: E and F are not pulled back.
RtiWithoutEF(m) ==
  LET n == Pull(m, "s", "cc")
  IN IF "E" \in n.cc THEN PullAll(n, "s", <<"a", "b", "dp", "x", "y", "u", "pc">>) ELSE Pull(n, "s", "pc")
RtiRest(m) == PullAll(m, "s", IF "E" \in m.cc THEN Tail(Reverse(EntireState(m))) ELSE <<"pc">>)
RtiOp(m) == RtiRest(Pull(m, "s", "cc"))

\* The frame an interrupt will need is stacked before the wait.
CwaiOp(m) ==
  [PushAll([Skip(m, 1) EXCEPT !.cc = (@ \cap CcSet(Operand8(m))) \cup {"E"}], "s", EntireState(m))
     EXCEPT !.wait = TRUE, !.cwai = TRUE]

\* C is bit 7 of the product.
Mul(m) ==
  LET r == Get(m, "a") * Get(m, "b")
  IN [m EXCEPT !.d = r, !.cc = CC_PUT(CC_PUT(@, "Z", r = 0), "C", Bit(r, 7) = 1)]

Misc3(m, opcode) ==
  CASE opcode = \h39 -> Pull(m, "s", "pc")                                     \* RTS
    [] opcode = \h3A -> Set(m, "x", m.x + Get(m, "b"))                         \* ABX
    [] opcode = \h3B -> RtiOp(m)
    [] opcode = \h3C -> CwaiOp(m)
    [] opcode = \h3D -> Mul(m)
    [] opcode = \h3F -> SoftwareEntry(m, {"I", "F"}, VEC_SWI)

-----------------------------------------------------------------------------
(* $80-$FF: the accumulator rows.                                           *)

\* The 8-bit columns as operations of Arith; AND for BIT, whose result is dropped.
AluOps == 0 :> 2 @@ 1 :> 7 @@ 2 :> 3 @@ 4 :> 4 @@ 5 :> 4 @@ 8 :> 6 @@ 9 :> 1 @@ \hA :> 5 @@ \hB :> 0
Alu(at, r, col) ==
  CASE col = 5 -> FlagsOf(at.m, Combine(at, r, 4))
    [] col = 6 -> Load(at, r)
    [] col = 7 -> Store(at, r)
    [] OTHER -> Combine(at, r, AluOps[col])

Jsr(at) == [Push(at.m, "s", "pc") EXCEPT !.pc = at.ea]

\* SUBD CMPX JSR LDX STX beside the A columns.
RowA(at, col) ==
  CASE col \in {3, \hC} -> Combine(at, IF col = 3 THEN "d" ELSE "x", IF col = 3 THEN 2 ELSE 7)
    [] col = \hD -> Jsr(at)
    [] col = \hE -> Load(at, "x")
    [] col = \hF -> Store(at, "x")
    [] OTHER -> Alu(at, "a", col)
\* ADDD LDD STD LDU STU beside the B columns.
RowB(at, col) ==
  CASE col = 3 -> Combine(at, "d", 0)
    [] col \in {\hC, \hE} -> Load(at, IF col = \hC THEN "d" ELSE "u")
    [] col \in {\hD, \hF} -> Store(at, IF col = \hD THEN "d" ELSE "u")
    [] OTHER -> Alu(at, "b", col)

\* Bytes of immediate data; $8D is BSR.
DataSize(col) == IF col \in {3, \hC, \hE} THEN 2 ELSE 1
Row8(m, col) ==
  IF col = \hD THEN [Push(Skip(m, 1), "s", "pc") EXCEPT !.pc = Word(m.pc + 1 + Signed(Operand8(m), 8))]
  ELSE RowA(Ea(m, "immediate", DataSize(col)), col)
Row9(m, col) == RowA(addr_direct(m), col)
RowAx(m, col) == RowA(addr_indexed(m), col)
RowBx(m, col) == RowA(addr_extended(m), col)
RowC(m, col) == RowB(Ea(m, "immediate", DataSize(col)), col)
RowD(m, col) == RowB(addr_direct(m), col)
RowE(m, col) == RowB(addr_indexed(m), col)
RowF(m, col) == RowB(addr_extended(m), col)

-----------------------------------------------------------------------------
(* The prefixed pages.                                                      *)

\* The HD6309 skips repeated prefixes; the first one counts.
RECURSIVE PastPrefixes(_)
PastPrefixes(m) == IF m.hd /\ Operand8(m) \in {\h10, \h11} THEN PastPrefixes(Skip(m, 1)) ELSE m

LongBranch(m, cond) == IF eval_branch(m.cc, cond) THEN Jump16(m) ELSE Skip(m, 2)

Cmp16(m, opcode, r) == Combine(h_ea(m, opcode, 2), r, 7)
CmpdCmpy(m, opcode) == Cmp16(m, opcode, IF opcode % 16 = 3 THEN "d" ELSE "y")
Ldy(m, opcode) == Load(h_ea(m, opcode, 2), "y")
Sty(m, opcode) == Store(h_ea(m, opcode, 2), "y")
\* The first load of S arms NMI.
Lds(m, opcode) == [Load(h_ea(m, opcode, 2), "s") EXCEPT !.nmi_armed = TRUE]
Sts(m, opcode) == Store(h_ea(m, opcode, 2), "s")

\* m is past the opcode.
Page2(m, opcode) ==
  LET row == opcode \div 16
      col == opcode % 16
  IN CASE row = 2 /\ (~m.hd \/ col > 0) -> LongBranch(m, col)
       [] opcode = \h3F -> SoftwareEntry(m, {}, VEC_SWI2)
       [] row \in 8 .. \hB /\ col \in {3, \hC} -> CmpdCmpy(m, opcode)
       [] row \in 8 .. \hB /\ col = \hE -> Ldy(m, opcode)
       [] row \in 9 .. \hB /\ col = \hF -> Sty(m, opcode)
       [] row \in \hC .. \hF /\ col = \hE -> Lds(m, opcode)
       [] row \in \hD .. \hF /\ col = \hF -> Sts(m, opcode)
       [] OTHER -> IF m.hd THEN hd6309_exec_page2(m, opcode) ELSE m
Prefixed2(m) == Page2(Skip(m, 1), Operand8(m))
execute_page2(m) == Prefixed2(PastPrefixes(m))

CmpuCmps(m, opcode) == Cmp16(m, opcode, IF opcode % 16 = 3 THEN "u" ELSE "s")

Page3(m, opcode, first) ==
  LET row == opcode \div 16
      col == opcode % 16
  IN CASE opcode = \h3F -> SoftwareEntry(m, {}, VEC_SWI3)
       [] row \in 8 .. \hB /\ col \in {3, \hC} -> CmpuCmps(m, opcode)
       [] OTHER -> IF m.hd THEN hd6309_exec_page3(m, opcode, first) ELSE m
Prefixed3(m, first) == Page3(Skip(m, 1), Operand8(m), first)
execute_page3(m) == Prefixed3(PastPrefixes(m), Word(m.pc - 1))

\* The opcodes the MC6809 does not have.
Undefined(opcode) ==
  LET row == opcode \div 16
      col == opcode % 16
  IN \/ row \in {0, 6, 7} /\ col \notin UnaryCols \cup {\hE}
     \/ row \in {4, 5} /\ col \notin UnaryCols
     \/ opcode \in {\h14, \h15, \h18, \h1B, \h38, \h3E, \h87, \h8F, \hC7, \hCD, \hCF}

\* The others.
Execute(m, opcode) ==
  LET row == opcode \div 16
      col == opcode % 16
  IN CASE row = 0 -> RmwDirect(m, col)
       [] opcode = \h10 -> execute_page2(m)
       [] opcode = \h11 -> execute_page3(m)
       [] opcode \in \h12 .. \h1F -> Misc1(m, opcode)
       [] row = 2 -> ShortBranch(m, col)
       [] row = 3 /\ col < 4 -> Lea(m, col)
       [] row = 3 /\ col \in 4 .. 7 -> PushPull(m, col)
       [] row = 3 /\ col > 7 -> Misc3(m, opcode)
       [] row = 4 -> InherentA(m, col)
       [] row = 5 -> InherentB(m, col)
       [] row = 6 -> RmwIndexed(m, col)
       [] row = 7 -> RmwExtended(m, col)
       [] row = 8 -> Row8(m, col)
       [] row = 9 -> Row9(m, col)
       [] row = \hA -> RowAx(m, col)
       [] row = \hB -> RowBx(m, col)
       [] row = \hC -> RowC(m, col)
       [] row = \hD -> RowD(m, col)
       [] row = \hE -> RowE(m, col)
       [] row = \hF -> RowF(m, col)
Decode(m, opcode) == IF Undefined(opcode) THEN Other(m, opcode) ELSE Execute(m, opcode)
execute_one(m) == Decode(Skip(m, 1), Operand8(m))
=============================================================================

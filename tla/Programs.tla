------------------------------ MODULE Programs ------------------------------
(***************************************************************************)
(* Short programs on the core of Isa, and what each must leave behind: the  *)
(* meaning of an operation in every addressing mode, of a comparison and    *)
(* the branch after it, of arithmetic chained over bytes and digits, of     *)
(* everything that is put on a stack and taken off again, and of division.  *)
(* A test is loaded at CODE; one step runs one instruction, and between     *)
(* stacking and unstacking other code runs that changes every register.     *)
(***************************************************************************)
EXTENDS Isa

CONSTANTS
  Bytes,      \* bound: 8-bit operands
  Words,      \* bound: 16-bit operands
  Postbytes   \* bound: PSH/PUL postbytes

VARIABLES
  m,          \* the machine
  test,       \* the test being run, with the machine it started from
  left        \* what is left of it: a sequence of "run" and "other"

pvars == <<m, test, left>>

CODE == \h1000
HANDLER == \h1800
DATA == \h2010

Machine(hd, code, cc) ==
  [hd |-> hd, pc |-> CODE, d |-> \h1234, w |-> \h5678, x |-> DATA, y |-> DATA - 1,
   u |-> \h4000, s |-> \h5000, v |-> \h9ABC, dp |-> \h20, cc |-> cc, md |-> {},
   nmi_armed |-> TRUE, wait |-> FALSE, cwai |-> FALSE, tfm |-> -1,
   mem |-> [a \in CODE .. CODE + Len(code) - 1 |-> code[a - CODE + 1]]]

Low(v) == Byte(v)
High(v) == v \div 256
Bytes2(v) == <<High(v), Low(v)>>

\* The machine with the value v (size bytes) where each mode finds its operand, and
\* the operand's bytes in the code.
Modes4 == {"immediate", "direct", "indexed", "extended"}
ModeStep == "immediate" :> 0 @@ "direct" :> 16 @@ "indexed" :> 32 @@ "extended" :> 48
OperandBytes(mode, v, size) ==
  CASE mode = "immediate" -> IF size = 1 THEN <<v>> ELSE Bytes2(v)
    [] mode = "direct" -> <<Low(DATA)>>
    [] mode = "indexed" -> <<\h84>>                 \* ,X
    [] mode = "extended" -> Bytes2(DATA)
WithData(n, v, size) == IF size = 1 THEN mem_write(n, DATA, v) ELSE mem_write16(n, DATA, v)

-----------------------------------------------------------------------------
(* One operation: op of Arith on a register and an operand, every opcode    *)
(* that has it.  [pre, op, r, f]: prefix, immediate opcode, register, what. *)

O(pre, op, r, f, hd) == [pre |-> pre, op |-> op, r |-> r, f |-> f, hd |-> hd]
AccumulatorOps ==
  {O(<<>>, x[1] + (IF r = "b" THEN \h40 ELSE 0), r, x[2], FALSE) :
     x \in {<<\h80, "sub">>, <<\h81, "cmp">>, <<\h82, "sbc">>, <<\h84, "and">>, <<\h88, "eor">>,
            <<\h89, "adc">>, <<\h8A, "or">>, <<\h8B, "add">>}, r \in {"a", "b"}}
WideOps ==
  { O(<<>>, \h83, "d", "sub", FALSE), O(<<>>, \hC3, "d", "add", FALSE), O(<<>>, \h8C, "x", "cmp", FALSE),
    O(<<\h10>>, \h83, "d", "cmp", FALSE), O(<<\h10>>, \h8C, "y", "cmp", FALSE),
    O(<<\h11>>, \h83, "u", "cmp", FALSE), O(<<\h11>>, \h8C, "s", "cmp", FALSE) }
Hd6309Ops ==
  { O(<<\h10>>, \h80, "w", "sub", TRUE), O(<<\h10>>, \h81, "w", "cmp", TRUE), O(<<\h10>>, \h8B, "w", "add", TRUE),
    O(<<\h10>>, \h82, "d", "sbc", TRUE), O(<<\h10>>, \h89, "d", "adc", TRUE), O(<<\h10, \h11>>, \h88, "d", "eor", TRUE),
    O(<<\h11>>, \h80, "e", "sub", TRUE), O(<<\h11>>, \hC1, "f", "cmp", TRUE), O(<<\h11>>, \hCB, "f", "add", TRUE) }
Width(r) == 8 * SizeOf(r)
Values(r) == IF r \in Wide THEN Words ELSE Bytes

\* op_ea is "indexed" on X, so CMPX ,X compares X with what it points at.
OpStart(t) ==
  LET o == t.o
      n == Machine(o.hd, o.pre \o <<o.op + ModeStep[t.mode]>> \o OperandBytes(t.mode, t.b, SizeOf(o.r)), t.cc)
  IN WithData(Set(n, o.r, t.a), t.b, SizeOf(o.r))
OpTests ==
  UNION {[kind : {"op"}, o : {o}, mode : Modes4 \ (IF o.r = "x" THEN {"indexed"} ELSE {}),
          a : Values(o.r), b : Values(o.r), cc : {{}, {"C", "H", "V"}}] :
         o \in AccumulatorOps \cup WideOps \cup Hd6309Ops}

\* One operand, in a register or in memory: [op, f] for $4x.
UnaryOps ==
  {<<0, "neg">>, <<3, "com">>, <<4, "lsr">>, <<6, "ror">>, <<7, "asr">>, <<8, "asl">>, <<9, "rol">>,
   <<\hA, "dec">>, <<\hC, "inc">>, <<\hD, "tst">>, <<\hF, "clr">>}
Places == {"a", "b", "direct", "indexed", "extended", "d"}
UnaryCode(sub, place) ==
  CASE place = "a" -> <<\h40 + sub>>
    [] place = "b" -> <<\h50 + sub>>
    [] place = "direct" -> <<sub, Low(DATA)>>
    [] place = "indexed" -> <<\h60 + sub, \h84>>
    [] place = "extended" -> <<\h70 + sub>> \o Bytes2(DATA)
    [] place = "d" -> <<\h10, \h40 + sub>>
InMemory == {"direct", "indexed", "extended"}
UnaryStart(t) ==
  LET n == Machine(t.place = "d", UnaryCode(t.o[1], t.place), t.cc)
  IN IF t.place \in InMemory THEN mem_write(n, DATA, t.a) ELSE Set(n, t.place, t.a)
UnaryTests ==
  UNION {[kind : {"unary"}, o : UnaryOps, place : {p}, a : IF p = "d" THEN Words ELSE Bytes,
          cc : {{}, {"C", "V"}}] : p \in Places}

-----------------------------------------------------------------------------
(* The meaning of an operation as arithmetic on integers.                   *)

\* The exact sum or difference; u of the unsigned readings, s of the signed ones.
Exact(f, a, b, c, width) ==
  LET sa == Signed(a, width)
      sb == Signed(b, width)
  IN CASE f = "add" -> [u |-> a + b, s |-> sa + sb]
       [] f = "adc" -> [u |-> a + b + c, s |-> sa + sb + c]
       [] f \in {"sub", "cmp"} -> [u |-> a - b, s |-> sa - sb]
       [] f = "sbc" -> [u |-> a - b - c, s |-> sa - sb - c]
       [] f = "neg" -> [u |-> -a, s |-> -sa]
       [] f = "asl" -> [u |-> 2 * a, s |-> 2 * sa]
       [] f = "rol" -> [u |-> 2 * a + c, s |-> 2 * sa + c]
       [] f = "inc" -> [u |-> a + 1, s |-> sa + 1]
       [] f = "dec" -> [u |-> a - 1, s |-> sa - 1]
Sums == {"add", "adc", "sub", "cmp", "sbc", "neg", "asl", "rol", "inc", "dec"}
Counts == {"inc", "dec"}
BitOf == "and" :> [x \in 0 .. 1, y \in 0 .. 1 |-> x * y]
      @@ "or" :> [x \in 0 .. 1, y \in 0 .. 1 |-> IF x + y = 0 THEN 0 ELSE 1]
      @@ "eor" :> [x \in 0 .. 1, y \in 0 .. 1 |-> IF x = y THEN 0 ELSE 1]

\* r is right, N and Z are its own, C and V say that the unsigned and the signed
\* result do not fit; INC and DEC leave C alone.
SumRight(f, a, b, c, width, r, before, cc) ==
  LET e == Exact(f, a, b, c, width)
  IN /\ r = e.u % 2^width
     /\ ("N" \in cc) = (r >= 2^(width - 1)) /\ ("Z" \in cc) = (r = 0)
     /\ ("V" \in cc) = (e.s \notin -(2^(width - 1)) .. 2^(width - 1) - 1)
     /\ ("C" \in cc) = (IF f \in Counts THEN "C" \in before ELSE e.u \notin 0 .. 2^width - 1)
\* Bit by bit; C is left alone, V is 0.
LogicRight(f, a, b, width, r, before, cc) ==
  /\ \A i \in 0 .. width - 1 : Bit(r, i) = BitOf[f][Bit(a, i), Bit(b, i)]
  /\ ("C" \in cc) = ("C" \in before) /\ "V" \notin cc /\ ("Z" \in cc) = (r = 0)
\* A right shift halves, with what it drops in C.
HalfRight(f, a, c, width, r, cc) ==
  /\ ("C" \in cc) = (a % 2 = 1)
  /\ CASE f = "lsr" -> r = a \div 2
       [] f = "ror" -> r = (a + c * 2^width) \div 2
       [] f = "asr" -> Signed(r, width) = Signed(a, width) \div 2
  /\ ("N" \in cc) = (r >= 2^(width - 1)) /\ ("Z" \in cc) = (r = 0)
UnaryRight(f, a, c, width, r, before, cc) ==
  CASE f \in Sums -> SumRight(f, a, 0, c, width, r, before, cc)
    [] f \in {"lsr", "ror", "asr"} -> HalfRight(f, a, c, width, r, cc)
    [] f = "com" -> r + a = 2^width - 1 /\ "C" \in cc /\ ("Z" \in cc) = (r = 0)
    [] f = "tst" -> r = a /\ ("Z" \in cc) = (a = 0) /\ ("N" \in cc) = (a >= 2^(width - 1)) /\ ("C" \in cc) = ("C" \in before)
    [] f = "clr" -> r = 0 /\ "Z" \in cc /\ "C" \notin cc

\* Nothing but the register r, the flags, pc and memory at DATA has changed.
OnlyChanged(r) ==
  LET s0 == test.start
      n == [s0 EXCEPT !.pc = m.pc, !.cc = m.cc, !.mem = m.mem]
  IN m = (IF r = "" THEN n ELSE Set(n, r, Get(m, r)))

-----------------------------------------------------------------------------
(* Comparison and branch: an operation that compares, then a branch.        *)

Comparisons == {o \in AccumulatorOps \cup WideOps \cup Hd6309Ops : o.f = "cmp"}
BranchStart(t) ==
  LET o == t.o
      branch == IF t.long THEN <<\h10, \h20 + t.cond, 1, 0>> ELSE <<\h20 + t.cond, \h40>>
  IN Set(Machine(o.hd, o.pre \o <<o.op>> \o OperandBytes("immediate", t.b, SizeOf(o.r)) \o branch, {}), o.r, t.a)
BranchTests ==
  UNION {[kind : {"branch"}, o : {o}, cond : 1 .. 15, long : {SizeOf(o.r) = 2},
          a : Values(o.r), b : Values(o.r)] : o \in Comparisons}

\* What the program means by the branch.
Order(cond, a, b, width) ==
  LET sa == Signed(a, width)
      sb == Signed(b, width)
      diff == (a - b) % 2^width
  IN CASE cond = 1 -> FALSE
       [] cond = 2 -> a > b
       [] cond = 3 -> a <= b
       [] cond = 4 -> a >= b
       [] cond = 5 -> a < b
       [] cond = 6 -> a # b
       [] cond = 7 -> a = b
       [] cond = 8 -> sa - sb \in -(2^(width - 1)) .. 2^(width - 1) - 1
       [] cond = 9 -> sa - sb \notin -(2^(width - 1)) .. 2^(width - 1) - 1
       [] cond = \hA -> diff < 2^(width - 1)
       [] cond = \hB -> diff >= 2^(width - 1)
       [] cond = \hC -> sa >= sb
       [] cond = \hD -> sa < sb
       [] cond = \hE -> sa > sb
       [] cond = \hF -> sa <= sb

-----------------------------------------------------------------------------
(* Chains: D = a, and b in the code; the carry goes from byte to byte.      *)

ChainCode(f, b) ==
  CASE f = "add" -> <<\hCB, Low(b), \h89, High(b)>>          \* ADDB ADCA
    [] f = "sub" -> <<\hC0, Low(b), \h82, High(b)>>          \* SUBB SBCA
    [] f = "asl" -> <<\h58, \h49>>                           \* ASLB ROLA
    [] f = "lsr" -> <<\h44, \h56>>                           \* LSRA RORB
    [] f = "asr" -> <<\h47, \h56>>                           \* ASRA RORB
    [] f = "neg" -> <<\h43, \h50, \h82, 255>>                \* COMA NEGB SBCA #-1
ChainSteps(f) == IF f = "neg" THEN 3 ELSE 2
ChainTests == [kind : {"chain"}, f : {"add", "sub"}, a : Words, b : Words]
         \cup [kind : {"chain"}, f : {"asl", "lsr", "asr", "neg"}, a : Words, b : {0}]
ChainRight(t, d, cc) ==
  LET e == CASE t.f = "lsr" -> t.a \div 2
             [] t.f = "asr" -> Signed(t.a, 16) \div 2
             [] OTHER -> Exact(t.f, t.a, t.b, 0, 16).u
  IN /\ d = Word(e)
     /\ t.f \in {"add", "sub", "asl"} => ("C" \in cc) = (e \notin 0 .. 65535)
     /\ t.f \in {"add", "sub"} =>
          /\ ("V" \in cc) = (Exact(t.f, t.a, t.b, 0, 16).s \notin -32768 .. 32767)
          /\ ("N" \in cc) = (d >= 32768)

\* Two decimal digits: ADDA or ADCA, then DAA.
Digits == {0, 1, 4, 5, 8, 9}
Bcd(n) == (n \div 10) * 16 + (n % 10)
DecimalTests == [kind : {"decimal"}, a : {10 * h + l : h \in Digits, l \in Digits},
                 b : {10 * h + l : h \in Digits, l \in Digits}, c : 0 .. 1]
DecimalStart(t) ==
  Set(Machine(FALSE, <<\h89, Bcd(t.b), \h19>>, IF t.c = 1 THEN {"C"} ELSE {}), "a", Bcd(t.a))
DecimalRight(t, a, cc) ==
  LET n == t.a + t.b + t.c IN a = Bcd(n % 100) /\ ("C" \in cc) = (n >= 100)

-----------------------------------------------------------------------------
(* Round trips: what is saved comes back though other code ran in between.  *)

Registers == <<"d", "w", "x", "y", "u", "s", "dp", "cc">>
\* Other code: every register not in keep gets another value.
OtherCode(n, keep) ==
  FoldLeft(LAMBDA k, r : IF r \in keep THEN k
                         ELSE IF r = "cc" THEN [k EXCEPT !.cc = (Range(Flags) \ {"E"}) \ @]
                         ELSE Set(k, r, k[r] + \h2135), n, Registers)

Trip(hd, md, code, plan, keep, same, pc) ==
  [kind |-> "trip", hd |-> hd, md |-> md, code |-> code, plan |-> plan, keep |-> keep, same |-> same, pc |-> pc]
There == <<"run", "other", "run">>

\* PSHS/PULS and PSHU/PULU with every postbyte; PC pulled is PC pushed.
PushTrips ==
  {Trip(FALSE, {}, <<IF sp = "s" THEN \h34 ELSE \h36, p, IF sp = "s" THEN \h35 ELSE \h37, p>>, There,
        {sp}, {sp} \cup (Range(Named(p, sp)) \ {"pc"}), IF p >= 128 THEN CODE + 2 ELSE CODE + 4) :
   p \in Postbytes, sp \in {"s", "u"}}
\* PSHSW/PULSW, PSHUW/PULUW
WTrips ==
  {Trip(TRUE, {}, <<\h10, o, \h10, o + 1>>, There, {IF o = \h38 THEN "s" ELSE "u"},
        {"w", IF o = \h38 THEN "s" ELSE "u"}, CODE + 4) : o \in {\h38, \h3A}}
\* A software interrupt or a trap, and RTI; W comes back in native mode only.
EntryTrips ==
  {Trip(hd, md, code, There, {"s"}, (Range(Registers) \ {"cc"}) \ (IF md = {} THEN {"w"} ELSE {}), CODE + Len(code)) :
   code \in {<<\h3F>>, <<\h10, \h3F>>, <<\h11, \h3F>>}, hd \in {TRUE}, md \in {{}, {"NM"}}}
  \cup {Trip(FALSE, {}, code, There, {"s"}, Range(Registers) \ {"cc", "w"}, CODE + Len(code)) :
   code \in {<<\h3F>>, <<\h10, \h3F>>, <<\h11, \h3F>>}}
  \cup {Trip(TRUE, md, code, There, {"s"}, (Range(Registers) \ {"cc"}) \ (IF md = {} THEN {"w"} ELSE {}), CODE + Len(code)) :
   code \in {<<\h87>>, <<\h15>>, <<\h10, \h20>>, <<\h11, \h8D, 0>>, <<\h11, \h38, \h55>>}, md \in {{}, {"NM"}}}
\* BSR, LBSR and the JSRs, and RTS (the handler of the tests that call).
Calls == {<<\h8D, 62>>, <<\h17, 7, \hFE>>, <<\h9D, 0>>, <<\hAD, \h9F, \h20, \h10>>, <<\hBD, \h18, 1>>}
CallTrips ==
  {Trip(FALSE, {}, code, There, {"s"}, {"s"}, CODE + Len(code)) : code \in Calls}
\* STA ,-R / LDA ,R+ and STD ,--R / LDD ,R++ on each index register, W too.
IndexTrips ==
  {Trip(FALSE, {}, IF r = "a" THEN <<\hA7, \h82 + 32 * i, \hA6, \h80 + 32 * i>>
                   ELSE <<\hED, \h83 + 32 * i, \hEC, \h81 + 32 * i>>, There,
        {idx_reg(32 * i)}, {r, idx_reg(32 * i)}, CODE + 4) : i \in 0 .. 3, r \in {"a", "d"}}
  \cup {Trip(TRUE, {}, <<\hED, \hEF, \hEC, \hCF>>, There, {"w"}, {"d", "w"}, CODE + 4)}
\* A register stored and loaded in the same mode.
StoreOps == {<<<<>>, \h97, "a">>, <<<<>>, \hD7, "b">>, <<<<>>, \hDD, "d">>, <<<<>>, \hDF, "u">>, <<<<>>, \h9F, "x">>,
             <<<<\h10>>, \h9F, "y">>, <<<<\h10>>, \hDF, "s">>, <<<<\h10>>, \h97, "w">>, <<<<\h11>>, \h97, "e">>,
             <<<<\h11>>, \hD7, "f">>, <<<<\h10>>, \hDD, "d">>}
StoreTrips ==
  {LET o == x[1]
       step == ModeStep[x[2]] - 16
       tail == OperandBytes(x[2], 0, 1)
       code == o[1] \o <<o[2] + step>> \o tail \o o[1] \o <<o[2] - 1 + step>> \o tail
   IN Trip(o[3] \in {"w", "e", "f"} \/ o = <<<<\h10>>, \hDD, "d">>, {}, code, There, {"dp", "x"},
           {o[3]} \cup (IF o = <<<<\h10>>, \hDD, "d">> THEN {"w"} ELSE {}), CODE + Len(code)) :
   x \in StoreOps \X (Modes4 \ {"immediate"})}
\* EXG twice, between registers of one width.
ExgTrips ==
  {Trip(hd, {}, <<\h1E, 16 * a + b, \h1E, 16 * a + b>>, <<"run", "run">>, {}, Range(Registers), CODE + 4) :
   hd \in BOOLEAN, <<a, b>> \in ((0 .. 4) \X (0 .. 4)) \cup ((8 .. \hB) \X (8 .. \hB))}
TripTests == PushTrips \cup WTrips \cup EntryTrips \cup CallTrips \cup IndexTrips \cup StoreTrips \cup ExgTrips

\* Every vector leads to the handler: RTI, and RTS behind it.
TripStart(t) ==
  LET n == [Machine(t.hd, t.code, {"C", "N"}) EXCEPT !.md = t.md]
      vectors == [a \in \hFFF0 .. \hFFFB |-> IF a % 2 = 0 THEN High(HANDLER) ELSE Low(HANDLER)]
      target == (DATA :> High(HANDLER + 1)) @@ (DATA + 1 :> Low(HANDLER + 1))
      stubs == HANDLER :> \h3B @@ (HANDLER + 1) :> \h39 @@ \h2000 :> \h39 @@ (CODE + 64) :> \h39
  IN [n EXCEPT !.mem = @ @@ vectors @@ target @@ stubs]
TripRight(t) == /\ m.pc = t.pc
                /\ \A r \in t.same : Get(m, r) = Get(test.start, r)

\* TFM from X to Y, W bytes, a pass each: + +, - -, + 0, 0 +.
BlockTests == [kind : {"block"}, op : 0 .. 3, w : 0 .. 3]
BlockStart(t) ==
  LET n == Machine(TRUE, <<\h11, \h38 + t.op, \h12>>, {"V"})
      data == [a \in DATA - 3 .. DATA + 3 |-> a - DATA + 5]
  IN [n EXCEPT !.w = t.w, !.y = \h3000, !.mem = @ @@ data]
BlockRight(t) ==
  LET src(i) == DATA + i * <<1, -1, 1, 0>>[t.op + 1]
      dst(i) == \h3000 + i * <<1, -1, 0, 1>>[t.op + 1]
  IN /\ m.w = 0 /\ m.pc = CODE + 3 /\ m.cc = {"V", "Z"} /\ m.tfm = -1
     /\ m.x = src(t.w) /\ m.y = dst(t.w)
     /\ \A i \in 0 .. t.w - 1 :
          mem_read(m, dst(i)) = mem_read(test.start, src(IF t.op = 2 THEN t.w - 1 ELSE i))

-----------------------------------------------------------------------------
(* Division.                                                                *)

DivTests ==
  [kind : {"divd"}, mode : Modes4, a : Words, b : Bytes]
  \cup {t \in [kind : {"divq"}, mode : {"immediate", "extended"}, a : Words, w : Words, b : Words] :
          ~(t.a = 32768 /\ t.w = 0)}      \* bound: -2^31 is outside TLC's integers once negated
DivStart(t) ==
  LET size == IF t.kind = "divd" THEN 1 ELSE 2
      op == IF t.kind = "divd" THEN \h8D ELSE \h8E
      n == Machine(TRUE, <<\h11, op + ModeStep[t.mode]>> \o OperandBytes(t.mode, t.b, size), {})
      vector == (VEC_TRAP :> High(HANDLER)) @@ (VEC_TRAP + 1 :> Low(HANDLER))
      k == WithData([n EXCEPT !.mem = @ @@ vector, !.d = t.a], t.b, size)
  IN IF t.kind = "divd" THEN k ELSE [k EXCEPT !.w = t.w]
DivRight(t) ==
  LET width == IF t.kind = "divd" THEN 8 ELSE 16
      dividend == IF t.kind = "divd" THEN Signed(t.a, 16) ELSE Signed(t.a, 16) * 65536 + t.w
      divisor == Signed(t.b, width)
      q == Signed(IF t.kind = "divd" THEN Get(m, "b") ELSE m.w, width)
      r == Signed(IF t.kind = "divd" THEN Get(m, "a") ELSE m.d, width)
  IN IF divisor = 0
     THEN m.pc = HANDLER /\ m.md = {"D0"} /\ m.d = t.a /\ m.w = test.start.w
     ELSE IF "V" \in m.cc
     THEN Magnitude(dividend) \div Magnitude(divisor) >= 2^(width - 1)
     ELSE /\ q * divisor + r = dividend
          /\ Magnitude(r) < Magnitude(divisor)
          /\ r # 0 => (r < 0) = (dividend < 0)
          /\ ("N" \in m.cc) = (q < 0) /\ ("Z" \in m.cc) = (q = 0)

-----------------------------------------------------------------------------
(* The specification.                                                       *)

Start(t) ==
  CASE t.kind = "op" -> OpStart(t)
    [] t.kind = "unary" -> UnaryStart(t)
    [] t.kind = "branch" -> BranchStart(t)
    [] t.kind = "chain" -> Set(Machine(FALSE, ChainCode(t.f, t.b), {}), "d", t.a)
    [] t.kind = "decimal" -> DecimalStart(t)
    [] t.kind = "trip" -> TripStart(t)
    [] t.kind = "block" -> BlockStart(t)
    [] OTHER -> DivStart(t)
Plan(t) ==
  CASE t.kind \in {"op", "unary", "divd", "divq"} -> <<"run">>
    [] t.kind \in {"branch", "decimal"} -> <<"run", "run">>
    [] t.kind = "chain" -> [i \in 1 .. ChainSteps(t.f) |-> "run"]
    [] t.kind = "block" -> [i \in 1 .. (IF t.w = 0 THEN 1 ELSE t.w) |-> "run"]
    [] t.kind = "trip" -> t.plan

Begin(t) == /\ test = [t |-> t, start |-> Start(t)] /\ m = Start(t) /\ left = Plan(t)

ProgInit ==
  \/ \E t \in OpTests : Begin(t)
  \/ \E t \in UnaryTests : Begin(t)
  \/ \E t \in BranchTests : Begin(t)
  \/ \E t \in ChainTests : Begin(t)
  \/ \E t \in DecimalTests : Begin(t)
  \/ \E t \in TripTests : Begin(t)
  \/ \E t \in BlockTests : Begin(t)
  \/ \E t \in DivTests : Begin(t)

Run == /\ left # <<>> /\ Head(left) = "run"
       /\ m' = execute_one(m) /\ left' = Tail(left)
       /\ UNCHANGED test
Elsewhere == /\ left # <<>> /\ Head(left) = "other"
             /\ m' = OtherCode(m, test.t.keep) /\ left' = Tail(left)
             /\ UNCHANGED test
ProgNext == Run \/ Elsewhere
ProgSpec == ProgInit /\ [][ProgNext]_pvars

Over(kinds) == left = <<>> /\ test.t.kind \in kinds

\* DIVD and DIVQ: quotient and remainder make up the dividend again and the remainder
\* has its sign, or V says that the quotient does not fit, or a zero divisor traps with
\* the dividend untouched.
DivisionRight == Over({"divd", "divq"}) => DivRight(test.t)

\* Every operation, in every addressing mode the source writes out, gives the result
\* and the flags of exact arithmetic: C says the unsigned result does not fit, V that
\* the signed one does not; no other register changes; and a division divides (op_add8 ... h_unary16, rows 0-F).
OperationsExact ==
  /\ DivisionRight
  /\ Over({"op"}) =>
       LET t == test.t
           o == t.o
           w == Width(o.r)
           c == Ones("C" \in t.cc)
       IN /\ OnlyChanged(o.r)
          /\ IF o.f \in Sums
             THEN /\ SumRight(o.f, t.a, t.b, c, w, IF o.f = "cmp" THEN (t.a - t.b) % 2^w ELSE Get(m, o.r), t.cc, m.cc)
                  /\ o.f = "cmp" => Get(m, o.r) = t.a
             ELSE LogicRight(o.f, t.a, t.b, w, Get(m, o.r), t.cc, m.cc)
  /\ Over({"unary"}) =>
       LET t == test.t
           w == IF t.place = "d" THEN 16 ELSE 8
           r == IF t.place \in InMemory THEN mem_read(m, DATA) ELSE Get(m, t.place)
       IN /\ OnlyChanged(IF t.place \in InMemory THEN "" ELSE t.place)
          /\ UnaryRight(t.o[2], t.a, Ones("C" \in t.cc), w, r, t.cc, m.cc)

\* A branch after a comparison decides by the order of the operands: the unsigned
\* branches by the unsigned order, the signed ones by the signed order also where the
\* difference overflows (CMP and eval_branch()).
BranchesFollowOrder ==
  Over({"branch"}) =>
    LET t == test.t
        after == CODE + Len(t.o.pre) + 1 + SizeOf(t.o.r) + (IF t.long THEN 4 ELSE 2)
    IN m.pc = after + (IF Order(t.cond, t.a, t.b, Width(t.o.r)) THEN IF t.long THEN 256 ELSE 64 ELSE 0)

\* Arithmetic done byte by byte with the carry, and digit by digit with DAA, is the
\* arithmetic of the whole number.
CarriesChain ==
  /\ Over({"chain"}) => ChainRight(test.t, m.d, m.cc)
  /\ Over({"decimal"}) => DecimalRight(test.t, Get(m, "a"), m.cc)

\* The instructions compute: each by itself, and the flags mean to the next one what
\* they meant to the last.
ComputesExactly == OperationsExact /\ BranchesFollowOrder /\ CarriesChain

\* What was stacked, stored, called or exchanged is back after the matching
\* instruction, whatever other code did to the registers in between: PSH/PUL, SWI and
\* trap entry with RTI, JSR/RTS, auto-decrement and -increment, ST/LD, EXG; and
\* TFM has moved W bytes when it is done, however many passes it took.
RoundTrips ==
  /\ Over({"trip"}) => TripRight(test.t)
  /\ Over({"block"}) => BlockRight(test.t)

=============================================================================

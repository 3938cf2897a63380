------------------------------ MODULE IdleLoop ------------------------------
(***************************************************************************)
(* The idle-loop skip of the HD6309 build (idle_loop_check() and its        *)
(* decoder, mc6809_core_impl.h): a short backward branch whose body gives    *)
(* the same state every pass is not interpreted for the rest of the run     *)
(* call.  Two machines run the same program: quick skips, plain interprets   *)
(* every pass.  Between two run calls an interrupt handler may write the    *)
(* byte the loop polls.  Every instruction costs CYCLES: the counts of the  *)
(* instructions are left out, that a pass always costs the same is kept.    *)
(***************************************************************************)
EXTENDS Isa

CONSTANTS
  Bodies,      \* the loop bodies tried
  BUDGET,      \* cycles of one run call
  CALLS        \* bound: run calls

VARIABLES quick, plain, calls

ivars == <<quick, plain, calls>>

CYCLES == 4
IDLE_BODY_MAX == 6
IDLE_PERIOD_MAX == 16
FAST_LIMIT == \hFE00        \* every page below it is plain memory here
TOP == \h1000
LIST == \h2010

\* -1 where the access would go through a callback.
idle_peek(m, a) == IF Word(a) < FAST_LIMIT THEN mem_read(m, a) ELSE -1
idle_plain(m, ea, wide) == idle_peek(m, ea) >= 0 /\ (wide => idle_peek(m, ea + 1) >= 0)

No == [kind |-> "no", len |-> 0]

\* Where the operand is, and the instruction's length; ,R and n,R are the only
\* indexed modes.
IdleOperand(m, a, op, b1) ==
  LET hi == op \div 16
      r == m[idx_reg(b1)]
  IN CASE op = \h0D \/ hi \in {9, \hD} -> [ea |-> m.dp * 256 + b1, len |-> 2]
       [] (op = \h6D \/ hi \in {\hA, \hE}) /\ b1 < 128 -> [ea |-> Word(r + Signed(b1 % 32, 5)), len |-> 2]
       [] (op = \h6D \/ hi \in {\hA, \hE}) /\ b1 >= 128 /\ b1 % 32 = 4 -> [ea |-> r, len |-> 2]
       [] (op = \h7D \/ hi \in {\hB, \hF}) /\ idle_peek(m, a + 2) >= 0 ->
            [ea |-> b1 * 256 + idle_peek(m, a + 2), len |-> 3]
       [] OTHER -> [ea |-> 0, len |-> 0]

\* Mutant: an operation on a register counts as the same every pass.
AluIsPure(op) ==
  LET side == IF op >= \hD0 THEN "b" ELSE "a"
      col == op % 16
  IN CASE col \in {1, 5, \hC, 0, 4, 8, \hA, \hB} -> "pure"
       [] col = \hE /\ side = "a" -> "pure"
       [] col = 6 -> "load_" \o side
       [] OTHER -> "no"
\* CMP BIT CMPX LDD LDX set the same every pass; SUB AND EOR OR ADD only after a load.
IdleKind(op) ==
  LET side == IF op >= \hD0 THEN "b" ELSE "a"
      col == op % 16
  IN CASE col \in {1, 5, \hC} -> "pure"
       [] col = \hE /\ side = "a" -> "pure"
       [] col = 6 -> "load_" \o side
       [] col \in {0, 4, 8, \hA, \hB} -> "alu_" \o side
       [] OTHER -> "no"

idle_insn(m, a) ==
  LET op == idle_peek(m, a)
      b1 == idle_peek(m, a + 1)
      at == IdleOperand(m, a, op, b1)
      wide == op % 16 \in {\hC, \hE}
  IN CASE op \in {\h12, \h4D, \h5D} -> [kind |-> "pure", len |-> 1]
       [] op < 0 \/ b1 < 0 -> No
       [] op >= 0 /\ b1 >= 0 /\ at.len = 0 -> No
       [] op \in {\h0D, \h6D, \h7D} /\ at.len > 0 ->
            [kind |-> IF idle_plain(m, at.ea, FALSE) THEN "pure" ELSE "no", len |-> at.len]
       [] op >= \h90 /\ at.len > 0 ->
            [kind |-> IF idle_plain(m, at.ea, wide) THEN IdleKind(op) ELSE "no", len |-> at.len]
       [] OTHER -> No

\* No body; one instruction that is not alu; a load and then what it feeds.
idle_loop_ok(m, top, br) ==
  LET k1 == idle_insn(m, top)
      k2 == idle_insn(m, top + k1.len)
      boff == idle_peek(m, br + 1)
  IN /\ idle_peek(m, br) \in \h20 .. \h2F /\ boff >= 0
     /\ Word(br + 2 + Signed(boff, 8)) = top
     /\ \/ top = br
        \/ /\ k1.kind \in {"pure", "load_a", "load_b"}
           /\ \/ Word(top + k1.len) = br
              \/ /\ Word(top + k1.len + k2.len) = br
                 /\ \/ k2.kind \in {"pure", "load_a", "load_b"}
                    \/ <<k1.kind, k2.kind>> \in {<<"load_a", "alu_a">>, <<"load_b", "alu_b">>}

\* c.m has taken the branch at br: two passes in a row give the period.
idle_loop_check(c, br) ==
  LET period == c.cycles - c.idle_cyc
      remaining == BUDGET - c.cycles
      seen == [c EXCEPT !.idle_br = br, !.idle_cyc = c.cycles]
      jump == (remaining \div period) * period
  IN CASE c.idle_rej = br + 1 -> c
       [] c.idle_rej # br + 1 /\ (c.idle_br # br \/ period \notin 1 .. IDLE_PERIOD_MAX \/ remaining <= period) -> seen
       [] OTHER -> IF idle_loop_ok(c.m, c.m.pc, br)
                   THEN [seen EXCEPT !.cycles = @ + jump, !.idle_cyc = @ + jump]
                   ELSE [seen EXCEPT !.idle_rej = br + 1]

\* One instruction; skips tells the two machines apart.
IdleStep(c, skips) ==
  LET op == Operand8(c.m)
      offset == Signed(mem_read(c.m, c.m.pc + 1), 8)
      n == [c EXCEPT !.m = execute_one(c.m), !.cycles = @ + CYCLES]
      back == op \div 16 = 2 /\ eval_branch(c.m.cc, op % 16) /\ offset \in -(IDLE_BODY_MAX + 2) .. -1
  IN IF skips /\ back THEN idle_loop_check(n, c.m.pc) ELSE n

\* hd6309_run(): instructions until the budget is used.
RECURSIVE IdleRun(_, _)
IdleRun(c, skips) == IF c.cycles < BUDGET THEN IdleRun(IdleStep(c, skips), skips) ELSE c
RunCall(c, skips) == IdleRun([c EXCEPT !.cycles = 0, !.idle_br = -1], skips)

-----------------------------------------------------------------------------

\* The loop, with a list of three links at LIST for it to read.
IdleMachine(body, cond) ==
  LET code == body \o <<\h20 + cond, 254 - Len(body)>>
      links == LIST :> \h20 @@ (LIST + 1) :> \h20 @@ (LIST + 16) :> \h20 @@ (LIST + 17) :> \h30
            @@ (LIST + 32) :> \h20 @@ (LIST + 33) :> \h40
  IN [hd |-> TRUE, pc |-> TOP, d |-> \h1234, w |-> 0, x |-> LIST, y |-> LIST, u |-> \h4000, s |-> \h5000,
      v |-> 0, dp |-> \h20, cc |-> {}, md |-> {}, nmi_armed |-> TRUE, wait |-> FALSE, cwai |-> FALSE, tfm |-> -1,
      mem |-> [a \in TOP .. TOP + Len(code) - 1 |-> code[a - TOP + 1]] @@ links]

IdleInit ==
  /\ \E body \in Bodies, cond \in 0 .. 15 :
       quick = [m |-> IdleMachine(body, cond), cycles |-> 0, idle_br |-> -1, idle_cyc |-> 0, idle_rej |-> 0]
  /\ plain = quick /\ calls = 0

IdleCall == /\ calls < CALLS
            /\ quick' = RunCall(quick, TRUE) /\ plain' = RunCall(plain, FALSE)
            /\ calls' = calls + 1

\* An interrupt handler writes the byte polled, at the same place in both.
Touch == /\ calls < CALLS
         /\ \E v \in {0, \h12, \h80} :
              /\ quick' = [quick EXCEPT !.m = mem_write(@, LIST, v)]
              /\ plain' = [plain EXCEPT !.m = mem_write(@, LIST, v)]
         /\ UNCHANGED calls

IdleNext == IdleCall \/ Touch
IdleSpec == IdleInit /\ [][IdleNext]_ivars

\* Skipping whole passes leaves the registers, the flags, memory and the cycle count
\* that interpreting them would have left, at the end of every run call.
SkipIsInterpreting == quick.m = plain.m /\ quick.cycles = plain.cycles
=============================================================================

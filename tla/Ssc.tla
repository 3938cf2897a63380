-------------------------------- MODULE Ssc ---------------------------------
(***************************************************************************)
(* The Speech/Sound Cartridge as the two cores run it: the CoCo's side of   *)
(* $FF7D/$FF7E and the per-scanline sample (core 1), the chips' task (core  *)
(* 0), and the two lock-free rings and the BUSY counters between them.  A   *)
(* ring index is a uint32_t that wraps at INDEX_MOD; each load and store    *)
(* the other core can see is a step of its own.                             *)
(*                                                                          *)
(* Command bytes, samples, the AY, the SP0256 and the status bits they      *)
(* publish are left out; of the TMS7040's firmware, which is a ROM image,   *)
(* only its use of port A and of the BUSY line is modelled.                 *)
(***************************************************************************)
EXTENDS Naturals, Sequences, FiniteSets

CONSTANTS
  SSC_CMDQ_SIZE,        \* 64
  SSC_SMP_SIZE,         \* 256
  SSC_AHEAD,            \* 48
  SSC_BATCH,            \* 8
  INDEX_MOD,            \* 2^32
  MaxData, MaxCtrl      \* bounds: data writes, and control writes and resets

ASSUME SscAssumption ==
  /\ {SSC_CMDQ_SIZE, SSC_SMP_SIZE, SSC_AHEAD, SSC_BATCH, INDEX_MOD} \subseteq Nat \ {0}
  /\ INDEX_MOD % SSC_CMDQ_SIZE = 0 /\ INDEX_MOD % SSC_SMP_SIZE = 0
  /\ SSC_CMDQ_SIZE < INDEX_MOD /\ SSC_SMP_SIZE < INDEX_MOD
  /\ SSC_AHEAD + SSC_BATCH - 1 <= SSC_SMP_SIZE
  /\ MaxData \in Nat /\ MaxCtrl \in Nat

VARIABLES
  \* front end, core 1
  s_cmdq, s_cmdq_head,
  s_cmd_seq, s_cmd_dropped,
  s_smp_tail,
  cpc, ccmd, chead,      \* position; push_cmd's command and head
  saw,                   \* the last status read said READY and nothing was written since
  ctrls,                 \* control writes and resets so far
  polite,                \* the CoCo's program writes a byte only after it saw READY
  \* engine, core 0
  s_cmdq_tail,
  s_smp_head,
  epc, tail, head, smp, left,   \* position; drain's tail and head; task's head; scanlines left of the batch
  s_reset_line, int3, bsy,      \* bit 0 of $FF7D; TMS7040 INT3; port C BUSY bit
  s_consumed, s_released,
  since,                 \* history: a data byte was written after the last control write or reset the ring took
  quiet                  \* history: a reset was served and no data byte was written since

frontVars == <<s_cmdq, s_cmdq_head, s_cmd_seq, s_cmd_dropped, s_smp_tail, cpc, ccmd, chead, saw,
               ctrls, polite, since>>
chipVars == <<s_reset_line, int3, bsy, s_consumed, s_released>>
engineVars == <<s_cmdq_tail, s_smp_head, epc, tail, head, smp, left, chipVars>>
sscVars == <<frontVars, engineVars, quiet>>

Cmd == {"data", "ctrl1", "ctrl0", "reset"}

Add(i, n) == (i + n) % INDEX_MOD
Sub(i, j) == (i + INDEX_MOD - j) % INDEX_MOD

SscInit ==
  /\ s_cmdq = [i \in 0 .. SSC_CMDQ_SIZE - 1 |-> "reset"] /\ s_cmdq_head = 0
  /\ s_cmd_seq = 0 /\ s_cmd_dropped = 0
  /\ s_smp_tail = 0 /\ cpc = "idle" /\ ccmd = "reset" /\ chead = 0 /\ saw = FALSE /\ ctrls = 0
  /\ polite \in BOOLEAN
  /\ s_cmdq_tail = 0 /\ s_smp_head = 0
  /\ epc = "drain" /\ tail = 0 /\ head = 0 /\ smp = 0 /\ left = 0
  /\ s_reset_line = 1 /\ int3 = FALSE /\ bsy = FALSE    \* Reset() drives port C to 0
  /\ s_consumed = 0 /\ s_released = 0
  /\ since = FALSE /\ quiet = FALSE

-----------------------------------------------------------------------------
(* Front end, core 1.                                                       *)

\* READY, as ssc_read() computes it.
Ready == s_released = s_cmd_seq

ReadReady ==
  /\ cpc = "idle"
  /\ saw' = Ready
  /\ UNCHANGED <<s_cmdq, s_cmdq_head, s_cmd_seq, s_cmd_dropped, s_smp_tail, cpc, ccmd, chead, ctrls, polite, since,
                 engineVars, quiet>>

CmdqFull == Sub(s_cmdq_head, s_cmdq_tail) >= SSC_CMDQ_SIZE

\* push_cmd(): a full ring drops the command.
PushBegin(c) ==
  /\ ccmd' = c /\ chead' = s_cmdq_head
  /\ s_cmd_dropped' = s_cmd_dropped + (IF CmdqFull THEN 1 ELSE 0)
  /\ cpc' = IF CmdqFull THEN "idle" ELSE "push_fill"
  /\ UNCHANGED <<s_cmdq, s_cmdq_head, s_smp_tail, engineVars>>

\* ssc_write($FF7E): s_cmd_seq counts the byte whether or not the ring takes it.
WriteByte ==
  /\ cpc = "idle" /\ s_cmd_seq < MaxData /\ (polite => saw)
  /\ s_cmd_seq' = s_cmd_seq + 1
  /\ saw' = FALSE /\ since' = TRUE /\ quiet' = FALSE
  /\ PushBegin("data")
  /\ UNCHANGED <<ctrls, polite>>

\* ssc_write($FF7D), and ssc_reset() when the CoCo is reset.
WriteControl(c) ==
  /\ cpc = "idle" /\ ctrls < MaxCtrl
  /\ ctrls' = ctrls + 1
  /\ saw' = FALSE /\ since' = (since /\ CmdqFull)
  /\ PushBegin(c)
  /\ UNCHANGED <<s_cmd_seq, polite, quiet>>

PushFill ==
  /\ cpc = "push_fill"
  /\ s_cmdq' = [s_cmdq EXCEPT ![chead % SSC_CMDQ_SIZE] = ccmd]
  /\ cpc' = "push_store"
  /\ UNCHANGED <<s_cmdq_head, s_cmd_seq, s_cmd_dropped, s_smp_tail, ccmd, chead, saw, ctrls, polite, since,
                 engineVars, quiet>>

PushStore ==
  /\ cpc = "push_store"
  /\ s_cmdq_head' = Add(chead, 1)
  /\ cpc' = "idle"
  /\ UNCHANGED <<s_cmdq, s_cmd_seq, s_cmd_dropped, s_smp_tail, ccmd, chead, saw, ctrls, polite, since, engineVars,
                 quiet>>

\* ssc_scanline_tick(): an empty ring holds the last level.
TickLook ==
  /\ cpc = "idle"
  /\ cpc' = IF s_smp_tail # s_smp_head THEN "tick_copy" ELSE "idle"
  /\ UNCHANGED <<s_cmdq, s_cmdq_head, s_cmd_seq, s_cmd_dropped, s_smp_tail, ccmd, chead, saw, ctrls, polite, since,
                 engineVars, quiet>>

\* The copied sample's slot is given back, and every SSC_KICK-th wakes core 0.
TickStore ==
  /\ cpc = "tick_copy"
  /\ s_smp_tail' = Add(s_smp_tail, 1)
  /\ cpc' = "idle"
  /\ UNCHANGED <<s_cmdq, s_cmdq_head, s_cmd_seq, s_cmd_dropped, ccmd, chead, saw, ctrls, polite, since, engineVars,
                 quiet>>

-----------------------------------------------------------------------------
(* Engine, core 0.                                                          *)

\* Mutant: a reset also releases the bytes that are still in the ring.
ReleasedAll == s_cmd_seq
Released == s_consumed

\* engine_data_write(): the latch is overwritten, INT3 raised.
DataWrite ==
  /\ s_consumed' = s_consumed + 1
  /\ int3' = TRUE
  /\ UNCHANGED <<s_reset_line, bsy, s_released>>

\* engine_ctrl_write(): a falling bit 0 resets the TMS7040 and releases BUSY.
CtrlWrite(v) ==
  /\ IF s_reset_line = 1 /\ v = 0
     THEN int3' = FALSE /\ bsy' = FALSE /\ s_released' = Released
     ELSE UNCHANGED <<int3, bsy, s_released>>
  /\ s_reset_line' = v
  /\ UNCHANGED s_consumed

\* engine_reset().
EngineReset ==
  /\ s_reset_line' = 1 /\ int3' = FALSE /\ bsy' = FALSE
  /\ s_released' = Released
  /\ UNCHANGED s_consumed

IsReset(c) == c = "reset" \/ (c = "ctrl0" /\ s_reset_line = 1)

\* The top of ssc_task() and the end of each batch; core 0 is woken by core 1
\* or after 2 ms, so waiting never blocks it.
DrainBegin ==
  /\ epc = "drain"
  /\ tail' = s_cmdq_tail /\ head' = s_cmdq_head
  /\ epc' = IF s_cmdq_tail = s_cmdq_head THEN "test" ELSE "exec"
  /\ UNCHANGED <<s_cmdq_tail, s_smp_head, smp, left, chipVars, frontVars, quiet>>

DrainOne ==
  /\ epc = "exec" /\ tail # head
  /\ LET c == s_cmdq[tail % SSC_CMDQ_SIZE] IN
     /\ \/ c = "data" /\ DataWrite
        \/ c = "ctrl1" /\ CtrlWrite(1)
        \/ c = "ctrl0" /\ CtrlWrite(0)
        \/ c = "reset" /\ EngineReset
     /\ quiet' = (quiet \/ ( /\ IsReset(c) /\ ~since
                             /\ Add(tail, 1) = s_cmdq_head /\ cpc \in {"idle", "tick_copy"}))
  /\ tail' = Add(tail, 1)
  /\ UNCHANGED <<s_cmdq_tail, s_smp_head, epc, head, smp, left, frontVars>>

DrainEnd ==
  /\ epc = "exec" /\ tail = head
  /\ s_cmdq_tail' = tail
  /\ epc' = "test"
  /\ UNCHANGED <<s_smp_head, tail, head, smp, left, chipVars, frontVars, quiet>>

\* Mutant: a batch is started one sample too late.
BehindLate == Sub(smp, s_smp_tail) <= SSC_AHEAD
Behind == Sub(smp, s_smp_tail) < SSC_AHEAD

\* A batch is run while fewer than SSC_AHEAD samples are queued.
BatchTest ==
  /\ epc = "test"
  /\ \/ Behind /\ epc' = "scan" /\ left' = SSC_BATCH
     \/ ~Behind /\ epc' = "drain" /\ UNCHANGED left
  /\ UNCHANGED <<s_cmdq_tail, s_smp_head, tail, head, smp, chipVars, frontVars, quiet>>

\* The firmware takes the byte: reading port A drops INT3; it then lowers BUSY.
FirmwareTakes ==
  /\ int3
  /\ int3' = FALSE /\ bsy' = FALSE
  /\ UNCHANGED <<s_reset_line, s_consumed, s_released>>

\* Mutant: BUSY rises without release_busy().
FirmwareReleasesSilently ==
  /\ ~bsy
  /\ bsy' = TRUE
  /\ UNCHANGED <<s_reset_line, int3, s_consumed, s_released>>
\* It raises BUSY when done, and once after a reset: release_busy().
FirmwareReleases ==
  /\ ~bsy
  /\ bsy' = TRUE /\ s_released' = s_consumed
  /\ UNCHANGED <<s_reset_line, int3, s_consumed>>

FirmwareRuns == UNCHANGED chipVars

\* run_scanline() into the next slot.
Scanline(firmware) ==
  /\ epc = "scan" /\ left > 0
  /\ firmware
  /\ smp' = Add(smp, 1) /\ left' = left - 1
  /\ UNCHANGED <<s_cmdq_tail, s_smp_head, epc, tail, head, frontVars, quiet>>

BatchEnd ==
  /\ epc = "scan" /\ left = 0
  /\ s_smp_head' = smp
  /\ epc' = "drain"
  /\ UNCHANGED <<s_cmdq_tail, tail, head, smp, left, chipVars, frontVars, quiet>>

FrontEnd ==
  \/ ReadReady \/ WriteByte
  \/ \E c \in {"ctrl1", "ctrl0", "reset"} : WriteControl(c)
  \/ PushFill \/ PushStore \/ TickLook \/ TickStore
Task ==
  \/ DrainBegin \/ DrainOne \/ DrainEnd \/ BatchTest
  \/ Scanline(FirmwareTakes) \/ Scanline(FirmwareReleases) \/ Scanline(FirmwareRuns)
  \/ BatchEnd

SscNext == FrontEnd \/ Task

SscSpec == SscInit /\ [][SscNext]_sscVars

\* Core 0 runs its task, core 1 its scanlines, and the firmware, which runs on
\* every scanline, answers INT3 and ends what it started.
FairSscSpec ==
  /\ SscSpec
  /\ WF_sscVars(Task)
  /\ WF_sscVars(PushFill \/ PushStore) /\ SF_sscVars(TickLook /\ s_smp_tail # s_smp_head)
  /\ WF_sscVars(TickStore)
  /\ SF_sscVars(Scanline(FirmwareTakes)) /\ SF_sscVars(Scanline(FirmwareReleases))

-----------------------------------------------------------------------------
Index == 0 .. INDEX_MOD - 1

\* Every variable has its type.
SscTypeOK ==
  /\ s_cmdq \in [0 .. SSC_CMDQ_SIZE - 1 -> Cmd]
  /\ {s_cmdq_head, s_cmdq_tail, chead, tail, head, s_smp_head, s_smp_tail, smp} \subseteq Index
  /\ s_cmd_seq \in 0 .. MaxData /\ s_consumed \in 0 .. MaxData /\ s_released \in 0 .. MaxData
  /\ s_cmd_dropped \in 0 .. MaxData + MaxCtrl /\ ctrls \in 0 .. MaxCtrl
  /\ cpc \in {"idle", "push_fill", "push_store", "tick_copy"} /\ ccmd \in Cmd
  /\ epc \in {"drain", "exec", "test", "scan"} /\ left \in 0 .. SSC_BATCH
  /\ s_reset_line \in 0 .. 1 /\ {int3, bsy, saw, polite, since, quiet} \subseteq BOOLEAN

\* Commands in the ring that the engine has not executed.
Taken == IF epc = "exec" THEN tail ELSE s_cmdq_tail
Undrained ==
  [i \in 1 .. Sub(s_cmdq_head, Taken) |-> s_cmdq[(Taken + i - 1) % SSC_CMDQ_SIZE]]

\* READY is never shown while a command byte is on its way to the engine, whatever
\* resets overtake it and however often the program wrote without looking.
ReadyMeansTaken ==
  Ready => /\ \A i \in DOMAIN Undrained : Undrained[i] # "data"
           /\ cpc \in {"push_fill", "push_store"} => ccmd # "data"

\* A command slot is never refilled while core 0 may still read it, across the
\* wrap of the indices.
CommandSlotsFree ==
  /\ Sub(s_cmdq_head, s_cmdq_tail) <= SSC_CMDQ_SIZE
  /\ cpc \in {"push_fill", "push_store"} => Sub(s_cmdq_head, s_cmdq_tail) < SSC_CMDQ_SIZE

\* A batch started below SSC_AHEAD never runs over samples not yet played.
SampleSlotsFree ==
  /\ Sub(smp, s_smp_tail) <= SSC_SMP_SIZE
  /\ epc = "scan" /\ left > 0 => Sub(smp, s_smp_tail) < SSC_SMP_SIZE

\* The indices of a ring between two of its users' copies, from a up to b, and the
\* data bytes in those slots.
Between(a, b) == {i \in Index : Sub(i, a) < Sub(b, a)}
DataIn(a, b) == {i \in Between(a, b) : s_cmdq[i % SSC_CMDQ_SIZE] = "data"}

Pushing == cpc \in {"push_fill", "push_store"}
DataPending == IF Pushing /\ ccmd = "data" THEN 1 ELSE 0
CtrlPending == IF Pushing /\ ccmd # "data" THEN 1 ELSE 0

\* The copies of a ring's indices that each core works on are in order.
CmdIndices ==
  /\ Pushing => chead = s_cmdq_head
  /\ cpc = "push_store" => s_cmdq[chead % SSC_CMDQ_SIZE] = ccmd
  /\ epc = "exec" => /\ Sub(tail, s_cmdq_tail) <= Sub(head, s_cmdq_tail)
                     /\ Sub(head, s_cmdq_tail) <= Sub(s_cmdq_head, s_cmdq_tail)
SmpIndices ==
  /\ Sub(s_smp_head, s_smp_tail) <= Sub(smp, s_smp_tail)
  /\ epc # "scan" => s_smp_head = smp
  /\ Sub(smp, s_smp_tail) + (IF epc = "scan" THEN left ELSE 0) <= SSC_AHEAD + SSC_BATCH - 1
  /\ cpc = "tick_copy" => s_smp_tail # s_smp_head

\* Every byte counted in s_cmd_seq was consumed, is in the ring, is being pushed or
\* was dropped; READY counts none twice.
BytesCounted ==
  /\ s_released <= s_consumed
  /\ s_consumed + Cardinality(DataIn(Taken, s_cmdq_head)) + DataPending <= s_cmd_seq
  /\ s_cmd_dropped = 0 =>
       s_consumed + Cardinality(DataIn(Taken, s_cmdq_head)) + DataPending = s_cmd_seq
  /\ s_cmd_dropped <= s_cmd_seq + ctrls

\* What a program that waits for READY has in the ring: one byte the engine has not
\* taken, one that it took in the drain under way, and its control writes.
PoliteRoom ==
  /\ saw => Ready
  /\ polite => s_cmd_seq <= s_released + 1
  /\ polite /\ epc = "exec" => Cardinality(DataIn(s_cmdq_tail, head)) <= 1
  /\ Sub(s_cmdq_head, Taken) + CtrlPending <= ctrls + Cardinality(DataIn(Taken, s_cmdq_head))
  /\ Sub(s_cmdq_head, s_cmdq_tail) + CtrlPending
       <= ctrls + Cardinality(DataIn(s_cmdq_tail, s_cmdq_head))

\* Neither core overwrites what the other may still read, in either ring of the
\* cartridge.
RingsSafe == SscTypeOK /\ CommandSlotsFree /\ SampleSlotsFree

\* A program that waits for READY before every byte loses no command, as long as
\* its control writes leave two slots of the ring.
PoliteLosesNothing == polite /\ MaxCtrl + 2 <= SSC_CMDQ_SIZE => s_cmd_dropped = 0

\* "not READY after $FF7D reset" is the failure glue_test.cpp:226 tests for: once a
\* reset has been served and no byte was written since, READY is shown, as long as
\* the ring dropped nothing.
ReadyAfterReset == quiet /\ s_cmd_dropped = 0 => Ready

\* READY says the truth to every program, and is enough for one that waits for it
\* (ssc_read(), ssc_write(), engine_drain_commands()).
ReadyFaithful == ReadyMeansTaken /\ PoliteLosesNothing /\ ReadyAfterReset

\* The inductive invariant behind RingsSafe and ReadyFaithful.
SscInv ==
  /\ SscTypeOK /\ CommandSlotsFree /\ CmdIndices /\ SmpIndices
  /\ BytesCounted /\ PoliteRoom /\ PoliteLosesNothing /\ ReadyAfterReset

\* READY always comes back to a program that waits for it.
ReadyReturns == polite => []<>Ready
=============================================================================

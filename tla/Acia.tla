-------------------------------- MODULE Acia --------------------------------
(***************************************************************************)
(* The RS-232 Pak: the MC6551 that a CoCo program drives and its transport  *)
(* over UART0.  Bytes are numbered: the host sends 1, 2, ..., the program   *)
(* writes -1, -2, ...  Of the command register the three bits the chip      *)
(* decodes are kept, of the control register the byte time it selects.      *)
(* UART0 itself is external.                                                *)
(***************************************************************************)
EXTENDS Integers, Sequences

CONSTANTS
  RING_SIZE,            \* 256
  INT_HALF,             \* 2^31: an int32_t runs from -INT_HALF to INT_HALF - 1
  BYTE_TIMES,           \* the values cycles_per_byte takes; 1 is "no throttle"
  TICKS,                \* cycles of one scanline
  MaxSent, MaxWritten   \* bounds: bytes of the host and of the program

ASSUME AciaAssumption ==
  /\ RING_SIZE \in Nat /\ RING_SIZE > 1 /\ INT_HALF \in Nat /\ INT_HALF > 1 /\ 1 \in BYTE_TIMES
  /\ \A t \in BYTE_TIMES \cup TICKS : t \in 1 .. INT_HALF - 1

VARIABLES
  chip,      \* the registers and latches of mc6551.cpp
  serial,    \* hal_rs232.cpp's ring, and what waits in UART0's driver
  rs232,     \* g_serial_mode is SERIAL_MODE_RS232
  wire,      \* history: the program's bytes handed to Serial.write()
  prog       \* history of the program: bytes written and read, what it knows, and what was discarded

avars == <<chip, serial, rs232, wire, prog>>

\* What the program sees of a byte that goes out: its own.  No byte is 0.
Own(b) == IF b < 0 THEN <<b>> ELSE <<>>

Wrap(n) == ((n + INT_HALF) % (2 * INT_HALF)) - INT_HALF

-----------------------------------------------------------------------------
(* The ring and UART0.                                                      *)

ring_count(s) == (s.head - s.tail + RING_SIZE) % RING_SIZE

Ring(s) == [i \in 1 .. ring_count(s) |-> s.ring[(s.tail + i - 1) % RING_SIZE]]

ring_clear(s) == [s EXCEPT !.head = 0, !.tail = 0]

rs232_rx(s) == [s EXCEPT !.tail = (@ + 1) % RING_SIZE]

\* As many bytes as there are, and as there is room for.
hal_rs232_poll(s) ==
  LET free == RING_SIZE - 1 - ring_count(s)
      n == IF Len(s.uart) < free THEN Len(s.uart) ELSE free
      place(i) == (i - s.head + RING_SIZE) % RING_SIZE
  IN  [s EXCEPT !.ring = [i \in 0 .. RING_SIZE - 1 |-> IF place(i) < n THEN s.uart[place(i) + 1] ELSE s.ring[i]],
                !.head = (@ + n) % RING_SIZE, !.uart = SubSeq(@, n + 1, Len(@))]

hal_rs232_flush(s) == [ring_clear(s) EXCEPT !.uart = <<>>]

-----------------------------------------------------------------------------
(* The chip.                                                                *)

\* recompute_command(): RX interrupts are on unless the bit says otherwise.
Command(rx_off, tx_on, echo) == [rx_irq_en |-> ~rx_off, tx_irq_en |-> tx_on, echo_en |-> echo]

mc6551_reset ==
  [command |-> Command(FALSE, FALSE, FALSE), cycles_per_byte |-> 1, rx_data |-> 0,
   tdre |-> TRUE, rdrf |-> FALSE, overrun |-> FALSE, irq_flag |-> FALSE,
   tx_busy |-> FALSE, tx_countdown |-> 1, tx_pending |-> 0, rx_countdown |-> 1, overrun_count |-> 0]

set_irq(c, enabled) == [c EXCEPT !.irq_flag = @ \/ enabled]

\* tx_submit(): a byte goes out at once, or waits in a slot of one.
tx_submit(c, b) ==
  IF c.tx_busy THEN [c EXCEPT !.tx_pending = b]
  ELSE [c EXCEPT !.tx_busy = TRUE, !.tx_countdown = c.cycles_per_byte, !.tdre = FALSE]

Sends(c, b) == IF c.tx_busy THEN 0 ELSE b

\* The TX half of mc6551_tick(): the new chip, and the byte that went out.
TxDone(c, cyc) ==
  LET left == Wrap(c.tx_countdown - cyc)
      done == set_irq([c EXCEPT !.tx_countdown = left, !.tx_busy = FALSE, !.tdre = TRUE], c.command.tx_irq_en)
      idle == [done EXCEPT !.tx_pending = 0]
  IN  CASE ~c.tx_busy -> <<c, 0>>
        [] c.tx_busy /\ left > 0 -> <<[c EXCEPT !.tx_countdown = left], 0>>
        [] c.tx_busy /\ left <= 0 /\ c.tx_pending = 0 -> <<done, 0>>
        [] OTHER -> <<tx_submit(idle, c.tx_pending), c.tx_pending>>

\* Mutant: a byte that arrives replaces one that was not read.
RxReplaces(c, b) ==
  LET got == set_irq([c EXCEPT !.rx_data = b, !.rdrf = TRUE, !.rx_countdown = c.cycles_per_byte],
                     c.command.rx_irq_en)
  IN  IF c.command.echo_en THEN tx_submit(got, b) ELSE got

\* The RX half: one byte off the ring, into the data register or dropped.
RxIntake(c, b) ==
  LET got == set_irq([c EXCEPT !.rx_data = b, !.rdrf = TRUE, !.rx_countdown = c.cycles_per_byte],
                     c.command.rx_irq_en)
  IN  IF c.rdrf
      THEN [c EXCEPT !.overrun = TRUE, !.overrun_count = @ + 1, !.rx_countdown = c.cycles_per_byte]
      ELSE IF c.command.echo_en THEN tx_submit(got, b) ELSE got

-----------------------------------------------------------------------------
AciaInit ==
  /\ chip = mc6551_reset
  /\ serial = [ring |-> [i \in 0 .. RING_SIZE - 1 |-> 0], head |-> 0, tail |-> 0, uart |-> <<>>]
  /\ rs232 = TRUE /\ wire = <<>>
  /\ prog = [sent |-> 0, written |-> <<>>, taken |-> <<>>, empty |-> FALSE, told |-> FALSE, torn |-> FALSE,
             gone |-> 0]

\* The bytes between the host and the program.
Register == IF chip.rdrf THEN <<chip.rx_data>> ELSE <<>>
InFlight == Register \o Ring(serial) \o serial.uart

\* Every early loss but an overrun: what a reset or a flush throws away, and the count it forgets.
Discard(n) == prog.gone + n

\* External: a byte reaches UART0.
HostSends ==
  /\ prog.sent < MaxSent
  /\ serial' = [serial EXCEPT !.uart = Append(@, prog.sent + 1)]
  /\ prog' = [prog EXCEPT !.sent = @ + 1]
  /\ UNCHANGED <<chip, rs232, wire>>

\* hal_process_input(), once a frame.
Poll ==
  /\ rs232
  /\ serial' = hal_rs232_poll(serial)
  /\ UNCHANGED <<chip, rs232, wire, prog>>

\* mc6551_tick(), once a scanline while the pak is on.
mc6551_tick(cyc) ==
  LET tx == TxDone(chip, cyc)
      c == [tx[1] EXCEPT !.rx_countdown = Wrap(@ - cyc)]
      b == Head(Ring(serial))
      intake == c.rx_countdown <= 0 /\ ring_count(serial) > 0
  IN  /\ rs232
      /\ chip' = IF intake THEN RxIntake(c, b) ELSE c
      /\ serial' = IF intake THEN rs232_rx(serial) ELSE serial
      /\ wire' = wire \o Own(tx[2])
      /\ prog' = IF intake /\ ~c.rdrf THEN [prog EXCEPT !.told = FALSE] ELSE prog
      /\ UNCHANGED rs232

\* mc6551_read(0).
ReadData ==
  /\ rs232
  /\ chip' = [chip EXCEPT !.rdrf = FALSE, !.overrun = FALSE]
  /\ prog' = [prog EXCEPT !.taken = IF chip.rdrf THEN Append(@, chip.rx_data) ELSE @]
  /\ UNCHANGED <<serial, rs232, wire>>

\* mc6551_read(1).
ReadStatus ==
  /\ rs232
  /\ chip' = [chip EXCEPT !.irq_flag = FALSE]
  /\ prog' = [prog EXCEPT !.empty = chip.tdre, !.told = @ \/ chip.rdrf]
  /\ UNCHANGED <<serial, rs232, wire>>

\* mc6551_write(0), by a program that has seen TDRE since its last byte.
WriteData ==
  /\ rs232 /\ prog.empty /\ Len(prog.written) < MaxWritten
  /\ LET b == -(Len(prog.written) + 1) IN
       /\ chip' = tx_submit(chip, b)
       /\ wire' = wire \o Own(Sends(chip, b))
       /\ prog' = [prog EXCEPT !.written = Append(@, b), !.empty = FALSE]
  /\ UNCHANGED <<serial, rs232>>

\* mc6551_write(1): programmed reset.  The byte on the line stays there.
ProgrammedReset ==
  /\ rs232
  /\ chip' = [chip EXCEPT !.overrun = FALSE, !.rdrf = FALSE, !.tdre = TRUE, !.irq_flag = FALSE,
                          !.command = Command(FALSE, FALSE, FALSE)]
  /\ prog' = [prog EXCEPT !.torn = @ \/ chip.tx_busy, !.gone = Discard(IF chip.rdrf THEN 1 ELSE 0)]
  /\ UNCHANGED <<serial, rs232, wire>>

\* mc6551_write(2).  Enabling RX interrupts over a full register raises none.
WriteCommand ==
  /\ rs232
  /\ \E rx_off, tx_on, echo \in BOOLEAN : chip' = [chip EXCEPT !.command = Command(rx_off, tx_on, echo)]
  /\ prog' = [prog EXCEPT !.told = @ \/ ~chip.command.rx_irq_en, !.torn = @ \/ chip'.command.echo_en]
  /\ UNCHANGED <<serial, rs232, wire>>

\* mc6551_write(3): the countdowns that run keep their value.
WriteControl ==
  /\ rs232
  /\ \E t \in BYTE_TIMES \ {chip.cycles_per_byte} : chip' = [chip EXCEPT !.cycles_per_byte = t]
  /\ UNCHANGED <<serial, rs232, wire, prog>>

\* machine_reset(): the ring keeps its bytes.
MachineReset ==
  /\ chip' = mc6551_reset
  /\ prog' = [prog EXCEPT !.empty = FALSE, !.torn = @ \/ chip.tx_pending # 0,
                          !.gone = Discard(chip.overrun_count + (IF chip.rdrf THEN 1 ELSE 0))]
  /\ UNCHANGED <<serial, rs232, wire>>

\* serial_mode_apply(): entering the debug mode keeps what is buffered.
serial_mode_apply ==
  LET flushed == hal_rs232_flush(serial)
      lost == IF rs232 THEN 0 ELSE Len(Ring(serial) \o serial.uart)
  IN  /\ rs232' = ~rs232
      /\ chip' = mc6551_reset
      /\ serial' = IF rs232' THEN flushed ELSE serial
      /\ prog' = [prog EXCEPT !.empty = FALSE, !.torn = @ \/ chip.tx_pending # 0,
                              !.gone = Discard(lost + chip.overrun_count + (IF chip.rdrf THEN 1 ELSE 0))]
      /\ UNCHANGED wire

AciaNext ==
  \/ HostSends \/ Poll \/ (\E cyc \in TICKS : mc6551_tick(cyc))
  \/ ReadData \/ ReadStatus \/ WriteData \/ ProgrammedReset \/ WriteCommand \/ WriteControl
  \/ MachineReset \/ serial_mode_apply

AciaSpec == AciaInit /\ [][AciaNext]_avars

-----------------------------------------------------------------------------
Ascending(s) == \A i \in 1 .. Len(s) - 1 : s[i] < s[i + 1]

\* What a program that honours TDRE writes reaches the wire in order and never twice, and all of it at once
\* unless the receiver echoes, or a programmed reset reported TDRE over a byte still on the line: only then
\* can the slot of one be overwritten.
TxInOrder ==
  /\ Ascending([i \in 1 .. Len(wire) |-> -wire[i]])
  /\ ~prog.torn => wire = prog.written

\* Bytes of the host are read in order and none twice, and each one is read, still on its way, discarded
\* by a reset or a mode change, or counted as an overrun.
RxAccounted ==
  /\ Ascending(prog.taken \o InFlight)
  /\ prog.sent = Len(prog.taken \o InFlight) + prog.gone + chip.overrun_count

\* A byte that arrived with RX interrupts on keeps FIRQ requested until a status read has reported it.
NoLostWakeup == chip.rdrf /\ chip.command.rx_irq_en => chip.irq_flag \/ prog.told

\* The three above: the RS-232 Pak loses and reorders nothing it does not report (mc6551.cpp, hal_rs232.cpp).
SerialFaithful == TxInOrder /\ RxAccounted /\ NoLostWakeup

-----------------------------------------------------------------------------
(* The inductive invariant behind SerialFaithful.                           *)

ChipShape(c) ==
  /\ DOMAIN c = DOMAIN mc6551_reset /\ DOMAIN c.command = DOMAIN mc6551_reset.command
  /\ c.tx_busy \in BOOLEAN /\ c.tdre \in BOOLEAN /\ c.rdrf \in BOOLEAN /\ c.irq_flag \in BOOLEAN
  /\ c.command.rx_irq_en \in BOOLEAN /\ c.command.tx_irq_en \in BOOLEAN /\ c.command.echo_en \in BOOLEAN
  /\ c.rx_data \in Int /\ c.tx_pending \in Int /\ c.overrun_count \in Nat
  /\ c.cycles_per_byte \in Int /\ c.tx_countdown \in Int /\ c.rx_countdown \in Int
SerialShape(s) ==
  /\ DOMAIN s = {"ring", "head", "tail", "uart"}
  /\ s.ring \in [0 .. RING_SIZE - 1 -> Int] /\ s.uart \in Seq(Int)
  /\ s.head \in 0 .. RING_SIZE - 1 /\ s.tail \in 0 .. RING_SIZE - 1
ProgShape(p) ==
  /\ DOMAIN p = {"sent", "written", "taken", "empty", "told", "torn", "gone"}
  /\ p.sent \in Nat /\ p.gone \in Nat /\ p.written \in Seq(Int) /\ p.taken \in Seq(Int)
  /\ p.empty \in BOOLEAN /\ p.told \in BOOLEAN /\ p.torn \in BOOLEAN
AciaShape == ChipShape(chip) /\ SerialShape(serial) /\ ProgShape(prog) /\ rs232 \in BOOLEAN /\ wire \in Seq(Int)

\* The program's bytes on the wire are in order, and the one that waits comes after them.
OnWire(w, pending, written) ==
  /\ \A i \in 1 .. Len(w) : w[i] < 0 /\ w[i] >= -written
  /\ \A i, j \in 1 .. Len(w) : i < j => w[i] > w[j]
  /\ pending < 0 => pending >= -written /\ \A i \in 1 .. Len(w) : w[i] > pending

\* Until something is torn nothing waits and TDRE tells the truth.
Untorn(c, p) ==
  ~p.torn =>
    /\ wire = p.written /\ c.tx_pending = 0 /\ ~c.command.echo_en
    /\ c.tdre = ~c.tx_busy /\ (p.empty => c.tdre)
TxKnown ==
  /\ OnWire(wire, chip.tx_pending, Len(prog.written))
  /\ chip.tx_pending # 0 => chip.tx_busy
  /\ Untorn(chip, prog)

\* The host's bytes, in order: read, in the register, in the ring and in UART0.
Rising(s) == \A i, j \in 1 .. Len(s) : i < j => s[i] < s[j]
Before(s, t) == \A i \in 1 .. Len(s), j \in 1 .. Len(t) : s[i] < t[j]
Sent(s, n) == \A i \in 1 .. Len(s) : s[i] \in 1 .. n
InLine(taken, register, ring, uart, n) ==
  /\ Rising(taken) /\ Rising(register) /\ Rising(ring) /\ Rising(uart)
  /\ Before(taken, register) /\ Before(taken, ring) /\ Before(taken, uart)
  /\ Before(register, ring) /\ Before(register, uart) /\ Before(ring, uart)
  /\ Sent(taken, n) /\ Sent(register, n) /\ Sent(ring, n) /\ Sent(uart, n)
RxKnown ==
  /\ InLine(prog.taken, Register, Ring(serial), serial.uart, prog.sent)
  /\ prog.sent = Len(prog.taken) + Len(Register) + Len(Ring(serial)) + Len(serial.uart)
                   + prog.gone + chip.overrun_count

AciaIInv == AciaShape /\ TxKnown /\ RxKnown /\ NoLostWakeup
=============================================================================

------------------------------- MODULE Becker -------------------------------
(***************************************************************************)
(* The Becker port (src/src/core/becker.cpp): two lock-free rings between   *)
(* the emulated CPU (core 1) and the DriveWire back end (core 0).           *)
(*                                                                          *)
(*    RX ring   back end -> CoCo    producer core 0, consumer core 1        *)
(*    TX ring   CoCo -> back end    producer core 1, consumer core 0        *)
(*                                                                          *)
(* Each function runs on one core as a sequence of steps; cpc and bpc say   *)
(* where core 1 and core 0 are.  A step ends where the other core could see *)
(* or change something the rest of the function depends on: at a store to   *)
(* an index, to a flag, to a mark, and between a test and the copy it       *)
(* guards.  The memory barriers of the code make this interleaving          *)
(* semantics the right one.                                                 *)
(*                                                                          *)
(* Indices are free-running uint32_t values: W stands for 2^32.  The byte   *)
(* budgets MaxTx and MaxRx (bytes accepted by each ring) stay below W \div 2,*)
(* as traffic does for the first 2 GiB; START lets the indices wrap.        *)
(***************************************************************************)
EXTENDS Integers, Sequences, FiniteSets

CONSTANTS
  Byte,        \* the values a ring can carry
  RX_SIZE,     \* 4096 in the code
  TX_SIZE,     \* 1024
  W,           \* 2^32: the indices are uint32_t
  START,       \* value of the four indices when the model starts
  POP_MAX,     \* 512: size of the back end's buffer
  MaxTx,       \* bound: bytes the CoCo writes
  MaxRx        \* bound: bytes the back end pushes

ASSUME SizeAssumption ==
  /\ RX_SIZE \in Nat \ {0}
  /\ TX_SIZE \in Nat \ {0}
  /\ W \in Nat \ {0}
  /\ START \in 0 .. W-1
  /\ POP_MAX \in Nat \ {0}
ASSUME DivideAssumption == W % RX_SIZE = 0 /\ W % TX_SIZE = 0
ASSUME BudgetAssumption ==
  /\ MaxTx \in Nat /\ TX_SIZE + MaxTx < W /\ 2 * MaxTx < W
  /\ MaxRx \in Nat /\ RX_SIZE + MaxRx < W /\ 2 * MaxRx < W
ASSUME ByteAssumption == Byte # {}

VARIABLES
  rx_buf, rx_head, rx_tail,          \* RX ring
  tx_buf, tx_head, tx_tail,          \* TX ring
  rx_flush_req, rx_flush_mark,       \* core 0 asks core 1 to skip
  tx_flush_req, tx_flush_mark,       \* core 1 asks core 0 to skip
  reset_req,                         \* the CoCo was reset
  link_up,
  g_becker_tx_pending, notified,     \* wake-up of the back-end task
  bytes_from_coco, rx_total,         \* bytes accepted by each ring so far
  cpc, cbyte, coco_got,              \* core 1: position, byte at hand, last byte returned
  bpc, bn, bbuf, popped              \* core 0: position, n, bytes at hand, last tx_pop result

coreOneVars == <<cpc, cbyte, coco_got>>
coreZeroVars == <<bpc, bn, bbuf, popped>>
rxRing == <<rx_buf, rx_head, rx_tail, rx_total>>
txRing == <<tx_buf, tx_head, tx_tail, bytes_from_coco>>
flushVars == <<rx_flush_req, rx_flush_mark, tx_flush_req, tx_flush_mark, reset_req>>
wakeVars == <<g_becker_tx_pending, notified>>
beckerVars == <<rxRing, txRing, flushVars, wakeVars, link_up, coreOneVars, coreZeroVars>>

Index == 0 .. W-1

\* uint32_t subtraction and addition.
Sub(a, b) == IF a >= b THEN a - b ELSE a - b + W
Add(a, n) == IF a + n >= W THEN a + n - W ELSE a + n

RxUsed == Sub(rx_head, rx_tail)
TxUsed == Sub(tx_head, tx_tail)

\* Mutant: skip_to() without the signed view of the difference.
SkipToUnsigned(tail, mark) == IF Sub(mark, tail) > 0 THEN mark ELSE tail

\* Advance a consumer index to the mark unless it is already past it:
\* (int32_t)(mark - tail) > 0.
SkipTo(tail, mark) ==
  IF Sub(mark, tail) > 0 /\ 2 * Sub(mark, tail) < W THEN mark ELSE tail

\* Mutant: a flush that drops everything, the bytes after the mark included.
RxFlushedAll == rx_head

\* Where a flush request moves the tail of a ring.
RxFlushed == SkipTo(rx_tail, rx_flush_mark)
TxFlushed == SkipTo(tx_tail, tx_flush_mark)

\* Mutant: off by one.
RxSpaceMore == RX_SIZE - RxUsed + 1

\* becker_write_data's test, becker_rx_space(), and n of becker_tx_pop.
TxFull == TxUsed >= TX_SIZE
RxSpace == RX_SIZE - RxUsed
PopCount == IF TxUsed < POP_MAX THEN TxUsed ELSE POP_MAX

\* What fresh ring memory holds; no slot is read before it is written.
AnyByte == CHOOSE b \in Byte : TRUE

Init ==
  /\ rx_buf = [k \in 0 .. RX_SIZE-1 |-> AnyByte]
  /\ tx_buf = [k \in 0 .. TX_SIZE-1 |-> AnyByte]
  /\ rx_head = START /\ rx_tail = START
  /\ tx_head = START /\ tx_tail = START
  /\ rx_flush_req = FALSE /\ rx_flush_mark = START
  /\ tx_flush_req = FALSE /\ tx_flush_mark = START
  /\ reset_req = FALSE /\ link_up = FALSE
  /\ g_becker_tx_pending = FALSE /\ notified = FALSE
  /\ bytes_from_coco = 0 /\ rx_total = 0
  /\ cpc = "idle" /\ cbyte = AnyByte /\ coco_got = <<>>
  /\ bpc = "ready" /\ bn = 0 /\ bbuf = <<>> /\ popped = <<>>

-----------------------------------------------------------------------------
(* Core 1: the CPU side.                                                    *)

\* service_rx_flush() up to the store to rx_tail; both register reads start so.
ReadBegin(clear, next) ==
  /\ cpc = "idle"
  /\ IF rx_flush_req
       THEN /\ rx_tail' = RxFlushed
            /\ cpc' = clear
       ELSE /\ cpc' = next
            /\ UNCHANGED rx_tail
  /\ UNCHANGED <<rx_buf, rx_head, rx_total, txRing, flushVars, wakeVars, link_up,
                 cbyte, coco_got, coreZeroVars>>

ReadStatusBegin == ReadBegin("clear_status", "status")
ReadDataBegin == ReadBegin("clear_look", "look")

\* service_rx_flush(): rx_flush_req = false.
ReadClear ==
  /\ cpc \in {"clear_status", "clear_look"}
  /\ rx_flush_req' = FALSE
  /\ cpc' = IF cpc = "clear_status" THEN "status" ELSE "look"
  /\ UNCHANGED <<rxRing, txRing, rx_flush_mark, tx_flush_req, tx_flush_mark, reset_req,
                 wakeVars, link_up, cbyte, coco_got, coreZeroVars>>

\* The status bit itself is not stored anywhere.
ReadStatusEnd ==
  /\ cpc = "status"
  /\ cpc' = "idle"
  /\ UNCHANGED <<rxRing, txRing, flushVars, wakeVars, link_up, cbyte, coco_got, coreZeroVars>>

\* An empty ring reads as 0 and consumes nothing.
ReadDataLook ==
  /\ cpc = "look"
  /\ cpc' = IF rx_head = rx_tail THEN "idle" ELSE "copy"
  /\ UNCHANGED <<rxRing, txRing, flushVars, wakeVars, link_up, cbyte, coco_got, coreZeroVars>>

ReadDataCopy ==
  /\ cpc = "copy"
  /\ cbyte' = rx_buf[rx_tail % RX_SIZE]
  /\ cpc' = "take"
  /\ UNCHANGED <<rxRing, txRing, flushVars, wakeVars, link_up, coco_got, coreZeroVars>>

ReadDataEnd ==
  /\ cpc = "take"
  /\ rx_tail' = Add(rx_tail, 1)
  /\ coco_got' = <<cbyte>>
  /\ cpc' = "idle"
  /\ UNCHANGED <<rx_buf, rx_head, rx_total, txRing, flushVars, wakeVars, link_up, cbyte,
                 coreZeroVars>>

\* A full ring drops the byte.
WriteBegin(b) ==
  /\ cpc = "idle" /\ bytes_from_coco < MaxTx
  /\ IF TxFull
       THEN UNCHANGED <<cpc, cbyte>>
       ELSE cpc' = "fill" /\ cbyte' = b
  /\ UNCHANGED <<rxRing, txRing, flushVars, wakeVars, link_up, coco_got, coreZeroVars>>

WriteFill ==
  /\ cpc = "fill"
  /\ tx_buf' = [tx_buf EXCEPT ![tx_head % TX_SIZE] = cbyte]
  /\ cpc' = "publish"
  /\ UNCHANGED <<rxRing, tx_head, tx_tail, bytes_from_coco, flushVars, wakeVars, link_up,
                 cbyte, coco_got, coreZeroVars>>

WriteEnd ==
  /\ cpc = "publish"
  /\ tx_head' = Add(tx_head, 1)
  /\ bytes_from_coco' = bytes_from_coco + 1
  /\ g_becker_tx_pending' = TRUE
  /\ cpc' = "idle"
  /\ UNCHANGED <<rxRing, tx_buf, tx_tail, flushVars, notified, link_up, cbyte, coco_got,
                 coreZeroVars>>

\* becker_reset(), one step per store.
ResetBegin ==
  /\ cpc = "idle"
  /\ rx_tail' = rx_head
  /\ cpc' = "reset_mark"
  /\ UNCHANGED <<rx_buf, rx_head, rx_total, txRing, flushVars, wakeVars, link_up, cbyte,
                 coco_got, coreZeroVars>>

ResetMark ==
  /\ cpc = "reset_mark"
  /\ tx_flush_mark' = tx_head
  /\ cpc' = "reset_flush"
  /\ UNCHANGED <<rxRing, txRing, rx_flush_req, rx_flush_mark, tx_flush_req, reset_req,
                 wakeVars, link_up, cbyte, coco_got, coreZeroVars>>

ResetFlush ==
  /\ cpc = "reset_flush"
  /\ tx_flush_req' = TRUE
  /\ cpc' = "reset_req"
  /\ UNCHANGED <<rxRing, txRing, rx_flush_req, rx_flush_mark, tx_flush_mark, reset_req,
                 wakeVars, link_up, cbyte, coco_got, coreZeroVars>>

ResetEnd ==
  /\ cpc = "reset_req"
  /\ reset_req' = TRUE
  /\ cpc' = "idle"
  /\ UNCHANGED <<rxRing, txRing, rx_flush_req, rx_flush_mark, tx_flush_req, tx_flush_mark,
                 wakeVars, link_up, cbyte, coco_got, coreZeroVars>>

\* becker_scanline_tick() / becker_notify_backend().
ScanlineTick ==
  /\ cpc = "idle" /\ g_becker_tx_pending
  /\ g_becker_tx_pending' = FALSE
  /\ notified' = TRUE
  /\ UNCHANGED <<rxRing, txRing, flushVars, link_up, coreOneVars, coreZeroVars>>

\* The steps of core 1 that are in the middle of a function.
CpuStep ==
  \/ ReadClear \/ ReadStatusEnd \/ ReadDataLook \/ ReadDataCopy \/ ReadDataEnd
  \/ WriteFill \/ WriteEnd
  \/ ResetMark \/ ResetFlush \/ ResetEnd

-----------------------------------------------------------------------------
(* Core 0: the back-end side.  A function is entered when bpc = "ready" and *)
(* brings bpc back to "ready".                                              *)

PopBegin ==
  /\ bpc = "ready"
  /\ IF tx_flush_req
       THEN /\ tx_tail' = TxFlushed
            /\ bpc' = "pop_clear"
       ELSE /\ bpc' = "pop_avail"
            /\ UNCHANGED tx_tail
  /\ UNCHANGED <<rxRing, tx_buf, tx_head, bytes_from_coco, flushVars, wakeVars, link_up,
                 coreOneVars, bn, bbuf, popped>>

PopClear ==
  /\ bpc = "pop_clear"
  /\ tx_flush_req' = FALSE
  /\ bpc' = "pop_avail"
  /\ UNCHANGED <<rxRing, txRing, rx_flush_req, rx_flush_mark, tx_flush_mark, reset_req,
                 wakeVars, link_up, coreOneVars, bn, bbuf, popped>>

\* n is fixed here; the copy takes what lay in the ring at this moment.
PopAvail ==
  /\ bpc = "pop_avail"
  /\ bn' = PopCount
  /\ IF TxUsed = 0
       THEN bpc' = "ready" /\ popped' = <<>>
       ELSE bpc' = "pop_copy" /\ UNCHANGED popped
  /\ UNCHANGED <<rxRing, txRing, flushVars, wakeVars, link_up, coreOneVars, bbuf>>

PopCopy ==
  /\ bpc = "pop_copy"
  /\ bbuf' = [i \in 1 .. bn |-> tx_buf[Add(tx_tail, i - 1) % TX_SIZE]]
  /\ bpc' = "pop_take"
  /\ UNCHANGED <<rxRing, txRing, flushVars, wakeVars, link_up, coreOneVars, bn, popped>>

PopEnd ==
  /\ bpc = "pop_take"
  /\ tx_tail' = Add(tx_tail, bn)
  /\ popped' = bbuf
  /\ bpc' = "ready"
  /\ UNCHANGED <<rxRing, tx_buf, tx_head, bytes_from_coco, flushVars, wakeVars, link_up,
                 coreOneVars, bn, bbuf>>

\* Takes what fits; the caller's buffer is s.
PushBegin(s) ==
  /\ bpc = "ready" /\ rx_total + Len(s) <= MaxRx
  /\ bn' = IF Len(s) < RxSpace THEN Len(s) ELSE RxSpace
  /\ bbuf' = s
  /\ bpc' = "push_copy"
  /\ UNCHANGED <<rxRing, txRing, flushVars, wakeVars, link_up, coreOneVars, popped>>

PushCopy ==
  /\ bpc = "push_copy"
  /\ rx_buf' = [k \in DOMAIN rx_buf |->
                  IF \E i \in 1 .. bn : Add(rx_head, i - 1) % RX_SIZE = k
                    THEN bbuf[CHOOSE i \in 1 .. bn : Add(rx_head, i - 1) % RX_SIZE = k]
                    ELSE rx_buf[k]]
  /\ bpc' = "push_publish"
  /\ UNCHANGED <<rx_head, rx_tail, rx_total, txRing, flushVars, wakeVars, link_up,
                 coreOneVars, bn, bbuf, popped>>

PushEnd ==
  /\ bpc = "push_publish"
  /\ rx_head' = Add(rx_head, bn)
  /\ rx_total' = rx_total + bn
  /\ bpc' = "ready"
  /\ UNCHANGED <<rx_buf, rx_tail, txRing, flushVars, wakeVars, link_up, coreOneVars,
                 bn, bbuf, popped>>

\* becker_clear_reset(), entered from the back end or from set_link_up(false).
\* back is where the function returns to, skipped where its first store leaves it.
ClearReset(skipped, back) ==
  /\ IF reset_req
       THEN /\ tx_tail' = TxFlushed
            /\ bpc' = skipped
       ELSE /\ bpc' = back
            /\ UNCHANGED tx_tail
  /\ UNCHANGED <<rxRing, tx_buf, tx_head, bytes_from_coco, flushVars, wakeVars, link_up,
                 coreOneVars, bn, bbuf, popped>>

ClearBegin == bpc = "ready" /\ ClearReset("clear_flush", "ready")
DownClear == bpc = "down_clear" /\ ClearReset("down_flush", "down_mark")

ClearFlush ==
  /\ bpc \in {"clear_flush", "down_flush"}
  /\ tx_flush_req' = FALSE
  /\ bpc' = IF bpc = "clear_flush" THEN "clear_req" ELSE "down_req"
  /\ UNCHANGED <<rxRing, txRing, rx_flush_req, rx_flush_mark, tx_flush_mark, reset_req,
                 wakeVars, link_up, coreOneVars, bn, bbuf, popped>>

ClearEnd ==
  /\ bpc \in {"clear_req", "down_req"}
  /\ reset_req' = FALSE
  /\ bpc' = IF bpc = "clear_req" THEN "ready" ELSE "down_mark"
  /\ UNCHANGED <<rxRing, txRing, rx_flush_req, rx_flush_mark, tx_flush_req, tx_flush_mark,
                 wakeVars, link_up, coreOneVars, bn, bbuf, popped>>

\* becker_set_link_up(true).
LinkUp ==
  /\ bpc = "ready"
  /\ link_up' = TRUE
  /\ UNCHANGED <<rxRing, txRing, flushVars, wakeVars, coreOneVars, coreZeroVars>>

\* becker_set_link_up(false): a reset keeps the bytes written since, a real
\* link loss drops the whole TX ring.
DownBegin ==
  /\ bpc = "ready"
  /\ bpc' = IF reset_req THEN "down_clear" ELSE "down_drop"
  /\ UNCHANGED <<rxRing, txRing, flushVars, wakeVars, link_up, coreOneVars, bn, bbuf, popped>>

DownDrop ==
  /\ bpc = "down_drop"
  /\ tx_tail' = tx_head
  /\ bpc' = "down_mark"
  /\ UNCHANGED <<rxRing, tx_buf, tx_head, bytes_from_coco, flushVars, wakeVars, link_up,
                 coreOneVars, bn, bbuf, popped>>

DownMark ==
  /\ bpc = "down_mark"
  /\ rx_flush_mark' = rx_head
  /\ bpc' = "down_ask"
  /\ UNCHANGED <<rxRing, txRing, rx_flush_req, tx_flush_req, tx_flush_mark, reset_req,
                 wakeVars, link_up, coreOneVars, bn, bbuf, popped>>

DownAsk ==
  /\ bpc = "down_ask"
  /\ rx_flush_req' = TRUE
  /\ bpc' = "down_end"
  /\ UNCHANGED <<rxRing, txRing, rx_flush_mark, tx_flush_req, tx_flush_mark, reset_req,
                 wakeVars, link_up, coreOneVars, bn, bbuf, popped>>

DownEnd ==
  /\ bpc = "down_end"
  /\ link_up' = FALSE
  /\ bpc' = "ready"
  /\ UNCHANGED <<rxRing, txRing, flushVars, wakeVars, coreOneVars, bn, bbuf, popped>>

\* The steps of core 0 that are in the middle of a function.
BackendStep ==
  \/ PopClear \/ PopAvail \/ PopCopy \/ PopEnd
  \/ PushCopy \/ PushEnd
  \/ ClearFlush \/ ClearEnd
  \/ DownClear \/ DownDrop \/ DownMark \/ DownAsk \/ DownEnd

-----------------------------------------------------------------------------
(* The port with the most general users: a CoCo program that touches the    *)
(* registers at will and a back end that calls the functions in any order.  *)

CpuCall ==
  \/ ReadStatusBegin \/ ReadDataBegin
  \/ \E b \in Byte : WriteBegin(b)
  \/ ResetBegin \/ ScanlineTick

BackendCall ==
  \/ PopBegin
  \/ \E s \in UNION {[1 .. k -> Byte] : k \in 1 .. POP_MAX} : PushBegin(s)
  \/ ClearBegin \/ LinkUp \/ DownBegin

Next == CpuCall \/ CpuStep \/ BackendCall \/ BackendStep

Spec == Init /\ [][Next]_beckerVars

-----------------------------------------------------------------------------
CpuPos == {"idle", "clear_status", "clear_look", "status", "look", "copy", "take",
           "fill", "publish", "reset_mark", "reset_flush", "reset_req"}
BackendPos == {"ready", "pop_clear", "pop_avail", "pop_copy", "pop_take", "push_copy",
               "push_publish", "clear_flush", "clear_req", "down_clear", "down_flush",
               "down_req", "down_drop", "down_mark", "down_ask", "down_end"}

\* The types of the port's variables.
TypeOK ==
  /\ rx_buf \in [0 .. RX_SIZE-1 -> Byte] /\ tx_buf \in [0 .. TX_SIZE-1 -> Byte]
  /\ rx_head \in Index /\ rx_tail \in Index /\ tx_head \in Index /\ tx_tail \in Index
  /\ rx_flush_mark \in Index /\ tx_flush_mark \in Index
  /\ rx_flush_req \in BOOLEAN /\ tx_flush_req \in BOOLEAN
  /\ reset_req \in BOOLEAN /\ link_up \in BOOLEAN
  /\ g_becker_tx_pending \in BOOLEAN /\ notified \in BOOLEAN
  /\ bytes_from_coco \in 0 .. MaxTx /\ rx_total \in 0 .. MaxRx
  /\ cpc \in CpuPos /\ cbyte \in Byte /\ coco_got \in Seq(Byte)
  /\ bpc \in BackendPos /\ bn \in Nat /\ bbuf \in Seq(Byte) /\ popped \in Seq(Byte)

\* A consumer index never passes its producer and a ring never holds more
\* than its size, whatever flush, reset and copy the two cores are in the
\* middle of (becker_read_data, becker_tx_pop, becker_write_data, becker_rx_push
\* all compute with head - tail).
RingsBounded == RxUsed <= RX_SIZE /\ TxUsed <= TX_SIZE

\* The lock-free claim of becker.h: no slot is stored to by the producing core
\* while the consuming core is copying it out.
RaceFree ==
  /\ cpc = "fill" /\ bpc = "pop_copy" =>
       \A i \in 0 .. bn-1 : Add(tx_tail, i) % TX_SIZE # tx_head % TX_SIZE
  /\ cpc = "copy" /\ bpc = "push_copy" =>
       \A i \in 0 .. bn-1 : Add(rx_head, i) % RX_SIZE # rx_tail % RX_SIZE

\* How far an index has run since the start.
Run(x) == Sub(x, START)

\* Where the indices and the marks stand: each ring's tail and mark have not run
\* further than its head, and the head is at most one ring ahead of the tail.
IndexInv ==
  /\ Run(rx_head) = rx_total /\ Run(tx_head) = bytes_from_coco
  /\ Run(rx_tail) <= rx_total /\ rx_total - Run(rx_tail) <= RX_SIZE
  /\ Run(tx_tail) <= bytes_from_coco /\ bytes_from_coco - Run(tx_tail) <= TX_SIZE
  /\ Run(rx_flush_mark) <= rx_total /\ Run(tx_flush_mark) <= bytes_from_coco

\* What a core has tested still holds when it acts on it, although the other
\* core has moved on.
TestedInv ==
  /\ cpc \in {"fill", "publish"} =>
       bytes_from_coco < MaxTx /\ bytes_from_coco - Run(tx_tail) < TX_SIZE
  /\ cpc \in {"copy", "take"} => Run(rx_tail) < rx_total
  /\ bpc \in {"pop_copy", "pop_take"} => bn <= bytes_from_coco - Run(tx_tail)
  /\ bpc \in {"push_copy", "push_publish"} =>
       /\ bn <= RX_SIZE - (rx_total - Run(rx_tail))
       /\ bn <= Len(bbuf) /\ rx_total + bn <= MaxRx

\* A byte being handed over is the one in its slot, and stays so until the index moves.
CopiedInv ==
  /\ cpc = "publish" => tx_buf[tx_head % TX_SIZE] = cbyte
  /\ cpc = "take" => rx_buf[rx_tail % RX_SIZE] = cbyte
  /\ bpc = "pop_take" =>
       Len(bbuf) = bn /\ \A i \in 1 .. bn : bbuf[i] = tx_buf[Add(tx_tail, i - 1) % TX_SIZE]
  /\ bpc = "push_publish" =>
       \A i \in 1 .. bn : rx_buf[Add(rx_head, i - 1) % RX_SIZE] = bbuf[i]

\* The inductive invariant behind RingsBounded and RaceFree.
BeckerInv == TypeOK /\ IndexInv /\ TestedInv

RxQueue == [i \in 1 .. RxUsed |-> rx_buf[Add(rx_tail, i - 1) % RX_SIZE]]
TxQueue == [i \in 1 .. TxUsed |-> tx_buf[Add(tx_tail, i - 1) % TX_SIZE]]

Pipe == INSTANCE BytePipe WITH
          toCoco <- RxQueue, toServer <- TxQueue, cocoGot <- coco_got, serverGot <- popped,
          RxCap <- RX_SIZE, TxCap <- TX_SIZE

\* The two rings implement a pair of bounded FIFO queues: what one core takes
\* out is, byte for byte and in order, what the other put in; bytes disappear
\* unread only from the old end (flush, reset, link loss).
PipeSpec == Pipe!Spec
=============================================================================

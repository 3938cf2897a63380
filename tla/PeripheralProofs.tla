------------------------- MODULE PeripheralProofs --------------------------
(***************************************************************************)
(* The board's ends: the screen, the keyboard and the DriveWire server.  For *)
(* layouts and line counts of any size, a line that is not drawn again is on *)
(* the screen, a border row that is not painted again has its colour, and    *)
(* after a frame every row of the layout shows what belongs there.  For any  *)
(* keyboard and queue, characters reach the key matrix in sequence, each     *)
(* under the SHIFT it was typed with, and nothing stays down.  For rings of  *)
(* any size, the indices of the Becker port stay in step, a ring is never    *)
(* overfilled or overdrawn, and the two cores never touch the same slot at   *)
(* the same time; and for buffers, bytes, sessions and resets of any number, *)
(* the port keeps these promises under the DriveWire client and its          *)
(* shutdown, no byte is lost between socket and ring, and no flush eats      *)
(* anything newer than what it was asked for.                                *)
(***************************************************************************)
EXTENDS DwClient, Display, Keyboard, Sequences, ModTheorems, SequenceTheorems,
        WellFoundedInduction, TLAPS

-----------------------------------------------------------------------------
(* uint32_t arithmetic, seen from START.                                    *)

\* A distance is below W.
LEMMA RunType ==
  ASSUME NEW x \in Index
  PROVE  Run(x) \in 0 .. W-1
  BY SizeAssumption DEF Index, Run, Sub

\* head - tail is the difference of the distances run.
LEMMA SubRun ==
  ASSUME NEW a \in Index, NEW b \in Index, Run(b) <= Run(a)
  PROVE  Sub(a, b) = Run(a) - Run(b)
  BY SizeAssumption DEF Index, Run, Sub

\* An index that has run as far is the same index.
LEMMA RunInjective ==
  ASSUME NEW a \in Index, NEW b \in Index, Run(a) = Run(b)
  PROVE  a = b
  BY SizeAssumption DEF Index, Run, Sub

\* index + n runs n further.
LEMMA AddRun ==
  ASSUME NEW a \in Index, NEW n \in Nat, Run(a) + n < W
  PROVE  Add(a, n) \in Index /\ Run(Add(a, n)) = Run(a) + n
  BY SizeAssumption DEF Index, Run, Sub, Add

\* skip_to() moves to the one of tail and mark that has run further, as long as
\* both are less than half the range away from START.
LEMMA SkipToRun ==
  ASSUME NEW t \in Index, NEW m \in Index, NEW bound \in Nat, 2 * bound < W,
         Run(t) <= bound, Run(m) <= bound
  PROVE  /\ SkipTo(t, m) \in Index
         /\ Run(SkipTo(t, m)) = IF Run(m) > Run(t) THEN Run(m) ELSE Run(t)
<1>0. Run(t) \in Nat /\ Run(m) \in Nat /\ W \in Nat
  BY RunType, SizeAssumption
<1>1. CASE Run(m) > Run(t)
  <2>1. Sub(m, t) = Run(m) - Run(t)
    BY <1>0, <1>1, SubRun
  <2> QED
    BY <1>0, <1>1, <2>1 DEF SkipTo
<1>2. CASE Run(m) = Run(t)
  BY <1>2, RunInjective DEF SkipTo
<1>3. CASE Run(m) < Run(t)
  <2>1. Sub(m, t) = W - (Run(t) - Run(m))
    BY <1>3, SizeAssumption DEF Index, Run, Sub
  <2>2. 2 * Sub(m, t) >= W
    BY <1>0, <2>1, <1>3
  <2> QED
    BY <1>0, <1>3, <2>1, <2>2 DEF SkipTo
<1> QED
  BY <1>0, <1>1, <1>2, <1>3

\* What the invariant says of the fill counts.
LEMMA UsedRun ==
  ASSUME TypeOK, IndexInv
  PROVE  /\ RxUsed = rx_total - Run(rx_tail)
         /\ TxUsed = bytes_from_coco - Run(tx_tail)
  BY SubRun, RunType DEF TypeOK, IndexInv, RxUsed, TxUsed

\* The numbers of the invariant.
LEMMA Numbers ==
  ASSUME BeckerInv
  PROVE  /\ rx_tail \in Index /\ tx_tail \in Index /\ rx_head \in Index /\ tx_head \in Index
         /\ Run(rx_tail) \in Nat /\ Run(tx_tail) \in Nat /\ bn \in Nat
         /\ Run(rx_head) = rx_total /\ Run(tx_head) = bytes_from_coco
         /\ rx_total \in Nat /\ bytes_from_coco \in Nat
         /\ RxUsed \in Nat /\ TxUsed \in Nat
         /\ Run(rx_tail) + RxUsed = rx_total /\ Run(tx_tail) + TxUsed = bytes_from_coco
         /\ RxUsed <= RX_SIZE /\ TxUsed <= TX_SIZE
         /\ rx_total + RX_SIZE < W /\ bytes_from_coco + TX_SIZE < W
         /\ RX_SIZE \in Nat \ {0} /\ TX_SIZE \in Nat \ {0} /\ W \in Nat
         /\ rx_total + 1 < W /\ bytes_from_coco + 1 < W
<1>1. /\ rx_tail \in Index /\ tx_tail \in Index /\ rx_head \in Index /\ tx_head \in Index
      /\ Run(rx_tail) \in Nat /\ Run(tx_tail) \in Nat /\ bn \in Nat
      /\ rx_total \in 0 .. MaxRx /\ bytes_from_coco \in 0 .. MaxTx
  BY RunType DEF TypeOK, BeckerInv
<1>2. /\ RxUsed = rx_total - Run(rx_tail)
      /\ TxUsed = bytes_from_coco - Run(tx_tail)
  BY UsedRun DEF BeckerInv
<1> QED
  BY <1>1, <1>2, SizeAssumption, BudgetAssumption DEF BeckerInv, IndexInv

\* A flush request moves a tail no further than the head.
LEMMA FlushedRun ==
  ASSUME BeckerInv
  PROVE  /\ RxFlushed \in Index /\ Run(RxFlushed) \in Run(rx_tail) .. rx_total
         /\ TxFlushed \in Index /\ Run(TxFlushed) \in Run(tx_tail) .. bytes_from_coco
<1>1. /\ rx_flush_mark \in Index /\ tx_flush_mark \in Index
      /\ Run(rx_flush_mark) \in Nat /\ Run(tx_flush_mark) \in Nat
      /\ Run(rx_flush_mark) <= rx_total /\ Run(tx_flush_mark) <= bytes_from_coco
      /\ rx_total <= MaxRx /\ bytes_from_coco <= MaxTx
      /\ MaxRx \in Nat /\ MaxTx \in Nat /\ 2 * MaxRx < W /\ 2 * MaxTx < W
  BY RunType, BudgetAssumption DEF BeckerInv, TypeOK, IndexInv
<1>2. /\ rx_tail \in Index /\ tx_tail \in Index /\ Run(rx_tail) \in Nat /\ Run(tx_tail) \in Nat
      /\ rx_total \in Nat /\ bytes_from_coco \in Nat
      /\ Run(rx_tail) <= rx_total /\ Run(tx_tail) <= bytes_from_coco
  BY Numbers
<1>3. /\ Run(rx_tail) <= MaxRx /\ Run(rx_flush_mark) <= MaxRx
      /\ Run(tx_tail) <= MaxTx /\ Run(tx_flush_mark) <= MaxTx
  BY <1>1, <1>2
<1>4. /\ RxFlushed \in Index
      /\ Run(RxFlushed) =
           IF Run(rx_flush_mark) > Run(rx_tail) THEN Run(rx_flush_mark) ELSE Run(rx_tail)
  BY <1>1, <1>2, <1>3, SkipToRun DEF RxFlushed
<1>5. /\ TxFlushed \in Index
      /\ Run(TxFlushed) =
           IF Run(tx_flush_mark) > Run(tx_tail) THEN Run(tx_flush_mark) ELSE Run(tx_tail)
  BY <1>1, <1>2, <1>3, SkipToRun DEF TxFlushed
<1> QED
  BY <1>1, <1>2, <1>4, <1>5

-----------------------------------------------------------------------------
(* The invariant holds initially and every step keeps it.                   *)

\* Both rings are empty and nobody is inside a call.
LEMMA InitInv ==
  ASSUME Init
  PROVE  BeckerInv
<1>1. Run(START) = 0
  BY SizeAssumption DEF Run, Sub
<1>2. AnyByte \in Byte
  BY ByteAssumption, Zenon DEF AnyByte
<1>3. TypeOK
  BY <1>2, SizeAssumption, BudgetAssumption DEF Init, TypeOK, Index, CpuPos, BackendPos
<1>4. IndexInv
  BY <1>1, SizeAssumption DEF Init, IndexInv
<1>5. TestedInv
  BY DEF Init, TestedInv
<1> QED
  BY <1>3, <1>4, <1>5 DEF BeckerInv

\* Every step of the port keeps the invariant.
LEMMA NextInv ==
  ASSUME BeckerInv, [Next]_beckerVars
  PROVE  BeckerInv'
<1> USE DEF BeckerInv
<1>0. /\ rx_tail \in Index /\ tx_tail \in Index /\ rx_head \in Index /\ tx_head \in Index
      /\ Run(rx_tail) \in Nat /\ Run(tx_tail) \in Nat
      /\ Run(rx_flush_mark) \in Nat /\ Run(tx_flush_mark) \in Nat
      /\ rx_total \in Nat /\ bytes_from_coco \in Nat /\ bn \in Nat
      /\ W \in Nat /\ RX_SIZE \in Nat /\ TX_SIZE \in Nat /\ MaxTx \in Nat /\ MaxRx \in Nat
  BY RunType, SizeAssumption, BudgetAssumption DEF TypeOK
<1>a. /\ RxFlushed \in Index
      /\ Run(RxFlushed) \in Run(rx_tail) .. rx_total
  BY FlushedRun
<1>b. /\ TxFlushed \in Index
      /\ Run(TxFlushed) \in Run(tx_tail) .. bytes_from_coco
  BY FlushedRun
<1>c. /\ RxUsed = rx_total - Run(rx_tail)
      /\ TxUsed = bytes_from_coco - Run(tx_tail)
  BY UsedRun
<1>d. \A i \in Index : rx_buf[i % RX_SIZE] \in Byte /\ tx_buf[i % TX_SIZE] \in Byte
  <2>1. \A i \in Index : i % RX_SIZE \in 0 .. RX_SIZE-1 /\ i % TX_SIZE \in 0 .. TX_SIZE-1
    BY ModRange, SizeAssumption DEF Index
  <2> QED
    BY <2>1 DEF TypeOK
<1>1. CASE ReadClear
  <2>1. TypeOK'
    BY <1>0, <1>1, ZenonT(30) DEF TypeOK, CpuPos, BackendPos, ReadClear,
       rxRing, txRing, flushVars, wakeVars, coreOneVars, coreZeroVars
  <2>2. IndexInv'
    BY <1>0, <1>1 DEF IndexInv, ReadClear, rxRing, txRing, flushVars, wakeVars, coreOneVars, coreZeroVars
  <2>3. TestedInv'
    BY <1>0, <1>1 DEF TypeOK, TestedInv, ReadClear,
       rxRing, txRing, flushVars, wakeVars, coreOneVars, coreZeroVars
  <2> QED
    BY <2>1, <2>2, <2>3
<1>2. CASE ReadStatusEnd
  BY <1>0, <1>2, SMTT(20) DEF TypeOK, IndexInv, TestedInv, CpuPos, BackendPos, ReadStatusEnd,
     rxRing, txRing, flushVars, wakeVars, coreOneVars, coreZeroVars
<1>3. CASE WriteFill
  <2>1. TypeOK'
    BY <1>0, <1>3, ZenonT(30) DEF TypeOK, CpuPos, BackendPos, WriteFill,
       rxRing, txRing, flushVars, wakeVars, coreOneVars, coreZeroVars
  <2>2. IndexInv'
    BY <1>0, <1>3 DEF IndexInv, WriteFill, rxRing, txRing, flushVars, wakeVars, coreOneVars, coreZeroVars
  <2>3. TestedInv'
    BY <1>0, <1>3 DEF TypeOK, TestedInv, WriteFill,
       rxRing, txRing, flushVars, wakeVars, coreOneVars, coreZeroVars
  <2> QED
    BY <2>1, <2>2, <2>3
<1>4. CASE ResetFlush
  BY <1>0, <1>4, SMTT(20) DEF TypeOK, IndexInv, TestedInv, CpuPos, BackendPos, ResetFlush, rxRing,
     txRing, flushVars, wakeVars, coreOneVars, coreZeroVars
<1>5. CASE ResetEnd
  BY <1>0, <1>5, SMTT(20) DEF TypeOK, IndexInv, TestedInv, CpuPos, BackendPos, ResetEnd, rxRing,
     txRing, flushVars, wakeVars, coreOneVars, coreZeroVars
<1>6. CASE ScanlineTick
  BY <1>0, <1>6, ZenonT(30) DEF TypeOK, IndexInv, TestedInv, CpuPos, BackendPos, ScanlineTick,
     rxRing, txRing, flushVars, wakeVars, coreOneVars, coreZeroVars
<1>7. CASE PopClear
  <2>1. TypeOK'
    BY <1>0, <1>7, ZenonT(30) DEF TypeOK, CpuPos, BackendPos, PopClear, rxRing,
       txRing, flushVars, wakeVars, coreOneVars, coreZeroVars
  <2>2. IndexInv'
    BY <1>0, <1>7, ZenonT(30) DEF IndexInv, PopClear, rxRing, txRing, flushVars, wakeVars,
       coreOneVars, coreZeroVars
  <2>3. TestedInv'
    BY <1>0, <1>7, ZenonT(30) DEF TestedInv, PopClear, rxRing, txRing, flushVars, wakeVars,
       coreOneVars, coreZeroVars
  <2> QED
    BY <2>1, <2>2, <2>3
<1>8. CASE ClearFlush
  <2>1. TypeOK'
    BY <1>0, <1>8, ZenonT(30) DEF TypeOK, CpuPos, BackendPos, ClearFlush,
       rxRing, txRing, flushVars, wakeVars, coreOneVars, coreZeroVars
  <2>2. IndexInv'
    BY <1>0, <1>8 DEF IndexInv, ClearFlush, rxRing, txRing, flushVars, wakeVars, coreOneVars, coreZeroVars
  <2>3. TestedInv'
    BY <1>0, <1>8 DEF TypeOK, TestedInv, ClearFlush,
       rxRing, txRing, flushVars, wakeVars, coreOneVars, coreZeroVars
  <2> QED
    BY <2>1, <2>2, <2>3
<1>9. CASE ClearEnd
  <2>1. TypeOK'
    BY <1>0, <1>9, ZenonT(30) DEF TypeOK, CpuPos, BackendPos, ClearEnd,
       rxRing, txRing, flushVars, wakeVars, coreOneVars, coreZeroVars
  <2>2. IndexInv'
    BY <1>0, <1>9 DEF IndexInv, ClearEnd, rxRing, txRing, flushVars, wakeVars, coreOneVars, coreZeroVars
  <2>3. TestedInv'
    BY <1>0, <1>9 DEF TypeOK, TestedInv, ClearEnd,
       rxRing, txRing, flushVars, wakeVars, coreOneVars, coreZeroVars
  <2> QED
    BY <2>1, <2>2, <2>3
<1>10. CASE LinkUp
  BY <1>0, <1>10, SMTT(20) DEF TypeOK, IndexInv, TestedInv, CpuPos, BackendPos, LinkUp, rxRing,
     txRing, flushVars, wakeVars, coreOneVars, coreZeroVars
<1>11. CASE DownBegin
  BY <1>0, <1>11, SMTT(20) DEF TypeOK, IndexInv, TestedInv, CpuPos, BackendPos, DownBegin, rxRing,
     txRing, flushVars, wakeVars, coreOneVars, coreZeroVars
<1>12. CASE DownAsk
  BY <1>0, <1>12, SMTT(20) DEF TypeOK, IndexInv, TestedInv, CpuPos, BackendPos, DownAsk, rxRing,
     txRing, flushVars, wakeVars, coreOneVars, coreZeroVars
<1>13. CASE DownEnd
  <2>1. TypeOK'
    BY <1>0, <1>13, ZenonT(30) DEF TypeOK, CpuPos, BackendPos, DownEnd, rxRing,
       txRing, flushVars, wakeVars, coreOneVars, coreZeroVars
  <2>2. IndexInv'
    BY <1>0, <1>13, ZenonT(30) DEF IndexInv, DownEnd, rxRing, txRing, flushVars, wakeVars,
       coreOneVars, coreZeroVars
  <2>3. TestedInv'
    BY <1>0, <1>13, ZenonT(30) DEF TestedInv, DownEnd, rxRing, txRing, flushVars, wakeVars,
       coreOneVars, coreZeroVars
  <2> QED
    BY <2>1, <2>2, <2>3
<1>14. CASE ReadStatusBegin
  <2>1. TypeOK'
    BY <1>0, <1>14, <1>a DEF TypeOK, CpuPos, BackendPos, ReadStatusBegin, ReadBegin,
       rxRing, txRing, flushVars, wakeVars, coreOneVars, coreZeroVars
  <2>2. IndexInv'
    BY <1>0, <1>14, <1>a DEF IndexInv, ReadStatusBegin, ReadBegin,
       rxRing, txRing, flushVars, wakeVars, coreOneVars, coreZeroVars
  <2>3. TestedInv'
    BY <1>0, <1>14, <1>a, SMTT(20) DEF IndexInv, TestedInv, ReadStatusBegin, ReadBegin,
       rxRing, txRing, flushVars, wakeVars, coreOneVars, coreZeroVars
  <2> QED
    BY <2>1, <2>2, <2>3
<1>15. CASE ReadDataBegin
  <2>1. TypeOK'
    BY <1>0, <1>15, <1>a DEF TypeOK, CpuPos, BackendPos, ReadDataBegin, ReadBegin,
       rxRing, txRing, flushVars, wakeVars, coreOneVars, coreZeroVars
  <2>2. IndexInv'
    BY <1>0, <1>15, <1>a DEF IndexInv, ReadDataBegin, ReadBegin,
       rxRing, txRing, flushVars, wakeVars, coreOneVars, coreZeroVars
  <2>3. TestedInv'
    BY <1>0, <1>15, <1>a, SMTT(20) DEF IndexInv, TestedInv, ReadDataBegin, ReadBegin,
       rxRing, txRing, flushVars, wakeVars, coreOneVars, coreZeroVars
  <2> QED
    BY <2>1, <2>2, <2>3
<1>16. CASE ReadDataLook
  <2>0. rx_head # rx_tail => Run(rx_tail) < rx_total
    BY <1>0, RunInjective DEF TypeOK, IndexInv
  <2> QED
    BY <1>0, <1>16, <2>0 DEF TypeOK, IndexInv, TestedInv, CpuPos, BackendPos,
       ReadDataLook, rxRing, txRing, flushVars, wakeVars, coreOneVars, coreZeroVars
<1>17. CASE ReadDataCopy
  <2>0. rx_buf[rx_tail % RX_SIZE] \in Byte
    BY <1>0, <1>d
  <2> QED
    BY <1>0, <1>17, <2>0 DEF TypeOK, IndexInv, TestedInv, CpuPos, BackendPos,
       ReadDataCopy, rxRing, txRing, flushVars, wakeVars, coreOneVars, coreZeroVars
<1>18. CASE ReadDataEnd
  <2>0. Add(rx_tail, 1) \in Index /\ Run(Add(rx_tail, 1)) = Run(rx_tail) + 1
    BY <1>0, <1>18, AddRun, BudgetAssumption, SMTT(20) DEF TypeOK, IndexInv, TestedInv, ReadDataEnd
  <2>1. TypeOK'
    BY <1>0, <1>18, <2>0 DEF TypeOK, CpuPos, BackendPos, ReadDataEnd,
       rxRing, txRing, flushVars, wakeVars, coreOneVars, coreZeroVars
  <2>2. IndexInv'
    BY <1>0, <1>18, <2>0 DEF IndexInv, TestedInv, ReadDataEnd,
       rxRing, txRing, flushVars, wakeVars, coreOneVars, coreZeroVars
  <2>3. TestedInv'
    BY <1>0, <1>18, <2>0 DEF IndexInv, TestedInv, ReadDataEnd,
       rxRing, txRing, flushVars, wakeVars, coreOneVars, coreZeroVars
  <2> QED
    BY <2>1, <2>2, <2>3
<1>19. CASE \E b \in Byte : WriteBegin(b)
  BY <1>0, <1>19, <1>c, SMTT(20) DEF TypeOK, IndexInv, TestedInv, CpuPos, BackendPos, WriteBegin, TxFull,
     rxRing, txRing, flushVars, wakeVars, coreOneVars, coreZeroVars
<1>20. CASE WriteEnd
  <2>0. Add(tx_head, 1) \in Index /\ Run(Add(tx_head, 1)) = Run(tx_head) + 1
    <3>1. Run(tx_head) + 1 < W
      BY <1>0, <1>20, BudgetAssumption DEF IndexInv, TestedInv, WriteEnd
    <3> QED
      BY <1>0, <3>1, AddRun
  <2>1. TypeOK'
    BY <1>0, <1>20, <2>0 DEF TypeOK, CpuPos, BackendPos, TestedInv, WriteEnd,
       rxRing, txRing, flushVars, wakeVars, coreOneVars, coreZeroVars
  <2>2. IndexInv'
    BY <1>0, <1>20, <2>0 DEF IndexInv, TestedInv, WriteEnd,
       rxRing, txRing, flushVars, wakeVars, coreOneVars, coreZeroVars
  <2>3. TestedInv'
    BY <1>0, <1>20, <2>0 DEF IndexInv, TestedInv, WriteEnd,
       rxRing, txRing, flushVars, wakeVars, coreOneVars, coreZeroVars
  <2> QED
    BY <2>1, <2>2, <2>3
<1>21. CASE ResetBegin
  BY <1>0, <1>21, SMTT(20) DEF TypeOK, IndexInv, TestedInv, CpuPos, BackendPos, ResetBegin,
     rxRing, txRing, flushVars, wakeVars, coreOneVars, coreZeroVars
<1>22. CASE ResetMark
  BY <1>0, <1>22, SMTT(20) DEF TypeOK, IndexInv, TestedInv, CpuPos, BackendPos, ResetMark, rxRing,
     txRing, flushVars, wakeVars, coreOneVars, coreZeroVars
<1>23. CASE PopBegin
  <2>1. TypeOK'
    BY <1>0, <1>23, <1>b DEF TypeOK, CpuPos, BackendPos, PopBegin,
       rxRing, txRing, flushVars, wakeVars, coreOneVars, coreZeroVars
  <2>2. IndexInv'
    BY <1>0, <1>23, <1>b DEF IndexInv, PopBegin,
       rxRing, txRing, flushVars, wakeVars, coreOneVars, coreZeroVars
  <2>3. TestedInv'
    BY <1>0, <1>23, <1>b DEF IndexInv, TestedInv, PopBegin,
       rxRing, txRing, flushVars, wakeVars, coreOneVars, coreZeroVars
  <2> QED
    BY <2>1, <2>2, <2>3
<1>24. CASE PopAvail
  <2>0. TxUsed \in Nat /\ POP_MAX \in Nat
    BY <1>0, <1>c, SizeAssumption DEF IndexInv
  <2>a. bn' \in Nat
    BY <1>24, <2>0 DEF PopAvail, PopCount
  <2>b. popped' \in Seq(Byte)
    <3>1. <<>> \in Seq(Byte) /\ popped \in Seq(Byte)
      BY DEF TypeOK
    <3>2. popped' = <<>> \/ popped' = popped
      BY <1>24 DEF PopAvail, PopCount
    <3> QED
      BY <3>1, <3>2
  <2>1. TypeOK'
    BY <1>0, <1>24, <2>a, <2>b DEF TypeOK, CpuPos, BackendPos, PopAvail, PopCount,
       rxRing, txRing, flushVars, wakeVars, coreOneVars, coreZeroVars
  <2>2. IndexInv'
    BY <1>0, <1>24, <1>c DEF IndexInv, PopAvail, PopCount,
       rxRing, txRing, flushVars, wakeVars, coreOneVars, coreZeroVars
  <2>3. TestedInv'
    BY <1>0, <1>24, <1>c DEF IndexInv, TestedInv, PopAvail, PopCount,
       rxRing, txRing, flushVars, wakeVars, coreOneVars, coreZeroVars
  <2> QED
    BY <2>1, <2>2, <2>3
<1>25. CASE PopCopy
  <2>0. \A i \in 1 .. bn : tx_buf[Add(tx_tail, i - 1) % TX_SIZE] \in Byte
    <3>1. \A i \in 1 .. bn : Add(tx_tail, i - 1) \in Index
      <4> TAKE i \in 1 .. bn
      <4>1. i - 1 \in Nat /\ Run(tx_tail) + (i - 1) < W
        BY <1>0, <1>25, BudgetAssumption, SMTT(20) DEF TypeOK, IndexInv, TestedInv, PopCopy
      <4> QED
        BY <1>0, <4>1, AddRun
    <3> QED
      BY <3>1, <1>d
  <2> QED
    BY <1>0, <1>25, <2>0, SMTT(20) DEF TypeOK, IndexInv, TestedInv, CpuPos, BackendPos, PopCopy,
       rxRing, txRing, flushVars, wakeVars, coreOneVars, coreZeroVars
<1>26. CASE PopEnd
  <2>0. Add(tx_tail, bn) \in Index /\ Run(Add(tx_tail, bn)) = Run(tx_tail) + bn
    BY <1>0, <1>26, AddRun, BudgetAssumption, SMTT(20) DEF TypeOK, IndexInv, TestedInv, PopEnd
  <2> QED
    BY <1>0, <1>26, <2>0, SMTT(20) DEF TypeOK, IndexInv, TestedInv, CpuPos, BackendPos, PopEnd,
       rxRing, txRing, flushVars, wakeVars, coreOneVars, coreZeroVars
<1>27. CASE \E s \in UNION {[1 .. k -> Byte] : k \in 1 .. POP_MAX} : PushBegin(s)
  <2>0. RxSpace \in Nat
    BY <1>0, <1>c DEF IndexInv, RxSpace
  <2>a. \A s \in UNION {[1 .. k -> Byte] : k \in 1 .. POP_MAX} : s \in Seq(Byte) /\ Len(s) \in Nat
    BY SizeAssumption
  <2>b. bn' <= RxSpace /\ bn' <= Len(bbuf') /\ rx_total + bn' <= MaxRx
    BY <1>0, <1>27, <2>0, <2>a DEF PushBegin
  <2>1. TypeOK'
    BY <1>0, <1>27, <2>0, <2>a DEF TypeOK, CpuPos, BackendPos, PushBegin,
       rxRing, txRing, flushVars, wakeVars, coreOneVars, coreZeroVars
  <2>2. IndexInv'
    BY <1>0, <1>27, <1>c DEF IndexInv, PushBegin,
       rxRing, txRing, flushVars, wakeVars, coreOneVars, coreZeroVars
  <2>3. TestedInv'
    BY <1>0, <1>27, <1>c, <2>b DEF IndexInv, TestedInv, RxSpace, PushBegin,
       rxRing, txRing, flushVars, wakeVars, coreOneVars, coreZeroVars
  <2> QED
    BY <2>1, <2>2, <2>3
<1>28. CASE PushCopy
  <2>0. rx_buf' \in [0 .. RX_SIZE-1 -> Byte]
    <3> DEFINE Hits(k, i) == Add(rx_head, i - 1) % RX_SIZE = k
    <3>1. \A k \in 0 .. RX_SIZE-1 :
            (\E i \in 1 .. bn : Hits(k, i)) => (CHOOSE i \in 1 .. bn : Hits(k, i)) \in 1 .. bn
      OBVIOUS
    <3>2. \A i \in 1 .. bn : bbuf[i] \in Byte
      BY <1>0, <1>28 DEF TypeOK, TestedInv, PushCopy
    <3>3. /\ DOMAIN rx_buf = 0 .. RX_SIZE-1
          /\ \A k \in 0 .. RX_SIZE-1 : rx_buf[k] \in Byte
      BY DEF TypeOK
    <3>4. rx_buf' = [k \in 0 .. RX_SIZE-1 |->
                      IF \E i \in 1 .. bn : Hits(k, i)
                        THEN bbuf[CHOOSE i \in 1 .. bn : Hits(k, i)] ELSE rx_buf[k]]
      BY <1>28, <3>3 DEF PushCopy
    <3> HIDE DEF Hits
    <3> QED
      BY <3>1, <3>2, <3>3, <3>4
  <2>1. TypeOK'
    BY <1>0, <1>28, <2>0, ZenonT(30) DEF TypeOK, CpuPos, BackendPos, PushCopy,
       rxRing, txRing, flushVars, wakeVars, coreOneVars, coreZeroVars
  <2>2. IndexInv'
    BY <1>0, <1>28 DEF IndexInv, PushCopy,
       rxRing, txRing, flushVars, wakeVars, coreOneVars, coreZeroVars
  <2>3. TestedInv'
    BY <1>0, <1>28 DEF IndexInv, TestedInv, PushCopy,
       rxRing, txRing, flushVars, wakeVars, coreOneVars, coreZeroVars
  <2> QED
    BY <2>1, <2>2, <2>3
<1>29. CASE PushEnd
  <2>0. Add(rx_head, bn) \in Index /\ Run(Add(rx_head, bn)) = Run(rx_head) + bn
    <3>1. Run(rx_head) + bn < W
      BY <1>0, <1>29, BudgetAssumption DEF IndexInv, TestedInv, PushEnd
    <3> QED
      BY <1>0, <3>1, AddRun
  <2> QED
    BY <1>0, <1>29, <2>0, SMTT(20) DEF TypeOK, IndexInv, TestedInv, CpuPos, BackendPos, PushEnd,
       rxRing, txRing, flushVars, wakeVars, coreOneVars, coreZeroVars
<1>30. CASE ClearBegin
  <2>1. TypeOK'
    BY <1>0, <1>30, <1>b DEF TypeOK, CpuPos, BackendPos, ClearBegin, ClearReset,
       rxRing, txRing, flushVars, wakeVars, coreOneVars, coreZeroVars
  <2>2. IndexInv'
    BY <1>0, <1>30, <1>b DEF IndexInv, ClearBegin, ClearReset,
       rxRing, txRing, flushVars, wakeVars, coreOneVars, coreZeroVars
  <2>3. TestedInv'
    BY <1>0, <1>30, <1>b DEF IndexInv, TestedInv, ClearBegin, ClearReset,
       rxRing, txRing, flushVars, wakeVars, coreOneVars, coreZeroVars
  <2> QED
    BY <2>1, <2>2, <2>3
<1>31. CASE DownClear
  <2>1. TypeOK'
    BY <1>0, <1>31, <1>b DEF TypeOK, CpuPos, BackendPos, DownClear, ClearReset,
       rxRing, txRing, flushVars, wakeVars, coreOneVars, coreZeroVars
  <2>2. IndexInv'
    BY <1>0, <1>31, <1>b DEF IndexInv, DownClear, ClearReset,
       rxRing, txRing, flushVars, wakeVars, coreOneVars, coreZeroVars
  <2>3. TestedInv'
    BY <1>0, <1>31, <1>b DEF IndexInv, TestedInv, DownClear, ClearReset,
       rxRing, txRing, flushVars, wakeVars, coreOneVars, coreZeroVars
  <2> QED
    BY <2>1, <2>2, <2>3
<1>32. CASE DownDrop
  BY <1>0, <1>32 DEF TypeOK, IndexInv, TestedInv, CpuPos, BackendPos, DownDrop, rxRing,
     txRing, flushVars, wakeVars, coreOneVars, coreZeroVars
<1>33. CASE DownMark
  BY <1>0, <1>33 DEF TypeOK, IndexInv, TestedInv, CpuPos, BackendPos, DownMark, rxRing,
     txRing, flushVars, wakeVars, coreOneVars, coreZeroVars
<1>34. CASE UNCHANGED beckerVars
  BY <1>34 DEF beckerVars, TypeOK, IndexInv, TestedInv, rxRing, txRing, flushVars, wakeVars,
         coreOneVars, coreZeroVars
<1> QED
  BY <1>1, <1>2, <1>3, <1>4, <1>5, <1>6, <1>7, <1>8, <1>9, <1>10, <1>11, <1>12, <1>13,
     <1>14, <1>15, <1>16, <1>17, <1>18, <1>19, <1>20, <1>21, <1>22, <1>23, <1>24, <1>25,
     <1>26, <1>27, <1>28, <1>29, <1>30, <1>31, <1>32, <1>33, <1>34
     DEF Next, CpuCall, CpuStep, BackendCall, BackendStep

\* The invariant, for every ring size, byte set and budget.
THEOREM BeckerCorrect == Spec => []BeckerInv
<1>1. Init => BeckerInv
  BY InitInv
<1>2. BeckerInv /\ [Next]_beckerVars => BeckerInv'
  BY NextInv
<1> QED
  BY <1>1, <1>2, PTL DEF Spec

\* head - tail never exceeds the size of either ring and so never underflows.
THEOREM BeckerRingsBounded == Spec => []RingsBounded
<1>1. BeckerInv => RingsBounded
  BY UsedRun DEF BeckerInv, IndexInv, RingsBounded
<1> QED
  BY <1>1, BeckerCorrect, PTL

\* Two indices less than a ring apart are on different slots, wrapped or not.
LEMMA SlotsDiffer ==
  ASSUME NEW a \in Index, NEW b \in Index, NEW n \in Nat \ {0}, W % n = 0,
         Run(a) < Run(b), Run(b) - Run(a) < n
  PROVE  a % n # b % n
<1>0. Run(a) \in Nat /\ Run(b) \in Nat /\ a \in Int /\ b \in Int /\ W \in Int
  BY RunType, SizeAssumption DEF Index
<1>1. Sub(b, a) = Run(b) - Run(a)
  BY <1>0, SubRun
<1>2. CASE b >= a
  <2>1. b - a > 0 /\ b - a < n
    BY <1>0, <1>1, <1>2 DEF Sub
  <2> QED
    BY <1>0, <2>1, ModDiffer
<1>3. CASE b < a
  <2> DEFINE c == b + W
  <2>1. c \in Int /\ c - a > 0 /\ c - a < n /\ c - W = b
    BY <1>0, <1>1, <1>3 DEF Sub
  <2> HIDE DEF c
  <2>2. a % n # c % n
    BY <1>0, <2>1, ModDiffer
  <2>3. (c - W) % n = c % n
    BY <1>0, <2>1, ModWrap
  <2> QED
    BY <2>1, <2>2, <2>3
<1> QED
  BY <1>0, <1>2, <1>3

\* What the invariant says of the slots.
LEMMA SlotsApart ==
  ASSUME BeckerInv
  PROVE  RaceFree
<1> USE DEF BeckerInv
<1>0. /\ rx_tail \in Index /\ tx_tail \in Index /\ rx_head \in Index /\ tx_head \in Index
      /\ Run(rx_tail) \in Nat /\ Run(tx_tail) \in Nat /\ bn \in Nat
      /\ rx_total \in 0 .. MaxRx /\ bytes_from_coco \in 0 .. MaxTx
  BY RunType DEF TypeOK
<1>1. ASSUME cpc = "fill", bpc = "pop_copy", NEW i \in 0 .. bn-1
      PROVE  Add(tx_tail, i) % TX_SIZE # tx_head % TX_SIZE
  <2>1. /\ Run(tx_tail) + i < Run(tx_head) /\ Run(tx_head) - Run(tx_tail) < TX_SIZE
        /\ Run(tx_head) = bytes_from_coco /\ Run(tx_tail) + i < W
    BY <1>0, <1>1, SizeAssumption, BudgetAssumption DEF IndexInv, TestedInv
  <2>2. Add(tx_tail, i) \in Index /\ Run(Add(tx_tail, i)) = Run(tx_tail) + i
    BY <1>0, <2>1, AddRun
  <2>3. /\ Run(Add(tx_tail, i)) < Run(tx_head)
        /\ Run(tx_head) - Run(Add(tx_tail, i)) < TX_SIZE
    BY <1>0, <2>1, <2>2, SizeAssumption
  <2> QED
    BY <1>0, <2>2, <2>3, SlotsDiffer, SizeAssumption, DivideAssumption
<1>2. ASSUME cpc = "copy", bpc = "push_copy", NEW i \in 0 .. bn-1
      PROVE  Add(rx_head, i) % RX_SIZE # rx_tail % RX_SIZE
  <2>1. /\ Run(rx_head) = rx_total /\ Run(rx_tail) < rx_total
        /\ rx_total + i - Run(rx_tail) < RX_SIZE /\ rx_total + i < W
    BY <1>0, <1>2, SizeAssumption, BudgetAssumption DEF IndexInv, TestedInv
  <2>2. Add(rx_head, i) \in Index /\ Run(Add(rx_head, i)) = rx_total + i
    BY <1>0, <2>1, AddRun
  <2>3. /\ Run(rx_tail) < Run(Add(rx_head, i))
        /\ Run(Add(rx_head, i)) - Run(rx_tail) < RX_SIZE
    BY <1>0, <2>1, <2>2, SizeAssumption
  <2> QED
    BY <1>0, <2>2, <2>3, SlotsDiffer, SizeAssumption, DivideAssumption
<1> QED
  BY <1>1, <1>2 DEF RaceFree

\* No slot is written by one core while the other copies it.
THEOREM BeckerRaceFree == Spec => []RaceFree
<1>1. BeckerInv => RaceFree
  BY SlotsApart
<1> QED
  BY <1>1, BeckerCorrect, PTL

-----------------------------------------------------------------------------
(* What lies in a ring, as a sequence.                                      *)

\* The n bytes from index t on.
Ring(buf, t, n, S) == [i \in 1 .. n |-> buf[Add(t, i - 1) % S]]

\* Indices that can be added to within the range of the run.
LEMMA AddAdd ==
  ASSUME NEW t \in Index, NEW k \in Nat, NEW j \in Nat, Run(t) + (k + j) < W
  PROVE  Add(Add(t, k), j) = Add(t, k + j)
<1>1. Run(t) \in Nat /\ Run(t) + k < W /\ W \in Nat
  BY RunType, SizeAssumption
<1>2. Add(t, k) \in Index /\ Run(Add(t, k)) = Run(t) + k
  BY <1>1, AddRun
<1>3. /\ Add(Add(t, k), j) \in Index
      /\ Run(Add(Add(t, k), j)) = Run(Add(t, k)) + j
  BY <1>1, <1>2, AddRun
<1>4. k + j \in Nat /\ Add(t, k + j) \in Index /\ Run(Add(t, k + j)) = Run(t) + (k + j)
  BY AddRun
<1>5. Run(Add(Add(t, k), j)) = Run(Add(t, k + j))
  BY <1>1, <1>2, <1>3, <1>4
<1> QED
  BY <1>3, <1>4, <1>5, RunInjective

\* A slot of a ring holds a byte.
LEMMA SlotByte ==
  ASSUME NEW S \in Nat \ {0}, NEW buf \in [0 .. S-1 -> Byte], NEW a \in Index
  PROVE  buf[a % S] \in Byte
<1>1. a \in Int
  BY SizeAssumption DEF Index
<1>2. a % S \in 0 .. S-1
  BY <1>1, ModRange
<1> QED
  BY <1>2

\* It is a sequence of n bytes.
LEMMA RingType ==
  ASSUME NEW S \in Nat \ {0}, NEW buf \in [0 .. S-1 -> Byte],
         NEW t \in Index, NEW n \in Nat, Run(t) + n < W
  PROVE  /\ Ring(buf, t, n, S) \in Seq(Byte) /\ Len(Ring(buf, t, n, S)) = n
         /\ \A i \in 1 .. n : Ring(buf, t, n, S)[i] = buf[Add(t, i - 1) % S]
<1>0. Run(t) \in Nat /\ W \in Nat
  BY RunType, SizeAssumption
<1>1. ASSUME NEW i \in 1 .. n
      PROVE  buf[Add(t, i - 1) % S] \in Byte
  <2>1. i - 1 \in Nat /\ Run(t) + (i - 1) < W
    BY <1>0
  <2>2. Add(t, i - 1) \in Index
    BY <2>1, AddRun
  <2> QED
    BY <2>2, SlotByte
<1> DEFINE Slot(i) == buf[Add(t, i - 1) % S]
<1>2. \A i \in 1 .. n : Slot(i) \in Byte
  BY <1>1
<1> HIDE DEF Slot
<1>3. /\ [i \in 1 .. n |-> Slot(i)] \in Seq(Byte)
      /\ Len([i \in 1 .. n |-> Slot(i)]) = n
      /\ \A i \in 1 .. n : [j \in 1 .. n |-> Slot(j)][i] = Slot(i)
  BY <1>2
<1> QED
  BY <1>3 DEF Slot, Ring

\* Moving the tail by k drops the k oldest bytes.
LEMMA RingSkip ==
  ASSUME NEW S \in Nat \ {0}, NEW buf \in [0 .. S-1 -> Byte],
         NEW t \in Index, NEW n \in Nat, Run(t) + n < W, NEW k \in 0 .. n
  PROVE  Ring(buf, Add(t, k), n - k, S) = SubSeq(Ring(buf, t, n, S), k + 1, n)
<1> DEFINE r == Ring(buf, t, n, S)
           q == Ring(buf, Add(t, k), n - k, S)
           u == SubSeq(r, k + 1, n)
<1>0. Run(t) \in Nat /\ W \in Nat /\ k \in Nat /\ n - k \in Nat /\ k + 1 \in Int
      /\ Run(t) + k < W
  BY RunType, SizeAssumption
<1>1. Add(t, k) \in Index /\ Run(Add(t, k)) = Run(t) + k
  BY <1>0, AddRun
<1>2. r \in Seq(Byte) /\ Len(r) = n /\ \A i \in 1 .. n : r[i] = buf[Add(t, i - 1) % S]
  BY RingType
<1>3. Run(Add(t, k)) + (n - k) < W
  BY <1>0, <1>1
<1>4. /\ q \in Seq(Byte) /\ Len(q) = n - k
      /\ \A i \in 1 .. (n - k) : q[i] = buf[Add(Add(t, k), i - 1) % S]
  BY <1>0, <1>1, <1>3, RingType
<1> HIDE DEF r, q
<1>5. \A i \in (k + 1) .. n : r[i] \in Byte
  BY <1>0, <1>2
<1>6. /\ u \in Seq(Byte)
      /\ Len(u) = IF k + 1 <= n THEN n - (k + 1) + 1 ELSE 0
      /\ \A i \in 1 .. (n - (k + 1) + 1) : u[i] = r[(k + 1) + i - 1]
  BY <1>0, <1>5, SubSeqProperties
<1> HIDE DEF u
<1>7. Len(u) = n - k
  BY <1>0, <1>6
<1>8. ASSUME NEW i \in 1 .. (n - k)
      PROVE  q[i] = u[i]
  <2>1. i - 1 \in Nat /\ Run(t) + (k + (i - 1)) < W
    BY <1>0
  <2>2. Add(Add(t, k), i - 1) = Add(t, k + (i - 1))
    BY <1>0, <2>1, AddAdd
  <2>3. u[i] = r[k + i] /\ k + i \in 1 .. n /\ (k + i) - 1 = k + (i - 1)
    <3>1. i \in 1 .. (n - (k + 1) + 1) /\ (k + 1) + i - 1 = k + i
      BY <1>0
    <3>2. k + i \in 1 .. n /\ (k + i) - 1 = k + (i - 1)
      BY <1>0
    <3>3. u[i] = r[(k + 1) + i - 1]
      BY <1>6, <3>1
    <3> QED
      BY <3>1, <3>2, <3>3
  <2>4. r[k + i] = buf[Add(t, (k + i) - 1) % S]
    BY <1>2, <2>3
  <2> QED
    BY <1>4, <2>2, <2>3, <2>4
<1>9. q = u
  BY <1>4, <1>6, <1>7, <1>8, SeqEqual
<1> QED
  BY <1>9 DEF q, u, r

\* Two rings that agree on the slots in use hold the same bytes.
LEMMA RingStore ==
  ASSUME NEW S \in Nat \ {0}, NEW t \in Index, NEW n \in Nat, NEW a, NEW b,
         \A i \in 0 .. n-1 : a[Add(t, i) % S] = b[Add(t, i) % S]
  PROVE  Ring(a, t, n, S) = Ring(b, t, n, S)
<1>1. \A i \in 1 .. n : a[Add(t, i - 1) % S] = b[Add(t, i - 1) % S]
  OBVIOUS
<1> QED
  BY <1>1 DEF Ring

\* Publishing k more bytes leaves the ones before them.
LEMMA RingExtend ==
  ASSUME NEW S \in Nat \ {0}, NEW buf \in [0 .. S-1 -> Byte],
         NEW t \in Index, NEW n \in Nat, NEW k \in Nat, Run(t) + (n + k) < W
  PROVE  SubSeq(Ring(buf, t, n + k, S), 1, n) = Ring(buf, t, n, S)
<1> DEFINE r == Ring(buf, t, n + k, S)
           q == Ring(buf, t, n, S)
           u == SubSeq(r, 1, n)
<1>0. Run(t) \in Nat /\ W \in Nat /\ n + k \in Nat /\ Run(t) + n < W /\ 1 \in Int
  BY RunType, SizeAssumption
<1>1. /\ r \in Seq(Byte) /\ Len(r) = n + k
      /\ \A i \in 1 .. (n + k) : r[i] = buf[Add(t, i - 1) % S]
  BY <1>0, RingType
<1>2. /\ q \in Seq(Byte) /\ Len(q) = n
      /\ \A i \in 1 .. n : q[i] = buf[Add(t, i - 1) % S]
  BY <1>0, RingType
<1> HIDE DEF r, q
<1>3. \A i \in 1 .. n : r[i] \in Byte
  BY <1>0, <1>1
<1>4. /\ u \in Seq(Byte)
      /\ Len(u) = IF 1 <= n THEN n - 1 + 1 ELSE 0
      /\ \A i \in 1 .. (n - 1 + 1) : u[i] = r[1 + i - 1]
  BY <1>0, <1>3, SubSeqProperties
<1> HIDE DEF u
<1>5. Len(u) = n /\ \A i \in 1 .. n : u[i] = r[i]
  BY <1>0, <1>4
<1>6. \A i \in 1 .. n : u[i] = q[i]
  <2> TAKE i \in 1 .. n
  <2>1. i \in 1 .. (n + k)
    OBVIOUS
  <2> QED
    BY <1>1, <1>2, <1>5, <2>1
<1>7. u = q
  BY <1>2, <1>4, <1>5, <1>6, SeqEqual
<1> QED
  BY <1>7 DEF u, q, r

\* Publishing one byte appends it.
LEMMA RingAppend ==
  ASSUME NEW S \in Nat \ {0}, NEW buf \in [0 .. S-1 -> Byte],
         NEW t \in Index, NEW n \in Nat, Run(t) + (n + 1) < W
  PROVE  Ring(buf, t, n + 1, S) = Append(Ring(buf, t, n, S), buf[Add(t, n) % S])
<1> DEFINE r == Ring(buf, t, n + 1, S)
           q == Ring(buf, t, n, S)
           e == buf[Add(t, n) % S]
           u == Append(q, e)
<1>0. Run(t) \in Nat /\ W \in Nat /\ n + 1 \in Nat /\ Run(t) + n < W
  BY RunType, SizeAssumption
<1>1. /\ r \in Seq(Byte) /\ Len(r) = n + 1
      /\ \A i \in 1 .. (n + 1) : r[i] = buf[Add(t, i - 1) % S]
  BY <1>0, RingType
<1>2. /\ q \in Seq(Byte) /\ Len(q) = n
      /\ \A i \in 1 .. n : q[i] = buf[Add(t, i - 1) % S]
  BY <1>0, RingType
<1>3. Add(t, n) \in Index
  BY <1>0, AddRun
<1>4. e \in Byte
  BY <1>3, SlotByte
<1>5. r[n + 1] = e
  <2>1. n + 1 \in 1 .. (n + 1) /\ (n + 1) - 1 = n
    BY <1>0
  <2> QED
    BY <1>1, <2>1
<1> HIDE DEF r, q, e
<1>6. /\ u \in Seq(Byte) /\ Len(u) = Len(q) + 1
      /\ \A i \in 1 .. Len(q) : u[i] = q[i]
      /\ u[Len(q) + 1] = e
  BY <1>2, <1>4, AppendProperties
<1> HIDE DEF u
<1>7. ASSUME NEW i \in 1 .. (n + 1)
      PROVE  r[i] = u[i]
  <2>1. CASE i = n + 1
    BY <1>2, <1>5, <1>6, <2>1
  <2>2. CASE i \in 1 .. n
    BY <1>1, <1>2, <1>6, <2>2
  <2> QED
    BY <1>0, <2>1, <2>2
<1>8. r = u
  BY <1>1, <1>2, <1>6, <1>7, SeqEqual
<1> QED
  BY <1>8 DEF u, r, q, e

-----------------------------------------------------------------------------
(* Which slots the two cores are on.                                        *)

\* The n-th index from the tail is the head.
LEMMA HeadIsEnd ==
  ASSUME BeckerInv
  PROVE  Add(rx_tail, RxUsed) = rx_head /\ Add(tx_tail, TxUsed) = tx_head
<1>1. /\ Add(rx_tail, RxUsed) \in Index /\ Run(Add(rx_tail, RxUsed)) = Run(rx_head)
      /\ Add(tx_tail, TxUsed) \in Index /\ Run(Add(tx_tail, TxUsed)) = Run(tx_head)
  BY Numbers, AddRun
<1> QED
  BY <1>1, Numbers, RunInjective

\* The slot becker_write_data stores to holds no byte in flight.
LEMMA TxSlotFree ==
  ASSUME BeckerInv, cpc \in {"fill", "publish"}, NEW i \in Nat, i < TxUsed
  PROVE  Add(tx_tail, i) % TX_SIZE # tx_head % TX_SIZE
<1>1. TxUsed < TX_SIZE
  BY Numbers DEF BeckerInv, TestedInv
<1>2. Run(tx_tail) + i < W
  BY Numbers
<1>3. Add(tx_tail, i) \in Index /\ Run(Add(tx_tail, i)) = Run(tx_tail) + i
  BY <1>2, Numbers, AddRun
<1>4. Run(Add(tx_tail, i)) < Run(tx_head) /\ Run(tx_head) - Run(Add(tx_tail, i)) < TX_SIZE
  BY <1>1, <1>3, Numbers
<1> QED
  BY <1>3, <1>4, Numbers, DivideAssumption, SlotsDiffer

\* What becker_rx_push has counted still fits.
LEMMA PushFits ==
  ASSUME BeckerInv, bpc \in {"push_copy", "push_publish"}
  PROVE  bn + RxUsed <= RX_SIZE /\ bn <= RX_SIZE
<1>1. bn <= RX_SIZE - (rx_total - Run(rx_tail))
  BY DEF BeckerInv, TestedInv
<1>2. /\ bn \in Nat /\ rx_total \in Nat /\ Run(rx_tail) \in Nat /\ RX_SIZE \in Nat
      /\ RxUsed \in Nat /\ Run(rx_tail) + RxUsed = rx_total
  BY Numbers
<1> QED
  BY <1>1, <1>2

\* The slots becker_rx_push stores to hold no byte in flight.
LEMMA RxSlotFree ==
  ASSUME BeckerInv, bpc = "push_copy", NEW i \in Nat, i < bn, NEW j \in Nat, j < RxUsed
  PROVE  Add(rx_head, i) % RX_SIZE # Add(rx_tail, j) % RX_SIZE
<1>1. bn + RxUsed <= RX_SIZE
  BY PushFits
<1>2. Run(rx_tail) + j < W /\ Run(rx_head) + i < W
  BY <1>1, Numbers
<1>3. /\ Add(rx_tail, j) \in Index /\ Run(Add(rx_tail, j)) = Run(rx_tail) + j
      /\ Add(rx_head, i) \in Index /\ Run(Add(rx_head, i)) = Run(rx_head) + i
  BY <1>2, Numbers, AddRun
<1>4. /\ Run(Add(rx_tail, j)) < Run(Add(rx_head, i))
      /\ Run(Add(rx_head, i)) - Run(Add(rx_tail, j)) < RX_SIZE
  BY <1>1, <1>3, Numbers
<1> QED
  BY <1>3, <1>4, Numbers, DivideAssumption, SlotsDiffer

\* It stores each byte to a slot of its own.
LEMMA PushSlots ==
  ASSUME BeckerInv, bpc = "push_copy", NEW i \in Nat, NEW j \in Nat, i < j, j < bn
  PROVE  Add(rx_head, i) % RX_SIZE # Add(rx_head, j) % RX_SIZE
<1>1. bn <= RX_SIZE
  BY PushFits
<1>2. Run(rx_head) + j < W /\ Run(rx_head) + i < W
  BY <1>1, Numbers
<1>3. /\ Add(rx_head, j) \in Index /\ Run(Add(rx_head, j)) = Run(rx_head) + j
      /\ Add(rx_head, i) \in Index /\ Run(Add(rx_head, i)) = Run(rx_head) + i
  BY <1>2, Numbers, AddRun
<1>4. /\ Run(Add(rx_head, i)) < Run(Add(rx_head, j))
      /\ Run(Add(rx_head, j)) - Run(Add(rx_head, i)) < RX_SIZE
  BY <1>1, <1>3, Numbers
<1> QED
  BY <1>3, <1>4, Numbers, DivideAssumption, SlotsDiffer

\* After the copy the bytes pushed lie behind the head, and the bytes in flight
\* are where they were.
LEMMA PushedCopy ==
  ASSUME BeckerInv, PushCopy
  PROVE  /\ \A i \in 1 .. bn : rx_buf'[Add(rx_head, i - 1) % RX_SIZE] = bbuf[i]
         /\ \A j \in 0 .. RxUsed - 1 :
              rx_buf'[Add(rx_tail, j) % RX_SIZE] = rx_buf[Add(rx_tail, j) % RX_SIZE]
<1> DEFINE Slot(i) == Add(rx_head, i - 1) % RX_SIZE
<1>0. bpc = "push_copy" /\ DOMAIN rx_buf = 0 .. RX_SIZE-1 /\ bn <= RX_SIZE
  <2>1. bpc = "push_copy" /\ DOMAIN rx_buf = 0 .. RX_SIZE-1
    BY DEF PushCopy, BeckerInv, TypeOK
  <2> QED
    BY <2>1, PushFits
<1>1. rx_buf' = [k \in DOMAIN rx_buf |->
                  IF \E i \in 1 .. bn : Slot(i) = k
                    THEN bbuf[CHOOSE i \in 1 .. bn : Slot(i) = k]
                    ELSE rx_buf[k]]
  BY DEF PushCopy
<1>2. ASSUME NEW i \in 1 .. bn
      PROVE  Slot(i) \in 0 .. RX_SIZE-1
  <2>0. /\ bn \in Nat /\ RX_SIZE \in Nat /\ rx_total \in Nat /\ W \in Nat
        /\ Run(rx_head) = rx_total /\ rx_total + RX_SIZE < W
    BY Numbers
  <2>1. i - 1 \in Nat /\ Run(rx_head) + (i - 1) < W
    BY <1>0, <2>0
  <2>2. Add(rx_head, i - 1) \in Index
    BY <2>1, Numbers, AddRun
  <2>3. Add(rx_head, i - 1) \in Int
    BY <2>2, Numbers DEF Index
  <2> QED
    BY <2>3, Numbers, ModRange
<1>3. ASSUME NEW i \in 1 .. bn, NEW j \in 1 .. bn, Slot(i) = Slot(j)
      PROVE  i = j
  <2>1. i - 1 \in Nat /\ j - 1 \in Nat /\ i - 1 < bn /\ j - 1 < bn
    BY Numbers
  <2>2. ~(i - 1 < j - 1) /\ ~(j - 1 < i - 1)
    BY <1>0, <1>3, <2>1, PushSlots
  <2> QED
    BY <2>1, <2>2
<1>4. ASSUME NEW j \in 0 .. RxUsed - 1, NEW i \in 1 .. bn
      PROVE  Slot(i) # Add(rx_tail, j) % RX_SIZE
  <2>1. i - 1 \in Nat /\ i - 1 < bn /\ j \in Nat /\ j < RxUsed
    BY Numbers
  <2> QED
    BY <1>0, <2>1, RxSlotFree
<1>5. ASSUME NEW j \in 0 .. RxUsed - 1
      PROVE  Add(rx_tail, j) % RX_SIZE \in 0 .. RX_SIZE-1
  <2>1. j \in Nat /\ Run(rx_tail) + j < W
    BY Numbers
  <2>2. Add(rx_tail, j) \in Index
    BY <2>1, Numbers, AddRun
  <2>3. Add(rx_tail, j) \in Int
    BY <2>2, Numbers DEF Index
  <2> QED
    BY <2>3, Numbers, ModRange
<1> HIDE DEF Slot
<1>6. ASSUME NEW i \in 1 .. bn
      PROVE  rx_buf'[Slot(i)] = bbuf[i]
  <2>1. (CHOOSE j \in 1 .. bn : Slot(j) = Slot(i)) = i
    <3> DEFINE c == CHOOSE j \in 1 .. bn : Slot(j) = Slot(i)
    <3>1. c \in 1 .. bn /\ Slot(c) = Slot(i)
      OBVIOUS
    <3> HIDE DEF c
    <3>2. c = i
      BY <1>3, <3>1
    <3> QED
      BY <3>2 DEF c
  <2>2. Slot(i) \in DOMAIN rx_buf
    BY <1>0, <1>2
  <2>3. rx_buf'[Slot(i)] = bbuf[CHOOSE j \in 1 .. bn : Slot(j) = Slot(i)]
    BY <1>1, <2>2
  <2> QED
    BY <2>1, <2>3
<1>7. ASSUME NEW j \in 0 .. RxUsed - 1
      PROVE  rx_buf'[Add(rx_tail, j) % RX_SIZE] = rx_buf[Add(rx_tail, j) % RX_SIZE]
  BY <1>0, <1>1, <1>4, <1>5
<1> QED
  BY <1>6, <1>7 DEF Slot

-----------------------------------------------------------------------------
(* The bytes being handed over.                                             *)

\* Initially nobody is handing a byte over.
LEMMA InitCopied ==
  ASSUME Init
  PROVE  CopiedInv
  BY DEF Init, CopiedInv

\* Every step keeps them equal to what the slots hold.
LEMMA NextCopied ==
  ASSUME BeckerInv, CopiedInv, [Next]_beckerVars
  PROVE  CopiedInv'
<1>1. CASE ReadClear
  BY <1>1 DEF CopiedInv, ReadClear, rxRing, txRing, flushVars, wakeVars,
     coreOneVars, coreZeroVars
<1>2. CASE ReadStatusBegin
  BY <1>2 DEF CopiedInv, ReadStatusBegin, ReadBegin, rxRing, txRing, flushVars, wakeVars,
     coreOneVars, coreZeroVars
<1>3. CASE ReadDataBegin
  BY <1>3 DEF CopiedInv, ReadDataBegin, ReadBegin, rxRing, txRing, flushVars, wakeVars,
     coreOneVars, coreZeroVars
<1>4. CASE ReadStatusEnd
  BY <1>4 DEF CopiedInv, ReadStatusEnd, rxRing, txRing, flushVars, wakeVars,
     coreOneVars, coreZeroVars
<1>5. CASE ReadDataLook
  BY <1>5 DEF CopiedInv, ReadDataLook, rxRing, txRing, flushVars, wakeVars,
     coreOneVars, coreZeroVars
<1>6. CASE ReadDataEnd
  BY <1>6 DEF CopiedInv, ReadDataEnd, rxRing, txRing, flushVars, wakeVars,
     coreOneVars, coreZeroVars
<1>7. CASE \E b \in Byte : WriteBegin(b)
  BY <1>7 DEF CopiedInv, WriteBegin, rxRing, txRing, flushVars, wakeVars,
     coreOneVars, coreZeroVars
<1>8. CASE WriteEnd
  BY <1>8 DEF CopiedInv, WriteEnd, rxRing, txRing, flushVars, wakeVars,
     coreOneVars, coreZeroVars
<1>9. CASE ResetBegin
  BY <1>9 DEF CopiedInv, ResetBegin, rxRing, txRing, flushVars, wakeVars,
     coreOneVars, coreZeroVars
<1>10. CASE ResetMark
  BY <1>10 DEF CopiedInv, ResetMark, rxRing, txRing, flushVars, wakeVars,
     coreOneVars, coreZeroVars
<1>11. CASE ResetFlush
  BY <1>11 DEF CopiedInv, ResetFlush, rxRing, txRing, flushVars, wakeVars,
     coreOneVars, coreZeroVars
<1>12. CASE ResetEnd
  BY <1>12 DEF CopiedInv, ResetEnd, rxRing, txRing, flushVars, wakeVars,
     coreOneVars, coreZeroVars
<1>13. CASE ScanlineTick
  BY <1>13 DEF CopiedInv, ScanlineTick, rxRing, txRing, flushVars, wakeVars,
     coreOneVars, coreZeroVars
<1>14. CASE PopBegin
  BY <1>14 DEF CopiedInv, PopBegin, rxRing, txRing, flushVars, wakeVars,
     coreOneVars, coreZeroVars
<1>15. CASE PopClear
  BY <1>15 DEF CopiedInv, PopClear, rxRing, txRing, flushVars, wakeVars,
     coreOneVars, coreZeroVars
<1>16. CASE PopAvail
  BY <1>16 DEF CopiedInv, PopAvail, rxRing, txRing, flushVars, wakeVars,
     coreOneVars, coreZeroVars
<1>17. CASE PopEnd
  BY <1>17 DEF CopiedInv, PopEnd, rxRing, txRing, flushVars, wakeVars,
     coreOneVars, coreZeroVars
<1>18. CASE \E s \in UNION {[1 .. k -> Byte] : k \in 1 .. POP_MAX} : PushBegin(s)
  BY <1>18 DEF CopiedInv, PushBegin, rxRing, txRing, flushVars, wakeVars,
     coreOneVars, coreZeroVars
<1>19. CASE PushEnd
  BY <1>19 DEF CopiedInv, PushEnd, rxRing, txRing, flushVars, wakeVars,
     coreOneVars, coreZeroVars
<1>20. CASE ClearBegin
  BY <1>20 DEF CopiedInv, ClearBegin, ClearReset, rxRing, txRing, flushVars, wakeVars,
     coreOneVars, coreZeroVars
<1>21. CASE DownClear
  BY <1>21 DEF CopiedInv, DownClear, ClearReset, rxRing, txRing, flushVars, wakeVars,
     coreOneVars, coreZeroVars
<1>22. CASE ClearFlush
  BY <1>22 DEF CopiedInv, ClearFlush, rxRing, txRing, flushVars, wakeVars,
     coreOneVars, coreZeroVars
<1>23. CASE ClearEnd
  BY <1>23 DEF CopiedInv, ClearEnd, rxRing, txRing, flushVars, wakeVars,
     coreOneVars, coreZeroVars
<1>24. CASE LinkUp
  BY <1>24 DEF CopiedInv, LinkUp, rxRing, txRing, flushVars, wakeVars,
     coreOneVars, coreZeroVars
<1>25. CASE DownBegin
  BY <1>25 DEF CopiedInv, DownBegin, rxRing, txRing, flushVars, wakeVars,
     coreOneVars, coreZeroVars
<1>26. CASE DownDrop
  BY <1>26 DEF CopiedInv, DownDrop, rxRing, txRing, flushVars, wakeVars,
     coreOneVars, coreZeroVars
<1>27. CASE DownMark
  BY <1>27 DEF CopiedInv, DownMark, rxRing, txRing, flushVars, wakeVars,
     coreOneVars, coreZeroVars
<1>28. CASE DownAsk
  BY <1>28 DEF CopiedInv, DownAsk, rxRing, txRing, flushVars, wakeVars,
     coreOneVars, coreZeroVars
<1>29. CASE DownEnd
  BY <1>29 DEF CopiedInv, DownEnd, rxRing, txRing, flushVars, wakeVars,
     coreOneVars, coreZeroVars
<1>31. CASE WriteFill
  <2>0. cpc = "fill" /\ tx_buf \in [0 .. TX_SIZE-1 -> Byte]
    BY <1>31 DEF WriteFill, BeckerInv, TypeOK
  <2>1. tx_head % TX_SIZE \in 0 .. TX_SIZE-1
    <3>1. tx_head \in Int
      BY Numbers DEF Index
    <3> QED
      BY <3>1, Numbers, ModRange
  <2>2. tx_buf'[tx_head % TX_SIZE] = cbyte
    BY <1>31, <2>0, <2>1 DEF WriteFill
  <2>3. ASSUME bpc = "pop_take", NEW i \in 1 .. bn
        PROVE  tx_buf'[Add(tx_tail, i - 1) % TX_SIZE] = tx_buf[Add(tx_tail, i - 1) % TX_SIZE]
    <3>1. bn <= TxUsed
      BY <2>3, UsedRun DEF BeckerInv, TestedInv
    <3>2. i - 1 \in Nat /\ i - 1 < TxUsed
      BY <3>1, Numbers
    <3>3. Add(tx_tail, i - 1) % TX_SIZE # tx_head % TX_SIZE
      BY <2>0, <3>2, TxSlotFree
    <3> QED
      BY <1>31, <3>3 DEF WriteFill
  <2> QED
    BY <1>31, <2>2, <2>3 DEF CopiedInv, WriteFill, rxRing, coreZeroVars
<1>32. CASE ReadDataCopy
  BY <1>32 DEF CopiedInv, ReadDataCopy, rxRing, txRing, coreZeroVars
<1>33. CASE PopCopy
  <2>1. bn \in Nat
    BY Numbers
  <2> DEFINE Slot(i) == tx_buf[Add(tx_tail, i - 1) % TX_SIZE]
  <2>2. bbuf' = [i \in 1 .. bn |-> Slot(i)] /\ bn' = bn
    BY <1>33 DEF PopCopy
  <2> HIDE DEF Slot
  <2>3. Len(bbuf') = bn' /\ \A i \in 1 .. bn : bbuf'[i] = Slot(i)
    BY <2>1, <2>2
  <2> QED
    BY <1>33, <2>3 DEF Slot, CopiedInv, PopCopy, rxRing, txRing, coreOneVars
<1>34. CASE PushCopy
  <2>1. \A i \in 1 .. bn : rx_buf'[Add(rx_head, i - 1) % RX_SIZE] = bbuf[i]
    BY <1>34, PushedCopy
  <2>2. cpc = "take" => rx_buf'[rx_tail % RX_SIZE] = rx_buf[rx_tail % RX_SIZE]
    <3> HAVE cpc = "take"
    <3>1. 0 \in 0 .. RxUsed - 1
      BY UsedRun, Numbers, SMTT(20) DEF BeckerInv, TestedInv
    <3>2. Add(rx_tail, 0) = rx_tail
      BY Numbers DEF Add, Index
    <3> QED
      BY <1>34, <3>1, <3>2, PushedCopy
  <2> QED
    BY <1>34, <2>1, <2>2, ZenonT(30) DEF CopiedInv, PushCopy, txRing, coreOneVars
<1>35. CASE UNCHANGED beckerVars
  BY <1>35 DEF CopiedInv, beckerVars, rxRing, txRing, flushVars, wakeVars, coreOneVars, coreZeroVars
<1> QED
  BY <1>1, <1>2, <1>3, <1>4, <1>5, <1>6, <1>7, <1>8, <1>9, <1>10, <1>11, <1>12, <1>13, <1>14, <1>15, <1>16, <1>17, <1>18, <1>19, <1>20, <1>21, <1>22, <1>23, <1>24, <1>25, <1>26, <1>27, <1>28, <1>29, <1>31, <1>32, <1>33, <1>34, <1>35
     DEF Next, CpuCall, CpuStep, BackendCall, BackendStep

\* What a core is handing over is what lies in the slots it has copied, for every
\* ring size, byte set and budget.
THEOREM BeckerCopies == Spec => []CopiedInv
<1>1. Init => CopiedInv
  BY InitCopied
<1>2. BeckerInv /\ CopiedInv /\ [Next]_beckerVars => CopiedInv'
  BY NextCopied
<1> QED
  BY <1>1, <1>2, BeckerCorrect, PTL DEF Spec

-----------------------------------------------------------------------------
(* The two rings implement the two queues of BytePipe.                      *)

\* The queues the rings stand for.
LEMMA Queues ==
  ASSUME BeckerInv
  PROVE  /\ RxQueue = Ring(rx_buf, rx_tail, RxUsed, RX_SIZE)
         /\ TxQueue = Ring(tx_buf, tx_tail, TxUsed, TX_SIZE)
         /\ RxQueue \in Seq(Byte) /\ Len(RxQueue) = RxUsed
         /\ TxQueue \in Seq(Byte) /\ Len(TxQueue) = TxUsed
         /\ \A i \in 1 .. RxUsed : RxQueue[i] = rx_buf[Add(rx_tail, i - 1) % RX_SIZE]
         /\ \A i \in 1 .. TxUsed : TxQueue[i] = tx_buf[Add(tx_tail, i - 1) % TX_SIZE]
<1>1. /\ RxQueue = Ring(rx_buf, rx_tail, RxUsed, RX_SIZE)
      /\ TxQueue = Ring(tx_buf, tx_tail, TxUsed, TX_SIZE)
  BY DEF RxQueue, TxQueue, Ring
<1>2. rx_buf \in [0 .. RX_SIZE-1 -> Byte] /\ tx_buf \in [0 .. TX_SIZE-1 -> Byte]
  BY DEF BeckerInv, TypeOK
<1>3. rx_tail \in Index /\ RxUsed \in Nat /\ RX_SIZE \in Nat \ {0} /\ Run(rx_tail) + RxUsed < W
  BY Numbers
<1>6. tx_tail \in Index /\ TxUsed \in Nat /\ TX_SIZE \in Nat \ {0} /\ Run(tx_tail) + TxUsed < W
  BY Numbers
<1>4. /\ RxQueue \in Seq(Byte) /\ Len(RxQueue) = RxUsed
      /\ \A i \in 1 .. RxUsed : RxQueue[i] = rx_buf[Add(rx_tail, i - 1) % RX_SIZE]
  <2>1. /\ Ring(rx_buf, rx_tail, RxUsed, RX_SIZE) \in Seq(Byte)
        /\ Len(Ring(rx_buf, rx_tail, RxUsed, RX_SIZE)) = RxUsed
        /\ \A i \in 1 .. RxUsed :
             Ring(rx_buf, rx_tail, RxUsed, RX_SIZE)[i] = rx_buf[Add(rx_tail, i - 1) % RX_SIZE]
    BY <1>2, <1>3, RingType
  <2> QED
    BY <1>1, <2>1, Zenon
<1>5. /\ TxQueue \in Seq(Byte) /\ Len(TxQueue) = TxUsed
      /\ \A i \in 1 .. TxUsed : TxQueue[i] = tx_buf[Add(tx_tail, i - 1) % TX_SIZE]
  <2>1. /\ Ring(tx_buf, tx_tail, TxUsed, TX_SIZE) \in Seq(Byte)
        /\ Len(Ring(tx_buf, tx_tail, TxUsed, TX_SIZE)) = TxUsed
        /\ \A i \in 1 .. TxUsed :
             Ring(tx_buf, tx_tail, TxUsed, TX_SIZE)[i] = tx_buf[Add(tx_tail, i - 1) % TX_SIZE]
    BY <1>2, <1>6, RingType
  <2> QED
    BY <1>1, <2>1, Zenon
<1> QED
  BY <1>1, <1>4, <1>5

\* Moving rx_tail towards the head drops the oldest bytes, or none.
LEMMA RxTailMoves ==
  ASSUME BeckerInv, NEW t \in Index, Run(t) \in Run(rx_tail) .. rx_total,
         rx_tail' = t, rx_head' = rx_head, rx_buf' = rx_buf
  PROVE  /\ Run(t) - Run(rx_tail) \in 0 .. RxUsed
         /\ RxQueue' = SubSeq(RxQueue, (Run(t) - Run(rx_tail)) + 1, RxUsed)
<1> DEFINE k == Run(t) - Run(rx_tail)
<1>1. k \in 0 .. RxUsed /\ k \in Nat /\ Run(t) \in Nat /\ Run(t) = Run(rx_tail) + k
  BY Numbers, RunType
<1>2. Add(rx_tail, k) = t
  <2>1. Run(rx_tail) + k < W
    BY <1>1, Numbers
  <2>2. Add(rx_tail, k) \in Index /\ Run(Add(rx_tail, k)) = Run(rx_tail) + k
    BY <1>1, <2>1, Numbers, AddRun
  <2>3. Run(Add(rx_tail, k)) = Run(t)
    BY <1>1, <2>2
  <2> QED
    BY <2>2, <2>3, RunInjective
<1>3. RxUsed' = RxUsed - k
  <2>1. RxUsed' = Sub(rx_head, t)
    BY DEF RxUsed
  <2>2. Run(t) <= Run(rx_head)
    BY Numbers
  <2>3. Sub(rx_head, t) = Run(rx_head) - Run(t)
    BY <2>2, Numbers, SubRun
  <2> QED
    BY <1>1, <2>1, <2>3, Numbers
<1>4. RxQueue' = Ring(rx_buf, t, RxUsed', RX_SIZE)
  BY DEF RxQueue, Ring
<1>5. /\ Run(rx_tail) + RxUsed < W
      /\ rx_tail \in Index /\ RxUsed \in Nat /\ RX_SIZE \in Nat \ {0}
  BY Numbers
<1>6. rx_buf \in [0 .. RX_SIZE-1 -> Byte]
  BY DEF BeckerInv, TypeOK
<1> HIDE DEF k
<1>7. Ring(rx_buf, Add(rx_tail, k), RxUsed - k, RX_SIZE)
        = SubSeq(Ring(rx_buf, rx_tail, RxUsed, RX_SIZE), k + 1, RxUsed)
  BY <1>1, <1>5, <1>6, RingSkip
<1> QED
  BY <1>1, <1>2, <1>3, <1>4, <1>7, Queues DEF k

\* The same of tx_tail.
LEMMA TxTailMoves ==
  ASSUME BeckerInv, NEW t \in Index, Run(t) \in Run(tx_tail) .. bytes_from_coco,
         tx_tail' = t, tx_head' = tx_head, tx_buf' = tx_buf
  PROVE  /\ Run(t) - Run(tx_tail) \in 0 .. TxUsed
         /\ TxQueue' = SubSeq(TxQueue, (Run(t) - Run(tx_tail)) + 1, TxUsed)
<1> DEFINE k == Run(t) - Run(tx_tail)
<1>1. k \in 0 .. TxUsed /\ k \in Nat /\ Run(t) \in Nat /\ Run(t) = Run(tx_tail) + k
  BY Numbers, RunType
<1>2. Add(tx_tail, k) = t
  <2>1. Run(tx_tail) + k < W
    BY <1>1, Numbers
  <2>2. Add(tx_tail, k) \in Index /\ Run(Add(tx_tail, k)) = Run(tx_tail) + k
    BY <1>1, <2>1, Numbers, AddRun
  <2>3. Run(Add(tx_tail, k)) = Run(t)
    BY <1>1, <2>2
  <2> QED
    BY <2>2, <2>3, RunInjective
<1>3. TxUsed' = TxUsed - k
  <2>1. TxUsed' = Sub(tx_head, t)
    BY DEF TxUsed
  <2>2. Run(t) <= Run(tx_head)
    BY Numbers
  <2>3. Sub(tx_head, t) = Run(tx_head) - Run(t)
    BY <2>2, Numbers, SubRun
  <2> QED
    BY <1>1, <2>1, <2>3, Numbers
<1>4. TxQueue' = Ring(tx_buf, t, TxUsed', TX_SIZE)
  BY DEF TxQueue, Ring
<1>5. /\ Run(tx_tail) + TxUsed < W
      /\ tx_tail \in Index /\ TxUsed \in Nat /\ TX_SIZE \in Nat \ {0}
  BY Numbers
<1>6. tx_buf \in [0 .. TX_SIZE-1 -> Byte]
  BY DEF BeckerInv, TypeOK
<1> HIDE DEF k
<1>7. Ring(tx_buf, Add(tx_tail, k), TxUsed - k, TX_SIZE)
        = SubSeq(Ring(tx_buf, tx_tail, TxUsed, TX_SIZE), k + 1, TxUsed)
  BY <1>1, <1>5, <1>6, RingSkip
<1> QED
  BY <1>1, <1>2, <1>3, <1>4, <1>7, Queues DEF k

\* A core 1 function that moves rx_tail ahead is a flush of the queue to the CoCo.
LEMMA RxTailDrops ==
  ASSUME BeckerInv, NEW t \in Index, Run(t) \in Run(rx_tail) .. rx_total,
         rx_tail' = t, rx_head' = rx_head, rx_buf' = rx_buf,
         UNCHANGED <<tx_buf, tx_head, tx_tail, coco_got, popped>>
  PROVE  [Pipe!Next]_(Pipe!vars)
<1> DEFINE n == Run(t) - Run(rx_tail)
<1>1. n \in 0 .. RxUsed /\ RxQueue' = SubSeq(RxQueue, n + 1, RxUsed)
  BY RxTailMoves
<1>2. TxQueue' = TxQueue
  BY DEF TxQueue, TxUsed
<1>3. CASE n = 0
  <2>1. t = rx_tail
    BY <1>3, Numbers, RunType, RunInjective
  <2>2. RxQueue' = RxQueue
    BY <2>1 DEF RxQueue, RxUsed
  <2> QED
    BY <1>2, <2>2 DEF Pipe!vars
<1>4. CASE n # 0
  <2> HIDE DEF n
  <2>0. Len(RxQueue) = RxUsed
    BY Queues
  <2>1. n \in 1 .. Len(RxQueue) /\ RxQueue' = SubSeq(RxQueue, n + 1, Len(RxQueue))
    BY <1>1, <1>4, <2>0
  <2>2. Pipe!DropToCoco
    BY <1>2, <2>1 DEF Pipe!DropToCoco
  <2> QED
    BY <2>2 DEF Pipe!Next
<1> QED
  BY <1>3, <1>4

\* A core 0 function that moves tx_tail ahead is a flush of the queue to the server.
LEMMA TxTailDrops ==
  ASSUME BeckerInv, NEW t \in Index, Run(t) \in Run(tx_tail) .. bytes_from_coco,
         tx_tail' = t, tx_head' = tx_head, tx_buf' = tx_buf,
         UNCHANGED <<rx_buf, rx_head, rx_tail, coco_got, popped>>
  PROVE  [Pipe!Next]_(Pipe!vars)
<1> DEFINE n == Run(t) - Run(tx_tail)
<1>1. n \in 0 .. TxUsed /\ TxQueue' = SubSeq(TxQueue, n + 1, TxUsed)
  BY TxTailMoves
<1>2. RxQueue' = RxQueue
  BY DEF RxQueue, RxUsed
<1>3. CASE n = 0
  <2>1. t = tx_tail
    BY <1>3, Numbers, RunType, RunInjective
  <2>2. TxQueue' = TxQueue
    BY <2>1 DEF TxQueue, TxUsed
  <2> QED
    BY <1>2, <2>2 DEF Pipe!vars
<1>4. CASE n # 0
  <2> HIDE DEF n
  <2>0. Len(TxQueue) = TxUsed
    BY Queues
  <2>1. n \in 1 .. Len(TxQueue) /\ TxQueue' = SubSeq(TxQueue, n + 1, Len(TxQueue))
    BY <1>1, <1>4, <2>0
  <2>2. Pipe!DropToServer
    BY <1>2, <2>1 DEF Pipe!DropToServer
  <2> QED
    BY <2>2 DEF Pipe!Next
<1> QED
  BY <1>3, <1>4

\* becker_write_data's byte reaches the queue when tx_head moves.
LEMMA WriteSends ==
  ASSUME BeckerInv, CopiedInv, WriteEnd
  PROVE  Pipe!Next
<1>1. /\ cpc = "publish" /\ tx_head' = Add(tx_head, 1) /\ cbyte \in Byte
      /\ tx_buf' = tx_buf /\ tx_tail' = tx_tail
      /\ UNCHANGED <<rx_buf, rx_head, rx_tail, coco_got, popped>>
  BY DEF BeckerInv, TypeOK, WriteEnd, rxRing, coreZeroVars
<1>2. TxUsed < TX_SIZE
  BY <1>1, UsedRun DEF BeckerInv, TestedInv
<1>3. TxUsed' = TxUsed + 1
  <2>1. Run(tx_head) + 1 < W
    BY Numbers
  <2>2. Add(tx_head, 1) \in Index /\ Run(Add(tx_head, 1)) = Run(tx_head) + 1
    BY <2>1, Numbers, AddRun
  <2>3. Sub(Add(tx_head, 1), tx_tail) = Run(Add(tx_head, 1)) - Run(tx_tail)
    BY <2>2, Numbers, SubRun
  <2>4. TxUsed' = Sub(Add(tx_head, 1), tx_tail)
    BY <1>1 DEF TxUsed
  <2> QED
    BY <2>2, <2>3, <2>4, Numbers
<1>4. TxQueue' = Ring(tx_buf, tx_tail, TxUsed + 1, TX_SIZE)
  BY <1>1, <1>3 DEF TxQueue, Ring
<1>5. Ring(tx_buf, tx_tail, TxUsed + 1, TX_SIZE)
        = Append(Ring(tx_buf, tx_tail, TxUsed, TX_SIZE), tx_buf[Add(tx_tail, TxUsed) % TX_SIZE])
  <2>1. tx_buf \in [0 .. TX_SIZE-1 -> Byte]
    BY DEF BeckerInv, TypeOK
  <2>2. /\ TX_SIZE \in Nat \ {0} /\ tx_tail \in Index /\ TxUsed \in Nat
        /\ Run(tx_tail) + (TxUsed + 1) < W
    BY Numbers
  <2> QED
    BY <2>1, <2>2, RingAppend
<1>6. tx_buf[Add(tx_tail, TxUsed) % TX_SIZE] = cbyte
  BY <1>1, HeadIsEnd DEF CopiedInv
<1>7. TxQueue' = Append(TxQueue, cbyte)
  BY <1>4, <1>5, <1>6, Queues
<1>8. RxQueue' = RxQueue
  BY <1>1 DEF RxQueue, RxUsed
<1>9. Pipe!CocoSend(cbyte)
  BY <1>1, <1>2, <1>7, <1>8, Queues DEF Pipe!CocoSend
<1> QED
  BY <1>1, <1>9 DEF Pipe!Next

\* becker_read_data takes the oldest byte.
LEMMA ReadTakes ==
  ASSUME BeckerInv, CopiedInv, ReadDataEnd
  PROVE  Pipe!Next
<1> DEFINE t == Add(rx_tail, 1)
<1>1. /\ cpc = "take" /\ rx_tail' = t /\ coco_got' = <<cbyte>>
      /\ rx_head' = rx_head /\ rx_buf' = rx_buf
      /\ UNCHANGED <<tx_buf, tx_head, tx_tail, popped>>
  BY DEF ReadDataEnd, txRing, coreZeroVars
<1>2. Run(rx_tail) < rx_total
  BY <1>1 DEF BeckerInv, TestedInv
<1>3. t \in Index /\ Run(t) = Run(rx_tail) + 1
  <2>1. Run(rx_tail) + 1 < W
    BY <1>2, Numbers
  <2> QED
    BY <2>1, Numbers, AddRun
<1> HIDE DEF t
<1>4. Run(t) \in Run(rx_tail) .. rx_total /\ (Run(t) - Run(rx_tail)) + 1 = 2 /\ RxUsed >= 1
  BY <1>2, <1>3, Numbers
<1>5. RxQueue' = SubSeq(RxQueue, (Run(t) - Run(rx_tail)) + 1, RxUsed)
  BY <1>1, <1>3, <1>4, RxTailMoves
<1>6. RxQueue \in Seq(Byte) /\ Len(RxQueue) = RxUsed
  BY Queues
<1>7. RxQueue # <<>>
  BY <1>4, <1>6
<1>8. RxQueue' = Tail(RxQueue)
  BY <1>4, <1>5, <1>6, <1>7, TailIsSubSeq
<1>9. Head(RxQueue) = cbyte
  <2>1. 1 \in 1 .. RxUsed
    BY <1>4, Numbers
  <2>2. RxQueue[1] = rx_buf[Add(rx_tail, 0) % RX_SIZE]
    BY <2>1, Queues
  <2>3. Add(rx_tail, 0) = rx_tail
    BY Numbers DEF Add, Index
  <2>4. RxQueue[1] = cbyte
    BY <1>1, <2>2, <2>3 DEF CopiedInv
  <2> QED
    BY <1>6, <1>7, <2>4
<1>10. TxQueue' = TxQueue
  BY <1>1 DEF TxQueue, TxUsed
<1>11. Pipe!CocoTake
  BY <1>1, <1>7, <1>8, <1>9, <1>10 DEF Pipe!CocoTake
<1> QED
  BY <1>11 DEF Pipe!Next

\* becker_tx_pop takes the bn oldest bytes.
LEMMA PopTakes ==
  ASSUME BeckerInv, CopiedInv, PopEnd
  PROVE  Pipe!Next
<1> DEFINE t == Add(tx_tail, bn)
           u == SubSeq(TxQueue, 1, bn)
<1>1. /\ bpc = "pop_take" /\ tx_tail' = t /\ popped' = bbuf
      /\ tx_head' = tx_head /\ tx_buf' = tx_buf
      /\ UNCHANGED <<rx_buf, rx_head, rx_tail, coco_got>>
  BY DEF PopEnd, rxRing, coreOneVars
<1>2. bn <= TxUsed /\ bn \in Nat
  BY <1>1, UsedRun, Numbers DEF BeckerInv, TestedInv
<1>3. t \in Index /\ Run(t) = Run(tx_tail) + bn
  <2>1. Run(tx_tail) + bn < W
    BY <1>2, Numbers
  <2> QED
    BY <2>1, Numbers, AddRun
<1> HIDE DEF t
<1>4. Run(t) \in Run(tx_tail) .. bytes_from_coco /\ Run(t) - Run(tx_tail) = bn
  BY <1>2, <1>3, Numbers
<1>5. TxQueue' = SubSeq(TxQueue, bn + 1, TxUsed)
  BY <1>1, <1>3, <1>4, TxTailMoves
<1>6. /\ TxQueue \in Seq(Byte) /\ Len(TxQueue) = TxUsed /\ TxUsed \in Nat
      /\ \A i \in 1 .. TxUsed : TxQueue[i] = tx_buf[Add(tx_tail, i - 1) % TX_SIZE]
  BY Queues, Numbers
<1>7. bbuf = u
  <2>1. \A i \in 1 .. bn : TxQueue[i] \in Byte
    BY <1>2, <1>6
  <2>2. /\ u \in Seq(Byte) /\ Len(u) = bn
        /\ \A i \in 1 .. bn : u[i] = TxQueue[i]
    <3>1. /\ u \in Seq(Byte)
          /\ Len(u) = IF 1 <= bn THEN bn - 1 + 1 ELSE 0
          /\ \A i \in 1 .. (bn - 1 + 1) : u[i] = TxQueue[1 + i - 1]
      BY <1>2, <2>1, SubSeqProperties
    <3> HIDE DEF u
    <3> QED
      BY <1>2, <3>1
  <2> HIDE DEF u
  <2>3. /\ Len(bbuf) = bn /\ bbuf \in Seq(Byte)
        /\ \A i \in 1 .. bn : bbuf[i] = tx_buf[Add(tx_tail, i - 1) % TX_SIZE]
    BY <1>1 DEF CopiedInv, BeckerInv, TypeOK
  <2>4. ASSUME NEW i \in 1 .. bn
        PROVE  bbuf[i] = u[i]
    <3>1. i \in 1 .. TxUsed
      BY <1>2, <1>6
    <3> QED
      BY <1>6, <2>2, <2>3, <3>1
  <2> QED
    BY <2>2, <2>3, <2>4, SeqEqual
<1>8. RxQueue' = RxQueue
  BY <1>1 DEF RxQueue, RxUsed
<1>9. bn \in 0 .. Len(TxQueue) /\ TxQueue' = SubSeq(TxQueue, bn + 1, Len(TxQueue))
  BY <1>2, <1>5, <1>6
<1>10. popped' = SubSeq(TxQueue, 1, bn) /\ coco_got' = coco_got
  BY <1>1, <1>7
<1>11. Pipe!ServerTake
  BY <1>8, <1>9, <1>10 DEF Pipe!ServerTake
<1> QED
  BY <1>11 DEF Pipe!Next

\* becker_tx_pop on an empty ring takes nothing; otherwise it has only counted.
LEMMA PopLooks ==
  ASSUME BeckerInv, PopAvail
  PROVE  [Pipe!Next]_(Pipe!vars)
<1>1. /\ UNCHANGED <<rx_buf, rx_head, rx_tail, tx_buf, tx_head, tx_tail, coco_got>>
      /\ popped' = popped \/ (TxUsed = 0 /\ popped' = <<>>)
  BY DEF PopAvail, rxRing, txRing, coreOneVars
<1>2. RxQueue' = RxQueue /\ TxQueue' = TxQueue
  BY <1>1 DEF RxQueue, RxUsed, TxQueue, TxUsed
<1>3. CASE popped' = popped
  BY <1>1, <1>2, <1>3 DEF Pipe!vars
<1>4. CASE TxUsed = 0 /\ popped' = <<>>
  <2>1. Len(TxQueue) = 0 /\ TxQueue \in Seq(Byte)
    BY <1>4, Queues
  <2>2. TxQueue = <<>>
    BY <2>1
  <2>3. SubSeq(TxQueue, 1, 0) = <<>> /\ SubSeq(TxQueue, 0 + 1, Len(TxQueue)) = <<>>
    BY <2>1, SubSeqEmpty
  <2>4. 0 \in 0 .. Len(TxQueue)
    BY <2>1
  <2>5. Pipe!ServerTake
    BY <1>1, <1>2, <1>4, <2>2, <2>3, <2>4 DEF Pipe!ServerTake
  <2> QED
    BY <2>5 DEF Pipe!Next
<1> QED
  BY <1>1, <1>3, <1>4

\* becker_rx_push's bytes reach the queue, behind the ones there, when rx_head moves.
LEMMA PushSends ==
  ASSUME BeckerInv, PushEnd
  PROVE  Pipe!Next
<1>1. /\ bpc = "push_publish" /\ rx_head' = Add(rx_head, bn)
      /\ rx_buf' = rx_buf /\ rx_tail' = rx_tail
      /\ UNCHANGED <<tx_buf, tx_head, tx_tail, coco_got, popped>>
  BY DEF PushEnd, txRing, coreOneVars
<1>2. bn + RxUsed <= RX_SIZE
  BY <1>1, PushFits
<1>3. RxUsed' = RxUsed + bn
  <2>1. Run(rx_head) + bn < W
    BY <1>2, Numbers
  <2>2. Add(rx_head, bn) \in Index /\ Run(Add(rx_head, bn)) = Run(rx_head) + bn
    BY <2>1, Numbers, AddRun
  <2>3. Run(rx_tail) <= Run(Add(rx_head, bn))
    BY <2>2, Numbers
  <2>4. Sub(Add(rx_head, bn), rx_tail) = Run(Add(rx_head, bn)) - Run(rx_tail)
    BY <2>2, <2>3, Numbers, SubRun
  <2>5. RxUsed' = Sub(Add(rx_head, bn), rx_tail)
    BY <1>1 DEF RxUsed
  <2> QED
    BY <2>2, <2>4, <2>5, Numbers
<1>4. RxQueue' = Ring(rx_buf, rx_tail, RxUsed + bn, RX_SIZE)
  BY <1>1, <1>3 DEF RxQueue, Ring
<1>5. /\ RX_SIZE \in Nat \ {0} /\ rx_tail \in Index /\ RxUsed \in Nat /\ bn \in Nat
      /\ Run(rx_tail) + (RxUsed + bn) < W
  BY <1>2, Numbers
<1>6. rx_buf \in [0 .. RX_SIZE-1 -> Byte]
  BY DEF BeckerInv, TypeOK
<1>7. SubSeq(RxQueue', 1, RxUsed) = RxQueue
  BY <1>4, <1>5, <1>6, RingExtend, Queues
<1>8. Len(RxQueue') = RxUsed + bn
  BY <1>4, <1>5, <1>6, RingType
<1>9. Len(RxQueue') \in Len(RxQueue) .. RX_SIZE
  <2>1. Len(RxQueue) = RxUsed
    BY Queues
  <2> QED
    BY <1>2, <1>5, <1>8, <2>1
<1>10. TxQueue' = TxQueue
  BY <1>1 DEF TxQueue, TxUsed
<1>11. Pipe!ServerSend
  BY <1>1, <1>7, <1>9, <1>10, Queues DEF Pipe!ServerSend
<1> QED
  BY <1>11 DEF Pipe!Next

\* A step that moves neither index, stores to no slot in use and returns nothing
\* is a stutter of the queues.
LEMMA RingsStill ==
  ASSUME UNCHANGED <<rx_buf, rx_head, rx_tail, tx_buf, tx_head, tx_tail, coco_got, popped>>
  PROVE  [Pipe!Next]_(Pipe!vars)
  BY DEF RxQueue, RxUsed, TxQueue, TxUsed, Pipe!vars

\* Neither is a byte stored ahead of its index.
LEMMA FillHides ==
  ASSUME BeckerInv, WriteFill
  PROVE  UNCHANGED Pipe!vars
<1>1. /\ cpc = "fill" /\ tx_buf' = [tx_buf EXCEPT ![tx_head % TX_SIZE] = cbyte]
      /\ UNCHANGED <<rx_buf, rx_head, rx_tail, tx_head, tx_tail, coco_got, popped>>
  BY DEF WriteFill, rxRing, coreZeroVars
<1>2. ASSUME NEW i \in 0 .. TxUsed - 1
      PROVE  tx_buf'[Add(tx_tail, i) % TX_SIZE] = tx_buf[Add(tx_tail, i) % TX_SIZE]
  <2>1. i \in Nat /\ i < TxUsed
    BY Numbers
  <2>2. Add(tx_tail, i) % TX_SIZE # tx_head % TX_SIZE
    BY <1>1, <2>1, TxSlotFree
  <2> QED
    BY <1>1, <2>2
<1>3. Ring(tx_buf', tx_tail, TxUsed, TX_SIZE) = Ring(tx_buf, tx_tail, TxUsed, TX_SIZE)
  <2>1. tx_tail \in Index /\ TxUsed \in Nat /\ TX_SIZE \in Nat \ {0}
    BY Numbers
  <2> QED
    BY <1>2, <2>1, RingStore
<1>4. TxQueue' = TxQueue
  BY <1>1, <1>3 DEF TxQueue, TxUsed, Ring
<1>5. RxQueue' = RxQueue
  BY <1>1 DEF RxQueue, RxUsed
<1> QED
  BY <1>1, <1>4, <1>5 DEF Pipe!vars

\* Nor is a chunk.
LEMMA PushHides ==
  ASSUME BeckerInv, PushCopy
  PROVE  UNCHANGED Pipe!vars
<1>1. UNCHANGED <<tx_buf, rx_head, rx_tail, tx_head, tx_tail, coco_got, popped>>
  BY DEF PushCopy, txRing, coreOneVars
<1>2. \A j \in 0 .. RxUsed - 1 :
        rx_buf'[Add(rx_tail, j) % RX_SIZE] = rx_buf[Add(rx_tail, j) % RX_SIZE]
  BY PushedCopy
<1>3. Ring(rx_buf', rx_tail, RxUsed, RX_SIZE) = Ring(rx_buf, rx_tail, RxUsed, RX_SIZE)
  <2>1. rx_tail \in Index /\ RxUsed \in Nat /\ RX_SIZE \in Nat \ {0}
    BY Numbers
  <2> QED
    BY <1>2, <2>1, RingStore
<1>4. RxQueue' = RxQueue
  BY <1>1, <1>3 DEF RxQueue, RxUsed, Ring
<1>5. TxQueue' = TxQueue
  BY <1>1 DEF TxQueue, TxUsed
<1> QED
  BY <1>1, <1>4, <1>5 DEF Pipe!vars

\* Empty rings are empty queues.
LEMMA PipeInit ==
  ASSUME Init
  PROVE  Pipe!Init
<1>1. RxUsed = 0 /\ TxUsed = 0
  BY SizeAssumption DEF Init, RxUsed, TxUsed, Sub
<1>2. RxQueue = <<>> /\ TxQueue = <<>>
  BY <1>1 DEF RxQueue, TxQueue
<1> QED
  BY <1>2 DEF Init, Pipe!Init

\* Every step of the rings is a step of the queues or a stutter.
LEMMA PipeNext ==
  ASSUME BeckerInv, CopiedInv, [Next]_beckerVars
  PROVE  [Pipe!Next]_(Pipe!vars)
<1>1. CASE ReadClear
  BY <1>1, RingsStill DEF ReadClear, rxRing, txRing, coreOneVars, coreZeroVars
<1>2. CASE ReadStatusEnd
  BY <1>2, RingsStill DEF ReadStatusEnd, rxRing, txRing, coreOneVars, coreZeroVars
<1>3. CASE ReadDataLook
  BY <1>3, RingsStill DEF ReadDataLook, rxRing, txRing, coreOneVars, coreZeroVars
<1>4. CASE ReadDataCopy
  BY <1>4, RingsStill DEF ReadDataCopy, rxRing, txRing, coreOneVars, coreZeroVars
<1>5. CASE \E b \in Byte : WriteBegin(b)
  BY <1>5, RingsStill DEF WriteBegin, rxRing, txRing, coreOneVars, coreZeroVars
<1>6. CASE ResetMark
  BY <1>6, RingsStill DEF ResetMark, rxRing, txRing, coreOneVars, coreZeroVars
<1>7. CASE ResetFlush
  BY <1>7, RingsStill DEF ResetFlush, rxRing, txRing, coreOneVars, coreZeroVars
<1>8. CASE ResetEnd
  BY <1>8, RingsStill DEF ResetEnd, rxRing, txRing, coreOneVars, coreZeroVars
<1>9. CASE ScanlineTick
  BY <1>9, RingsStill DEF ScanlineTick, rxRing, txRing, coreOneVars, coreZeroVars
<1>10. CASE PopClear
  BY <1>10, RingsStill DEF PopClear, rxRing, txRing, coreOneVars, coreZeroVars
<1>11. CASE PopCopy
  BY <1>11, RingsStill DEF PopCopy, rxRing, txRing, coreOneVars, coreZeroVars
<1>12. CASE \E s \in UNION {[1 .. k -> Byte] : k \in 1 .. POP_MAX} : PushBegin(s)
  BY <1>12, RingsStill DEF PushBegin, rxRing, txRing, coreOneVars, coreZeroVars
<1>13. CASE ClearFlush
  BY <1>13, RingsStill DEF ClearFlush, rxRing, txRing, coreOneVars, coreZeroVars
<1>14. CASE ClearEnd
  BY <1>14, RingsStill DEF ClearEnd, rxRing, txRing, coreOneVars, coreZeroVars
<1>15. CASE LinkUp
  BY <1>15, RingsStill DEF LinkUp, rxRing, txRing, coreOneVars, coreZeroVars
<1>16. CASE DownBegin
  BY <1>16, RingsStill DEF DownBegin, rxRing, txRing, coreOneVars, coreZeroVars
<1>17. CASE DownMark
  BY <1>17, RingsStill DEF DownMark, rxRing, txRing, coreOneVars, coreZeroVars
<1>18. CASE DownAsk
  BY <1>18, RingsStill DEF DownAsk, rxRing, txRing, coreOneVars, coreZeroVars
<1>19. CASE DownEnd
  BY <1>19, RingsStill DEF DownEnd, rxRing, txRing, coreOneVars, coreZeroVars
<1>20. CASE WriteFill
  BY <1>20, FillHides
<1>21. CASE PushCopy
  BY <1>21, PushHides
<1>22. CASE WriteEnd
  BY <1>22, WriteSends
<1>23. CASE ReadDataEnd
  BY <1>23, ReadTakes
<1>24. CASE PopEnd
  BY <1>24, PopTakes
<1>25. CASE PopAvail
  BY <1>25, PopLooks
<1>26. CASE PushEnd
  BY <1>26, PushSends
<1>27. CASE ReadStatusBegin
  <2>1. /\ rx_tail' = RxFlushed \/ rx_tail' = rx_tail
        /\ rx_head' = rx_head /\ rx_buf' = rx_buf
        /\ UNCHANGED <<tx_buf, tx_head, tx_tail, coco_got, popped>>
    BY <1>27 DEF ReadStatusBegin, ReadBegin, rxRing, txRing, coreOneVars, coreZeroVars
  <2>2. rx_tail' = rx_tail => [Pipe!Next]_(Pipe!vars)
    BY <2>1, RingsStill
  <2>3. RxFlushed \in Index /\ Run(RxFlushed) \in Run(rx_tail) .. rx_total
    BY FlushedRun
  <2>4. rx_tail' = RxFlushed => [Pipe!Next]_(Pipe!vars)
    BY <2>1, <2>3, RxTailDrops
  <2> QED
    BY <2>1, <2>2, <2>4
<1>28. CASE ReadDataBegin
  <2>1. /\ rx_tail' = RxFlushed \/ rx_tail' = rx_tail
        /\ rx_head' = rx_head /\ rx_buf' = rx_buf
        /\ UNCHANGED <<tx_buf, tx_head, tx_tail, coco_got, popped>>
    BY <1>28 DEF ReadDataBegin, ReadBegin, rxRing, txRing, coreOneVars, coreZeroVars
  <2>2. rx_tail' = rx_tail => [Pipe!Next]_(Pipe!vars)
    BY <2>1, RingsStill
  <2>3. RxFlushed \in Index /\ Run(RxFlushed) \in Run(rx_tail) .. rx_total
    BY FlushedRun
  <2>4. rx_tail' = RxFlushed => [Pipe!Next]_(Pipe!vars)
    BY <2>1, <2>3, RxTailDrops
  <2> QED
    BY <2>1, <2>2, <2>4
<1>29. CASE ResetBegin
  <2>1. /\ rx_tail' = rx_head
        /\ rx_head' = rx_head /\ rx_buf' = rx_buf
        /\ UNCHANGED <<tx_buf, tx_head, tx_tail, coco_got, popped>>
    BY <1>29 DEF ResetBegin, rxRing, txRing, coreOneVars, coreZeroVars
  <2>2. rx_head \in Index /\ Run(rx_head) \in Run(rx_tail) .. rx_total
    BY Numbers
  <2> QED
    BY <2>1, <2>2, RxTailDrops
<1>30. CASE PopBegin
  <2>1. /\ tx_tail' = TxFlushed \/ tx_tail' = tx_tail
        /\ tx_head' = tx_head /\ tx_buf' = tx_buf
        /\ UNCHANGED <<rx_buf, rx_head, rx_tail, coco_got, popped>>
    BY <1>30 DEF PopBegin, rxRing, txRing, coreOneVars, coreZeroVars
  <2>2. tx_tail' = tx_tail => [Pipe!Next]_(Pipe!vars)
    BY <2>1, RingsStill
  <2>3. TxFlushed \in Index /\ Run(TxFlushed) \in Run(tx_tail) .. bytes_from_coco
    BY FlushedRun
  <2>4. tx_tail' = TxFlushed => [Pipe!Next]_(Pipe!vars)
    BY <2>1, <2>3, TxTailDrops
  <2> QED
    BY <2>1, <2>2, <2>4
<1>31. CASE ClearBegin
  <2>1. /\ tx_tail' = TxFlushed \/ tx_tail' = tx_tail
        /\ tx_head' = tx_head /\ tx_buf' = tx_buf
        /\ UNCHANGED <<rx_buf, rx_head, rx_tail, coco_got, popped>>
    BY <1>31 DEF ClearBegin, ClearReset, rxRing, txRing, coreOneVars, coreZeroVars
  <2>2. tx_tail' = tx_tail => [Pipe!Next]_(Pipe!vars)
    BY <2>1, RingsStill
  <2>3. TxFlushed \in Index /\ Run(TxFlushed) \in Run(tx_tail) .. bytes_from_coco
    BY FlushedRun
  <2>4. tx_tail' = TxFlushed => [Pipe!Next]_(Pipe!vars)
    BY <2>1, <2>3, TxTailDrops
  <2> QED
    BY <2>1, <2>2, <2>4
<1>32. CASE DownClear
  <2>1. /\ tx_tail' = TxFlushed \/ tx_tail' = tx_tail
        /\ tx_head' = tx_head /\ tx_buf' = tx_buf
        /\ UNCHANGED <<rx_buf, rx_head, rx_tail, coco_got, popped>>
    BY <1>32 DEF DownClear, ClearReset, rxRing, txRing, coreOneVars, coreZeroVars
  <2>2. tx_tail' = tx_tail => [Pipe!Next]_(Pipe!vars)
    BY <2>1, RingsStill
  <2>3. TxFlushed \in Index /\ Run(TxFlushed) \in Run(tx_tail) .. bytes_from_coco
    BY FlushedRun
  <2>4. tx_tail' = TxFlushed => [Pipe!Next]_(Pipe!vars)
    BY <2>1, <2>3, TxTailDrops
  <2> QED
    BY <2>1, <2>2, <2>4
<1>33. CASE DownDrop
  <2>1. /\ tx_tail' = tx_head
        /\ tx_head' = tx_head /\ tx_buf' = tx_buf
        /\ UNCHANGED <<rx_buf, rx_head, rx_tail, coco_got, popped>>
    BY <1>33 DEF DownDrop, rxRing, txRing, coreOneVars, coreZeroVars
  <2>2. tx_head \in Index /\ Run(tx_head) \in Run(tx_tail) .. bytes_from_coco
    BY Numbers
  <2> QED
    BY <2>1, <2>2, TxTailDrops
<1>34. CASE UNCHANGED beckerVars
  BY <1>34, RingsStill DEF beckerVars, rxRing, txRing, coreOneVars, coreZeroVars
<1> QED
  BY <1>1, <1>2, <1>3, <1>4, <1>5, <1>6, <1>7, <1>8, <1>9, <1>10, <1>11, <1>12, <1>13, <1>14,
     <1>15, <1>16, <1>17, <1>18, <1>19, <1>20, <1>21, <1>22, <1>23, <1>24, <1>25, <1>26, <1>27, <1>28,
     <1>29, <1>30, <1>31, <1>32, <1>33, <1>34
     DEF Next, CpuCall, CpuStep, BackendCall, BackendStep

\* The rings with their flushes, resets and copies in pieces implement two bounded
\* FIFO queues: becker_read_data and becker_tx_pop return the bytes given to
\* becker_rx_push and becker_write_data, unaltered and in order.
THEOREM BeckerIsPipe == Spec => PipeSpec
<1>1. Init => Pipe!Init
  BY PipeInit
<1>2. BeckerInv /\ CopiedInv /\ [Next]_beckerVars => [Pipe!Next]_(Pipe!vars)
  BY PipeNext
<1> QED
  BY <1>1, <1>2, BeckerCorrect, BeckerCopies, PTL DEF Spec, PipeSpec, Pipe!Spec

-----------------------------------------------------------------------------
(* The port inside the client.                                              *)

\* What client and shutdown do to the port besides its own functions: wake the task,
\* and fill the buffer that becker_rx_push() will be given.
Beside ==
  /\ UNCHANGED <<rxRing, txRing, flushVars, g_becker_tx_pending, link_up, coreOneVars,
                 bpc, bn, popped>>
  /\ notified' \in BOOLEAN
  /\ bbuf' = bbuf \/ (bpc = "ready" /\ bbuf' \in Seq(Byte))

\* Every step of the system is a step of the port or beside it.
LEMMA PortSteps ==
  ASSUME DwTypeOK, ClientInv, [DwNext]_dwVars
  PROVE  [Next]_beckerVars \/ Beside
<1> USE DEF Next, CpuCall, CpuStep, BackendCall, BackendStep
<1>1. CASE CocoReset
  BY <1>1 DEF CocoReset
<1>2. CASE CocoCall
  <2>1. <<0, epoch>> \in Byte
    BY TagAssumption, BoundAssumption DEF DwTypeOK, Tags
  <2> QED
    BY <1>2, <2>1 DEF CocoCall
<1>3. CASE CocoStep
  BY <1>3 DEF CocoStep
<1>4. CASE ShutdownBegin
  BY <1>4 DEF ShutdownBegin, Beside, coreZeroVars
<1>5. CASE Loop
  BY <1>5 DEF Loop, Beside, coreZeroVars
<1>6. CASE SockRead
  <2>1. bbuf' = bbuf \/ bbuf' \in Seq(Byte)
    <3>1. CASE UNCHANGED <<bbuf, sock>>
      BY <3>1
    <3>2. ASSUME NEW n \in 1 .. Len(sock), bbuf' = SubSeq(sock, 1, n)
          PROVE  bbuf' \in Seq(Byte)
      <4>1. sock \in Seq(Byte)
        BY TagAssumption DEF DwTypeOK
      <4>2. \A i \in 1 .. n : sock[i] \in Byte
        BY <4>1
      <4> QED
        BY <3>2, <4>2, SubSeqProperties
    <3> QED
      BY <1>6, <3>1, <3>2 DEF SockRead
  <2> QED
    BY <1>6, <2>1 DEF SockRead, At, Beside, wakeVars, DwTypeOK, TypeOK
<1>7. CASE Push
  <2>1. bbuf \in Seq(Byte) /\ Len(bbuf) \in 1 .. POP_MAX
    BY <1>7 DEF Push, At, ClientInv, DwTypeOK, TypeOK
  <2>2. bbuf \in [1 .. Len(bbuf) -> Byte]
    BY <2>1
  <2>3. bbuf \in UNION {[1 .. k -> Byte] : k \in 1 .. POP_MAX}
    BY <2>1, <2>2
  <2> QED
    BY <1>7, <2>3 DEF Push
<1>8. CASE ClientStep
  BY <1>8 DEF ClientStep
<1>9. CASE ConnectOk \/ Linked \/ Pop \/ Stopped
  BY <1>9 DEF ConnectOk, Linked, Pop, Stopped
<1>10. CASE ShutdownEnd \/ Top \/ ConnectFail \/ SockWrite \/ WifiCheck \/ Stop \/ Down \/ Backoff \/ ServerReply
  BY <1>10 DEF ShutdownEnd, Top, ConnectFail, SockWrite, WifiCheck, Stop, Down, Backoff, ServerReply
<1>11. CASE UNCHANGED dwVars
  BY <1>11 DEF dwVars
<1> QED
  BY <1>1, <1>2, <1>3, <1>4, <1>5, <1>6, <1>7, <1>8, <1>9, <1>10, <1>11 DEF DwNext, Client

\* What is beside the port leaves its invariants alone and is a stutter of the queues.
LEMMA BesideKeeps ==
  ASSUME BeckerInv, CopiedInv, Beside
  PROVE  BeckerInv' /\ CopiedInv' /\ UNCHANGED Pipe!vars
<1>1. TypeOK'
  BY DEF BeckerInv, TypeOK, Beside, rxRing, txRing, flushVars, coreOneVars
<1>2. IndexInv'
  BY DEF BeckerInv, IndexInv, Beside, rxRing, txRing, flushVars
<1>3. TestedInv'
  BY DEF BeckerInv, TestedInv, Beside, rxRing, txRing, coreOneVars
<1>4. CopiedInv'
  BY DEF CopiedInv, Beside, rxRing, txRing, coreOneVars
<1>5. UNCHANGED Pipe!vars
  BY DEF Beside, RxQueue, RxUsed, TxQueue, TxUsed, Pipe!vars, rxRing, txRing, coreOneVars
<1> QED
  BY <1>1, <1>2, <1>3, <1>4, <1>5 DEF BeckerInv

\* So every step of the system keeps the port's invariants and is a step of the queues.
LEMMA PortKept ==
  ASSUME BeckerInv, CopiedInv, [Next]_beckerVars \/ Beside
  PROVE  BeckerInv' /\ CopiedInv' /\ [Pipe!Next]_(Pipe!vars)
<1>1. CASE [Next]_beckerVars
  BY <1>1, NextInv, NextCopied, PipeNext
<1>2. CASE Beside
  BY <1>2, BesideKeeps
<1> QED
  BY <1>1, <1>2

-----------------------------------------------------------------------------
(* The client.                                                              *)

\* The client's own variables keep their types.
LEMMA TypeKept ==
  ASSUME DwTypeOK, TypeOK', [DwNext]_dwVars
  PROVE  DwTypeOK'
<1> USE BoundAssumption, BackoffAssumption DEF DwTypeOK
<1>1. CASE CocoReset
  BY <1>1 DEF CocoReset, netVars, taskVars
<1>2. CASE CocoCall \/ CocoStep \/ ClientStep
  BY <1>2 DEF CocoCall, CocoStep, ClientStep, netVars, taskVars, hostVars
<1>3. CASE ShutdownBegin
  BY <1>3 DEF ShutdownBegin, netVars, taskVars
<1>4. CASE ShutdownEnd
  BY <1>4 DEF ShutdownEnd, netVars, taskVars
<1>5. CASE Top
  BY <1>5 DEF Top, Goto, netVars, hostVars
<1>6. CASE ConnectOk
  BY <1>6 DEF ConnectOk, Goto, hostVars
<1>7. CASE ConnectFail \/ Pop \/ Push \/ WifiCheck \/ Stopped \/ Down
  BY <1>7 DEF ConnectFail, Pop, Push, WifiCheck, Stopped, Down, Goto, netVars, hostVars
<1>8. CASE Linked
  BY <1>8 DEF Linked, Goto, netVars, hostVars
<1>9. CASE Loop
  BY <1>9 DEF Loop, Goto, netVars, hostVars
<1>10. CASE SockWrite
  <2>1. inbox' = inbox \/ inbox' = inbox \o popped
    BY <1>10 DEF SockWrite
  <2>2. popped \in Seq(Tags)
    BY TagAssumption DEF TypeOK
  <2>3. inbox' \in Seq(Tags)
    BY <2>1, <2>2, ConcatProperties, ZenonT(30)
  <2> QED
    BY <1>10, <2>3 DEF SockWrite, Goto, hostVars
<1>11. CASE SockRead
  <2>1. sock' \in Seq(Tags)
    <3>1. CASE UNCHANGED sock
      BY <3>1
    <3>2. ASSUME NEW n \in 1 .. Len(sock), sock' = SubSeq(sock, n + 1, Len(sock))
          PROVE  sock' \in Seq(Tags)
      <4>1. \A i \in (n + 1) .. Len(sock) : sock[i] \in Tags
        OBVIOUS
      <4>2. n + 1 \in Int /\ Len(sock) \in Int
        OBVIOUS
      <4> QED
        BY <3>2, <4>1, <4>2, SubSeqProperties
    <3> QED
      BY <1>11, <3>1, <3>2 DEF SockRead
  <2> QED
    BY <1>11, <2>1 DEF SockRead, Goto, hostVars
<1>12. CASE Stop
  <2>1. was_reset' \in BOOLEAN
    BY <1>12 DEF Stop, TypeOK
  <2>2. open' \in BOOLEAN /\ sock' \in Seq(Tags) /\ inbox' \in Seq(Tags)
    <3>1. open' = FALSE /\ sock' = <<>> /\ inbox' = <<>>
      BY <1>12 DEF Stop, CloseSocket
    <3>2. <<>> \in Seq(Tags)
      OBVIOUS
    <3> QED
      BY <3>1, <3>2
  <2>3. /\ dpc' = "stopped"
        /\ UNCHANGED <<sess, s_state, backoff, s_shutdown_done, epoch, mode, s_shutdown_req>>
    BY <1>12 DEF Stop, Goto, hostVars
  <2> QED
    BY <2>1, <2>2, <2>3
<1>13. CASE Backoff
  <2>1. backoff' \in BACKOFF_MIN .. BACKOFF_MAX
    BY <1>13 DEF Backoff, NextBackoff
  <2> QED
    BY <1>13, <2>1 DEF Backoff, Goto, netVars, hostVars
<1>14. CASE ServerReply
  <2>1. inbox # <<>> /\ Head(inbox) \in Tags /\ Tail(inbox) \in Seq(Tags)
    BY <1>14, HeadTailProperties DEF ServerReply
  <2>2. <<sess, Head(inbox)[2]>> \in Tags
    BY <2>1 DEF Tags
  <2>3. sock' \in Seq(Tags)
    BY <1>14, <2>2, AppendProperties DEF ServerReply
  <2> QED
    BY <1>14, <2>1, <2>3 DEF ServerReply, taskVars, hostVars
<1>15. CASE UNCHANGED dwVars
  BY <1>15 DEF dwVars, netVars, taskVars, hostVars
<1> QED
  BY <1>1, <1>2, <1>3, <1>4, <1>5, <1>6, <1>7, <1>8, <1>9, <1>10, <1>11, <1>12, <1>13, <1>14,
     <1>15 DEF DwNext, Client

-----------------------------------------------------------------------------
(* What lies in the rings, from START on.                                   *)

\* Only these functions of the port touch the rings and the marks.
RxQuiet ==
  /\ rx_buf' = rx_buf /\ rx_head' = rx_head /\ rx_total' = rx_total
  /\ rx_tail' \in {rx_tail, RxFlushed, rx_head}
TxQuiet ==
  /\ tx_buf' = tx_buf /\ tx_head' = tx_head /\ bytes_from_coco' = bytes_from_coco
  /\ tx_tail' \in {tx_tail, TxFlushed, tx_head}

\* Which step of the port moves what.
LEMMA Moves ==
  ASSUME [Next]_beckerVars \/ Beside
  PROVE  /\ RxQuiet \/ ReadDataEnd \/ PushCopy \/ PushEnd
         /\ TxQuiet \/ PopEnd \/ WriteFill \/ WriteEnd
         /\ rx_flush_mark' = rx_flush_mark \/ DownMark
         /\ tx_flush_mark' = tx_flush_mark \/ ResetMark
<1> USE DEF RxQuiet, TxQuiet
<1>1. CASE ReadClear \/ ReadStatusEnd \/ ReadDataLook \/ ReadDataCopy
  BY <1>1 DEF ReadClear, ReadStatusEnd, ReadDataLook, ReadDataCopy, rxRing, txRing, flushVars
<1>2. CASE \E b \in Byte : WriteBegin(b)
  BY <1>2 DEF WriteBegin, rxRing, txRing, flushVars
<1>3. CASE ResetMark \/ ResetFlush \/ ResetEnd \/ ScanlineTick
  BY <1>3 DEF ResetMark, ResetFlush, ResetEnd, ScanlineTick, rxRing, txRing, flushVars
<1>4. CASE PopClear \/ PopCopy \/ PopAvail
  BY <1>4 DEF PopClear, PopCopy, PopAvail, rxRing, txRing, flushVars
<1>5. CASE \E s \in UNION {[1 .. k -> Byte] : k \in 1 .. POP_MAX} : PushBegin(s)
  BY <1>5 DEF PushBegin, rxRing, txRing, flushVars
<1>6. CASE ClearFlush \/ ClearEnd \/ LinkUp
  BY <1>6 DEF ClearFlush, ClearEnd, LinkUp, rxRing, txRing, flushVars
<1>7. CASE DownBegin \/ DownMark \/ DownAsk \/ DownEnd
  BY <1>7 DEF DownBegin, DownMark, DownAsk, DownEnd, rxRing, txRing, flushVars
<1>8. CASE ReadDataEnd \/ PopEnd
  BY <1>8 DEF ReadDataEnd, PopEnd, rxRing, txRing, flushVars
<1>9. CASE WriteFill \/ WriteEnd
  BY <1>9 DEF WriteFill, WriteEnd, rxRing, txRing, flushVars
<1>10. CASE PushCopy \/ PushEnd
  BY <1>10 DEF PushCopy, PushEnd, rxRing, txRing, flushVars
<1>11. CASE ResetBegin \/ DownDrop
  BY <1>11 DEF ResetBegin, DownDrop, rxRing, txRing, flushVars
<1>12. CASE ReadStatusBegin \/ ReadDataBegin
  BY <1>12 DEF ReadStatusBegin, ReadDataBegin, ReadBegin, rxRing, txRing, flushVars
<1>13. CASE PopBegin
  BY <1>13 DEF PopBegin, rxRing, txRing, flushVars
<1>14. CASE ClearBegin \/ DownClear
  BY <1>14 DEF ClearBegin, DownClear, ClearReset, rxRing, txRing, flushVars
<1>15. CASE Beside
  BY <1>15 DEF Beside, rxRing, txRing, flushVars
<1>16. CASE UNCHANGED beckerVars
  BY <1>16 DEF beckerVars, rxRing, txRing, flushVars
<1> QED
  BY <1>1, <1>2, <1>3, <1>4, <1>5, <1>6, <1>7, <1>8, <1>9, <1>10, <1>11, <1>12, <1>13, <1>14, <1>15, <1>16
     DEF Next, CpuCall, CpuStep, BackendCall, BackendStep

\* A byte in flight in terms of the tail or the head of its ring.
LEMMA InFlight ==
  ASSUME NEW x \in Index, NEW r \in Nat, Run(x) <= r, r < W
  PROVE  /\ Add(START, r) \in Index /\ Run(Add(START, r)) = r
         /\ Add(x, r - Run(x)) = Add(START, r)
<1>1. START \in Index /\ Run(START) = 0 /\ Run(x) \in Nat /\ W \in Nat /\ r - Run(x) \in Nat
  BY RunType, SizeAssumption DEF Index, Run, Sub
<1>2. Run(START) + r < W
  BY <1>1
<1>3. Add(START, r) \in Index /\ Run(Add(START, r)) = Run(START) + r
  BY <1>1, <1>2, AddRun
<1>4. Run(x) + (r - Run(x)) < W
  BY <1>1
<1>5. Add(x, r - Run(x)) \in Index /\ Run(Add(x, r - Run(x))) = Run(x) + (r - Run(x))
  BY <1>1, <1>4, AddRun
<1>6. Run(Add(START, r)) = r /\ Run(Add(x, r - Run(x))) = r
  BY <1>1, <1>3, <1>5
<1> QED
  BY <1>3, <1>5, <1>6, RunInjective

\* A byte stays where it is until the tail has passed it; new ones are those
\* becker_rx_push() was given.
LEMMA RxEffect ==
  ASSUME BeckerInv, CopiedInv, [Next]_beckerVars \/ Beside
  PROVE  /\ Run(rx_tail') \in Nat /\ Run(rx_tail') >= Run(rx_tail) /\ rx_total' \in Nat
         /\ \A r \in Run(rx_tail') .. rx_total' - 1 :
              \/ r < rx_total /\ RxAt(r)' = RxAt(r)
              \/ /\ r >= rx_total /\ bpc = "push_publish"
                 /\ \E i \in 1 .. Len(bbuf) : RxAt(r)' = bbuf[i]
<1>0. /\ rx_tail \in Index /\ rx_head \in Index /\ RxFlushed \in Index
      /\ Run(rx_tail) \in Nat /\ Run(RxFlushed) \in Nat /\ Run(rx_head) \in Nat
      /\ rx_total \in Nat /\ bn \in Nat /\ W \in Nat
      /\ Run(RxFlushed) >= Run(rx_tail) /\ Run(rx_head) >= Run(rx_tail) /\ Run(rx_head) = rx_total
      /\ rx_total < W
  BY Numbers, FlushedRun
<1>1. CASE RxQuiet
  BY <1>0, <1>1 DEF RxQuiet, RxAt
<1>2. CASE ReadDataEnd
  <2>1. Run(rx_tail) < rx_total
    BY <1>2 DEF ReadDataEnd, BeckerInv, TestedInv
  <2>2. Run(rx_tail) + 1 < W
    BY <1>0, <2>1
  <2>3. Run(Add(rx_tail, 1)) = Run(rx_tail) + 1
    BY <1>0, <2>2, AddRun
  <2>4. /\ rx_tail' = Add(rx_tail, 1) /\ rx_total' = rx_total /\ rx_buf' = rx_buf
    BY <1>2 DEF ReadDataEnd
  <2> QED
    BY <1>0, <2>1, <2>3, <2>4 DEF RxAt
<1>3. CASE PushCopy
  <2>1. /\ rx_tail' = rx_tail /\ rx_total' = rx_total
    BY <1>3 DEF PushCopy
  <2>2. ASSUME NEW r \in Run(rx_tail) .. rx_total - 1
        PROVE  RxAt(r)' = RxAt(r)
    <3>1. r - Run(rx_tail) \in 0 .. RxUsed - 1
      BY <1>0, Numbers
    <3>2. Add(rx_tail, r - Run(rx_tail)) = Add(START, r)
      BY <1>0, InFlight
    <3> QED
      BY <1>3, <3>1, <3>2, PushedCopy DEF RxAt
  <2> QED
    BY <1>0, <2>1, <2>2
<1>4. CASE PushEnd
  <2>1. /\ bpc = "push_publish" /\ rx_tail' = rx_tail /\ rx_total' = rx_total + bn /\ rx_buf' = rx_buf
    BY <1>4 DEF PushEnd
  <2>2. bn + RxUsed <= RX_SIZE /\ bn <= Len(bbuf)
    BY <2>1, PushFits DEF BeckerInv, TestedInv
  <2>3. rx_total + bn < W
    <3>1. bn <= RX_SIZE
      BY <2>1, PushFits
    <3>2. rx_total + RX_SIZE < W /\ RX_SIZE \in Nat
      BY Numbers
    <3> QED
      BY <1>0, <3>1, <3>2
  <2>4. ASSUME NEW r \in Run(rx_tail) .. (rx_total + bn) - 1, r >= rx_total
        PROVE  \E i \in 1 .. Len(bbuf) : RxAt(r)' = bbuf[i]
    <3> DEFINE i == (r - rx_total) + 1
    <3>1. r \in Nat /\ Run(rx_head) <= r /\ r < W /\ r - Run(rx_head) = i - 1
      BY <1>0, <2>3, <2>4
    <3>2. i \in 1 .. bn
      BY <1>0, <2>4
    <3>3. Add(rx_head, r - Run(rx_head)) = Add(START, r)
      BY <1>0, <3>1, InFlight
    <3> HIDE DEF i
    <3>4. rx_buf[Add(rx_head, i - 1) % RX_SIZE] = bbuf[i]
      BY <2>1, <3>2 DEF CopiedInv
    <3>5. RxAt(r)' = bbuf[i]
      BY <2>1, <3>1, <3>3, <3>4 DEF RxAt
    <3>6. i \in 1 .. Len(bbuf)
      <4>1. Len(bbuf) \in Nat
        BY DEF BeckerInv, TypeOK
      <4> QED
        BY <1>0, <2>2, <3>2, <4>1
    <3> QED
      BY <3>5, <3>6
  <2>5. ASSUME NEW r \in Run(rx_tail) .. (rx_total + bn) - 1, r < rx_total
        PROVE  RxAt(r)' = RxAt(r)
    BY <2>1 DEF RxAt
  <2> QED
    BY <1>0, <2>1, <2>4, <2>5
<1> QED
  BY <1>1, <1>2, <1>3, <1>4, Moves

\* In the other direction a new byte is the one becker_write_data() was given.
LEMMA TxEffect ==
  ASSUME BeckerInv, CopiedInv, [Next]_beckerVars \/ Beside
  PROVE  /\ Run(tx_tail') \in Nat /\ Run(tx_tail') >= Run(tx_tail) /\ bytes_from_coco' \in Nat
         /\ \A r \in Run(tx_tail') .. bytes_from_coco' - 1 :
              \/ r < bytes_from_coco /\ TxAt(r)' = TxAt(r)
              \/ r >= bytes_from_coco /\ cpc = "publish" /\ TxAt(r)' = cbyte
<1>0. /\ tx_tail \in Index /\ tx_head \in Index /\ TxFlushed \in Index
      /\ Run(tx_tail) \in Nat /\ Run(TxFlushed) \in Nat /\ Run(tx_head) \in Nat
      /\ bytes_from_coco \in Nat /\ bn \in Nat /\ W \in Nat
      /\ Run(TxFlushed) >= Run(tx_tail) /\ Run(tx_head) >= Run(tx_tail)
      /\ Run(tx_head) = bytes_from_coco /\ bytes_from_coco < W
  BY Numbers, FlushedRun
<1>1. CASE TxQuiet
  BY <1>0, <1>1 DEF TxQuiet, TxAt
<1>2. CASE PopEnd
  <2>1. bn <= bytes_from_coco - Run(tx_tail)
    BY <1>2 DEF PopEnd, BeckerInv, TestedInv
  <2>2. Run(tx_tail) + bn < W
    BY <1>0, <2>1
  <2>3. Run(Add(tx_tail, bn)) = Run(tx_tail) + bn
    BY <1>0, <2>2, AddRun
  <2>4. /\ tx_tail' = Add(tx_tail, bn) /\ bytes_from_coco' = bytes_from_coco /\ tx_buf' = tx_buf
    BY <1>2 DEF PopEnd
  <2> QED
    BY <1>0, <2>1, <2>3, <2>4 DEF TxAt
<1>3. CASE WriteFill
  <2>1. /\ cpc = "fill" /\ tx_tail' = tx_tail /\ bytes_from_coco' = bytes_from_coco
        /\ tx_buf' = [tx_buf EXCEPT ![tx_head % TX_SIZE] = cbyte]
    BY <1>3 DEF WriteFill
  <2>2. ASSUME NEW r \in Run(tx_tail) .. bytes_from_coco - 1
        PROVE  TxAt(r)' = TxAt(r)
    <3>1. r - Run(tx_tail) \in Nat /\ r - Run(tx_tail) < TxUsed
      BY <1>0, Numbers
    <3>2. Add(tx_tail, r - Run(tx_tail)) = Add(START, r)
      BY <1>0, InFlight
    <3>3. Add(START, r) % TX_SIZE # tx_head % TX_SIZE
      BY <2>1, <3>1, <3>2, TxSlotFree
    <3> QED
      BY <2>1, <3>3 DEF TxAt
  <2> QED
    BY <1>0, <2>1, <2>2
<1>4. CASE WriteEnd
  <2>1. /\ cpc = "publish" /\ tx_tail' = tx_tail /\ bytes_from_coco' = bytes_from_coco + 1
        /\ tx_buf' = tx_buf
    BY <1>4 DEF WriteEnd
  <2>2. Add(tx_head, 0) = Add(START, bytes_from_coco) /\ Add(tx_head, 0) = tx_head
    <3>1. Add(tx_head, bytes_from_coco - Run(tx_head)) = Add(START, bytes_from_coco)
      BY <1>0, InFlight
    <3>2. Add(tx_head, 0) = tx_head
      BY <1>0 DEF Add, Index
    <3> QED
      BY <1>0, <3>1, <3>2
  <2>3. ASSUME NEW r \in Run(tx_tail) .. bytes_from_coco, r = bytes_from_coco
        PROVE  TxAt(r)' = cbyte
    <3>1. tx_buf[Add(START, r) % TX_SIZE] = cbyte
      BY <2>1, <2>2, <2>3 DEF CopiedInv
    <3> QED
      BY <2>1, <3>1 DEF TxAt
  <2>4. ASSUME NEW r \in Run(tx_tail) .. bytes_from_coco
        PROVE  TxAt(r)' = TxAt(r)
    BY <2>1 DEF TxAt
  <2> QED
    BY <1>0, <2>1, <2>3, <2>4
<1> QED
  BY <1>1, <1>2, <1>3, <1>4, Moves

-----------------------------------------------------------------------------
(* Behind DwInv.                                                            *)

\* Room in the RX ring does not shrink while nothing is pushed.
LEMMA SpaceGrows ==
  ASSUME BeckerInv, CopiedInv, BeckerInv', [Next]_beckerVars \/ Beside, rx_total' = rx_total
  PROVE  RxSpace \in Nat /\ RxSpace' \in Nat /\ RxSpace' >= RxSpace
<1>1. /\ rx_total \in Nat /\ Run(rx_tail) \in Nat /\ RX_SIZE \in Nat
      /\ Run(rx_tail) + RxUsed = rx_total /\ RxUsed \in Nat /\ RxUsed <= RX_SIZE
  BY Numbers
<1>2. Run(rx_tail') \in Nat /\ Run(rx_tail') >= Run(rx_tail)
  BY RxEffect
<1>3. /\ rx_head' \in Index /\ rx_tail' \in Index /\ Run(rx_head') = rx_total'
      /\ Run(rx_tail') <= rx_total' /\ rx_total' - Run(rx_tail') <= RX_SIZE
  BY DEF BeckerInv, TypeOK, IndexInv
<1>4. Sub(rx_head', rx_tail') = Run(rx_head') - Run(rx_tail')
  BY <1>3, SubRun
<1>5. RxUsed' = rx_total - Run(rx_tail')
  BY <1>3, <1>4 DEF RxUsed
<1> QED
  BY <1>1, <1>2, <1>3, <1>5 DEF RxSpace

\* The client's bookkeeping survives every step.
LEMMA ClientKept ==
  ASSUME BeckerInv, CopiedInv, BeckerInv', DwTypeOK, ClientInv, [DwNext]_dwVars
  PROVE  ClientInv'
<1>0. [Next]_beckerVars \/ Beside
  BY PortSteps
<1>a. ASSUME UNCHANGED <<dpc, open, s_state, s_shutdown_done>>, UNCHANGED coreZeroVars,
             rx_total' = rx_total
      PROVE  ClientInv'
  <2>1. RxSpace \in Nat /\ RxSpace' \in Nat /\ RxSpace' >= RxSpace
    BY <1>0, <1>a, SpaceGrows
  <2>2. Len(bbuf) \in Nat
    BY DEF BeckerInv, TypeOK
  <2>3. dpc = "push" => Len(bbuf) <= RxSpace'
    BY <2>1, <2>2 DEF ClientInv
  <2> QED
    BY <1>a, <2>3 DEF ClientInv, coreZeroVars
<1>1. CASE CocoReset
  BY <1>1, <1>a DEF CocoReset, ResetBegin, netVars, taskVars
<1>2. CASE CocoCall
  BY <1>2, <1>a DEF CocoCall, ReadStatusBegin, ReadDataBegin, ReadBegin, WriteBegin, ScanlineTick,
     rxRing, netVars, taskVars, hostVars
<1>3. CASE CocoStep
  BY <1>3, <1>a DEF CocoStep, CpuStep, ReadClear, ReadStatusEnd, ReadDataLook, ReadDataCopy,
     ReadDataEnd, WriteFill, WriteEnd, ResetMark, ResetFlush, ResetEnd,
     rxRing, netVars, taskVars, hostVars
<1>4. CASE ShutdownBegin
  BY <1>4, <1>a DEF ShutdownBegin, rxRing, netVars, taskVars
<1>5. CASE ShutdownEnd
  BY <1>5, <1>a DEF ShutdownEnd, beckerVars, rxRing, netVars, taskVars
<1>6. CASE ServerReply
  BY <1>6, <1>a DEF ServerReply, beckerVars, rxRing, netVars, taskVars
<1>7. CASE Top
  BY <1>7 DEF Top, At, Goto, ClientInv, beckerVars, coreZeroVars, netVars
<1>8. CASE ConnectOk
  BY <1>8 DEF ConnectOk, At, Goto, ClientInv, ClearBegin, ClearReset
<1>9. CASE ConnectFail
  BY <1>9 DEF ConnectFail, At, Goto, ClientInv, beckerVars, coreZeroVars, netVars
<1>10. CASE Linked
  BY <1>10 DEF Linked, At, Goto, ClientInv, LinkUp, coreZeroVars, netVars
<1>11. CASE Loop
  BY <1>11 DEF Loop, At, Goto, ClientInv, coreZeroVars, netVars
<1>12. CASE Pop
  BY <1>12 DEF Pop, At, Goto, ClientInv, PopBegin, netVars
<1>13. CASE SockWrite
  BY <1>13 DEF SockWrite, At, Goto, ClientInv, beckerVars, coreZeroVars
<1>14. CASE SockRead
  <2>1. /\ dpc = "rx" /\ bpc = "ready" /\ bpc' = "ready"
        /\ UNCHANGED <<open, s_state, s_shutdown_done>> /\ RxSpace' = RxSpace
    BY <1>14 DEF SockRead, At, rxRing, RxSpace, RxUsed
  <2>2. CASE dpc' = "wifi"
    BY <2>1, <2>2 DEF ClientInv
  <2>3. ASSUME NEW n \in 1 .. Len(sock), Fits(n), bbuf' = SubSeq(sock, 1, n), dpc' = "push"
        PROVE  ClientInv'
    <3>1. \A i \in 1 .. n : sock[i] \in Tags
      BY DEF DwTypeOK
    <3>2. Len(bbuf') = n
      BY <2>3, <3>1, SubSeqProperties
    <3>3. n \in 1 .. POP_MAX /\ n <= RxSpace
      BY <2>3, SizeAssumption DEF Fits
    <3> QED
      BY <2>1, <2>3, <3>2, <3>3 DEF ClientInv
  <2> QED
    BY <1>14, <2>2, <2>3 DEF SockRead, Goto
<1>15. CASE Push
  BY <1>15 DEF Push, At, Goto, ClientInv, PushBegin, netVars
<1>16. CASE WifiCheck
  BY <1>16 DEF WifiCheck, At, Goto, ClientInv, beckerVars, coreZeroVars, netVars
<1>17. CASE Stop
  BY <1>17 DEF Stop, At, Goto, ClientInv, CloseSocket, beckerVars, coreZeroVars
<1>18. CASE Stopped
  BY <1>18 DEF Stopped, At, Goto, ClientInv, DownBegin, beckerVars, coreZeroVars, netVars
<1>19. CASE Down
  BY <1>19 DEF Down, At, Goto, ClientInv, beckerVars, coreZeroVars, netVars
<1>20. CASE Backoff
  BY <1>20 DEF Backoff, At, Goto, ClientInv, beckerVars, coreZeroVars, netVars
<1>21. CASE ClientStep
  <2>1. UNCHANGED <<dpc, open, s_state, s_shutdown_done>>
    BY <1>21 DEF ClientStep, netVars, taskVars
  <2>2. /\ bpc # "ready"
        /\ bpc' \in {"down_clear", "down_flush", "down_req", "down_drop", "down_mark",
                     "down_ask", "down_end"} =>
             bpc \in {"down_clear", "down_flush", "down_req", "down_drop", "down_mark",
                      "down_ask", "down_end"}
    BY <1>21 DEF ClientStep, BackendStep, PopClear, PopAvail, PopCopy, PopEnd, PushCopy, PushEnd,
       ClearFlush, ClearEnd, DownClear, ClearReset, DownDrop, DownMark, DownAsk, DownEnd
  <2> QED
    BY <2>1, <2>2 DEF ClientInv
<1>22. CASE UNCHANGED dwVars
  BY <1>22, <1>a DEF dwVars, beckerVars, rxRing, netVars, taskVars
<1> QED
  BY <1>1, <1>2, <1>3, <1>4, <1>5, <1>6, <1>7, <1>8, <1>9, <1>10, <1>11, <1>12, <1>13, <1>14,
     <1>15, <1>16, <1>17, <1>18, <1>19, <1>20, <1>21, <1>22 DEF DwNext, Client

\* A push takes all it was given, and no socket is left behind.
LEMMA PromisesKept ==
  ASSUME BeckerInv, DwTypeOK, ClientInv, PushTakesAll, [DwNext]_dwVars
  PROVE  PushTakesAll'
<1>1. CASE Push
  <2>1. /\ bn' = (IF Len(bbuf) < RxSpace THEN Len(bbuf) ELSE RxSpace) /\ bbuf' = bbuf
    BY <1>1 DEF Push, PushBegin
  <2>2. Len(bbuf) <= RxSpace
    BY <1>1 DEF Push, At, ClientInv
  <2>3. Len(bbuf) \in Nat
    BY DEF BeckerInv, TypeOK
  <2>4. RxSpace \in Int
    BY Numbers DEF RxSpace
  <2> QED
    BY <2>1, <2>2, <2>3, <2>4 DEF PushTakesAll
<1>2. CASE CocoReset
  BY <1>2 DEF CocoReset, ResetBegin, coreZeroVars, PushTakesAll
<1>3. CASE CocoCall
  BY <1>3 DEF CocoCall, ReadStatusBegin, ReadDataBegin, ReadBegin, WriteBegin, ScanlineTick,
     coreZeroVars, PushTakesAll
<1>4. CASE CocoStep
  BY <1>4 DEF CocoStep, CpuStep, ReadClear, ReadStatusEnd, ReadDataLook, ReadDataCopy,
     ReadDataEnd, WriteFill, WriteEnd, ResetMark, ResetFlush, ResetEnd, coreZeroVars, PushTakesAll
<1>5. CASE ShutdownBegin
  BY <1>5 DEF ShutdownBegin, coreZeroVars, PushTakesAll
<1>6. CASE ClientStep
  BY <1>6 DEF ClientStep, BackendStep, PopClear, PopAvail, PopCopy, PopEnd, PushCopy, PushEnd,
     ClearFlush, ClearEnd, DownClear, ClearReset, DownDrop, DownMark, DownAsk, DownEnd, PushTakesAll
<1>7. CASE ConnectOk \/ Linked \/ Loop \/ Pop \/ SockRead \/ Stopped
  BY <1>7 DEF ConnectOk, ClearBegin, ClearReset, Linked, LinkUp, Loop, Pop, PopBegin, SockRead,
     Stopped, DownBegin, At, beckerVars, coreZeroVars, PushTakesAll
<1>8. CASE ShutdownEnd \/ Top \/ ConnectFail \/ SockWrite \/ WifiCheck \/ Stop \/ Down \/ Backoff \/ ServerReply
  BY <1>8 DEF ShutdownEnd, Top, ConnectFail, SockWrite, WifiCheck, Stop, Down, Backoff,
     ServerReply, beckerVars, coreZeroVars, PushTakesAll
<1>9. CASE UNCHANGED dwVars
  BY <1>9 DEF dwVars, beckerVars, coreZeroVars, PushTakesAll
<1> QED
  BY <1>1, <1>2, <1>3, <1>4, <1>5, <1>6, <1>7, <1>8, <1>9 DEF DwNext, Client

\* What holds of client and port together.
DwIInv == BeckerInv /\ CopiedInv /\ DwTypeOK /\ ClientInv /\ PushTakesAll

\* Initially.
LEMMA DwInitInv ==
  ASSUME DwInit
  PROVE  DwIInv
<1>1. BeckerInv /\ CopiedInv
  BY InitInv, InitCopied DEF DwInit
<1>2. TypeOK
  BY <1>1 DEF BeckerInv
<1>3. DwTypeOK
  <2>1. sock \in Seq(Tags) /\ inbox \in Seq(Tags)
    <3>1. sock = <<>> /\ inbox = <<>>
      BY DEF DwInit
    <3>2. <<>> \in Seq(Tags)
      OBVIOUS
    <3> QED
      BY <3>1, <3>2
  <2>2. backoff \in BACKOFF_MIN .. BACKOFF_MAX /\ sess \in 0 .. MaxSession /\ epoch \in 0 .. MaxEpoch
    BY BackoffAssumption, BoundAssumption DEF DwInit
  <2>3. /\ open \in BOOLEAN /\ was_reset \in BOOLEAN
        /\ s_shutdown_req \in BOOLEAN /\ s_shutdown_done \in BOOLEAN
    BY DEF DwInit
  <2>4. dpc = "top" /\ s_state = "wait_wifi" /\ mode = "run"
    BY DEF DwInit
  <2> QED
    BY <1>2, <2>1, <2>2, <2>3, <2>4 DEF DwTypeOK
<1>4. ClientInv /\ PushTakesAll
  BY DEF DwInit, Init, ClientInv, PushTakesAll
<1> QED
  BY <1>1, <1>3, <1>4 DEF DwIInv

\* A step keeps it, and is a step of the queues or leaves them alone.
LEMMA DwNextInv ==
  ASSUME DwIInv, [DwNext]_dwVars
  PROVE  DwIInv' /\ [Pipe!Next]_(Pipe!vars)
<1>1. [Next]_beckerVars \/ Beside
  BY PortSteps DEF DwIInv
<1>2. BeckerInv' /\ CopiedInv' /\ [Pipe!Next]_(Pipe!vars)
  BY <1>1, PortKept DEF DwIInv
<1>3. DwTypeOK'
  BY <1>2, TypeKept DEF DwIInv, BeckerInv
<1>4. ClientInv'
  BY <1>2, ClientKept DEF DwIInv
<1>5. PushTakesAll'
  BY PromisesKept DEF DwIInv
<1> QED
  BY <1>2, <1>3, <1>4, <1>5 DEF DwIInv

\* So it holds in every state.
LEMMA DwAlways == DwSpec => []DwIInv
<1>1. DwInit => DwIInv
  BY DwInitInv
<1>2. DwIInv /\ [DwNext]_dwVars => DwIInv'
  BY DwNextInv
<1> QED
  BY <1>1, <1>2, PTL DEF DwSpec

\* The client as it runs, with the fairness of its scheduling: the back-off stays within
\* its limits, what was read from the socket is pushed whole, and a restart that was
\* answered has closed the socket.
THEOREM DwCorrect == FairDwSpec => []DwInv
<1>1. DwIInv => DwInv
  BY DEF DwIInv, DwInv, ClientInv, ShutdownClosesSocket
<1> QED
  BY <1>1, DwAlways, PTL DEF FairDwSpec

\* Under the client, too, the port keeps its index invariant ...
THEOREM DwPort == FairDwSpec => []BeckerInv
<1>1. DwIInv => BeckerInv
  BY DEF DwIInv
<1> QED
  BY <1>1, DwAlways, PTL DEF FairDwSpec

\* ... its claim that the two cores are never on the same slot ...
THEOREM DwRaceFree == FairDwSpec => []RaceFree
<1>1. BeckerInv => RaceFree
  BY SlotsApart
<1> QED
  BY <1>1, DwPort, PTL

\* ... and its two queues: what the server is sent is what the CoCo wrote.
THEOREM DwIsPipe == FairDwSpec => PipeSpec
<1>1. DwInit => Pipe!Init
  BY PipeInit DEF DwInit
<1>2. DwIInv /\ [DwNext]_dwVars => [Pipe!Next]_(Pipe!vars)
  BY DwNextInv
<1> QED
  BY <1>1, <1>2, DwAlways, PTL DEF FairDwSpec, DwSpec, PipeSpec, Pipe!Spec

-----------------------------------------------------------------------------
(* Behind FlushSparesNew: what each byte is a byte of.                      *)

\* A byte in a ring is a byte.
LEMMA TagsTyped ==
  ASSUME BeckerInv
  PROVE  /\ \A r \in Run(rx_tail) .. rx_total - 1 : RxAt(r) \in Tags
         /\ \A r \in Run(tx_tail) .. bytes_from_coco - 1 : TxAt(r) \in Tags
<1>1. rx_buf \in [0 .. RX_SIZE-1 -> Byte] /\ tx_buf \in [0 .. TX_SIZE-1 -> Byte]
  BY DEF BeckerInv, TypeOK
<1>2. /\ rx_tail \in Index /\ tx_tail \in Index /\ Run(rx_tail) \in Nat /\ Run(tx_tail) \in Nat
      /\ rx_total \in Nat /\ bytes_from_coco \in Nat /\ rx_total < W /\ bytes_from_coco < W
      /\ RX_SIZE \in Nat \ {0} /\ TX_SIZE \in Nat \ {0} /\ W \in Nat
  BY Numbers
<1>3. \A r \in Run(rx_tail) .. rx_total - 1 : Add(START, r) \in Index
  BY <1>2, InFlight
<1>4. \A r \in Run(tx_tail) .. bytes_from_coco - 1 : Add(START, r) \in Index
  BY <1>2, InFlight
<1> QED
  BY <1>1, <1>2, <1>3, <1>4, SlotByte, TagAssumption DEF RxAt, TxAt

\* What a step does to the session: only connect() opens one, only a closed link moves
\* the mark.
LEMMA SessionSteps ==
  ASSUME DwTypeOK, ClientInv, [DwNext]_dwVars
  PROVE  \/ sess' = sess + 1 /\ dpc' = "linked" /\ bpc' \in {"clear_flush", "ready"} /\ sock' = <<>>
            /\ bpc = "ready"
         \/ sess' = sess /\ (open' => open /\ rx_flush_mark' = rx_flush_mark)
<1>1. CASE CocoReset
  BY <1>1 DEF CocoReset, ResetBegin, flushVars, netVars
<1>2. CASE CocoCall
  BY <1>2 DEF CocoCall, ReadStatusBegin, ReadDataBegin, ReadBegin, WriteBegin, ScanlineTick,
     flushVars, netVars
<1>3. CASE CocoStep
  BY <1>3 DEF CocoStep, CpuStep, ReadClear, ReadStatusEnd, ReadDataLook, ReadDataCopy,
     ReadDataEnd, WriteFill, WriteEnd, ResetMark, ResetFlush, ResetEnd, flushVars, netVars
<1>4. CASE ShutdownBegin
  BY <1>4 DEF ShutdownBegin, flushVars, netVars
<1>5. CASE ConnectOk
  BY <1>5 DEF ConnectOk, At, ClearBegin, ClearReset, Goto
<1>6. CASE ClientStep
  <2>1. sess' = sess /\ open' = open /\ dpc' = dpc
    BY <1>6 DEF ClientStep, netVars, taskVars
  <2>2. rx_flush_mark' = rx_flush_mark \/ bpc = "down_mark"
    BY <1>6 DEF ClientStep, BackendStep, PopClear, PopAvail, PopCopy, PopEnd, PushCopy, PushEnd,
       ClearFlush, ClearEnd, DownClear, ClearReset, DownDrop, DownMark, DownAsk, DownEnd, flushVars
  <2>3. bpc = "down_mark" => ~open
    BY DEF ClientInv
  <2> QED
    BY <2>1, <2>2, <2>3
<1>7. CASE Linked \/ Loop \/ Pop \/ Push \/ Stopped
  BY <1>7 DEF Linked, LinkUp, Loop, Pop, PopBegin, Push, PushBegin, Stopped, DownBegin,
     beckerVars, flushVars, netVars
<1>8. CASE SockRead \/ SockWrite \/ Stop
  BY <1>8 DEF SockRead, SockWrite, Stop, CloseSocket, beckerVars, flushVars
<1>9. CASE ShutdownEnd \/ Top \/ ConnectFail \/ WifiCheck \/ Down \/ Backoff \/ ServerReply
  BY <1>9 DEF ShutdownEnd, Top, ConnectFail, WifiCheck, Down, Backoff, ServerReply,
     beckerVars, flushVars, netVars
<1>10. CASE UNCHANGED dwVars
  BY <1>10 DEF dwVars, beckerVars, flushVars, netVars
<1> QED
  BY <1>1, <1>2, <1>3, <1>4, <1>5, <1>6, <1>7, <1>8, <1>9, <1>10 DEF DwNext, Client

\* Where the bytes of a reply are: in the socket, in the buffer, in the ring.
LEMMA ReplySteps ==
  ASSUME DwTypeOK, BeckerInv, ClientInv, [DwNext]_dwVars
  PROVE  /\ \/ sock' = sock \/ sock' = <<>>
            \/ \E n \in 1 .. Len(sock) : sock' = SubSeq(sock, n + 1, Len(sock))
            \/ \E e \in Tags : e[1] = sess /\ sock' = Append(sock, e)
         /\ dpc' = "push" \/ bpc' \in {"push_copy", "push_publish"} =>
              \/ bbuf' = bbuf /\ (dpc = "push" \/ bpc \in {"push_copy", "push_publish"})
              \/ \E n \in 1 .. Len(sock) : bbuf' = SubSeq(sock, 1, n)
<1>1. CASE CocoReset
  BY <1>1 DEF CocoReset, ResetBegin, coreZeroVars, netVars, taskVars
<1>2. CASE CocoCall
  BY <1>2 DEF CocoCall, ReadStatusBegin, ReadDataBegin, ReadBegin, WriteBegin, ScanlineTick,
     coreZeroVars, netVars, taskVars
<1>3. CASE CocoStep
  BY <1>3 DEF CocoStep, CpuStep, ReadClear, ReadStatusEnd, ReadDataLook, ReadDataCopy,
     ReadDataEnd, WriteFill, WriteEnd, ResetMark, ResetFlush, ResetEnd, coreZeroVars, netVars, taskVars
<1>4. CASE ShutdownBegin
  BY <1>4 DEF ShutdownBegin, coreZeroVars, netVars, taskVars
<1>5. CASE ConnectOk
  BY <1>5 DEF ConnectOk, ClearBegin, ClearReset, Goto
<1>6. CASE ClientStep
  <2>1. sock' = sock /\ dpc' = dpc
    BY <1>6 DEF ClientStep, netVars, taskVars
  <2>2. bpc # "ready" /\ (bpc' \in {"push_copy", "push_publish"} => bbuf' = bbuf /\ bpc = "push_copy")
    BY <1>6 DEF ClientStep, BackendStep, PopClear, PopAvail, PopCopy, PopEnd, PushCopy, PushEnd,
       ClearFlush, ClearEnd, DownClear, ClearReset, DownDrop, DownMark, DownAsk, DownEnd
  <2> QED
    BY <2>1, <2>2 DEF ClientInv
<1>7. CASE Linked \/ Loop \/ Pop \/ Stopped
  BY <1>7 DEF Linked, LinkUp, Loop, Pop, PopBegin, Stopped, DownBegin, At, Goto,
     beckerVars, coreZeroVars, netVars
<1>8. CASE Push
  BY <1>8 DEF Push, PushBegin, At, Goto, netVars
<1>9. CASE SockRead
  BY <1>9 DEF SockRead, At, Goto
<1>10. CASE SockWrite \/ Stop
  BY <1>10 DEF SockWrite, Stop, CloseSocket, At, Goto, beckerVars, coreZeroVars
<1>11. CASE ServerReply
  <2>1. inbox # <<>> /\ inbox \in Seq(Tags)
    BY <1>11 DEF ServerReply, DwTypeOK
  <2>2. Head(inbox) \in Tags
    BY <2>1, HeadTailProperties
  <2>3. <<sess, Head(inbox)[2]>> \in Tags /\ <<sess, Head(inbox)[2]>>[1] = sess
    BY <2>2 DEF Tags, DwTypeOK
  <2> QED
    BY <1>11, <2>3 DEF ServerReply, beckerVars, coreZeroVars, taskVars
<1>12. CASE ShutdownEnd \/ Top \/ ConnectFail \/ WifiCheck \/ Down \/ Backoff
  BY <1>12 DEF ShutdownEnd, Top, ConnectFail, WifiCheck, Down, Backoff, At, Goto,
     beckerVars, coreZeroVars, netVars, taskVars
<1>13. CASE UNCHANGED dwVars
  BY <1>13 DEF dwVars, beckerVars, coreZeroVars, netVars, taskVars
<1> QED
  BY <1>1, <1>2, <1>3, <1>4, <1>5, <1>6, <1>7, <1>8, <1>9, <1>10, <1>11, <1>12, <1>13
     DEF DwNext, Client

\* The replies' tags survive every step.
LEMMA RxTagKept ==
  ASSUME DwIInv, RxTagInv, [DwNext]_dwVars
  PROVE  RxTagInv'
<1>0. /\ BeckerInv /\ CopiedInv /\ DwTypeOK /\ ClientInv
      /\ [Next]_beckerVars \/ Beside
  BY PortSteps DEF DwIInv
<1>1. /\ sess \in Nat /\ rx_total \in Nat /\ Run(rx_tail) \in Nat
      /\ Run(rx_flush_mark) \in Nat /\ Run(rx_flush_mark) <= rx_total
      /\ sock \in Seq(Tags) /\ bbuf \in Seq(Tags)
  BY <1>0, Numbers, RunType, TagAssumption DEF DwTypeOK, BeckerInv, TypeOK, IndexInv
<1>2. \/ sess' = sess + 1 /\ dpc' = "linked" /\ bpc' \in {"clear_flush", "ready"} /\ sock' = <<>>
         /\ bpc = "ready"
      \/ sess' = sess /\ (open' => open /\ rx_flush_mark' = rx_flush_mark)
  BY <1>0, SessionSteps
<1>3. /\ Run(rx_tail') \in Nat /\ Run(rx_tail') >= Run(rx_tail) /\ rx_total' \in Nat
      /\ \A r \in Run(rx_tail') .. rx_total' - 1 :
           \/ r < rx_total /\ RxAt(r)' = RxAt(r)
           \/ /\ r >= rx_total /\ bpc = "push_publish"
              /\ \E i \in 1 .. Len(bbuf) : RxAt(r)' = bbuf[i]
  BY <1>0, RxEffect
<1>4. \A r \in Run(rx_tail) .. rx_total - 1 : RxAt(r)[1] \in Nat
  <2>1. \A r \in Run(rx_tail) .. rx_total - 1 : RxAt(r) \in Tags
    BY <1>0, TagsTyped
  <2>2. \A t \in Tags : t[1] \in Nat
    BY BoundAssumption DEF Tags
  <2> QED
    BY <2>1, <2>2
<1>5. \A i \in 1 .. Len(bbuf) : bbuf[i][1] \in Nat
  <2>1. \A i \in 1 .. Len(bbuf) : bbuf[i] \in Tags
    BY <1>1
  <2> QED
    BY <2>1, BoundAssumption DEF Tags
<1>6. \A i \in 1 .. Len(sock) : sock[i][1] \in Nat
  <2>1. \A i \in 1 .. Len(sock) : sock[i] \in Tags
    BY <1>1
  <2> QED
    BY <2>1, BoundAssumption DEF Tags
<1>7. ASSUME NEW r \in Run(rx_tail') .. rx_total' - 1
      PROVE  RxAt(r)'[1] <= sess' /\ (open' /\ r < Run(rx_flush_mark') => RxAt(r)'[1] < sess')
  <2>1. CASE r < rx_total /\ RxAt(r)' = RxAt(r)
    <3>1. r \in Run(rx_tail) .. rx_total - 1
      BY <1>1, <1>3, <2>1
    <3>2. /\ RxAt(r)[1] <= sess /\ RxAt(r)[1] \in Nat
          /\ open /\ r < Run(rx_flush_mark) => RxAt(r)[1] < sess
      BY <1>4, <3>1 DEF RxTagInv
    <3> DEFINE t == RxAt(r)[1]
    <3>3. RxAt(r)'[1] = t
      BY <2>1
    <3> HIDE DEF t
    <3>4. t \in Nat /\ t <= sess /\ (open /\ r < Run(rx_flush_mark) => t < sess)
      BY <3>2 DEF t
    <3> QED
      BY <1>1, <1>2, <3>3, <3>4
  <2>2. CASE r >= rx_total /\ bpc = "push_publish" /\ \E i \in 1 .. Len(bbuf) : RxAt(r)' = bbuf[i]
    <3>1. PICK i \in 1 .. Len(bbuf) : RxAt(r)' = bbuf[i]
      BY <2>2
    <3>2. bbuf[i][1] <= sess
      BY <2>2 DEF RxTagInv
    <3>3. sess' = sess /\ (open' => rx_flush_mark' = rx_flush_mark)
      BY <1>2, <2>2
    <3>4. open' => ~(r < Run(rx_flush_mark'))
      BY <1>1, <2>2, <3>3
    <3> QED
      BY <3>1, <3>2, <3>3, <3>4
  <2> QED
    BY <1>3, <2>1, <2>2
<1>8. \A n \in 1 .. Len(sock) :
        /\ Len(SubSeq(sock, 1, n)) = n
        /\ \A i \in 1 .. n : SubSeq(sock, 1, n)[i] = sock[i]
        /\ Len(SubSeq(sock, n + 1, Len(sock))) = Len(sock) - n
        /\ \A i \in 1 .. Len(sock) - n : SubSeq(sock, n + 1, Len(sock))[i] = sock[i + n]
  BY <1>1
<1>9. sess' \in Nat /\ sess' >= sess
  BY <1>1, <1>2
<1>10. /\ \/ sock' = sock \/ sock' = <<>>
          \/ \E n \in 1 .. Len(sock) : sock' = SubSeq(sock, n + 1, Len(sock))
          \/ \E e \in Tags : e[1] = sess /\ sock' = Append(sock, e)
       /\ dpc' = "push" \/ bpc' \in {"push_copy", "push_publish"} =>
            \/ bbuf' = bbuf /\ (dpc = "push" \/ bpc \in {"push_copy", "push_publish"})
            \/ \E n \in 1 .. Len(sock) : bbuf' = SubSeq(sock, 1, n)
  BY <1>0, ReplySteps
<1>11. \A i \in 1 .. Len(sock') : sock'[i][1] <= sess'
  <2>1. \A i \in 1 .. Len(sock) : sock[i][1] <= sess'
    BY <1>1, <1>6, <1>9 DEF RxTagInv
  <2>2. CASE sock' = sock \/ sock' = <<>>
    BY <2>1, <2>2
  <2>3. CASE \E n \in 1 .. Len(sock) : sock' = SubSeq(sock, n + 1, Len(sock))
    <3>1. PICK n \in 1 .. Len(sock) : sock' = SubSeq(sock, n + 1, Len(sock))
      BY <2>3
    <3>2. Len(sock') = Len(sock) - n /\ \A i \in 1 .. Len(sock) - n : sock'[i] = sock[i + n]
      BY <1>8, <3>1
    <3>3. Len(sock) \in Nat
      BY <1>1
    <3>4. \A i \in 1 .. Len(sock) - n : i + n \in 1 .. Len(sock)
      BY <3>3
    <3> QED
      BY <2>1, <3>2, <3>4
  <2>4. CASE \E e \in Tags : e[1] = sess /\ sock' = Append(sock, e)
    <3>1. PICK e \in Tags : e[1] = sess /\ sock' = Append(sock, e)
      BY <2>4
    <3>2. /\ Len(sock') = Len(sock) + 1 /\ sock'[Len(sock) + 1] = e
          /\ \A i \in 1 .. Len(sock) : sock'[i] = sock[i]
      BY <1>1, <3>1, AppendProperties
    <3>3. Len(sock) \in Nat
      BY <1>1
    <3> QED
      BY <1>1, <1>9, <2>1, <3>1, <3>2, <3>3
  <2> QED
    BY <1>10, <2>2, <2>3, <2>4
<1>12. ASSUME dpc' = "push" \/ bpc' \in {"push_copy", "push_publish"}
       PROVE  \A i \in 1 .. Len(bbuf') : bbuf'[i][1] <= sess'
  <2>1. CASE bbuf' = bbuf /\ (dpc = "push" \/ bpc \in {"push_copy", "push_publish"})
    BY <1>1, <1>5, <1>9, <2>1 DEF RxTagInv
  <2>2. CASE \E n \in 1 .. Len(sock) : bbuf' = SubSeq(sock, 1, n)
    <3>1. PICK n \in 1 .. Len(sock) : bbuf' = SubSeq(sock, 1, n)
      BY <2>2
    <3>2. Len(bbuf') = n /\ \A i \in 1 .. n : bbuf'[i] = sock[i] /\ i \in 1 .. Len(sock)
      BY <1>1, <1>8, <3>1
    <3> QED
      BY <1>1, <1>6, <1>9, <3>2 DEF RxTagInv
  <2> QED
    BY <1>10, <1>12, <2>1, <2>2
<1> QED
  BY <1>7, <1>11, <1>12 DEF RxTagInv

\* What a step does to the number of resets: only a reset counts, and until its mark is
\* set the CoCo writes nothing.
LEMMA ResetSteps ==
  ASSUME DwTypeOK, [DwNext]_dwVars
  PROVE  \/ /\ epoch' = epoch + 1 /\ cpc' = "reset_mark" /\ cpc = "idle"
            /\ tx_flush_mark' = tx_flush_mark
         \/ /\ epoch' = epoch
            /\ cpc' = "reset_mark" => cpc = "reset_mark"
            /\ tx_flush_mark' = tx_flush_mark \/ cpc = "reset_mark"
            /\ cpc' \in {"fill", "publish"} =>
                 cbyte' = <<0, epoch>> \/ (cbyte' = cbyte /\ cpc \in {"fill", "publish"})
<1>1. CASE CocoReset
  BY <1>1 DEF CocoReset, ResetBegin, flushVars
<1>2. CASE CocoCall
  BY <1>2 DEF CocoCall, ReadStatusBegin, ReadDataBegin, ReadBegin, WriteBegin, ScanlineTick,
     flushVars, coreOneVars, hostVars
<1>3. CASE CocoStep
  BY <1>3 DEF CocoStep, CpuStep, ReadClear, ReadStatusEnd, ReadDataLook, ReadDataCopy,
     ReadDataEnd, WriteFill, WriteEnd, ResetMark, ResetFlush, ResetEnd, flushVars, hostVars
<1>4. CASE ShutdownBegin \/ Loop
  BY <1>4 DEF ShutdownBegin, Loop, flushVars, coreOneVars, hostVars
<1>5. CASE ClientStep
  BY <1>5 DEF ClientStep, BackendStep, PopClear, PopAvail, PopCopy, PopEnd, PushCopy, PushEnd,
     ClearFlush, ClearEnd, DownClear, ClearReset, DownDrop, DownMark, DownAsk, DownEnd,
     flushVars, coreOneVars, hostVars
<1>6. CASE ConnectOk \/ Linked \/ Pop \/ Push \/ Stopped
  BY <1>6 DEF ConnectOk, ClearBegin, ClearReset, Linked, LinkUp, Pop, PopBegin, Push, PushBegin,
     Stopped, DownBegin, beckerVars, flushVars, coreOneVars, hostVars
<1>7. CASE SockRead
  BY <1>7 DEF SockRead, flushVars, coreOneVars, hostVars
<1>8. CASE ShutdownEnd \/ Top \/ ConnectFail \/ SockWrite \/ WifiCheck \/ Stop \/ Down \/ Backoff
           \/ ServerReply
  BY <1>8 DEF ShutdownEnd, Top, ConnectFail, SockWrite, WifiCheck, Stop, Down, Backoff,
     ServerReply, beckerVars, flushVars, coreOneVars, hostVars
<1>9. CASE UNCHANGED dwVars
  BY <1>9 DEF dwVars, beckerVars, flushVars, coreOneVars, hostVars
<1> QED
  BY <1>1, <1>2, <1>3, <1>4, <1>5, <1>6, <1>7, <1>8, <1>9 DEF DwNext, Client

\* The commands' tags survive every step.
LEMMA TxTagKept ==
  ASSUME DwIInv, TxTagInv, [DwNext]_dwVars
  PROVE  TxTagInv'
<1>0. /\ BeckerInv /\ CopiedInv /\ DwTypeOK /\ ClientInv
      /\ [Next]_beckerVars \/ Beside
  BY PortSteps DEF DwIInv
<1>1. /\ epoch \in Nat /\ bytes_from_coco \in Nat /\ Run(tx_tail) \in Nat
      /\ Run(tx_flush_mark) \in Nat /\ Run(tx_flush_mark) <= bytes_from_coco
  BY <1>0, Numbers, RunType DEF DwTypeOK, BeckerInv, TypeOK, IndexInv
<1>2. \/ /\ epoch' = epoch + 1 /\ cpc' = "reset_mark" /\ cpc = "idle"
         /\ tx_flush_mark' = tx_flush_mark
      \/ /\ epoch' = epoch
         /\ cpc' = "reset_mark" => cpc = "reset_mark"
         /\ tx_flush_mark' = tx_flush_mark \/ cpc = "reset_mark"
         /\ cpc' \in {"fill", "publish"} =>
              cbyte' = <<0, epoch>> \/ (cbyte' = cbyte /\ cpc \in {"fill", "publish"})
  BY <1>0, ResetSteps
<1>3. /\ Run(tx_tail') \in Nat /\ Run(tx_tail') >= Run(tx_tail) /\ bytes_from_coco' \in Nat
      /\ \A r \in Run(tx_tail') .. bytes_from_coco' - 1 :
           \/ r < bytes_from_coco /\ TxAt(r)' = TxAt(r)
           \/ r >= bytes_from_coco /\ cpc = "publish" /\ TxAt(r)' = cbyte
  BY <1>0, TxEffect
<1>4. \A r \in Run(tx_tail) .. bytes_from_coco - 1 : TxAt(r)[2] \in Nat
  <2>1. \A r \in Run(tx_tail) .. bytes_from_coco - 1 : TxAt(r) \in Tags
    BY <1>0, TagsTyped
  <2>2. \A t \in Tags : t[2] \in Nat
    BY BoundAssumption DEF Tags
  <2> QED
    BY <2>1, <2>2
<1>5. ASSUME NEW r \in Run(tx_tail') .. bytes_from_coco' - 1
      PROVE  /\ TxAt(r)'[2] <= epoch'
             /\ r < Run(tx_flush_mark') \/ cpc' = "reset_mark" => TxAt(r)'[2] < epoch'
  <2>1. CASE r < bytes_from_coco /\ TxAt(r)' = TxAt(r)
    <3>1. r \in Run(tx_tail) .. bytes_from_coco - 1
      BY <1>1, <1>3, <2>1
    <3> DEFINE t == TxAt(r)[2]
    <3>2. TxAt(r)'[2] = t
      BY <2>1
    <3>3. t \in Nat /\ t <= epoch /\ (r < Run(tx_flush_mark) \/ cpc = "reset_mark" => t < epoch)
      BY <1>4, <3>1 DEF TxTagInv
    <3> HIDE DEF t
    <3> QED
      BY <1>1, <1>2, <3>2, <3>3
  <2>2. CASE r >= bytes_from_coco /\ cpc = "publish" /\ TxAt(r)' = cbyte
    <3>1. cbyte[2] <= epoch
      BY <2>2 DEF TxTagInv
    <3>2. epoch' = epoch /\ tx_flush_mark' = tx_flush_mark /\ cpc' # "reset_mark"
      BY <1>2, <2>2
    <3>3. ~(r < Run(tx_flush_mark'))
      BY <1>1, <2>2, <3>2
    <3> QED
      BY <2>2, <3>1, <3>2, <3>3
  <2> QED
    BY <1>3, <2>1, <2>2
<1>6. ASSUME cpc' \in {"fill", "publish"}
      PROVE  cbyte'[2] <= epoch'
  <2>1. CASE cbyte' = <<0, epoch>> /\ epoch' = epoch
    BY <1>1, <2>1
  <2>2. CASE cbyte' = cbyte /\ cpc \in {"fill", "publish"} /\ epoch' = epoch
    BY <2>2 DEF TxTagInv
  <2> QED
    BY <1>2, <1>6, <2>1, <2>2
<1> QED
  BY <1>5, <1>6 DEF TxTagInv

\* What a flush skips is in flight, and before the mark if it goes to the mark.
LEMMA RxSkips ==
  ASSUME BeckerInv, NEW b \in Skipped(rx_buf, RX_SIZE, rx_tail, RxFlushed)
  PROVE  \E r \in Run(rx_tail) .. rx_total - 1 : r < Run(rx_flush_mark) /\ b = RxAt(r)
<1>1. PICK i \in 0 .. Sub(RxFlushed, rx_tail) - 1 : b = rx_buf[Add(rx_tail, i) % RX_SIZE]
  BY DEF Skipped
<1>2. /\ rx_tail \in Index /\ RxFlushed \in Index /\ Run(rx_tail) \in Nat /\ Run(RxFlushed) \in Nat
      /\ Run(rx_tail) <= Run(RxFlushed) /\ Run(RxFlushed) <= rx_total
      /\ rx_total \in Nat /\ rx_total < W /\ W \in Nat
  BY Numbers, FlushedRun
<1>3. Sub(RxFlushed, rx_tail) = Run(RxFlushed) - Run(rx_tail)
  BY <1>2, SubRun
<1> DEFINE r == Run(rx_tail) + i
<1>4. r \in Nat /\ r < Run(RxFlushed) /\ r \in Run(rx_tail) .. rx_total - 1 /\ r - Run(rx_tail) = i
  BY <1>2, <1>3
<1>5. RxFlushed = rx_flush_mark
  <2>1. RxFlushed = rx_flush_mark \/ RxFlushed = rx_tail
    BY DEF RxFlushed, SkipTo
  <2>2. RxFlushed # rx_tail
    BY <1>2, <1>3, <1>4
  <2> QED
    BY <2>1, <2>2
<1>6. Add(rx_tail, i) = Add(START, r)
  <2>1. Run(rx_tail) <= r /\ r < W
    BY <1>2, <1>4
  <2>2. Add(rx_tail, r - Run(rx_tail)) = Add(START, r)
    BY <1>2, <1>4, <2>1, InFlight
  <2> QED
    BY <1>4, <2>2
<1> HIDE DEF r
<1> QED
  BY <1>1, <1>4, <1>5, <1>6 DEF RxAt

\* The same in the other direction.
LEMMA TxSkips ==
  ASSUME BeckerInv, NEW b \in Skipped(tx_buf, TX_SIZE, tx_tail, TxFlushed)
  PROVE  \E r \in Run(tx_tail) .. bytes_from_coco - 1 : r < Run(tx_flush_mark) /\ b = TxAt(r)
<1>1. PICK i \in 0 .. Sub(TxFlushed, tx_tail) - 1 : b = tx_buf[Add(tx_tail, i) % TX_SIZE]
  BY DEF Skipped
<1>2. /\ tx_tail \in Index /\ TxFlushed \in Index /\ Run(tx_tail) \in Nat /\ Run(TxFlushed) \in Nat
      /\ Run(tx_tail) <= Run(TxFlushed) /\ Run(TxFlushed) <= bytes_from_coco
      /\ bytes_from_coco \in Nat /\ bytes_from_coco < W /\ W \in Nat
  BY Numbers, FlushedRun
<1>3. Sub(TxFlushed, tx_tail) = Run(TxFlushed) - Run(tx_tail)
  BY <1>2, SubRun
<1> DEFINE r == Run(tx_tail) + i
<1>4. /\ r \in Nat /\ r < Run(TxFlushed) /\ r \in Run(tx_tail) .. bytes_from_coco - 1
      /\ r - Run(tx_tail) = i
  BY <1>2, <1>3
<1>5. TxFlushed = tx_flush_mark
  <2>1. TxFlushed = tx_flush_mark \/ TxFlushed = tx_tail
    BY DEF TxFlushed, SkipTo
  <2>2. TxFlushed # tx_tail
    BY <1>2, <1>3, <1>4
  <2> QED
    BY <2>1, <2>2
<1>6. Add(tx_tail, i) = Add(START, r)
  <2>1. Run(tx_tail) <= r /\ r < W
    BY <1>2, <1>4
  <2>2. Add(tx_tail, r - Run(tx_tail)) = Add(START, r)
    BY <1>2, <1>4, <2>1, InFlight
  <2> QED
    BY <1>4, <2>2
<1> HIDE DEF r
<1> QED
  BY <1>1, <1>4, <1>5, <1>6 DEF TxAt

\* A flush step goes to the mark.
LEMMA FlushSteps ==
  ASSUME DwTypeOK, ClientInv, [DwNext]_dwVars
  PROVE  /\ cpc = "idle" /\ cpc' \in {"clear_status", "clear_look"} => rx_tail' = RxFlushed
         /\ bpc' \in {"pop_clear", "clear_flush", "down_flush"} /\ bpc' # bpc => tx_tail' = TxFlushed
<1>1. CASE [Next]_beckerVars
  <2>1. CASE CpuCall
    BY <2>1 DEF CpuCall, ReadStatusBegin, ReadDataBegin, ReadBegin, WriteBegin, ResetBegin,
       ScanlineTick, coreOneVars, coreZeroVars
  <2>2. CASE CpuStep
    BY <2>2 DEF CpuStep, ReadClear, ReadStatusEnd, ReadDataLook, ReadDataCopy,
       ReadDataEnd, WriteFill, WriteEnd, ResetMark, ResetFlush, ResetEnd, coreZeroVars
  <2>3. CASE BackendCall
    BY <2>3 DEF BackendCall, PopBegin, PushBegin, ClearBegin, ClearReset, LinkUp, DownBegin,
       coreOneVars, coreZeroVars
  <2>4. CASE BackendStep
    BY <2>4 DEF BackendStep, PopClear, PopAvail, PopCopy, PopEnd, PushCopy, PushEnd,
       ClearFlush, ClearEnd, DownClear, ClearReset, DownDrop, DownMark, DownAsk, DownEnd, coreOneVars
  <2>5. CASE UNCHANGED beckerVars
    BY <2>5 DEF beckerVars, coreOneVars, coreZeroVars
  <2> QED
    BY <1>1, <2>1, <2>2, <2>3, <2>4, <2>5 DEF Next
<1>2. CASE Beside
  BY <1>2 DEF Beside, coreOneVars
<1> QED
  BY <1>1, <1>2, PortSteps

\* Every byte carries the tags that the flushes go by.
LEMMA TagsAlways == DwSpec => [](RxTagInv /\ TxTagInv)
<1>1. DwInit => RxTagInv /\ TxTagInv
  <2> SUFFICES ASSUME DwInit PROVE RxTagInv /\ TxTagInv
    OBVIOUS
  <2>1. /\ rx_tail = START /\ tx_tail = START /\ rx_total = 0 /\ bytes_from_coco = 0
        /\ sock = <<>> /\ bbuf = <<>> /\ cpc = "idle"
    BY DEF DwInit, Init
  <2>2. Run(START) = 0
    BY SizeAssumption DEF Run, Sub
  <2> QED
    BY <2>1, <2>2 DEF RxTagInv, TxTagInv
<1>2. DwIInv /\ RxTagInv /\ TxTagInv /\ [DwNext]_dwVars => (RxTagInv /\ TxTagInv)'
  BY RxTagKept, TxTagKept
<1> QED
  BY <1>1, <1>2, DwAlways, PTL DEF DwSpec

\* However late core 1 serves the flush of a lost link, it skips only bytes of earlier
\* sessions; however late core 0 serves the flush of a reset, it skips only what was
\* written before it.
THEOREM DwFlushSparesNew == FairDwSpec => FlushSparesNew
<1>1. ASSUME DwIInv, RxTagInv, [DwNext]_dwVars,
             cpc = "idle" /\ cpc' \in {"clear_status", "clear_look"} /\ open
      PROVE  \A b \in Skipped(rx_buf, RX_SIZE, rx_tail, rx_tail') : b[1] < sess
  <2>1. BeckerInv /\ rx_tail' = RxFlushed
    BY <1>1, FlushSteps DEF DwIInv
  <2> QED
    BY <1>1, <2>1, RxSkips DEF RxTagInv
<1>2. ASSUME DwIInv, TxTagInv, [DwNext]_dwVars,
             bpc' \in {"pop_clear", "clear_flush", "down_flush"} /\ bpc' # bpc
      PROVE  \A b \in Skipped(tx_buf, TX_SIZE, tx_tail, tx_tail') : b[2] < epoch
  <2>1. BeckerInv /\ tx_tail' = TxFlushed
    BY <1>2, FlushSteps DEF DwIInv
  <2> QED
    BY <1>2, <2>1, TxSkips DEF TxTagInv
<1> QED
  BY <1>1, <1>2, DwAlways, TagsAlways, PTL
     DEF FairDwSpec, DwSpec, FlushSparesNew, FlushSparesNewLink, FlushSparesNewCommand


-----------------------------------------------------------------------------
(* Where a line goes.                                                       *)

\* A line number in terms of the period it falls in.
LEMMA PeriodOf ==
  ASSUME NEW l \in Nat, NEW p \in Nat \ {0}
  PROVE  \E k \in Nat, m \in 0 .. p-1 : l + 1 = p * k + m /\ (l + 1) \div p = k /\ (l + 1) % p = m
<1> DEFINE k == (l + 1) \div p
           m == (l + 1) % p
<1>1. l + 1 = p * k + m /\ k \in Int /\ m \in 0 .. p-1
  BY ModDiv, ModRange
<1>2. k \in Nat
  <2> HIDE DEF k, m
  <2> SUFFICES ASSUME k <= -1 PROVE FALSE
    BY <1>1
  <2>1. p * k = p * (k + 1) - p
    BY <1>1
  <2>2. p * (k + 1) <= 0
    BY <1>1
  <2> QED
    BY <2>1, <2>2, <1>1
<1> QED
  BY <1>1, <1>2

\* The tall case of both, in numbers.
Squeezed(l, e, p, V) ==
  LET dropped == (l + 1) \div p
      y == l - (IF dropped > e THEN e ELSE dropped)
  IN IF dropped <= e /\ (l + 1) % p = 0 THEN -1 ELSE IF y < V THEN y ELSE -1
Stretched(y, e, p) == IF p = 1 \/ y \div (p - 1) > e THEN y + e ELSE y + y \div (p - 1)

\* Excess and period of a squeezed picture.
LEMMA Excess ==
  ASSUME NEW total \in Nat, NEW V \in Nat \ {0}, total > V
  PROVE  LET e == total - V
             p == total \div e
         IN e \in Nat \ {0} /\ p \in Nat \ {0} /\ \E r \in 0 .. e-1 : total = e * p + r /\ V = e * (p - 1) + r
<1> DEFINE e == total - V
           p == total \div e
           r == total % e
<1>1. e \in Nat \ {0} /\ total \in Int
  OBVIOUS
<1>3. e <= total /\ e = total - V
  OBVIOUS
<1> HIDE DEF e
<1>2. total = e * p + r /\ p \in Int /\ r \in 0 .. e-1
  BY <1>1, DivMod
<1> HIDE DEF p, r
<1>4. p >= 1
  <2> SUFFICES ASSUME p <= 0 PROVE FALSE
    BY <1>2
  <2>1. e * p <= 0
    BY <1>1, <1>2
  <2> QED
    BY <2>1, <1>1, <1>2, <1>3
<1>5. e * (p - 1) = e * p - e
  BY <1>1, <1>2
<1>6. V = e * (p - 1) + r
  BY <1>1, <1>2, <1>3, <1>5
<1>7. p \in Nat \ {0}
  BY <1>2, <1>4
<1> QED
  BY <1>1, <1>2, <1>6, <1>7 DEF e, p, r

\* A line that is not dropped is on a row of the layout, and the row gives it back.
LEMMA SqueezedBack ==
  ASSUME NEW e \in Nat \ {0}, NEW p \in Nat \ {0}, NEW V \in Nat \ {0}, NEW total \in Nat,
         NEW r \in 0 .. e-1, total = e * p + r, V = e * (p - 1) + r, V = total - e,
         NEW l \in 0 .. total - 1, Squeezed(l, e, p, V) # -1
  PROVE  Squeezed(l, e, p, V) \in 0 .. V-1 /\ Stretched(Squeezed(l, e, p, V), e, p) = l
<1>1. PICK k \in Nat, m \in 0 .. p-1 : l + 1 = p * k + m /\ (l + 1) \div p = k /\ (l + 1) % p = m
  BY PeriodOf
<1> DEFINE y == l - (IF k > e THEN e ELSE k)
<1>2. Squeezed(l, e, p, V) = y /\ y < V /\ (k <= e => m # 0)
  BY <1>1 DEF Squeezed
<1>3. CASE k <= e
  <2>1. y = l - k /\ m # 0 /\ y \in Int
    BY <1>2, <1>3
  <2>2. p \in Nat /\ p > 1 /\ m - 1 \in 0 .. (p - 1) - 1
    BY <2>1, <1>1
  <2>3. (p - 1) * k = p * k - k
    BY <2>2
  <2>4. y = (p - 1) * k + (m - 1)
    BY <2>1, <2>2, <2>3, <1>1
  <2>5. (p - 1) * k >= 0
    BY <2>2
  <2> HIDE DEF y
  <2>6. y \div (p - 1) = k
    <3> DEFINE n == p - 1
               j == m - 1
    <3>1. n \in Nat \ {0} /\ j \in 0 .. n-1 /\ y = n * k + j
      BY <2>2, <2>4
    <3> HIDE DEF n, j
    <3>2. y \div n = k
      BY <3>1, <2>1, DivUnique
    <3> QED
      BY <3>2 DEF n
  <2>7. y \in 0 .. V-1
    BY <1>2, <2>1, <2>2, <2>4, <2>5
  <2>8. Stretched(y, e, p) = y + k
    BY <2>6, <2>2, <1>3 DEF Stretched
  <2> QED
    BY <1>2, <2>1, <2>7, <2>8
<1>4. CASE k > e
  <2>1. y = l - e /\ y \in Int
    BY <1>2, <1>4
  <2>2. p * k = p * (e + 1) + p * (k - (e + 1))
    BY <1>1
  <2>3. p * (k - (e + 1)) >= 0
    BY <1>4
  <2>4. l + 1 >= p * (e + 1)
    BY <1>1, <2>2, <2>3
  <2>5. p * (e + 1) = p * e + p
    OBVIOUS
  <2>10. p * e >= e
    <3>1. p * e = e + (p - 1) * e
      OBVIOUS
    <3>2. (p - 1) * e >= 0
      OBVIOUS
    <3> QED
      BY <3>1, <3>2
  <2>6. y >= (p * e - e) + p - 1
    BY <2>1, <2>4, <2>5
  <2>7. y \in 0 .. V-1
    BY <1>2, <2>1, <2>6, <2>10
  <2>8. Stretched(y, e, p) = y + e
    <3> HIDE DEF y
    <3>1. CASE p = 1
      BY <3>1 DEF Stretched
    <3>2. CASE p # 1
      <4> DEFINE n == p - 1
                 q == y \div n
      <4>1. n \in Nat \ {0} /\ p = n + 1
        BY <3>2
      <4>2. y = n * q + (y % n) /\ q \in Int /\ y % n \in 0 .. n-1
        BY <4>1, <2>1, ModDiv, ModRange
      <4> HIDE DEF n, q
      <4>3. q > e
        <5> SUFFICES ASSUME q <= e PROVE FALSE
          BY <4>2
        <5>1. n * e = n * q + n * (e - q)
          BY <4>1, <4>2
        <5>2. n * (e - q) >= 0
          BY <4>1, <4>2
        <5>3. p * e = n * e + e
          BY <4>1
        <5> QED
          BY <5>1, <5>2, <5>3, <2>6, <4>1, <4>2
      <4>4. y \div (p - 1) > e
        BY <4>3 DEF q, n
      <4> QED
        BY <4>4 DEF Stretched
    <3> QED
      BY <3>1, <3>2
  <2> QED
    BY <1>2, <2>1, <2>7, <2>8
<1> QED
  BY <1>1, <1>3, <1>4

\* Every row of the layout is the row of a line.
LEMMA StretchedBack ==
  ASSUME NEW e \in Nat \ {0}, NEW p \in Nat \ {0}, NEW V \in Nat \ {0}, NEW total \in Nat,
         NEW r \in 0 .. e-1, total = e * p + r, V = e * (p - 1) + r, V = total - e,
         NEW y \in 0 .. V-1
  PROVE  Stretched(y, e, p) \in 0 .. total-1 /\ Squeezed(Stretched(y, e, p), e, p, V) = y
<1> DEFINE l == Stretched(y, e, p)
<1>1. CASE p = 1 \/ y \div (p - 1) > e
  <2>1. l = y + e
    BY <1>1 DEF Stretched
  <2>2. l \in 0 .. total-1
    BY <2>1
  <2> HIDE DEF l
  <2>3. PICK k \in Nat, m \in 0 .. p-1 : l + 1 = p * k + m /\ (l + 1) \div p = k /\ (l + 1) % p = m
    BY <2>2, PeriodOf
  <2>4. y >= (p - 1) * e
    <3>1. CASE p = 1
      BY <3>1
    <3>2. CASE p # 1
      <4> DEFINE n == p - 1
                 q == y \div n
      <4>1. n \in Nat \ {0} /\ p = n + 1
        BY <3>2
      <4>3. q > e
        BY <1>1, <3>2
      <4> HIDE DEF n
      <4>2. y = n * q + (y % n) /\ q \in Int /\ y % n \in 0 .. n-1
        BY <4>1, DivMod
      <4> HIDE DEF q
      <4>4. n * q = n * e + n * (q - e)
        BY <4>1, <4>2
      <4>5. n * (q - e) >= 0
        BY <4>1, <4>2, <4>3
      <4> QED
        BY <4>1, <4>2, <4>4, <4>5
    <3> QED
      BY <3>1, <3>2
  <2>5. (p - 1) * e = p * e - e
    OBVIOUS
  <2>6. l + 1 > p * e
    BY <2>1, <2>4, <2>5
  <2>7. k >= e
    <3> SUFFICES ASSUME k <= e - 1 PROVE FALSE
      BY <2>3
    <3>1. p * e = p * (k + 1) + p * (e - 1 - k)
      BY <2>3
    <3>2. p * (e - 1 - k) >= 0
      BY <2>3
    <3>3. p * (k + 1) = p * k + p
      BY <2>3
    <3> QED
      BY <3>1, <3>2, <3>3, <2>3, <2>6
  <2>8. k = e => m # 0
    BY <2>3, <2>6
  <2>9. l - (IF k > e THEN e ELSE k) = y
    BY <2>1, <2>3, <2>7
  <2>10. Squeezed(l, e, p, V) = y
    BY <2>3, <2>7, <2>8, <2>9 DEF Squeezed
  <2> QED
    BY <2>2, <2>10 DEF l
<1>2. CASE ~(p = 1 \/ y \div (p - 1) > e)
  <2> DEFINE n == p - 1
             q == y \div n
             j == y % n
  <2>1. n \in Nat \ {0} /\ p = n + 1
    BY <1>2
  <2>20. l = y + q /\ ~(q > e)
    BY <1>2 DEF Stretched
  <2> HIDE DEF l, n
  <2>2. y = n * q + j /\ q \in Int /\ j \in 0 .. n-1
    BY <2>1, DivMod
  <2> HIDE DEF q, j
  <2>3. q <= e /\ l = y + q
    BY <2>2, <2>20
  <2>4. q >= 0
    <3> SUFFICES ASSUME q <= -1 PROVE FALSE
      BY <2>2
    <3>1. n * q = n * (q + 1) - n
      BY <2>1, <2>2
    <3>2. n * (q + 1) <= 0
      BY <2>1, <2>2
    <3> QED
      BY <2>1, <2>2, <3>1, <3>2
  <2>5. p * q = n * q + q
    BY <2>1, <2>2
  <2>6. l + 1 = p * q + (j + 1) /\ l \in Nat
    <3> DEFINE nq == n * q
               pq == p * q
    <3>1. y = nq + j /\ pq = nq + q /\ nq \in Int
      BY <2>1, <2>2, <2>5
    <3> HIDE DEF nq, pq
    <3>2. l + 1 = pq + (j + 1) /\ l \in Nat
      BY <3>1, <2>2, <2>3, <2>4
    <3> QED
      BY <3>2 DEF pq
  <2>7. j + 1 \in 0 .. p-1 /\ l + 1 \in Int
    BY <2>1, <2>2, <2>6
  <2>8. (l + 1) \div p = q /\ (l + 1) % p = j + 1
    <3> DEFINE a == l + 1
               i == j + 1
    <3>1. a \in Int /\ i \in 0 .. p-1 /\ a = p * q + i
      BY <2>6, <2>7
    <3> HIDE DEF a, i
    <3>2. a \div p = q /\ a % p = i
      BY <3>1, <2>2, DivUnique, ModUnique
    <3> QED
      BY <3>2 DEF a, i
  <2>9. l - (IF q > e THEN e ELSE q) = y
    BY <2>2, <2>3
  <2>10. Squeezed(l, e, p, V) = y
    <3>1. (l + 1) % p # 0 /\ y < V
      BY <2>2, <2>8
    <3> QED
      BY <3>1, <2>8, <2>9 DEF Squeezed
  <2>11. l <= total - 1
    BY <2>2, <2>3
  <2> QED
    BY <2>6, <2>10, <2>11 DEF l
<1> QED
  BY <1>1, <1>2

\* The line of a row.
RowsLine(y, total) ==
  IF total <= vp_h THEN y - (vp_h - total) \div 2
  ELSE Stretched(y, total - vp_h, total \div (total - vp_h))

\* The rows of a layout.
LEMMA LayoutRows ==
  ASSUME tall \in BOOLEAN
  PROVE  vp_h \in Nat \ {0} /\ vp_h <= TALL_ROWS /\ TALL_ROWS \in Nat
  BY DisplayAssumption DEF vp_h

\* A line of a picture taller than the layout, in numbers.
LEMMA SqueezedRow ==
  ASSUME NEW l, NEW total, total > vp_h, total \in Nat, vp_h \in Nat
  PROVE  gime_display_y(l, total) = Squeezed(l, total - vp_h, total \div (total - vp_h), vp_h)
<1>1. ~(total <= vp_h)
  OBVIOUS
<1> QED
  BY <1>1, ZenonT(30) DEF gime_display_y, Squeezed

\* Half the rows a small picture leaves free.
LEMMA Half ==
  ASSUME NEW a \in Nat
  PROVE  a \div 2 \in Nat /\ 2 * (a \div 2) <= a /\ a <= 2 * (a \div 2) + 1
  OBVIOUS

\* A line that is not dropped is on one row, and the row gives it back.
LEMMA LineBack ==
  ASSUME tall \in BOOLEAN, NEW total \in HEIGHTS, NEW l \in 0 .. total - 1,
         gime_display_y(l, total) # -1
  PROVE  gime_display_y(l, total) \in 0 .. vp_h - 1 /\ RowsLine(gime_display_y(l, total), total) = l
<1>1. vp_h \in Nat \ {0} /\ total \in Nat
  BY LayoutRows, DisplayAssumption
<1>2. CASE total <= vp_h
  <2> DEFINE q == (vp_h - total) \div 2
  <2>1. gime_display_y(l, total) = l + q
    BY <1>2, Zenon DEF gime_display_y
  <2>2. q \in Nat /\ 2 * q <= vp_h - total
    <3>1. vp_h - total \in Nat
      BY <1>1, <1>2
    <3> QED
      BY <3>1, Half
  <2>4. RowsLine(l + q, total) = (l + q) - q
    BY <1>2, Zenon DEF RowsLine
  <2> HIDE DEF q
  <2>3. l + q \in 0 .. vp_h - 1 /\ (l + q) - q = l
    BY <2>2, <1>1, <1>2
  <2> QED
    BY <2>1, <2>3, <2>4
<1>3. CASE total > vp_h
  <2> DEFINE V == vp_h
             e == total - V
             p == total \div e
  <2>1. gime_display_y(l, total) = Squeezed(l, e, p, V)
    BY <1>1, <1>3, SqueezedRow
  <2>2. V \in Nat \ {0} /\ V = total - e
    BY <1>1
  <2>3. e \in Nat \ {0} /\ p \in Nat \ {0} /\ \E r \in 0 .. e-1 : total = e * p + r /\ V = e * (p - 1) + r
    BY <1>1, <1>3, <2>2, Excess
  <2>5. \A y : RowsLine(y, total) = Stretched(y, e, p)
    BY <1>1, <1>3 DEF RowsLine
  <2> HIDE DEF V, e, p
  <2>4. Squeezed(l, e, p, V) \in 0 .. V-1 /\ Stretched(Squeezed(l, e, p, V), e, p) = l
    BY <2>1, <2>2, <2>3, <1>1, SqueezedBack
  <2> QED
    BY <2>1, <2>4, <2>5 DEF V
<1> QED
  BY <1>1, <1>2, <1>3

\* Every row the picture reaches is the row of one line.
LEMMA RowBack ==
  ASSUME tall \in BOOLEAN, NEW total \in HEIGHTS, NEW y \in 0 .. vp_h - 1,
         total < vp_h => y - (vp_h - total) \div 2 \in 0 .. total - 1
  PROVE  RowsLine(y, total) \in 0 .. total - 1 /\ gime_display_y(RowsLine(y, total), total) = y
<1>1. vp_h \in Nat \ {0} /\ total \in Nat
  BY LayoutRows, DisplayAssumption
<1>2. CASE total <= vp_h
  <2> DEFINE q == (vp_h - total) \div 2
  <2>1. gime_display_y(y - q, total) = (y - q) + q
    BY <1>2, Zenon DEF gime_display_y
  <2>2. q \in Nat /\ 2 * q <= vp_h - total
    <3>1. vp_h - total \in Nat
      BY <1>1, <1>2
    <3> QED
      BY <3>1, Half
  <2>4. RowsLine(y, total) = y - q
    BY <1>2, Zenon DEF RowsLine
  <2>5. total < vp_h => y - q \in 0 .. total - 1
    OBVIOUS
  <2> HIDE DEF q
  <2>3. y - q \in 0 .. total - 1 /\ (y - q) + q = y
    BY <2>2, <2>5, <1>1, <1>2
  <2> QED
    BY <2>1, <2>3, <2>4
<1>3. CASE total > vp_h
  <2> DEFINE V == vp_h
             e == total - V
             p == total \div e
  <2>1. gime_display_y(Stretched(y, e, p), total) = Squeezed(Stretched(y, e, p), e, p, V)
    BY <1>1, <1>3, SqueezedRow
  <2>2. V \in Nat \ {0} /\ V = total - e /\ y \in 0 .. V-1
    BY <1>1
  <2>3. e \in Nat \ {0} /\ p \in Nat \ {0} /\ \E r \in 0 .. e-1 : total = e * p + r /\ V = e * (p - 1) + r
    BY <1>1, <1>3, <2>2, Excess
  <2>5. RowsLine(y, total) = Stretched(y, e, p)
    BY <1>1, <1>3 DEF RowsLine
  <2> HIDE DEF V, e, p
  <2>4. Stretched(y, e, p) \in 0 .. total-1 /\ Squeezed(Stretched(y, e, p), e, p, V) = y
    BY <2>2, <2>3, <1>1, StretchedBack
  <2> QED
    BY <2>1, <2>4, <2>5
<1> QED
  BY <1>1, <1>2, <1>3

-----------------------------------------------------------------------------
(* A frame, on a record of what is on display.                              *)

\* The fields of what is on display.
IsShown(d) == DOMAIN d = {"fb", "sig", "border_row", "tall", "votes", "queue", "heights"}

\* What is remembered of lines and borders is what the framebuffer shows.
KnownOf(d, monitor) ==
  /\ d.heights = {} => \A l \in AllLines : d.sig[l] = NoSig
  /\ LinesKnown(d.fb, d.sig, d.heights, monitor)
  /\ BordersKnown(d.fb, d.border_row)

\* The fields of a rendered frame.
LEMMA RenderedFields ==
  ASSUME NEW d, IsShown(d)
  PROVE  LET r == Rendered(d)
         IN /\ IsShown(r)
            /\ r.fb = [y \in AllRows |-> IF y \in RowsDrawn(d) THEN LineShows(LineAt(y))
                                         ELSE IF y \in Painted(d) THEN BorderShows ELSE d.fb[y]]
            /\ r.sig = [l \in AllLines |-> IF l \in Lines THEN line_signature(l) ELSE d.sig[l]]
            /\ r.border_row = [y \in AllRows |-> IF y \in RowsDrawn(d) THEN NoBorder
                                                 ELSE IF y \in Painted(d) THEN BorderShows ELSE d.border_row[y]]
            /\ r.heights = d.heights \cup {prog.lAA}
            /\ r.queue = d.queue /\ r.tall = d.tall /\ r.votes = d.votes
<1> DEFINE f == [y \in AllRows |-> IF y \in RowsDrawn(d) THEN LineShows(LineAt(y))
                                   ELSE IF y \in Painted(d) THEN BorderShows ELSE d.fb[y]]
           s == [l \in AllLines |-> IF l \in Lines THEN line_signature(l) ELSE d.sig[l]]
           b == [y \in AllRows |-> IF y \in RowsDrawn(d) THEN NoBorder
                                   ELSE IF y \in Painted(d) THEN BorderShows ELSE d.border_row[y]]
<1>1. Rendered(d) = [d EXCEPT !.fb = f, !.sig = s, !.border_row = b, !.heights = @ \cup {prog.lAA}]
  BY Zenon DEF Rendered
<1> HIDE DEF f, s, b
<1>2. LET r == Rendered(d)
      IN /\ DOMAIN r = DOMAIN d /\ r.fb = f /\ r.sig = s /\ r.border_row = b /\ r.heights = d.heights \cup {prog.lAA}
         /\ r.queue = d.queue /\ r.tall = d.tall /\ r.votes = d.votes
  BY <1>1 DEF IsShown
<1>3. IsShown(Rendered(d))
  BY <1>2 DEF IsShown
<1> QED
  BY <1>2, <1>3 DEF f, s, b

\* A signature is never the one that stands for none, and says what the line shows.
LEMMA SignatureShows ==
  \A l : line_signature(l) # NoSig /\ ShowsBy(l, line_signature(l), user.monitor) = LineShows(l)
<1>1. ASSUME NEW l PROVE line_signature(l) # NoSig
  <2>1. Len(line_signature(l)) = 4 /\ Len(NoSig) = 0
    BY DEF line_signature, NoSig
  <2> QED
    BY <2>1
<1>2. ASSUME NEW l PROVE ShowsBy(l, line_signature(l), user.monitor) = LineShows(l)
  BY DEF line_signature, ShowsBy, LineShows
<1> QED
  BY <1>1, <1>2

\* A border is a border.
LEMMA BorderIs == BorderShows # NoBorder
<1>1. BorderShows[1] = "border" /\ NoBorder[1] = "other"
  BY DEF BorderShows, NoBorder
<1> QED
  BY <1>1

\* The line drawn on a row is the only one there.
LEMMA LineAtIs ==
  ASSUME DisplayShape, NEW l \in Lines, gime_display_y(l, prog.lAA) # -1
  PROVE  LineAt(gime_display_y(l, prog.lAA)) = l
<1> DEFINE y == gime_display_y(l, prog.lAA)
           k == LineAt(y)
<1>1. \A j \in Lines : gime_display_y(j, prog.lAA) # -1 => RowsLine(gime_display_y(j, prog.lAA), prog.lAA) = j
  BY LineBack DEF DisplayShape, Lines
<1>2. k \in Lines /\ gime_display_y(k, prog.lAA) = y
  <2> HIDE DEF y
  <2>1. l \in Lines /\ gime_display_y(l, prog.lAA) = y
    BY DEF y
  <2>2. \E j \in Lines : gime_display_y(j, prog.lAA) = y
    BY <2>1
  <2> QED
    BY <2>2, Zenon DEF LineAt
<1> HIDE DEF k
<1>3. RowsLine(y, prog.lAA) = k
  BY <1>1, <1>2
<1>4. RowsLine(y, prog.lAA) = l
  BY <1>1
<1> QED
  BY <1>3, <1>4 DEF k

\* A line's row is no spare row.
LEMMA LineNotSpare ==
  ASSUME DisplayShape, NEW l \in Lines
  PROVE  gime_display_y(l, prog.lAA) \notin SpareRows
<1>1. vp_h \in Nat \ {0} /\ prog.lAA \in Nat
  BY LayoutRows, DisplayAssumption DEF DisplayShape
<1>2. CASE prog.lAA >= vp_h
  BY <1>2 DEF SpareRows
<1>3. CASE prog.lAA < vp_h
  <2> DEFINE q == (vp_h - prog.lAA) \div 2
  <2>1. prog.lAA <= vp_h
    BY <1>1, <1>3
  <2>2. gime_display_y(l, prog.lAA) = l + q
    BY <2>1, Zenon DEF gime_display_y
  <2>3. q \in Nat
    <3>1. vp_h - prog.lAA \in Nat
      BY <1>1, <1>3
    <3> QED
      BY <3>1, Half
  <2>4. SpareRows \subseteq {y \in 0 .. vp_h - 1 : y - q \notin Lines}
    BY DEF SpareRows
  <2> HIDE DEF q
  <2>5. l \in Int /\ (l + q) - q = l
    BY <2>3 DEF Lines
  <2> QED
    BY <2>2, <2>4, <2>5
<1> QED
  BY <1>1, <1>2, <1>3

\* A row that is not spare is a line's.
LEMMA RowsOfLines ==
  ASSUME DisplayShape, NEW y \in 0 .. vp_h - 1, y \notin SpareRows
  PROVE  \E l \in Lines : gime_display_y(l, prog.lAA) = y
<1>1. vp_h \in Nat \ {0} /\ prog.lAA \in Nat
  BY LayoutRows, DisplayAssumption DEF DisplayShape
<1>2. prog.lAA < vp_h => y - (vp_h - prog.lAA) \div 2 \in Lines
  BY <1>1 DEF SpareRows
<1>3. RowsLine(y, prog.lAA) \in Lines /\ gime_display_y(RowsLine(y, prog.lAA), prog.lAA) = y
  BY <1>2, RowBack DEF DisplayShape, Lines
<1> QED
  BY <1>3

\* Every line is on a row of the framebuffer, or on none.
LEMMA RowInRange ==
  ASSUME DisplayShape, NEW l \in Lines, gime_display_y(l, prog.lAA) # -1
  PROVE  gime_display_y(l, prog.lAA) \in 0 .. vp_h - 1 /\ gime_display_y(l, prog.lAA) \in AllRows
<1>1. vp_h \in Nat \ {0} /\ vp_h <= TALL_ROWS /\ TALL_ROWS \in Nat
  BY LayoutRows DEF DisplayShape
<1>2. gime_display_y(l, prog.lAA) \in 0 .. vp_h - 1
  BY LineBack DEF DisplayShape, Lines
<1> QED
  BY <1>1, <1>2 DEF AllRows

\* A frame leaves every line known, and, unless lines of another height are about, shows them all.
LEMMA RenderedKnown ==
  ASSUME DisplayShape, NEW d, IsShown(d), KnownOf(d, user.monitor)
  PROVE  LET r == Rendered(d)
         IN /\ KnownOf(r, user.monitor)
            /\ r.heights = {prog.lAA} =>
                 /\ \A l \in Lines : gime_display_y(l, prog.lAA) # -1 =>
                                       r.fb[gime_display_y(l, prog.lAA)] = LineShows(l)
                 /\ \A y \in SpareRows : r.fb[y] = BorderShows
<1> DEFINE r == Rendered(d)
<1>1. /\ r.fb = [y \in AllRows |-> IF y \in RowsDrawn(d) THEN LineShows(LineAt(y))
                                   ELSE IF y \in Painted(d) THEN BorderShows ELSE d.fb[y]]
      /\ r.sig = [l \in AllLines |-> IF l \in Lines THEN line_signature(l) ELSE d.sig[l]]
      /\ r.border_row = [y \in AllRows |-> IF y \in RowsDrawn(d) THEN NoBorder
                                           ELSE IF y \in Painted(d) THEN BorderShows ELSE d.border_row[y]]
      /\ r.heights = d.heights \cup {prog.lAA}
  BY RenderedFields
<1> HIDE DEF r
<1>2. prog.lAA \in HEIGHTS /\ prog.lAA \in 1 .. TALL_ROWS /\ TALL_ROWS \in Nat
  BY DisplayAssumption DEF DisplayShape
<1>3. Lines \subseteq AllLines
  BY <1>2 DEF Lines, AllLines
<1>4. ASSUME r.heights = {prog.lAA}, NEW l \in Lines, gime_display_y(l, prog.lAA) # -1
      PROVE  r.fb[gime_display_y(l, prog.lAA)] = LineShows(l)
  <2> DEFINE y == gime_display_y(l, prog.lAA)
  <2>1. y \in AllRows /\ y \notin SpareRows /\ LineAt(y) = l /\ y # -1
    BY <1>4, RowInRange, LineNotSpare, LineAtIs
  <2>2. CASE y \in RowsDrawn(d)
    BY <1>1, <2>1, <2>2
  <2>3. CASE y \notin RowsDrawn(d)
    <3>1. d.sig[l] = line_signature(l)
      <4>1. line_clean(d, l)
        BY <2>1, <2>3 DEF RowsDrawn
      <4> QED
        BY <4>1 DEF line_clean
    <3>2. d.sig[l] # NoSig /\ l \in AllLines
      BY <3>1, <1>3, SignatureShows
    <3>3. d.heights # {}
      BY <3>2 DEF KnownOf
    <3>4. d.heights = {prog.lAA}
      BY <3>3, <1>1, <1>4
    <3>5. d.fb[y] = ShowsBy(l, d.sig[l], user.monitor)
      BY <3>2, <3>4, <1>2, <2>1 DEF KnownOf, LinesKnown
    <3>6. d.fb[y] = LineShows(l)
      BY <3>5, <3>1, SignatureShows
    <3>7. y \notin Painted(d)
      BY <2>1 DEF Painted
    <3> HIDE DEF y
    <3>8. r.fb[y] = d.fb[y]
      BY <1>1, <2>1, <2>3, <3>7
    <3> QED
      BY <3>6, <3>8 DEF y
  <2> QED
    BY <2>2, <2>3
<1>5. ASSUME NEW y \in SpareRows
      PROVE  y \in AllRows /\ y \notin RowsDrawn(d)
  <2>1. vp_h \in Nat \ {0} /\ vp_h <= TALL_ROWS /\ TALL_ROWS \in Nat
    BY LayoutRows DEF DisplayShape
  <2>2. SpareRows \subseteq 0 .. vp_h - 1
    BY DEF SpareRows
  <2>3. RowsDrawn(d) \subseteq {gime_display_y(l, prog.lAA) : l \in Lines}
    BY DEF RowsDrawn
  <2>4. y \notin RowsDrawn(d)
    BY <2>3, LineNotSpare
  <2> QED
    BY <2>1, <2>2, <2>4 DEF AllRows
<1>6. BordersKnown(r.fb, r.border_row)
  <2>1. SUFFICES ASSUME NEW y \in AllRows, r.border_row[y] # NoBorder PROVE r.fb[y] = r.border_row[y]
    BY DEF BordersKnown
  <2>2. d.border_row[y] # NoBorder => d.fb[y] = d.border_row[y]
    BY DEF KnownOf, BordersKnown
  <2> QED
    BY <1>1, <2>1, <2>2
<1>7. ASSUME NEW y \in SpareRows
      PROVE  r.fb[y] = BorderShows
  <2>1. y \in AllRows /\ y \notin RowsDrawn(d)
    BY <1>5
  <2>2. CASE y \in Painted(d)
    BY <2>1, <2>2, <1>1
  <2>3. CASE y \notin Painted(d)
    <3>1. d.border_row[y] = BorderShows
      BY <2>3 DEF Painted
    <3>2. d.fb[y] = BorderShows
      BY <3>1, <2>1, BorderIs DEF KnownOf, BordersKnown
    <3> QED
      BY <3>2, <2>1, <2>3, <1>1
  <2> QED
    BY <2>2, <2>3
<1>8. LinesKnown(r.fb, r.sig, r.heights, user.monitor)
  <2>1. SUFFICES ASSUME NEW h \in HEIGHTS, r.heights = {h}, NEW l \in AllLines, r.sig[l] # NoSig
                 PROVE  l < h /\ (gime_display_y(l, h) # -1 =>
                                    r.fb[gime_display_y(l, h)] = ShowsBy(l, r.sig[l], user.monitor))
    BY Zenon DEF LinesKnown
  <2>2. h = prog.lAA /\ d.heights \subseteq {prog.lAA}
    BY <2>1, <1>1
  <2>3. CASE l \in Lines
    <3>1. r.sig[l] = line_signature(l)
      BY <1>1, <2>3
    <3>2. ShowsBy(l, r.sig[l], user.monitor) = LineShows(l)
      BY <3>1, SignatureShows
    <3>3. l < prog.lAA
      BY <2>3, <1>2 DEF Lines
    <3> QED
      BY <3>2, <3>3, <2>2, <2>3, <2>1, <1>4
  <2>4. CASE l \notin Lines
    <3>1. d.sig[l] # NoSig
      BY <1>1, <2>1, <2>4
    <3>2. d.heights # {}
      BY <3>1 DEF KnownOf
    <3>3. d.heights = {prog.lAA}
      BY <3>2, <2>2
    <3>4. l < prog.lAA
      BY <3>1, <3>3, <1>2 DEF KnownOf, LinesKnown
    <3> QED
      BY <3>4, <2>4, <1>2 DEF Lines, AllLines
  <2> QED
    BY <2>3, <2>4
<1>9. KnownOf(r, user.monitor)
  <2>1. r.heights # {}
    BY <1>1
  <2> QED
    BY <2>1, <1>6, <1>8 DEF KnownOf
<1>10. r.heights = {prog.lAA} =>
                 /\ \A l \in Lines : gime_display_y(l, prog.lAA) # -1 =>
                                       r.fb[gime_display_y(l, prog.lAA)] = LineShows(l)
                 /\ \A y \in SpareRows : r.fb[y] = BorderShows
  BY <1>4, <1>7
<1> QED
  BY <1>9, <1>10 DEF r

-----------------------------------------------------------------------------
(* Invalidation, layout and overlay.                                        *)

\* Framebuffer, signatures and borders are kept for every row and line.
IsTables(d) ==
  /\ d.fb = [y \in AllRows |-> d.fb[y]] /\ d.sig = [l \in AllLines |-> d.sig[l]]
  /\ d.border_row = [y \in AllRows |-> d.border_row[y]]

\* Nothing is remembered.
Forgotten(d) ==
  /\ d.fb = [y \in AllRows |-> d.fb[y]] /\ d.sig = [l \in AllLines |-> NoSig]
  /\ d.border_row = [y \in AllRows |-> NoBorder] /\ d.heights = {}

\* What is on display now.
LEMMA ShownFields ==
  /\ IsShown(Shown)
  /\ Shown.fb = fb /\ Shown.sig = sig /\ Shown.border_row = border_row /\ Shown.tall = tall
  /\ Shown.votes = votes /\ Shown.queue = queue /\ Shown.heights = past.heights
  BY DEF Shown, IsShown

\* Forgetting the lines and the borders.
LEMMA ForgetFields ==
  ASSUME NEW d, IsShown(d), d.fb = [y \in AllRows |-> d.fb[y]]
  PROVE  /\ LET r == border_rows_invalidate(tcc1014_invalidate_lines(d))
            IN IsShown(r) /\ Forgotten(r) /\ r.queue = d.queue /\ r.tall = d.tall /\ r.votes = d.votes /\ r.fb = d.fb
         /\ LET r == tcc1014_invalidate_lines(border_rows_invalidate(d))
            IN IsShown(r) /\ Forgotten(r) /\ r.queue = d.queue /\ r.tall = d.tall /\ r.votes = d.votes /\ r.fb = d.fb
<1> DEFINE s == [l \in AllLines |-> NoSig]
           b == [y \in AllRows |-> NoBorder]
           r == [[d EXCEPT !.sig = s, !.heights = {}] EXCEPT !.border_row = b]
           q == [[d EXCEPT !.border_row = b] EXCEPT !.sig = s, !.heights = {}]
<1>1. /\ border_rows_invalidate(tcc1014_invalidate_lines(d)) = r
      /\ tcc1014_invalidate_lines(border_rows_invalidate(d)) = q
  BY Zenon DEF border_rows_invalidate, tcc1014_invalidate_lines
<1>2. /\ DOMAIN r = DOMAIN d /\ r.fb = d.fb /\ r.sig = s /\ r.border_row = b /\ r.heights = {}
      /\ r.queue = d.queue /\ r.tall = d.tall /\ r.votes = d.votes
  <2> HIDE DEF s, b
  <2> QED
    BY DEF IsShown
<1>3. /\ DOMAIN q = DOMAIN d /\ q.fb = d.fb /\ q.sig = s /\ q.border_row = b /\ q.heights = {}
      /\ q.queue = d.queue /\ q.tall = d.tall /\ q.votes = d.votes
  <2> HIDE DEF s, b
  <2> QED
    BY DEF IsShown
<1> HIDE DEF r, q
<1>4. IsShown(r) /\ Forgotten(r)
  BY <1>2 DEF IsShown, Forgotten
<1>5. IsShown(q) /\ Forgotten(q)
  BY <1>3 DEF IsShown, Forgotten
<1> QED
  BY <1>1, <1>2, <1>3, <1>4, <1>5

\* The queue drawn.
LEMMA DrainedFields ==
  ASSUME NEW d, IsShown(d)
  PROVE  LET r == Drained(d)
         IN /\ IsShown(r) /\ r.fb = [y \in AllRows |-> r.fb[y]] /\ r.queue = {} /\ r.sig = d.sig
            /\ r.border_row = d.border_row /\ r.heights = d.heights /\ r.tall = d.tall /\ r.votes = d.votes
<1> DEFINE f == [y \in AllRows |-> IF y \in d.queue THEN <<"overlay">> ELSE d.fb[y]]
           r == Drained(d)
<1>1. r = [d EXCEPT !.fb = f, !.queue = {}]
  BY Zenon DEF Drained
<1> HIDE DEF f, r
<1>2. /\ DOMAIN r = DOMAIN d /\ r.fb = f /\ r.sig = d.sig /\ r.border_row = d.border_row /\ r.heights = d.heights
      /\ r.queue = {} /\ r.tall = d.tall /\ r.votes = d.votes
  BY <1>1 DEF IsShown
<1>3. r.fb = [y \in AllRows |-> r.fb[y]]
  BY <1>2 DEF f
<1> QED
  BY <1>2, <1>3 DEF IsShown, r

\* A forced repaint.
LEMMA RepaintFields ==
  ASSUME NEW d, IsShown(d)
  PROVE  LET r == hal_video_force_repaint(d)
         IN IsShown(r) /\ Forgotten(r) /\ r.queue = {} /\ r.tall = d.tall
<1> DEFINE e == Drained(d)
<1>1. /\ IsShown(e) /\ e.fb = [y \in AllRows |-> e.fb[y]] /\ e.queue = {} /\ e.tall = d.tall
  BY DrainedFields
<1>2. hal_video_force_repaint(d) = border_rows_invalidate(tcc1014_invalidate_lines(e))
  BY DEF hal_video_force_repaint
<1> HIDE DEF e
<1> QED
  BY <1>1, <1>2, ForgetFields

\* Another layout.
LEMMA SetTallFields ==
  ASSUME NEW d, IsShown(d), d.fb = [y \in AllRows |-> d.fb[y]], NEW t, t # d.tall
  PROVE  LET r == set_tall(d, t)
         IN IsShown(r) /\ Forgotten(r) /\ r.queue = d.queue /\ r.tall = t
<1> DEFINE e == border_rows_invalidate(tcc1014_invalidate_lines(d))
           f == [y \in AllRows |-> Black]
           r == set_tall(d, t)
<1>1. IsShown(e) /\ Forgotten(e) /\ e.queue = d.queue
  BY ForgetFields
<1>2. r = [e EXCEPT !.tall = t, !.votes = 0, !.fb = f]
  BY Zenon DEF set_tall
<1> HIDE DEF e, f, r
<1>3. /\ DOMAIN r = DOMAIN e /\ r.fb = f /\ r.sig = e.sig /\ r.border_row = e.border_row /\ r.heights = e.heights
      /\ r.queue = e.queue /\ r.tall = t
  BY <1>1, <1>2 DEF IsShown
<1>4. r.fb = [y \in AllRows |-> r.fb[y]]
  BY <1>3 DEF f
<1>5. IsShown(r) /\ Forgotten(r) /\ r.queue = d.queue /\ r.tall = t
  BY <1>1, <1>3, <1>4 DEF IsShown, Forgotten
<1> QED
  BY <1>5 DEF r

\* The vote at the end of a frame keeps the picture or starts afresh.
LEMMA VoteFields ==
  ASSUME NEW d, IsShown(d), IsTables(d), d.tall \in BOOLEAN
  PROVE  LET r == hal_video_gime_frame(d)
         IN /\ IsShown(r) /\ r.queue = d.queue /\ r.tall \in BOOLEAN
            /\ \/ Forgotten(r)
               \/ /\ r.fb = d.fb /\ r.sig = d.sig /\ r.border_row = d.border_row /\ r.heights = d.heights
                  /\ r.tall = d.tall
<1> DEFINE want == prog.lAA > STD_ROWS /\ prog.lAA <= TALL_ROWS /\ ~prog.wide
           e == [d EXCEPT !.votes = d.votes + 1]
           z == [d EXCEPT !.votes = 0]
<1>1. hal_video_gime_frame(d) \in {z, e, set_tall(e, want)} /\ (want = d.tall => hal_video_gime_frame(d) = z)
  BY Zenon DEF hal_video_gime_frame
<1>2. want \in BOOLEAN
  OBVIOUS
<1> HIDE DEF want
<1>3. /\ IsShown(e) /\ e.fb = d.fb /\ e.sig = d.sig /\ e.border_row = d.border_row /\ e.heights = d.heights
      /\ e.tall = d.tall /\ e.queue = d.queue
  BY DEF IsShown
<1>4. /\ IsShown(z) /\ z.fb = d.fb /\ z.sig = d.sig /\ z.border_row = d.border_row /\ z.heights = d.heights
      /\ z.tall = d.tall /\ z.queue = d.queue
  BY DEF IsShown
<1> HIDE DEF e, z
<1>5. CASE want = d.tall
  BY <1>1, <1>4, <1>5
<1>6. CASE want # d.tall
  <2>1. e.fb = [y \in AllRows |-> e.fb[y]]
    BY <1>3 DEF IsTables
  <2>2. LET r == set_tall(e, want) IN IsShown(r) /\ Forgotten(r) /\ r.queue = e.queue /\ r.tall = want
    BY <1>3, <1>6, <2>1, SetTallFields
  <2> QED
    BY <1>1, <1>2, <1>3, <1>4, <2>2
<1> QED
  BY <1>5, <1>6

\* The overlay is queued only where it is switched on.
LEMMA PresentedFields ==
  ASSUME NEW d, IsShown(d)
  PROVE  LET r == Presented(d)
         IN /\ IsShown(r) /\ r.fb = d.fb /\ r.sig = d.sig /\ r.border_row = d.border_row /\ r.heights = d.heights
            /\ r.tall = d.tall /\ (~user.fps => r.queue = d.queue)
<1>1. CASE user.fps
  <2>1. Presented(d) = [d EXCEPT !.queue = d.queue \cup {0}]
    BY <1>1 DEF Presented
  <2> QED
    BY <1>1, <2>1 DEF IsShown
<1>2. CASE ~user.fps
  BY <1>2 DEF Presented
<1> QED
  BY <1>1, <1>2

-----------------------------------------------------------------------------
\* The layout alone decides where a line goes.
LEMMA LayoutSame ==
  ASSUME tall' = tall
  PROVE  \A l, h : gime_display_y(l, h)' = gime_display_y(l, h)
  BY DEF gime_display_y, vp_h

\* The invariant after a step that ends with d on display.
LEMMA AfterStep ==
  ASSUME DisplayShape, NEW d, NEW framed, NEW events, Becomes(d, framed, events), IsShown(d), IsTables(d),
         d.tall \in BOOLEAN,
         DOMAIN prog' = {"lAA", "colour", "wide", "mem"}, prog'.lAA \in HEIGHTS,
         DOMAIN user' = {"monitor", "osd", "was_active", "fps", "armed"},
         d.heights = {} => \A l \in AllLines : d.sig[l] = NoSig,
         ~user'.was_active /\ ~user'.fps =>
           /\ d.queue = {}
           /\ \/ Forgotten(d)
              \/ d.tall = tall /\ KnownOf(d, user'.monitor),
         DisplayCurrent'
  PROVE  DisplayIInv'
<1>1. /\ fb' = d.fb /\ sig' = d.sig /\ border_row' = d.border_row /\ tall' = d.tall /\ queue' = d.queue
      /\ DOMAIN past' = {"events", "heights", "framed"} /\ past'.heights = d.heights
  BY DEF Becomes
<1>2. DisplayShape'
  <2>1. AllRows' = AllRows /\ AllLines' = AllLines
    BY DEF AllRows, AllLines
  <2> QED
    BY <1>1, <2>1 DEF DisplayShape, IsTables
<1>3. (past.heights = {} => \A l \in AllLines : sig[l] = NoSig)'
  BY <1>1
<1>4. ASSUME ~user'.was_active, ~user'.fps
      PROVE  (queue = {} /\ LinesKnown(fb, sig, past.heights, user.monitor) /\ BordersKnown(fb, border_row))'
  <2>1. queue' = {}
    BY <1>1, <1>4
  <2>2. CASE Forgotten(d)
    <3>1. (\A l \in AllLines : sig[l] = NoSig)'
      BY <1>1, <2>2 DEF Forgotten
    <3>2. (\A y \in AllRows : border_row[y] = NoBorder)'
      BY <1>1, <2>2 DEF Forgotten
    <3> QED
      BY <2>1, <3>1, <3>2 DEF LinesKnown, BordersKnown
  <2>3. CASE d.tall = tall /\ KnownOf(d, user'.monitor)
    <3>1. tall' = tall
      BY <1>1, <2>3
    <3>2. LinesKnown(d.fb, d.sig, d.heights, user'.monitor) /\ BordersKnown(d.fb, d.border_row)
      BY <2>3 DEF KnownOf
    <3>3. \A h \in HEIGHTS : d.heights = {h} =>
           \A l \in AllLines : d.sig[l] # NoSig =>
             l < h /\ (gime_display_y(l, h)' # -1 => d.fb[gime_display_y(l, h)'] = ShowsBy(l, d.sig[l], user'.monitor))
      BY <3>1, <3>2, LayoutSame DEF LinesKnown
    <3>4. LinesKnown(fb, sig, past.heights, user.monitor)'
      BY <3>3, <1>1 DEF LinesKnown, ShowsBy
    <3>5. BordersKnown(fb, border_row)'
      BY <3>2, <1>1 DEF BordersKnown
    <3> QED
      BY <2>1, <3>4, <3>5
  <2> QED
    BY <1>4, <2>2, <2>3
<1> QED
  BY <1>2, <1>3, <1>4 DEF DisplayIInv

-----------------------------------------------------------------------------
(* The display's steps.                                                     *)

\* What the invariant says of the record on display.
LEMMA ShownKnown ==
  ASSUME DisplayIInv
  PROVE  /\ IsShown(Shown) /\ IsTables(Shown) /\ Shown.tall \in BOOLEAN /\ Shown.tall = tall
         /\ Shown.fb = [y \in AllRows |-> Shown.fb[y]]
         /\ Shown.heights = {} => \A l \in AllLines : Shown.sig[l] = NoSig
         /\ ~user.was_active /\ ~user.fps => Shown.queue = {} /\ KnownOf(Shown, user.monitor)
<1>1. IsTables(Shown) /\ Shown.tall \in BOOLEAN /\ Shown.tall = tall
  BY ShownFields DEF DisplayIInv, DisplayShape, IsTables
<1>2. Shown.heights = {} => \A l \in AllLines : Shown.sig[l] = NoSig
  BY ShownFields DEF DisplayIInv
<1>3. ~user.was_active /\ ~user.fps => Shown.queue = {} /\ KnownOf(Shown, user.monitor)
  BY <1>2, ShownFields DEF DisplayIInv, KnownOf
<1> QED
  BY <1>1, <1>2, <1>3, ShownFields DEF IsTables

\* Nothing remembered, nothing wrong.
LEMMA ForgottenKnown ==
  ASSUME NEW d, Forgotten(d), NEW m
  PROVE  IsTables(d) /\ KnownOf(d, m) /\ \A l \in AllLines : d.sig[l] = NoSig
<1>1. \A l \in AllLines : d.sig[l] = NoSig
  BY DEF Forgotten
<1>2. \A y \in AllRows : d.border_row[y] = NoBorder
  BY DEF Forgotten
<1>3. IsTables(d)
  BY DEF Forgotten, IsTables
<1> QED
  BY <1>1, <1>2, <1>3 DEF KnownOf, LinesKnown, BordersKnown

\* The frame before the vote.
LEMMA FrameStart ==
  ASSUME DisplayIInv, ~user.fps
  PROVE  LET d == IF user.was_active THEN hal_video_force_repaint(Shown) ELSE Shown
         IN IsShown(d) /\ KnownOf(d, user.monitor) /\ d.queue = {} /\ d.tall = tall
<1>1. CASE user.was_active
  BY <1>1, ShownKnown, RepaintFields, ForgottenKnown
<1>2. CASE ~user.was_active
  BY <1>2, ShownKnown
<1> QED
  BY <1>1, <1>2

\* A rendered frame has its tables.
LEMMA RenderedTables ==
  ASSUME NEW d, IsShown(d)
  PROVE  IsTables(Rendered(d))
<1> DEFINE r == Rendered(d)
<1>1. /\ r.fb = [y \in AllRows |-> IF y \in RowsDrawn(d) THEN LineShows(LineAt(y))
                                   ELSE IF y \in Painted(d) THEN BorderShows ELSE d.fb[y]]
      /\ r.sig = [l \in AllLines |-> IF l \in Lines THEN line_signature(l) ELSE d.sig[l]]
      /\ r.border_row = [y \in AllRows |-> IF y \in RowsDrawn(d) THEN NoBorder
                                           ELSE IF y \in Painted(d) THEN BorderShows ELSE d.border_row[y]]
  BY RenderedFields
<1> HIDE DEF r
<1>2. r.fb = [y \in AllRows |-> r.fb[y]]
  BY <1>1, Zenon
<1>3. r.sig = [l \in AllLines |-> r.sig[l]]
  BY <1>1, Zenon
<1>4. r.border_row = [y \in AllRows |-> r.border_row[y]]
  BY <1>1, Zenon
<1> QED
  BY <1>2, <1>3, <1>4 DEF IsTables, r

\* A frame keeps the invariant.
LEMMA FrameKeeps ==
  ASSUME DisplayIInv, Frame
  PROVE  DisplayIInv'
<1> DEFINE d == IF user.was_active THEN hal_video_force_repaint(Shown) ELSE Shown
           r == Rendered(d)
           g == hal_video_gime_frame(r)
           p == Presented(g)
<1>1. /\ Becomes(p, TRUE, past.events) /\ user' = [user EXCEPT !.was_active = FALSE, !.armed = FALSE]
      /\ prog' = prog
  BY Zenon DEF Frame
<1>2. IsShown(d) /\ d.tall = tall /\ tall \in BOOLEAN
  BY ShownKnown, RepaintFields
<1>3. ~user.fps => KnownOf(d, user.monitor) /\ d.queue = {}
  BY FrameStart
<1>4. DisplayShape
  BY DEF DisplayIInv
<1>15. prog.lAA \in HEIGHTS /\ prog.lAA \in 1 .. TALL_ROWS
  BY <1>4, DisplayAssumption DEF DisplayShape
<1> HIDE DEF d
<1>5. /\ IsShown(r) /\ IsTables(r) /\ r.queue = d.queue /\ r.tall = tall /\ r.heights # {}
  <2>1. IsShown(r) /\ r.queue = d.queue /\ r.tall = tall /\ r.heights = d.heights \cup {prog.lAA}
    BY <1>2, RenderedFields
  <2>2. IsTables(r)
    BY <1>2, RenderedTables
  <2> QED
    BY <2>1, <2>2
<1>6. ~user.fps =>
        /\ KnownOf(r, user.monitor)
        /\ r.heights = {prog.lAA} =>
                 /\ \A l \in Lines : gime_display_y(l, prog.lAA) # -1 =>
                                       r.fb[gime_display_y(l, prog.lAA)] = LineShows(l)
                 /\ \A y \in SpareRows : r.fb[y] = BorderShows
  BY <1>2, <1>3, <1>4, RenderedKnown
<1> HIDE DEF r
<1>7. /\ IsShown(g) /\ g.queue = r.queue /\ g.tall \in BOOLEAN
      /\ \/ Forgotten(g)
         \/ /\ g.fb = r.fb /\ g.sig = r.sig /\ g.border_row = r.border_row /\ g.heights = r.heights
            /\ g.tall = r.tall
  BY <1>2, <1>5, VoteFields
<1> HIDE DEF g
<1>8. /\ IsShown(p) /\ p.fb = g.fb /\ p.sig = g.sig /\ p.border_row = g.border_row /\ p.heights = g.heights
      /\ p.tall = g.tall /\ (~user.fps => p.queue = g.queue)
  BY <1>7, PresentedFields
<1> HIDE DEF p
<1>9. /\ DOMAIN user' = {"monitor", "osd", "was_active", "fps", "armed"}
      /\ user'.fps = user.fps /\ user'.monitor = user.monitor /\ user'.was_active = FALSE
  BY <1>1, <1>4 DEF DisplayShape
<1>12. Becomes(p, TRUE, past.events)
  BY <1>1
<1>13. DOMAIN prog' = {"lAA", "colour", "wide", "mem"} /\ prog'.lAA \in HEIGHTS
  BY <1>1, <1>4 DEF DisplayShape
<1>14. p.tall \in BOOLEAN
  BY <1>7, <1>8
<1>10. CASE Forgotten(g)
  <2>1. Forgotten(p)
    BY <1>8, <1>10 DEF Forgotten
  <2>2. past'.heights = {}
    BY <1>1, <2>1 DEF Becomes, Forgotten
  <2>3. DisplayCurrent'
    BY <2>2 DEF DisplayCurrent
  <2>4. IsTables(p) /\ \A l \in AllLines : p.sig[l] = NoSig
    BY <2>1, ForgottenKnown
  <2>5. ~user.fps => p.queue = {}
    BY <1>3, <1>5, <1>7, <1>8
  <2> QED
    BY <1>4, <1>8, <1>9, <1>12, <1>13, <1>14, <2>1, <2>3, <2>4, <2>5, AfterStep
<1>11. CASE /\ g.fb = r.fb /\ g.sig = r.sig /\ g.border_row = r.border_row /\ g.heights = r.heights
            /\ g.tall = r.tall
  <2>1. IsTables(p) /\ p.tall = tall /\ p.heights # {}
    BY <1>5, <1>8, <1>11 DEF IsTables
  <2>2. ~user.fps => p.queue = {} /\ KnownOf(p, user.monitor)
    BY <1>3, <1>5, <1>6, <1>7, <1>8, <1>11 DEF KnownOf
  <2>3. tall' = tall /\ fb' = r.fb /\ queue' = p.queue /\ past'.heights = r.heights
    BY <1>1, <1>8, <1>11, <2>1 DEF Becomes
  <2>4. DisplayCurrent'
    <3>1. SUFFICES ASSUME ~user'.fps, past'.heights = {prog'.lAA} PROVE PictureCurrent'
      BY DEF DisplayCurrent
    <3>2. /\ \A l \in Lines : gime_display_y(l, prog.lAA) # -1 =>
                                       r.fb[gime_display_y(l, prog.lAA)] = LineShows(l)
          /\ \A y \in SpareRows : r.fb[y] = BorderShows
      BY <3>1, <1>1, <1>6, <1>9, <2>3
    <3>3. queue' = {}
      BY <3>1, <1>9, <2>2, <2>3
    <3>4. /\ Lines' = Lines /\ SpareRows' = SpareRows /\ vp_h' = vp_h /\ BorderShows' = BorderShows
          /\ \A l : gime_display_y(l, prog.lAA)' = gime_display_y(l, prog.lAA) /\ LineShows(l)' = LineShows(l)
      <4>1. Lines' = Lines /\ vp_h' = vp_h
        BY <1>1, <2>3 DEF Lines, vp_h
      <4>2. SpareRows' = SpareRows
        BY <1>1, <4>1 DEF SpareRows
      <4>3. BorderShows' = BorderShows /\ \A l : LineShows(l)' = LineShows(l)
        BY <1>1, <1>9 DEF BorderShows, LineShows
      <4>4. \A l : gime_display_y(l, prog.lAA)' = gime_display_y(l, prog.lAA)
        BY <1>1, <4>1 DEF gime_display_y
      <4> QED
        BY <4>1, <4>2, <4>3, <4>4
    <3>5. ASSUME NEW y \in 0 .. vp_h - 1
          PROVE  IF y \in SpareRows THEN r.fb[y] = BorderShows
                 ELSE \E l \in Lines : gime_display_y(l, prog.lAA) = y /\ r.fb[y] = LineShows(l)
      <4>1. CASE y \in SpareRows
        BY <4>1, <3>2
      <4>2. CASE y \notin SpareRows
        <5>1. PICK l \in Lines : gime_display_y(l, prog.lAA) = y
          BY <1>4, <4>2, RowsOfLines
        <5>2. y # -1
          OBVIOUS
        <5>3. r.fb[y] = LineShows(l)
          BY <3>2, <5>1, <5>2
        <5> QED
          BY <4>2, <5>1, <5>3
      <4> QED
        BY <4>1, <4>2
    <3> QED
      BY <3>3, <3>4, <3>5, <2>3 DEF PictureCurrent
  <2> QED
    BY <1>4, <1>8, <1>9, <1>12, <1>13, <1>14, <2>1, <2>2, <2>4, AfterStep
<1> QED
  BY <1>7, <1>10, <1>11

\* What is on display did not change, nor the layout; program or user did.
LEMMA NothingDrawn ==
  ASSUME DisplayIInv, NEW events, Becomes(Shown, FALSE, events),
         DOMAIN prog' = {"lAA", "colour", "wide", "mem"}, prog'.lAA \in HEIGHTS,
         DOMAIN user' = {"monitor", "osd", "was_active", "fps", "armed"},
         user'.was_active = user.was_active, user'.fps = user.fps, user'.monitor = user.monitor
  PROVE  DisplayIInv'
<1>1. DisplayCurrent'
  BY DEF Becomes, DisplayCurrent
<1>2. DisplayShape
  BY DEF DisplayIInv
<1> QED
  BY <1>1, <1>2, ShownKnown, AfterStep

\* All is forgotten and nothing is in the queue, or will be drawn from it.
LEMMA AllForgotten ==
  ASSUME DisplayIInv, NEW d, NEW events, Becomes(d, FALSE, events), IsShown(d), Forgotten(d), d.tall \in BOOLEAN,
         DOMAIN prog' = {"lAA", "colour", "wide", "mem"}, prog'.lAA \in HEIGHTS,
         DOMAIN user' = {"monitor", "osd", "was_active", "fps", "armed"},
         ~user'.was_active /\ ~user'.fps => d.queue = {}
  PROVE  DisplayIInv'
<1>1. DisplayCurrent'
  BY DEF Becomes, DisplayCurrent
<1>2. DisplayShape
  BY DEF DisplayIInv
<1>3. IsTables(d) /\ \A l \in AllLines : d.sig[l] = NoSig
  BY ForgottenKnown
<1> QED
  BY <1>1, <1>2, <1>3, AfterStep

\* The OSD's own drawing.
LEMMA OsdFrameKeeps ==
  ASSUME DisplayIInv, OsdFrame
  PROVE  DisplayIInv'
<1> DEFINE e == set_tall(Shown, FALSE)
           d == [e EXCEPT !.queue = e.queue \cup {1, 2}]
<1>1. Becomes(d, FALSE, past.events) /\ user' = [user EXCEPT !.was_active = TRUE] /\ prog' = prog
  BY DEF OsdFrame
<1>2. IsShown(e) /\ IsTables(e) /\ e.tall \in BOOLEAN /\ (e.heights = {} => \A l \in AllLines : e.sig[l] = NoSig)
  <2>1. CASE Shown.tall = FALSE
    <3>1. e = Shown
      BY <2>1, Zenon DEF set_tall
    <3> QED
      BY <3>1, ShownKnown
  <2>2. CASE Shown.tall # FALSE
    <3>1. IsShown(e) /\ Forgotten(e) /\ e.tall = FALSE
      BY <2>2, ShownKnown, SetTallFields
    <3> HIDE DEF e
    <3> QED
      BY <3>1, ForgottenKnown
  <2> QED
    BY <2>1, <2>2
<1> HIDE DEF e
<1>3. IsShown(d) /\ IsTables(d) /\ d.tall \in BOOLEAN /\ (d.heights = {} => \A l \in AllLines : d.sig[l] = NoSig)
  BY <1>2 DEF IsShown, IsTables
<1> HIDE DEF d
<1>4. DisplayShape
  BY DEF DisplayIInv
<1>5. /\ DOMAIN user' = {"monitor", "osd", "was_active", "fps", "armed"} /\ user'.was_active
      /\ DOMAIN prog' = {"lAA", "colour", "wide", "mem"} /\ prog'.lAA \in HEIGHTS
  BY <1>1, <1>4 DEF DisplayShape
<1>6. DisplayCurrent'
  BY <1>1 DEF Becomes, DisplayCurrent
<1> QED
  BY <1>1, <1>3, <1>4, <1>5, <1>6, AfterStep

\* The background task.
LEMMA DrainKeeps ==
  ASSUME DisplayIInv, Drain
  PROVE  DisplayIInv'
<1> DEFINE d == Drained(Shown)
<1>1. queue # {} /\ Becomes(d, FALSE, past.events) /\ user' = user /\ prog' = prog
  BY DEF Drain
<1>2. /\ IsShown(d) /\ d.fb = [y \in AllRows |-> d.fb[y]] /\ d.queue = {} /\ d.sig = Shown.sig
      /\ d.border_row = Shown.border_row /\ d.heights = Shown.heights /\ d.tall = Shown.tall
  BY ShownKnown, DrainedFields
<1> HIDE DEF d
<1>3. IsTables(d) /\ d.tall \in BOOLEAN /\ (d.heights = {} => \A l \in AllLines : d.sig[l] = NoSig)
  BY <1>2, ShownKnown DEF IsTables
<1>4. DisplayShape
  BY DEF DisplayIInv
<1>5. user.was_active \/ user.fps
  BY <1>1 DEF DisplayIInv
<1>6. DisplayCurrent'
  BY <1>1 DEF Becomes, DisplayCurrent
<1>7. /\ DOMAIN user' = {"monitor", "osd", "was_active", "fps", "armed"} /\ (user'.was_active \/ user'.fps)
      /\ DOMAIN prog' = {"lAA", "colour", "wide", "mem"} /\ prog'.lAA \in HEIGHTS
  BY <1>1, <1>4, <1>5 DEF DisplayShape
<1> QED
  BY <1>1, <1>2, <1>3, <1>4, <1>6, <1>7, AfterStep

\* Program and user.
LEMMA UserKeeps ==
  ASSUME DisplayIInv, SetLines \/ SetBorder \/ SetWidth \/ WriteVram \/ OpenOsd \/ CloseOsd \/ ChangeMonitor
                      \/ ToggleFps \/ Capture
  PROVE  DisplayIInv'
<1>1. /\ DOMAIN prog = {"lAA", "colour", "wide", "mem"} /\ prog.lAA \in HEIGHTS
      /\ DOMAIN user = {"monitor", "osd", "was_active", "fps", "armed"}
  BY DEF DisplayIInv, DisplayShape
<1>2. CASE SetLines \/ SetBorder \/ SetWidth \/ WriteVram
  <2>1. /\ Becomes(Shown, FALSE, past.events + 1) /\ user' = user
        /\ DOMAIN prog' = {"lAA", "colour", "wide", "mem"} /\ prog'.lAA \in HEIGHTS
    BY <1>1, <1>2 DEF SetLines, SetBorder, SetWidth, WriteVram, Program
  <2> QED
    BY <2>1, <1>1, NothingDrawn
<1>3. CASE OpenOsd \/ Capture
  <2>1. /\ Becomes(Shown, FALSE, past.events + 1) /\ prog' = prog
        /\ DOMAIN user' = {"monitor", "osd", "was_active", "fps", "armed"} /\ user'.was_active = user.was_active
        /\ user'.fps = user.fps /\ user'.monitor = user.monitor
    BY <1>1, <1>3 DEF OpenOsd, Capture
  <2> QED
    BY <2>1, <1>1, NothingDrawn
<1>4. CASE CloseOsd
  <2>1. /\ prog' = prog
        /\ DOMAIN user' = {"monitor", "osd", "was_active", "fps", "armed"} /\ user'.was_active = user.was_active
        /\ user'.fps = user.fps /\ user'.monitor = user.monitor
    BY <1>1, <1>4 DEF CloseOsd
  <2>2. Becomes(Shown, FALSE, past.events) \/ Becomes(hal_video_force_repaint(Shown), FALSE, past.events)
    BY <1>4 DEF CloseOsd
  <2>3. CASE Becomes(Shown, FALSE, past.events)
    BY <2>1, <2>3, <1>1, NothingDrawn
  <2>4. CASE Becomes(hal_video_force_repaint(Shown), FALSE, past.events)
    <3> DEFINE d == hal_video_force_repaint(Shown)
    <3>1. IsShown(d) /\ Forgotten(d) /\ d.queue = {} /\ d.tall \in BOOLEAN
      BY ShownKnown, RepaintFields
    <3>2. Becomes(d, FALSE, past.events)
      BY <2>4
    <3> HIDE DEF d
    <3> QED
      BY <2>1, <3>1, <3>2, <1>1, AllForgotten
  <2> QED
    BY <2>2, <2>3, <2>4
<1>5. CASE ChangeMonitor
  <2> DEFINE d == tcc1014_invalidate_lines(border_rows_invalidate(Shown))
  <2>1. /\ prog' = prog /\ Becomes(d, FALSE, past.events + 1)
        /\ DOMAIN user' = {"monitor", "osd", "was_active", "fps", "armed"} /\ user'.was_active = user.was_active
        /\ user'.fps = user.fps
    BY <1>1, <1>5 DEF ChangeMonitor
  <2>2. IsShown(d) /\ Forgotten(d) /\ d.queue = Shown.queue /\ d.tall \in BOOLEAN
    BY ShownKnown, ForgetFields
  <2>3. ~user.was_active /\ ~user.fps => Shown.queue = {}
    BY ShownKnown
  <2> HIDE DEF d
  <2> QED
    BY <2>1, <2>2, <2>3, <1>1, AllForgotten
<1>6. CASE ToggleFps
  <2> DEFINE e == [Shown EXCEPT !.queue = IF user.fps THEN @ \cup {0} ELSE @]
             d == hal_video_force_repaint(e)
  <2>1. /\ prog' = prog /\ Becomes(d, FALSE, past.events + 1)
        /\ DOMAIN user' = {"monitor", "osd", "was_active", "fps", "armed"}
    BY <1>1, <1>6 DEF ToggleFps
  <2>2. IsShown(e) /\ e.tall = Shown.tall
    BY ShownKnown DEF IsShown
  <2> HIDE DEF e
  <2>3. IsShown(d) /\ Forgotten(d) /\ d.queue = {} /\ d.tall \in BOOLEAN
    BY <2>2, ShownKnown, RepaintFields
  <2> HIDE DEF d
  <2> QED
    BY <2>1, <2>3, <1>1, AllForgotten
<1> QED
  BY <1>2, <1>3, <1>4, <1>5, <1>6

\* At power on nothing is drawn and nothing is remembered.
LEMMA DisplayStarts == DisplayInit => DisplayIInv
<1> SUFFICES ASSUME DisplayInit PROVE DisplayIInv
  OBVIOUS
<1>3. /\ fb = [y \in AllRows |-> fb[y]] /\ sig = [l \in AllLines |-> sig[l]]
      /\ border_row = [y \in AllRows |-> border_row[y]] /\ tall \in BOOLEAN
  BY DEF DisplayInit
<1>4. /\ DOMAIN user = {"monitor", "osd", "was_active", "fps", "armed"}
      /\ DOMAIN past = {"events", "heights", "framed"}
  BY DEF DisplayInit
<1>5. DOMAIN prog = {"lAA", "colour", "wide", "mem"} /\ prog.lAA \in HEIGHTS
  <2>1. PICK h \in HEIGHTS : prog = [lAA |-> h, colour |-> 0, wide |-> TRUE, mem |-> [i \in {0, 1} |-> 0]]
    BY DEF DisplayInit
  <2> QED
    BY <2>1
<1>1. DisplayShape
  BY <1>3, <1>4, <1>5 DEF DisplayShape
<1>2. /\ \A l \in AllLines : sig[l] = NoSig
      /\ \A y \in AllRows : border_row[y] = NoBorder
      /\ queue = {} /\ past.framed = FALSE
  BY DEF DisplayInit
<1> QED
  BY <1>1, <1>2 DEF DisplayIInv, LinesKnown, BordersKnown, DisplayCurrent

\* Every step keeps the invariant.
LEMMA DisplayKeeps == DisplayIInv /\ [DisplayNext]_dvars => DisplayIInv'
<1> SUFFICES ASSUME DisplayIInv, [DisplayNext]_dvars PROVE DisplayIInv'
  OBVIOUS
<1>1. CASE Frame
  BY <1>1, FrameKeeps
<1>2. CASE OsdFrame
  BY <1>2, OsdFrameKeeps
<1>3. CASE Drain
  BY <1>3, DrainKeeps
<1>4. CASE SetLines \/ SetBorder \/ SetWidth \/ WriteVram \/ OpenOsd \/ CloseOsd \/ ChangeMonitor
                      \/ ToggleFps \/ Capture
  BY <1>4, UserKeeps
<1>5. CASE UNCHANGED dvars
  <2>1. /\ prog' = prog /\ user' = user /\ fb' = fb /\ sig' = sig /\ border_row' = border_row /\ tall' = tall
        /\ votes' = votes /\ queue' = queue /\ past' = past
    BY <1>5 DEF dvars
  <2>2. /\ AllRows' = AllRows /\ AllLines' = AllLines /\ Lines' = Lines /\ vp_h' = vp_h /\ SpareRows' = SpareRows
        /\ BorderShows' = BorderShows /\ \A l : LineShows(l)' = LineShows(l)
    BY <2>1 DEF AllRows, AllLines, Lines, vp_h, SpareRows, BorderShows, LineShows
  <2>3. \A l, h : gime_display_y(l, h)' = gime_display_y(l, h)
    BY <2>1, LayoutSame
  <2>4. DisplayShape'
    BY <2>1, <2>2 DEF DisplayIInv, DisplayShape
  <2>5. (past.heights = {} => \A l \in AllLines : sig[l] = NoSig)'
    BY <2>1, <2>2 DEF DisplayIInv
  <2>6. LinesKnown(fb, sig, past.heights, user.monitor) => LinesKnown(fb, sig, past.heights, user.monitor)'
    BY <2>1, <2>3 DEF LinesKnown, ShowsBy
  <2>7. BordersKnown(fb, border_row) => BordersKnown(fb, border_row)'
    BY <2>1 DEF BordersKnown
  <2>8. PictureCurrent => PictureCurrent'
    BY <2>1, <2>2, <2>3 DEF PictureCurrent
  <2>9. DisplayCurrent'
    BY <2>1, <2>8 DEF DisplayIInv, DisplayCurrent
  <2> QED
    BY <2>1, <2>4, <2>5, <2>6, <2>7, <2>9 DEF DisplayIInv
<1> QED
  BY <1>1, <1>2, <1>3, <1>4, <1>5 DEF DisplayNext

\* After a frame every row shows the line or the border that belongs there.
THEOREM PictureCorrect == DisplaySpec => []DisplayCurrent
<1>1. DisplayInit => DisplayIInv
  BY DisplayStarts
<1>2. DisplayIInv /\ [DisplayNext]_dvars => DisplayIInv'
  BY DisplayKeeps
<1>3. DisplayIInv => DisplayCurrent
  BY DEF DisplayIInv
<1> QED
  BY <1>1, <1>2, <1>3, PTL DEF DisplaySpec

-----------------------------------------------------------------------------
(* The paced queue of matrix changes.                                       *)

Change == [cell : Cells, press : BOOLEAN, shift : BOOLEAN]

\* The place a change had before change i was taken out.
Before(i, n) == IF n < i THEN n ELSE n + 1

\* A sequence without its element i.
LEMMA RemoveAtIs ==
  ASSUME NEW S, NEW q \in Seq(S), NEW i \in 1 .. Len(q)
  PROVE  /\ RemoveAt(q, i) \in Seq(S) /\ Len(RemoveAt(q, i)) = Len(q) - 1
         /\ \A n \in 1 .. Len(q) - 1 : RemoveAt(q, i)[n] = q[Before(i, n)]
<1> DEFINE a == SubSeq(q, 1, i - 1)
           b == SubSeq(q, i + 1, Len(q))
<1>1. Len(q) \in Nat /\ i \in Nat
  OBVIOUS
<1>2. a \in Seq(S) /\ Len(a) = i - 1 /\ \A n \in 1 .. i - 1 : a[n] = q[n]
  OBVIOUS
<1>3. b \in Seq(S) /\ Len(b) = Len(q) - i /\ \A n \in 1 .. Len(q) - i : b[n] = q[i + n]
  OBVIOUS
<1>4. RemoveAt(q, i) = a \o b
  BY DEF RemoveAt
<1> HIDE DEF a, b
<1>5. /\ a \o b \in Seq(S) /\ Len(a \o b) = Len(a) + Len(b)
      /\ \A n \in 1 .. Len(a) + Len(b) : (a \o b)[n] = IF n <= Len(a) THEN a[n] ELSE b[n - Len(a)]
  <2>1. a \in Seq(S) /\ b \in Seq(S)
    BY <1>2, <1>3
  <2>2. a \o b \in Seq(S) /\ Len(a \o b) = Len(a) + Len(b)
    BY <2>1
  <2>3. \A n \in 1 .. Len(a) + Len(b) : (a \o b)[n] = IF n <= Len(a) THEN a[n] ELSE b[n - Len(a)]
    BY <2>1
  <2> QED
    BY <2>2, <2>3
<1>6. Len(a \o b) = Len(q) - 1
  BY <1>1, <1>2, <1>3, <1>5
<1>7. ASSUME NEW n \in 1 .. Len(q) - 1 PROVE (a \o b)[n] = q[Before(i, n)]
  <2>1. n \in 1 .. Len(a) + Len(b)
    BY <1>1, <1>2, <1>3
  <2>2. CASE n < i
    <3>1. n <= Len(a) /\ n \in 1 .. i - 1
      BY <2>2, <1>1, <1>2
    <3> QED
      BY <2>1, <2>2, <3>1, <1>2, <1>5 DEF Before
  <2>3. CASE n >= i
    <3>1. ~(n <= Len(a)) /\ n - Len(a) \in 1 .. Len(q) - i /\ i + (n - Len(a)) = n + 1 /\ ~(n < i)
      BY <2>3, <1>1, <1>2
    <3> QED
      BY <2>1, <3>1, <1>3, <1>5 DEF Before
  <2>4. n < i \/ n >= i
    BY <1>1
  <2> QED
    BY <2>2, <2>3, <2>4
<1> QED
  BY <1>4, <1>5, <1>6, <1>7

\* Places after the removal are places before it, in the same order, all but i.
LEMMA Places ==
  ASSUME NEW L \in Nat, NEW i \in 1 .. L
  PROVE  /\ \A n \in 1 .. L - 1 : Before(i, n) \in 1 .. L /\ Before(i, n) # i /\ n \in Nat
         /\ \A m \in 1 .. L : m # i => \E n \in 1 .. L - 1 : Before(i, n) = m
         /\ \A n, m \in 1 .. L - 1 : (n < m <=> Before(i, n) < Before(i, m)) /\ (n <= m <=> Before(i, n) <= Before(i, m))
<1>1. ASSUME NEW m \in 1 .. L, m # i PROVE \E n \in 1 .. L - 1 : Before(i, n) = m
  <2>1. CASE m < i
    <3>1. m \in 1 .. L - 1 /\ Before(i, m) = m
      BY <2>1 DEF Before
    <3> QED
      BY <3>1
  <2>2. CASE m > i
    <3>1. m - 1 \in 1 .. L - 1 /\ Before(i, m - 1) = m
      BY <2>2 DEF Before
    <3> QED
      BY <3>1
  <2> QED
    BY <1>1, <2>1, <2>2
<1>2. \A n \in 1 .. L - 1 : Before(i, n) \in 1 .. L /\ Before(i, n) # i /\ n \in Nat
  BY DEF Before
<1>3. \A n, m \in 1 .. L - 1 : (n < m <=> Before(i, n) < Before(i, m)) /\ (n <= m <=> Before(i, n) <= Before(i, m))
  BY DEF Before
<1> QED
  BY <1>1, <1>2, <1>3

\* A well-formed keyboard.
IsKb(k) ==
  /\ DOMAIN k = {"matrix", "target", "keyq", "age", "wrong"}
  /\ k.keyq \in Seq(Change)

\* A change applied.
LEMMA AppliedFields ==
  ASSUME NEW k, IsKb(k), NEW i \in 1 .. Len(k.keyq)
  PROVE  LET r == Applied(k, i)
         IN /\ IsKb(r) /\ r.target = k.target
            /\ r.matrix = IF k.keyq[i].press THEN k.matrix \cup {k.keyq[i].cell} ELSE k.matrix \ {k.keyq[i].cell}
            /\ r.wrong = (k.wrong \/ ~Arrives(k, i))
            /\ Len(r.keyq) = Len(k.keyq) - 1
            /\ \A n \in 1 .. Len(k.keyq) - 1 : r.keyq[n] = k.keyq[Before(i, n)]
<1> DEFINE m == IF k.keyq[i].press THEN k.matrix \cup {k.keyq[i].cell} ELSE k.matrix \ {k.keyq[i].cell}
           w == (k.wrong \/ ~Arrives(k, i))
           s == set_key(k, i)
           r == Applied(k, i)
<1>1. s = [k EXCEPT !.matrix = m, !.age[k.keyq[i].cell] = 0, !.wrong = w]
  BY Zenon DEF set_key
<1>2. r = [s EXCEPT !.keyq = RemoveAt(s.keyq, i)]
  BY Zenon DEF Applied, keyq_remove
<1> HIDE DEF m, w, s, r
<1>3. DOMAIN s = DOMAIN k /\ s.matrix = m /\ s.target = k.target /\ s.keyq = k.keyq /\ s.wrong = w
  BY <1>1 DEF IsKb
<1>4. DOMAIN r = DOMAIN k /\ r.matrix = m /\ r.target = k.target /\ r.keyq = RemoveAt(k.keyq, i) /\ r.wrong = w
  BY <1>2, <1>3 DEF IsKb
<1>5. /\ RemoveAt(k.keyq, i) \in Seq(Change) /\ Len(RemoveAt(k.keyq, i)) = Len(k.keyq) - 1
      /\ \A n \in 1 .. Len(k.keyq) - 1 : RemoveAt(k.keyq, i)[n] = k.keyq[Before(i, n)]
  BY RemoveAtIs DEF IsKb
<1>6. IsKb(r)
  BY <1>4, <1>5 DEF IsKb
<1> QED
  BY <1>4, <1>5, <1>6 DEF r, m, w

\* What change i leaves in the matrix.
LEMMA AppliedMatrix ==
  ASSUME NEW k, IsKb(k), NEW i \in 1 .. Len(k.keyq), NEW c
  PROVE  c \in Applied(k, i).matrix <=> IF c = k.keyq[i].cell THEN k.keyq[i].press ELSE c \in k.matrix
<1> DEFINE o == k.keyq[i]
<1>1. Applied(k, i).matrix = IF o.press THEN k.matrix \cup {o.cell} ELSE k.matrix \ {o.cell}
  BY AppliedFields
<1> HIDE DEF o
<1>2. CASE o.press
  BY <1>1, <1>2 DEF o
<1>3. CASE ~o.press
  BY <1>1, <1>3 DEF o
<1> QED
  BY <1>2, <1>3

\* The first change of a cell that overtakes only releases, SHIFT's not among them, comes as it was typed.
LEMMA AppliedKeeps ==
  ASSUME NEW k, IsKb(k), QueueTypes(k), ShiftsKept(k), NEW i \in 1 .. Len(k.keyq),
         \A j \in 1 .. i - 1 : k.keyq[j].cell # k.keyq[i].cell /\ ~KeepsOrder(k.keyq[j])
  PROVE  Arrives(k, i) /\ QueueTypes(Applied(k, i)) /\ ShiftsKept(Applied(k, i))
<1> DEFINE r == Applied(k, i)
           q == k.keyq
           p == r.keyq
           L == Len(q)
           b(n) == Before(i, n)
<1>1. L \in Nat /\ i \in 1 .. L
  BY DEF IsKb
<1>2. /\ \A n \in 1 .. L - 1 : b(n) \in 1 .. L /\ b(n) # i /\ n \in Nat
      /\ \A m \in 1 .. L : m # i => \E n \in 1 .. L - 1 : b(n) = m
      /\ \A n, m \in 1 .. L - 1 : (n < m <=> b(n) < b(m)) /\ (n <= m <=> b(n) <= b(m))
  <2> HIDE DEF L
  <2> QED
    BY <1>1, Places
<1>3. Len(p) = L - 1 /\ r.target = k.target /\ \A n \in 1 .. L - 1 : p[n] = q[b(n)]
  BY AppliedFields
<1>4. \A c : c \in r.matrix <=> IF c = q[i].cell THEN q[i].press ELSE c \in k.matrix
  BY AppliedMatrix
<1>5. \A j \in 1 .. i - 1 : q[j].cell # q[i].cell /\ q[j].cell # SHIFT /\ ~q[j].press
  BY DEF KeepsOrder
<1>6. Arrives(k, i)
  <2>1. SUFFICES ASSUME Types(q[i]) PROVE q[i].shift <=> SHIFT \in k.matrix
    BY <1>5, Zenon DEF Arrives, Types
  <2>2. ShiftBefore(k, i) = {}
    BY <1>5 DEF ShiftBefore
  <2> QED
    BY <2>1, <2>2, <1>1 DEF ShiftsKept
<1>20. /\ \A n \in 1 .. L :
            /\ Earlier(k, n) = {} => (q[n].press <=> q[n].cell \notin k.matrix)
            /\ \A j \in Earlier(k, n) : (\A m \in Earlier(k, n) : m <= j) => (q[n].press <=> ~q[j].press)
            /\ Later(k, n) = {} => (q[n].press <=> q[n].cell \in k.target)
       /\ \A c \in Cells : (\A n \in 1 .. L : q[n].cell # c) => (c \in k.target <=> c \in k.matrix)
  BY DEF QueueTypes
<1>21. \A n \in 1 .. L :
    Types(q[n]) =>
      /\ ShiftBefore(k, n) = {} => (q[n].shift <=> SHIFT \in k.matrix)
      /\ \A j \in ShiftBefore(k, n) : (\A m \in ShiftBefore(k, n) : m <= j) => (q[n].shift <=> q[j].press)
  BY DEF ShiftsKept
<1>22. /\ \A n : Earlier(k, n) = {j \in 1 .. n - 1 : q[j].cell = q[n].cell}
       /\ \A n : Later(k, n) = {j \in n + 1 .. L : q[j].cell = q[n].cell}
       /\ \A n : ShiftBefore(k, n) = {j \in 1 .. n - 1 : q[j].cell = SHIFT}
       /\ \A n : Earlier(r, n) = {j \in 1 .. n - 1 : p[j].cell = p[n].cell}
       /\ \A n : Later(r, n) = {j \in n + 1 .. L - 1 : p[j].cell = p[n].cell}
       /\ \A n : ShiftBefore(r, n) = {j \in 1 .. n - 1 : p[j].cell = SHIFT}
  BY <1>3 DEF Earlier, Later, ShiftBefore
<1> HIDE DEF r, q, p, L, b
\* Earlier and later changes before and after.
<1>7. ASSUME NEW n \in 1 .. L - 1
      PROVE  /\ \A j : j \in Earlier(r, n) => j \in 1 .. L - 1 /\ b(j) \in Earlier(k, b(n))
             /\ \A m \in Earlier(k, b(n)) : m # i => \E j \in Earlier(r, n) : b(j) = m
             /\ \A m \in Later(k, b(n)) : m # i => \E j \in Later(r, n) : b(j) = m
             /\ \A j : j \in ShiftBefore(r, n) => j \in 1 .. L - 1 /\ b(j) \in ShiftBefore(k, b(n))
             /\ \A m \in ShiftBefore(k, b(n)) : m # i => \E j \in ShiftBefore(r, n) : b(j) = m
  <2>0. n \in Nat /\ b(n) \in 1 .. L /\ b(n) \in Nat
    BY <1>1, <1>2
  <2>1. ASSUME NEW j \in 1 .. n - 1
        PROVE  j \in 1 .. L - 1 /\ b(j) \in 1 .. b(n) - 1 /\ p[j] = q[b(j)]
    <3>1. j \in 1 .. L - 1 /\ j < n
      BY <1>1
    <3>2. b(j) < b(n) /\ b(j) \in 1 .. L
      BY <3>1, <1>2
    <3> QED
      BY <1>1, <1>2, <1>3, <3>1, <3>2, <2>0
  <2>2. ASSUME NEW m \in 1 .. b(n) - 1, m # i
        PROVE  \E j \in 1 .. n - 1 : b(j) = m /\ j \in 1 .. L - 1 /\ p[j] = q[m]
    <3>1. m \in 1 .. L /\ m < b(n)
      BY <2>0, <1>1
    <3>2. PICK j \in 1 .. L - 1 : b(j) = m
      BY <3>1, <2>2, <1>2
    <3>3. j < n
      BY <3>1, <3>2, <1>2
    <3> QED
      BY <3>2, <3>3, <1>1, <1>3, <2>0
  <2>3. ASSUME NEW m \in b(n) + 1 .. L, m # i
        PROVE  \E j \in n + 1 .. L - 1 : b(j) = m /\ p[j] = q[m]
    <3>1. m \in 1 .. L /\ b(n) < m
      BY <2>0, <1>1
    <3>2. PICK j \in 1 .. L - 1 : b(j) = m
      BY <3>1, <2>3, <1>2
    <3>3. n < j
      BY <3>1, <3>2, <1>2
    <3> QED
      BY <3>2, <3>3, <1>1, <1>3, <2>0
  <2>4. p[n] = q[b(n)]
    BY <1>3
  <2>5. \A j : j \in Earlier(r, n) => j \in 1 .. L - 1 /\ b(j) \in Earlier(k, b(n))
    BY <2>1, <2>4, <1>22
  <2>6. \A m \in Earlier(k, b(n)) : m # i => \E j \in Earlier(r, n) : b(j) = m
    <3>1. SUFFICES ASSUME NEW m \in Earlier(k, b(n)), m # i PROVE \E j \in Earlier(r, n) : b(j) = m
      OBVIOUS
    <3>2. m \in 1 .. b(n) - 1 /\ q[m].cell = q[b(n)].cell
      BY <1>22
    <3>3. PICK j \in 1 .. n - 1 : b(j) = m /\ p[j] = q[m]
      BY <3>1, <3>2, <2>2
    <3>4. j \in Earlier(r, n)
      BY <3>2, <3>3, <2>4, <1>22
    <3> QED
      BY <3>3, <3>4
  <2>7. \A m \in Later(k, b(n)) : m # i => \E j \in Later(r, n) : b(j) = m
    BY <2>3, <2>4, <1>22
  <2>8. \A j : j \in ShiftBefore(r, n) => j \in 1 .. L - 1 /\ b(j) \in ShiftBefore(k, b(n))
    BY <2>1, <1>22
  <2>9. \A m \in ShiftBefore(k, b(n)) : m # i => \E j \in ShiftBefore(r, n) : b(j) = m
    BY <2>2, <1>22
  <2> QED
    BY <2>5, <2>6, <2>7, <2>8, <2>9
\* Change i against the others.
<1>8. ASSUME NEW o \in 1 .. L, o # i
      PROVE  /\ i \in Earlier(k, o) <=> q[o].cell = q[i].cell
             /\ i \notin Later(k, o)
             /\ \A j \in Earlier(k, o) : i \in Earlier(k, o) /\ j # i => i <= j
             /\ Types(q[o]) => (i \in ShiftBefore(k, o) <=> q[i].cell = SHIFT)
             /\ \A j \in ShiftBefore(k, o) : i \in ShiftBefore(k, o) /\ j # i => i <= j
  <2>0. o \in Nat /\ i \in Nat
    BY <1>1
  <2>1. o < i => q[o].cell # q[i].cell /\ q[o].cell # SHIFT /\ ~q[o].press
    BY <2>0, <1>5
  <2>2. i \in Earlier(k, o) <=> q[o].cell = q[i].cell
    BY <2>0, <2>1, <1>1, <1>8, <1>22
  <2>3. i \notin Later(k, o)
    <3>1. SUFFICES ASSUME i \in o + 1 .. L, q[i].cell = q[o].cell PROVE FALSE
      BY <1>22
    <3>2. o < i
      BY <3>1, <2>0, <1>1
    <3> QED
      BY <3>1, <3>2, <2>1
  <2>4. ASSUME NEW j \in 1 .. o - 1, q[j].cell = q[i].cell \/ q[j].cell = SHIFT PROVE i <= j
    <3>1. SUFFICES ASSUME j < i PROVE FALSE
      BY <2>0
    <3>2. j \in 1 .. i - 1
      BY <3>1, <2>0
    <3> QED
      BY <3>2, <2>4, <1>5
  <2>5. \A j \in Earlier(k, o) : i \in Earlier(k, o) /\ j # i => i <= j
    <3>1. SUFFICES ASSUME NEW j \in Earlier(k, o), i \in Earlier(k, o) PROVE i <= j
      OBVIOUS
    <3>2. j \in 1 .. o - 1 /\ q[j].cell = q[o].cell /\ q[i].cell = q[o].cell
      BY <3>1, <1>22
    <3> QED
      BY <3>2, <2>4
  <2>6. Types(q[o]) => (i \in ShiftBefore(k, o) <=> q[i].cell = SHIFT)
    <3>1. SUFFICES ASSUME Types(q[o]) PROVE i \in 1 .. o - 1
      BY <1>22
    <3>2. ~(o < i)
      BY <3>1, <2>1 DEF Types
    <3> QED
      BY <3>2, <2>0, <1>1, <1>8
  <2>7. \A j \in ShiftBefore(k, o) : i \in ShiftBefore(k, o) /\ j # i => i <= j
    <3>1. SUFFICES ASSUME NEW j \in ShiftBefore(k, o) PROVE i <= j
      OBVIOUS
    <3>2. j \in 1 .. o - 1 /\ q[j].cell = SHIFT
      BY <3>1, <1>22
    <3> QED
      BY <3>2, <2>4
  <2> QED
    BY <2>2, <2>3, <2>5, <2>6, <2>7
<1>9. ASSUME NEW n \in 1 .. L - 1
      PROVE  /\ Earlier(r, n) = {} => (p[n].press <=> p[n].cell \notin r.matrix)
             /\ \A j \in Earlier(r, n) : (\A m \in Earlier(r, n) : m <= j) => (p[n].press <=> ~p[j].press)
             /\ Later(r, n) = {} => (p[n].press <=> p[n].cell \in r.target)
             /\ Types(p[n]) =>
                 /\ ShiftBefore(r, n) = {} => (p[n].shift <=> SHIFT \in r.matrix)
                 /\ \A j \in ShiftBefore(r, n) : (\A m \in ShiftBefore(r, n) : m <= j) => (p[n].shift <=> p[j].press)
  <2> DEFINE o == b(n)
  <2>0. o \in 1 .. L /\ o # i /\ p[n] = q[o]
    BY <1>2, <1>3
  <2>1. ASSUME Earlier(r, n) = {} PROVE p[n].press <=> p[n].cell \notin r.matrix
    <3>1. \A m \in Earlier(k, o) : m = i
      BY <2>1, <1>7
    <3>2. CASE i \in Earlier(k, o)
      <4>1. q[o].press <=> ~q[i].press
        <5>1. \A m \in Earlier(k, o) : m <= i
          BY <3>1, <1>1
        <5> QED
          BY <5>1, <3>2, <2>0, <1>20
      <4>2. q[o].cell = q[i].cell
        BY <3>2, <2>0, <1>8
      <4> QED
        BY <4>1, <4>2, <2>0, <1>4
    <3>3. CASE i \notin Earlier(k, o)
      <4>1. Earlier(k, o) = {}
        BY <3>1, <3>3
      <4>2. q[o].press <=> q[o].cell \notin k.matrix
        BY <4>1, <2>0, <1>20
      <4>3. q[o].cell # q[i].cell
        BY <3>3, <2>0, <1>8
      <4> QED
        BY <4>2, <4>3, <2>0, <1>4
    <3> QED
      BY <3>2, <3>3
  <2>2. ASSUME NEW j \in Earlier(r, n), \A m \in Earlier(r, n) : m <= j PROVE p[n].press <=> ~p[j].press
    <3>1. b(j) \in Earlier(k, o) /\ j \in 1 .. L - 1 /\ p[j] = q[b(j)] /\ b(j) # i /\ b(j) \in 1 .. L
      BY <2>2, <1>7, <1>2, <1>3
    <3>2. ASSUME NEW m \in Earlier(k, o) PROVE m <= b(j)
      <4>1. CASE m = i
        BY <4>1, <3>1, <2>0, <1>8
      <4>2. CASE m # i
        <5>1. PICK h \in Earlier(r, n) : b(h) = m
          BY <4>2, <1>7
        <5>2. h <= j /\ h \in 1 .. L - 1
          BY <5>1, <2>2, <1>7
        <5> QED
          BY <5>1, <5>2, <3>1, <1>2
      <4> QED
        BY <4>1, <4>2
    <3>3. q[o].press <=> ~q[b(j)].press
      BY <3>1, <3>2, <2>0, <1>20
    <3> QED
      BY <3>1, <3>3, <2>0
  <2>3. ASSUME Later(r, n) = {} PROVE p[n].press <=> p[n].cell \in r.target
    <3>1. Later(k, o) = {}
      BY <2>3, <2>0, <1>7, <1>8
    <3> QED
      BY <3>1, <2>0, <1>3, <1>20
  <2>4. ASSUME Types(p[n]), ShiftBefore(r, n) = {} PROVE p[n].shift <=> SHIFT \in r.matrix
    <3>0. Types(q[o])
      BY <2>0, <2>4
    <3>1. \A m \in ShiftBefore(k, o) : m = i
      BY <2>4, <1>7
    <3>2. CASE i \in ShiftBefore(k, o)
      <4>1. q[o].shift <=> q[i].press
        <5>1. \A m \in ShiftBefore(k, o) : m <= i
          BY <3>1, <1>1
        <5> QED
          BY <5>1, <3>0, <3>2, <2>0, <1>21
      <4>2. q[i].cell = SHIFT
        BY <3>0, <3>2, <2>0, <1>8
      <4> QED
        BY <4>1, <4>2, <2>0, <1>4
    <3>3. CASE i \notin ShiftBefore(k, o)
      <4>1. ShiftBefore(k, o) = {}
        BY <3>1, <3>3
      <4>2. q[o].shift <=> SHIFT \in k.matrix
        BY <3>0, <4>1, <2>0, <1>21
      <4>3. SHIFT # q[i].cell
        BY <3>0, <3>3, <2>0, <1>8
      <4> QED
        BY <4>2, <4>3, <2>0, <1>4
    <3> QED
      BY <3>2, <3>3
  <2>5. ASSUME Types(p[n]), NEW j \in ShiftBefore(r, n), \A m \in ShiftBefore(r, n) : m <= j
        PROVE  p[n].shift <=> p[j].press
    <3>0. Types(q[o])
      BY <2>0, <2>5
    <3>1. b(j) \in ShiftBefore(k, o) /\ j \in 1 .. L - 1 /\ p[j] = q[b(j)] /\ b(j) # i /\ b(j) \in 1 .. L
      BY <2>5, <1>7, <1>2, <1>3
    <3>2. ASSUME NEW m \in ShiftBefore(k, o) PROVE m <= b(j)
      <4>1. CASE m = i
        BY <4>1, <3>1, <2>0, <1>8
      <4>2. CASE m # i
        <5>1. PICK h \in ShiftBefore(r, n) : b(h) = m
          BY <4>2, <1>7
        <5>2. h <= j /\ h \in 1 .. L - 1
          BY <5>1, <2>5, <1>7
        <5> QED
          BY <5>1, <5>2, <3>1, <1>2
      <4> QED
        BY <4>1, <4>2
    <3>3. q[o].shift <=> q[b(j)].press
      BY <3>0, <3>1, <3>2, <2>0, <1>21
    <3> QED
      BY <3>1, <3>3, <2>0
  <2> QED
    BY <2>1, <2>2, <2>3, <2>4, <2>5
<1>10. ASSUME NEW c \in Cells, \A n \in 1 .. L - 1 : p[n].cell # c PROVE c \in r.target <=> c \in r.matrix
  <2>1. \A m \in 1 .. L : m # i => q[m].cell # c
    BY <1>10, <1>2, <1>3
  <2>2. CASE q[i].cell = c
    <3>1. Later(k, i) = {}
      <4>1. SUFFICES ASSUME NEW j \in i + 1 .. L, q[j].cell = q[i].cell PROVE FALSE
        BY <1>22
      <4>2. j \in 1 .. L /\ j # i
        BY <1>1
      <4> QED
        BY <4>1, <4>2, <2>1, <2>2
    <3>2. q[i].press <=> c \in k.target
      BY <3>1, <2>2, <1>1, <1>20
    <3> QED
      BY <3>2, <2>2, <1>3, <1>4
  <2>3. CASE q[i].cell # c
    <3>1. c \in k.target <=> c \in k.matrix
      BY <2>1, <2>3, <1>20
    <3> QED
      BY <3>1, <2>3, <1>3, <1>4
  <2> QED
    BY <2>2, <2>3
<1>11. QueueTypes(r)
  BY <1>3, <1>9, <1>10 DEF QueueTypes, p
<1>12. ShiftsKept(r)
  BY <1>3, <1>9 DEF ShiftsKept, p
<1> QED
  BY <1>6, <1>11, <1>12 DEF r

-----------------------------------------------------------------------------
(* What a tick and a change of the queue do.                                *)

\* A set of numbers has a least one.
LEMMA LeastOf ==
  ASSUME NEW T, T \subseteq Nat, T # {}
  PROVE  \E x \in T : \A y \in T : x <= y
<1> DEFINE R == OpToRel(<, Nat)
<1>1. IsWellFoundedOn(R, Nat)
  BY NatLessThanWellFounded
<1>2. R = {ss \in Nat \X Nat : ss[1] < ss[2]}
  BY DEF OpToRel
<1> HIDE DEF R
<1>3. PICK x \in T : \A y \in T : ~ (<<y, x>> \in R)
  BY <1>1, WFMin
<1>4. ASSUME NEW y \in T PROVE x <= y
  <2>1. <<y, x>> \in Nat \X Nat /\ <<y, x>>[1] = y /\ <<y, x>>[2] = x
    OBVIOUS
  <2>2. ~(y < x)
    BY <1>2, <1>3, <2>1
  <2>3. x \in Nat /\ y \in Nat
    OBVIOUS
  <2> QED
    BY <2>2, <2>3
<1> QED
  BY <1>3, <1>4

\* A change queued.
Queued(k, op) ==
  [k EXCEPT !.keyq = Append(@, op), !.target = IF op.press THEN @ \cup {op.cell} ELSE @ \ {op.cell}]

\* A change at the end of the queue.
LEMMA QueuedFields ==
  ASSUME NEW k, IsKb(k), NEW op \in Change
  PROVE  LET r == Queued(k, op)
             L == Len(k.keyq)
         IN /\ IsKb(r) /\ r.matrix = k.matrix /\ r.wrong = k.wrong
            /\ r.target = (IF op.press THEN k.target \cup {op.cell} ELSE k.target \ {op.cell})
            /\ L \in Nat /\ Len(r.keyq) = L + 1
            /\ \A n \in 1 .. L : r.keyq[n] = k.keyq[n]
            /\ r.keyq[L + 1] = op
<1> DEFINE t == IF op.press THEN k.target \cup {op.cell} ELSE k.target \ {op.cell}
           a == Append(k.keyq, op)
           r == Queued(k, op)
<1>1. r = [k EXCEPT !.keyq = a, !.target = t]
  BY Zenon DEF Queued
<1> HIDE DEF t
<1>3. /\ a \in Seq(Change) /\ Len(k.keyq) \in Nat /\ Len(a) = Len(k.keyq) + 1
      /\ \A n \in 1 .. Len(k.keyq) : a[n] = k.keyq[n]
      /\ a[Len(k.keyq) + 1] = op
  BY DEF IsKb
<1> HIDE DEF a, r
<1>4. DOMAIN r = DOMAIN k /\ r.keyq = a /\ r.target = t /\ r.matrix = k.matrix /\ r.wrong = k.wrong
  BY <1>1 DEF IsKb
<1>5. IsKb(r)
  BY <1>3, <1>4 DEF IsKb
<1> QED
  BY <1>3, <1>4, <1>5 DEF r, t

\* A change that is not what the queue already ends in continues what was typed.
LEMMA QueuedKeeps ==
  ASSUME NEW k, IsKb(k), QueueTypes(k), ShiftsKept(k), NEW op \in Change,
         op.press <=> op.cell \notin k.target, op.shift <=> SHIFT \in k.target
  PROVE  QueueTypes(Queued(k, op)) /\ ShiftsKept(Queued(k, op))
<1> DEFINE r == Queued(k, op)
           q == k.keyq
           p == r.keyq
           L == Len(q)
           e == L + 1
           c == op.cell
<1>1. /\ L \in Nat /\ Len(p) = L + 1 /\ r.matrix = k.matrix
      /\ r.target = (IF op.press THEN k.target \cup {c} ELSE k.target \ {c})
      /\ \A n \in 1 .. L : p[n] = q[n]
      /\ p[e] = op
  BY QueuedFields
<1>19. c \in Cells
  BY DEF Change
<1>2. SHIFT \in Cells
  BY DEF Cells
<1>3. /\ \A n \in 1 .. L :
            /\ Earlier(k, n) = {} => (q[n].press <=> q[n].cell \notin k.matrix)
            /\ \A j \in Earlier(k, n) : (\A m \in Earlier(k, n) : m <= j) => (q[n].press <=> ~q[j].press)
            /\ Later(k, n) = {} => (q[n].press <=> q[n].cell \in k.target)
  BY DEF QueueTypes
<1>18. ASSUME NEW d \in Cells, \A n \in 1 .. L : q[n].cell # d PROVE d \in k.target <=> d \in k.matrix
  BY <1>18 DEF QueueTypes
<1>4. \A n \in 1 .. L :
    Types(q[n]) =>
      /\ ShiftBefore(k, n) = {} => (q[n].shift <=> SHIFT \in k.matrix)
      /\ \A j \in ShiftBefore(k, n) : (\A m \in ShiftBefore(k, n) : m <= j) => (q[n].shift <=> q[j].press)
  BY DEF ShiftsKept
<1>5. /\ \A n : Earlier(k, n) = {j \in 1 .. n - 1 : q[j].cell = q[n].cell}
      /\ \A n : Later(k, n) = {j \in n + 1 .. L : q[j].cell = q[n].cell}
      /\ \A n : ShiftBefore(k, n) = {j \in 1 .. n - 1 : q[j].cell = SHIFT}
      /\ \A n : Earlier(r, n) = {j \in 1 .. n - 1 : p[j].cell = p[n].cell}
      /\ \A n : Later(r, n) = {j \in n + 1 .. L + 1 : p[j].cell = p[n].cell}
      /\ \A n : ShiftBefore(r, n) = {j \in 1 .. n - 1 : p[j].cell = SHIFT}
  BY <1>1 DEF Earlier, Later, ShiftBefore
<1>20. p[e].cell = c /\ p[e].press = op.press /\ p[e].shift = op.shift /\ (op.press <=> c \notin k.target)
  BY <1>1
<1> HIDE DEF r, q, p, L, c
\* The last change of a cell among those queued says what was typed.
<1>6. ASSUME NEW d \in Cells, NEW j \in 1 .. L, q[j].cell = d, \A m \in 1 .. L : q[m].cell = d => m <= j
      PROVE  q[j].press <=> d \in k.target
  <2>1. Later(k, j) = {}
    <3>1. SUFFICES ASSUME NEW m \in j + 1 .. L, q[m].cell = q[j].cell PROVE FALSE
      BY <1>5
    <3>2. m \in 1 .. L /\ ~(m <= j)
      BY <1>1
    <3> QED
      BY <3>1, <3>2, <1>6
  <2> QED
    BY <2>1, <1>3, <1>6
<1>7. ASSUME NEW n \in 1 .. L
      PROVE  /\ p[n] = q[n] /\ Earlier(r, n) = Earlier(k, n) /\ ShiftBefore(r, n) = ShiftBefore(k, n)
             /\ Later(r, n) = {} => Later(k, n) = {} /\ q[n].cell # c
             /\ \A j \in Earlier(k, n) : p[j] = q[j]
             /\ \A j \in ShiftBefore(k, n) : p[j] = q[j]
  <2>1. p[n] = q[n] /\ \A j \in 1 .. n - 1 : p[j] = q[j]
    BY <1>1
  <2>2. Earlier(r, n) = Earlier(k, n) /\ ShiftBefore(r, n) = ShiftBefore(k, n)
    <3>1. {j \in 1 .. n - 1 : p[j].cell = p[n].cell} = {j \in 1 .. n - 1 : q[j].cell = q[n].cell}
      BY <2>1
    <3>2. {j \in 1 .. n - 1 : p[j].cell = SHIFT} = {j \in 1 .. n - 1 : q[j].cell = SHIFT}
      BY <2>1
    <3>3. Earlier(r, n) = {j \in 1 .. n - 1 : p[j].cell = p[n].cell} /\ Earlier(k, n) = {j \in 1 .. n - 1 : q[j].cell = q[n].cell}
      BY <1>5
    <3>4. ShiftBefore(r, n) = {j \in 1 .. n - 1 : p[j].cell = SHIFT} /\ ShiftBefore(k, n) = {j \in 1 .. n - 1 : q[j].cell = SHIFT}
      BY <1>5
    <3> QED
      BY <3>1, <3>2, <3>3, <3>4
  <2>3. ASSUME Later(r, n) = {} PROVE Later(k, n) = {} /\ q[n].cell # c
    <3>1. \A j \in n + 1 .. L : j \in n + 1 .. L + 1 /\ p[j] = q[j]
      BY <1>1
    <3>2. Later(k, n) = {}
      BY <2>3, <3>1, <2>1, <1>5
    <3>3. e \in n + 1 .. L + 1
      BY <1>1
    <3>4. p[e].cell # p[n].cell
      BY <3>3, <2>3, <1>5
    <3> QED
      BY <3>2, <3>4, <2>1, <1>20
  <2> QED
    BY <2>1, <2>2, <2>3, <1>5
<1>8. ASSUME NEW n \in 1 .. L
      PROVE  /\ Earlier(r, n) = {} => (p[n].press <=> p[n].cell \notin r.matrix)
             /\ \A j \in Earlier(r, n) : (\A m \in Earlier(r, n) : m <= j) => (p[n].press <=> ~p[j].press)
             /\ Later(r, n) = {} => (p[n].press <=> p[n].cell \in r.target)
             /\ Types(p[n]) =>
                 /\ ShiftBefore(r, n) = {} => (p[n].shift <=> SHIFT \in r.matrix)
                 /\ \A j \in ShiftBefore(r, n) : (\A m \in ShiftBefore(r, n) : m <= j) => (p[n].shift <=> p[j].press)
  <2>1. Earlier(r, n) = {} => (p[n].press <=> p[n].cell \notin r.matrix)
    BY <1>1, <1>3, <1>7
  <2>2. \A j \in Earlier(r, n) : (\A m \in Earlier(r, n) : m <= j) => (p[n].press <=> ~p[j].press)
    BY <1>3, <1>7
  <2>3. Later(r, n) = {} => (p[n].press <=> p[n].cell \in r.target)
    BY <1>1, <1>3, <1>7
  <2>4. Types(p[n]) =>
                 /\ ShiftBefore(r, n) = {} => (p[n].shift <=> SHIFT \in r.matrix)
                 /\ \A j \in ShiftBefore(r, n) : (\A m \in ShiftBefore(r, n) : m <= j) => (p[n].shift <=> p[j].press)
    BY <1>1, <1>4, <1>7
  <2> QED
    BY <2>1, <2>2, <2>3, <2>4
<1>9. /\ Earlier(r, e) \subseteq 1 .. L /\ ShiftBefore(r, e) \subseteq 1 .. L
      /\ \A j \in 1 .. L : (j \in Earlier(r, e) <=> q[j].cell = c) /\ (j \in ShiftBefore(r, e) <=> q[j].cell = SHIFT)
  <2>1. 1 .. e - 1 = 1 .. L
    BY <1>1
  <2> QED
    BY <2>1, <1>1, <1>5, <1>20
<1>10. Earlier(r, e) = {} => (p[e].press <=> p[e].cell \notin r.matrix)
  <2>1. SUFFICES ASSUME Earlier(r, e) = {} PROVE op.press <=> c \notin k.matrix
    BY <1>1, <1>20
  <2>2. c \in k.target <=> c \in k.matrix
    <3>1. \A n \in 1 .. L : q[n].cell # c
      BY <2>1, <1>9
    <3> QED
      BY <3>1, <1>18, <1>19
  <2> QED
    BY <2>2, <1>20
<1>11. ASSUME NEW j \in Earlier(r, e), \A m \in Earlier(r, e) : m <= j PROVE p[e].press <=> ~p[j].press
  <2>1. j \in 1 .. L /\ q[j].cell = c /\ p[j] = q[j]
    BY <1>1, <1>9
  <2>2. \A m \in 1 .. L : q[m].cell = c => m <= j
    BY <1>9, <1>11
  <2>3. q[j].press <=> c \in k.target
    BY <2>1, <2>2, <1>6, <1>19
  <2> QED
    BY <2>1, <2>3, <1>20
<1>12. p[e].press <=> p[e].cell \in r.target
  BY <1>1 DEF c
<1>13. ASSUME Types(p[e])
       PROVE  /\ ShiftBefore(r, e) = {} => (p[e].shift <=> SHIFT \in r.matrix)
              /\ \A j \in ShiftBefore(r, e) : (\A m \in ShiftBefore(r, e) : m <= j) => (p[e].shift <=> p[j].press)
  <2>1. ASSUME ShiftBefore(r, e) = {} PROVE p[e].shift <=> SHIFT \in r.matrix
    <3>1. SHIFT \in k.target <=> SHIFT \in k.matrix
      <4>1. \A n \in 1 .. L : q[n].cell # SHIFT
        BY <2>1, <1>9
      <4> QED
        BY <4>1, <1>2, <1>18
    <3> QED
      BY <3>1, <1>1
  <2>2. ASSUME NEW j \in ShiftBefore(r, e), \A m \in ShiftBefore(r, e) : m <= j PROVE p[e].shift <=> p[j].press
    <3>1. j \in 1 .. L /\ q[j].cell = SHIFT /\ p[j] = q[j]
      BY <1>1, <1>9
    <3>2. \A m \in 1 .. L : q[m].cell = SHIFT => m <= j
      BY <1>9, <2>2
    <3>3. q[j].press <=> SHIFT \in k.target
      BY <3>1, <3>2, <1>2, <1>6
    <3> QED
      BY <3>1, <3>3, <1>1
  <2> QED
    BY <2>1, <2>2
<1>14. \A n \in 1 .. L + 1 : n \in 1 .. L \/ n = e
  BY <1>1
<1>15. ASSUME NEW d \in Cells, \A n \in 1 .. L + 1 : p[n].cell # d PROVE d \in r.target <=> d \in r.matrix
  <2>1. d # c /\ \A n \in 1 .. L : q[n].cell # d
    <3>1. e \in 1 .. L + 1 /\ \A n \in 1 .. L : n \in 1 .. L + 1
      BY <1>1
    <3> QED
      BY <3>1, <1>1, <1>15, <1>20
  <2>2. d \in k.target <=> d \in k.matrix
    BY <2>1, <1>18
  <2> QED
    BY <2>1, <2>2, <1>1
<1> HIDE DEF e
<1>16. QueueTypes(r)
  <2>1. ASSUME NEW n \in 1 .. L + 1
        PROVE  /\ Earlier(r, n) = {} => (p[n].press <=> p[n].cell \notin r.matrix)
               /\ \A j \in Earlier(r, n) : (\A m \in Earlier(r, n) : m <= j) => (p[n].press <=> ~p[j].press)
               /\ Later(r, n) = {} => (p[n].press <=> p[n].cell \in r.target)
    <3>1. CASE n \in 1 .. L
      BY <3>1, <1>8
    <3>2. CASE n = e
      BY <3>2, <1>10, <1>11, <1>12
    <3> QED
      BY <3>1, <3>2, <1>14
  <2> QED
    BY <2>1, <1>15, <1>1 DEF QueueTypes, p
<1>17. ShiftsKept(r)
  <2>1. ASSUME NEW n \in 1 .. L + 1, Types(p[n])
        PROVE  /\ ShiftBefore(r, n) = {} => (p[n].shift <=> SHIFT \in r.matrix)
               /\ \A j \in ShiftBefore(r, n) : (\A m \in ShiftBefore(r, n) : m <= j) => (p[n].shift <=> p[j].press)
    <3>1. CASE n \in 1 .. L
      BY <3>1, <2>1, <1>8
    <3>2. CASE n = e
      BY <3>2, <2>1, <1>13
    <3> QED
      BY <3>1, <3>2, <1>14
  <2> QED
    BY <2>1, <1>1 DEF ShiftsKept, p
<1> QED
  BY <1>16, <1>17 DEF r

-----------------------------------------------------------------------------
\* What the queue's operations keep.
Steady(k) == IsKb(k) /\ Len(k.keyq) <= KEYQ_SIZE /\ ~k.wrong /\ QueueTypes(k) /\ ShiftsKept(k)

\* A change forced out or due is applied as it was typed.
LEMMA AppliedSteady ==
  ASSUME NEW k, Steady(k), NEW i \in 1 .. Len(k.keyq),
         \A j \in 1 .. i - 1 : k.keyq[j].cell # k.keyq[i].cell /\ ~KeepsOrder(k.keyq[j])
  PROVE  Steady(Applied(k, i)) /\ Applied(k, i).target = k.target /\ Len(Applied(k, i).keyq) < KEYQ_SIZE
<1>1. IsKb(k) /\ QueueTypes(k) /\ ShiftsKept(k) /\ ~k.wrong
  BY DEF Steady
<1>2. Arrives(k, i) /\ QueueTypes(Applied(k, i)) /\ ShiftsKept(Applied(k, i))
  BY <1>1, AppliedKeeps
<1> DEFINE r == Applied(k, i)
<1>3. IsKb(r) /\ r.target = k.target /\ r.wrong = (k.wrong \/ ~Arrives(k, i)) /\ Len(r.keyq) = Len(k.keyq) - 1
  BY <1>1, AppliedFields
<1> HIDE DEF r
<1>4. ~r.wrong
  BY <1>1, <1>2, <1>3
<1>5. Len(r.keyq) < KEYQ_SIZE /\ Len(r.keyq) <= KEYQ_SIZE
  <2>1. Len(k.keyq) \in Nat /\ KEYQ_SIZE \in Nat /\ Len(k.keyq) <= KEYQ_SIZE
    BY KeyboardAssumption DEF Steady, IsKb
  <2> QED
    BY <2>1, <1>3
<1> QED
  BY <1>2, <1>3, <1>4, <1>5 DEF Steady, r

\* queue_key() leaves the cell as asked, and the others as they were.
LEMMA QueueKeySteady ==
  ASSUME NEW k, Steady(k), NEW c \in Cells, NEW pressed \in BOOLEAN
  PROVE  /\ Steady(queue_key(k, c, pressed))
         /\ queue_key(k, c, pressed).target = (IF pressed THEN k.target \cup {c} ELSE k.target \ {c})
<1> DEFINE full == Len(k.keyq) = KEYQ_SIZE
           room == IF full THEN Applied(k, 1) ELSE k
           op == [cell |-> c, press |-> pressed, shift |-> SHIFT \in k.target]
<1>1. CASE (c \in k.target) = pressed
  <2>1. queue_key(k, c, pressed) = k
    BY <1>1, Zenon DEF queue_key
  <2>2. k.target = (IF pressed THEN k.target \cup {c} ELSE k.target \ {c})
    BY <1>1
  <2> QED
    BY <2>1, <2>2
<1>2. CASE (c \in k.target) # pressed
  <2>1. queue_key(k, c, pressed) = Queued(room, op)
    <3>1. op.press = pressed /\ op.cell = c
      OBVIOUS
    <3> HIDE DEF room
    <3>2. Queued(room, op) = [room EXCEPT !.keyq = Append(@, op), !.target = IF pressed THEN @ \cup {c} ELSE @ \ {c}]
      BY <3>1 DEF Queued
    <3>3. queue_key(k, c, pressed) = [room EXCEPT !.keyq = Append(@, op), !.target = IF pressed THEN @ \cup {c} ELSE @ \ {c}]
      BY <1>2, Zenon DEF queue_key, room
    <3> QED
      BY <3>2, <3>3, Zenon
  <2>2. Steady(room) /\ room.target = k.target /\ Len(room.keyq) < KEYQ_SIZE
    <3>0. Len(k.keyq) \in Nat /\ KEYQ_SIZE \in Nat \ {0} /\ Len(k.keyq) <= KEYQ_SIZE
      BY KeyboardAssumption DEF Steady, IsKb
    <3>1. CASE full
      <4>1. 1 \in 1 .. Len(k.keyq) /\ 1 .. 1 - 1 = {}
        BY <3>0, <3>1
      <4>2. Steady(Applied(k, 1)) /\ Applied(k, 1).target = k.target /\ Len(Applied(k, 1).keyq) < KEYQ_SIZE
        BY <4>1, AppliedSteady
      <4> QED
        BY <3>1, <4>2
    <3>2. CASE ~full
      BY <3>0, <3>2
    <3> QED
      BY <3>1, <3>2
  <2>3. op \in Change /\ op.cell = c /\ (op.press <=> pressed) /\ (op.shift <=> SHIFT \in k.target)
    <3>1. op \in Change
      <4>1. (SHIFT \in k.target) \in BOOLEAN
        OBVIOUS
      <4> QED
        BY <4>1 DEF Change
    <3> QED
      BY <3>1
  <2> HIDE DEF room, op
  <2>4. (op.press <=> op.cell \notin room.target) /\ (op.shift <=> SHIFT \in room.target)
    BY <1>2, <2>2, <2>3
  <2> DEFINE r == Queued(room, op)
  <2>5. IsKb(room) /\ QueueTypes(room) /\ ShiftsKept(room) /\ ~room.wrong
    BY <2>2 DEF Steady
  <2>6. QueueTypes(r) /\ ShiftsKept(r)
    BY <2>3, <2>4, <2>5, QueuedKeeps
  <2>7. /\ IsKb(r) /\ r.wrong = room.wrong /\ Len(room.keyq) \in Nat /\ Len(r.keyq) = Len(room.keyq) + 1
        /\ r.target = (IF op.press THEN room.target \cup {op.cell} ELSE room.target \ {op.cell})
    BY <2>3, <2>5, QueuedFields
  <2> HIDE DEF r
  <2>8. Len(r.keyq) <= KEYQ_SIZE
    BY <2>2, <2>7, KeyboardAssumption
  <2>9. Steady(r)
    BY <2>5, <2>6, <2>7, <2>8 DEF Steady
  <2> QED
    <3>1. r.target = (IF pressed THEN k.target \cup {c} ELSE k.target \ {c})
      BY <2>2, <2>3, <2>7
    <3> QED
      BY <2>1, <2>9, <3>1 DEF r
<1> QED
  BY <1>1, <1>2

\* hal_keyboard_tick() ages the cells and applies one change that is due.
LEMMA TickSteady ==
  ASSUME NEW k, Steady(k)
  PROVE  Steady(tick_key_queue(k)) /\ tick_key_queue(k).target = k.target
<1> DEFINE ages == [c \in Cells |-> IF k.age[c] < AGE_MAX THEN k.age[c] + 1 ELSE k.age[c]]
           aged == [k EXCEPT !.age = ages]
           due == {i \in Reached(aged) : Due(aged, i)}
           oldest == CHOOSE i \in due : \A j \in due : i <= j
<1>1. tick_key_queue(k) = IF due = {} THEN aged ELSE Applied(aged, oldest)
  BY Zenon DEF tick_key_queue
<1> HIDE DEF ages
<1>2. /\ DOMAIN aged = DOMAIN k /\ aged.keyq = k.keyq /\ aged.matrix = k.matrix /\ aged.target = k.target
      /\ aged.wrong = k.wrong
  BY DEF Steady, IsKb
<1> HIDE DEF aged
<1>3. Steady(aged)
  <2>1. IsKb(aged)
    BY <1>2 DEF Steady, IsKb
  <2>2. QueueTypes(aged)
    <3>1. /\ \A i : Earlier(aged, i) = Earlier(k, i)
          /\ \A i : Later(aged, i) = Later(k, i)
      BY <1>2 DEF Earlier, Later
    <3> QED
      BY <3>1, <1>2 DEF Steady, QueueTypes
  <2>3. ShiftsKept(aged)
    <3>1. \A i : ShiftBefore(aged, i) = ShiftBefore(k, i)
      BY <1>2 DEF ShiftBefore
    <3> QED
      BY <3>1, <1>2 DEF Steady, ShiftsKept
  <2> QED
    BY <2>1, <2>2, <2>3, <1>2 DEF Steady
<1>4. CASE due = {}
  BY <1>1, <1>2, <1>3, <1>4
<1>5. CASE due # {}
  <2>1. due \subseteq 1 .. Len(aged.keyq)
    BY DEF Reached
  <2>2. due \subseteq Nat
    BY <2>1
  <2> HIDE DEF due
  <2>3. \E i \in due : \A j \in due : i <= j
    BY <1>5, <2>2, LeastOf
  <2>4. oldest \in due /\ \A j \in due : oldest <= j
    BY <2>3
  <2> HIDE DEF oldest
  <2>5. oldest \in 1 .. Len(aged.keyq) /\ oldest \in Reached(aged) /\ Due(aged, oldest)
    BY <2>1, <2>4 DEF due
  <2>6. \A j \in 1 .. oldest - 1 : aged.keyq[j].cell # aged.keyq[oldest].cell /\ ~KeepsOrder(aged.keyq[j])
    BY <2>5 DEF Reached, Due, Blocked
  <2>7. Steady(Applied(aged, oldest)) /\ Applied(aged, oldest).target = aged.target
    BY <1>3, <2>5, <2>6, AppliedSteady
  <2> QED
    BY <1>1, <1>2, <1>5, <2>7
<1> QED
  BY <1>4, <1>5

-----------------------------------------------------------------------------
(* Key events, and what is held.                                            *)

\* A key's cell, whatever it is bound to.
LEMMA MappingCell ==
  ASSUME NEW vk \in DOMAIN VK_MAP
  PROVE  Mapping(vk) \in Entries /\ Mapping(vk).cell \in Cells
<1>1. CASE Bound(vk) = {}
  BY <1>1 DEF Mapping, Entries, Cells
<1>2. CASE Bound(vk) # {}
  <2>1. PICK i \in Bound(vk) : TRUE
    BY <1>2
  <2>2. (CHOOSE j \in Bound(vk) : TRUE) \in Bound(vk)
    BY <2>1
  <2> DEFINE j == CHOOSE j \in Bound(vk) : TRUE
  <2>3. Mapping(vk) = KM_CHARS[j] /\ j \in DOMAIN KM_CHARS
    BY <1>2, <2>2 DEF Mapping, Bound
  <2> HIDE DEF j
  <2> QED
    BY <2>3 DEF Entries, Cells
<1> QED
  BY <1>1, <1>2

\* A press puts down its own cell and at most SHIFT.
LEMMA PressSteady ==
  ASSUME NEW k, Steady(k), NEW e, e.cell \in Cells, NEW shift \in BOOLEAN
  PROVE  Steady(PressOn(k, e, shift)) /\ PressOn(k, e, shift).target \subseteq k.target \cup {e.cell, SHIFT}
<1>0. SHIFT \in Cells
  BY DEF Cells
<1>1. CASE e.cell = SHIFT
  <2>1. PressOn(k, e, shift) = queue_key(k, SHIFT, TRUE)
    BY <1>1 DEF PressOn, apply_shift
  <2>2. Steady(queue_key(k, SHIFT, TRUE)) /\ queue_key(k, SHIFT, TRUE).target = k.target \cup {SHIFT}
    BY <1>0, QueueKeySteady
  <2> QED
    BY <2>1, <2>2
<1>2. CASE e.cell # SHIFT
  <2> DEFINE active == (shift /\ ~e.suppress) \/ e.needs
             s == queue_key(k, SHIFT, active)
             r == queue_key(s, e.cell, TRUE)
  <2>1. PressOn(k, e, shift) = r
    BY <1>2, Zenon DEF PressOn, apply_shift
  <2>2. active \in BOOLEAN
    OBVIOUS
  <2> HIDE DEF active
  <2>3. Steady(s) /\ s.target \subseteq k.target \cup {SHIFT}
    BY <1>0, <2>2, QueueKeySteady
  <2> HIDE DEF s
  <2>4. Steady(r) /\ r.target = s.target \cup {e.cell}
    BY <2>3, QueueKeySteady
  <2> HIDE DEF r
  <2> QED
    BY <2>1, <2>3, <2>4
<1> QED
  BY <1>1, <1>2

\* A release takes its own cell up, and SHIFT unless one is held.
LEMMA ReleaseSteady ==
  ASSUME NEW k, Steady(k), NEW e, e.cell \in Cells, NEW shift \in BOOLEAN
  PROVE  LET r == ReleaseOn(k, e, shift)
         IN Steady(r) /\ r.target \subseteq k.target \ {e.cell} /\ (shift \/ SHIFT \notin r.target)
<1>0. SHIFT \in Cells
  BY DEF Cells
<1>1. CASE e.cell = SHIFT
  <2>1. ReleaseOn(k, e, shift) = queue_key(k, SHIFT, FALSE)
    BY <1>1 DEF ReleaseOn, apply_shift
  <2>2. Steady(queue_key(k, SHIFT, FALSE)) /\ queue_key(k, SHIFT, FALSE).target = k.target \ {SHIFT}
    BY <1>0, QueueKeySteady
  <2> QED
    BY <2>1, <2>2, <1>1
<1>2. CASE e.cell # SHIFT
  <2> DEFINE u == queue_key(k, e.cell, FALSE)
             s == queue_key(u, SHIFT, FALSE)
  <2>1. ReleaseOn(k, e, shift) = IF shift THEN u ELSE s
    BY <1>2, Zenon DEF ReleaseOn, apply_shift
  <2>2. Steady(u) /\ u.target = k.target \ {e.cell}
    BY QueueKeySteady
  <2> HIDE DEF u
  <2>3. Steady(s) /\ s.target = u.target \ {SHIFT}
    BY <1>0, <2>2, QueueKeySteady
  <2> HIDE DEF s
  <2> QED
    BY <2>1, <2>2, <2>3
<1> QED
  BY <1>1, <1>2

-----------------------------------------------------------------------------
\* The invariant in the terms above.
KeyboardGood ==
  /\ Steady(kb) /\ DOMAIN joy = {"mode", "keys"} /\ host \subseteq DOMAIN VK_MAP
  /\ HeldDown /\ joy.keys \subseteq host

\* It is KeyboardIInv, conjunct by conjunct.
LEMMA GoodIs == KeyboardIInv <=> KeyboardGood
<1>1. Change = [cell : Cells, press : BOOLEAN, shift : BOOLEAN]
  BY DEF Change
<1> QED
  BY <1>1, Zenon DEF KeyboardIInv, KeyboardGood, KeyboardShape, TypedAsMeant, Steady, IsKb

\* While the supervisor has the keyboard, all that is down was so when it came.
LEMMA AllStuck ==
  ASSUME HeldDown, osd
  PROVE  kb.target \subseteq stuck
  BY DEF HeldDown

\* All that is down is stuck: nothing else to explain.
LEMMA StuckHeld ==
  ASSUME kb'.target \subseteq stuck'
  PROVE  HeldDown'
  BY DEF HeldDown

\* A key goes down.
LEMMA DownKeeps ==
  ASSUME KeyboardGood, NEW vk \in DOMAIN VK_MAP, KeyDown(vk)
  PROVE  KeyboardGood'
<1> DEFINE d == PressOn(kb, Mapping(vk), shift_held(host'))
<1>1. /\ host' = host \cup {vk} /\ osd' = osd /\ stuck' = stuck \cap kb'.target
      /\ mapper' = IF osd THEN Captured(vk) ELSE mapper
      /\ joy' = IF ~osd /\ JoyTakes(vk) THEN [joy EXCEPT !.keys = @ \cup {vk}] ELSE joy
      /\ kb' = IF osd \/ JoyTakes(vk) THEN kb ELSE d
  BY Zenon DEF KeyDown
<1>2. /\ Steady(kb) /\ DOMAIN joy = {"mode", "keys"} /\ host \subseteq DOMAIN VK_MAP /\ HeldDown
      /\ joy.keys \subseteq host
  BY DEF KeyboardGood
<1>3. Steady(d) /\ d.target \subseteq kb.target \cup {Mapping(vk).cell, SHIFT}
  <2>1. shift_held(host') \in BOOLEAN
    BY DEF shift_held
  <2> QED
    BY <1>2, <2>1, MappingCell, PressSteady
<1> HIDE DEF d
<1>4. Steady(kb')
  BY <1>1, <1>2, <1>3
<1>5. DOMAIN joy' = {"mode", "keys"} /\ joy'.mode = joy.mode /\ joy'.keys \subseteq host' /\ host' \subseteq DOMAIN VK_MAP
  BY <1>1, <1>2
<1>6. HeldDown'
  <2>1. CASE osd
    <3>1. kb'.target \subseteq stuck'
      BY <1>1, <1>2, <2>1, AllStuck
    <3> QED
      BY <3>1, StuckHeld
  <2>2. CASE ~osd
    <3>0. /\ mapper' = mapper /\ ~osd'
          /\ \A v : JoyTakes(v)' = JoyTakes(v)
      BY <1>1, <1>5, <2>2 DEF JoyTakes
    <3>9. \A v : Mapping(v)' = Mapping(v)
      BY <3>0 DEF Mapping, Bound
    <3>1. SUFFICES ASSUME NEW c \in kb'.target \ stuck' PROVE ~osd' /\ Holds(c)'
      BY DEF HeldDown
    <3>2. c \notin stuck
      BY <1>1, <3>1
    <3>3. CASE c \in kb.target
      <4>1. PICK v \in host : ~JoyTakes(v) /\ (c # SHIFT => Mapping(v).cell = c)
        BY <1>2, <3>2, <3>3 DEF HeldDown, Holds
      <4>2. v \in host' /\ ~JoyTakes(v)' /\ (c # SHIFT => Mapping(v)'.cell = c)
        BY <4>1, <1>1, <3>0, <3>9
      <4> QED
        BY <4>2, <3>0 DEF Holds
    <3>4. CASE c \notin kb.target
      <4>1. ~JoyTakes(vk) /\ kb' = d
        BY <1>1, <2>2, <3>1, <3>4
      <4>2. c = Mapping(vk).cell \/ c = SHIFT
        BY <4>1, <1>3, <3>1, <3>4
      <4>3. vk \in host' /\ ~JoyTakes(vk)' /\ (c # SHIFT => Mapping(vk)'.cell = c)
        BY <4>1, <4>2, <1>1, <3>0, <3>9
      <4> QED
        BY <4>3, <3>0 DEF Holds
    <3> QED
      BY <3>3, <3>4
  <2> QED
    BY <2>1, <2>2
<1> QED
  BY <1>4, <1>5, <1>6 DEF KeyboardGood

\* A key goes up.
LEMMA UpKeeps ==
  ASSUME KeyboardGood, NEW vk \in DOMAIN VK_MAP, KeyUp(vk)
  PROVE  KeyboardGood'
<1> DEFINE d == ReleaseOn(kb, Mapping(vk), shift_held(host'))
<1>1. /\ vk \in host /\ host' = host \ {vk} /\ osd' = osd /\ stuck' = stuck \cap kb'.target
      /\ mapper' = mapper /\ joy' = [joy EXCEPT !.keys = @ \ {vk}]
      /\ kb' = IF osd \/ JoyTakes(vk) THEN kb ELSE d
  BY Zenon DEF KeyUp, JoyRelease
<1>2. /\ Steady(kb) /\ DOMAIN joy = {"mode", "keys"} /\ host \subseteq DOMAIN VK_MAP /\ HeldDown
      /\ joy.keys \subseteq host
  BY DEF KeyboardGood
<1>3. /\ Steady(d) /\ d.target \subseteq kb.target \ {Mapping(vk).cell}
      /\ SHIFT \in d.target => shift_held(host')
  <2>1. shift_held(host') \in BOOLEAN
    BY DEF shift_held
  <2> QED
    BY <1>2, <2>1, MappingCell, ReleaseSteady
<1> HIDE DEF d
<1>4. Steady(kb')
  BY <1>1, <1>2, <1>3
<1>5. DOMAIN joy' = {"mode", "keys"} /\ joy'.mode = joy.mode /\ joy'.keys \subseteq host' /\ host' \subseteq DOMAIN VK_MAP
  BY <1>1, <1>2
<1>6. HeldDown'
  <2>1. CASE osd
    <3>1. kb'.target \subseteq stuck'
      BY <1>1, <1>2, <2>1, AllStuck
    <3> QED
      BY <3>1, StuckHeld
  <2>2. CASE ~osd
    <3>0. /\ ~osd' /\ \A v : JoyTakes(v)' = JoyTakes(v)
      BY <1>1, <1>5, <2>2 DEF JoyTakes
    <3>9. \A v : Mapping(v)' = Mapping(v)
      BY <1>1 DEF Mapping, Bound
    <3>1. SUFFICES ASSUME NEW c \in kb'.target \ stuck' PROVE ~osd' /\ Holds(c)'
      BY DEF HeldDown
    <3>2. c \notin stuck /\ c \in kb.target
      BY <1>1, <1>3, <3>1
    <3>3. PICK v \in host : ~JoyTakes(v) /\ (c # SHIFT => Mapping(v).cell = c)
      BY <1>2, <3>2 DEF HeldDown, Holds
    <3>4. CASE v # vk
      <4>1. v \in host' /\ ~JoyTakes(v)' /\ (c # SHIFT => Mapping(v)'.cell = c)
        BY <3>3, <3>4, <1>1, <3>0, <3>9
      <4> QED
        BY <4>1, <3>0 DEF Holds
    <3>5. CASE v = vk
      <4>1. kb' = d
        BY <1>1, <2>2, <3>3, <3>5
      <4>2. c = SHIFT /\ shift_held(host')
        BY <4>1, <1>3, <3>1, <3>3, <3>5
      <4>3. PICK s \in host' : ShiftKey(s)
        BY <4>2 DEF shift_held
      <4>4. ~JoyTakes(s)
        BY <4>3, <1>1, <1>2, KeyboardAssumption DEF JoyTakes, ShiftKey
      <4>5. s \in host' /\ ~JoyTakes(s)'
        BY <4>3, <4>4, <3>0
      <4> QED
        BY <4>2, <4>5, <3>0 DEF Holds
    <3> QED
      BY <3>4, <3>5
  <2> QED
    BY <2>1, <2>2
<1> QED
  BY <1>4, <1>5, <1>6 DEF KeyboardGood

\* The menus: the keyboard is the supervisor's, and what is down is stuck.
LEMMA MenuKeeps ==
  ASSUME KeyboardGood, kb' = kb, host' = host, DOMAIN joy' = {"mode", "keys"}, joy'.keys \subseteq joy.keys,
         kb.target \subseteq stuck'
  PROVE  KeyboardGood'
<1>1. HeldDown'
  BY StuckHeld
<1>2. Steady(kb')
  BY DEF KeyboardGood
<1> QED
  BY <1>1, <1>2 DEF KeyboardGood

\* Every step keeps the invariant.
LEMMA KeyboardKeeps == KeyboardGood /\ [KeyboardNext]_kvars => KeyboardGood'
<1> SUFFICES ASSUME KeyboardGood, [KeyboardNext]_kvars PROVE KeyboardGood'
  OBVIOUS
<1>0. /\ Steady(kb) /\ DOMAIN joy = {"mode", "keys"} /\ host \subseteq DOMAIN VK_MAP /\ HeldDown
      /\ joy.keys \subseteq host
  BY DEF KeyboardGood
<1>1. CASE \E vk \in DOMAIN VK_MAP : KeyDown(vk) \/ KeyUp(vk)
  BY <1>1, DownKeeps, UpKeeps
<1>2. CASE Tick
  <2>1. kb' = tick_key_queue(kb) /\ host' = host /\ osd' = osd /\ mapper' = mapper /\ joy' = joy /\ stuck' = stuck
    BY <1>2 DEF Tick
  <2>2. Steady(kb') /\ kb'.target = kb.target
    BY <1>0, <2>1, TickSteady
  <2>3. HeldDown'
    BY <1>0, <2>1, <2>2 DEF HeldDown, Holds, JoyTakes, Mapping, Bound
  <2> QED
    BY <1>0, <2>1, <2>2, <2>3 DEF KeyboardGood
<1>3. CASE supervisor_toggle
  <2>1. kb' = kb /\ host' = host /\ joy' = joy /\ stuck' = IF osd THEN stuck ELSE kb.target
    BY <1>3 DEF supervisor_toggle
  <2>2. kb.target \subseteq stuck'
    BY <1>0, <2>1, AllStuck
  <2> QED
    BY <1>0, <2>1, <2>2, MenuKeeps
<1>4. CASE km_start_capture \/ EndCapture \/ km_popup_on_key \/ hal_keyboard_remap_clear_all \/ hal_joystick_set_kbd_mode
  <2>1. osd /\ kb' = kb /\ host' = host /\ stuck' = stuck
    BY <1>4 DEF km_start_capture, EndCapture, km_popup_on_key, hal_keyboard_remap_clear_all, hal_joystick_set_kbd_mode
  <2>2. DOMAIN joy' = {"mode", "keys"} /\ joy'.keys \subseteq joy.keys
    <3>1. CASE hal_joystick_set_kbd_mode
      BY <3>1 DEF hal_joystick_set_kbd_mode
    <3>2. CASE ~hal_joystick_set_kbd_mode
      <4>1. joy' = joy
        BY <1>4, <3>2 DEF km_start_capture, EndCapture, km_popup_on_key, hal_keyboard_remap_clear_all
      <4> QED
        BY <4>1, <1>0
    <3> QED
      BY <3>1, <3>2
  <2>3. kb.target \subseteq stuck'
    BY <1>0, <2>1, AllStuck
  <2> QED
    BY <2>1, <2>2, <2>3, MenuKeeps
<1>5. CASE UNCHANGED kvars
  <2>1. kb' = kb /\ host' = host /\ osd' = osd /\ mapper' = mapper /\ joy' = joy /\ stuck' = stuck
    BY <1>5 DEF kvars
  <2>2. Steady(kb')
    BY <1>0, <2>1
  <2>3. HeldDown'
    BY <1>0, <2>1 DEF HeldDown, Holds, JoyTakes, Mapping, Bound
  <2> QED
    BY <1>0, <2>1, <2>2, <2>3 DEF KeyboardGood
<1> QED
  BY <1>1, <1>2, <1>3, <1>4, <1>5 DEF KeyboardNext

\* At power on nothing is down and nothing is queued.
LEMMA KeyboardStarts == KeyboardInit => KeyboardGood
<1> SUFFICES ASSUME KeyboardInit PROVE KeyboardGood
  OBVIOUS
<1> DEFINE ages == [c \in Cells |-> AGE_MAX]
<1>1. kb = [matrix |-> {}, target |-> {}, keyq |-> <<>>, age |-> ages, wrong |-> FALSE]
  BY DEF KeyboardInit
<1>2. host = {} /\ DOMAIN joy = {"mode", "keys"} /\ joy.keys = {}
  <2>1. PICK m \in {"off", "on"} : joy = [mode |-> m, keys |-> {}]
    BY DEF KeyboardInit
  <2> QED
    BY <2>1 DEF KeyboardInit
<1> HIDE DEF ages
<1>3. /\ DOMAIN kb = {"matrix", "target", "keyq", "age", "wrong"} /\ kb.keyq = <<>> /\ kb.target = {}
      /\ kb.matrix = {} /\ ~kb.wrong
  BY <1>1
<1>4. kb.keyq \in Seq(Change) /\ Len(kb.keyq) = 0 /\ 1 .. Len(kb.keyq) = {}
  BY <1>3
<1>5. Steady(kb)
  BY <1>3, <1>4, KeyboardAssumption DEF Steady, IsKb, QueueTypes, ShiftsKept
<1>6. HeldDown
  BY <1>3 DEF HeldDown
<1> QED
  BY <1>2, <1>5, <1>6 DEF KeyboardGood

\* Characters arrive in sequence, each under the SHIFT it was typed with, and nothing stays down.
THEOREM KeyboardCorrect == KeyboardSpec => []KeyboardFaithful
<1>0. (KeyboardIInv <=> KeyboardGood) /\ (KeyboardIInv <=> KeyboardGood)'
  BY GoodIs, PTL
<1>1. KeyboardInit => KeyboardIInv
  BY <1>0, KeyboardStarts
<1>2. KeyboardIInv /\ [KeyboardNext]_kvars => KeyboardIInv'
  BY <1>0, KeyboardKeeps
<1>3. KeyboardIInv => KeyboardFaithful
  <2> SUFFICES ASSUME KeyboardIInv PROVE KeyboardFaithful
    OBVIOUS
  <2>1. TypedAsMeant
    BY DEF KeyboardIInv
  <2>2. NothingSticks
    BY DEF KeyboardIInv, NothingSticks, HeldDown, Holds
  <2> QED
    BY <2>1, <2>2 DEF KeyboardFaithful
<1> QED
  BY <1>1, <1>2, <1>3, PTL DEF KeyboardSpec

=============================================================================

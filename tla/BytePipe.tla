------------------------------ MODULE BytePipe ------------------------------
(***************************************************************************)
(* What the Becker port promises its two users: a bounded FIFO queue of     *)
(* bytes in each direction.  A byte is delivered at most once, in order,    *)
(* unaltered; a flush removes the oldest bytes and nothing else.            *)
(***************************************************************************)
EXTENDS Naturals, Sequences

CONSTANTS Byte, RxCap, TxCap

VARIABLES
  toCoco,      \* bytes on their way to the CoCo
  toServer,    \* bytes on their way to the DriveWire server
  cocoGot,     \* the last byte the CoCo took
  serverGot    \* the last chunk the back end took

vars == <<toCoco, toServer, cocoGot, serverGot>>

Init ==
  /\ toCoco = <<>> /\ toServer = <<>>
  /\ cocoGot = <<>> /\ serverGot = <<>>

CocoSend(b) ==
  /\ Len(toServer) < TxCap
  /\ toServer' = Append(toServer, b)
  /\ UNCHANGED <<toCoco, cocoGot, serverGot>>

CocoTake ==
  /\ toCoco # <<>>
  /\ cocoGot' = <<Head(toCoco)>>
  /\ toCoco' = Tail(toCoco)
  /\ UNCHANGED <<toServer, serverGot>>

ServerSend ==
  /\ Len(toCoco') \in Len(toCoco) .. RxCap
  /\ SubSeq(toCoco', 1, Len(toCoco)) = toCoco
  /\ UNCHANGED <<toServer, cocoGot, serverGot>>

ServerTake ==
  \E n \in 0 .. Len(toServer) :
    /\ serverGot' = SubSeq(toServer, 1, n)
    /\ toServer' = SubSeq(toServer, n + 1, Len(toServer))
    /\ UNCHANGED <<toCoco, cocoGot>>

DropToCoco ==
  \E n \in 1 .. Len(toCoco) :
    /\ toCoco' = SubSeq(toCoco, n + 1, Len(toCoco))
    /\ UNCHANGED <<toServer, cocoGot, serverGot>>

DropToServer ==
  \E n \in 1 .. Len(toServer) :
    /\ toServer' = SubSeq(toServer, n + 1, Len(toServer))
    /\ UNCHANGED <<toCoco, cocoGot, serverGot>>

Next ==
  \/ \E b \in Byte : CocoSend(b)
  \/ CocoTake \/ ServerSend \/ ServerTake \/ DropToCoco \/ DropToServer

Spec == Init /\ [][Next]_vars
=============================================================================

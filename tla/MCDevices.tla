----------------------------- MODULE MCDevices ------------------------------
(* The sound feed, the RS-232 Pak, the radio and the hard disk, each on its   *)
(* own: `part` names the one that runs, the others keep one initial state.    *)
(* Two hard disk drives and one image of up to two sectors.                   *)
EXTENDS AudioFeed, Acia, Wifi, Vhd

CONSTANTS f1, a, zero

MCFile == {f1}
MCVal == {a, zero}

\* The properties make no claim once an image is in both drives.
OneDriveEach == shared = {}

VARIABLE part

IdleDevices(on) ==
  /\ on # "audio" => UNCHANGED afvars
  /\ on # "acia" => UNCHANGED avars
  /\ on # "wifi" => UNCHANGED wvars
  /\ on # "vhd" => UNCHANGED vhdVars

DevicesInit ==
  /\ part \in {"audio", "acia", "wifi", "vhd"}
  /\ FeedInit /\ AciaInit /\ WifiInit /\ VhdInit
  /\ part # "wifi" => nvs.ssid = NONE /\ nvs.dw_host = NONE /\ nvs.bus_mode = "off" /\ ~nvs.auto
  /\ part # "vhd" => card[f1].len = 0

DevicesNext ==
  /\ \/ part = "audio" /\ FeedNext
     \/ part = "acia" /\ AciaNext
     \/ part = "wifi" /\ WifiNext
     \/ part = "vhd" /\ VhdNext
  /\ IdleDevices(part) /\ UNCHANGED part

DevicesSpec == DevicesInit /\ [][DevicesNext]_<<part, afvars, avars, wvars, vhdVars>>

\* What the running part depends on: no local of a core before it is set again, no register
\* or place in a ring without a byte, no position that the next access leaves behind, no
\* content that the card lost, nor the hard disk's status and the sector it read last.
Position(bf) ==
  IF bf.file = NoHandle THEN [bf EXCEPT !.pos = UNKNOWN, !.last_write = FALSE]
  ELSE IF bf.pos = UNKNOWN THEN [bf EXCEPT !.last_write = FALSE, !.file.at = UNKNOWN, !.file.write = FALSE]
  ELSE bf
Left(f) == [truth[f] EXCEPT !.data = [s \in Sector |-> IF s \in lost[f] THEN Zero ELSE @[s]]]
Producer ==
  CASE ppc \in {"fill", "publish"} -> <<ppc, pwr>>
    [] ppc = "steer" -> <<ppc, pfill, took>>
    [] OTHER -> <<ppc>>
Consumer ==
  CASE opc = "poll" -> <<opc>>
    [] opc = "refill" -> <<opc, upto>>
    [] opc = "test" -> <<opc, upto, cstride>>
    [] opc = "take" -> <<opc, upto, cstride, crd, chave>>
    [] OTHER -> <<opc, upto, cstride, crd>>
Pak ==
  [chip EXCEPT !.rx_data = IF chip.rdrf THEN @ ELSE 0, !.tx_countdown = IF chip.tx_busy THEN @ ELSE 1]
MCView ==
  <<part,
    CASE part = "audio" ->
           <<feedvars, made, Producer, Consumer, frac, word, last, wrong, dma, next, fresh, passed, started>>
      [] part = "acia" -> <<Pak, Ring(serial), serial.head, serial.uart, rs232, wire, prog>>
      [] part = "wifi" -> wvars
      [] part = "vhd" -> <<[d \in Drive |-> Position(s_drive[d])], card, regs, [f \in File |-> Left(f)], lost, shared>>>>
=============================================================================

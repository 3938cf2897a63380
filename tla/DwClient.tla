------------------------------ MODULE DwClient ------------------------------
(***************************************************************************)
(* The external DriveWire back end (src/src/net/dw_client.cpp) driving the  *)
(* Becker port: client_task() and run_link() on core 0, the CoCo program,   *)
(* machine_reset() and dw_client_shutdown() on core 1, and a server.        *)
(*                                                                          *)
(* Bytes are tags <<session, epoch>>.  A byte the CoCo writes carries the   *)
(* number of resets before it; a reply carries the TCP session it arrived   *)
(* on and the epoch of the request it answers.  WiFi.status(),              *)
(* wifi_mgr_state(), connected(), connect() and write() may answer anything *)
(* at any time, so they are choices and not state.                          *)
(***************************************************************************)
EXTENDS Becker

CONSTANTS
  MaxSession,      \* bound: successful connects
  MaxEpoch,        \* bound: CoCo resets
  BACKOFF_MIN,     \* 1000 ms
  BACKOFF_MAX      \* 8000 ms

ASSUME BackoffAssumption == BACKOFF_MIN \in Nat \ {0} /\ BACKOFF_MAX \in Nat /\ BACKOFF_MIN <= BACKOFF_MAX
ASSUME BoundAssumption == MaxSession \in Nat /\ MaxEpoch \in Nat

VARIABLES
  dpc,             \* position of client_task / run_link
  s_state,         \* DwClientState
  open,            \* the TCP socket is open
  sock,            \* replies waiting in the socket
  inbox,           \* requests the server has received and not answered
  sess, epoch,     \* connects and resets so far
  was_reset, backoff,
  s_shutdown_req, s_shutdown_done,
  mode             \* core 1: "run", "waiting" in dw_client_shutdown, "restarted"

netVars == <<open, sock, inbox, sess>>
taskVars == <<dpc, s_state, was_reset, backoff, s_shutdown_done>>
hostVars == <<epoch, mode, s_shutdown_req>>
dwVars == <<beckerVars, netVars, taskVars, hostVars>>

Tags == (0 .. MaxSession) \X (0 .. MaxEpoch)

ASSUME TagAssumption == Byte = Tags

DwInit ==
  /\ Init
  /\ dpc = "top" /\ s_state = "wait_wifi"
  /\ open = FALSE /\ sock = <<>> /\ inbox = <<>>
  /\ sess = 0 /\ epoch = 0
  /\ was_reset = FALSE /\ backoff = BACKOFF_MIN
  /\ s_shutdown_req = FALSE /\ s_shutdown_done = FALSE
  /\ mode = "run"

-----------------------------------------------------------------------------
(* Core 1.                                                                  *)

CocoReset ==
  /\ mode = "run" /\ epoch < MaxEpoch
  /\ ResetBegin
  /\ epoch' = epoch + 1
  /\ UNCHANGED <<netVars, taskVars, mode, s_shutdown_req>>

CocoCall ==
  /\ mode = "run"
  /\ ReadStatusBegin \/ ReadDataBegin \/ WriteBegin(<<0, epoch>>) \/ ScanlineTick
  /\ UNCHANGED <<netVars, taskVars, hostVars>>

CocoStep == CpuStep /\ UNCHANGED <<netVars, taskVars, hostVars>>

\* dw_client_shutdown(): the request and the wake-up ...
ShutdownBegin ==
  /\ mode = "run" /\ cpc = "idle"
  /\ s_shutdown_req' = TRUE
  /\ notified' = TRUE
  /\ mode' = "waiting"
  /\ UNCHANGED <<rxRing, txRing, flushVars, g_becker_tx_pending, link_up, coreOneVars,
                 coreZeroVars, netVars, taskVars, epoch>>

\* ... and the return, on the answer or on the 300 ms timeout; then esp_restart().
ShutdownEnd ==
  /\ mode = "waiting"
  /\ mode' = "restarted"
  /\ UNCHANGED <<beckerVars, netVars, taskVars, epoch, s_shutdown_req>>

-----------------------------------------------------------------------------
(* Core 0.  A client step needs the device to run and the Becker function   *)
(* called before to have returned.                                          *)

At(pos) == dpc = pos /\ bpc = "ready" /\ mode # "restarted"
Goto(pos) == dpc' = pos

\* Mutants: a turn of run_link() that overlooks the reset, a read larger than the ring.
EndsOnShutdownOnly == s_shutdown_req
FitsBuffer(n) == n <= POP_MAX

\* run_link() returns for a reset or a shutdown request.
LinkMustEnd == reset_req \/ s_shutdown_req

\* c.stop() sends FIN.
CloseSocket == open' = FALSE /\ sock' = <<>> /\ inbox' = <<>>

\* The clamps on the number of bytes read from the socket.
Fits(n) == n <= RxSpace /\ n <= POP_MAX

NextBackoff == IF backoff * 2 > BACKOFF_MAX THEN BACKOFF_MAX ELSE backoff * 2

Top ==
  /\ At("top")
  /\ \/ /\ s_shutdown_req
        /\ s_state' = "idle" /\ s_shutdown_done' = TRUE /\ Goto("halt")
     \/ /\ ~s_shutdown_req                       \* WiFi is not up
        /\ s_state' = "wait_wifi" /\ Goto("top") /\ UNCHANGED s_shutdown_done
     \/ /\ ~s_shutdown_req
        /\ s_state' = "connecting" /\ Goto("connect") /\ UNCHANGED s_shutdown_done
  /\ UNCHANGED <<beckerVars, netVars, was_reset, backoff, hostVars>>

\* connect() succeeds; becker_clear_reset() follows at once.
ConnectOk ==
  /\ At("connect") /\ sess < MaxSession
  /\ open' = TRUE /\ sess' = sess + 1 /\ sock' = <<>> /\ inbox' = <<>>
  /\ ClearBegin
  /\ Goto("linked")
  /\ UNCHANGED <<s_state, was_reset, backoff, s_shutdown_done, hostVars>>

ConnectFail ==
  /\ At("connect")
  /\ Goto("backoff")
  /\ UNCHANGED <<beckerVars, netVars, s_state, was_reset, backoff, s_shutdown_done, hostVars>>

Linked ==
  /\ At("linked")
  /\ s_state' = "connected"
  /\ LinkUp
  /\ backoff' = BACKOFF_MIN
  /\ Goto("loop")
  /\ UNCHANGED <<netVars, was_reset, s_shutdown_done, hostVars>>

\* One turn of run_link(): wait for a wake-up or the poll period, then look at
\* the socket and the two requests.
Loop ==
  /\ At("loop")
  /\ notified' = FALSE
  /\ \/ Goto("ended")                            \* connected() is false
     \/ Goto(IF LinkMustEnd THEN "ended" ELSE "tx")
  /\ UNCHANGED <<rxRing, txRing, flushVars, g_becker_tx_pending, link_up, coreOneVars,
                 coreZeroVars, netVars, s_state, was_reset, backoff, s_shutdown_done, hostVars>>

Pop ==
  /\ At("tx")
  /\ PopBegin
  /\ Goto("write")
  /\ UNCHANGED <<netVars, s_state, was_reset, backoff, s_shutdown_done, hostVars>>

\* while ((n = becker_tx_pop(...)) > 0) if (c.write(buf, n) != n) return;
SockWrite ==
  /\ At("write")
  /\ \/ popped = <<>> /\ Goto("rx") /\ UNCHANGED inbox
     \/ popped # <<>> /\ Goto("tx") /\ inbox' = inbox \o popped
     \/ popped # <<>> /\ Goto("ended") /\ UNCHANGED inbox
  /\ UNCHANGED <<beckerVars, open, sock, sess, s_state, was_reset, backoff, s_shutdown_done,
                 hostVars>>

\* Read from the socket no more than the RX ring can take.
SockRead ==
  /\ At("rx")
  /\ \/ /\ sock = <<>> \/ RxSpace = 0
        /\ Goto("wifi") /\ UNCHANGED <<bbuf, sock>>
     \/ \E n \in 1 .. Len(sock) :
          /\ Fits(n)
          /\ bbuf' = SubSeq(sock, 1, n)
          /\ sock' = SubSeq(sock, n + 1, Len(sock))
          /\ Goto("push")
  /\ UNCHANGED <<rxRing, txRing, flushVars, wakeVars, link_up, coreOneVars, bpc, bn, popped,
                 open, inbox, sess, s_state, was_reset, backoff, s_shutdown_done, hostVars>>

Push ==
  /\ At("push")
  /\ PushBegin(bbuf)
  /\ Goto("rx")
  /\ UNCHANGED <<netVars, s_state, was_reset, backoff, s_shutdown_done, hostVars>>

WifiCheck ==
  /\ At("wifi")
  /\ Goto("loop") \/ Goto("ended")
  /\ UNCHANGED <<beckerVars, netVars, s_state, was_reset, backoff, s_shutdown_done, hostVars>>

\* run_link() has returned: note the reset, then stop() the socket.
Stop ==
  /\ At("ended")
  /\ was_reset' = reset_req
  /\ CloseSocket
  /\ Goto("stopped")
  /\ UNCHANGED <<beckerVars, sess, s_state, backoff, s_shutdown_done, hostVars>>

Stopped ==
  /\ At("stopped")
  /\ \/ s_shutdown_req /\ Goto("top") /\ UNCHANGED beckerVars
     \/ ~s_shutdown_req /\ DownBegin /\ Goto("down")
  /\ UNCHANGED <<netVars, s_state, was_reset, backoff, s_shutdown_done, hostVars>>

\* After a reset reconnect at once, after a link loss back off first.
Down ==
  /\ At("down")
  /\ Goto(IF was_reset THEN "top" ELSE "backoff")
  /\ UNCHANGED <<beckerVars, netVars, s_state, was_reset, backoff, s_shutdown_done, hostVars>>

Backoff ==
  /\ At("backoff")
  /\ s_state' = "backoff"
  /\ backoff' = NextBackoff
  /\ Goto("top")
  /\ UNCHANGED <<beckerVars, netVars, was_reset, s_shutdown_done, hostVars>>

ClientStep == mode # "restarted" /\ BackendStep /\ UNCHANGED <<netVars, taskVars, hostVars>>

Client ==
  \/ Top \/ ConnectOk \/ ConnectFail \/ Linked \/ Loop \/ Pop \/ SockWrite \/ SockRead
  \/ Push \/ WifiCheck \/ Stop \/ Stopped \/ Down \/ Backoff \/ ClientStep

\* The server answers the requests of a session in order.
ServerReply ==
  /\ open /\ inbox # <<>> /\ mode # "restarted"
  /\ sock' = Append(sock, <<sess, Head(inbox)[2]>>)
  /\ inbox' = Tail(inbox)
  /\ UNCHANGED <<beckerVars, open, sess, taskVars, hostVars>>

DwNext ==
  \/ CocoReset \/ CocoCall \/ CocoStep \/ ShutdownBegin \/ ShutdownEnd
  \/ Client \/ ServerReply

DwSpec == DwInit /\ [][DwNext]_dwVars
FairDwSpec == DwSpec /\ WF_dwVars(Client) /\ WF_dwVars(CocoStep)

-----------------------------------------------------------------------------
DwTypeOK ==
  /\ TypeOK
  /\ dpc \in {"top", "connect", "linked", "loop", "tx", "write", "rx", "push", "wifi",
              "ended", "stopped", "down", "backoff", "halt"}
  /\ s_state \in {"idle", "wait_wifi", "connecting", "connected", "backoff"}
  /\ open \in BOOLEAN /\ sock \in Seq(Tags) /\ inbox \in Seq(Tags)
  /\ sess \in 0 .. MaxSession /\ epoch \in 0 .. MaxEpoch
  /\ was_reset \in BOOLEAN /\ backoff \in BACKOFF_MIN .. BACKOFF_MAX
  /\ s_shutdown_req \in BOOLEAN /\ s_shutdown_done \in BOOLEAN
  /\ mode \in {"run", "waiting", "restarted"}

\* run_link() ignores what becker_rx_push() returns: every push must take all
\* the bytes, although rx_space() was read before the socket and the CoCo and
\* its resets move rx_tail in between.
PushTakesAll == bpc = "push_copy" => bn = Len(bbuf)

\* The bytes between the old and the new tail of a ring.
Skipped(buf, size, tail, newTail) ==
  {buf[Add(tail, i) % size] : i \in 0 .. Sub(newTail, tail) - 1}

\* A flush of the RX ring (asked for when a link went down, served whenever the
\* CoCo next looks) never eats bytes of the session that is open by then.
FlushSparesNewLink ==
  [][cpc = "idle" /\ cpc' \in {"clear_status", "clear_look"} /\ open =>
       \A b \in Skipped(rx_buf, RX_SIZE, rx_tail, rx_tail') : b[1] < sess]_dwVars

\* A flush of the TX ring (becker_tx_pop, becker_clear_reset) never eats what
\* the CoCo wrote after its last reset.
FlushSparesNewCommand ==
  [][bpc' \in {"pop_clear", "clear_flush", "down_flush"} /\ bpc' # bpc =>
       \A b \in Skipped(tx_buf, TX_SIZE, tx_tail, tx_tail') : b[2] < epoch]_dwVars

\* A flush eats nothing newer than what it was asked for, in either ring, however
\* late it is served (service_rx_flush(), becker_tx_pop(), becker_clear_reset()).
FlushSparesNew == FlushSparesNewLink /\ FlushSparesNewCommand

\* The restart handshake: once the task reports done, the server has been sent
\* its FIN and no session is left behind.
ShutdownClosesSocket == s_shutdown_done => ~open /\ s_state = "idle"

\* What holds in every state of client and port: types (the back-off within its
\* limits), no byte lost between socket and ring, no socket left by a restart.
DwInv == DwTypeOK /\ PushTakesAll /\ ShutdownClosesSocket

\* Behind DwInv: where the client is says whether the socket is open, and what it is
\* about to push has been counted against the ring.
ClientInv ==
  /\ dpc \in {"top", "connect", "stopped", "down", "backoff", "halt"} => ~open
  /\ bpc \in {"down_clear", "down_flush", "down_req", "down_drop", "down_mark", "down_ask",
              "down_end"} => dpc = "down"
  /\ s_shutdown_done => dpc = "halt"
  /\ dpc = "halt" => s_state = "idle"
  /\ dpc = "push" => bpc = "ready" /\ Len(bbuf) \in 1 .. POP_MAX /\ Len(bbuf) <= RxSpace

\* The byte a ring holds for the r-th byte accepted since the start.
RxAt(r) == rx_buf[Add(START, r) % RX_SIZE]
TxAt(r) == tx_buf[Add(START, r) % TX_SIZE]

\* Behind FlushSparesNew: no reply is from a later session and, with the link up, those
\* before the mark are from an earlier one; of the commands, those before the mark were
\* written before the last reset.
RxTagInv ==
  /\ \A r \in Run(rx_tail) .. rx_total - 1 :
       RxAt(r)[1] <= sess /\ (open /\ r < Run(rx_flush_mark) => RxAt(r)[1] < sess)
  /\ \A i \in 1 .. Len(sock) : sock[i][1] <= sess
  /\ dpc = "push" \/ bpc \in {"push_copy", "push_publish"} =>
       \A i \in 1 .. Len(bbuf) : bbuf[i][1] <= sess
TxTagInv ==
  /\ \A r \in Run(tx_tail) .. bytes_from_coco - 1 :
       /\ TxAt(r)[2] <= epoch
       /\ r < Run(tx_flush_mark) \/ cpc = "reset_mark" => TxAt(r)[2] < epoch
  /\ cpc \in {"fill", "publish"} => cbyte[2] <= epoch

\* A reset that finds the link up makes the back end drop it.
Linking == dpc \in {"loop", "tx", "write", "rx", "push", "wifi"}
ResetDropsLink == (reset_req /\ Linking) ~> (~open \/ mode = "restarted")

\* A restart request is answered wherever the task is, back-off and connect included.
ShutdownAnswered == s_shutdown_req ~> (s_shutdown_done \/ mode = "restarted")

\* What the CoCo wrote before the link came up or during it leaves the TX ring.
TxDrains == (TxUsed > 0 /\ Linking) ~> (TxUsed = 0 \/ ~open \/ mode = "restarted")

\* The back-end task gets to everything asked of it, wherever it is: a CoCo reset, a
\* restart and bytes to send (client_task(), run_link()).
RequestsServed == ResetDropsLink /\ ShutdownAnswered /\ TxDrains

-----------------------------------------------------------------------------
(* What the comments of becker.cpp say and the code does not ensure.        *)

\* "a reply still in flight for a pre-reset request can't land in the RX ring
\* and desync the next transaction" (becker.cpp:45-46): the CoCo never takes
\* the answer to a request it made before its last reset.
NoStaleReply == cpc = "take" => cbyte[2] = epoch
=============================================================================

------------------------------- MODULE Wifi -------------------------------
(***************************************************************************)
(* The WiFi manager (wifi_mgr.cpp), what the WiFi screen asks of it        *)
(* (sv_wifi.cpp) and the DriveWire bus settings that survive a restart     *)
(* (dw_bus.cpp).  All calls are made on core 1, one at a time; the radio   *)
(* joins and loses networks by itself.  WiFi.begin() makes it keep trying  *)
(* until WiFi.disconnect() or a change of mode.                            *)
(***************************************************************************)
EXTENDS Naturals

CONSTANTS
  SSIDS,        \* network names
  HOSTS,        \* DriveWire server names
  NONE,         \* the empty string
  WIFI_CONNECT_TIMEOUT   \* ticks an attempt may take

ASSUME WifiAssumption == NONE \notin SSIDS \cup HOSTS /\ WIFI_CONNECT_TIMEOUT \in Nat

VARIABLES
  mgr,      \* wifi_mgr.cpp's statics: state, age of the attempt, s_scan_powered_radio, s_ssid
  radio,    \* external: mode, network it was told to join, link up
  nvs,      \* namespace "sv": wifi_ssid, wifi_auto, bus_mode, dw_host
  bus,      \* dw_bus.cpp's statics, and the cartridge ROM asked for
  view,     \* the WiFi screen's view
  user      \* the user has used the screen since the start; a live radio was left without an owner

wvars == <<mgr, radio, nvs, bus, view, user>>

-----------------------------------------------------------------------------
(* External: the Arduino WiFi library.                                      *)

Mode(m) == IF m = radio.mode THEN radio ELSE [mode |-> m, join |-> NONE, up |-> FALSE]
Disconnected(r) == [r EXCEPT !.join = NONE, !.up = FALSE]
Joining(s) == [mode |-> "sta", join |-> s, up |-> FALSE]

\* The access point answers, at any time after begin(), or the link is lost.
StationUp ==
  /\ radio.join # NONE /\ ~radio.up
  /\ radio' = [radio EXCEPT !.up = TRUE]
  /\ UNCHANGED <<mgr, nvs, bus, view, user>>

StationDown ==
  /\ radio.up
  /\ radio' = [radio EXCEPT !.up = FALSE]
  /\ UNCHANGED <<mgr, nvs, bus, view, user>>

-----------------------------------------------------------------------------
(* Calls that several handlers share, as the values they leave.             *)

begin_sta(s) == [state |-> "connecting", age |-> 0, scan_powered |-> FALSE, ssid |-> s]

\* wifi_mgr_connect_saved(): without credentials only the state changes.
connect_saved(s, creds, r) ==
  IF creds = NONE THEN <<[s EXCEPT !.state = "off"], r>> ELSE <<begin_sta(creds), Joining(creds)>>

\* wifi_mgr_scan(): an attempt that is pending or timed out is dropped.
Drops(s) == s \in {"connecting", "failed"}

\* Mutant: the scan answers only for a radio it switched on, not for one it took over.
AnswersForPowerOnly(dropped) == radio.mode = "off"
AnswersForRadio(dropped) == dropped \/ radio.mode = "off"

wifi_mgr_scan ==
  LET dropped == Drops(mgr.state)
      r == IF dropped THEN Disconnected(radio) ELSE radio
  IN  <<[mgr EXCEPT !.state = IF dropped THEN "off" ELSE @,
                    !.scan_powered = @ \/ AnswersForRadio(dropped)],
        IF r.mode = "off" THEN Mode("sta") ELSE r>>

\* wifi_mgr_scan_free(): only a radio that the scan answers for is switched off.
PowersDown(s) == s.scan_powered /\ s.state \in {"off", "failed"}
wifi_mgr_scan_free(s, r) ==
  <<[s EXCEPT !.scan_powered = FALSE],
    IF PowersDown(s) THEN [mode |-> "off", join |-> NONE, up |-> FALSE] ELSE r>>

\* dw_bus_load_config(): External needs a host and the Becker rings.
dw_bus_load_config(rings) ==
  LET on == nvs.bus_mode = "external" /\ nvs.dw_host # NONE /\ rings
  IN  [mode |-> IF on THEN "external" ELSE "off", host |-> nvs.dw_host, hdbdos |-> on]

-----------------------------------------------------------------------------
\* setup(): the bus settings, wifi_mgr_init(), auto-connect, then dw_bus_begin().
dw_bus_begin(b, s, r) ==
  IF b.mode = "external" /\ s.state = "off" /\ nvs.ssid # NONE THEN connect_saved(s, nvs.ssid, r) ELSE <<s, r>>

Booted(rings) ==
  LET b == dw_bus_load_config(rings)
      s == [state |-> "off", age |-> 0, scan_powered |-> FALSE, ssid |-> nvs.ssid]
      r == [mode |-> "off", join |-> NONE, up |-> FALSE]
      auto == IF nvs.auto THEN connect_saved(s, nvs.ssid, r) ELSE <<s, r>>
      up == dw_bus_begin(b, auto[1], auto[2])
  IN  /\ bus' = b /\ mgr' = up[1] /\ radio' = up[2]
      /\ view' = "main" /\ user' = [touched |-> FALSE, disowned |-> FALSE]

Boot == mgr.state = "reset" /\ \E rings \in BOOLEAN : Booted(rings) /\ UNCHANGED nvs

WifiInit ==
  /\ mgr = [state |-> "reset", age |-> 0, scan_powered |-> FALSE, ssid |-> NONE]
  /\ radio = [mode |-> "off", join |-> NONE, up |-> FALSE]
  /\ nvs \in [ssid : SSIDS \cup {NONE}, auto : BOOLEAN, bus_mode : {"off", "external"}, dw_host : HOSTS \cup {NONE}]
  /\ bus = [mode |-> "off", host |-> NONE, hdbdos |-> FALSE]
  /\ view = "main" /\ user = [touched |-> FALSE, disowned |-> FALSE]

Running == mgr.state # "reset"
MenuCommand == Running /\ user' = [user EXCEPT !.touched = TRUE]
Owned == Running /\ user' = [touched |-> TRUE, disowned |-> FALSE]

\* wifi_mgr_tick(), each pass of loop(); one tick stands for a share of the timeout.
wifi_mgr_tick ==
  /\ mgr.state = "connecting"
  /\ mgr' = IF radio.up THEN [mgr EXCEPT !.state = "running"]
            ELSE IF mgr.age >= WIFI_CONNECT_TIMEOUT THEN [mgr EXCEPT !.state = "failed"]
            ELSE [mgr EXCEPT !.age = @ + 1]
  /\ UNCHANGED <<radio, nvs, bus, view, user>>

\* scan_networks(): scan, copy the names, free, in one call; the list is shown.
scan_networks ==
  /\ MenuCommand
  /\ LET scan == wifi_mgr_scan
         free == wifi_mgr_scan_free(scan[1], scan[2])
     IN  mgr' = free[1] /\ radio' = free[2]
  /\ view' = "nets"
  /\ UNCHANGED <<nvs, bus>>

\* No memory for the list: nothing is scanned.
ScanWithoutMemory ==
  /\ MenuCommand /\ view = "main" /\ view' = "nets" /\ UNCHANGED <<mgr, radio, nvs, bus>>

\* wifi_mgr_connect(), by net_select() or a typed password, and by load_cfg_file() with enabled=1.
Connects(s) ==
  /\ nvs' = [nvs EXCEPT !.ssid = s, !.auto = TRUE]
  /\ mgr' = begin_sta(s) /\ radio' = Joining(s)
  /\ view' = "main" /\ UNCHANGED bus

net_select == Owned /\ view = "nets" /\ \E s \in SSIDS : Connects(s)
load_cfg_file == Owned /\ view = "main" /\ \E s \in SSIDS : Connects(s)

\* load_cfg_file() with enabled=0: stop, then save.
LoadDisabled ==
  /\ Owned /\ view = "main"
  /\ \E s \in SSIDS : /\ nvs' = [nvs EXCEPT !.ssid = s, !.auto = FALSE]
                      /\ mgr' = [mgr EXCEPT !.state = "off", !.ssid = s]
  /\ radio' = [mode |-> "off", join |-> NONE, up |-> FALSE]
  /\ UNCHANGED <<bus, view>>

wifi_mgr_stop ==
  /\ Owned /\ view = "main"
  /\ mgr' = [mgr EXCEPT !.state = "off"]
  /\ radio' = [mode |-> "off", join |-> NONE, up |-> FALSE]
  /\ UNCHANGED <<nvs, bus, view>>

\* After wifi_mgr_forget() this leaves a connection up that nobody answers for.
wifi_mgr_connect_saved ==
  /\ Running /\ view = "main"
  /\ LET c == connect_saved(mgr, nvs.ssid, radio) IN mgr' = c[1] /\ radio' = c[2]
  /\ user' = [touched |-> TRUE,
              disowned |-> nvs.ssid = NONE /\ (user.disowned \/ mgr.state # "off")]
  /\ UNCHANGED <<nvs, bus, view>>

wifi_mgr_forget ==
  /\ MenuCommand /\ view = "main"
  /\ nvs' = [nvs EXCEPT !.ssid = NONE, !.auto = FALSE]
  /\ mgr' = [mgr EXCEPT !.ssid = NONE]
  /\ UNCHANGED <<radio, bus, view>>

\* Back from the list.
CloseList == view = "nets" /\ view' = "main" /\ UNCHANGED <<mgr, radio, nvs, bus, user>>

\* dw_bus_save_config() and supervisor_save_and_restart(); External is refused without a host.
SaveBus ==
  /\ MenuCommand
  /\ \E m \in {"off", "external"}, h \in HOSTS \cup {NONE} :
       /\ m = "external" => h # NONE
       /\ nvs' = [nvs EXCEPT !.bus_mode = m, !.dw_host = h]
  /\ mgr' = [mgr EXCEPT !.state = "reset"]
  /\ radio' = [mode |-> "off", join |-> NONE, up |-> FALSE]
  /\ UNCHANGED <<bus, view>>

\* External: power is lost and comes back.
PowerLoss ==
  /\ MenuCommand
  /\ mgr' = [mgr EXCEPT !.state = "reset"]
  /\ radio' = [mode |-> "off", join |-> NONE, up |-> FALSE]
  /\ UNCHANGED <<nvs, bus, view>>

WifiNext ==
  \/ Boot \/ StationUp \/ StationDown \/ wifi_mgr_tick \/ scan_networks \/ ScanWithoutMemory
  \/ net_select \/ load_cfg_file \/ LoadDisabled \/ wifi_mgr_stop \/ wifi_mgr_connect_saved
  \/ wifi_mgr_forget \/ CloseList \/ SaveBus \/ PowerLoss

WifiSpec == WifiInit /\ [][WifiNext]_wvars

-----------------------------------------------------------------------------
\* The state shown and the radio agree: nothing scans a used connection away, and a radio the manager
\* calls off is off and joined to nothing, a late answer after the timeout included.  The exception is
\* connect_saved() after forget(), which gives a live connection up without ending it.
RadioOwned ==
  /\ mgr.state \in {"connecting", "running", "failed"} => radio.mode = "sta" /\ radio.join # NONE
  /\ mgr.state = "off" /\ ~user.disowned => radio.mode = "off" /\ ~radio.up
  /\ ~mgr.scan_powered

\* What a restart leaves: HDB-DOS is asked for exactly when there is a port for it, and an External bus
\* does not wait for a radio that nobody switched on.
BusReady ==
  /\ bus.hdbdos = (bus.mode = "external") /\ (bus.mode = "external" => bus.host # NONE)
  /\ bus.mode = "external" /\ ~user.touched /\ Running /\ nvs.ssid # NONE => mgr.state # "off"

\* The radio is on exactly when somebody answers for it, and the bus starts with it
\* (wifi_mgr_scan_free(), begin_sta(), dw_bus_begin()).
RadioAndBus == RadioOwned /\ BusReady

\* Every variable has its type.
WifiTypeOK ==
  /\ mgr \in [state : {"reset", "off", "connecting", "running", "failed"}, age : Nat,
              scan_powered : BOOLEAN, ssid : SSIDS \cup {NONE}]
  /\ radio \in [mode : {"off", "sta"}, join : SSIDS \cup {NONE}, up : BOOLEAN]
  /\ nvs \in [ssid : SSIDS \cup {NONE}, auto : BOOLEAN, bus_mode : {"off", "external"},
              dw_host : HOSTS \cup {NONE}]
  /\ bus \in [mode : {"off", "external"}, host : HOSTS \cup {NONE}, hdbdos : BOOLEAN]
  /\ view \in {"main", "nets"} /\ user \in [touched : BOOLEAN, disowned : BOOLEAN]

\* A radio that is off joins nothing.
OffIsQuiet == radio.mode = "off" => radio.join = NONE /\ ~radio.up

\* The inductive invariant behind RadioAndBus.
WifiIInv == WifiTypeOK /\ RadioAndBus /\ OffIsQuiet
=============================================================================

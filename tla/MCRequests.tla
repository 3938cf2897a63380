---------------------------- MODULE MCRequests ----------------------------
(* The drive controller, the debug bridge and the menus, which serve one     *)
(* request at a time, each on its own: `part` names the one that runs.       *)
(* The drive controller has one drive and one image of one sector of two     *)
(* bytes; its registers take a value in range and one beyond; 14 bytes are   *)
(* the shortest track with an ID field and a sector.                         *)
EXTENDS Fdc, DebugRpc, Supervisor

CONSTANTS d1, f1

MCDrive == {d1}
MCFile == {f1}
MCFill == [i \in 0 .. 1 |-> 0]
MCVal == {MCFill, [i \in 0 .. 1 |-> 1]}

\* The bytes of a track are tried in every order on one setting of the registers
\* and of the drive, up to the end of WRITE TRACK, which no later command takes
\* anything from; mark bytes are of no interest to the other commands.
FormatAlone ==
  IF fdc.write_track
  THEN /\ fdc.stable /\ fdc.track = 0 /\ fdc.sector = 0 /\ fdc.step_direction = -1
       /\ fdc.buf_len = 0 /\ ~fdc.density /\ ~fdc.halt_enable
       /\ fdc.wt_byte_count = 0 =>
            fdc.data = 0 /\ ~drives[d1].dirty /\ files[f1][0] # MCFill
  ELSE fdc.wt_byte_count = 0 /\ {fdc.data, fdc.sector_buf[0], fdc.sector_buf[1]} \subseteq {0, 1}

\* HDB-DOS for both machines, the timeout variant for one.
MCHdbRoms == {<<3, FALSE>>, <<4, FALSE>>, <<4, TRUE>>}

\* Settings that no other depends on, and screens that do not touch the cartridges, the
\* hard disk and the drives, are gone through with those as they are at first.
Aside ==
  {"about", "confirm", "debug_menu", "debug_dump", "dump_name", "fujinet", "joy_sense",
   "keyboard_menu", "keymap_list", "keymap_capture", "keymap_test", "wifi"}
Alone == {"cpu", "ram", "ssc", "live"}
OneTopic ==
  \/ screen \notin Aside /\ live = FirstPrefs.live /\ \A k \in Alone : prefs[k] = FirstPrefs[k]
  \/ \A k \in DOMAIN prefs \ (Alone \cup {"bus", "machine"}) : prefs[k] = FirstPrefs[k]

VARIABLE part

RequestsInit ==
  /\ part \in {"fdc", "rpc", "osd"}
  /\ FdcInit /\ Init /\ SupervisorInit

RequestsNext ==
  /\ \/ part = "fdc" /\ FdcNext /\ UNCHANGED <<vars, svvars>>
     \/ part = "rpc" /\ Next /\ UNCHANGED <<fdcVars, svvars>>
     \/ part = "osd" /\ SupervisorNext /\ UNCHANGED <<fdcVars, vars>>
  /\ UNCHANGED part

\* The fairness of FdcSpec and FairSpec, each for the part that runs.
RequestsSpec ==
  /\ RequestsInit /\ [][RequestsNext]_<<part, fdcVars, vars, svvars>>
  /\ WF_fdcVars(part = "fdc" /\ Tick)
  /\ WF_vars(part = "rpc" /\ LoopPass) /\ WF_vars(part = "rpc" /\ Submit)
=============================================================================

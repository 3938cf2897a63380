-------------------------- MODULE RequestProofs ---------------------------
(***************************************************************************)
(* What core 1 does on request.  For any number of requests and any depth   *)
(* of the key queue: the debug bridge applies no command twice, and a       *)
(* request that starts clean gets its own command's completion.  For any    *)
(* cartridges, images, drives and ROMs on the card, and wherever power is   *)
(* lost between two commits of a save: the settings of the menu agree with  *)
(* each other and with what booted, and a restart does what its question    *)
(* said, but for the part that the power loss tore.                         *)
(***************************************************************************)
EXTENDS DebugRpc, Supervisor, TLAPS

-----------------------------------------------------------------------------
\* The two halves of the type invariant.
Flags ==
  /\ s_done_sem \in BOOLEAN /\ s_paused \in BOOLEAN /\ osd \in BOOLEAN /\ was_paused \in BOOLEAN
  /\ fb \in BOOLEAN /\ clean \in BOOLEAN
Positions ==
  /\ s_cmd_queue \in {<<>>} \cup {<<r>> : r \in 1 .. MaxRequests}
  /\ s_keyq \in Seq(Key) /\ Len(s_keyq) <= KEYQ
  /\ spc \in {"idle", "drain", "send", "wait", "restore"} /\ req \in 0 .. MaxRequests
  /\ kind \in [1 .. MaxRequests -> Kind] /\ reply \in {"none", "ok", "504"}
  /\ lpc \in {"input", "keys", "render", "poll", "exec", "frame", "run"}
  /\ cur \in 0 .. MaxRequests /\ executed \subseteq 1 .. MaxRequests

\* They are all of it.
LEMMA TypeParts == TypeOK <=> Flags /\ Positions
  BY DEF TypeOK, Flags, Positions

\* Nothing is under way before the first request.
LEMMA InitInv ==
  ASSUME Init
  PROVE  RpcIInv
<1>1. TypeOK
  <2>1. Flags
    BY Zenon DEF Init, Flags
  <2>2. Positions
    BY KeyqAssumption DEF Init, Positions, Kind, Key
  <2> QED
    BY <2>1, <2>2, TypeParts
<1>2. InFlight = {}
  BY DEF Init, InFlight
<1>3. CommandOnce /\ CleanRequest /\ PictureHeld
  BY <1>2 DEF Init, CommandOnce, CleanRequest, PictureHeld, Submitting
<1> QED
  BY <1>1, <1>3 DEF RpcIInv

\* Every step keeps the types.
LEMMA NextType ==
  ASSUME TypeOK, CommandOnce, Next
  PROVE  TypeOK'
<1>f. Flags /\ Positions
  BY TypeParts
<1>t. ASSUME Flags', Positions' PROVE TypeOK'
  BY <1>t DEF TypeOK, Flags, Positions
<1>1. ASSUME NEW k \in Kind, NEW p \in BOOLEAN, Request(k, p)
      PROVE  TypeOK'
  <2>1. Flags'
    BY <1>1, <1>f, Zenon DEF Request, Held, Flags
  <2>2. Positions'
    BY <1>1, <1>f, KeyqAssumption DEF Request, loopVars, Positions
  <2> QED
    BY <1>t, <2>1, <2>2
<1>2. CASE Submit
  <2>1. Flags'
    BY <1>2, <1>f, Zenon DEF Submit, Drain, Send, Complete, Timeout, Return, Restore, Flags
  <2>2. spc = "send" => req \in 1 .. MaxRequests
    BY <1>f, KeyqAssumption DEF CommandOnce, Submitting, Positions
  <2>3. Positions'
    <3>1. CASE Drain
      BY <3>1, <1>f DEF Drain, loopVars, Positions
    <3>2. CASE Send
      BY <3>2, <1>f, <2>2 DEF Send, loopVars, Positions
    <3>3. CASE \E r \in {"ok", "504"} : Return(r)
      BY <3>3, <1>f DEF Return, loopVars, Positions
    <3>4. CASE Restore
      BY <3>4, <1>f DEF Restore, loopVars, Positions
    <3> QED
      BY <1>2, <3>1, <3>2, <3>3, <3>4 DEF Submit, Complete, Timeout
  <2> QED
    BY <1>t, <2>1, <2>3
<1>3. ASSUME NEW p \in BOOLEAN, SetPaused(p)
      PROVE  TypeOK'
  <2>1. Flags'
    BY <1>3, <1>f, Zenon DEF SetPaused, serverVars, Flags
  <2>2. Positions'
    BY <1>3, <1>f DEF SetPaused, serverVars, loopVars, Positions
  <2> QED
    BY <1>t, <2>1, <2>2
<1>4. ASSUME NEW k \in Key, KeyPush(k)
      PROVE  TypeOK'
  <2>1. Flags'
    BY <1>4, <1>f, Zenon DEF KeyPush, serverVars, Flags
  <2>2. s_keyq' \in Seq(Key) /\ Len(s_keyq') <= KEYQ
    BY <1>4, <1>f, KeyqAssumption DEF KeyPush, KeyRoom, Positions
  <2>3. Positions'
    BY <1>4, <1>f, <2>2 DEF KeyPush, serverVars, loopVars, Positions
  <2> QED
    BY <1>t, <2>1, <2>3
<1>5. CASE LoopPass
  <2>1. UNCHANGED serverVars /\ UNCHANGED clean
    BY <1>5 DEF LoopPass, Input, KeysPoll, Render, Poll, Exec, FrameBegin, FrameEnd
  <2>2. Flags'
    <3>1. s_paused' \in BOOLEAN /\ s_done_sem' \in BOOLEAN /\ osd' \in BOOLEAN
      BY <1>5, <1>f, Zenon
         DEF LoopPass, Input, KeysPoll, Render, Poll, Exec, FrameBegin, FrameEnd, Flags
    <3> QED
      BY <1>f, <2>1, <3>1, Zenon DEF serverVars, Flags
  <2>3. s_keyq' \in Seq(Key) /\ Len(s_keyq') <= KEYQ
    <3>1. s_keyq' = s_keyq \/ (s_keyq # <<>> /\ s_keyq' = Tail(s_keyq))
      BY <1>5 DEF LoopPass, Input, KeysPoll, Render, Poll, Exec, FrameBegin, FrameEnd
    <3> QED
      BY <3>1, <1>f, KeyqAssumption DEF Positions
  <2>4. /\ lpc' \in {"input", "keys", "render", "poll", "exec", "frame", "run"}
        /\ s_cmd_queue' \in {s_cmd_queue, <<>>}
    BY <1>5, <1>f DEF LoopPass, Input, KeysPoll, Render, Poll, Exec, FrameBegin, FrameEnd, Positions
  <2>5. cur' \in 0 .. MaxRequests /\ executed' \subseteq 1 .. MaxRequests
    <3>1. CASE Poll
      BY <3>1, <1>f, KeyqAssumption DEF Poll, Positions
    <3>2. CASE Exec
      BY <3>2, <1>f, KeyqAssumption DEF Exec, CommandOnce, Positions
    <3>3. CASE UNCHANGED <<cur, executed>>
      BY <3>3, <1>f DEF Positions
    <3> QED
      BY <1>5, <3>1, <3>2, <3>3 DEF LoopPass, Input, KeysPoll, Render, FrameBegin, FrameEnd
  <2>6. Positions'
    BY <1>f, <2>1, <2>3, <2>4, <2>5 DEF serverVars, Positions
  <2> QED
    BY <1>t, <2>2, <2>6
<1> QED
  BY <1>1, <1>2, <1>3, <1>4, <1>5 DEF Next, Kind

\* The steps that neither move a command nor answer one.
LEMMA Bystanders ==
  ASSUME RpcIInv,
         UNCHANGED <<s_cmd_queue, cur, executed, s_done_sem, spc, req, kind, reply, fb, clean>>,
         lpc' = "exec" <=> lpc = "exec",
         lpc' = "run" => lpc = "run" \/ ~s_paused,
         spc # "idle" => s_paused' = s_paused
  PROVE  CommandOnce' /\ CleanRequest' /\ PictureHeld'
<1>1. InFlight' = InFlight
  BY DEF InFlight
<1> QED
  BY <1>1 DEF RpcIInv, CommandOnce, CleanRequest, PictureHeld, Submitting


\* A request starts a new number, with no answer yet.
LEMMA RequestKeeps ==
  ASSUME RpcIInv, NEW k \in Kind, NEW pause \in BOOLEAN, Request(k, pause), pause => k = "step"
  PROVE  CommandOnce' /\ CleanRequest' /\ PictureHeld'
<1>1. /\ req \in Nat /\ MaxRequests \in Nat /\ req < MaxRequests /\ req' = req + 1
      /\ kind' = [kind EXCEPT ![req + 1] = k] /\ kind \in [1 .. MaxRequests -> Kind]
  BY KeyqAssumption DEF Request, RpcIInv, TypeOK
<1>2. InFlight' = InFlight /\ executed' = executed /\ cur' = cur /\ lpc' = lpc
      /\ s_cmd_queue' = s_cmd_queue
  BY DEF Request, loopVars, InFlight
<1>3. CommandOnce'
  BY <1>1, <1>2 DEF RpcIInv, CommandOnce
<1>4. clean' => InFlight = {}
  BY DEF Request, InFlight
<1>5. spc' = "drain" /\ reply' = "none"
  BY DEF Request
<1>6. req' \notin executed
  BY <1>1 DEF RpcIInv, CommandOnce
<1>7. CleanRequest'
  BY <1>2, <1>4, <1>5, <1>6 DEF CleanRequest
<1>8. fb' => kind'[req'] = "step" /\ s_paused'
  <2>1. kind'[req'] = k
    BY <1>1
  <2> QED
    BY <2>1 DEF Request, Held
<1>9. PictureHeld'
  BY <1>5, <1>8 DEF PictureHeld
<1> QED
  BY <1>3, <1>7, <1>9

\* Submitting keeps a command in one place and its completion its own.
LEMMA SubmitKeeps ==
  ASSUME RpcIInv, Submit
  PROVE  CommandOnce' /\ CleanRequest' /\ PictureHeld'
<1>1. UNCHANGED <<req, kind, fb, clean, executed, cur, lpc>>
  BY DEF Submit, Drain, Send, Complete, Timeout, Return, Restore, loopVars
<1>2. CASE Drain
  <2>1. InFlight' = InFlight
    BY <1>1, <1>2 DEF Drain, InFlight
  <2> QED
    BY <1>1, <1>2, <2>1
       DEF Drain, RpcIInv, TypeOK, CommandOnce, CleanRequest, PictureHeld, Submitting
<1>3. CASE Send
  <2>1. spc = "send" /\ s_cmd_queue = <<>> /\ s_cmd_queue' = <<req>> /\ spc' = "wait"
        /\ UNCHANGED <<s_done_sem, s_paused, reply>>
    BY <1>3 DEF Send
  <2>2. InFlight' = InFlight \cup {req} /\ Head(s_cmd_queue') = req
    BY <1>1, <2>1 DEF InFlight
  <2>3. req # 0 /\ req \notin InFlight \cup executed
    BY <2>1 DEF RpcIInv, CommandOnce, Submitting
  <2>4. CommandOnce'
    <3>1. req # cur /\ req \in 1 .. req
      BY <2>3, KeyqAssumption DEF InFlight, RpcIInv, TypeOK
    <3> QED
      BY <1>1, <2>1, <2>2, <2>3, <3>1 DEF RpcIInv, CommandOnce, Submitting
  <2>5. CleanRequest'
    BY <1>1, <2>1, <2>2 DEF RpcIInv, CleanRequest
  <2>6. PictureHeld'
    BY <1>1, <2>1, <2>3 DEF RpcIInv, PictureHeld, Submitting
  <2> QED
    BY <2>4, <2>5, <2>6
<1>4. CASE \E r \in {"ok", "504"} : Return(r) /\ (r = "ok" => s_done_sem)
  <2>1. InFlight' = InFlight
    BY <1>1, <1>4 DEF Return, InFlight
  <2> QED
    BY <1>1, <1>4, <2>1
       DEF Return, RpcIInv, CommandOnce, CleanRequest, PictureHeld, Submitting
<1>5. CASE Restore
  <2>1. InFlight' = InFlight
    BY <1>1, <1>5 DEF Restore, InFlight
  <2> QED
    BY <1>1, <1>5, <2>1
       DEF Restore, RpcIInv, CommandOnce, CleanRequest, PictureHeld, Submitting
<1> QED
  BY <1>2, <1>3, <1>4, <1>5 DEF Submit, Complete, Timeout


\* The loop takes a command once and completes it once.
LEMMA LoopKeeps ==
  ASSUME RpcIInv, LoopPass
  PROVE  CommandOnce' /\ CleanRequest' /\ PictureHeld'
<1>0. UNCHANGED serverVars /\ UNCHANGED clean
  BY DEF LoopPass, Input, KeysPoll, Render, Poll, Exec, FrameBegin, FrameEnd
<1>1. CASE Poll /\ s_cmd_queue # <<>>
  <2>1. /\ lpc = "poll" /\ lpc' = "exec" /\ cur' = Head(s_cmd_queue) /\ s_cmd_queue' = <<>>
        /\ UNCHANGED <<s_done_sem, s_paused, executed>>
    BY <1>1 DEF Poll
  <2>2. Head(s_cmd_queue) \in InFlight /\ Head(s_cmd_queue) # 0 /\ cur = 0
    BY <1>1, <2>1, KeyqAssumption DEF InFlight, RpcIInv, TypeOK, CommandOnce
  <2>3. InFlight = {cur'} /\ InFlight' = {cur'}
    BY <1>1, <2>1, <2>2 DEF InFlight
  <2>4. CommandOnce'
    BY <1>0, <2>1, <2>2, <2>3 DEF serverVars, RpcIInv, CommandOnce, Submitting
  <2>5. CleanRequest'
    BY <1>0, <2>1, <2>3 DEF serverVars, RpcIInv, CleanRequest
  <2>6. clean /\ spc \in {"wait", "restore"} => req \notin executed
    BY <2>3 DEF RpcIInv, CommandOnce, CleanRequest
  <2>7. PictureHeld'
    BY <1>0, <2>1, <2>6 DEF serverVars, RpcIInv, PictureHeld, Submitting
  <2> QED
    BY <2>4, <2>5, <2>7
<1>2. CASE Exec
  <2>1. /\ lpc = "exec" /\ lpc' = "frame" /\ cur # 0 /\ cur' = 0 /\ s_cmd_queue' = s_cmd_queue
        /\ executed' = executed \cup {cur} /\ s_done_sem'
    BY <1>2 DEF Exec, RpcIInv, CommandOnce
  <2>2. cur \in InFlight /\ InFlight' = InFlight \ {cur}
    BY <2>1 DEF InFlight, RpcIInv, CommandOnce
  <2>3. CommandOnce'
    <3>1. InFlight' \cup executed' = InFlight \cup executed /\ InFlight' \cap executed' = {}
      BY <2>1, <2>2 DEF RpcIInv, CommandOnce
    <3>2. s_cmd_queue # <<>> => Head(s_cmd_queue) # 0
      BY KeyqAssumption DEF RpcIInv, TypeOK
    <3> QED
      BY <1>0, <2>1, <3>1, <3>2 DEF serverVars, RpcIInv, CommandOnce, Submitting
  <2>4. CleanRequest'
    <3>1. clean /\ spc \in {"wait", "restore"} => cur = req
      BY <2>2 DEF RpcIInv, CleanRequest
    <3>2. clean => spc \notin {"drain", "send"}
      BY <2>2 DEF RpcIInv, CleanRequest
    <3> QED
      BY <1>0, <2>1, <2>2, <3>1, <3>2 DEF serverVars, RpcIInv, CleanRequest
  <2>5. PictureHeld'
    <3>1. clean /\ spc \in {"drain", "send"} => FALSE
      BY <2>2 DEF RpcIInv, CleanRequest
    <3>2. clean /\ spc \in {"wait", "restore"} => cur = req
      BY <2>2 DEF RpcIInv, CleanRequest
    <3>3. kind[cur] # "inject" => s_paused' = s_paused
      BY <1>2 DEF Exec
    <3> QED
      BY <1>0, <2>1, <3>1, <3>2, <3>3
         DEF serverVars, RpcIInv, TypeOK, PictureHeld, Submitting
  <2> QED
    BY <2>3, <2>4, <2>5
<1>3. CASE Input \/ KeysPoll \/ Render \/ FrameBegin \/ FrameEnd \/ (Poll /\ s_cmd_queue = <<>>)
  <2>1. UNCHANGED <<s_cmd_queue, cur, executed, s_done_sem, s_paused>>
    BY <1>3 DEF Input, KeysPoll, Render, Poll, FrameBegin, FrameEnd
  <2>2. (lpc' = "exec" <=> lpc = "exec") /\ (lpc' = "run" => lpc = "run" \/ ~s_paused)
    BY <1>3 DEF Input, KeysPoll, Render, Poll, FrameBegin, FrameEnd
  <2> QED
    BY <1>0, <2>1, <2>2, Bystanders DEF serverVars
<1> QED
  BY <1>1, <1>2, <1>3 DEF LoopPass, Poll

\* The inductive invariant gives the promise.
LEMMA InvRpc ==
  ASSUME RpcIInv
  PROVE  RpcInv
<1>1. QueuedNotExecuted
  <2> SUFFICES ASSUME NEW r \in executed
               PROVE  r # cur /\ (s_cmd_queue = <<>> \/ Head(s_cmd_queue) # r)
    BY DEF QueuedNotExecuted
  <2>1. r \notin InFlight /\ r # 0
    BY KeyqAssumption DEF RpcIInv, TypeOK, CommandOnce
  <2> QED
    BY <2>1 DEF InFlight
<1>2. CleanSuccessExecuted /\ FramebufferHeldStill
  BY DEF RpcIInv, CleanRequest, PictureHeld, CleanSuccessExecuted, FramebufferHeldStill,
         Submitting
<1> QED
  BY <1>1, <1>2 DEF RpcInv, RpcIInv

\* debug_rpc_submit(), debug_rpc_poll() and the handlers between them, for any number
\* of requests: no command is applied twice, a request that starts clean is
\* answered for its own command, and a framebuffer screenshot reads a still picture.
THEOREM RpcCorrect == Spec => []RpcInv
<1>1. Init => RpcIInv
  BY InitInv
<1>2. RpcIInv /\ [Next]_vars => RpcIInv'
  <2> SUFFICES ASSUME RpcIInv, [Next]_vars
               PROVE  RpcIInv'
    OBVIOUS
  <2>1. CASE Next
    <3>1. TypeOK'
      BY <2>1, NextType DEF RpcIInv
    <3>2. CommandOnce' /\ CleanRequest' /\ PictureHeld'
      <4>1. ASSUME NEW k \in Kind, Request(k, FALSE)
            PROVE  CommandOnce' /\ CleanRequest' /\ PictureHeld'
        BY <4>1, RequestKeeps
      <4>2. CASE Request("step", TRUE)
        BY <4>2, RequestKeeps DEF Kind
      <4>3. ASSUME NEW p \in BOOLEAN, SetPaused(p)
            PROVE  CommandOnce' /\ CleanRequest' /\ PictureHeld'
        BY <4>3, Bystanders DEF SetPaused, serverVars, loopVars, RpcIInv, PictureHeld
      <4>4. ASSUME NEW k \in Key, KeyPush(k)
            PROVE  CommandOnce' /\ CleanRequest' /\ PictureHeld'
        BY <4>4, Bystanders DEF KeyPush, serverVars, loopVars
      <4> QED
        BY <2>1, <4>1, <4>2, <4>3, <4>4, SubmitKeeps, LoopKeeps DEF Next
    <3> QED
      BY <3>1, <3>2 DEF RpcIInv
  <2>2. CASE UNCHANGED vars
    <3>1. InFlight' = InFlight
      BY <2>2 DEF vars, loopVars, InFlight
    <3> QED
      BY <2>2, <3>1 DEF vars, serverVars, loopVars, RpcIInv, TypeOK, CommandOnce, CleanRequest,
                        PictureHeld, Submitting
  <2> QED
    BY <2>1, <2>2
<1> QED
  BY <1>1, <1>2, InvRpc, PTL DEF Spec

-----------------------------------------------------------------------------
(* The menus.  What a save is about to make of the settings is right before *)
(* its first commit; the commits and a power loss between them keep it.     *)

\* A key is taken with the menu open.
Awake == SupervisorIInv /\ Idle /\ screen # "inactive"

\* Between two saves the settings are right, and no answer is remembered while the menu is open.
LEMMA AwakeFacts ==
  ASSUME Awake
  PROVE  /\ SettingsShape /\ SettingsSafe /\ RestartObeys /\ AnswersFit
         /\ Whole(prefs) /\ Good(prefs, torn) /\ RunsWith(prefs) /\ asked = [what |-> "nothing"]
  BY DEF Awake, SupervisorIInv, SettingsShape, SettingsSafe, AnswersFit

\* Nothing that was asked for is left to obey.
LEMMA NothingAsked ==
  ASSUME asked = [what |-> "nothing"]
  PROVE  Obeyed
<1>1. asked.what = "nothing"
  OBVIOUS
<1> QED
  BY <1>1 DEF Obeyed, Obeys, SettlesSlot

\* The answers a screen waits for are judged by the screen and this boot.
LEMMA AnswersKept ==
  ASSUME AnswersFit, UNCHANGED <<screen, sub, boot, asked>>
  PROVE  AnswersFit'
  BY DEF AnswersFit, At, MaySave, validate_external, SlotFits, SlotsFor

\* Booting from whole settings establishes everything but what the question was about.
LEMMA BootsSafe ==
  ASSUME SupervisorAssumption, NEW p, NEW why, Whole(p), Good(p, torn'), Boots(p, why), prefs' = p
  PROVE  /\ SettingsShape' /\ SettingsSafe' /\ Remembered' /\ AnswersFit' /\ asked' = why /\ Idle'
         /\ \A k \in AtBoot \ {"ssc", "bus"} : boot'[k] = p[k]
         /\ boot'.bus = LoadedBus(p.bus)
         /\ \A s \in HD_SLOTS : slots'[s] = NO_PATH \/ (p.vhd_en /\ slots'[s] = p.paths[s])
<1>1. PICK read \in BOOLEAN :
        boot' = [k \in AtBoot |-> CASE k = "ssc" -> p.ssc /\ read
                                    [] k = "bus" -> LoadedBus(p.bus)
                                    [] OTHER -> p[k]]
  BY DEF Boots
<1>2. /\ DOMAIN boot' = AtBoot /\ boot'.bus = LoadedBus(p.bus)
      /\ \A k \in AtBoot \ {"ssc", "bus"} : boot'[k] = p[k]
  BY <1>1 DEF AtBoot
<1>3. /\ boot'.orch90 = p.orch90 /\ boot'.cart_rom = p.cart_rom /\ boot'.vhd_en = p.vhd_en
      /\ boot'.machine = p.machine /\ boot'.cpu = p.cpu /\ boot'.ram = p.ram
  BY <1>2 DEF AtBoot
<1>4. live' = p.live /\ screen' = "inactive" /\ asked' = why /\ saving' = NoSave
  BY DEF Boots
<1>5. PICK bad \in SUBSET {s \in DriveSlot : Wanted(p)[s] # NO_PATH} :
        /\ slots' = [s \in DriveSlot |-> IF s \in bad THEN NO_PATH ELSE Wanted(p)[s]]
        /\ failed' = (bad # {})
  BY DEF Boots
<1>6. SettingsShape'
  BY <1>2, <1>3, <1>4, <1>5 DEF SettingsShape, Whole
<1>7. SettingsSafe'
  <2>1. "slot" \in torn' \/ SlotOk(boot')
    BY <1>3 DEF SlotOk, Good
  <2>2. RunsWith(prefs)'
    BY <1>2, <1>3 DEF RunsWith
  <2>3. boot'.bus.mode = "external" => boot'.bus.host # NO_PATH
    BY <1>2 DEF LoadedBus, Pending
  <2>4. \A k \in DOMAIN live' \ {"joy"} : live'[k] = prefs'.live[k]
    BY <1>4
  <2>5. Good(prefs, torn)'
    BY DEF Good, SlotOk, BusFits, Forgotten
  <2> QED
    BY <2>1, <2>2, <2>3, <2>4, <2>5 DEF SettingsSafe, SlotOk
<1>8. \A s \in DriveSlot : slots'[s] = IF s \in bad THEN NO_PATH ELSE Wanted(p)[s]
  BY <1>5
<1>9. \A s \in DriveSlot : Wanted(p)[s] = IF s \in HD_SLOTS /\ ~p.vhd_en THEN NO_PATH ELSE p.paths[s]
  BY DEF Wanted
<1>10. HD_SLOTS \subseteq DriveSlot /\ FLOPPY_SLOTS \subseteq DriveSlot /\ FLOPPY_SLOTS \cap HD_SLOTS = {}
  BY DEF DriveSlot, SupervisorAssumption
<1>11. \A s \in HD_SLOTS : slots'[s] = NO_PATH \/ (p.vhd_en /\ slots'[s] = p.paths[s])
  BY <1>8, <1>9, <1>10
<1>12. Remembered'
  <2>1. failed' \/ InDrives(prefs)'
    BY <1>3, <1>5, <1>8, <1>9, <1>10 DEF InDrives, Follows
  <2>2. ~boot'.vhd_en => \A s \in HD_SLOTS : slots'[s] = NO_PATH
    BY <1>3, <1>11
  <2> QED
    BY <2>1, <2>2 DEF Remembered
<1>13. AnswersFit'
  BY <1>4 DEF AnswersFit, At
<1> QED
  BY <1>2, <1>4, <1>6, <1>7, <1>11, <1>12, <1>13 DEF Idle

\* supervisor_save_state() writes the drives and nothing else.
LEMMA SavedSettings ==
  ASSUME SupervisorAssumption, NEW p, NEW t, Whole(p)
  PROVE  /\ Whole(save_state(p, t)) /\ Forgotten(save_state(p, t))
         /\ \A k \in AtBoot : save_state(p, t)[k] = p[k]
         /\ save_state(p, t).live = p.live
         /\ \A s \in DriveSlot : save_state(p, t).paths[s] =
              IF s \in FLOPPY_SLOTS THEN t[s]
              ELSE IF ~p.vhd_en THEN NO_PATH ELSE IF boot.vhd_en THEN t[s] ELSE p.paths[s]
<1> DEFINE q == save_state(p, t)
<1>1. /\ DOMAIN q = DOMAIN p /\ \A k \in DOMAIN p \ {"paths"} : q[k] = p[k]
      /\ q.paths = [s \in DriveSlot |-> IF s \in FLOPPY_SLOTS THEN t[s]
                     ELSE IF ~p.vhd_en THEN NO_PATH
                     ELSE IF boot.vhd_en THEN t[s] ELSE p.paths[s]]
  BY DEF save_state, Whole
<1>2. q.live = p.live /\ q.machine = p.machine /\ q.vhd_en = p.vhd_en /\ \A k \in AtBoot : q[k] = p[k]
  BY <1>1 DEF Whole, AtBoot
<1> HIDE DEF q
<1>3. \A s \in HD_SLOTS : s \in DriveSlot /\ s \notin FLOPPY_SLOTS
  BY DEF DriveSlot, SupervisorAssumption
<1>4. Whole(q)
  BY <1>1, <1>2 DEF Whole
<1>5. Forgotten(q)
  BY <1>1, <1>2, <1>3 DEF Forgotten
<1> QED
  BY <1>1, <1>2, <1>4, <1>5 DEF q

\* What a question names is read from these settings.
LEMMA SameAnswer ==
  ASSUME NEW p, NEW q, NEW why,
         q.orch90 = p.orch90, q.cart_rom = p.cart_rom, q.vhd_en = p.vhd_en, q.machine = p.machine,
         q.cpu = p.cpu, q.ram = p.ram, why.what = "bus" => q.bus = p.bus
  PROVE  Obeys(q, why) = Obeys(p, why)
<1>1. SlotOk(q) = SlotOk(p) /\ hd_mode(q) = hd_mode(p)
  BY DEF SlotOk, hd_mode
<1>2. why.what \in {"machine", "cpu", "ram", "cart_rom", "bus"} => q[why.what] = p[why.what]
  OBVIOUS
<1> QED
  BY <1>1, <1>2 DEF Obeys

\* Settings that differ in their drives alone: what a question names and what they owe each other.
LEMMA SameQuestion ==
  ASSUME NEW p, NEW q, NEW why, \A k \in AtBoot : q[k] = p[k]
  PROVE  /\ Obeys(q, why) = Obeys(p, why) /\ SlotOk(q) = SlotOk(p) /\ BusFits(q.bus) = BusFits(p.bus)
         /\ RunsWith(q) = RunsWith(p) /\ q.vhd_en = p.vhd_en /\ q.ssc = p.ssc
<1>1. /\ q.orch90 = p.orch90 /\ q.cart_rom = p.cart_rom /\ q.vhd_en = p.vhd_en /\ q.ssc = p.ssc
      /\ q.bus = p.bus /\ q.machine = p.machine /\ q.cpu = p.cpu /\ q.ram = p.ram
  BY DEF AtBoot
<1>2. SlotOk(q) = SlotOk(p) /\ RunsWith(q) = RunsWith(p) /\ Obeys(q, why) = Obeys(p, why)
  BY <1>1, SameAnswer DEF SlotOk, RunsWith
<1> QED
  BY <1>1, <1>2

\* A handler begins to save, or only changes the drives: the settings stay as they are.
LEMMA PrefsStay ==
  ASSUME SupervisorIInv, Idle, UNCHANGED <<boot, live, prefs, asked, torn>>,
         DOMAIN slots' = DriveSlot, AnswersFit', Idle' \/ SaveFits',
         failed' \/ saving'.why.what = "disks" \/ InDrives(prefs)',
         ~boot.vhd_en => \A s \in HD_SLOTS : slots'[s] = NO_PATH,
         asked.what # "hd" \/ \A s \in HD_SLOTS : slots'[s] = slots[s]
  PROVE  SupervisorIInv'
<1>1. SettingsShape /\ SettingsSafe /\ Obeyed
  BY DEF SupervisorIInv, RestartObeys
<1>2. SettingsShape' /\ SettingsSafe'
  BY <1>1 DEF SettingsShape, Whole, SettingsSafe, SlotOk, Good, BusFits, Forgotten, RunsWith
<1>3. Remembered'
  BY DEF Remembered
<1>4. Obeyed'
  BY <1>1 DEF Obeyed, Obeys, SettlesSlot, SlotOk, hd_mode, is_rgbdos_name
<1> QED
  BY <1>2, <1>3, <1>4 DEF SupervisorIInv, RestartObeys

\* Until its first commit, a save leaves everything as it is.
LEMMA SaveBegins ==
  ASSUME Awake, UNCHANGED <<boot, live, prefs, slots, failed, asked, torn>>, AnswersFit', SaveFits'
  PROVE  SupervisorIInv'
<1>1. DOMAIN slots' = DriveSlot /\ RestartObeys
  BY AwakeFacts DEF SettingsShape
<1>2. saving.why.what = "nothing"
  BY DEF Awake, Idle, NoSave
<1>3. failed' \/ InDrives(prefs)'
  BY <1>1, <1>2 DEF RestartObeys, Remembered, InDrives, Follows
<1>4. ~boot.vhd_en => \A s \in HD_SLOTS : slots'[s] = NO_PATH
  BY <1>1 DEF RestartObeys, Remembered
<1> QED
  BY <1>1, <1>3, <1>4, PrefsStay DEF Awake

\* supervisor_save_and_restart(): what a question may save.
LEMMA RestartBegins ==
  ASSUME SupervisorAssumption, Awake, NEW p, NEW why, SaveAndRestart(p, why),
         Whole(p), p.live = prefs.live, p.paths = prefs.paths,
         SlotOk(p) \/ ("slot" \in torn /\ ~SettlesSlot(why)),
         BusFits(p.bus) \/ ("bus" \in torn /\ why.what # "bus"),
         Obeys(p, why), why.what = "ssc" => p.ssc = why.value,
         why.what = "hd" => why.was = hd_mode_now
  PROVE  SupervisorIInv'
<1>1. /\ Good(prefs, torn) /\ RunsWith(prefs) /\ Whole(prefs) /\ RestartObeys
  BY AwakeFacts
<1>2. PICK q : q = save_state(p, slots)
  OBVIOUS
<1>3. /\ Whole(q) /\ Forgotten(q) /\ q.live = p.live /\ \A k \in AtBoot : q[k] = p[k]
      /\ \A s \in DriveSlot : q.paths[s] =
              IF s \in FLOPPY_SLOTS THEN slots[s]
              ELSE IF ~p.vhd_en THEN NO_PATH ELSE IF boot.vhd_en THEN slots[s] ELSE p.paths[s]
  BY <1>2, SavedSettings
<1>4. /\ saving' = [from |-> prefs, to |-> q, why |-> why, restart |-> TRUE]
      /\ UNCHANGED <<ui, boot, live, prefs, slots, failed, asked, torn>>
  BY <1>2 DEF SaveAndRestart, BeginSave
<1>5. /\ Obeys(q, why) /\ SlotOk(q) = SlotOk(p) /\ BusFits(q.bus) = BusFits(p.bus)
      /\ q.vhd_en = p.vhd_en /\ q.ssc = p.ssc
  BY <1>3, SameQuestion
<1>6. saving'.from = prefs /\ saving'.to = q /\ saving'.why = why /\ saving'.restart = TRUE
  BY <1>4
<1>7. SaveFits'
  <2>1. screen' # "inactive"
    BY <1>4 DEF Awake, ui
  <2>2. Good(saving.from, torn)'
    BY <1>1, <1>4, <1>6 DEF Good, SlotOk, BusFits, Forgotten
  <2>3. Good(saving.to, torn \ Settled)'
    <3>1. "slot" \in (torn \ Settled)' \/ SlotOk(q)
      BY <1>4, <1>5, <1>6 DEF Settled, Parts, SettlesSlot
    <3>2. "bus" \in (torn \ Settled)' \/ BusFits(q.bus)
      BY <1>4, <1>5, <1>6 DEF Settled, Parts
    <3> QED
      BY <1>3, <1>6, <3>1, <3>2 DEF Good, SlotOk, BusFits, Forgotten
  <2>4. prefs'.vhd_en = boot'.vhd_en
    BY <1>1, <1>4 DEF RunsWith
  <2>5. \A s \in HD_SLOTS : s \in DriveSlot /\ s \notin FLOPPY_SLOTS
    BY DEF DriveSlot, SupervisorAssumption
  <2>6. InDrives(saving.to)'
    BY <1>3, <1>4, <1>5, <1>6, <2>5 DEF InDrives, Follows, DriveSlot
  <2>7. why.what = "hd" =>
          /\ why.was = hd_mode_now'
          /\ why.was = "off" /\ "images" \notin torn => \A s \in HD_SLOTS : q.paths[s] = NO_PATH
    <3>1. hd_mode_now' = hd_mode_now
      BY <1>4 DEF hd_mode_now, hd_mode, is_rgbdos_name
    <3>2. CASE why.what = "hd" /\ why.was = "off" /\ "images" \notin torn
      <4>1. ~boot.vhd_en
        BY <3>2 DEF hd_mode_now, hd_mode
      <4>2. \A s \in HD_SLOTS : prefs.paths[s] = NO_PATH
        BY <1>1, <3>2, <4>1 DEF Good, Forgotten, RunsWith
      <4> QED
        BY <1>3, <2>5, <3>1, <4>1, <4>2
    <3> QED
      BY <3>1, <3>2
  <2>8. Obeys(q, why)' = Obeys(q, why)
    BY <1>4 DEF Obeys
  <2> QED
    BY <1>3, <1>4, <1>5, <1>6, <2>1, <2>2, <2>3, <2>4, <2>6, <2>7 DEF SaveFits
<1>8. AnswersFit'
  BY <1>4, AwakeFacts, AnswersKept DEF ui
<1> QED
  BY <1>4, <1>7, <1>8, SaveBegins

\* A save after which the handler returns: a cartridge that waits, and the drives.
LEMMA SaveFitsReturning ==
  ASSUME Awake, NEW q, NEW why, screen' # "inactive", BeginSave(q, why, FALSE),
         UNCHANGED <<boot, prefs, torn>>,
         Whole(q), q.live = prefs.live, RunsWith(q),
         SlotOk(q) \/ "slot" \in torn, why.what # "bus", BusFits(q.bus) \/ "bus" \in torn,
         Forgotten(q) \/ ("images" \in torn /\ why.what # "disks"),
         failed' \/ InDrives(q)'
  PROVE  SaveFits'
<1>1. Good(prefs, torn) /\ RunsWith(prefs)
  BY AwakeFacts
<1>2. saving'.from = prefs /\ saving'.to = q /\ saving'.why = why /\ saving'.restart = FALSE
  BY DEF BeginSave
<1>3. Good(saving.from, torn)'
  BY <1>1, <1>2 DEF Good, SlotOk, BusFits, Forgotten
<1>4. Good(saving.to, torn \ Settled)'
  <2>1. "slot" \in (torn \ Settled)' \/ SlotOk(q)
    BY <1>2 DEF Settled, Parts
  <2>2. "bus" \in (torn \ Settled)' \/ BusFits(q.bus)
    BY <1>2 DEF Settled, Parts
  <2>3. "images" \in (torn \ Settled)' \/ Forgotten(q)
    BY <1>2 DEF Settled, Parts
  <2> QED
    BY <1>2, <2>1, <2>2, <2>3 DEF Good, SlotOk, BusFits, Forgotten
<1>5. prefs'.vhd_en = boot'.vhd_en
  BY <1>1 DEF RunsWith
<1>6. RunsWith(saving.to)'
  BY <1>2 DEF RunsWith
<1>7. failed' \/ InDrives(saving.to)'
  BY <1>2 DEF InDrives, Follows
<1> QED
  BY <1>2, <1>3, <1>4, <1>5, <1>6, <1>7 DEF SaveFits, Whole

\* One commit of a save: whatever is saved of it so far, the drives are remembered.
LEMMA CommitKeeps ==
  ASSUME SupervisorIInv, ~Idle, UNCHANGED Others,
         Whole(prefs'), prefs'.live = prefs.live, prefs'.vhd_en \in {boot.vhd_en, saving.to.vhd_en},
         failed \/ saving.why.what = "disks" \/ InDrives(prefs)'
  PROVE  SupervisorIInv'
<1>1. SettingsShape /\ SettingsSafe /\ RestartObeys /\ AnswersFit /\ SaveFits
  BY DEF SupervisorIInv
<1>2. UNCHANGED <<screen, sub, boot, live, saving, slots, failed, asked, torn>>
  BY DEF Others, ui
<1>3. asked' = [what |-> "nothing"]
  BY <1>1, <1>2 DEF SaveFits, AnswersFit
<1>4. Obeyed'
  <2>1. asked'.what = "nothing"
    BY <1>3
  <2> QED
    BY <2>1 DEF Obeyed, Obeys, SettlesSlot
<1>5. SettingsShape'
  BY <1>1, <1>2 DEF SettingsShape, Whole
<1>6. SettingsSafe'
  BY <1>1, <1>2 DEF SettingsSafe, SlotOk, Idle
<1>7. Remembered'
  BY <1>1, <1>2 DEF RestartObeys, Remembered
<1>8. AnswersFit'
  BY <1>1, <1>2, AnswersKept
<1>9. SaveFits'
  <2>1. Settled' = Settled
    BY <1>2 DEF Settled, SettlesSlot
  <2>2. Good(saving.from, torn)' /\ Good(saving.to, torn \ Settled)'
    BY <1>1, <1>2, <2>1 DEF SaveFits, Good, SlotOk, BusFits, Forgotten
  <2>3. /\ (failed \/ InDrives(saving.to))' /\ hd_mode_now' = hd_mode_now
        /\ RunsWith(saving.to) => RunsWith(saving.to)'
        /\ Obeys(saving.to, saving.why) => Obeys(saving.to, saving.why)'
    BY <1>1, <1>2 DEF SaveFits, InDrives, Follows, hd_mode_now, hd_mode, is_rgbdos_name, RunsWith, Obeys,
                      SettlesSlot, SlotOk
  <2> QED
    BY <1>1, <1>2, <2>2, <2>3 DEF SaveFits, Whole
<1> QED
  BY <1>4, <1>5, <1>6, <1>7, <1>8, <1>9 DEF SupervisorIInv, RestartObeys

\* A setting is committed: the drives that follow one another are still those of this boot.
LEMMA SaveSettingInv ==
  ASSUME SupervisorAssumption, SupervisorIInv, SaveSetting
  PROVE  SupervisorIInv'
<1>1. PICK i \in DOMAIN Puts :
        ~IsSaved(Puts[i]) /\ prefs' = [prefs EXCEPT ![Puts[i]] = saving.to[Puts[i]]]
  BY DEF SaveSetting
<1>2. UNCHANGED Others
  BY DEF SaveSetting
<1>3. PICK k : k = Puts[i]
  OBVIOUS
<1>4. k \in {"orch90", "cart_rom", "vhd_en", "machine", "cpu", "ram", "ssc"}
  BY <1>1, <1>3 DEF Puts
<1>5. ~Idle
  <2>1. saving.why.what # "nothing"
    BY <1>1 DEF Puts
  <2> QED
    BY <2>1 DEF Idle, NoSave
<1>6. SaveFits /\ Whole(prefs) /\ RestartObeys
  BY <1>5 DEF SupervisorIInv, SettingsShape
<1>7. /\ prefs[k] # saving.to[k] /\ k \in DOMAIN prefs /\ prefs' = [prefs EXCEPT ![k] = saving.to[k]]
  BY <1>1, <1>3, <1>4, <1>6 DEF IsSaved, Whole, AtBoot
<1>8. DOMAIN prefs' = DOMAIN prefs /\ prefs'[k] = saving.to[k] /\ \A j \in DOMAIN prefs \ {k} : prefs'[j] = prefs[j]
  BY <1>7
<1>9. /\ prefs'.live = prefs.live /\ prefs'.paths = prefs.paths
      /\ prefs'.machine \in {prefs.machine, saving.to.machine}
      /\ prefs'.vhd_en = IF k = "vhd_en" THEN saving.to.vhd_en ELSE prefs.vhd_en
  <2>1. prefs'.machine = IF k = "machine" THEN saving.to.machine ELSE prefs.machine
    BY <1>6, <1>8 DEF Whole, AtBoot
  <2> QED
    BY <1>4, <1>6, <1>8, <2>1 DEF Whole, AtBoot
<1>10. Whole(prefs')
  BY <1>6, <1>8, <1>9 DEF Whole, SaveFits
<1>11. prefs'.vhd_en \in {boot.vhd_en, saving.to.vhd_en}
  BY <1>6, <1>9 DEF SaveFits
<1>12. boot' = boot /\ slots' = slots
  BY <1>2 DEF Others
<1>13. InDrives(prefs) => InDrives(prefs)'
  <2>1. k = "vhd_en" => prefs.vhd_en = boot.vhd_en
    BY <1>6, <1>7 DEF SaveFits
  <2> QED
    BY <1>9, <1>12, <2>1 DEF InDrives, Follows
<1> QED
  BY <1>2, <1>5, <1>6, <1>9, <1>10, <1>11, <1>13, CommitKeeps DEF RestartObeys, Remembered

\* A key of the bus is committed.
LEMMA SaveBusInv ==
  ASSUME SupervisorAssumption, SupervisorIInv, SaveBus
  PROVE  SupervisorIInv'
<1>1. ~Idle /\ UNCHANGED Others
  BY DEF SaveBus
<1>2. PICK b : prefs' = [prefs EXCEPT !.bus = b]
  BY DEF SaveBus
<1>3. SaveFits /\ Whole(prefs) /\ RestartObeys
  BY <1>1 DEF SupervisorIInv, SettingsShape
<1>4. DOMAIN prefs' = DOMAIN prefs /\ \A j \in DOMAIN prefs \ {"bus"} : prefs'[j] = prefs[j]
  BY <1>2, <1>3 DEF Whole
<1>5. /\ prefs'.live = prefs.live /\ prefs'.paths = prefs.paths /\ prefs'.machine = prefs.machine
      /\ prefs'.vhd_en = prefs.vhd_en
  BY <1>3, <1>4 DEF Whole, AtBoot
<1>6. Whole(prefs') /\ prefs'.vhd_en \in {boot.vhd_en, saving.to.vhd_en}
  BY <1>3, <1>4, <1>5 DEF Whole, SaveFits
<1>7. InDrives(prefs) => InDrives(prefs)'
  <2>1. boot' = boot /\ slots' = slots
    BY <1>1 DEF Others
  <2> QED
    BY <1>5, <2>1 DEF InDrives, Follows
<1> QED
  BY <1>1, <1>3, <1>5, <1>6, <1>7, CommitKeeps DEF RestartObeys, Remembered

\* A drive is committed: what is saved for it is what is in it.
LEMMA SaveDiskInv ==
  ASSUME SupervisorAssumption, SupervisorIInv, SaveDisk
  PROVE  SupervisorIInv'
<1>1. ~Idle /\ UNCHANGED Others /\ \A k \in AtBoot : prefs[k] = saving.to[k]
  BY DEF SaveDisk, IsSaved
<1>2. PICK s \in DriveSlot : prefs' = [prefs EXCEPT !.paths[s] = saving.to.paths[s]]
  BY DEF SaveDisk
<1>3. SaveFits /\ Whole(prefs) /\ RestartObeys
  BY <1>1 DEF SupervisorIInv, SettingsShape
<1>4. /\ DOMAIN prefs' = DOMAIN prefs /\ \A j \in DOMAIN prefs \ {"paths"} : prefs'[j] = prefs[j]
      /\ prefs'.paths = [prefs.paths EXCEPT ![s] = saving.to.paths[s]]
  BY <1>2, <1>3 DEF Whole
<1>5. /\ prefs'.live = prefs.live /\ prefs'.machine = prefs.machine /\ prefs'.vhd_en = prefs.vhd_en
      /\ prefs.vhd_en = saving.to.vhd_en
  BY <1>1, <1>3, <1>4 DEF Whole, AtBoot
<1>6. Whole(prefs') /\ prefs'.vhd_en \in {boot.vhd_en, saving.to.vhd_en}
  BY <1>3, <1>4, <1>5 DEF Whole, SaveFits
<1>7. InDrives(prefs) /\ InDrives(saving.to) => InDrives(prefs)'
  <2>1. boot' = boot /\ slots' = slots
    BY <1>1 DEF Others
  <2>2. \A d \in DriveSlot : prefs'.paths[d] \in {prefs.paths[d], saving.to.paths[d]}
                            /\ (d # s => prefs'.paths[d] = prefs.paths[d])
    BY <1>3, <1>4 DEF Whole
  <2> QED
    BY <1>5, <2>1, <2>2 DEF InDrives, Follows
<1> QED
  BY <1>1, <1>3, <1>5, <1>6, <1>7, CommitKeeps DEF RestartObeys, Remembered, SaveFits

\* All is committed: the restart brings up what the question named.
LEMMA RestartedInv ==
  ASSUME SupervisorAssumption, SupervisorIInv, Restarted
  PROVE  SupervisorIInv'
<1>1. /\ SaveFits /\ Whole(prefs) /\ prefs = saving.to /\ saving.restart
      /\ prefs' = prefs /\ torn' = torn \ Settled
  BY DEF Restarted, SupervisorIInv, SettingsShape
<1>2. PICK why : why = saving.why
  OBVIOUS
<1>3. Boots(prefs, why)
  BY <1>2 DEF Restarted
<1>4. Good(prefs, torn')
  BY <1>1 DEF SaveFits
<1>5. /\ SettingsShape' /\ SettingsSafe' /\ Remembered' /\ AnswersFit' /\ asked' = why /\ Idle'
      /\ \A k \in AtBoot \ {"ssc", "bus"} : boot'[k] = prefs[k]
      /\ boot'.bus = LoadedBus(prefs.bus)
      /\ \A s \in HD_SLOTS : slots'[s] = NO_PATH \/ (prefs.vhd_en /\ slots'[s] = prefs.paths[s])
  BY <1>1, <1>3, <1>4, BootsSafe
<1>6. /\ Obeys(prefs, why)
      /\ why.what = "ssc" => prefs.ssc = why.value
      /\ why.what = "hd" => /\ why.was = hd_mode_now
                            /\ why.was = "off" /\ "images" \notin torn => \A s \in HD_SLOTS : prefs.paths[s] = NO_PATH
  BY <1>1, <1>2 DEF SaveFits
<1>7. Obeys(boot', why)
  <2>1. why.what = "bus" => boot'.bus = prefs.bus
    <3>1. why.what = "bus" => BusFits(prefs.bus)
      BY <1>1, <1>2, <1>4 DEF Good, Settled, Parts
    <3> QED
      BY <1>5, <3>1 DEF BusFits, LoadedBus
  <2>2. /\ boot'.vhd_en = prefs.vhd_en /\ boot'.cart_rom = prefs.cart_rom /\ boot'.orch90 = prefs.orch90
        /\ boot'.machine = prefs.machine /\ boot'.cpu = prefs.cpu /\ boot'.ram = prefs.ram
    BY <1>5 DEF AtBoot
  <2> QED
    BY <1>6, <2>1, <2>2, SameAnswer
<1>8. ASSUME why.what = "hd", why.was = "off", "images" \notin torn'
      PROVE  \A s \in HD_SLOTS : slots'[s] = NO_PATH
  <2>1. CASE "images" \in torn
    <3>1. "images" \in Settled
      BY <1>1, <1>8, <2>1
    <3>2. ~prefs.vhd_en \/ boot.vhd_en
      BY <1>1, <3>1 DEF Settled
    <3>3. ~boot.vhd_en
      BY <1>6, <1>8 DEF hd_mode_now, hd_mode
    <3> QED
      BY <1>5, <3>2, <3>3
  <2>2. CASE "images" \notin torn
    BY <1>5, <1>6, <1>8, <2>2
  <2> QED
    BY <2>1, <2>2
<1>9. Obeyed'
  <2>1. Obeys(boot, asked)'
    BY <1>5, <1>7 DEF Obeys, hd_mode, SlotOk, is_rgbdos_name
  <2>2. asked'.what = "ssc" => prefs'.ssc = asked'.value
    BY <1>1, <1>5, <1>6
  <2>3. asked'.what = "hd" /\ asked'.was = "off" /\ "images" \notin torn' => \A s \in HD_SLOTS : slots'[s] = NO_PATH
    BY <1>5, <1>8
  <2> QED
    BY <2>1, <2>2, <2>3 DEF Obeyed
<1> QED
  BY <1>5, <1>9 DEF SupervisorIInv, RestartObeys

\* All is committed: what this boot runs with is what is saved, as before.
LEMMA ReturnedInv ==
  ASSUME SupervisorAssumption, SupervisorIInv, Returned
  PROVE  SupervisorIInv'
<1>1. /\ SaveFits /\ SettingsShape /\ SettingsSafe /\ RestartObeys /\ AnswersFit
      /\ prefs = saving.to /\ ~saving.restart
      /\ saving' = NoSave /\ torn' = torn \ Settled
      /\ UNCHANGED <<screen, sub, boot, live, prefs, slots, failed, asked>>
  BY DEF Returned, SupervisorIInv, ui
<1>2. asked' = [what |-> "nothing"]
  BY <1>1 DEF SaveFits, AnswersFit
<1>3. Obeyed'
  <2>1. asked'.what = "nothing"
    BY <1>2
  <2> QED
    BY <2>1 DEF Obeyed, Obeys, SettlesSlot
<1>4. SettingsShape' /\ AnswersFit'
  BY <1>1, AnswersKept DEF SettingsShape, Whole
<1>5. SettingsSafe'
  <2>1. Good(prefs, torn)' /\ RunsWith(prefs)'
    BY <1>1 DEF SaveFits, Good, SlotOk, BusFits, Forgotten, RunsWith
  <2>2. "slot" \in torn' \/ SlotOk(boot')
    <3>1. "slot" \in torn => "slot" \in torn'
      BY <1>1 DEF Settled
    <3> QED
      BY <1>1, <3>1 DEF SettingsSafe, SlotOk
  <2> QED
    BY <1>1, <2>1, <2>2 DEF SettingsSafe, SlotOk
<1>6. Remembered'
  BY <1>1 DEF SaveFits, RestartObeys, Remembered, InDrives, Follows
<1>7. Idle'
  BY <1>1 DEF Idle
<1> QED
  BY <1>3, <1>4, <1>5, <1>6, <1>7 DEF SupervisorIInv, RestartObeys

\* Power comes back: of each part of the settings NVS holds what was there, what was being saved, or
\* something torn.
LEMMA PowerInv ==
  ASSUME SupervisorAssumption, SupervisorIInv, PowerLost
  PROVE  SupervisorIInv'
<1>1. PICK why : why = [what |-> "nothing"]
  OBVIOUS
<1>2. Boots(prefs, why) /\ prefs' = prefs /\ why.what = "nothing" /\ Whole(prefs)
  BY <1>1 DEF PowerLost, SupervisorIInv, SettingsShape
<1>3. Good(prefs, torn')
  <2>1. CASE Idle
    BY <2>1 DEF PowerLost, SupervisorIInv, SettingsSafe
  <2>2. CASE ~Idle
    <3>1. Good(saving.from, torn) /\ Good(saving.to, torn \ Settled)
      BY <2>2 DEF SupervisorIInv, SaveFits
    <3>2. torn' = torn \cup {g \in Parts : Part(g, prefs) \notin {Part(g, saving.from), Part(g, saving.to)}}
      BY <2>2 DEF PowerLost
    <3>3. \A g \in Parts : g \notin torn' => g \notin torn /\ Part(g, prefs) \in {Part(g, saving.from), Part(g, saving.to)}
      BY <3>2
    <3>4. "slot" \in torn' \/ SlotOk(prefs)
      BY <3>1, <3>3 DEF Good, Part, Parts, SlotOk
    <3>5. "bus" \in torn' \/ BusFits(prefs.bus)
      BY <3>1, <3>3 DEF Good, Part, Parts
    <3>6. "images" \in torn' \/ Forgotten(prefs)
      <4>1. ASSUME NEW p, Part("images", prefs) = Part("images", p), Forgotten(p)
            PROVE  Forgotten(prefs)
        <5>1. /\ prefs.vhd_en = p.vhd_en
              /\ [s \in HD_SLOTS |-> prefs.paths[s]] = [s \in HD_SLOTS |-> p.paths[s]]
          BY <4>1 DEF Part
        <5>2. \A s \in HD_SLOTS : prefs.paths[s] = p.paths[s]
          <6>1. ASSUME NEW s \in HD_SLOTS PROVE prefs.paths[s] = p.paths[s]
            <7>1. [d \in HD_SLOTS |-> prefs.paths[d]][s] = [d \in HD_SLOTS |-> p.paths[d]][s]
              BY <5>1
            <7> QED
              BY <7>1
          <6> QED
            BY <6>1
        <5> QED
          BY <4>1, <5>1, <5>2 DEF Forgotten
      <4> QED
        BY <3>1, <3>3, <4>1 DEF Good, Parts
    <3> QED
      BY <3>4, <3>5, <3>6 DEF Good
  <2> QED
    BY <2>1, <2>2
<1>4. /\ SettingsShape' /\ SettingsSafe' /\ Remembered' /\ AnswersFit' /\ asked' = why /\ Idle'
  BY <1>2, <1>3, BootsSafe
<1>5. Obeyed'
  BY <1>2, <1>4 DEF Obeyed, Obeys, SettlesSlot
<1> QED
  BY <1>4, <1>5 DEF SupervisorIInv, RestartObeys

\* A step of the screens alone.
LEMMA CfgKept ==
  ASSUME Awake, UNCHANGED cfg, AnswersFit'
  PROVE  SupervisorIInv'
<1>1. SettingsShape /\ SettingsSafe /\ RestartObeys /\ Good(prefs, torn) /\ RunsWith(prefs)
  BY AwakeFacts
<1>2. UNCHANGED <<boot, live, prefs, saving, slots, failed, asked, torn>>
  BY DEF cfg
<1>3. SettingsShape' /\ Idle'
  BY <1>1, <1>2 DEF SettingsShape, Whole, Awake, Idle
<1>4. SettingsSafe'
  BY <1>1, <1>2 DEF SettingsSafe, SlotOk, Good, BusFits, Forgotten, RunsWith
<1>5. Remembered'
  BY <1>1, <1>2 DEF RestartObeys, Remembered, InDrives, Follows
<1>6. Obeyed'
  BY <1>1, <1>2 DEF RestartObeys, Obeyed, Obeys, SettlesSlot, SlotOk, hd_mode, is_rgbdos_name
<1> QED
  BY <1>3, <1>4, <1>5, <1>6 DEF SupervisorIInv, RestartObeys

\* The answers a screen waits for fit when the screen is set up with what fits.
LEMMA AnswersAt ==
  ASSUME NEW s, NEW x, screen' = s, sub' = x, boot' = boot, asked' = [what |-> "nothing"],
         (s = "fujinet" /\ x.kind = "save") => MaySave(x.p),
         (s = "cart_popup" /\ x.kind = "toggle") => x.row \in {"orch90", "ssc"},
         (s = "cart" /\ x.kind = "restart") => x.pick # boot.cart_rom,
         (s = "machine_select" /\ x.kind = "restart") => x.pick \in {3, 4},
         (s = "files" /\ x.kind = "mount") => \A d \in SlotsFor(x.image) : SlotFits(d),
         (s = "files" /\ x.kind \in {"replace", "again"}) => SlotFits(x.slot)
  PROVE  AnswersFit'
  BY DEF AnswersFit, At, MaySave, validate_external, SlotFits, SlotsFor

\* A screen opens with what fits the answers it waits for.
LEMMA OpenedWith ==
  ASSUME Awake, NEW s, NEW x, Open(s, x),
         (s = "fujinet" /\ x.kind = "save") => MaySave(x.p),
         (s = "cart_popup" /\ x.kind = "toggle") => x.row \in {"orch90", "ssc"},
         (s = "cart" /\ x.kind = "restart") => x.pick # boot.cart_rom,
         (s = "machine_select" /\ x.kind = "restart") => x.pick \in {3, 4},
         (s = "files" /\ x.kind = "mount") => \A d \in SlotsFor(x.image) : SlotFits(d),
         (s = "files" /\ x.kind \in {"replace", "again"}) => SlotFits(x.slot)
  PROVE  SupervisorIInv'
<1>1. screen' = s /\ sub' = x /\ boot' = boot /\ UNCHANGED cfg /\ asked' = [what |-> "nothing"]
  BY AwakeFacts DEF Open, Shown, cfg
<1>2. AnswersFit'
  BY <1>1, AnswersAt
<1> QED
  BY <1>1, <1>2, CfgKept

\* A screen with nothing open on it waits for no answer.
LEMMA Opened ==
  ASSUME Awake, NEW s, NEW x, Open(s, x),
         s \notin {"fujinet", "cart_popup", "cart", "machine_select", "files"}
           \/ x.kind \notin {"save", "toggle", "restart", "mount", "replace", "again"}
  PROVE  SupervisorIInv'
  BY OpenedWith

\* A setting of one value that a popup chooses.
LEMMA ChosenRestarts ==
  ASSUME SupervisorAssumption, Awake, NEW k \in {"machine", "ram", "cpu", "bus"}, NEW v,
         k = "machine" => v \in {3, 4}, k = "bus" => BusFits(v),
         SaveAndRestart([prefs EXCEPT ![k] = v], [what |-> k, value |-> v])
  PROVE  SupervisorIInv'
<1>1. Whole(prefs) /\ Good(prefs, torn) /\ k \in DOMAIN prefs
  BY AwakeFacts DEF Whole, AtBoot
<1>2. PICK p : p = [prefs EXCEPT ![k] = v]
  OBVIOUS
<1>3. PICK why : why = [what |-> k, value |-> v]
  OBVIOUS
<1>4. SaveAndRestart(p, why) /\ why.what = k /\ why.value = v
  BY <1>2, <1>3
<1>5. DOMAIN p = DOMAIN prefs /\ p[k] = v /\ \A j \in DOMAIN prefs \ {k} : p[j] = prefs[j]
  BY <1>1, <1>2
<1>6. /\ p.orch90 = prefs.orch90 /\ p.cart_rom = prefs.cart_rom /\ p.vhd_en = prefs.vhd_en
      /\ p.live = prefs.live /\ p.paths = prefs.paths
  BY <1>1, <1>5 DEF Whole, AtBoot
<1>7. p.machine \in {3, 4}
  <2>1. k = "machine" \/ p.machine = prefs.machine
    BY <1>1, <1>5 DEF Whole, AtBoot
  <2> QED
    BY <1>1, <1>5, <2>1 DEF Whole
<1>8. Whole(p)
  BY <1>1, <1>5, <1>6, <1>7 DEF Whole
<1>9. SlotOk(p) \/ ("slot" \in torn /\ ~SettlesSlot(why))
  BY <1>1, <1>4, <1>6 DEF Good, SlotOk, SettlesSlot
<1>10. BusFits(p.bus) \/ ("bus" \in torn /\ why.what # "bus")
  <2>1. k # "bus" => p.bus = prefs.bus
    BY <1>1, <1>5 DEF Whole, AtBoot
  <2> QED
    BY <1>1, <1>4, <1>5, <2>1 DEF Good
<1>11. Obeys(p, why)
  BY <1>4, <1>5 DEF Obeys, SettlesSlot
<1> QED
  BY <1>4, <1>6, <1>8, <1>9, <1>10, <1>11, RestartBegins

\* Orchestra-90 and Speech/Sound, on and off.
LEMMA ToggleRestarts ==
  ASSUME SupervisorAssumption, Awake, NEW row \in {"orch90", "ssc"}, NEW on \in BOOLEAN,
         SaveAndRestart(ToggleSave(prefs, row, on), [what |-> row, value |-> on])
  PROVE  SupervisorIInv'
<1>1. Whole(prefs) /\ Good(prefs, torn)
  BY AwakeFacts
<1>2. PICK p : p = ToggleSave(prefs, row, on)
  OBVIOUS
<1>3. PICK why : why = [what |-> row, value |-> on]
  OBVIOUS
<1>4. SaveAndRestart(p, why) /\ why.what = row /\ why.value = on
  BY <1>2, <1>3
<1>5. DOMAIN p = DOMAIN prefs /\ \A j \in DOMAIN prefs \ {"orch90", "ssc", "cart_rom", "vhd_en"} : p[j] = prefs[j]
  BY <1>2 DEF ToggleSave, orch90_save
<1>6. /\ Whole(p) /\ p.live = prefs.live /\ p.paths = prefs.paths /\ p.bus = prefs.bus
  BY <1>1, <1>5 DEF Whole, AtBoot
<1>7. BusFits(p.bus) \/ ("bus" \in torn /\ why.what # "bus")
  BY <1>1, <1>4, <1>6 DEF Good
<1>8. CASE row = "orch90"
  <2>1. /\ p.orch90 = on /\ p.cart_rom = (IF on THEN ORCH ELSE NO_PATH)
        /\ p.vhd_en = IF on THEN FALSE ELSE prefs.vhd_en
    BY <1>1, <1>2, <1>8 DEF ToggleSave, orch90_save, Whole, AtBoot
  <2>2. SlotOk(p)
    BY <2>1 DEF SlotOk
  <2>3. Obeys(p, why)
    BY <1>4, <1>8, <2>1, <2>2 DEF Obeys
  <2> QED
    BY <1>4, <1>6, <1>7, <1>8, <2>2, <2>3, RestartBegins
<1>9. CASE row = "ssc"
  <2>1. p.ssc = on /\ p.orch90 = prefs.orch90 /\ p.cart_rom = prefs.cart_rom /\ p.vhd_en = prefs.vhd_en
    BY <1>1, <1>2, <1>9 DEF ToggleSave, Whole, AtBoot
  <2>2. SlotOk(p) \/ ("slot" \in torn /\ ~SettlesSlot(why))
    BY <1>1, <1>4, <1>9, <2>1 DEF Good, SlotOk, SettlesSlot
  <2>3. Obeys(p, why)
    BY <1>4, <1>9 DEF Obeys, SettlesSlot
  <2> QED
    BY <1>4, <1>6, <1>7, <1>9, <2>1, <2>2, <2>3, RestartBegins
<1> QED
  BY <1>8, <1>9

\* The Hard Disk picker: every mode but off leaves the slot with one owner.
LEMMA HdRestarts ==
  ASSUME SupervisorAssumption, Awake, NEW mode \in HdMode,
         SaveAndRestart(hd_mode_save(prefs, mode), [what |-> "hd", value |-> mode, was |-> hd_mode_now])
  PROVE  SupervisorIInv'
<1>1. Whole(prefs) /\ Good(prefs, torn)
  BY AwakeFacts
<1>2. PICK p : p = hd_mode_save(prefs, mode)
  OBVIOUS
<1>3. PICK why : why = [what |-> "hd", value |-> mode, was |-> hd_mode_now]
  OBVIOUS
<1>4. SaveAndRestart(p, why) /\ why.what = "hd" /\ why.value = mode /\ why.was = hd_mode_now
  BY <1>2, <1>3
<1>5. DOMAIN p = DOMAIN prefs /\ \A j \in DOMAIN prefs \ {"orch90", "cart_rom", "vhd_en"} : p[j] = prefs[j]
  BY <1>2 DEF hd_mode_save
<1>6. /\ p.vhd_en = (mode # "off")
      /\ p.orch90 = IF mode # "off" THEN FALSE ELSE prefs.orch90
      /\ p.cart_rom = IF mode = "rgbdos" THEN (IF is_rgbdos_name(prefs.cart_rom) THEN prefs.cart_rom ELSE RGBDOS)
                      ELSE IF mode = "rsdos" \/ is_rgbdos_name(prefs.cart_rom) THEN NO_PATH ELSE prefs.cart_rom
  BY <1>1, <1>2 DEF hd_mode_save, Whole, AtBoot
<1>7. ~is_rgbdos_name(ORCH) /\ ~is_rgbdos_name(NO_PATH) /\ is_rgbdos_name(RGBDOS)
  BY DEF SupervisorAssumption, is_rgbdos_name, ORCH, RGBDOS
<1>8. Whole(p) /\ p.live = prefs.live /\ p.paths = prefs.paths /\ p.bus = prefs.bus
  BY <1>1, <1>5 DEF Whole, AtBoot
<1>9. mode # "off" => SlotOk(p)
  BY <1>6 DEF SlotOk
<1>10. SlotOk(p) \/ ("slot" \in torn /\ ~SettlesSlot(why))
  BY <1>1, <1>4, <1>6, <1>7, <1>9 DEF Good, SlotOk, SettlesSlot
<1>11. BusFits(p.bus) \/ ("bus" \in torn /\ why.what # "bus")
  BY <1>1, <1>4, <1>8 DEF Good
<1>12. hd_mode(p) = mode /\ (mode = "off" => ~is_rgbdos_name(p.cart_rom))
  BY <1>6, <1>7 DEF hd_mode, HdMode
<1>13. Obeys(p, why)
  BY <1>4, <1>9, <1>12 DEF Obeys, SettlesSlot
<1> QED
  BY <1>4, <1>8, <1>10, <1>11, <1>13, RestartBegins

\* A cartridge is chosen: the rest of the settings stays, and going back to what this boot loaded
\* keeps its Orchestra-90.
LEMMA CartSound ==
  ASSUME Awake, NEW target, NEW p, p = CartSaved(prefs, target)
  PROVE  /\ Whole(p) /\ p.cart_rom = target /\ p.orch90 = (target = boot.cart_rom /\ boot.orch90)
         /\ p.vhd_en = prefs.vhd_en /\ p.live = prefs.live /\ p.paths = prefs.paths /\ p.bus = prefs.bus
         /\ p.machine = prefs.machine /\ p.cpu = prefs.cpu /\ p.ram = prefs.ram /\ p.ssc = prefs.ssc
<1>1. Whole(prefs)
  BY AwakeFacts
<1>2. DOMAIN p = DOMAIN prefs /\ \A j \in DOMAIN prefs \ {"orch90", "cart_rom"} : p[j] = prefs[j]
  BY DEF CartSaved
<1>3. p.cart_rom = target /\ p.orch90 = (target = boot.cart_rom /\ boot.orch90)
  BY <1>1 DEF CartSaved, Whole, AtBoot
<1>4. /\ p.vhd_en = prefs.vhd_en /\ p.live = prefs.live /\ p.paths = prefs.paths /\ p.bus = prefs.bus
      /\ p.machine = prefs.machine /\ p.cpu = prefs.cpu /\ p.ram = prefs.ram /\ p.ssc = prefs.ssc
  BY <1>1, <1>2 DEF Whole, AtBoot
<1>5. Whole(p)
  BY <1>1, <1>2, <1>4 DEF Whole
<1> QED
  BY <1>3, <1>4, <1>5

\* Load Cart, restarted at once: what was asked about is not what this boot loaded.
LEMMA CartRestarts ==
  ASSUME SupervisorAssumption, Awake, NEW target, target # boot.cart_rom,
         SaveAndRestart(CartSaved(prefs, target), [what |-> "cart_rom", value |-> target])
  PROVE  SupervisorIInv'
<1>1. Good(prefs, torn)
  BY AwakeFacts
<1>2. PICK p : p = CartSaved(prefs, target)
  OBVIOUS
<1>3. PICK why : why = [what |-> "cart_rom", value |-> target]
  OBVIOUS
<1>4. SaveAndRestart(p, why) /\ why.what = "cart_rom" /\ why.value = target
  BY <1>2, <1>3
<1>5. /\ Whole(p) /\ p.cart_rom = target /\ p.orch90 = FALSE
      /\ p.live = prefs.live /\ p.paths = prefs.paths /\ p.bus = prefs.bus
  BY <1>2, CartSound
<1>6. SlotOk(p) /\ Obeys(p, why)
  BY <1>4, <1>5 DEF SlotOk, Obeys
<1>7. BusFits(p.bus) \/ ("bus" \in torn /\ why.what # "bus")
  BY <1>1, <1>4, <1>5 DEF Good
<1> QED
  BY <1>4, <1>5, <1>6, <1>7, RestartBegins

\* Load Cart, left for a later restart.
LEMMA CartWaitsInv ==
  ASSUME SupervisorAssumption, Awake, NEW target, CartWaits(target)
  PROVE  SupervisorIInv'
<1>1. Good(prefs, torn) /\ RunsWith(prefs) /\ SettingsSafe /\ RestartObeys /\ SettingsShape
  BY AwakeFacts
<1>2. PICK p : p = CartSaved(prefs, target)
  OBVIOUS
<1>3. PICK why : why = [what |-> "cart_rom", value |-> target]
  OBVIOUS
<1>4. why.what = "cart_rom"
  BY <1>3
<1>5. /\ BeginSave(p, why, FALSE) /\ screen' = screen /\ sub' = Plain
      /\ UNCHANGED <<boot, live, prefs, slots, failed, asked, torn>>
  BY <1>2, <1>3 DEF CartWaits, Shown
<1>6. /\ Whole(p) /\ p.cart_rom = target /\ p.orch90 = (target = boot.cart_rom /\ boot.orch90)
      /\ p.vhd_en = prefs.vhd_en /\ p.live = prefs.live /\ p.paths = prefs.paths /\ p.bus = prefs.bus
      /\ p.machine = prefs.machine /\ p.cpu = prefs.cpu /\ p.ram = prefs.ram
  BY <1>2, CartSound
<1>7. RunsWith(p)
  BY <1>1, <1>6 DEF RunsWith
<1>8. SlotOk(p) \/ "slot" \in torn
  BY <1>1, <1>6 DEF SettingsSafe, SlotOk, RunsWith
<1>9. BusFits(p.bus) \/ "bus" \in torn
  BY <1>1, <1>6 DEF Good
<1>10. Forgotten(p) \/ ("images" \in torn /\ why.what # "disks")
  BY <1>1, <1>4, <1>6 DEF Good, Forgotten
<1>11. failed' \/ InDrives(p)'
  <2>1. saving.why.what = "nothing"
    BY DEF Awake, Idle, NoSave
  <2> QED
    BY <1>1, <1>5, <1>6, <2>1 DEF RestartObeys, Remembered, InDrives, Follows
<1>12. screen' # "inactive" /\ p.live = prefs.live /\ why.what # "bus" /\ UNCHANGED <<boot, prefs, torn>>
  BY <1>4, <1>5, <1>6 DEF Awake
<1>13. SaveFits'
  BY <1>5, <1>6, <1>7, <1>8, <1>9, <1>10, <1>11, <1>12, SaveFitsReturning
<1>14. AnswersFit'
  <2>1. asked' = [what |-> "nothing"] /\ Plain.kind = "none"
    BY <1>5, AwakeFacts DEF Plain
  <2> QED
    BY <1>5, <2>1, AnswersAt
<1> QED
  BY <1>5, <1>13, <1>14, SaveBegins

\* What takes effect at once touches nothing that is fixed at boot, and no drive.
LEMMA KeptSettings ==
  ASSUME Awake, UNCHANGED <<boot, slots, failed, asked, saving, torn>>,
         DOMAIN live' = LiveKeys, DOMAIN prefs' = DOMAIN prefs, DOMAIN prefs'.live = LiveKeys,
         \A k \in DOMAIN prefs \ {"live"} : prefs'[k] = prefs[k],
         \A k \in LiveKeys \ {"joy"} : live'[k] = prefs'.live[k], AnswersFit'
  PROVE  SupervisorIInv'
<1>1. /\ SettingsShape /\ SettingsSafe /\ RestartObeys /\ Whole(prefs)
      /\ Good(prefs, torn) /\ RunsWith(prefs)
  BY AwakeFacts
<1>2. /\ prefs'.paths = prefs.paths /\ prefs'.machine = prefs.machine /\ prefs'.bus = prefs.bus
      /\ prefs'.orch90 = prefs.orch90 /\ prefs'.cart_rom = prefs.cart_rom /\ prefs'.vhd_en = prefs.vhd_en
      /\ prefs'.cpu = prefs.cpu /\ prefs'.ram = prefs.ram
  BY <1>1 DEF Whole, AtBoot
<1>3. SettingsShape' /\ Idle'
  BY <1>1, <1>2 DEF SettingsShape, Whole, Awake, Idle
<1>4. SettingsSafe'
  <2>1. Good(prefs, torn)' /\ RunsWith(prefs)'
    BY <1>1, <1>2 DEF Good, SlotOk, BusFits, Forgotten, RunsWith
  <2> QED
    BY <1>1, <2>1 DEF SettingsSafe, SlotOk
<1>5. Remembered'
  BY <1>1, <1>2 DEF RestartObeys, Remembered, InDrives, Follows
<1>6. Obeyed'
  <2>1. asked' = [what |-> "nothing"]
    BY AwakeFacts
  <2>2. asked'.what = "nothing"
    BY <2>1
  <2> QED
    BY <2>2 DEF Obeyed, Obeys, SettlesSlot
<1> QED
  BY <1>3, <1>4, <1>5, <1>6 DEF SupervisorIInv, RestartObeys

\* A setting that is saved as it takes effect.
LEMMA AppliedKept ==
  ASSUME Awake, NEW key \in LiveKeys, NEW v,
         live' = [live EXCEPT ![key] = v], prefs' = [prefs EXCEPT !.live[key] = v],
         UNCHANGED <<boot, slots, failed, asked, saving, torn>>, AnswersFit'
  PROVE  SupervisorIInv'
<1>1. Whole(prefs) /\ SettingsShape /\ SettingsSafe
  BY AwakeFacts
<1>2. DOMAIN live = LiveKeys /\ DOMAIN prefs.live = LiveKeys /\ "live" \in DOMAIN prefs
  BY <1>1 DEF SettingsShape, Whole
<1>3. /\ DOMAIN prefs' = DOMAIN prefs /\ \A k \in DOMAIN prefs \ {"live"} : prefs'[k] = prefs[k]
      /\ prefs'.live = [prefs.live EXCEPT ![key] = v]
  BY <1>2
<1>4. /\ DOMAIN live' = LiveKeys /\ DOMAIN prefs'.live = LiveKeys
      /\ \A k \in LiveKeys \ {"joy"} : live'[k] = prefs'.live[k]
  BY <1>1, <1>2, <1>3 DEF SettingsSafe
<1> QED
  BY <1>3, <1>4, KeptSettings

\* A row that cycles through its values.
LEMMA AppliedInv ==
  ASSUME Awake, NEW key \in LiveKeys, NEW v, Applied(key, v)
  PROVE  SupervisorIInv'
<1>1. AnswersFit'
  BY AwakeFacts, AnswersKept DEF Applied
<1> QED
  BY <1>1, AppliedKept DEF Applied

\* A key binding, saved with its popup.
LEMMA MappedInv ==
  ASSUME Awake, NEW v, Mapped(v)
  PROVE  SupervisorIInv'
<1>1. AnswersFit'
  <2>1. screen' = "keymap_list" /\ sub' = Plain /\ boot' = boot /\ asked' = [what |-> "nothing"]
    BY AwakeFacts DEF Mapped, Shown
  <2> QED
    BY <2>1, AnswersAt
<1> QED
  BY <1>1, AppliedKept DEF Mapped, LiveKeys

\* Mouse Sensitivity: what is in use and what is saved may differ, and nothing else does.
LEMMA JoystickInv ==
  ASSUME Awake, sv_joystick_on_key
  PROVE  SupervisorIInv'
<1>1. /\ DOMAIN live = LiveKeys /\ DOMAIN prefs.live = LiveKeys /\ "live" \in DOMAIN prefs
      /\ SettingsSafe /\ AnswersFit
  BY AwakeFacts DEF SettingsShape, Whole
<1>2. CASE /\ Bounded
           /\ \E n \in {1, 2} : live' = [live EXCEPT !.joy = n]
           /\ UNCHANGED <<ui, boot, prefs, slots, failed, asked, saving, torn>>
  <2>1. DOMAIN live' = LiveKeys /\ \A k \in LiveKeys \ {"joy"} : live'[k] = prefs'.live[k]
    BY <1>1, <1>2 DEF SettingsSafe
  <2>2. AnswersFit'
    BY <1>1, <1>2, AnswersKept DEF ui
  <2> QED
    BY <1>1, <1>2, <2>1, <2>2, KeptSettings
<1>3. CASE /\ prefs' = [prefs EXCEPT !.live.joy = live.joy] /\ Shown("settings", Plain)
           /\ UNCHANGED <<boot, live, slots, changes, failed, asked, saving, torn>>
  <2>1. /\ DOMAIN prefs' = DOMAIN prefs /\ \A k \in DOMAIN prefs \ {"live"} : prefs'[k] = prefs[k]
        /\ prefs'.live = [prefs.live EXCEPT !["joy"] = live.joy]
    BY <1>1, <1>3
  <2>2. DOMAIN prefs'.live = LiveKeys /\ \A k \in LiveKeys \ {"joy"} : live'[k] = prefs'.live[k]
    BY <1>1, <1>3, <2>1 DEF SettingsSafe
  <2>3. AnswersFit'
    <3>1. screen' = "settings" /\ sub' = Plain /\ boot' = boot /\ asked' = [what |-> "nothing"]
      BY <1>3, AwakeFacts DEF Shown
    <3> QED
      BY <3>1, AnswersAt
  <2> QED
    BY <1>1, <1>3, <2>1, <2>2, <2>3, KeptSettings
<1> QED
  BY <1>2, <1>3 DEF sv_joystick_on_key

\* The menu is opened or closed: the answer to an earlier question is no longer what is asked about.
LEMMA ToggleInv ==
  ASSUME SupervisorIInv, Idle, supervisor_toggle
  PROVE  SupervisorIInv'
<1>1. /\ UNCHANGED <<boot, live, prefs, slots, failed, saving, torn>> /\ asked' = [what |-> "nothing"]
      /\ screen' \in {"main", "inactive"}
  BY DEF supervisor_toggle, Shown
<1>2. SettingsShape /\ SettingsSafe /\ Remembered
  BY DEF SupervisorIInv, RestartObeys
<1>3. Obeyed'
  <2>1. asked'.what = "nothing"
    BY <1>1
  <2> QED
    BY <2>1 DEF Obeyed, Obeys, SettlesSlot
<1>4. SettingsShape' /\ Idle'
  BY <1>1, <1>2 DEF SettingsShape, Whole, Idle
<1>5. SettingsSafe'
  BY <1>1, <1>2 DEF SettingsSafe, SlotOk, Good, BusFits, Forgotten, RunsWith, Idle
<1>6. Remembered'
  BY <1>1, <1>2 DEF Remembered, InDrives, Follows
<1>7. AnswersFit'
  BY <1>1 DEF AnswersFit, At
<1> QED
  BY <1>3, <1>4, <1>5, <1>6, <1>7 DEF SupervisorIInv, RestartObeys

\* The drives are saved as they are after a mount or an eject.
LEMMA DrivesSaved ==
  ASSUME SupervisorAssumption, Awake, NEW slot, NEW i,
         i = NO_PATH \/ slot \in FLOPPY_SLOTS \/ boot.vhd_en,
         SaveDrives([slots EXCEPT ![slot] = i]), UNCHANGED <<boot, live, prefs, asked, torn>>
  PROVE  SupervisorIInv'
<1>1. /\ Whole(prefs) /\ DOMAIN slots = DriveSlot /\ Good(prefs, torn) /\ RunsWith(prefs) /\ RestartObeys
      /\ asked = [what |-> "nothing"]
  BY AwakeFacts DEF SettingsShape
<1>2. PICK new : new = [slots EXCEPT ![slot] = i]
  OBVIOUS
<1>3. PICK q : q = save_state(prefs, new)
  OBVIOUS
<1>4. PICK why : why = [what |-> "disks"]
  OBVIOUS
<1>5. /\ slots' = new /\ failed' = FALSE /\ BeginSave(q, why, FALSE) /\ why.what = "disks"
      /\ screen' = "files" /\ sub' = Plain
  BY <1>2, <1>3, <1>4 DEF SaveDrives, Shown
<1>6. /\ Whole(q) /\ Forgotten(q) /\ q.live = prefs.live /\ \A k \in AtBoot : q[k] = prefs[k]
      /\ \A s \in DriveSlot : q.paths[s] =
              IF s \in FLOPPY_SLOTS THEN new[s]
              ELSE IF ~prefs.vhd_en THEN NO_PATH ELSE IF boot.vhd_en THEN new[s] ELSE prefs.paths[s]
  BY <1>1, <1>3, SavedSettings
<1>7. /\ SlotOk(q) = SlotOk(prefs) /\ BusFits(q.bus) = BusFits(prefs.bus) /\ RunsWith(q) = RunsWith(prefs)
      /\ q.vhd_en = prefs.vhd_en
  BY <1>6, SameQuestion
<1>8. DOMAIN new = DriveSlot /\ \A s \in DriveSlot : new[s] = IF s = slot THEN i ELSE slots[s]
  BY <1>1, <1>2
<1>9. InDrives(q)'
  <2>1. \A s \in DriveSlot : s \in FLOPPY_SLOTS \/ (boot'.vhd_en /\ q.vhd_en) => q.paths[s] = slots'[s]
    BY <1>5, <1>6, <1>7
  <2> QED
    BY <2>1 DEF InDrives, Follows
<1>10. SaveFits'
  BY <1>1, <1>5, <1>6, <1>7, <1>9, SaveFitsReturning DEF Good
<1>11. saving'.why.what = "disks"
  BY <1>5 DEF BeginSave
<1>12. ~boot.vhd_en => \A s \in HD_SLOTS : slots'[s] = NO_PATH
  <2>1. \A s \in HD_SLOTS : s \in DriveSlot /\ s \notin FLOPPY_SLOTS
    BY DEF DriveSlot, SupervisorAssumption
  <2> QED
    BY <1>1, <1>5, <1>8, <2>1 DEF RestartObeys, Remembered
<1>13. AnswersFit'
  <2>1. asked' = [what |-> "nothing"] /\ Plain.kind = "none"
    BY <1>1 DEF Plain
  <2> QED
    BY <1>5, <2>1, AnswersAt
<1>14. asked.what # "hd"
  BY <1>1
<1> QED
  BY <1>5, <1>8, <1>10, <1>11, <1>12, <1>13, <1>14, PrefsStay DEF Awake

\* A mount that failed leaves the drive empty, and the settings as they were.
LEMMA MountInv ==
  ASSUME SupervisorAssumption, Awake, NEW slot, NEW i, SlotFits(slot), do_mount(slot, i)
  PROVE  SupervisorIInv'
<1>1. UNCHANGED <<boot, live, prefs, asked, torn>>
  BY DEF do_mount
<1>2. CASE SaveDrives([slots EXCEPT ![slot] = i])
  <2>1. slot \in FLOPPY_SLOTS \/ boot.vhd_en
    BY DEF SlotFits
  <2> QED
    BY <1>1, <1>2, <2>1, DrivesSaved
<1>3. CASE /\ slots' = [slots EXCEPT ![slot] = NO_PATH] /\ failed' = TRUE
           /\ Shown("files", [kind |-> "failed"]) /\ UNCHANGED saving
  <2>1. DOMAIN slots = DriveSlot /\ RestartObeys /\ asked = [what |-> "nothing"]
    BY AwakeFacts DEF SettingsShape
  <2>2. DOMAIN slots' = DriveSlot /\ \A s \in DriveSlot : slots'[s] \in {slots[s], NO_PATH}
    BY <1>3, <2>1
  <2>3. ~boot.vhd_en => \A s \in HD_SLOTS : slots'[s] = NO_PATH
    BY <2>1, <2>2 DEF RestartObeys, Remembered, DriveSlot
  <2>4. AnswersFit'
    <3>1. screen' = "files" /\ sub'.kind = "failed" /\ asked' = [what |-> "nothing"] /\ boot' = boot
      BY <1>1, <1>3, <2>1 DEF Shown
    <3> QED
      BY <3>1, AnswersAt
  <2>5. Idle' /\ asked.what # "hd"
    BY <1>3, <2>1 DEF Awake, Idle
  <2> QED
    BY <1>1, <1>3, <2>2, <2>3, <2>4, <2>5, PrefsStay DEF Awake
<1> QED
  BY <1>2, <1>3 DEF do_mount

\* The Disk Manager's popups.
LEMMA AcceptInv ==
  ASSUME SupervisorAssumption, Awake, fb_popup_accept
  PROVE  SupervisorIInv'
<1>1. screen = "files" /\ AnswersFit
  BY AwakeFacts DEF fb_popup_accept
<1>2. CASE Open(screen, Plain)
  BY <1>2, Opened DEF Plain
<1>3. CASE /\ sub.kind = "mount"
           /\ \E s \in SlotsFor(sub.image) :
                CASE slots[s] = sub.image -> Open(screen, Plain)
                  [] slots[s] # NO_PATH /\ slots[s] # sub.image ->
                       Open(screen, [kind |-> "replace", image |-> sub.image, slot |-> s])
                  [] slots[s] = NO_PATH /\ Twice(sub.image) ->
                       Open(screen, [kind |-> "again", image |-> sub.image, slot |-> s])
                  [] OTHER -> do_mount(s, sub.image)
  <2>1. PICK s \in SlotsFor(sub.image) :
          \/ Open(screen, Plain)
          \/ Open(screen, [kind |-> "replace", image |-> sub.image, slot |-> s])
          \/ Open(screen, [kind |-> "again", image |-> sub.image, slot |-> s])
          \/ do_mount(s, sub.image)
    BY <1>3
  <2>2. SlotFits(s)
    BY <1>1, <1>3, <2>1 DEF AnswersFit, At
  <2>3. ASSUME NEW k \in {"replace", "again"}, Open(screen, [kind |-> k, image |-> sub.image, slot |-> s])
        PROVE  SupervisorIInv'
    <3>1. PICK x : x = [kind |-> k, image |-> sub.image, slot |-> s]
      OBVIOUS
    <3>2. Open("files", x) /\ x.kind = k /\ x.slot = s
      BY <1>1, <2>3, <3>1
    <3> QED
      BY <2>2, <3>2, OpenedWith
  <2> QED
    BY <1>2, <2>1, <2>2, <2>3, MountInv
<1>4. CASE sub.kind \in {"replace", "again"} /\ do_mount(sub.slot, sub.image)
  <2>1. SlotFits(sub.slot)
    BY <1>1, <1>4 DEF AnswersFit, At
  <2> QED
    BY <1>4, <2>1, MountInv
<1>5. CASE /\ SaveDrives([slots EXCEPT ![sub.slot] = NO_PATH])
           /\ UNCHANGED <<boot, live, prefs, asked, torn>>
  BY <1>5, DrivesSaved
<1> QED
  BY <1>2, <1>3, <1>4, <1>5 DEF fb_popup_accept

\* F6 mounts what is saved, or leaves the drive empty.
LEMMA QuickMountInv ==
  ASSUME SupervisorAssumption, SupervisorIInv, Idle, supervisor_quick_mount_last_disk
  PROVE  SupervisorIInv'
<1>1. /\ screen' = screen /\ sub' = sub /\ UNCHANGED <<boot, live, prefs, asked, saving, torn>>
  BY DEF supervisor_quick_mount_last_disk, ui
<1>2. PICK s \in FLOPPY_SLOTS :
        \/ slots' = [slots EXCEPT ![s] = prefs.paths[s]] /\ UNCHANGED failed
        \/ slots' = [slots EXCEPT ![s] = NO_PATH] /\ failed' = TRUE
  BY DEF supervisor_quick_mount_last_disk
<1>3. DOMAIN slots = DriveSlot /\ RestartObeys /\ AnswersFit
  BY DEF SupervisorIInv, SettingsShape
<1>4. s \in DriveSlot /\ \A d \in HD_SLOTS : d \in DriveSlot /\ d # s
  BY DEF DriveSlot, SupervisorAssumption
<1>5. /\ DOMAIN slots' = DriveSlot /\ \A d \in DriveSlot : d # s => slots'[d] = slots[d]
      /\ failed' \/ (failed' = failed /\ slots'[s] = prefs.paths[s])
  BY <1>2, <1>3, <1>4
<1>6. failed' \/ saving'.why.what = "disks" \/ InDrives(prefs)'
  <2>1. saving.why.what = "nothing"
    BY DEF Idle, NoSave
  <2> QED
    BY <1>1, <1>3, <1>4, <1>5, <2>1 DEF RestartObeys, Remembered, InDrives, Follows
<1>7. ~boot.vhd_en => \A d \in HD_SLOTS : slots'[d] = NO_PATH
  BY <1>3, <1>4, <1>5 DEF RestartObeys, Remembered
<1>8. AnswersFit' /\ Idle'
  BY <1>1, <1>3, AnswersKept DEF Idle
<1> QED
  BY <1>1, <1>4, <1>5, <1>6, <1>7, <1>8, PrefsStay

\* The screens above the restart questions.
LEMMA ScreensInv ==
  ASSUME SupervisorAssumption, Awake,
         execute_action \/ confirm_on_key \/ Back \/ settings_activate \/ keyboard_activate
  PROVE  SupervisorIInv'
<1>1. ASSUME execute_action PROVE SupervisorIInv'
  <2>1. ASSUME NEW s \in {"cart", "files", "settings", "debug_menu", "about"}, Open(s, Plain)
        PROVE  SupervisorIInv'
    BY <2>1, Opened DEF Plain
  <2>2. CASE Open("wifi", WifiView(TRUE))
    BY <2>2, Opened
  <2>3. CASE Open("confirm", [kind |-> "reset", prev |-> screen])
    BY <2>3, Opened
  <2> QED
    BY <1>1, <2>1, <2>2, <2>3 DEF execute_action
<1>2. ASSUME confirm_on_key PROVE SupervisorIInv'
  <2>1. CASE Open(sub.prev, Plain)
    BY <2>1, Opened DEF Plain
  <2> QED
    BY <1>2, <2>1, ToggleInv DEF confirm_on_key, Awake
<1>3. ASSUME Back PROVE SupervisorIInv'
  <2>1. Open(Parent[screen], Plain)
    BY <1>3 DEF Back
  <2> QED
    BY <2>1, Opened DEF Plain
<1>4. ASSUME settings_activate PROVE SupervisorIInv'
  <2>1. ASSUME NEW s \in {"machine_menu", "keyboard_menu", "sound_menu"}, Open(s, Plain)
        PROVE  SupervisorIInv'
    BY <2>1, Opened
  <2>2. CASE Open("joy_sense", Plain)
    BY <2>2, Opened
  <2>3. CASE Cycle("joy_kbd", 3)
    BY <2>3, AppliedInv DEF Cycle, LiveKeys
  <2>4. CASE Open("wifi", WifiView(FALSE))
    BY <2>4, Opened
  <2>5. CASE Open("fujinet", Fuji("none", boot.bus, boot.bus))
    BY <2>5, Opened DEF Fuji
  <2> QED
    BY <1>4, <2>1, <2>2, <2>3, <2>4, <2>5 DEF settings_activate
<1>5. ASSUME keyboard_activate PROVE SupervisorIInv'
  <2>1. CASE Cycle("kbd_layout", 2)
    BY <2>1, AppliedInv DEF Cycle, LiveKeys
  <2>2. CASE Open("keymap_list", Plain)
    BY <2>2, Opened
  <2> QED
    BY <1>5, <2>1, <2>2 DEF keyboard_activate
<1> QED
  BY <1>1, <1>2, <1>3, <1>4, <1>5

\* The Key Mapper.
LEMMA KeymapInv ==
  ASSUME SupervisorAssumption, Awake, sv_keymap_on_key \/ km_popup_on_key \/ sv_keymap_on_raw_vk
  PROVE  SupervisorIInv'
<1>1. ASSUME sv_keymap_on_key PROVE SupervisorIInv'
  <2>1. ASSUME NEW s \in {"keymap_capture", "keymap_test"}, Open(s, Plain) PROVE SupervisorIInv'
    BY <2>1, Opened
  <2>2. ASSUME NEW k \in {"choose", "clear"}, Open(screen, [kind |-> k]) PROVE SupervisorIInv'
    BY <2>2, Opened
  <2> QED
    BY <1>1, <2>1, <2>2 DEF sv_keymap_on_key
<1>2. ASSUME km_popup_on_key PROVE SupervisorIInv'
  <2>1. CASE Open(screen, Plain)
    BY <2>1, Opened DEF Plain
  <2>2. CASE Open("keymap_capture", Plain)
    BY <2>2, Opened
  <2>3. CASE Mapped("custom") \/ Mapped("default")
    BY <2>3, MappedInv
  <2> QED
    BY <1>2, <2>1, <2>2, <2>3 DEF km_popup_on_key
<1>3. ASSUME sv_keymap_on_raw_vk PROVE SupervisorIInv'
  <2>1. ASSUME NEW v, Mapped(v) PROVE SupervisorIInv'
    BY <2>1, MappedInv
  <2>2. CASE Open("keymap_list", [kind |-> "map"])
    BY <2>2, Opened
  <2> QED
    BY <1>3, <2>1, <2>2 DEF sv_keymap_on_raw_vk
<1> QED
  BY <1>1, <1>2, <1>3

\* Machine, CPU and memory: the value asked about is the one that is saved.
LEMMA MachineMenuInv ==
  ASSUME SupervisorAssumption, Awake,
         machine_menu_activate \/ sv_machine_select_on_key \/ sv_ram_select_on_key \/ sv_cpu_popup_on_key
  PROVE  SupervisorIInv'
<1>1. ASSUME machine_menu_activate PROVE SupervisorIInv'
  <2>1. ASSUME NEW s \in {"machine_select", "cpu_popup", "ram_select"}, Open(s, Plain) PROVE SupervisorIInv'
    BY <2>1, Opened DEF Plain
  <2>2. CASE Cycle("artifacts", 3) \/ Cycle("monitor", 2) \/ Cycle("snd_mixer", 2)
    BY <2>2, AppliedInv DEF Cycle, LiveKeys
  <2> QED
    BY <1>1, <2>1, <2>2 DEF machine_menu_activate
<1>2. ASSUME NEW s \in {"machine_select", "ram_select"}, NEW key \in {"machine", "ram"}, NEW values,
             Choose(s, key, values),
             key = "machine" => s = "machine_select" /\ values = {3, 4},
             key = "ram" => s = "ram_select"
      PROVE  SupervisorIInv'
  <2>1. screen = s
    BY <1>2 DEF Choose
  <2>2. ASSUME NEW v \in values \ {boot[key]}, Open(s, [kind |-> "restart", pick |-> v])
        PROVE  SupervisorIInv'
    <3>1. PICK x : x = [kind |-> "restart", pick |-> v]
      OBVIOUS
    <3>2. Open(s, x) /\ x.kind = "restart" /\ x.pick = v /\ (s = "machine_select" => v \in {3, 4})
      BY <1>2, <2>2, <3>1
    <3> QED
      BY <3>2, OpenedWith
  <2>3. CASE Open(s, Plain) \/ Open("machine_menu", Plain)
    BY <2>3, Opened DEF Plain
  <2>4. CASE /\ At(s, "restart") /\ Bounded
             /\ SaveAndRestart([prefs EXCEPT ![key] = sub.pick], [what |-> key, value |-> sub.pick])
    <3>1. key = "machine" => sub.pick \in {3, 4}
      BY <1>2, <2>4, AwakeFacts DEF AnswersFit
    <3> QED
      BY <2>4, <3>1, ChosenRestarts
  <2> QED
    BY <1>2, <2>2, <2>3, <2>4 DEF Choose
<1>3. ASSUME sv_cpu_popup_on_key PROVE SupervisorIInv'
  <2>1. PICK v \in {"6809", "6309"} : SaveAndRestart([prefs EXCEPT !.cpu = v], [what |-> "cpu", value |-> v])
    BY <1>3 DEF sv_cpu_popup_on_key
  <2> QED
    BY <2>1, ChosenRestarts
<1>4. ASSUME sv_machine_select_on_key PROVE SupervisorIInv'
  <2>1. Choose("machine_select", "machine", {3, 4})
    BY <1>4 DEF sv_machine_select_on_key
  <2> QED
    BY <1>2, <2>1
<1>5. ASSUME sv_ram_select_on_key PROVE SupervisorIInv'
  <2>1. Choose("ram_select", "ram", RAM_VALUES)
    BY <1>5 DEF sv_ram_select_on_key
  <2> QED
    BY <1>2, <2>1
<1> QED
  BY <1>1, <1>3, <1>4, <1>5

\* Multi-Pak: each popup asks about its own row.
LEMMA MultiPakInv ==
  ASSUME SupervisorAssumption, Awake, sv_sound_menu_on_key \/ sv_cart_popup_on_key \/ hd_popup_on_key
  PROVE  SupervisorIInv'
<1>1. ASSUME sv_sound_menu_on_key PROVE SupervisorIInv'
  <2>1. ASSUME NEW key \in {"orch90", "ssc"}, cart_toggle_open(key) PROVE SupervisorIInv'
    <3>1. PICK k \in {"toggle", "no_rom"} : Open("cart_popup", [kind |-> k, row |-> key, prev |-> screen])
      BY <2>1 DEF cart_toggle_open
    <3>2. PICK x : x = [kind |-> k, row |-> key, prev |-> screen]
      OBVIOUS
    <3>3. Open("cart_popup", x) /\ x.row = key
      BY <3>1, <3>2
    <3> QED
      BY <3>3, OpenedWith
  <2>2. CASE hd_popup_open
    <3>1. PICK x : x = [kind |-> "picker", row |-> "hd", prev |-> screen]
      OBVIOUS
    <3>2. /\ screen' = "cart_popup" /\ sub' = x /\ x.kind = "picker" /\ UNCHANGED cfg
          /\ boot' = boot /\ asked' = [what |-> "nothing"]
      BY <2>2, <3>1, AwakeFacts DEF hd_popup_open, cfg
    <3>3. AnswersFit'
      BY <3>2, AnswersAt
    <3> QED
      BY <3>2, <3>3, CfgKept
  <2>3. CASE SerialRow("rs232")
    BY <2>3, AppliedInv DEF SerialRow, LiveKeys
  <2> QED
    BY <1>1, <2>1, <2>2, <2>3 DEF sv_sound_menu_on_key
<1>2. ASSUME sv_cart_popup_on_key PROVE SupervisorIInv'
  <2>1. CASE Open(sub.prev, Plain)
    BY <2>1, Opened DEF Plain
  <2>2. ASSUME sub.kind = "toggle",
               SaveAndRestart(ToggleSave(prefs, sub.row, ~boot[sub.row]), [what |-> sub.row, value |-> ~boot[sub.row]])
        PROVE  SupervisorIInv'
    <3>1. sub.row \in {"orch90", "ssc"}
      BY <1>2, <2>2, AwakeFacts DEF sv_cart_popup_on_key, CartPopup, AnswersFit, At
    <3>2. (~boot[sub.row]) \in BOOLEAN
      OBVIOUS
    <3> QED
      BY <2>2, <3>1, <3>2, ToggleRestarts
  <2> QED
    BY <1>2, <2>1, <2>2 DEF sv_cart_popup_on_key
<1>3. ASSUME hd_popup_on_key PROVE SupervisorIInv'
  <2>1. CASE screen' = sub.prev /\ sub' = Plain /\ s_hd_open' = FALSE /\ UNCHANGED cfg
    <3>1. /\ screen' = sub.prev /\ sub' = Plain /\ Plain.kind = "none"
          /\ boot' = boot /\ asked' = [what |-> "nothing"] /\ UNCHANGED cfg
      BY <2>1, AwakeFacts DEF Plain, cfg
    <3>2. AnswersFit'
      BY <3>1, AnswersAt
    <3> QED
      BY <3>1, <3>2, CfgKept
  <2>2. ASSUME NEW mode \in HdMode,
               SaveAndRestart(hd_mode_save(prefs, mode), [what |-> "hd", value |-> mode, was |-> hd_mode_now])
        PROVE  SupervisorIInv'
    BY <2>2, HdRestarts
  <2> QED
    BY <1>3, <2>1, <2>2 DEF hd_popup_on_key
<1> QED
  BY <1>1, <1>2, <1>3

\* Load Cart's list and its question.
LEMMA LoadCartInv ==
  ASSUME SupervisorAssumption, Awake, select_row \/ sv_cart_on_key
  PROVE  SupervisorIInv'
<1>1. ASSUME NEW target, choose_target(target), screen = "cart" PROVE SupervisorIInv'
  <2>1. CASE CartWaits(target)
    BY <2>1, CartWaitsInv
  <2>2. CASE target # boot.cart_rom /\ Open(screen, [kind |-> "restart", pick |-> target])
    <3>1. PICK x : x = [kind |-> "restart", pick |-> target]
      OBVIOUS
    <3>2. Open("cart", x) /\ x.kind = "restart" /\ x.pick = target
      BY <1>1, <2>2, <3>1
    <3> QED
      BY <2>2, <3>2, OpenedWith
  <2> QED
    BY <1>1, <2>1, <2>2 DEF choose_target
<1>2. ASSUME select_row PROVE SupervisorIInv'
  <2>1. screen = "cart"
    BY <1>2 DEF select_row, At
  <2>2. CASE Open(screen, [kind |-> "message"])
    BY <2>2, Opened
  <2> QED
    BY <1>1, <1>2, <2>1, <2>2 DEF select_row
<1>3. ASSUME sv_cart_on_key PROVE SupervisorIInv'
  <2>1. CASE Open(screen, Plain)
    BY <2>1, Opened DEF Plain
  <2>2. CASE CartWaits(sub.pick)
    BY <2>2, CartWaitsInv
  <2>3. CASE /\ sub.kind = "restart"
             /\ SaveAndRestart(CartSaved(prefs, sub.pick), [what |-> "cart_rom", value |-> sub.pick])
    <3>1. sub.pick # boot.cart_rom
      BY <1>3, <2>3, AwakeFacts DEF sv_cart_on_key, AnswersFit, At
    <3> QED
      BY <2>3, <3>1, CartRestarts
  <2> QED
    BY <1>3, <2>1, <2>2, <2>3 DEF sv_cart_on_key
<1> QED
  BY <1>2, <1>3

\* What was looked at when Save was chosen is what is saved.
LEMMA DriveWireInv ==
  ASSUME SupervisorAssumption, Awake, fujinet_execute \/ enable_form \/ fujinet_popup
  PROVE  SupervisorIInv'
<1>1. ASSUME NEW k \in {"none", "enable", "refused", "message"}, NEW p, NEW b, Open(screen, Fuji(k, p, b))
      PROVE  SupervisorIInv'
  <2>1. Fuji(k, p, b).kind = k
    BY DEF Fuji
  <2> QED
    BY <1>1, <2>1, Opened
<1>2. ASSUME fujinet_execute PROVE SupervisorIInv'
  <2>1. screen = "fujinet"
    BY <1>2 DEF fujinet_execute, At
  <2>2. CASE Open(screen, Fuji(IF MaySave(sub.p) THEN "save" ELSE "refused", sub.p, sub.p))
    <3>1. CASE MaySave(sub.p)
      <4>1. PICK x : x = Fuji("save", sub.p, sub.p)
        OBVIOUS
      <4>2. Open("fujinet", x) /\ x.kind = "save" /\ x.p = sub.p
        BY <2>1, <2>2, <3>1, <4>1 DEF Fuji
      <4> QED
        BY <3>1, <4>2, OpenedWith
    <3>2. CASE ~MaySave(sub.p)
      BY <1>1, <2>2, <3>2
    <3> QED
      BY <3>1, <3>2
  <2>3. CASE \E p \in Edited(sub.p) \cup {[sub.p EXCEPT !.mode = "off"]} : Open(screen, Fuji("none", p, p))
    BY <1>1, <2>3
  <2>4. CASE Open(screen, Fuji("enable", sub.p, sub.p))
    BY <1>1, <2>4
  <2> QED
    BY <1>2, <2>2, <2>3, <2>4 DEF fujinet_execute
<1>3. ASSUME enable_form PROVE SupervisorIInv'
  <2>1. CASE \E p \in Edited(sub.p) : Open(screen, Fuji("enable", p, sub.back))
    BY <1>1, <2>1
  <2>2. CASE Open(screen, Fuji("none", sub.back, sub.back)) \/ Open(screen, Fuji("message", sub.p, sub.back))
    BY <1>1, <2>2
  <2>3. CASE \E p \in {[sub.p EXCEPT !.mode = "external"]} : Open(screen, Fuji("none", p, p))
    BY <1>1, <2>3
  <2> QED
    BY <1>3, <2>1, <2>2, <2>3 DEF enable_form
<1>4. ASSUME fujinet_popup PROVE SupervisorIInv'
  <2>1. CASE Open(screen, Fuji("enable", sub.p, sub.back)) \/ Open(screen, Fuji("none", sub.p, sub.p))
    BY <1>1, <2>1
  <2>2. ASSUME sub.kind = "save", SaveAndRestart([prefs EXCEPT !.bus = sub.p], [what |-> "bus", value |-> sub.p])
        PROVE  SupervisorIInv'
    <3>1. MaySave(sub.p)
      BY <1>4, <2>2, AwakeFacts DEF fujinet_popup, AnswersFit, At
    <3>2. boot.machine \in {3, 4}
      BY AwakeFacts DEF SettingsShape
    <3>3. BusFits(sub.p)
      BY <3>1, <3>2 DEF MaySave, validate_external, BusFits
    <3> QED
      BY <2>2, <3>3, ChosenRestarts
  <2> QED
    BY <1>4, <2>1, <2>2 DEF fujinet_popup
<1> QED
  BY <1>2, <1>3, <1>4

\* An image is asked about only if this boot has a drive for it.
LEMMA FilesInv ==
  ASSUME SupervisorAssumption, Awake, sv_filebrowser_on_key
  PROVE  SupervisorIInv'
<1>1. screen = "files"
  BY DEF sv_filebrowser_on_key, At
<1>2. ASSUME NEW i \in Images, Open(screen, [kind |-> "mount", image |-> i]) PROVE SupervisorIInv'
  <2>1. PICK x : x = [kind |-> "mount", image |-> i]
    OBVIOUS
  <2>2. Open("files", x) /\ x.kind = "mount" /\ x.image = i
    BY <1>1, <1>2, <2>1
  <2>3. \A s \in SlotsFor(i) : SlotFits(s)
    BY DEF SlotsFor, SlotFits, Images, SupervisorAssumption
  <2> QED
    BY <2>2, <2>3, OpenedWith
<1>3. ASSUME NEW s, Open(screen, [kind |-> "unmount", slot |-> s]) PROVE SupervisorIInv'
  BY <1>3, Opened
<1> QED
  BY <1>2, <1>3 DEF sv_filebrowser_on_key

\* WiFi and Debug ask nothing that this is about.
LEMMA ViewsInv ==
  ASSUME SupervisorAssumption, Awake,
         sv_wifi_on_key \/ sv_wifi_on_text_key \/ sv_debug_menu_on_key \/ sv_debug_dump_on_key
  PROVE  SupervisorIInv'
<1>1. ASSUME screen = "wifi", NEW k, View(k) PROVE SupervisorIInv'
  BY <1>1, Opened DEF View
<1>2. ASSUME sv_wifi_on_key PROVE SupervisorIInv'
  <2>1. CASE Open(IF sub.from_main THEN "main" ELSE "settings", Plain)
    BY <2>1, Opened DEF Plain
  <2> QED
    BY <1>1, <1>2, <2>1 DEF sv_wifi_on_key
<1>3. ASSUME sv_wifi_on_text_key PROVE SupervisorIInv'
  BY <1>1, <1>3 DEF sv_wifi_on_text_key
<1>4. ASSUME sv_debug_menu_on_key PROVE SupervisorIInv'
  <2>1. ASSUME NEW s \in {"debug_dump", "dump_name"}, Open(s, Plain) PROVE SupervisorIInv'
    BY <2>1, Opened
  <2>2. CASE SerialRow("debug")
    BY <2>2, AppliedInv DEF SerialRow, LiveKeys
  <2> QED
    BY <1>4, <2>1, <2>2 DEF sv_debug_menu_on_key
<1>5. ASSUME sv_debug_dump_on_key PROVE SupervisorIInv'
  <2>1. ASSUME NEW k \in {"saving", "result"}, Open(screen, [kind |-> k]) PROVE SupervisorIInv'
    BY <2>1, Opened
  <2>2. CASE Open("debug_menu", Plain)
    BY <2>2, Opened
  <2> QED
    BY <1>5, <2>1, <2>2 DEF sv_debug_dump_on_key
<1> QED
  BY <1>2, <1>3, <1>4, <1>5

\* Every key but F1, F3 and F6 is for a menu that is open.
LEMMA KeysAwake ==
  ASSUME Pressed, screen = "inactive"
  PROVE  supervisor_toggle \/ supervisor_quick_mount_last_disk
  BY DEF Pressed, execute_action, confirm_on_key, Back, Parent, settings_activate, keyboard_activate,
         sv_joystick_on_key, sv_keymap_on_key, km_popup_on_key, sv_keymap_on_raw_vk, machine_menu_activate,
         sv_machine_select_on_key, sv_ram_select_on_key, Choose, sv_cpu_popup_on_key, sv_sound_menu_on_key,
         sv_cart_popup_on_key, CartPopup, hd_popup_on_key, HdPopup, select_row, sv_cart_on_key,
         fujinet_execute, enable_form, fujinet_popup, sv_filebrowser_on_key, fb_popup_accept,
         sv_wifi_on_key, sv_wifi_on_text_key, sv_debug_menu_on_key, sv_debug_dump_on_key, At

\* A key, taken when no save is under way.
LEMMA PressedInv ==
  ASSUME SupervisorAssumption, SupervisorIInv, Idle, Pressed
  PROVE  SupervisorIInv'
<1>1. CASE supervisor_toggle \/ supervisor_quick_mount_last_disk
  BY <1>1, ToggleInv, QuickMountInv
<1>2. CASE screen # "inactive" /\ ~supervisor_toggle /\ ~supervisor_quick_mount_last_disk
  <2>1. Awake
    BY <1>2 DEF Awake
  <2> QED
    BY <1>2, <2>1, ScreensInv, JoystickInv, KeymapInv, MachineMenuInv, MultiPakInv, LoadCartInv,
       DriveWireInv, FilesInv, AcceptInv, ViewsInv DEF Pressed
<1> QED
  BY <1>1, <1>2, KeysAwake

\* NVS is empty.
LEMMA FirstBoot ==
  ASSUME SupervisorAssumption, SupervisorInit
  PROVE  SupervisorIInv
<1>1. /\ DOMAIN prefs = AtBoot \cup {"paths", "live"} /\ DOMAIN prefs.live = LiveKeys
      /\ DOMAIN prefs.paths = DriveSlot /\ prefs.machine = 4 /\ prefs.orch90 = FALSE /\ prefs.vhd_en = FALSE
      /\ prefs.bus.mode = "off" /\ \A s \in DriveSlot : prefs.paths[s] = NO_PATH
  BY DEF SupervisorInit, FirstPrefs, Pending, Empty, AtBoot, LiveKeys
<1>2. /\ boot = [k \in AtBoot |-> prefs[k]] /\ live = prefs.live
      /\ slots = Empty /\ screen = "inactive" /\ asked = [what |-> "nothing"] /\ Idle
  BY DEF SupervisorInit, Idle
<1>3. SettingsShape
  BY <1>1, <1>2 DEF SettingsShape, Whole, Empty, AtBoot
<1>4. \A s \in HD_SLOTS : s \in DriveSlot
  BY DEF DriveSlot
<1>5. SettingsSafe
  <2>1. Good(prefs, torn)
    BY <1>1, <1>4 DEF Good, SlotOk, BusFits, Forgotten
  <2>2. LoadedBus(prefs.bus) = prefs.bus
    BY <1>1 DEF LoadedBus
  <2>3. RunsWith(prefs)
    BY <1>2, <2>2 DEF RunsWith, AtBoot
  <2> QED
    BY <1>1, <1>2, <2>1, <2>3 DEF SettingsSafe, SlotOk, AtBoot
<1>6. RestartObeys
  <2>1. \A s \in DriveSlot : slots[s] = NO_PATH
    BY <1>2 DEF Empty
  <2>2. Remembered
    BY <1>1, <1>4, <2>1 DEF Remembered, InDrives
  <2> QED
    BY <1>2, <2>2, NothingAsked DEF RestartObeys
<1>7. AnswersFit
  BY <1>2 DEF AnswersFit, At
<1> QED
  BY <1>2, <1>3, <1>5, <1>6, <1>7 DEF SupervisorIInv

\* Each key, each commit, and each power loss keeps the invariant.
LEMMA SupervisorNextInv ==
  ASSUME SupervisorAssumption, SupervisorIInv, [SupervisorNext]_svvars
  PROVE  SupervisorIInv'
<1>1. CASE UNCHANGED svvars
  <2>1. UNCHANGED <<screen, sub, boot, live, prefs, saving, slots, failed, asked, torn>>
    BY <1>1 DEF svvars, ui, cfg
  <2>2. SettingsShape' /\ SettingsSafe' /\ Idle' = Idle
    BY <2>1 DEF SupervisorIInv, SettingsShape, Whole, SettingsSafe, SlotOk, Good, BusFits, Forgotten, RunsWith, Idle
  <2>3. RestartObeys'
    BY <2>1 DEF SupervisorIInv, RestartObeys, Remembered, InDrives, Follows, Obeyed, Obeys, SettlesSlot, SlotOk,
                hd_mode, is_rgbdos_name
  <2>4. AnswersFit'
    BY <2>1, AnswersKept DEF SupervisorIInv
  <2>5. CASE Idle
    BY <2>2, <2>3, <2>4, <2>5 DEF SupervisorIInv
  <2>6. CASE ~Idle
    <3>1. UNCHANGED Others
      BY <1>1 DEF svvars, cfg, Others
    <3>2. Whole(prefs') /\ prefs'.live = prefs.live /\ prefs'.vhd_en \in {boot.vhd_en, saving.to.vhd_en}
      BY <2>1, <2>6 DEF SupervisorIInv, SettingsShape, SaveFits, Whole
    <3>3. failed \/ saving.why.what = "disks" \/ InDrives(prefs)'
      BY <2>1 DEF SupervisorIInv, RestartObeys, Remembered, InDrives, Follows
    <3> QED
      BY <2>6, <3>1, <3>2, <3>3, CommitKeeps
  <2> QED
    BY <2>5, <2>6
<1>2. CASE SupervisorNext
  BY <1>2, PressedInv, SaveSettingInv, SaveBusInv, SaveDiskInv, RestartedInv, ReturnedInv, PowerInv
     DEF SupervisorNext
<1> QED
  BY <1>1, <1>2

\* The inductive invariant of the menus.
LEMMA SupervisorInductive == SupervisorSpec => []SupervisorIInv
<1>1. SupervisorInit => SupervisorIInv
  BY SupervisorAssumption, FirstBoot
<1>2. SupervisorIInv /\ [SupervisorNext]_svvars => SupervisorIInv'
  BY SupervisorAssumption, SupervisorNextInv
<1> QED
  BY <1>1, <1>2, PTL DEF SupervisorSpec

\* However the menus are used, and wherever the power is lost, between two commits of a save too: the
\* cartridge slot has one owner, an External bus its host and its ROM, and a hard disk that is off no
\* images, but for a part of the settings that a power loss left half saved and that was not saved
\* again since; what booted is what is saved but for a cartridge that waits; no bus comes up without a
\* host; what takes effect at once is what is saved (sv_menu.cpp, sv_cart.cpp, sv_fujinet.cpp).
THEOREM SupervisorCorrect == SupervisorSpec => []SettingsSafe
<1>1. SupervisorIInv => SettingsSafe
  BY DEF SupervisorIInv
<1> QED
  BY <1>1, SupervisorInductive, PTL

\* A restart brings up what its question named, with the slot settled whatever an earlier power loss
\* tore, and the drives of the next boot are those of this one also when power is lost in the middle
\* of a save (supervisor_save_and_restart(), supervisor_load_state()).
THEOREM RestartsObey == SupervisorSpec => []RestartObeys
<1>1. SupervisorIInv => RestartObeys
  BY DEF SupervisorIInv
<1> QED
  BY <1>1, SupervisorInductive, PTL

=============================================================================

------------------------------ MODULE DebugRpc ------------------------------
(***************************************************************************)
(* The cross-core debug bridge: debug_rpc_submit() on the debug-server task *)
(* (core 0), debug_rpc_poll() in loop() (core 1), the OSD that keeps loop() *)
(* from polling, the pause flag and the OSD key queue.                      *)
(*                                                                          *)
(* A command is the number of the request that carries it; it lives on the  *)
(* handler's stack, so it is valid exactly while its request waits.  What a *)
(* command does to the machine is abstracted to its kind: "inject" may      *)
(* clear the pause flag, "step" is the screenshot's frame, "plain" any      *)
(* other.  s_lock is free whenever the single server task takes it.         *)
(***************************************************************************)
EXTENDS Naturals, Sequences

CONSTANTS
  MaxRequests,   \* bound: requests served
  KEYQ           \* 16: depth of the key queue

ASSUME KeyqAssumption == KEYQ \in Nat \ {0} /\ MaxRequests \in Nat

VARIABLES
  s_cmd_queue,   \* depth 1
  s_done_sem,    \* binary semaphore
  s_paused,
  s_keyq,
  osd,           \* supervisor_is_active()
  spc, req, kind, was_paused, reply,   \* server task: position, request, answer
  lpc, cur, executed,                  \* loop(): position, command, commands executed
  fb,            \* the request is a framebuffer screenshot
  clean          \* history: no earlier command was pending when the request came

serverVars == <<spc, req, kind, was_paused, reply, fb>>
loopVars == <<lpc, cur, executed>>
vars == <<s_cmd_queue, s_done_sem, s_paused, s_keyq, osd, serverVars, loopVars, clean>>

Kind == {"plain", "inject", "step"}
Key == {"toggle", "key"}

Init ==
  /\ s_cmd_queue = <<>> /\ s_done_sem = FALSE /\ s_paused = FALSE /\ s_keyq = <<>>
  /\ osd = FALSE
  /\ spc = "idle" /\ req = 0 /\ kind = [r \in 1 .. MaxRequests |-> "plain"]
  /\ was_paused = FALSE /\ reply = "none"
  /\ lpc = "input" /\ cur = 0 /\ executed = {}
  /\ fb = FALSE /\ clean = TRUE

-----------------------------------------------------------------------------
(* Core 0: handlers of the debug server, one request at a time.             *)

Held(pause) == s_paused \/ pause

\* A handler fills a command; a framebuffer screenshot pauses the machine first.
Request(k, pause) ==
  /\ spc = "idle" /\ req < MaxRequests
  /\ req' = req + 1 /\ kind' = [kind EXCEPT ![req + 1] = k]
  /\ was_paused' = s_paused
  /\ s_paused' = Held(pause) /\ fb' = pause
  /\ clean' = (s_cmd_queue = <<>> /\ cur = 0)
  /\ spc' = "drain" /\ reply' = "none"
  /\ UNCHANGED <<s_cmd_queue, s_done_sem, s_keyq, osd, loopVars>>

\* Mutant: the stale completion signal is not taken.
DrainNothing ==
  /\ spc = "drain"
  /\ spc' = "send"
  /\ UNCHANGED <<s_cmd_queue, s_done_sem, s_paused, s_keyq, osd, req, kind, was_paused, reply, fb,
                 loopVars, clean>>

\* xSemaphoreTake(s_done_sem, 0).
Drain ==
  /\ spc = "drain"
  /\ s_done_sem' = FALSE
  /\ spc' = "send"
  /\ UNCHANGED <<s_cmd_queue, s_paused, s_keyq, osd, req, kind, was_paused, reply, fb, loopVars,
                 clean>>

\* xQueueSend(..., portMAX_DELAY) blocks while the slot is taken.
Send ==
  /\ spc = "send" /\ s_cmd_queue = <<>>
  /\ s_cmd_queue' = <<req>>
  /\ spc' = "wait"
  /\ UNCHANGED <<s_done_sem, s_paused, s_keyq, osd, req, kind, was_paused, reply, fb, loopVars,
                 clean>>

\* debug_rpc_submit() returns; only a screenshot has something left to do.
Return(r) ==
  /\ spc = "wait"
  /\ reply' = r
  /\ spc' = IF kind[req] = "step" THEN "restore" ELSE "idle"
  /\ UNCHANGED <<s_cmd_queue, s_paused, s_keyq, osd, req, kind, was_paused, fb, loopVars, clean>>

Complete == s_done_sem /\ s_done_sem' = FALSE /\ Return("ok")
Timeout == ~s_done_sem /\ UNCHANGED s_done_sem /\ Return("504")

\* The screenshot reads the framebuffer if asked to, then puts the pause flag back.
Restore ==
  /\ spc = "restore"
  /\ s_paused' = was_paused
  /\ spc' = "idle"
  /\ UNCHANGED <<s_cmd_queue, s_done_sem, s_keyq, osd, req, kind, was_paused, reply, fb, loopVars,
                 clean>>

\* POST /api/pause and /api/resume set the flag directly.
SetPaused(p) ==
  /\ spc = "idle"
  /\ s_paused' = p
  /\ UNCHANGED <<s_cmd_queue, s_done_sem, s_keyq, osd, serverVars, loopVars, clean>>

KeyRoom == Len(s_keyq) < KEYQ

\* debug_rpc_key_push(); a key that finds the queue full is refused (503).
KeyPush(k) ==
  /\ spc = "idle" /\ KeyRoom
  /\ s_keyq' = Append(s_keyq, k)
  /\ UNCHANGED <<s_cmd_queue, s_done_sem, s_paused, osd, serverVars, loopVars, clean>>

-----------------------------------------------------------------------------
(* Core 1: one pass of loop().                                              *)

\* hal_process_input(): F3 may open or close the OSD.
Input ==
  /\ lpc = "input"
  /\ osd' \in BOOLEAN
  /\ lpc' = "keys"
  /\ UNCHANGED <<s_cmd_queue, s_done_sem, s_paused, s_keyq, serverVars, cur, executed, clean>>

\* debug_rpc_keys_poll() takes keys until the queue is empty.  A key given to the
\* open OSD may close it; a closed OSD ignores all but the toggle.
KeysPoll ==
  /\ lpc = "keys"
  /\ \/ /\ s_keyq = <<>>
        /\ lpc' = "render"
        /\ UNCHANGED <<s_keyq, osd>>
     \/ /\ s_keyq # <<>>
        /\ s_keyq' = Tail(s_keyq)
        /\ \/ Head(s_keyq) = "toggle" /\ osd' = ~osd
           \/ Head(s_keyq) = "key" /\ osd' \in {osd, FALSE}
        /\ UNCHANGED lpc
  /\ UNCHANGED <<s_cmd_queue, s_done_sem, s_paused, serverVars, cur, executed, clean>>

\* An active OSD ends the pass before the poll; its screens may close it.
Render ==
  /\ lpc = "render"
  /\ lpc' = IF osd THEN "input" ELSE "poll"
  /\ osd' \in {osd, FALSE}
  /\ UNCHANGED <<s_cmd_queue, s_done_sem, s_paused, s_keyq, serverVars, cur, executed, clean>>

\* Mutant: the command is looked at and left in the queue.
PollPeek ==
  /\ lpc = "poll"
  /\ \/ s_cmd_queue = <<>> /\ lpc' = "frame" /\ UNCHANGED cur
     \/ s_cmd_queue # <<>> /\ cur' = Head(s_cmd_queue) /\ lpc' = "exec"
  /\ UNCHANGED <<s_cmd_queue, s_done_sem, s_paused, s_keyq, osd, serverVars, executed, clean>>

\* debug_rpc_poll() takes at most one command.
Poll ==
  /\ lpc = "poll"
  /\ \/ s_cmd_queue = <<>> /\ lpc' = "frame" /\ UNCHANGED <<s_cmd_queue, cur>>
     \/ /\ s_cmd_queue # <<>>
        /\ cur' = Head(s_cmd_queue) /\ s_cmd_queue' = <<>>
        /\ lpc' = "exec"
  /\ UNCHANGED <<s_done_sem, s_paused, s_keyq, osd, serverVars, executed, clean>>

\* exec_one() and xSemaphoreGive(s_done_sem).
Exec ==
  /\ lpc = "exec"
  /\ executed' = executed \cup {cur}
  /\ s_done_sem' = TRUE
  /\ \/ UNCHANGED s_paused
     \/ kind[cur] = "inject" /\ s_paused' = FALSE      \* resume_after
  /\ cur' = 0 /\ lpc' = "frame"
  /\ UNCHANGED <<s_cmd_queue, s_keyq, osd, serverVars, clean>>

\* The frame is skipped while paused.
FrameBegin ==
  /\ lpc = "frame"
  /\ lpc' = IF s_paused THEN "input" ELSE "run"
  /\ UNCHANGED <<s_cmd_queue, s_done_sem, s_paused, s_keyq, osd, serverVars, cur, executed, clean>>

\* machine_run_frame() and hal_render_frame() are done.
FrameEnd ==
  /\ lpc = "run"
  /\ lpc' = "input"
  /\ UNCHANGED <<s_cmd_queue, s_done_sem, s_paused, s_keyq, osd, serverVars, cur, executed, clean>>

Submit == Drain \/ Send \/ Complete \/ Timeout \/ Restore
LoopPass == Input \/ KeysPoll \/ Render \/ Poll \/ Exec \/ FrameBegin \/ FrameEnd

Next ==
  \/ \E k \in Kind : Request(k, FALSE)
  \/ Request("step", TRUE)
  \/ Submit
  \/ \E p \in BOOLEAN : SetPaused(p)
  \/ \E k \in Key : KeyPush(k)
  \/ LoopPass

Spec == Init /\ [][Next]_vars

\* loop() runs for ever, and a submitter that can go on does.
FairSpec == Spec /\ WF_vars(LoopPass) /\ WF_vars(Submit)

-----------------------------------------------------------------------------
\* Every variable has its type; the key queue holds at most its depth.
TypeOK ==
  /\ s_cmd_queue \in {<<>>} \cup {<<r>> : r \in 1 .. MaxRequests}
  /\ s_done_sem \in BOOLEAN /\ s_paused \in BOOLEAN /\ osd \in BOOLEAN
  /\ s_keyq \in Seq(Key) /\ Len(s_keyq) <= KEYQ
  /\ spc \in {"idle", "drain", "send", "wait", "restore"} /\ req \in 0 .. MaxRequests
  /\ kind \in [1 .. MaxRequests -> Kind] /\ was_paused \in BOOLEAN
  /\ reply \in {"none", "ok", "504"}
  /\ lpc \in {"input", "keys", "render", "poll", "exec", "frame", "run"}
  /\ cur \in 0 .. MaxRequests /\ executed \subseteq 1 .. MaxRequests 
  /\ fb \in BOOLEAN /\ clean \in BOOLEAN

\* When debug_rpc_submit() starts with nothing left over from a request that
\* timed out, success means that this very command has run.
CleanSuccessExecuted == clean /\ reply = "ok" => req \in executed

\* A framebuffer screenshot that starts clean reads a picture core 1 is not
\* drawing: the frame it asked for is over and the pause flag keeps out the next.
FramebufferHeldStill ==
  clean /\ fb /\ spc = "restore" /\ reply = "ok" => lpc \notin {"exec", "run"}

\* A command that debug_rpc_poll() has run is gone from the queue, so no command
\* is applied to the machine twice.
QueuedNotExecuted ==
  \A r \in executed : r # cur /\ (s_cmd_queue = <<>> \/ Head(s_cmd_queue) # r)

\* What the queue, the semaphore and the two tasks keep between them: no command
\* runs twice, and a request that starts clean gets its own command's completion,
\* with the picture held still for a framebuffer screenshot.
RpcInv == TypeOK /\ QueuedNotExecuted /\ CleanSuccessExecuted /\ FramebufferHeldStill

Submitting == spc # "idle"
InFlight == (IF s_cmd_queue = <<>> THEN {} ELSE {Head(s_cmd_queue)}) \cup ({cur} \ {0})

\* A command on its way is of a request made so far, and is in one place only.
CommandOnce ==
  /\ cur # 0 <=> lpc = "exec"
  /\ Submitting => req # 0
  /\ InFlight \cup executed \subseteq 1 .. req
  /\ spc \in {"drain", "send"} => req \notin InFlight \cup executed
  /\ InFlight \cap executed = {}
  /\ s_cmd_queue # <<>> => Head(s_cmd_queue) # cur

\* A request that started clean finds and leaves nothing but its own command and its
\* own completion.
CleanRequest ==
  clean =>
    /\ spc \in {"drain", "send"} => InFlight = {}
    /\ spc = "send" => ~s_done_sem
    /\ spc \in {"wait", "restore"} => InFlight \subseteq {req}
    /\ spc = "wait" => (s_done_sem => req \in executed)
    /\ reply = "ok" => req \in executed

\* A framebuffer screenshot that started clean keeps the machine paused.
PictureHeld ==
  fb /\ Submitting =>
    /\ kind[req] = "step"
    /\ clean => s_paused
    /\ clean /\ spc \in {"wait", "restore"} /\ req \in executed => lpc \notin {"exec", "run"}

\* The inductive invariant behind RpcInv.
RpcIInv == TypeOK /\ CommandOnce /\ CleanRequest /\ PictureHeld

\* As long as the OSD is not left open for ever, every request is answered, be
\* it after the queue slot of a timed-out one has been freed.
AnsweredIfOsdCloses == []<>(~osd /\ lpc = "poll") => (spc = "drain" ~> spc = "idle")

-----------------------------------------------------------------------------
(* What the documentation says and the code does not ensure.                *)

\* "Returns true if completed, false on timeout. On success, cmd->result and any
\* read fields/buffers are populated." (debug_rpc.h:109-110)
SuccessMeansExecuted == reply = "ok" => req \in executed
=============================================================================

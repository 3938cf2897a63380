----------------------------- MODULE Keyboard -----------------------------
(***************************************************************************)
(* From the PS/2 keyboard to the CoCo's key matrix (hal_keyboard.cpp): the *)
(* paced queue of matrix changes, the SHIFT state composed per key, the    *)
(* supervisor's gate, the Key Mapper's bindings (sv_keymap.cpp) and the    *)
(* joystick that the arrow keys can drive (hal_joystick.cpp).              *)
(*                                                                         *)
(* hal_keyboard_tick() applies one queued change and then takes every      *)
(* pending key event.  A key event between two ticks is a step of its own. *)
(* FabGL is external: a release carries the key code of its press.  The    *)
(* hotkeys F4 to F6 return before any of this state is touched.            *)
(***************************************************************************)
EXTENDS Naturals, Sequences, FiniteSets, SequencesExt

CONSTANTS
  VK_MAP,       \* key code -> its matrix cell, needs_shift, suppress_shift
  KM_CHARS,     \* remappable CoCo key -> the same
  JoyKeys,      \* the arrow keys and space
  SHIFT,        \* COCO_SHIFT_COL, COCO_SHIFT_ROW
  NONE,
  KEYQ_SIZE, MIN_HOLD_FRAMES, MIN_GAP_FRAMES,
  MaxHeld,      \* bound on the keys held at once
  MaxSessions   \* bound on the times the supervisor is opened

ASSUME KeyboardAssumption ==
  /\ KEYQ_SIZE \in Nat \ {0} /\ MIN_HOLD_FRAMES \in Nat /\ MIN_GAP_FRAMES \in Nat
  /\ NONE \notin DOMAIN VK_MAP /\ JoyKeys \subseteq DOMAIN VK_MAP
  /\ \A vk \in JoyKeys : VK_MAP[vk].cell # SHIFT

VARIABLES
  kb,       \* key_matrix, key_target, keyq (a change also has the SHIFT state it was typed with), cell_age;
            \* history: a change was applied wrongly
  host,     \* external: keys held
  osd,      \* supervisor_is_active()
  mapper,   \* km_table, screen; km_capture_idx and km_pending_vk while they are used
  joy,      \* s_kbd_mode, s_kbd_keys
  stuck,    \* history: cells that were down when the supervisor took the keyboard
  sessions  \* counted for the bound

kvars == <<kb, host, osd, mapper, joy, stuck, sessions>>

Entries == {VK_MAP[vk] : vk \in DOMAIN VK_MAP} \cup {KM_CHARS[i] : i \in DOMAIN KM_CHARS}
Cells == {e.cell : e \in Entries} \cup {SHIFT}
AGE_MAX == IF MIN_HOLD_FRAMES > MIN_GAP_FRAMES THEN MIN_HOLD_FRAMES ELSE MIN_GAP_FRAMES   \* nothing looks further

-----------------------------------------------------------------------------
(* The paced queue.                                                         *)

\* A character's press: in a change that `typed` it under a SHIFT state.
Types(op) == op.press /\ op.cell # SHIFT

\* Change i comes before no earlier character and under the SHIFT state it was typed with.
Arrives(k, i) ==
  Types(k.keyq[i]) =>
    /\ \A j \in 1 .. i - 1 : ~Types(k.keyq[j])
    /\ k.keyq[i].shift <=> SHIFT \in k.matrix

\* Change i applied, and remembered if it was the wrong one.
set_key(k, i) ==
  [k EXCEPT !.matrix = IF k.keyq[i].press THEN @ \cup {k.keyq[i].cell} ELSE @ \ {k.keyq[i].cell},
            !.age[k.keyq[i].cell] = 0,
            !.wrong = @ \/ ~Arrives(k, i)]

keyq_remove(k, i) == [k EXCEPT !.keyq = RemoveAt(@, i)]
Applied(k, i) == keyq_remove(set_key(k, i), i)

\* A change the queue already ends in is dropped; a full queue forces its oldest change out.
queue_key(k, c, pressed) ==
  LET full == Len(k.keyq) = KEYQ_SIZE
      room == IF full THEN Applied(k, 1) ELSE k
      want == [room EXCEPT !.keyq = Append(@, [cell |-> c, press |-> pressed, shift |-> SHIFT \in k.target]),
                           !.target = IF pressed THEN @ \cup {c} ELSE @ \ {c}]
  IN  IF (c \in k.target) = pressed THEN k ELSE want

apply_shift(k, active) == queue_key(k, SHIFT, active)

Need(op) == IF op.press THEN MIN_GAP_FRAMES ELSE MIN_HOLD_FRAMES
Blocked(k, i) == \E j \in 1 .. i - 1 : k.keyq[j].cell = k.keyq[i].cell
Due(k, i) == ~Blocked(k, i) /\ k.age[k.keyq[i].cell] >= Need(k.keyq[i])

\* Mutant: a change of SHIFT may be overtaken like any release.
PressesKeepOrder(op) == op.press
KeepsOrder(op) == op.press \/ op.cell = SHIFT

\* The changes the scan reaches: it stops at the first that keeps its order.
Reached(k) == {i \in 1 .. Len(k.keyq) : \A j \in 1 .. i - 1 : ~KeepsOrder(k.keyq[j])}

tick_key_queue(k) ==
  LET aged == [k EXCEPT !.age = [c \in Cells |-> IF @[c] < AGE_MAX THEN @[c] + 1 ELSE @[c]]]
      due == {i \in Reached(aged) : Due(aged, i)}
      oldest == CHOOSE i \in due : \A j \in due : i <= j
  IN  IF due = {} THEN aged ELSE Applied(aged, oldest)

-----------------------------------------------------------------------------
(* A key event.                                                             *)

ShiftKey(vk) == VK_MAP[vk].cell = SHIFT
shift_held(down) == \E vk \in down : ShiftKey(vk)

\* km_find(), find_vk_mapping(): a custom binding replaces the default meaning.
Bound(vk) == {i \in DOMAIN KM_CHARS : mapper.table[i] = vk}
Mapping(vk) == IF Bound(vk) # {} THEN KM_CHARS[CHOOSE i \in Bound(vk) : TRUE] ELSE VK_MAP[vk]

PressOn(k, e, shift) ==
  IF e.cell = SHIFT THEN apply_shift(k, TRUE)
  ELSE queue_key(apply_shift(k, (shift /\ ~e.suppress) \/ e.needs), e.cell, TRUE)

ReleaseOn(k, e, shift) ==
  IF e.cell = SHIFT THEN apply_shift(k, FALSE)
  ELSE LET up == queue_key(k, e.cell, FALSE) IN IF shift THEN up ELSE apply_shift(up, FALSE)

\* hal_joystick_kbd_key(): a release always clears, a press counts while the mode is on.
JoyTakes(vk) == vk \in JoyKeys /\ joy.mode # "off"

JoyRelease(vk) == [joy EXCEPT !.keys = @ \ {vk}]

\* sv_keymap_on_raw_vk(): while a binding is captured, the next key is it; SHIFT is not bindable.
Captured(vk) ==
  IF mapper.screen = "capture" /\ ~ShiftKey(vk) THEN [mapper EXCEPT !.screen = "confirm", !.pending = vk] ELSE mapper

KeyDown(vk) ==
  /\ host' = host \cup {vk} /\ Cardinality(host') <= MaxHeld
  /\ mapper' = IF osd THEN Captured(vk) ELSE mapper
  /\ joy' = IF ~osd /\ JoyTakes(vk) THEN [joy EXCEPT !.keys = @ \cup {vk}] ELSE joy
  /\ kb' = IF osd \/ JoyTakes(vk) THEN kb ELSE PressOn(kb, Mapping(vk), shift_held(host'))
  /\ stuck' = stuck \cap kb'.target /\ UNCHANGED <<osd, sessions>>

KeyUp(vk) ==
  /\ vk \in host /\ host' = host \ {vk}
  /\ joy' = JoyRelease(vk)
  /\ kb' = IF osd \/ JoyTakes(vk) THEN kb ELSE ReleaseOn(kb, Mapping(vk), shift_held(host'))
  /\ stuck' = stuck \cap kb'.target /\ UNCHANGED <<osd, mapper, sessions>>

Tick == kb' = tick_key_queue(kb) /\ UNCHANGED <<host, osd, mapper, joy, stuck, sessions>>

\* F3, or F1 in a menu.
supervisor_toggle ==
  /\ osd \/ sessions < MaxSessions
  /\ sessions' = IF osd THEN sessions ELSE sessions + 1
  /\ osd' = ~osd
  /\ stuck' = IF osd THEN stuck ELSE kb.target
  /\ mapper' = [mapper EXCEPT !.screen = "list", !.idx = NONE, !.pending = NONE]
  /\ UNCHANGED <<kb, host, joy>>

-----------------------------------------------------------------------------
(* The Key Mapper and the joystick setting.                                 *)

\* A physical key drives at most one CoCo key: an earlier binding of it is taken away.
hal_keyboard_remap_set(idx, vk) ==
  [i \in DOMAIN KM_CHARS |-> IF i = idx THEN vk ELSE IF vk # NONE /\ mapper.table[i] = vk THEN NONE ELSE mapper.table[i]]

km_start_capture ==
  /\ osd /\ mapper.screen = "list" /\ UNCHANGED sessions
  /\ \E i \in DOMAIN KM_CHARS : mapper' = [mapper EXCEPT !.screen = "capture", !.idx = i]
  /\ UNCHANGED <<kb, host, osd, joy, stuck>>

\* ESC keeps the binding, DELETE removes it.
EndCapture ==
  /\ osd /\ mapper.screen = "capture" /\ UNCHANGED sessions
  /\ \E t \in {mapper.table, hal_keyboard_remap_set(mapper.idx, NONE)} :
       mapper' = [mapper EXCEPT !.screen = "list", !.idx = NONE, !.pending = NONE, !.table = t]
  /\ UNCHANGED <<kb, host, osd, joy, stuck>>

\* The confirmation: No, or Yes and save.
km_popup_on_key ==
  /\ osd /\ mapper.screen = "confirm" /\ UNCHANGED sessions
  /\ \E t \in {mapper.table, hal_keyboard_remap_set(mapper.idx, mapper.pending)} :
       mapper' = [mapper EXCEPT !.screen = "list", !.idx = NONE, !.pending = NONE, !.table = t]
  /\ UNCHANGED <<kb, host, osd, joy, stuck>>

hal_keyboard_remap_clear_all ==
  /\ osd /\ mapper.screen = "list" /\ UNCHANGED sessions
  /\ mapper' = [mapper EXCEPT !.table = [i \in DOMAIN KM_CHARS |-> NONE]]
  /\ UNCHANGED <<kb, host, osd, joy, stuck>>

hal_joystick_set_kbd_mode ==
  /\ osd /\ UNCHANGED sessions
  /\ \E m \in {"off", "on"} :   \* right or left: the same here
        joy' = [mode |-> m, keys |-> {}]
  /\ UNCHANGED <<kb, host, osd, mapper, stuck>>

KeyboardInit ==
  /\ kb = [matrix |-> {}, target |-> {}, keyq |-> <<>>, age |-> [c \in Cells |-> AGE_MAX], wrong |-> FALSE]
  /\ host = {} /\ osd = FALSE /\ stuck = {} /\ sessions = 0
  /\ mapper = [table |-> [i \in DOMAIN KM_CHARS |-> NONE], screen |-> "list", idx |-> NONE, pending |-> NONE]
  /\ joy \in [mode : {"off", "on"}, keys : {{}}]   \* the saved setting

KeyboardNext ==
  \/ \E vk \in DOMAIN VK_MAP : KeyDown(vk) \/ KeyUp(vk)
  \/ Tick \/ supervisor_toggle \/ km_start_capture \/ EndCapture \/ km_popup_on_key
  \/ hal_keyboard_remap_clear_all \/ hal_joystick_set_kbd_mode

KeyboardSpec == KeyboardInit /\ [][KeyboardNext]_kvars

-----------------------------------------------------------------------------
\* The queue still turns the matrix into what was typed: the changes of a cell alternate, the first from
\* what the matrix has and the last to what was typed.
Earlier(k, i) == {j \in 1 .. i - 1 : k.keyq[j].cell = k.keyq[i].cell}
Later(k, i) == {j \in i + 1 .. Len(k.keyq) : k.keyq[j].cell = k.keyq[i].cell}
QueueTypes(k) ==
  /\ \A i \in 1 .. Len(k.keyq) :
       /\ Earlier(k, i) = {} => (k.keyq[i].press <=> k.keyq[i].cell \notin k.matrix)
       /\ \A j \in Earlier(k, i) : (\A m \in Earlier(k, i) : m <= j) => (k.keyq[i].press <=> ~k.keyq[j].press)
       /\ Later(k, i) = {} => (k.keyq[i].press <=> k.keyq[i].cell \in k.target)
  /\ \A c \in Cells : (\A i \in 1 .. Len(k.keyq) : k.keyq[i].cell # c) => (c \in k.target <=> c \in k.matrix)

\* "Characters arrive in sequence and each with the SHIFT state it was typed with" (tick_key_queue()): no
\* press is applied out of turn or under another SHIFT, and overtaking never swaps two changes of one
\* cell, so that the queue still turns the matrix into what was typed.
TypedAsMeant == ~kb.wrong /\ QueueTypes(kb)

\* Once every key is up nothing is left down, SHIFT included, except what the supervisor took over while
\* it was held; the joystick keeps no key even then (process_vk(), hal_joystick_kbd_key()).
NothingSticks ==
  /\ host = {} => kb.target \subseteq stuck
  /\ joy.keys \subseteq host

\* Both: what reaches the CoCo's matrix is what the user typed, in order and no longer than it was held.
KeyboardFaithful == TypedAsMeant /\ NothingSticks

-----------------------------------------------------------------------------
(* The inductive invariant behind KeyboardFaithful.                          *)

KeyboardShape ==
  /\ DOMAIN kb = {"matrix", "target", "keyq", "age", "wrong"} /\ DOMAIN joy = {"mode", "keys"}
  /\ Len(kb.keyq) <= KEYQ_SIZE /\ host \subseteq DOMAIN VK_MAP
  /\ kb.keyq \in Seq([cell : Cells, press : BOOLEAN, shift : BOOLEAN])

\* A character in the queue was typed with the SHIFT that the changes before it leave.
ShiftBefore(k, i) == {j \in 1 .. i - 1 : k.keyq[j].cell = SHIFT}
ShiftsKept(k) ==
  \A i \in 1 .. Len(k.keyq) :
    Types(k.keyq[i]) =>
      /\ ShiftBefore(k, i) = {} => (k.keyq[i].shift <=> SHIFT \in k.matrix)
      /\ \A j \in ShiftBefore(k, i) : (\A m \in ShiftBefore(k, i) : m <= j) => (k.keyq[i].shift <=> k.keyq[j].press)

\* What is down is due to a key that is held, or was when the supervisor came.
Holds(c) == \E vk \in host : ~JoyTakes(vk) /\ (c # SHIFT => Mapping(vk).cell = c)
HeldDown == \A c \in kb.target \ stuck : ~osd /\ Holds(c)

KeyboardIInv == KeyboardShape /\ TypedAsMeant /\ ShiftsKept(kb) /\ HeldDown /\ joy.keys \subseteq host
=============================================================================

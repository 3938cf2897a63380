------------------------------- MODULE Display -------------------------------
(***************************************************************************)
(* The GIME's picture on the VGA framebuffer (hal/hal_video.cpp, the skip of *)
(* unchanged lines in core/tcc1014.cpp, and the loop of the sketch): a line   *)
(* whose signature is the one kept for its number is not drawn again, a      *)
(* border row painted in its colour is not painted again, a tall picture     *)
(* switches the layout after VOTES frames, and the OSD and the FPS overlay   *)
(* draw on the same framebuffer through a queue that empties in the          *)
(* background.  What a line shows is a record of what its pixels depend on;   *)
(* the signature is taken to be free of collisions.  Rows and lines are      *)
(* scaled down (200, 240 and 192, 199, 225).                                 *)
(***************************************************************************)
EXTENDS Integers, FiniteSets

CONSTANTS
  HEIGHTS,       \* the line counts a program may choose
  STD_ROWS,      \* rows of the 640x200 layout
  TALL_ROWS,     \* rows of the 512x240 layout
  VOTES,         \* frames in a row before the layout changes
  EVENTS         \* bound on what program and user do

ASSUME DisplayAssumption ==
  /\ HEIGHTS \subseteq 1 .. TALL_ROWS /\ HEIGHTS # {}
  /\ STD_ROWS \in 1 .. TALL_ROWS /\ TALL_ROWS \in Nat /\ VOTES \in Nat \ {0} /\ EVENTS \in Nat

VARIABLES
  prog,          \* the program's registers and memory: lAA, colour, wide, mem
  user,          \* monitor, osd (open), was_active, fps, armed (capture)
  fb,            \* framebuffer: row to what it shows
  sig,           \* s_line_sig
  border_row,    \* s_border_row
  tall, votes,   \* s_tall, s_tall_votes
  queue,         \* drawing that has not reached the framebuffer
  past           \* events so far, the heights drawn since the last
                 \* invalidation, and whether a frame has just ended

dvars == <<prog, user, fb, sig, border_row, tall, votes, queue, past>>

AllRows == 0 .. TALL_ROWS - 1
AllLines == 0 .. TALL_ROWS - 1
vp_h == IF tall THEN TALL_ROWS ELSE STD_ROWS
NoSig == <<>>
Black == <<"black">>
NoBorder == <<"other">>

\* Where line goes among total lines, or -1
gime_display_y(line, total) ==
  LET excess == total - vp_h
      period == total \div excess
      dropped == (line + 1) \div period
      y == line - (IF dropped > excess THEN excess ELSE dropped)
  IN IF total <= vp_h THEN line + (vp_h - total) \div 2
     ELSE IF dropped <= excess /\ (line + 1) % period = 0 THEN -1
     ELSE IF y < vp_h THEN y ELSE -1

\* The pixels of a line, and its signature: all they depend on but the
\* monitor, and the height, which decides where the line goes
LineShows(line) ==
  <<"line", line, prog.mem[line % 2], prog.colour, prog.wide, user.monitor>>
line_signature(line) == <<prog.mem[line % 2], prog.lAA, prog.colour, prog.wide>>
BorderShows == <<"border", prog.colour, user.monitor>>

-----------------------------------------------------------------------------
(* Invalidation and layout, on a record of the display's state.             *)

Shown == [fb |-> fb, sig |-> sig, border_row |-> border_row, tall |-> tall, votes |-> votes, queue |-> queue,
          heights |-> past.heights]
tcc1014_invalidate_lines(d) == [d EXCEPT !.sig = [l \in AllLines |-> NoSig], !.heights = {}]
border_rows_invalidate(d) == [d EXCEPT !.border_row = [y \in AllRows |-> NoBorder]]
Drained(d) == [d EXCEPT !.fb = [y \in AllRows |-> IF y \in d.queue THEN <<"overlay">> ELSE d.fb[y]], !.queue = {}]

\* Mutant: the queue may still hold drawing that lands on the repainted lines.
RepaintAtOnce(d) == border_rows_invalidate(tcc1014_invalidate_lines(d))
hal_video_force_repaint(d) == border_rows_invalidate(tcc1014_invalidate_lines(Drained(d)))

set_tall(d, t) ==
  IF t = d.tall THEN d
  ELSE [border_rows_invalidate(tcc1014_invalidate_lines(d))
          EXCEPT !.tall = t, !.votes = 0, !.fb = [y \in AllRows |-> Black]]
hal_video_gime_frame(d) ==
  LET want == prog.lAA > STD_ROWS /\ prog.lAA <= TALL_ROWS /\ ~prog.wide
  IN IF want = d.tall THEN [d EXCEPT !.votes = 0]
     ELSE IF d.votes + 1 >= VOTES THEN set_tall([d EXCEPT !.votes = @ + 1], want)
     ELSE [d EXCEPT !.votes = @ + 1]

-----------------------------------------------------------------------------
(* A frame: every line drawn or skipped, then the spare rows' border, then   *)
(* the vote and the overlay.                                                 *)

Lines == 0 .. prog.lAA - 1
line_clean(d, line) == ~user.armed /\ d.sig[line] = line_signature(line)
RowsDrawn(d) == {gime_display_y(l, prog.lAA) : l \in {k \in Lines : ~line_clean(d, k)}} \ {-1}
LineAt(y) == CHOOSE l \in Lines : gime_display_y(l, prog.lAA) = y
SpareRows ==
  IF prog.lAA >= vp_h THEN {}
  ELSE {y \in 0 .. vp_h - 1 : y - (vp_h - prog.lAA) \div 2 \notin Lines}
Painted(d) == {y \in SpareRows : d.border_row[y] # BorderShows}

Rendered(d) ==
  [d EXCEPT !.fb = [y \in AllRows |-> IF y \in RowsDrawn(d) THEN LineShows(LineAt(y))
                                      ELSE IF y \in Painted(d) THEN BorderShows ELSE d.fb[y]],
            !.sig = [l \in AllLines |-> IF l \in Lines THEN line_signature(l) ELSE d.sig[l]],
            !.border_row = [y \in AllRows |-> IF y \in RowsDrawn(d) THEN NoBorder
                                              ELSE IF y \in Painted(d) THEN BorderShows ELSE d.border_row[y]],
            !.heights = @ \cup {prog.lAA}]
Presented(d) == IF user.fps THEN [d EXCEPT !.queue = @ \cup {0}] ELSE d

Becomes(d, framed, events) ==
  /\ fb' = d.fb /\ sig' = d.sig /\ border_row' = d.border_row /\ tall' = d.tall /\ votes' = d.votes
  /\ queue' = d.queue
  /\ past' = [events |-> events, heights |-> d.heights, framed |-> framed]

\* The loop, the OSD closed: repaint if it was open, then run a frame.
Frame ==
  /\ ~user.osd
  /\ LET d == IF user.was_active THEN hal_video_force_repaint(Shown) ELSE Shown
     IN Becomes(Presented(hal_video_gime_frame(Rendered(d))), TRUE, past.events)
  /\ user' = [user EXCEPT !.was_active = FALSE, !.armed = FALSE]
  /\ UNCHANGED prog

\* The loop, the OSD open: the standard layout, and some rows drawn.
OsdFrame ==
  /\ user.osd
  /\ Becomes([set_tall(Shown, FALSE) EXCEPT !.queue = @ \cup {1, 2}], FALSE, past.events)
  /\ user' = [user EXCEPT !.was_active = TRUE]
  /\ UNCHANGED prog

\* The background task executes the queued drawing.
Drain ==
  /\ queue # {}
  /\ Becomes(Drained(Shown), FALSE, past.events)
  /\ UNCHANGED <<prog, user>>

-----------------------------------------------------------------------------
(* Program and user.                                                        *)

MayAct == past.events < EVENTS
Program(p) ==
  /\ MayAct /\ ~user.osd /\ prog' = p
  /\ Becomes(Shown, FALSE, past.events + 1) /\ UNCHANGED user

SetLines == \E h \in HEIGHTS \ {prog.lAA} : Program([prog EXCEPT !.lAA = h])
SetBorder == Program([prog EXCEPT !.colour = 1 - @])
SetWidth == Program([prog EXCEPT !.wide = ~@])
WriteVram == \E i \in {0, 1} : Program([prog EXCEPT !.mem[i] = 1 - @])

\* Leaving by F3 repaints at once; any other way leaves it to the loop.
OpenOsd ==
  /\ MayAct /\ ~user.osd /\ user' = [user EXCEPT !.osd = TRUE]
  /\ Becomes(Shown, FALSE, past.events + 1) /\ UNCHANGED prog
CloseOsd ==
  /\ user.osd /\ user' = [user EXCEPT !.osd = FALSE]
  /\ \E byKey \in BOOLEAN :
       Becomes(IF byKey THEN hal_video_force_repaint(Shown) ELSE Shown, FALSE, past.events)
  /\ UNCHANGED prog

\* hal_video_gime_colours_changed, from the OSD's Monitor item
ChangeMonitor ==
  /\ MayAct /\ user.osd /\ user' = [user EXCEPT !.monitor = 1 - @]
  /\ Becomes(tcc1014_invalidate_lines(border_rows_invalidate(Shown)), FALSE, past.events + 1)
  /\ UNCHANGED prog

\* hal_video_toggle_fps_overlay: switched off, the text's corner is cleared.
ToggleFps ==
  /\ MayAct /\ user' = [user EXCEPT !.fps = ~@]
  /\ Becomes(hal_video_force_repaint([Shown EXCEPT !.queue = IF user.fps THEN @ \cup {0} ELSE @]),
             FALSE, past.events + 1)
  /\ UNCHANGED prog

\* hal_video_capture_arm, from the debug server
Capture ==
  /\ MayAct /\ ~user.armed /\ user' = [user EXCEPT !.armed = TRUE]
  /\ Becomes(Shown, FALSE, past.events + 1) /\ UNCHANGED prog

DisplayInit ==
  /\ \E h \in HEIGHTS : prog = [lAA |-> h, colour |-> 0, wide |-> TRUE, mem |-> [i \in {0, 1} |-> 0]]
  /\ user = [monitor |-> 0, osd |-> FALSE, was_active |-> FALSE, fps |-> FALSE, armed |-> FALSE]
  /\ fb = [y \in AllRows |-> Black] /\ sig = [l \in AllLines |-> NoSig]
  /\ border_row = [y \in AllRows |-> NoBorder] /\ tall = FALSE /\ votes = 0 /\ queue = {}
  /\ past = [events |-> 0, heights |-> {}, framed |-> FALSE]

DisplayNext ==
  \/ Frame \/ OsdFrame \/ Drain \/ SetLines \/ SetBorder \/ SetWidth \/ WriteVram
  \/ OpenOsd \/ CloseOsd \/ ChangeMonitor \/ ToggleFps \/ Capture
DisplaySpec == DisplayInit /\ [][DisplayNext]_dvars

-----------------------------------------------------------------------------
(* Properties.                                                              *)

\* Every row of the layout shows the line or the border that belongs there
\* now, and nothing is about to be drawn over it.
PictureCurrent ==
  /\ queue = {}
  /\ \A y \in 0 .. vp_h - 1 :
       IF y \in SpareRows THEN fb[y] = BorderShows
       ELSE \E l \in Lines : gime_display_y(l, prog.lAA) = y /\ fb[y] = LineShows(l)

\* After a frame the picture is current, whatever was skipped, painted over or
\* switched before, as long as the number of lines has not changed since every
\* line was last drawn.
DisplayCurrent == past.framed /\ ~user.fps /\ past.heights = {prog.lAA} => PictureCurrent

-----------------------------------------------------------------------------
(* The inductive invariant behind DisplayCurrent.                            *)

DisplayShape ==
  /\ DOMAIN prog = {"lAA", "colour", "wide", "mem"} /\ prog.lAA \in HEIGHTS
  /\ DOMAIN user = {"monitor", "osd", "was_active", "fps", "armed"}
  /\ DOMAIN past = {"events", "heights", "framed"} /\ tall \in BOOLEAN
  /\ fb = [y \in AllRows |-> fb[y]] /\ sig = [l \in AllLines |-> sig[l]]
  /\ border_row = [y \in AllRows |-> border_row[y]]

\* What line l shows if s is its signature.
ShowsBy(l, s, monitor) == <<"line", l, s[1], s[3], s[4], monitor>>

\* A line with a signature is on its row as the signature says, if all were drawn at one height.
LinesKnown(f, s, heights, monitor) ==
  \A h \in HEIGHTS : heights = {h} =>
    \A l \in AllLines : s[l] # NoSig =>
      l < h /\ (gime_display_y(l, h) # -1 => f[gime_display_y(l, h)] = ShowsBy(l, s[l], monitor))
BordersKnown(f, b) == \A y \in AllRows : b[y] # NoBorder => f[y] = b[y]

\* Unless the OSD or the overlay has drawn since, what is remembered is what the framebuffer shows.
DisplayIInv ==
  /\ DisplayShape
  /\ past.heights = {} => \A l \in AllLines : sig[l] = NoSig
  /\ ~user.was_active /\ ~user.fps =>
       queue = {} /\ LinesKnown(fb, sig, past.heights, user.monitor) /\ BordersKnown(fb, border_row)
  /\ DisplayCurrent
=============================================================================

----------------------------- MODULE MCConsole ------------------------------
(* What the user sees and touches, each on its own: the drives, the image     *)
(* files, the keyboard, the display and the sound's rate.  `part` names the   *)
(* one that runs, the others keep one initial state.                         *)
EXTENDS DiskSafety, Keyboard, Display, AudioRate, DiskGeometry

CONSTANTS f1, d1, d2, a, b, zero

\* Two drives, one image, two values besides the zero fill.
MCDrive == {d1, d2}
MCFile == {f1}
MCVal == {a, b, zero}
MCSymmetry == Permutations(MCDrive) \cup Permutations({a, b})

\* File sizes around every threshold of the geometry detection: empty and
\* truncated files, 35, 40, 41, 80 and 160 tracks, and the 8-bit limit.
MCTracks == (0 .. 3) \cup (33 .. 43) \cup {79, 80, 81, 159, 160, 161} \cup (253 .. 258) \cup (508 .. 513)
MCSizes ==
  {t * 4608 + h : t \in MCTracks, h \in {0, 1, 4, 11, 12, 13, 24, 255, 256, 4595, 4607}}

\* A key that needs SHIFT, an arrow, SHIFT itself, and a binding that suppresses SHIFT.
KeyEntry(c, needs, suppress) == [cell |-> c, needs |-> needs, suppress |-> suppress]
MCVkMap ==
  "#" :> KeyEntry("3", TRUE, FALSE) @@ "up" :> KeyEntry("up", FALSE, FALSE) @@ "lshift" :> KeyEntry("shift", FALSE, FALSE)
MCKmChars == "@" :> KeyEntry("up", FALSE, TRUE)

VARIABLE part

ConsoleInit ==
  /\ part \in {"disks", "image", "keyboard", "display", "rate"}
  /\ SafetyInit /\ (part # "disks" => \A s, t \in Sector : files[f1][s] = files[f1][t])
  /\ Init /\ (part # "image" => ext = "dsk" /\ image_size = 0)
  /\ KeyboardInit /\ (part # "keyboard" => joy.mode = "off")
  /\ DisplayInit /\ (part # "display" => prog.lAA = 5)
  /\ RateInit /\ (part # "rate" => speed = AUDIO_FRAME_US)

Idle(on) ==
  /\ on # "disks" => UNCHANGED safetyVars
  /\ on # "image" => UNCHANGED vars
  /\ on # "keyboard" => UNCHANGED kvars
  /\ on # "display" => UNCHANGED dvars
  /\ on # "rate" => UNCHANGED ratevars

ConsoleNext ==
  /\ \/ part = "disks" /\ SafetyNext
     \/ part = "image" /\ Next
     \/ part = "keyboard" /\ KeyboardNext
     \/ part = "display" /\ DisplayNext
     \/ part = "rate" /\ RateNext
  /\ Idle(part) /\ UNCHANGED part

ConsoleSpec == ConsoleInit /\ [][ConsoleNext]_<<part, safetyVars, vars, kvars, dvars, ratevars>>
=============================================================================

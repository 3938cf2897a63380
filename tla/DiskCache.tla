------------------------------ MODULE DiskCache -----------------------------
(***************************************************************************)
(* The drive table of sv_disk.cpp: images mounted from the SD card into a   *)
(* PSRAM cache, sectors written there by the controller, and the flush that *)
(* writes the dirty ones back.  Mount, eject and flush run between CPU      *)
(* instructions on core 1, so each is one step; what the SD card and the    *)
(* allocators may refuse at each call is chosen by the step.                *)
(*                                                                          *)
(* A sector of an image is its linear number; a sector's content is a       *)
(* value.  DiskGeometry says how sectors are numbered.                      *)
(***************************************************************************)
EXTENDS Naturals, FiniteSets

CONSTANTS
  Drive,         \* SV_DISK_MAX_DRIVES of them
  File,          \* images on the SD card
  NSEC,          \* sectors of an image
  SdFault,       \* the faults that may happen, of Faults below
  Val, Fill,     \* sector contents; the zeroes of a short load
  NoCache, NoMap, NoFile

Faults == {"open", "geometry", "memory", "map", "read_only", "load_stall", "flush_open", "flush_stall"}

ASSUME DiskAssumption ==
  SdFault \subseteq Faults /\ NSEC \in Nat \ {0} /\ Fill \in Val /\ NoFile \notin File

VARIABLES
  drives,        \* [Drive -> SV_DiskImage]
  files          \* what the SD card holds

diskVars == <<drives, files>>

Sector == 0 .. NSEC - 1
Image == [Sector -> Val]

ASSUME NoneAssumption == NoCache \notin Image /\ \A map \in SUBSET Sector : map # NoMap

SV_DiskImage ==
  [mounted : BOOLEAN, dirty : BOOLEAN, read_only : BOOLEAN, path : {NoFile} \cup File,
   cache : {NoCache} \cup Image, cache_size : {0, NSEC}, dirty_map : {NoMap} \cup SUBSET Sector]

EmptyDrive ==
  [mounted |-> FALSE, dirty |-> FALSE, read_only |-> FALSE, path |-> NoFile, cache |-> NoCache,
   cache_size |-> 0, dirty_map |-> NoMap]

DiskInit ==
  /\ drives = [d \in Drive |-> EmptyDrive]
  /\ files \in [File -> [Sector -> Val \ {Fill}]]

-----------------------------------------------------------------------------
(* Flush: the sectors that reach the card.                                  *)

\* sv_disk_mark_dirty() after the controller's memcpy into the cache.
Written(img, s, v) ==
  [img EXCEPT !.cache[s] = v, !.dirty = TRUE,
              !.dirty_map = IF @ = NoMap THEN NoMap ELSE @ \cup {s}]

FlushSet(img) == IF img.dirty_map = NoMap THEN Sector ELSE img.dirty_map

MustFlush(img) == img.mounted /\ img.dirty /\ img.cache # NoCache /\ ~img.read_only

\* Outcomes of a flush: the file that results and whether it could be opened.
\* Each run of sectors may stall, so any part of the set may be missing.
FlushTo(img, opens, saved) ==
  IF MustFlush(img) /\ opens
  THEN [files EXCEPT ![img.path] = [s \in Sector |-> IF s \in saved THEN img.cache[s] ELSE @[s]]]
  ELSE files

\* Mutant: an image that could not be opened is taken for saved.
FlushedAlways(img, opens) ==
  IF MustFlush(img) THEN [img EXCEPT !.dirty = FALSE, !.dirty_map = IF @ = NoMap THEN NoMap ELSE {}] ELSE img
\* The image after a flush: it stays dirty if the file cannot be opened.
Flushed(img, opens) ==
  IF MustFlush(img) /\ opens
  THEN [img EXCEPT !.dirty = FALSE, !.dirty_map = IF @ = NoMap THEN NoMap ELSE {}]
  ELSE img

\* What a flush may save: everything, or less after stalls; a run of consecutive
\* sectors is cut where its write stalls.
Saves(img, saved) ==
  /\ saved \subseteq FlushSet(img)
  /\ \A s \in saved : s > 0 /\ s - 1 \in FlushSet(img) => s - 1 \in saved

\* sv_disk_flush().
Flush(d, opens, saved) ==
  /\ Saves(drives[d], saved)
  /\ files' = FlushTo(drives[d], opens, saved)
  /\ drives' = [drives EXCEPT ![d] = Flushed(@, opens)]

-----------------------------------------------------------------------------
(* Eject and mount.                                                         *)

\* What is unsaved is saved first.
EjectFiles(img, opens, saved) == FlushTo(img, opens, saved)

\* eject frees the cache whether or not the flush succeeded; a cache_size is
\* cleared only with a cache.
Ejected(img) == [EmptyDrive EXCEPT !.read_only = img.read_only,
                                   !.cache_size = IF img.cache = NoCache THEN img.cache_size ELSE 0]

\* sv_disk_eject() on a mounted drive; on an empty one it does nothing.
Left(img) == IF img.mounted THEN Ejected(img) ELSE img
Leave(d, opens, saved) ==
  /\ Saves(drives[d], saved)
  /\ files' = EjectFiles(drives[d], opens, saved)

Eject(d, opens, saved) ==
  /\ drives[d].mounted
  /\ Leave(d, opens, saved)
  /\ drives' = [drives EXCEPT ![d] = Left(@)]

\* sv_disk_mount() ejects what is mounted, then may fail: the file does not open,
\* its geometry is bad, or there is no memory for the cache.
MountFails(d, f, why, opens, saved) ==
  /\ Leave(d, opens, saved)
  /\ drives' = [drives EXCEPT ![d] =
       CASE why = "open" -> Left(@)
         [] why = "geometry" -> [Left(@) EXCEPT !.path = f, !.read_only = FALSE, !.dirty = FALSE]
         [] why = "memory" -> [Left(@) EXCEPT !.path = f, !.read_only = FALSE, !.dirty = FALSE,
                                              !.cache_size = NSEC]]

\* Or the image is loaded, zero-filled from where a read stalls.
Mount(d, f, upto, map, ro, opens, saved) ==
  /\ Leave(d, opens, saved)
  /\ drives' = [drives EXCEPT ![d] =
       [mounted |-> TRUE, dirty |-> FALSE, read_only |-> ro, path |-> f,
        cache |-> [s \in Sector |-> IF s < upto THEN files'[f][s] ELSE Fill],
        cache_size |-> NSEC, dirty_map |-> IF map THEN {} ELSE NoMap]]

\* The controller stores a sector it has received.
StoreSector(d, s, v) ==
  /\ drives[d].cache # NoCache /\ s < drives[d].cache_size
  /\ drives' = [drives EXCEPT ![d] = Written(@, s, v)]
  /\ UNCHANGED files

\* What the faults allow: whether a flush can open the file and what it saves; why a
\* mount fails, how much of the image it loads, and whether it gets a map.
Opens == IF "flush_open" \in SdFault THEN BOOLEAN ELSE {TRUE}
Saved(img) == IF "flush_stall" \in SdFault THEN SUBSET Sector ELSE {FlushSet(img)}
MountFault == SdFault \cap {"open", "geometry", "memory"}
Load == IF "load_stall" \in SdFault THEN 0 .. NSEC ELSE {NSEC}
Map == IF "map" \in SdFault THEN BOOLEAN ELSE {TRUE}
ReadOnly == IF "read_only" \in SdFault THEN BOOLEAN ELSE {FALSE}

\* The user's and the debug server's operations.
DriveTable ==
  \E d \in Drive : \E opens \in Opens, saved \in Saved(drives[d]) :
    \/ Flush(d, opens, saved)
    \/ Eject(d, opens, saved)
    \/ \E f \in File :
         \/ \E why \in MountFault : MountFails(d, f, why, opens, saved)
         \/ \E upto \in Load, map \in Map, ro \in ReadOnly : Mount(d, f, upto, map, ro, opens, saved)
=============================================================================

-------------------------------- MODULE Vhd ---------------------------------
(***************************************************************************)
(* The virtual hard disk: the registers at $FF80-$FF86 (vhd.cpp) over image *)
(* files read and written in place (blockfile.cpp).  A BlockFile keeps no   *)
(* sector itself; it opens the file at the first access, remembers where    *)
(* the handle stands so that sequential accesses need no seek, and closes   *)
(* an idle handle.  Everything runs on core 1, so a command is one step.    *)
(*                                                                          *)
(* Sector contents are values and offsets are sector numbers: images and    *)
(* transfers are whole sectors, the CoCo's buffer lies in RAM.  The handle  *)
(* (Arduino's File over C stdio and FatFS) is external: it has a position,  *)
(* the direction of its last transfer, and writes and a length it has not   *)
(* passed on to the card.  A write may reach the card at any time; a flush  *)
(* or a close passes on what is left, and neither File::flush() nor         *)
(* File::close() reports that the card failed it.                           *)
(***************************************************************************)
EXTENDS Naturals

CONSTANTS
  File,             \* images on the card
  VHD_MAX,          \* sectors of the largest image, 2^21
  Val, Zero,        \* sector contents; a sector of zeroes
  Junk,             \* content of a sector whose write was cut short
  NoVal,            \* a sector the handle holds no write for
  NoFile, NoHandle,
  Fault             \* what the card may refuse

ASSUME VhdAssumption ==
  /\ VHD_MAX \in Nat \ {0}
  /\ Zero \in Val /\ Junk \notin Val /\ NoVal \notin Val \cup {Junk} /\ NoFile \notin File
  /\ Fault \subseteq {"open", "read_only", "seek", "read", "write", "flush"}

VARIABLES
  s_drive,          \* [Drive -> BlockFile]
  card,             \* [File -> [len, data]]: what the card holds
  s_offset, s_drive_sel, s_status,
  sector,           \* s_sector after the last read: what the CoCo's buffer got
  truth,            \* history: what each image holds for the CoCo
  lost,             \* history: sectors of each image whose last write the card dropped
  shared            \* history: images that were in both drives at once

vhdVars == <<s_drive, card, s_offset, s_drive_sel, s_status, sector, truth, lost, shared>>

Drive == 0 .. 1                 \* VHD_NUM_DRIVES
Sector == 0 .. VHD_MAX - 1
UNKNOWN == VHD_MAX + 1          \* UINT32_MAX, a position no access can have

Unmounted ==
  [path |-> NoFile, size |-> 0, read_only |-> FALSE, dirty |-> FALSE, pos |-> 0,
   last_write |-> FALSE, file |-> NoHandle]

Content == Val \cup {Junk}
Image == [len : 0 .. VHD_MAX, data : [Sector -> Content]]
Handle ==
  [at : 0 .. UNKNOWN, write : BOOLEAN, top : 0 .. VHD_MAX, pend : [Sector -> Content \cup {NoVal}]]
BlockFile ==
  [path : File \cup {NoFile}, size : 0 .. VHD_MAX, read_only : BOOLEAN, dirty : BOOLEAN,
   pos : 0 .. UNKNOWN, last_write : BOOLEAN, file : Handle \cup {NoHandle}]

ASSUME NoHandleAssumption == NoHandle \notin Handle

VhdInit ==
  /\ s_drive = [d \in Drive |-> Unmounted]
  /\ card \in [File -> {i \in Image : \A s \in Sector : s < i.len => i.data[s] \in Val \ {Zero}}]
  /\ \A f \in File, s \in Sector : s >= card[f].len => card[f].data[s] = Junk
  /\ s_offset = 0 /\ s_drive_sel = 0 /\ s_status = "pwrup" /\ sector = Zero
  /\ truth = card /\ lost = [f \in File |-> {}] /\ shared = {}

-----------------------------------------------------------------------------
(* The file handle.                                                         *)

Nothing == [s \in Sector |-> NoVal]
HandleAt(at, write) == [at |-> at, write |-> write, top |-> 0, pend |-> Nothing]

\* An image with the sectors a handle holds in it.
Merged(i, h) ==
  [len |-> IF h.top > i.len THEN h.top ELSE i.len,
   data |-> [s \in Sector |-> IF h.pend[s] = NoVal THEN i.data[s] ELSE h.pend[s]]]

\* What an open file reads as.
View(bf, i) == IF bf.file = NoHandle THEN i ELSE Merged(i, bf.file)

Pending(bf) == IF bf.file = NoHandle THEN {} ELSE {s \in Sector : bf.file.pend[s] # NoVal}
Without(pend, D) == [s \in Sector |-> IF s \in D THEN NoVal ELSE pend[s]]

\* What a card that fails makes a handle drop unseen: sectors it holds, and, when it
\* should pass on everything, the length of the file.
DropSets(bf) == IF "flush" \in Fault THEN SUBSET Pending(bf) ELSE {{}}
DropChoices(bf) ==
  [data : DropSets(bf),
   len : IF "flush" \in Fault /\ bf.file # NoHandle /\ bf.file.top > 0 THEN BOOLEAN ELSE {FALSE}]

Kept(h, drop) ==
  [h EXCEPT !.top = IF drop.len THEN 0 ELSE @, !.pend = Without(@, drop.data)]

\* An image, and the card, once a handle has passed on what it does not drop.
SyncedImage(i, bf, drop) == IF bf.file = NoHandle THEN i ELSE Merged(i, Kept(bf.file, drop))
Synced(c, bf, drop) ==
  IF bf.file = NoHandle THEN c ELSE [c EXCEPT ![bf.path] = SyncedImage(@, bf, drop)]

\* The sectors that costs: those dropped, and those the length then does not reach.
Loss(i, bf, drop) ==
  IF bf.file = NoHandle THEN {}
  ELSE drop.data \cup {s \in Sector : drop.len /\ i.len <= s /\ s < bf.file.top}
LostWith(l, c, bf, drop) ==
  IF bf.file = NoHandle THEN l ELSE [l EXCEPT ![bf.path] = @ \cup Loss(c[bf.path], bf, drop)]

-----------------------------------------------------------------------------
(* blockfile.cpp                                                            *)

IsOpen(bf) == bf.path # NoFile

\* ensure_open(), when it succeeds.
Reopened(bf) ==
  IF bf.file # NoHandle THEN bf ELSE [bf EXCEPT !.file = HandleAt(0, FALSE), !.pos = UNKNOWN]

\* Mutant: the direction of the last access is not compared.
AtOffset(bf, offset, write) == bf.pos = offset
\* position() skips the seek.
InPlace(bf, offset, write) == bf.pos = offset /\ bf.last_write = write

\* position() after a seek.
Sought(bf, offset, write) ==
  [bf EXCEPT !.last_write = write, !.pos = offset, !.file.at = offset, !.file.write = write]

\* A seek that fails leaves the handle anywhere, and may have dropped what it held.
SeekFailed(bf, write, D) ==
  [bf EXCEPT !.last_write = write, !.pos = UNKNOWN, !.file.at = UNKNOWN, !.file.write = write,
             !.file.pend = Without(@, D)]

\* The card cannot serve the access: the handle does not reopen or does not seek.
NoOpen(bf) == "open" \in Fault /\ bf.file = NoHandle
NoSeek(bf, offset, write) == "seek" \in Fault /\ ~InPlace(Reopened(bf), offset, write)

\* The handle in position.
Positioned(bf, offset, write) ==
  LET r == Reopened(bf) IN IF InPlace(r, offset, write) THEN r ELSE Sought(r, offset, write)

\* blockfile_flush(): dirty is cleared whatever reached the card.  FatFS still knows
\* a length it could not pass on.
Flushed(bf, drop) ==
  IF bf.file # NoHandle /\ bf.dirty
  THEN [bf EXCEPT !.file.top = IF drop.len THEN @ ELSE 0, !.file.pend = Nothing, !.dirty = FALSE]
  ELSE bf
FlushTo(c, bf, drop) == IF bf.dirty THEN Synced(c, bf, drop) ELSE c
FlushLost(l, c, bf, drop) == IF bf.dirty THEN LostWith(l, c, bf, drop) ELSE l

\* Mutant: the handle is closed and nothing else.
IdleForgets(bf) == [bf EXCEPT !.file = NoHandle]
\* blockfile_tick() on an idle handle.
IdleClosed(bf) ==
  [bf EXCEPT !.dirty = IF bf.file # NoHandle THEN FALSE ELSE @, !.file = NoHandle]

\* blockfile_close(); pos and last_write stay.
Closed(bf) == [Unmounted EXCEPT !.pos = bf.pos, !.last_write = bf.last_write]

\* A handle that stands elsewhere after a transfer, and where bf->pos says it does.
Moved(bf, at, pos) == [bf EXCEPT !.file.at = at, !.pos = pos]

-----------------------------------------------------------------------------
(* vhd.cpp: commands written to $FF83.                                      *)

regs == <<s_offset, s_drive_sel>>

Answer(status) == s_status' = status

\* No image in the drive, or an offset past the largest image.
Refused ==
  /\ ~IsOpen(s_drive[s_drive_sel]) \/ s_offset >= VHD_MAX
  /\ Answer("nodisk")
  /\ UNCHANGED <<s_drive, card, regs, sector, truth, lost, shared>>

Selected == s_drive[s_drive_sel]
Ready == IsOpen(Selected) /\ s_offset < VHD_MAX

Put(bf) == s_drive' = [s_drive EXCEPT ![s_drive_sel] = bf]

\* Beyond the end of the image: zeroes, and the file is not touched.
ReadBeyond ==
  /\ Ready /\ s_offset >= Selected.size
  /\ sector' = Zero /\ Answer("ok")
  /\ UNCHANGED <<s_drive, card, regs, truth, lost, shared>>

\* The file reaches as far as the handle stands.
Reaches(bf) == bf.file.at < View(bf, card[bf.path]).len

\* The handle stands at the offset: what it reads is there.  Reading after a write
\* without a seek is undefined, and the sector may then be anything.
Read ==
  /\ Ready /\ s_offset < Selected.size
  /\ LET bf == Positioned(Selected, s_offset, FALSE)
     IN /\ Reaches(bf)
        /\ IF bf.file.write THEN sector' \in Val
           ELSE sector' = View(bf, card[bf.path]).data[bf.file.at]
        /\ Put(Moved(bf, bf.file.at + 1, s_offset + 1))
  /\ Answer("ok")
  /\ UNCHANGED <<card, regs, truth, lost, shared>>

\* A seek fails, with the sectors D dropped.
SeekFails(write) ==
  /\ NoSeek(Selected, s_offset, write)
  /\ \E D \in DropSets(Selected) :
       /\ Put(SeekFailed(Reopened(Selected), write, D))
       /\ lost' = [lost EXCEPT ![Selected.path] = @ \cup D]

\* A read that the card fails, or that finds the file shorter than bf->size: zeroes,
\* and the status still says OK.
ReadFails ==
  /\ Ready /\ s_offset < Selected.size
  /\ \/ NoOpen(Selected) /\ UNCHANGED <<s_drive, lost>>
     \/ SeekFails(FALSE)
     \/ LET bf == Positioned(Selected, s_offset, FALSE)
        IN /\ "read" \in Fault \/ ~Reaches(bf)
           /\ Put(Moved(bf, UNKNOWN, UNKNOWN)) /\ UNCHANGED lost
  /\ sector' = Zero /\ Answer("ok")
  /\ UNCHANGED <<card, regs, truth, shared>>

WriteProtected ==
  /\ Ready /\ Selected.read_only
  /\ Answer("wprot")
  /\ UNCHANGED <<s_drive, card, regs, sector, truth, lost, shared>>

Grown(bf, n) == IF n > bf.size THEN n ELSE bf.size

\* The image after a write, as a later reader shall find it.
Stored(i, s, v) ==
  [len |-> IF s + 1 > i.len THEN s + 1 ELSE i.len, data |-> [i.data EXCEPT ![s] = v]]

\* The handle after fwrite() of a sector where it stood.
Written(h, v, pos) ==
  [h EXCEPT !.at = IF pos = UNKNOWN THEN UNKNOWN ELSE h.at + 1,
            !.top = IF h.at < h.top THEN h.top ELSE h.at + 1,
            !.pend = [h.pend EXCEPT ![h.at] = v]]

\* Mutant: a write that was cut short does not count as one.
TransferWhole(bf, v, pos) ==
  [bf EXCEPT !.dirty = bf.dirty \/ pos # UNKNOWN, !.size = Grown(bf, s_offset + 1), !.pos = pos,
             !.file = Written(bf.file, v, pos)]
\* blockfile_write() once the handle is in position.
Transfer(bf, v, pos) ==
  [bf EXCEPT !.dirty = TRUE, !.size = Grown(bf, s_offset + 1), !.pos = pos,
             !.file = Written(bf.file, v, pos)]

\* A sector written: earlier losses of it no longer matter.
Transfers(bf, v, pos, D) ==
  /\ Put(Transfer(bf, v, pos))
  /\ truth' = [truth EXCEPT ![bf.path] = Stored(@, s_offset, v)]
  /\ lost' = [lost EXCEPT ![bf.path] = (@ \cup D) \ {s_offset}]

Write(v) ==
  /\ Ready /\ ~Selected.read_only
  /\ Transfers(Positioned(Selected, s_offset, TRUE), v, s_offset + 1, {})
  /\ Answer("ok")
  /\ UNCHANGED <<card, regs, sector, shared>>

\* The write does not happen, or is cut short and leaves the sector half written; what
\* the handle held before may be dropped as well.
WriteFails ==
  /\ Ready /\ ~Selected.read_only
  /\ \/ NoOpen(Selected) /\ UNCHANGED <<s_drive, truth, lost>>
     \/ SeekFails(TRUE) /\ UNCHANGED truth
     \/ /\ "write" \in Fault
        /\ \E D \in DropSets(Selected) :
             LET P == Positioned(Selected, s_offset, TRUE)
                 bf == [P EXCEPT !.file.pend = Without(@, D)]
             IN \/ /\ Put(Moved(bf, UNKNOWN, UNKNOWN))
                   /\ lost' = [lost EXCEPT ![bf.path] = @ \cup D]
                   /\ UNCHANGED truth
                \/ Transfers(bf, Junk, UNKNOWN, D)
  /\ Answer("nodisk")
  /\ UNCHANGED <<card, regs, sector, shared>>

\* Command 2.
FlushCommand ==
  /\ IsOpen(Selected)
  /\ \E drop \in DropChoices(Selected) :
       /\ card' = FlushTo(card, Selected, drop) /\ Put(Flushed(Selected, drop))
       /\ lost' = FlushLost(lost, card, Selected, drop)
  /\ s_offset' = 0 /\ Answer("ok")
  /\ UNCHANGED <<s_drive_sel, sector, truth, shared>>

InvalidCommand ==
  /\ IsOpen(Selected)
  /\ Answer("invalid")
  /\ UNCHANGED <<s_drive, card, regs, sector, truth, lost, shared>>

\* $FF80-$FF82 and $FF86.
WriteRegisters(n, d) ==
  /\ s_offset' = n /\ s_drive_sel' = d
  /\ UNCHANGED <<s_drive, card, s_status, sector, truth, lost, shared>>

-----------------------------------------------------------------------------
(* The machine, the user and the card.                                      *)

\* stdio's and FatFS's buffers turn over: a write reaches the card.
PassesOn(d) ==
  /\ \E s \in Pending(s_drive[d]) :
       /\ card' = [card EXCEPT ![s_drive[d].path].data[s] = s_drive[d].file.pend[s]]
       /\ s_drive' = [s_drive EXCEPT ![d].file.pend[s] = NoVal]
  /\ UNCHANGED <<regs, s_status, sector, truth, lost, shared>>

\* The file is closed, and what the card drops then is lost.
CloseTo(bf) ==
  \E drop \in DropChoices(bf) : card' = Synced(card, bf, drop) /\ lost' = LostWith(lost, card, bf, drop)

\* blockfile_tick(), once BLOCKFILE_IDLE_MS have passed since the last access.
IdleTick(d) ==
  /\ s_drive[d].file # NoHandle
  /\ CloseTo(s_drive[d])
  /\ s_drive' = [s_drive EXCEPT ![d] = IdleClosed(@)]
  /\ UNCHANGED <<regs, s_status, sector, truth, shared>>

\* vhd_flush_all().
FlushAll ==
  \E drop \in DropChoices(s_drive[0]), drop2 \in DropChoices(s_drive[1]) :
    LET c == FlushTo(card, s_drive[0], drop)
        l == FlushLost(lost, card, s_drive[0], drop)
    IN /\ card' = FlushTo(c, s_drive[1], drop2)
       /\ lost' = FlushLost(l, c, s_drive[1], drop2)
       /\ s_drive' = [d \in Drive |-> Flushed(s_drive[d], IF d = 0 THEN drop ELSE drop2)]

\* Entering the supervisor, the F key, a debug-server flush.
UserFlush == FlushAll /\ UNCHANGED <<regs, s_status, sector, truth, shared>>

\* vhd_reset().
Reset ==
  /\ FlushAll
  /\ s_drive_sel' = 0
  /\ UNCHANGED <<s_offset, s_status, sector, truth, shared>>

\* vhd_mount(): the old image is closed first, whether or not the new one opens.
Mount(d, f, ro) ==
  /\ CloseTo(s_drive[d])
  /\ s_drive' = [s_drive EXCEPT ![d] =
       [Closed(@) EXCEPT !.path = f, !.size = card'[f].len, !.read_only = ro]]
  /\ shared' = shared \cup {g \in {f} : \E e \in Drive \ {d} : s_drive[e].path = g}
  /\ s_offset' = 0 /\ Answer("ok")
  /\ UNCHANGED <<s_drive_sel, sector, truth>>

MountFails(d) ==
  /\ CloseTo(s_drive[d])
  /\ s_drive' = [s_drive EXCEPT ![d] = Closed(@)]
  /\ s_offset' = 0 /\ Answer("nodisk")
  /\ UNCHANGED <<s_drive_sel, sector, truth, shared>>

Unmount(d) ==
  /\ IsOpen(s_drive[d])
  /\ CloseTo(s_drive[d])
  /\ s_drive' = [s_drive EXCEPT ![d] = Closed(@)]
  /\ Answer("nodisk")
  /\ UNCHANGED <<regs, sector, truth, shared>>

VhdNext ==
  \/ Refused \/ ReadBeyond \/ Read \/ ReadFails \/ WriteProtected \/ WriteFails
  \/ \E v \in Val : Write(v)
  \/ FlushCommand \/ InvalidCommand
  \/ \E n \in 0 .. VHD_MAX, d \in Drive : WriteRegisters(n, d)
  \/ \E d \in Drive : PassesOn(d) \/ IdleTick(d) \/ Unmount(d)
  \/ UserFlush \/ Reset
  \/ \E d \in Drive, f \in File, ro \in IF "read_only" \in Fault THEN BOOLEAN ELSE {FALSE} :
       Mount(d, f, ro)
  \/ "open" \in Fault /\ \E d \in Drive : MountFails(d)

VhdSpec == VhdInit /\ [][VhdNext]_vhdVars

-----------------------------------------------------------------------------
\* Every variable has its type.
VhdTypeOK ==
  /\ s_drive \in [Drive -> BlockFile]
  /\ card \in [File -> Image] /\ truth \in [File -> Image]
  /\ lost \in [File -> SUBSET Sector] /\ shared \subseteq File
  /\ s_offset \in 0 .. VHD_MAX /\ s_drive_sel \in Drive
  /\ s_status \in {"pwrup", "ok", "nodisk", "wprot", "invalid"} /\ sector \in Content

\* A handle belongs to a mounted image; a BlockFile is dirty only while it has one,
\* or blockfile_flush() could not reach what it owes the card; a clean one holds no
\* write back.
DirtyOk(bf) ==
  /\ bf.file # NoHandle => bf.path # NoFile
  /\ bf.dirty => bf.file # NoHandle
  /\ bf.file # NoHandle /\ ~bf.dirty => bf.file.pend = Nothing

\* The handle stands where pos says, and its last transfer had the direction
\* last_write says.
Known(bf) ==
  bf.file # NoHandle /\ bf.pos # UNKNOWN => bf.file.at = bf.pos /\ bf.file.write = bf.last_write

\* Image i holds content t but for the sectors L.
Agrees(i, t, L) ==
  /\ i.len <= t.len
  /\ \A s \in Sector \ L : i.data[s] = t.data[s] /\ (s < t.len => s < i.len)

\* Through the drive, image i shows content t but for the sectors L; a drive that is
\* not dirty owes the card nothing more.
Shows(bf, i, t, L) ==
  /\ Agrees(View(bf, i), t, L)
  /\ View(bf, i).len <= bf.size /\ bf.size <= t.len
  /\ ~bf.dirty => Agrees(i, t, L)

\* The inductive invariant: but for what the card dropped, what the CoCo wrote is on
\* the card or in the handle of the one drive that has the image.
VhdInv ==
  /\ VhdTypeOK
  /\ \A d \in Drive : DirtyOk(s_drive[d]) /\ Known(s_drive[d])
  /\ \A d, e \in Drive : d # e /\ IsOpen(s_drive[d]) /\ s_drive[d].path = s_drive[e].path
                           => s_drive[d].path \in shared
  /\ \A d \in Drive : IsOpen(s_drive[d]) /\ s_drive[d].path \notin shared
       => LET f == s_drive[d].path IN Shows(s_drive[d], card[f], truth[f], lost[f])
  /\ \A f \in File \ shared :
       (\A d \in Drive : s_drive[d].path # f) => Agrees(card[f], truth[f], lost[f])

\* When position() trusts bf->pos and skips the seek, the handle really stands there
\* and its last transfer had the same direction, across idle closes, failed seeks,
\* short transfers and remounts.
PositionKnown == \A d \in Drive : Known(s_drive[d])

\* The size a drive believes in, which decides what reads as zeroes, is the image's,
\* however it has grown, as long as the card has dropped nothing of it.
SizeFollows ==
  \A d \in Drive :
    IsOpen(s_drive[d]) /\ s_drive[d].path \notin shared /\ lost[s_drive[d].path] = {}
    => s_drive[d].size = truth[s_drive[d].path].len

\* An image that no drive holds dirty is on the card as the CoCo left it: after
\* command 2, a reset, an eject, an idle close or on entering the supervisor the
\* card may be pulled.  A flush, a seek or a close that the card fails costs the
\* sectors that it was passing on, until they are written again, and no others.
CleanIsOnCard ==
  \A f \in File \ shared :
    (\A d \in Drive : s_drive[d].path = f => ~s_drive[d].dirty)
    => Agrees(card[f], truth[f], lost[f])

\* A read the card does not fail returns what was last written to that sector, or the
\* card has dropped it.
ReadsBack ==
  [][Read /\ Selected.path \notin shared /\ s_offset \notin lost[Selected.path]
     => sector' = truth[Selected.path].data[s_offset]]_vhdVars
=============================================================================

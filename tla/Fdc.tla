-------------------------------- MODULE Fdc ---------------------------------
(***************************************************************************)
(* The WD1793 controller of sv_disk.cpp as the CPU's bus accesses, the      *)
(* scanline tick and the drive table (DiskCache) drive it.  fdc is struct   *)
(* SV_DiskController with the two CPU lines its callbacks set, nmi and      *)
(* halted.  A step is one bus access with everything it triggers; a halted  *)
(* CPU makes none.  sv_disk_reset() is never called and has no action.      *)
(*                                                                          *)
(* Status is the set of its flags, a command its kind.  Images have one     *)
(* side; track and sector numbers, bytes and the 6250 bytes of a raw track  *)
(* are bounded by constants.                                                *)
(***************************************************************************)
EXTENDS DiskCache, Integers

CONSTANTS
  SECTORS,            \* sectors_per_track; NSEC is a multiple
  BUF,                \* sector_size, 256
  Track, SectorNo,    \* values the CPU writes to the registers
  Byte,               \* bytes the CPU writes to the data register
  MAXTRACK,           \* 79
  WT_TRACK_BYTES,     \* 6250
  Command             \* commands the CPU issues

Steps == {"step", "step_in", "step_out"}
Kinds ==
  Steps \cup {"restore", "seek", "read", "write", "read_address", "read_track", "write_track",
              "force", "force_now"}

ASSUME FdcAssumption ==
  /\ SECTORS \in Nat \ {0} /\ BUF \in Nat \ {0} /\ MAXTRACK \in Nat /\ WT_TRACK_BYTES \in Nat
  /\ NSEC % SECTORS = 0 /\ Drive # {} /\ Command \subseteq Kinds
  /\ Track \subseteq Nat /\ SectorNo \subseteq Nat /\ Byte \subseteq Nat

\* What a sector, in the buffer or in an image, can hold.
Buffer == [0 .. BUF - 1 -> Nat]

ASSUME BufferAssumption ==
  Val \subseteq Buffer /\ NoCache \notin [Sector -> Buffer]

VARIABLE fdc

fdcVars == <<diskVars, fdc>>

F5 == 245
FE == 254
FB == 251

TRACKS == NSEC \div SECTORS

FdcInit ==
  /\ DiskInit
  /\ fdc = [status |-> {"TRACK0"}, track |-> 0, sector |-> 0, data |-> 0,
            drive_select |-> CHOOSE d \in Drive : TRUE, halt_enable |-> FALSE, density |-> FALSE,
            side |-> 0, busy |-> FALSE, drq |-> FALSE, intrq |-> FALSE, intrq_defer |-> 0,
            step_direction |-> -1, sector_buf |-> [i \in 0 .. BUF - 1 |-> 0], buf_pos |-> 0, buf_len |-> 0,
            reading |-> FALSE, read_pending |-> FALSE, writing |-> FALSE, write_track |-> FALSE,
            wt_state |-> "idle", wt_f5_count |-> 0, wt_id_pos |-> 0, wt_id_sector |-> 1,
            wt_data_pos |-> 0, wt_byte_count |-> 0,
            nmi |-> FALSE, halted |-> FALSE,
            \* history: a command's interrupt is outstanding; since the command was
            \* given no drive was selected, mounted or ejected
            owed |-> FALSE, stable |-> FALSE]

-----------------------------------------------------------------------------
(* Signals.                                                                 *)

SetIntrq(f, value) ==
  [f EXCEPT !.intrq = value,
            !.halt_enable = @ /\ ~value, !.halted = @ /\ ~value,
            !.nmi = value /\ ~f.density,
            !.owed = @ /\ ~value]

SetDrq(f) == [f EXCEPT !.drq = TRUE, !.halted = FALSE]

\* A command or transfer is over and interrupts at once.
Finish(f, status) == SetIntrq([f EXCEPT !.busy = FALSE, !.status = status], TRUE)

Disk(f) == drives[f.drive_select]

NotReady(f) == IF Disk(f).mounted THEN {} ELSE {"NOTREADY"}
Track0(f) == IF f.track = 0 THEN {"TRACK0"} ELSE {}

\* sector_offset() on the image's linear sectors; NSEC stands for UINT32_MAX.
Offset(f, sector) ==
  IF sector \in 1 .. SECTORS /\ f.track < TRACKS /\ f.side = 0
  THEN f.track * SECTORS + sector - 1 ELSE NSEC

-----------------------------------------------------------------------------
(* $FF48: commands.                                                         *)

\* Mutant: a deferred interrupt outlives its command.
CancelledKeepsDefer(f) ==
  [f EXCEPT !.reading = FALSE, !.read_pending = FALSE, !.writing = FALSE, !.write_track = FALSE,
            !.drq = FALSE]
\* Mutant: a write is not cancelled by the next command.
CancelledKeepsWrite(f) == [f EXCEPT !.reading = FALSE, !.read_pending = FALSE, !.drq = FALSE, !.intrq_defer = 0]
\* What every command clears first.
Cancelled(f) ==
  [f EXCEPT !.reading = FALSE, !.read_pending = FALSE, !.writing = FALSE, !.write_track = FALSE,
            !.drq = FALSE, !.intrq_defer = 0]

Begin(f) ==
  [Cancelled(SetIntrq(f, FALSE)) EXCEPT !.busy = TRUE, !.status = {"BUSY"}, !.owed = TRUE, !.stable = TRUE]

Transferring(f) == [f EXCEPT !.drq = TRUE, !.status = {"BUSY", "DRQ"}]

HasMedia(f) == Disk(f).mounted /\ Disk(f).cache # NoCache

Restored(f) ==
  LET g == [f EXCEPT !.track = 0, !.step_direction = -1] IN Finish(g, {"TRACK0"} \cup NotReady(g))

Sought(f) ==
  LET g == [f EXCEPT !.track = f.data] IN Finish(g, Track0(g) \cup NotReady(g))

\* STEP, STEP IN, STEP OUT, with or without the update flag.
Stepped(f, kind, update) ==
  LET dir == CASE kind = "step" -> f.step_direction [] kind = "step_in" -> 1 [] kind = "step_out" -> -1
      to == IF dir = 1 THEN (IF f.track >= MAXTRACK THEN MAXTRACK ELSE f.track + 1)
            ELSE IF f.track = 0 THEN 0 ELSE IF f.track > MAXTRACK THEN MAXTRACK ELSE f.track - 1
      g == [f EXCEPT !.step_direction = dir, !.track = IF update THEN to ELSE @]
  IN Finish(g, Track0(g) \cup NotReady(g))

ReadBegun(f) ==
  IF ~HasMedia(f) THEN Finish(f, {"NOTREADY"})
  ELSE Transferring([f EXCEPT !.buf_pos = 0, !.buf_len = BUF, !.reading = TRUE, !.read_pending = TRUE])

WriteBegun(f) ==
  IF ~HasMedia(f) THEN Finish(f, {"NOTREADY"})
  ELSE IF Disk(f).read_only THEN Finish(f, {"PROTECT"})
  ELSE Transferring([f EXCEPT !.buf_pos = 0, !.buf_len = BUF, !.writing = TRUE])

\* READ ADDRESS: the ID field, 6 bytes of it in the code; the sector register
\* takes the track number.
AddressBegun(f) ==
  Transferring([f EXCEPT !.sector_buf = [i \in 0 .. BUF - 1 |-> IF i = 0 THEN f.track ELSE f.sector],
                         !.buf_pos = 0, !.buf_len = BUF, !.reading = TRUE,
                         !.data = f.track, !.sector = f.track])

FormatBegun(f) ==
  IF ~HasMedia(f) THEN Finish(f, {"NOTREADY"})
  ELSE IF Disk(f).read_only THEN Finish(f, {"PROTECT"})
  ELSE Transferring([f EXCEPT !.write_track = TRUE, !.wt_state = "idle", !.wt_f5_count = 0,
                              !.wt_id_pos = 0, !.wt_id_sector = 1, !.wt_data_pos = 0,
                              !.wt_byte_count = 0])

\* FORCE INTERRUPT ends what goes on; only with bit 3 does it interrupt.
Forced(f, now) ==
  LET g == [f EXCEPT !.busy = FALSE, !.status = Track0(f) \cup NotReady(f), !.owed = FALSE]
  IN IF now THEN SetIntrq(g, TRUE) ELSE g

Executed(f, cmd) ==
  CASE cmd = "restore" -> Restored(f)
    [] cmd = "seek" -> Sought(f)
    [] cmd = "read" -> ReadBegun(f)
    [] cmd = "write" -> WriteBegun(f)
    [] cmd = "read_address" -> AddressBegun(f)
    [] cmd = "read_track" -> Finish(f, {})
    [] cmd = "write_track" -> FormatBegun(f)
    [] cmd = "force" -> Forced(f, FALSE)
    [] cmd = "force_now" -> Forced(f, TRUE)

WriteCommand(cmd) ==
  /\ ~fdc.halted
  /\ fdc' = Executed(Begin(fdc), cmd)
  /\ UNCHANGED diskVars

WriteStep(kind, update) ==
  /\ ~fdc.halted
  /\ fdc' = Stepped(Begin(fdc), kind, update)
  /\ UNCHANGED diskVars

\* $FF48 read: the interrupt is acknowledged.
ReadStatus ==
  /\ ~fdc.halted
  /\ fdc' = SetIntrq(fdc, FALSE)
  /\ UNCHANGED diskVars

WriteTrackReg(t) ==
  /\ ~fdc.halted
  /\ fdc' = [fdc EXCEPT !.track = t]
  /\ UNCHANGED diskVars

WriteSectorReg(s) ==
  /\ ~fdc.halted
  /\ fdc' = [fdc EXCEPT !.sector = s]
  /\ UNCHANGED diskVars

-----------------------------------------------------------------------------
(* $FF4B: data.                                                             *)

\* The first read after READ SECTOR loads the sector of the drive selected now.
\* The code looks at cache_size, not at cache.
Loads(f) == Offset(f, f.sector) < Disk(f).cache_size
Loaded(f) ==
  LET buf == Disk(f).cache[Offset(f, f.sector)]
  IN [f EXCEPT !.read_pending = FALSE, !.sector_buf = buf, !.data = buf[0]]
NotFound(f) ==
  Finish([f EXCEPT !.read_pending = FALSE, !.reading = FALSE, !.drq = FALSE], {"RNF"})

\* The last byte: the interrupt waits for the next read, or for 5 scanlines.
LastRead(f) ==
  [f EXCEPT !.reading = FALSE, !.drq = FALSE, !.busy = FALSE, !.status = {}, !.intrq_defer = 5]

DataRead(f) ==
  IF f.reading /\ f.buf_pos < f.buf_len
  THEN LET g == [f EXCEPT !.buf_pos = @ + 1]
       IN IF g.buf_pos < g.buf_len
          THEN [g EXCEPT !.data = g.sector_buf[g.buf_pos], !.drq = TRUE]
          ELSE LastRead(g)
  ELSE IF f.intrq_defer > 0 /\ ~f.intrq
  THEN SetIntrq([f EXCEPT !.intrq_defer = 0], TRUE)
  ELSE f

\* A load from a drive without a cache reads through a null pointer: no step.
ReadData ==
  /\ ~fdc.halted
  /\ IF ~fdc.read_pending THEN fdc' = DataRead(fdc)
     ELSE IF ~Loads(fdc) THEN fdc' = NotFound(fdc)
     ELSE Disk(fdc).cache # NoCache /\ fdc' = DataRead(Loaded(fdc))
  /\ UNCHANGED diskVars

\* Mutant: the last sector of the image is taken to be beyond it.
StoresInside(f, sector) == Offset(f, sector) + 1 < Disk(f).cache_size /\ Disk(f).cache # NoCache
\* memcpy into the cache and sv_disk_mark_dirty(), if the drive selected now has
\* that sector.
Stores(f, sector) == Offset(f, sector) < Disk(f).cache_size /\ Disk(f).cache # NoCache
Stored(f, sector) ==
  IF Stores(f, sector) THEN StoreSector(f.drive_select, Offset(f, sector), f.sector_buf)
  ELSE UNCHANGED diskVars

\* WRITE SECTOR.
SectorByte(f, b) ==
  LET g == [f EXCEPT !.sector_buf[f.buf_pos] = b, !.buf_pos = @ + 1]
      done == [g EXCEPT !.writing = FALSE, !.drq = FALSE]
  IN IF g.buf_pos < g.buf_len
     THEN fdc' = [g EXCEPT !.drq = TRUE] /\ UNCHANGED diskVars
     ELSE /\ fdc' = Finish(done, IF Offset(f, f.sector) = NSEC THEN {"RNF"} ELSE {})
          /\ Stored(g, f.sector)

DataMark(f) == [f EXCEPT !.wt_state = "data", !.wt_data_pos = 0]

\* WRITE TRACK: address marks are three $F5 and a mark byte; $F5 is never data.
Parsed(f, b) ==
  LET g == [f EXCEPT !.wt_f5_count = 0]
      mark == f.wt_state \in {"idle", "wait_dam"} /\ f.wt_f5_count >= 3
  IN CASE b = F5 -> [f EXCEPT !.wt_f5_count = (@ + 1) % 256]
       [] b # F5 /\ mark /\ b = FE -> [g EXCEPT !.wt_state = "id", !.wt_id_pos = 0]
       [] b # F5 /\ mark /\ b = FB -> DataMark(g)
       [] b # F5 /\ f.wt_state = "id" ->
            [g EXCEPT !.wt_id_sector = IF f.wt_id_pos = 2 THEN b ELSE @, !.wt_id_pos = @ + 1,
                      !.wt_state = IF f.wt_id_pos >= 3 THEN "wait_dam" ELSE "id"]
       [] b # F5 /\ f.wt_state = "data" ->
            [g EXCEPT !.sector_buf[f.wt_data_pos] = b, !.wt_data_pos = @ + 1,
                      !.wt_state = IF f.wt_data_pos + 1 >= BUF THEN "idle" ELSE "data"]
       [] OTHER -> g

TrackByte(f, b) ==
  LET g == Parsed([f EXCEPT !.wt_byte_count = @ + 1], b)
  IN /\ fdc' = IF g.wt_byte_count < WT_TRACK_BYTES THEN SetDrq(g)
               ELSE Finish([g EXCEPT !.write_track = FALSE, !.drq = FALSE], {})
     /\ IF f.wt_state = "data" /\ g.wt_state = "idle" THEN Stored(g, g.wt_id_sector)
        ELSE UNCHANGED diskVars

WriteData(b) ==
  /\ ~fdc.halted
  /\ LET f == [fdc EXCEPT !.data = b]
     IN IF f.write_track THEN TrackByte(f, b)
        ELSE IF f.writing /\ f.buf_pos < f.buf_len THEN SectorByte(f, b)
        ELSE fdc' = f /\ UNCHANGED diskVars

-----------------------------------------------------------------------------
(* $FF40, the tick and the drive table.                                     *)

Halts(f) == f.halt_enable /\ ~f.drq /\ f.busy

DskregNmi(f, density) == f.intrq /\ ~density

\* $FF40: drive select, density and the HALT gate, and the lines they drive.
DskregSet(f, d, side, density, halt) ==
  LET r == [f EXCEPT !.drive_select = d, !.side = side, !.density = density,
                     !.nmi = DskregNmi(f, density),
                     !.halt_enable = halt /\ ~f.intrq,
                     !.stable = @ /\ d = f.drive_select]
  IN  [r EXCEPT !.halted = Halts(r)]

WriteDskreg(d, side, density, halt) ==
  /\ ~fdc.halted
  /\ fdc' = DskregSet(fdc, d, side, density, halt)
  /\ UNCHANGED diskVars

\* Mutant: the countdown only runs during a command.
TickBusy ==
  /\ fdc.intrq_defer > 0 /\ fdc.busy
  /\ fdc' = [fdc EXCEPT !.intrq_defer = @ - 1]
  /\ UNCHANGED diskVars
Tick ==
  /\ fdc.intrq_defer > 0
  /\ fdc' = LET f == [fdc EXCEPT !.intrq_defer = @ - 1]
            IN IF f.intrq_defer = 0 THEN SetIntrq(f, TRUE) ELSE f
  /\ UNCHANGED diskVars

\* Images change between two instructions; the controller is not told.
DriveTableChange ==
  /\ DriveTable
  /\ fdc' = [fdc EXCEPT !.stable = @ /\ drives'[fdc.drive_select] = drives[fdc.drive_select]]

Bus ==
  \/ \E cmd \in Command \ Steps : WriteCommand(cmd)
  \/ \E kind \in Command \cap Steps, update \in BOOLEAN : WriteStep(kind, update)
  \/ ReadStatus
  \/ \E t \in Track : WriteTrackReg(t)
  \/ \E s \in SectorNo : WriteSectorReg(s)
  \/ ReadData
  \/ \E b \in Byte : WriteData(b)
  \/ \E d \in Drive, density \in BOOLEAN, halt \in BOOLEAN : WriteDskreg(d, 0, density, halt)

FdcNext == Bus \/ Tick \/ DriveTableChange

FdcSpec == FdcInit /\ [][FdcNext]_fdcVars /\ WF_fdcVars(Tick)

-----------------------------------------------------------------------------
Flags == {"BUSY", "DRQ", "TRACK0", "NOTREADY", "PROTECT", "RNF"}

SV_DiskController ==
  [status : SUBSET Flags, track : Nat, sector : Nat, data : Nat, drive_select : Drive,
   halt_enable : BOOLEAN, density : BOOLEAN, side : {0}, busy : BOOLEAN, drq : BOOLEAN, intrq : BOOLEAN,
   intrq_defer : 0 .. 5, step_direction : {-1, 1}, sector_buf : Buffer, buf_pos : 0 .. BUF,
   buf_len : {0, BUF}, reading : BOOLEAN, read_pending : BOOLEAN, writing : BOOLEAN,
   write_track : BOOLEAN, wt_state : {"idle", "id", "wait_dam", "data"}, wt_f5_count : Nat,
   wt_id_pos : 0 .. 4, wt_id_sector : Nat, wt_data_pos : 0 .. BUF, wt_byte_count : Nat,
   nmi : BOOLEAN, halted : BOOLEAN, owed : BOOLEAN, stable : BOOLEAN]

\* Every field has its type; the buffer positions stay within the sector buffer.
FdcTypeOK ==
  /\ fdc \in SV_DiskController
  /\ fdc.buf_pos <= fdc.buf_len
  /\ fdc.wt_state = "data" => fdc.wt_data_pos < BUF

\* A command interrupts exactly once: while its interrupt is owed it is either
\* still busy or counting down, and once it has interrupted, or was forced to end,
\* neither it nor a countdown of its predecessor can interrupt again.
InterruptsOnce == fdc.owed <=> (fdc.busy \/ fdc.intrq_defer > 0)

\* The CPU is never halted: whenever DSKREG could halt it, either data is ready or
\* no command runs.  A CPU halted with neither would never be released.
NeverHalted == ~fdc.halted

\* The NMI line is INTRQ gated by density, whichever of the two changed last.
NmiFollows == fdc.nmi = (fdc.intrq /\ ~fdc.density)

\* The BUSY flag the CPU polls agrees with the controller, and one transfer at most
\* is in progress, with DRQ raised throughout.
BusyAgrees ==
  /\ "BUSY" \in fdc.status <=> fdc.busy
  /\ fdc.busy <=> (fdc.reading \/ fdc.writing \/ fdc.write_track)
  /\ fdc.busy => fdc.drq
  /\ ~(fdc.reading /\ fdc.writing) /\ ~(fdc.write_track /\ (fdc.reading \/ fdc.writing))

\* What the CPU sees of the controller, its NMI line and status register, agrees
\* with what the controller is doing after every access and tick.
LinesAgree == NmiFollows /\ BusyAgrees

\* While the drive a command was given for stays selected and mounted, the cache it
\* will read or write is there.
TransferHasCache ==
  fdc.stable /\ (fdc.read_pending \/ fdc.writing \/ fdc.write_track)
  => Disk(fdc).mounted /\ Disk(fdc).cache # NoCache

\* What holds after every bus access, tick and change of the drive table: the buffers
\* are in bounds, the CPU's view agrees with the controller, a transfer has its cache
\* and the CPU is never left halted.
FdcInv == FdcTypeOK /\ LinesAgree /\ TransferHasCache /\ NeverHalted

\* The transfer in progress has room in the buffer, and no interrupt is deferred.
TransferHasRoom ==
  /\ fdc.reading \/ fdc.writing => fdc.buf_len = BUF /\ fdc.buf_pos < BUF
  /\ fdc.read_pending => fdc.reading
  /\ fdc.wt_state = "id" => fdc.wt_id_pos <= 3
  /\ fdc.busy => fdc.intrq_defer = 0

\* A mounted drive has the cache of a whole image.
CachesWhole ==
  /\ drives \in [Drive -> [mounted : BOOLEAN, dirty : BOOLEAN, read_only : BOOLEAN,
                           path : {NoFile} \cup File, cache : {NoCache} \cup [Sector -> Buffer],
                           cache_size : {0, NSEC}, dirty_map : {NoMap} \cup SUBSET Sector]]
  /\ \A d \in Drive : drives[d].mounted => drives[d].cache # NoCache /\ drives[d].cache_size = NSEC
  /\ files \in [File -> [Sector -> Buffer]]

\* The inductive invariant behind FdcInv, InterruptsOnce and WriteIsStored.
FdcIInv == FdcInv /\ InterruptsOnce /\ TransferHasRoom /\ CachesWhole

\* A sector write that ends without an error flag is in the cache and marked dirty,
\* provided the drive was not changed under it.
WriteIsStored ==
  [][fdc.writing /\ ~fdc'.writing /\ fdc'.buf_pos = BUF /\ fdc'.intrq /\ fdc'.status = {} /\ fdc.stable
       => /\ drives'[fdc.drive_select].cache[Offset(fdc, fdc.sector)] = fdc'.sector_buf
          /\ drives'[fdc.drive_select].dirty]_fdcVars

\* A deferred interrupt arrives, or its command is superseded, whether or not the
\* CPU ever reads the data register again.
DeferredArrives == fdc.intrq_defer > 0 ~> fdc.intrq_defer = 0
=============================================================================

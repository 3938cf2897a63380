------------------------------ MODULE DiskSafety ----------------------------
(***************************************************************************)
(* Is what the CoCo writes to a disk saved?  The drive table of DiskCache,  *)
(* driven by sector writes to writable images, with what happened to the    *)
(* SD transfers recorded.                                                   *)
(***************************************************************************)
EXTENDS DiskCache

VARIABLES
  torn,          \* drives with a flush that stalled or a load that was cut short
  shared,        \* files that were mounted on two drives at once
  nomap,         \* some image was mounted without a dirty map
  lost           \* an unsaved image was thrown away, with or without an SD fault

safetyVars == <<diskVars, torn, shared, nomap, lost>>

SafetyInit ==
  /\ DiskInit
  /\ torn = {} /\ shared = {} /\ nomap = FALSE /\ lost = "no"

Unsaved(img, fs) == MustFlush(img) /\ \E s \in Sector : img.cache[s] # fs[img.path][s]

LostBy(d, opens, saved) ==
  IF ~Unsaved(drives[d], EjectFiles(drives[d], opens, saved)) THEN lost
  ELSE IF opens /\ saved = FlushSet(drives[d]) /\ d \notin torn /\ drives[d].path \notin shared
       THEN "sd_was_fine" ELSE "sd_failed"

FlushDrive(d, opens, saved) ==
  /\ Flush(d, opens, saved)
  /\ torn' = IF MustFlush(drives[d]) /\ opens /\ saved # FlushSet(drives[d]) THEN torn \cup {d} ELSE torn
  /\ UNCHANGED <<shared, nomap, lost>>

EjectDrive(d, opens, saved) ==
  /\ Eject(d, opens, saved)
  /\ lost' = LostBy(d, opens, saved)
  /\ torn' = torn \ {d}
  /\ UNCHANGED <<shared, nomap>>

MountDriveFails(d, f, why, opens, saved) ==
  /\ MountFails(d, f, why, opens, saved)
  /\ lost' = LostBy(d, opens, saved)
  /\ torn' = torn \ {d}
  /\ UNCHANGED <<shared, nomap>>

MountDrive(d, f, upto, map, ro, opens, saved) ==
  /\ Mount(d, f, upto, map, ro, opens, saved)
  /\ lost' = LostBy(d, opens, saved)
  /\ torn' = IF upto < NSEC THEN torn \cup {d} ELSE torn \ {d}
  /\ shared' = IF \E e \in Drive \ {d} : drives[e].mounted /\ drives[e].path = f
               THEN shared \cup {f} ELSE shared
  /\ nomap' = (nomap \/ ~map)

WriteSector(d, s, v) ==
  /\ drives[d].mounted /\ ~drives[d].read_only
  /\ StoreSector(d, s, v)
  /\ UNCHANGED <<torn, shared, nomap, lost>>

SafetyNext ==
  \E d \in Drive :
    \/ \E s \in Sector, v \in Val \ {Fill} : WriteSector(d, s, v)
    \/ \E opens \in Opens, saved \in Saved(drives[d]) :
         \/ FlushDrive(d, opens, saved)
         \/ EjectDrive(d, opens, saved)
         \/ \E f \in File :
              \/ \E why \in MountFault : MountDriveFails(d, f, why, opens, saved)
              \/ \E upto \in Load, map \in Map, ro \in ReadOnly :
                   MountDrive(d, f, upto, map, ro, opens, saved)

SafetySpec == SafetyInit /\ [][SafetyNext]_safetyVars

-----------------------------------------------------------------------------
\* Every variable has its type; an image is mounted only with a cache of full
\* size, and only a cache is dirty.
DiskTypeOK ==
  /\ drives \in [Drive -> SV_DiskImage]
  /\ \A d \in Drive :
       LET img == drives[d] IN
       /\ img.mounted <=> img.cache # NoCache
       /\ img.mounted => img.cache_size = NSEC /\ img.path \in File
       /\ img.dirty => img.mounted
  /\ files \in [File -> Image]
  /\ torn \subseteq Drive /\ shared \subseteq File /\ nomap \in BOOLEAN
  /\ lost \in {"no", "sd_was_fine", "sd_failed"}

CacheDiffers(d, s) == drives[d].mounted /\ drives[d].cache[s] # files[drives[d].path][s]
Covered(d, s) ==
  drives[d].dirty /\ (drives[d].dirty_map = NoMap \/ s \in drives[d].dirty_map)

\* A sector in which cache and card differ is marked, so the next flush will save
\* it, through every mount, flush, failed flush and write; unless an SD transfer
\* of this drive stalled or the image is mounted twice.
DirtyCovers ==
  \A d \in Drive \ torn, s \in Sector :
    CacheDiffers(d, s) /\ drives[d].path \notin shared => Covered(d, s)

\* The zeroes a short load leaves in the cache never reach the card as long as
\* images have their dirty map: only sectors the CoCo wrote are flushed.
ZeroesStayInCache == nomap \/ \A f \in File, s \in Sector : files[f][s] # Fill

\* Ejecting loses no written sector when the SD card did what it was asked.
NothingLostQuietly == lost # "sd_was_fine"

\* The drive table in every state: mounted drives have their caches, no unsaved
\* sector is unmarked, a flush writes nothing but what the CoCo wrote, and an eject
\* loses nothing that the card would have taken.
DiskInv == DiskTypeOK /\ DirtyCovers /\ ZeroesStayInCache /\ NothingLostQuietly

\* A file mounted on two drives is known to be.
SharedKnown ==
  \A d, e \in Drive :
    d # e /\ drives[d].mounted /\ drives[e].mounted /\ drives[d].path = drives[e].path
      => drives[d].path \in shared

\* With a dirty map, what a flush would write was written by the CoCo.
MarkedWritten ==
  ~nomap => \A d \in Drive :
    drives[d].mounted =>
      drives[d].dirty_map # NoMap /\ \A s \in drives[d].dirty_map : drives[d].cache[s] # Fill

\* The inductive invariant behind DiskInv.
DiskIInv == DiskInv /\ SharedKnown /\ MarkedWritten

-----------------------------------------------------------------------------
(* What the documentation says and the code does not ensure.                *)

\* "stays dirty if it fails" (sv_disk.cpp:873), of the flush: an image that was
\* loaded whole and differs from the card is dirty.
FailedFlushStaysDirty ==
  \A d \in Drive, s \in Sector :
    CacheDiffers(d, s) /\ drives[d].cache[s] # Fill /\ drives[d].path \notin shared => drives[d].dirty
=============================================================================

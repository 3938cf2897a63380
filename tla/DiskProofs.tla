----------------------------- MODULE DiskProofs -----------------------------
(***************************************************************************)
(* For any drives, image files, image size and SD faults: the next flush    *)
(* saves every sector that differs from the card, a flush writes nothing    *)
(* but what the CoCo wrote, and an eject loses nothing the card would take; *)
(* and whatever the CPU asks of the controller in between, it interrupts    *)
(* once for each command, never leaves the CPU halted, and a sector write   *)
(* it reports as good is in the cache, to be saved.  And for a file of any  *)
(* size the geometry found for it lies inside the file.                     *)
(***************************************************************************)
EXTENDS DiskSafety, Fdc, DiskGeometry, ModTheorems, TLAPS

\* The parts of DiskTypeOK that speak of one drive.
Whole(img) ==
  /\ img.mounted <=> img.cache # NoCache
  /\ img.mounted => img.cache_size = NSEC /\ img.path \in File
  /\ img.dirty => img.mounted

\* DiskTypeOK drive by drive.
LEMMA TypeParts ==
  DiskTypeOK <=>
    /\ drives \in [Drive -> SV_DiskImage] /\ \A d \in Drive : Whole(drives[d])
    /\ files \in [File -> Image]
    /\ torn \subseteq Drive /\ shared \subseteq File /\ nomap \in BOOLEAN
    /\ lost \in {"no", "sd_was_fine", "sd_failed"}
  BY DEF DiskTypeOK, Whole

-----------------------------------------------------------------------------
\* A flush changes the sectors it saves, of the one image, and nothing else.
LEMMA FlushedFile ==
  ASSUME DiskTypeOK, NEW d \in Drive, NEW opens \in BOOLEAN, NEW saved
  PROVE  /\ FlushTo(drives[d], opens, saved) \in [File -> Image]
         /\ \A f \in File, s \in Sector :
              FlushTo(drives[d], opens, saved)[f][s] =
                IF MustFlush(drives[d]) /\ opens /\ f = drives[d].path /\ s \in saved
                THEN drives[d].cache[s] ELSE files[f][s]
<1> DEFINE img == drives[d]
           saving == [s \in Sector |-> IF s \in saved THEN img.cache[s] ELSE files[img.path][s]]
<1>1. /\ img \in SV_DiskImage /\ Whole(img) /\ files \in [File -> Image]
  BY TypeParts
<1>2. CASE ~(MustFlush(img) /\ opens)
  BY <1>1, <1>2 DEF FlushTo
<1>3. CASE MustFlush(img) /\ opens
  <2>1. img.path \in File /\ img.cache \in [Sector -> Val]
    BY <1>1, <1>3 DEF MustFlush, Whole, SV_DiskImage, Image
  <2>2. files[img.path] \in [Sector -> Val]
    BY <1>1, <2>1 DEF Image
  <2>3. saving \in Image
    BY <2>1, <2>2 DEF Image
  <2>4. FlushTo(img, opens, saved) = [files EXCEPT ![img.path] = saving]
    BY <1>1, <1>3, <2>1 DEF FlushTo
  <2>5. \A s \in Sector : saving[s] = IF s \in saved THEN img.cache[s] ELSE files[img.path][s]
    OBVIOUS
  <2> HIDE DEF saving
  <2> QED
    BY <1>1, <1>3, <2>1, <2>3, <2>4, <2>5
<1> QED
  BY <1>2, <1>3

\* Sector s of file f is one the flush of drive d saves.
Reaches(d, opens, saved, f, s) ==
  MustFlush(drives[d]) /\ opens /\ f = drives[d].path /\ s \in saved

\* The same, sector by sector.
LEMMA FlushedSector ==
  ASSUME DiskTypeOK, NEW d \in Drive, NEW opens \in BOOLEAN, NEW saved, NEW f \in File, NEW s \in Sector
  PROVE  /\ Reaches(d, opens, saved, f, s) => FlushTo(drives[d], opens, saved)[f][s] = drives[d].cache[s]
         /\ ~Reaches(d, opens, saved, f, s) => FlushTo(drives[d], opens, saved)[f][s] = files[f][s]
<1>1. FlushTo(drives[d], opens, saved)[f][s] =
        IF MustFlush(drives[d]) /\ opens /\ f = drives[d].path /\ s \in saved
        THEN drives[d].cache[s] ELSE files[f][s]
  BY FlushedFile
<1> QED
  BY <1>1 DEF Reaches

\* A flush of one drive does not disturb the image of another, unless the two share it.
LEMMA OtherUntouched ==
  ASSUME DiskTypeOK, SharedKnown, NEW d \in Drive, NEW e \in Drive, d # e,
         drives[e].mounted, drives[e].path \notin shared,
         NEW opens \in BOOLEAN, NEW saved, NEW s \in Sector
  PROVE  FlushTo(drives[d], opens, saved)[drives[e].path][s] = files[drives[e].path][s]
<1>1. drives[e].path \in File
  BY TypeParts DEF Whole
<1>2. ~Reaches(d, opens, saved, drives[e].path, s)
  BY DEF Reaches, MustFlush, SharedKnown
<1> QED
  BY <1>1, <1>2, FlushedSector, SMT

\* With dirty maps a flush puts no zero fill on the card.
LEMMA NoFillFlushed ==
  ASSUME DiskIInv, ~nomap, NEW d \in Drive, NEW opens \in BOOLEAN, NEW saved, Saves(drives[d], saved)
  PROVE  \A f \in File, s \in Sector : FlushTo(drives[d], opens, saved)[f][s] # Fill
<1> SUFFICES ASSUME NEW f \in File, NEW s \in Sector
             PROVE  FlushTo(drives[d], opens, saved)[f][s] # Fill
  OBVIOUS
<1>1. files[f][s] # Fill
  BY DEF DiskIInv, DiskInv, ZeroesStayInCache
<1>2. Reaches(d, opens, saved, f, s) => drives[d].cache[s] # Fill
  BY DEF Reaches, MustFlush, Saves, FlushSet, DiskIInv, MarkedWritten
<1> QED
  BY <1>1, <1>2, FlushedSector, SMT DEF DiskIInv, DiskInv

\* A flush that saves all it should leaves no sector of an unshared image behind.
LEMMA AllSaved ==
  ASSUME DiskIInv, NEW d \in Drive, d \notin torn, MustFlush(drives[d]),
         drives[d].path \notin shared, NEW s \in Sector
  PROVE  FlushTo(drives[d], TRUE, FlushSet(drives[d]))[drives[d].path][s] = drives[d].cache[s]
<1>1. drives[d].mounted /\ drives[d].path \in File
  BY TypeParts DEF MustFlush, Whole, DiskIInv, DiskInv
<1>2. s \notin FlushSet(drives[d]) => drives[d].cache[s] = files[drives[d].path][s]
  BY <1>1 DEF DiskIInv, DiskInv, DirtyCovers, CacheDiffers, Covered, FlushSet
<1>3. Reaches(d, TRUE, FlushSet(drives[d]), drives[d].path, s) <=> s \in FlushSet(drives[d])
  BY DEF Reaches
<1> QED
  BY <1>1, <1>2, <1>3, FlushedSector, Zenon DEF DiskIInv, DiskInv

\* So an eject that loses something was refused by the card, or its image was torn
\* or shared before.
LEMMA LostOnFault ==
  ASSUME DiskIInv, NEW d \in Drive, NEW opens \in BOOLEAN, NEW saved
  PROVE  LostBy(d, opens, saved) \in {"no", "sd_failed"}
<1>1. lost \in {"no", "sd_failed"}
  BY TypeParts DEF DiskIInv, DiskInv, NothingLostQuietly
<1>2. ASSUME opens, saved = FlushSet(drives[d]), d \notin torn, drives[d].path \notin shared
      PROVE  ~Unsaved(drives[d], EjectFiles(drives[d], opens, saved))
  BY <1>2, AllSaved DEF Unsaved, EjectFiles
<1> QED
  BY <1>1, <1>2 DEF LostBy

-----------------------------------------------------------------------------
\* A step that replaces one drive's image and flushes that drive, wholly, partly or
\* not at all, keeps the invariant if the new image keeps its own part of it.
LEMMA OneDrive ==
  ASSUME DiskIInv,
         NEW d \in Drive, NEW opens \in BOOLEAN, NEW saved, Saves(drives[d], saved),
         files' = FlushTo(drives[d], opens, saved),
         NEW img \in SV_DiskImage, Whole(img), drives' = [drives EXCEPT ![d] = img],
         torn \ {d} \subseteq torn', torn' \subseteq Drive,
         shared \subseteq shared', shared' \subseteq File,
         nomap => nomap', nomap' \in BOOLEAN,
         lost' \in {"no", "sd_failed"},
         img.mounted /\ d \notin torn' /\ img.path \notin shared' =>
           \A s \in Sector : img.cache[s] # files'[img.path][s] =>
             img.dirty /\ (img.dirty_map = NoMap \/ s \in img.dirty_map),
         img.mounted =>
           \A e \in Drive \ {d} : drives[e].mounted /\ drives[e].path = img.path => img.path \in shared',
         ~nomap' /\ img.mounted =>
           img.dirty_map # NoMap /\ \A s \in img.dirty_map : img.cache[s] # Fill
  PROVE  DiskIInv'
<1>0. /\ DiskTypeOK /\ SharedKnown /\ MarkedWritten /\ DirtyCovers /\ ZeroesStayInCache
      /\ drives \in [Drive -> SV_DiskImage]
  BY TypeParts DEF DiskIInv, DiskInv
<1>1. drives'[d] = img /\ \A e \in Drive \ {d} : drives'[e] = drives[e]
  BY <1>0
<1>2. DiskTypeOK'
  <2>1. drives' \in [Drive -> SV_DiskImage] /\ \A e \in Drive : Whole(drives'[e])
    BY <1>0, <1>1, TypeParts
  <2>2. files' \in [File -> Image]
    BY <1>0, FlushedFile
  <2> QED
    BY <2>1, <2>2 DEF DiskTypeOK, Whole
<1>3. DirtyCovers'
  <2> SUFFICES ASSUME NEW e \in Drive, e \notin torn', NEW s \in Sector, drives'[e].mounted,
                      drives'[e].cache[s] # files'[drives'[e].path][s],
                      drives'[e].path \notin shared'
               PROVE  drives'[e].dirty /\
                        (drives'[e].dirty_map = NoMap \/ s \in drives'[e].dirty_map)
    BY DEF DirtyCovers, CacheDiffers, Covered
  <2>1. CASE e = d
    BY <2>1, <1>1
  <2>2. CASE e # d
    <3>1. drives'[e] = drives[e] /\ drives[e].path \notin shared /\ e \notin torn
      BY <1>1, <2>2
    <3>2. files'[drives[e].path][s] = files[drives[e].path][s]
      BY <1>0, <2>2, <3>1, OtherUntouched
    <3> QED
      BY <1>0, <3>1, <3>2 DEF DirtyCovers, CacheDiffers, Covered
  <2> QED
    BY <2>1, <2>2
<1>4. ZeroesStayInCache'
  BY NoFillFlushed DEF ZeroesStayInCache
<1>5. SharedKnown'
  <2> SUFFICES ASSUME NEW e \in Drive, NEW g \in Drive, e # g,
                      drives'[e].mounted, drives'[g].mounted, drives'[e].path = drives'[g].path
               PROVE  drives'[e].path \in shared'
    BY DEF SharedKnown
  <2>1. CASE e # d /\ g # d
    BY <2>1, <1>0, <1>1 DEF SharedKnown
  <2>2. CASE e = d \/ g = d
    BY <2>2, <1>1
  <2> QED
    BY <2>1, <2>2
<1>6. MarkedWritten'
  BY <1>0, <1>1 DEF MarkedWritten
<1>7. NothingLostQuietly'
  BY DEF NothingLostQuietly
<1> QED
  BY <1>2, <1>3, <1>4, <1>5, <1>6, <1>7 DEF DiskIInv, DiskInv

-----------------------------------------------------------------------------
\* A sector the controller stores is marked.
LEMMA WriteKeeps ==
  ASSUME DiskIInv, NEW d \in Drive, NEW s \in Sector, NEW v \in Val \ {Fill}, WriteSector(d, s, v)
  PROVE  DiskIInv'
<1> DEFINE old == drives[d]
           img == Written(old, s, v)
<1>1. /\ old \in SV_DiskImage /\ Whole(old) /\ drives \in [Drive -> SV_DiskImage]
      /\ torn \subseteq Drive /\ shared \subseteq File /\ nomap \in BOOLEAN
  BY TypeParts DEF DiskIInv, DiskInv
<1>2. /\ old.mounted /\ old.cache \in [Sector -> Val] /\ drives' = [drives EXCEPT ![d] = img]
      /\ UNCHANGED <<files, torn, shared, nomap, lost>>
  BY <1>1 DEF WriteSector, StoreSector, Whole, SV_DiskImage, Image
<1>3. /\ img.cache = [old.cache EXCEPT ![s] = v]
      /\ img.dirty_map = IF old.dirty_map = NoMap THEN NoMap ELSE old.dirty_map \cup {s}
      /\ img.dirty /\ img.mounted = old.mounted /\ img.path = old.path
      /\ img.cache_size = old.cache_size /\ img.read_only = old.read_only
  BY <1>1 DEF Written, SV_DiskImage
<1>4. img.cache \in Image
  BY <1>2, <1>3 DEF Image
<1>5. img \in SV_DiskImage
  <2>1. img.dirty_map \in {NoMap} \cup SUBSET Sector
    BY <1>1, <1>3 DEF SV_DiskImage
  <2>2. img = [old EXCEPT !.cache = img.cache, !.dirty = TRUE, !.dirty_map = img.dirty_map]
    BY <1>1, <1>3 DEF Written, SV_DiskImage
  <2> HIDE DEF img
  <2> QED
    BY <1>1, <1>4, <2>1, <2>2 DEF SV_DiskImage
<1>6. Whole(img)
  BY <1>1, <1>2, <1>3, <1>4, NoneAssumption DEF Whole
<1>7. \A t \in Sector : img.cache[t] # files[img.path][t] =>
        img.dirty_map = NoMap \/ t \in img.dirty_map \/ d \in torn \/ img.path \in shared
  <2> SUFFICES ASSUME NEW t \in Sector, t # s, img.cache[t] # files[img.path][t],
                      d \notin torn, img.path \notin shared
               PROVE  img.dirty_map = NoMap \/ t \in img.dirty_map
    BY <1>3
  <2>1. old.cache[t] # files[old.path][t]
    BY <1>2, <1>3
  <2> QED
    BY <1>2, <1>3, <2>1 DEF DiskIInv, DiskInv, DirtyCovers, CacheDiffers, Covered
<1>8. ~nomap => img.dirty_map # NoMap /\ \A t \in img.dirty_map : img.cache[t] # Fill
  <2>1. ~nomap => old.dirty_map # NoMap /\ \A t \in old.dirty_map : old.cache[t] # Fill
    BY <1>2 DEF DiskIInv, MarkedWritten
  <2>2. old.dirty_map # NoMap => old.dirty_map \subseteq Sector
    BY <1>1 DEF SV_DiskImage
  <2>3. \A t \in Sector : img.cache[t] = IF t = s THEN v ELSE old.cache[t]
    BY <1>2, <1>3
  <2>4. ASSUME ~nomap
        PROVE  img.dirty_map = old.dirty_map \cup {s} /\ img.dirty_map # NoMap
    <3>1. img.dirty_map = old.dirty_map \cup {s} /\ img.dirty_map \in SUBSET Sector
      BY <1>3, <2>1, <2>2, <2>4
    <3> QED
      BY <3>1, NoneAssumption
  <2> QED
    BY <2>1, <2>2, <2>3, <2>4
<1>9. \A e \in Drive \ {d} : drives[e].mounted /\ drives[e].path = img.path => img.path \in shared
  BY <1>2, <1>3 DEF DiskIInv, SharedKnown
<1>10. files' = FlushTo(old, FALSE, {}) /\ Saves(old, {})
  BY <1>2 DEF FlushTo, Saves
<1>11. lost' \in {"no", "sd_failed"}
  BY <1>2, TypeParts DEF DiskIInv, DiskInv, NothingLostQuietly
<1> HIDE DEF img
<1> QED
  BY <1>1, <1>2, <1>3, <1>5, <1>6, <1>7, <1>8, <1>9, <1>10, <1>11, OneDrive

\* A flush leaves nothing unmarked, or is known to have stalled.
LEMMA FlushKeeps ==
  ASSUME DiskIInv, NEW d \in Drive, NEW opens \in BOOLEAN, NEW saved, FlushDrive(d, opens, saved)
  PROVE  DiskIInv'
<1> DEFINE old == drives[d]
           img == Flushed(old, opens)
<1>1. /\ old \in SV_DiskImage /\ Whole(old) /\ drives \in [Drive -> SV_DiskImage]
      /\ torn \subseteq Drive /\ shared \subseteq File /\ nomap \in BOOLEAN
  BY TypeParts DEF DiskIInv, DiskInv
<1>2. /\ Saves(old, saved) /\ files' = FlushTo(old, opens, saved)
      /\ drives' = [drives EXCEPT ![d] = img] /\ UNCHANGED <<shared, nomap, lost>>
  BY <1>1 DEF FlushDrive, Flush
<1>3. torn' = IF MustFlush(old) /\ opens /\ saved # FlushSet(old) THEN torn \cup {d} ELSE torn
  BY DEF FlushDrive
<1>4. CASE ~(MustFlush(old) /\ opens)
  <2>1. files' = files /\ torn' = torn /\ drives' = [drives EXCEPT ![d] = old]
    BY <1>2, <1>3, <1>4 DEF FlushTo, Flushed
  <2>2. drives' = drives
    BY <1>1, <2>1
  <2> QED
    BY <1>2, <2>1, <2>2
       DEF DiskIInv, DiskInv, DiskTypeOK, DirtyCovers, CacheDiffers, Covered, ZeroesStayInCache,
           NothingLostQuietly, SharedKnown, MarkedWritten
<1>5. CASE MustFlush(old) /\ opens
  <2>1. /\ old.mounted /\ img.mounted /\ img.cache = old.cache /\ img.path = old.path
        /\ img.dirty_map = IF old.dirty_map = NoMap THEN NoMap ELSE {}
    BY <1>1, <1>5 DEF Flushed, MustFlush, SV_DiskImage
  <2>2. img \in SV_DiskImage /\ Whole(img)
    BY <1>1, <1>5 DEF Flushed, MustFlush, Whole, SV_DiskImage
  <2>3. d \notin torn' => d \notin torn /\ saved = FlushSet(old)
    BY <1>3, <1>5
  <2>4. d \notin torn' /\ img.path \notin shared' =>
          \A s \in Sector : img.cache[s] = files'[img.path][s]
    <3>1. opens = TRUE
      BY <1>5
    <3>2. d \notin torn' => files' = FlushTo(old, TRUE, FlushSet(old))
      BY <1>2, <2>3, <3>1
    <3> HIDE DEF img
    <3> SUFFICES ASSUME d \notin torn', img.path \notin shared', NEW s \in Sector
                 PROVE  img.cache[s] = files'[img.path][s]
      OBVIOUS
    <3>3. FlushTo(old, TRUE, FlushSet(old))[old.path][s] = old.cache[s]
      BY <1>2, <1>5, <2>1, <2>3, AllSaved
    <3> QED
      BY <2>1, <3>2, <3>3
  <2>5. ~nomap' => img.dirty_map # NoMap /\ \A s \in img.dirty_map : img.cache[s] # Fill
    BY <1>2, <2>1, NoneAssumption DEF DiskIInv, MarkedWritten
  <2>6. \A e \in Drive \ {d} : drives[e].mounted /\ drives[e].path = img.path => img.path \in shared'
    BY <1>2, <2>1 DEF DiskIInv, SharedKnown
  <2>7. lost' \in {"no", "sd_failed"}
    BY <1>2, TypeParts DEF DiskIInv, DiskInv, NothingLostQuietly
  <2>8. torn \ {d} \subseteq torn' /\ torn' \subseteq Drive
    BY <1>1, <1>3
  <2> HIDE DEF img
  <2> QED
    BY <1>1, <1>2, <2>2, <2>4, <2>5, <2>6, <2>7, <2>8, OneDrive
<1> QED
  BY <1>4, <1>5

\* What eject leaves behind is an empty drive.
LEMMA LeftEmpty ==
  ASSUME NEW img \in SV_DiskImage, Whole(img)
  PROVE  /\ Left(img) \in SV_DiskImage /\ Whole(Left(img))
         /\ ~Left(img).mounted /\ ~Left(img).dirty /\ Left(img).cache = NoCache
<1>1. EmptyDrive \in SV_DiskImage
  BY DEF EmptyDrive, SV_DiskImage
<1>2. Ejected(img) \in SV_DiskImage
  BY <1>1 DEF Ejected, EmptyDrive, SV_DiskImage
<1>3. ~Ejected(img).mounted /\ ~Ejected(img).dirty /\ Ejected(img).cache = NoCache
  BY DEF Ejected, EmptyDrive
<1> QED
  BY <1>2, <1>3 DEF Left, Whole

\* A step that leaves the drive empty keeps the invariant.
LEMMA EmptyKeeps ==
  ASSUME DiskIInv, NEW d \in Drive, NEW opens \in BOOLEAN, NEW saved,
         Leave(d, opens, saved), lost' = LostBy(d, opens, saved),
         torn' = torn \ {d}, UNCHANGED <<shared, nomap>>,
         NEW img \in SV_DiskImage, Whole(img), ~img.mounted, drives' = [drives EXCEPT ![d] = img]
  PROVE  DiskIInv'
<1>1. torn \subseteq Drive /\ shared \subseteq File /\ nomap \in BOOLEAN
  BY TypeParts DEF DiskIInv, DiskInv
<1>2. Saves(drives[d], saved) /\ files' = FlushTo(drives[d], opens, saved)
  BY DEF Leave, EjectFiles
<1>3. lost' \in {"no", "sd_failed"}
  BY LostOnFault
<1> QED
  BY <1>1, <1>2, <1>3, OneDrive

\* So do ejecting a drive and a mount that fails after it.
LEMMA EjectKeeps ==
  ASSUME DiskIInv, NEW d \in Drive, NEW opens \in BOOLEAN, NEW saved,
         \/ EjectDrive(d, opens, saved)
         \/ \E f \in File, why \in MountFault : MountDriveFails(d, f, why, opens, saved)
  PROVE  DiskIInv'
<1> DEFINE old == drives[d]
<1>1. old \in SV_DiskImage /\ Whole(old) /\ drives \in [Drive -> SV_DiskImage]
  BY TypeParts DEF DiskIInv, DiskInv
<1>2. /\ Leave(d, opens, saved) /\ lost' = LostBy(d, opens, saved)
      /\ torn' = torn \ {d} /\ UNCHANGED <<shared, nomap>>
  BY DEF EjectDrive, Eject, MountDriveFails, MountFails
<1>3. Left(old) \in SV_DiskImage /\ Whole(Left(old)) /\ ~Left(old).mounted
      /\ ~Left(old).dirty /\ Left(old).cache = NoCache
  BY <1>1, LeftEmpty
<1>4. \E img \in SV_DiskImage :
        Whole(img) /\ ~img.mounted /\ drives' = [drives EXCEPT ![d] = img]
  <2>1. CASE EjectDrive(d, opens, saved)
    BY <1>3, <2>1 DEF EjectDrive, Eject
  <2>2. ASSUME NEW f \in File, NEW why \in MountFault, MountDriveFails(d, f, why, opens, saved)
        PROVE  \E img \in SV_DiskImage :
                  Whole(img) /\ ~img.mounted /\ drives' = [drives EXCEPT ![d] = img]
    <3> DEFINE reset == [Left(old) EXCEPT !.path = f, !.read_only = FALSE, !.dirty = FALSE]
               sized == [Left(old) EXCEPT !.path = f, !.read_only = FALSE, !.dirty = FALSE,
                                          !.cache_size = NSEC]
    <3>1. reset \in SV_DiskImage /\ Whole(reset) /\ ~reset.mounted
      BY <1>3 DEF SV_DiskImage, Whole
    <3>2. sized \in SV_DiskImage /\ Whole(sized) /\ ~sized.mounted
      BY <1>3 DEF SV_DiskImage, Whole
    <3>3. \/ drives' = [drives EXCEPT ![d] = Left(old)]
          \/ drives' = [drives EXCEPT ![d] = reset]
          \/ drives' = [drives EXCEPT ![d] = sized]
      BY <2>2 DEF MountDriveFails, MountFails, MountFault
    <3> HIDE DEF reset, sized
    <3> QED
      BY <1>3, <3>1, <3>2, <3>3
  <2> QED
    BY <2>1, <2>2
<1> QED
  BY <1>2, <1>4, EmptyKeeps

\* A mounted image is what the card holds, or known to have been cut short.
LEMMA MountKeeps ==
  ASSUME DiskIInv, NEW d \in Drive, NEW opens \in BOOLEAN, NEW saved,
         NEW f \in File, NEW upto \in 0 .. NSEC, NEW map \in BOOLEAN, NEW ro \in BOOLEAN,
         MountDrive(d, f, upto, map, ro, opens, saved)
  PROVE  DiskIInv'
<1> DEFINE old == drives[d]
           loaded == [s \in Sector |-> IF s < upto THEN files'[f][s] ELSE Fill]
           img == [mounted |-> TRUE, dirty |-> FALSE, read_only |-> ro, path |-> f,
                   cache |-> loaded, cache_size |-> NSEC, dirty_map |-> IF map THEN {} ELSE NoMap]
<1>1. /\ drives \in [Drive -> SV_DiskImage] /\ torn \subseteq Drive /\ shared \subseteq File
      /\ nomap \in BOOLEAN
  BY TypeParts DEF DiskIInv, DiskInv
<1>2. /\ Leave(d, opens, saved) /\ lost' = LostBy(d, opens, saved)
      /\ drives' = [drives EXCEPT ![d] = img]
  BY DEF MountDrive, Mount
<1>3. /\ torn' = IF upto < NSEC THEN torn \cup {d} ELSE torn \ {d}
      /\ shared' = IF \E e \in Drive \ {d} : drives[e].mounted /\ drives[e].path = f
                   THEN shared \cup {f} ELSE shared
      /\ nomap' = (nomap \/ ~map)
  BY DEF MountDrive
<1>4. Saves(old, saved) /\ files' = FlushTo(old, opens, saved)
  BY <1>2 DEF Leave, EjectFiles
<1>5. lost' \in {"no", "sd_failed"}
  BY <1>2, LostOnFault
<1>6. files' \in [File -> Image]
  BY <1>4, FlushedFile DEF DiskIInv, DiskInv
<1>7. loaded \in Image
  BY <1>6, DiskAssumption DEF Image
<1>8. d \notin torn' => \A s \in Sector : loaded[s] = files'[f][s]
  <2>1. d \notin torn' => upto = NSEC
    BY <1>3, DiskAssumption
  <2>2. \A s \in Sector : s < NSEC
    BY DiskAssumption DEF Sector
  <2> QED
    BY <2>1, <2>2
<1> HIDE DEF loaded
<1>9. img \in SV_DiskImage /\ Whole(img)
  BY <1>7, NoneAssumption DEF SV_DiskImage, Whole
<1>10. img.mounted /\ img.path = f /\ img.cache = loaded
       /\ img.dirty_map = IF map THEN {} ELSE NoMap
  OBVIOUS
<1> HIDE DEF img
<1>11. ~nomap' => img.dirty_map # NoMap /\ \A s \in img.dirty_map : img.cache[s] # Fill
  BY <1>3, <1>10, NoneAssumption
<1>12. \A e \in Drive \ {d} : drives[e].mounted /\ drives[e].path = img.path => img.path \in shared'
  BY <1>3, <1>10
<1>13. torn \ {d} \subseteq torn' /\ torn' \subseteq Drive /\ shared \subseteq shared'
       /\ shared' \subseteq File /\ (nomap => nomap') /\ nomap' \in BOOLEAN
  BY <1>1, <1>3
<1> QED
  BY <1>2, <1>4, <1>5, <1>8, <1>9, <1>10, <1>11, <1>12, <1>13, OneDrive

-----------------------------------------------------------------------------
\* What a faulty card or allocator may choose is of the expected kinds.
LEMMA Choices ==
  Opens \subseteq BOOLEAN /\ Load \subseteq 0 .. NSEC /\ Map \subseteq BOOLEAN /\ ReadOnly \subseteq BOOLEAN
<1>1. Opens \subseteq BOOLEAN
  BY Zenon DEF Opens
<1>2. Map \subseteq BOOLEAN
  BY Zenon DEF Map
<1>3. ReadOnly \subseteq BOOLEAN
  BY Zenon DEF ReadOnly
<1>4. Load \subseteq 0 .. NSEC
  BY DiskAssumption DEF Load
<1> QED
  BY <1>1, <1>2, <1>3, <1>4, Zenon

\* Nothing is mounted at start.
LEMMA SafetyInitInv ==
  ASSUME SafetyInit
  PROVE  DiskIInv
<1>1. EmptyDrive \in SV_DiskImage /\ Whole(EmptyDrive) /\ ~EmptyDrive.mounted
  BY DEF EmptyDrive, SV_DiskImage, Whole
<1> HIDE DEF EmptyDrive
<1>2. drives \in [Drive -> SV_DiskImage] /\ \A d \in Drive : drives[d] = EmptyDrive
  BY <1>1 DEF SafetyInit, DiskInit
<1>3. files \in [File -> Image] /\ \A f \in File, s \in Sector : files[f][s] # Fill
  BY DEF SafetyInit, DiskInit, Image
<1>4. DiskTypeOK
  BY <1>1, <1>2, <1>3, TypeParts DEF SafetyInit
<1> QED
  BY <1>1, <1>2, <1>3, <1>4
     DEF SafetyInit, DiskIInv, DiskInv, DirtyCovers, CacheDiffers, ZeroesStayInCache,
         NothingLostQuietly, SharedKnown, MarkedWritten

\* sv_disk_mount(), sv_disk_eject(), sv_disk_flush() and the controller's writes, in any
\* order, with any of the SD card's and the allocators' faults: what differs from
\* the card is marked, no zero fill is saved, and no eject loses what the card would take.
THEOREM DiskCorrect == SafetySpec => []DiskInv
<1>1. SafetyInit => DiskIInv
  BY SafetyInitInv
<1>2. DiskIInv /\ [SafetyNext]_safetyVars => DiskIInv'
  <2> SUFFICES ASSUME DiskIInv, [SafetyNext]_safetyVars
               PROVE  DiskIInv'
    OBVIOUS
  <2>1. ASSUME NEW d \in Drive, NEW s \in Sector, NEW v \in Val \ {Fill}, WriteSector(d, s, v)
        PROVE  DiskIInv'
    BY <2>1, WriteKeeps
  <2>2. ASSUME NEW d \in Drive, NEW opens \in Opens, NEW saved \in Saved(drives[d]),
               FlushDrive(d, opens, saved)
        PROVE  DiskIInv'
    BY <2>2, Choices, FlushKeeps
  <2>3. ASSUME NEW d \in Drive, NEW opens \in Opens, NEW saved \in Saved(drives[d]),
               \/ EjectDrive(d, opens, saved)
               \/ \E f \in File, why \in MountFault : MountDriveFails(d, f, why, opens, saved)
        PROVE  DiskIInv'
    BY <2>3, Choices, EjectKeeps
  <2>4. ASSUME NEW d \in Drive, NEW opens \in Opens, NEW saved \in Saved(drives[d]), NEW f \in File,
               NEW upto \in Load, NEW map \in Map, NEW ro \in ReadOnly,
               MountDrive(d, f, upto, map, ro, opens, saved)
        PROVE  DiskIInv'
    BY <2>4, Choices, MountKeeps
  <2>5. CASE UNCHANGED safetyVars
    BY <2>5 DEF safetyVars, diskVars, DiskIInv, DiskInv, DiskTypeOK, DirtyCovers, CacheDiffers, Covered,
                ZeroesStayInCache, NothingLostQuietly, SharedKnown, MarkedWritten
  <2> QED
    BY <2>1, <2>2, <2>3, <2>4, <2>5 DEF SafetyNext
<1>3. DiskIInv => DiskInv
  BY DEF DiskIInv
<1> QED
  BY <1>1, <1>2, <1>3, PTL DEF SafetySpec

-----------------------------------------------------------------------------
(* The controller.                                                          *)

\* The buffer positions are in range and the CPU runs.
Ranged(f) ==
  /\ f \in SV_DiskController /\ ~f.halted
  /\ f.buf_pos <= f.buf_len
  /\ f.wt_state = "data" => f.wt_data_pos < BUF
  /\ f.wt_state = "id" => f.wt_id_pos <= 3

\* No transfer is in progress and no interrupt deferred.
Quiet(f) == ~f.reading /\ ~f.read_pending /\ ~f.writing /\ ~f.write_track /\ f.intrq_defer = 0

\* What FdcIInv says of the controller, the caches aside.
Steady(f) ==
  /\ Ranged(f)
  /\ f.nmi = (f.intrq /\ ~f.density)
  /\ "BUSY" \in f.status <=> f.busy
  /\ f.busy <=> (f.reading \/ f.writing \/ f.write_track)
  /\ f.busy => f.drq /\ f.intrq_defer = 0
  /\ ~(f.reading /\ f.writing) /\ ~(f.write_track /\ (f.reading \/ f.writing))
  /\ f.owed <=> (f.busy \/ f.intrq_defer > 0)
  /\ f.reading \/ f.writing => f.buf_len = BUF /\ f.buf_pos < BUF
  /\ f.read_pending => f.reading

\* The cache a transfer needs is there, as long as nobody changed the drive.
HasCache(f) ==
  f.stable /\ (f.read_pending \/ f.writing \/ f.write_track) => Disk(f).mounted /\ Disk(f).cache # NoCache

\* What the inductive invariant says of the controller, of its transfer's cache and of
\* the drive table.
LEMMA InvParts == FdcIInv <=> Steady(fdc) /\ HasCache(fdc) /\ CachesWhole
  BY Zenon DEF FdcIInv, FdcInv, FdcTypeOK, LinesAgree, NmiFollows, BusyAgrees, TransferHasCache, NeverHalted,
            InterruptsOnce, TransferHasRoom, Steady, Ranged, HasCache

\* The five fields SetIntrq changes.
LEMMA LinesType ==
  ASSUME NEW f \in SV_DiskController, NEW a \in BOOLEAN, NEW b \in BOOLEAN, NEW c \in BOOLEAN,
         NEW d \in BOOLEAN, NEW e \in BOOLEAN
  PROVE  [f EXCEPT !.intrq = a, !.halt_enable = b, !.halted = c, !.nmi = d, !.owed = e]
           \in SV_DiskController
  BY DEF SV_DiskController

\* set_intrq() with the interrupt line, HALT and NMI it drives.
LEMMA Intrq ==
  ASSUME NEW f \in SV_DiskController, NEW v \in BOOLEAN
  PROVE  LET g == SetIntrq(f, v) IN
         /\ g \in SV_DiskController
         /\ g.intrq = v /\ g.nmi = (v /\ ~f.density) /\ g.owed = (f.owed /\ ~v)
         /\ ~f.halted => ~g.halted
         /\ \A k \in {"status", "track", "sector", "data", "drive_select", "density", "busy", "drq",
                      "intrq_defer", "sector_buf", "buf_pos", "buf_len", "reading", "read_pending",
                      "writing", "write_track", "wt_state", "wt_id_pos", "wt_data_pos", "stable"} :
              g[k] = f[k]
<1>1. f.density \in BOOLEAN /\ f.owed \in BOOLEAN /\ f.halted \in BOOLEAN /\ f.halt_enable \in BOOLEAN
  BY DEF SV_DiskController
<1>2. /\ (f.halt_enable /\ ~v) \in BOOLEAN /\ (f.halted /\ ~v) \in BOOLEAN
      /\ (v /\ ~f.density) \in BOOLEAN /\ (f.owed /\ ~v) \in BOOLEAN
  OBVIOUS
<1>3. SetIntrq(f, v) \in SV_DiskController
  BY <1>1, <1>2, LinesType, Zenon DEF SetIntrq
<1>4. /\ SetIntrq(f, v).intrq = v /\ SetIntrq(f, v).nmi = (v /\ ~f.density)
      /\ SetIntrq(f, v).owed = (f.owed /\ ~v) /\ (~f.halted => ~SetIntrq(f, v).halted)
  BY DEF SetIntrq, SV_DiskController
<1>5. \A k \in {"status", "track", "sector", "data", "drive_select", "density", "busy", "drq",
                "intrq_defer", "sector_buf", "buf_pos", "buf_len", "reading", "read_pending",
                "writing", "write_track", "wt_state", "wt_id_pos", "wt_data_pos", "stable"} :
        SetIntrq(f, v)[k] = f[k]
  BY ZenonT(30) DEF SetIntrq, SV_DiskController
<1> QED
  BY <1>3, <1>4, <1>5, Zenon

\* A command that ends with its interrupt.
LEMMA Finished ==
  ASSUME NEW f, Ranged(f), Quiet(f), NEW st \in SUBSET (Flags \ {"BUSY"})
  PROVE  /\ Steady(Finish(f, st)) /\ Quiet(Finish(f, st))
         /\ Finish(f, st).buf_pos = f.buf_pos /\ Finish(f, st).sector_buf = f.sector_buf
         /\ Finish(f, st).status = st
<1> DEFINE g == [f EXCEPT !.busy = FALSE, !.status = st]
           h == SetIntrq(g, TRUE)
<1>1. g \in SV_DiskController
  BY DEF Ranged, SV_DiskController
<1>2. /\ Ranged(g) /\ Quiet(g) /\ ~g.busy /\ g.status = st
      /\ g.buf_pos = f.buf_pos /\ g.sector_buf = f.sector_buf
  BY <1>1 DEF Ranged, Quiet, SV_DiskController
<1> HIDE DEF g
<1>3. /\ h \in SV_DiskController /\ ~h.halted /\ h.intrq = TRUE /\ h.nmi = (TRUE /\ ~g.density)
      /\ h.owed = (g.owed /\ ~TRUE)
  BY <1>1, <1>2, Intrq, Zenon DEF Ranged
<1>4. /\ h.status = g.status /\ h.density = g.density /\ h.busy = g.busy
      /\ h.intrq_defer = g.intrq_defer /\ h.sector_buf = g.sector_buf /\ h.buf_pos = g.buf_pos
      /\ h.buf_len = g.buf_len /\ h.reading = g.reading /\ h.read_pending = g.read_pending
      /\ h.writing = g.writing /\ h.write_track = g.write_track /\ h.wt_state = g.wt_state
      /\ h.wt_id_pos = g.wt_id_pos /\ h.wt_data_pos = g.wt_data_pos
  BY <1>1, Intrq
<1> HIDE DEF h
<1>5. Ranged(h) /\ Quiet(h)
  BY <1>2, <1>3, <1>4, Zenon DEF Ranged, Quiet
<1>6. ~(h.intrq_defer > 0)
  BY <1>5 DEF Quiet
<1>7. Steady(h)
  BY <1>2, <1>3, <1>4, <1>5, <1>6, Zenon DEF Steady, Quiet
<1>8. Finish(f, st) = h
  BY DEF Finish, g, h
<1> QED
  BY <1>2, <1>4, <1>5, <1>7, <1>8, Zenon

\* The record after the first lines of fdc_execute_command().
Started(f) ==
  /\ Ranged(f) /\ Quiet(f)
  /\ f.busy /\ f.status = {"BUSY"} /\ f.owed /\ f.nmi = (f.intrq /\ ~f.density)

\* What every command clears first keeps its type.
LEMMA CancelledType ==
  ASSUME NEW f \in SV_DiskController
  PROVE  Cancelled(f) \in SV_DiskController
<1>1. \A n \in 0 .. 5 :
        [f EXCEPT !.reading = FALSE, !.read_pending = FALSE, !.writing = FALSE, !.write_track = FALSE,
                  !.drq = FALSE, !.intrq_defer = n] \in SV_DiskController
  BY ZenonT(30) DEF SV_DiskController
<1>2. 0 \in 0 .. 5
  OBVIOUS
<1> QED
  BY <1>1, <1>2, Zenon DEF Cancelled

\* Every command starts from rest, whatever it interrupts.
LEMMA Begun ==
  ASSUME NEW f, Steady(f)
  PROVE  Started(Begin(f)) /\ Begin(f).buf_pos = f.buf_pos
<1> DEFINE g == SetIntrq(f, FALSE)
           c == Cancelled(g)
           h == [c EXCEPT !.busy = TRUE, !.status = {"BUSY"}, !.owed = TRUE, !.stable = TRUE]
<1>1. Ranged(f) /\ f \in SV_DiskController
  BY Zenon DEF Steady, Ranged
<1>2. /\ g \in SV_DiskController /\ ~g.halted /\ g.intrq = FALSE /\ g.nmi = (FALSE /\ ~f.density)
  BY <1>1, Intrq, Zenon DEF Ranged
<1>3. /\ g.buf_pos = f.buf_pos /\ g.buf_len = f.buf_len /\ g.wt_state = f.wt_state
      /\ g.wt_id_pos = f.wt_id_pos /\ g.wt_data_pos = f.wt_data_pos /\ g.density = f.density
  BY <1>1, Intrq
<1> HIDE DEF g
<1>4. Ranged(g) /\ g.nmi = (g.intrq /\ ~g.density) /\ g.buf_pos = f.buf_pos
  BY <1>1, <1>2, <1>3, Zenon DEF Ranged
<1>5. c \in SV_DiskController
  BY <1>2, CancelledType, Zenon
<1>6. Ranged(c) /\ Quiet(c) /\ c.buf_pos = f.buf_pos
  BY <1>4, <1>5 DEF Ranged, Quiet, Cancelled, SV_DiskController
<1>11. c.nmi = g.nmi /\ c.intrq = g.intrq /\ c.density = g.density
  BY <1>5 DEF Cancelled, SV_DiskController
<1> HIDE DEF c
<1>7. {"BUSY"} \in SUBSET Flags
  BY DEF Flags
<1>8. h \in SV_DiskController
  BY <1>5, <1>7 DEF SV_DiskController
<1>9. /\ Ranged(h) /\ Quiet(h) /\ h.busy /\ h.status = {"BUSY"} /\ h.owed /\ h.buf_pos = f.buf_pos
      /\ h.nmi = c.nmi /\ h.intrq = c.intrq /\ h.density = c.density
  BY <1>5, <1>6, <1>8 DEF Ranged, Quiet, SV_DiskController
<1>10. Begin(f) = h
  BY DEF Begin, c, g
<1> HIDE DEF h
<1>12. Started(h)
  BY <1>4, <1>9, <1>11, Zenon DEF Started
<1> QED
  BY <1>9, <1>10, <1>12, Zenon

\* The flags of the commands that end at once.
LEMMA Endings ==
  ASSUME NEW f
  PROVE  /\ Track0(f) \cup NotReady(f) \in SUBSET (Flags \ {"BUSY"})
         /\ {"TRACK0"} \cup NotReady(f) \in SUBSET (Flags \ {"BUSY"})
         /\ \A x \in {"NOTREADY", "PROTECT", "RNF"} : {x} \in SUBSET (Flags \ {"BUSY"})
         /\ {} \in SUBSET (Flags \ {"BUSY"})
  BY DEF Track0, NotReady, Flags

\* A transfer that is about to raise DRQ.
Underway(f) ==
  /\ Ranged(f) /\ f.busy /\ f.owed /\ f.intrq_defer = 0 /\ f.nmi = (f.intrq /\ ~f.density)
  /\ f.reading \/ f.writing \/ f.write_track
  /\ ~(f.reading /\ f.writing) /\ ~(f.write_track /\ (f.reading \/ f.writing))
  /\ f.reading \/ f.writing => f.buf_len = BUF /\ f.buf_pos < BUF
  /\ f.read_pending => f.reading

\* A transfer that starts.
LEMMA Transfers ==
  ASSUME NEW f, Underway(f)
  PROVE  /\ Steady(Transferring(f)) /\ Transferring(f).buf_pos = f.buf_pos
         /\ Transferring(f).stable = f.stable /\ Transferring(f).drive_select = f.drive_select
<1> DEFINE g == Transferring(f)
<1>1. f \in SV_DiskController
  BY Zenon DEF Ranged, Underway
<1>0. {"BUSY", "DRQ"} \in SUBSET Flags
  BY DEF Flags
<1>2. g \in SV_DiskController
  BY <1>0, <1>1 DEF Transferring, SV_DiskController
<1>3. /\ g.drq = TRUE /\ g.status = {"BUSY", "DRQ"}
      /\ g.density = f.density /\ g.busy = f.busy /\ g.nmi = f.nmi /\ g.intrq = f.intrq
      /\ g.owed = f.owed /\ g.halted = f.halted
      /\ g.intrq_defer = f.intrq_defer /\ g.sector_buf = f.sector_buf /\ g.buf_pos = f.buf_pos
      /\ g.buf_len = f.buf_len /\ g.reading = f.reading /\ g.read_pending = f.read_pending
      /\ g.writing = f.writing /\ g.write_track = f.write_track /\ g.wt_state = f.wt_state
      /\ g.wt_id_pos = f.wt_id_pos /\ g.wt_data_pos = f.wt_data_pos
      /\ g.stable = f.stable /\ g.drive_select = f.drive_select
  BY <1>1 DEF Transferring, SV_DiskController
<1> HIDE DEF g
<1>4. Ranged(g)
  BY <1>2, <1>3, Zenon DEF Ranged, Underway
<1>5. "BUSY" \in g.status /\ g.drq
  BY <1>3
<1>6. Steady(g)
  BY <1>3, <1>4, <1>5, Zenon DEF Steady, Underway
<1> QED
  BY <1>3, <1>6, Zenon DEF g

\* What a command makes of the record it starts from.
Obeys(f, g) == Steady(g) /\ HasCache(g) /\ g.buf_pos \in {f.buf_pos, 0}

\* A command that ends at once, whatever registers it set.
LEMMA EndsAtOnce ==
  ASSUME NEW f, NEW g \in SV_DiskController, Started(f), NEW st \in SUBSET (Flags \ {"BUSY"}),
         \A k \in {"halted", "buf_pos", "buf_len", "wt_state", "wt_data_pos", "wt_id_pos", "reading",
                   "read_pending", "writing", "write_track", "intrq_defer"} : g[k] = f[k]
  PROVE  Obeys(f, Finish(g, st))
<1>1. /\ g.halted = f.halted /\ g.buf_pos = f.buf_pos /\ g.buf_len = f.buf_len /\ g.wt_state = f.wt_state
      /\ g.wt_data_pos = f.wt_data_pos /\ g.wt_id_pos = f.wt_id_pos /\ g.reading = f.reading
      /\ g.read_pending = f.read_pending /\ g.writing = f.writing /\ g.write_track = f.write_track
      /\ g.intrq_defer = f.intrq_defer
  OBVIOUS
<1>2. Ranged(g) /\ Quiet(g)
  BY <1>1, Zenon DEF Started, Ranged, Quiet
<1>3. Steady(Finish(g, st)) /\ Quiet(Finish(g, st)) /\ Finish(g, st).buf_pos = f.buf_pos
  BY <1>1, <1>2, Finished, Zenon
<1> QED
  BY <1>3, Zenon DEF Obeys, HasCache, Quiet

\* RESTORE.
LEMMA RestoredObeys ==
  ASSUME NEW f, Started(f)
  PROVE  Obeys(f, Restored(f))
<1> DEFINE g == [f EXCEPT !.track = 0, !.step_direction = -1]
<1>1. f \in SV_DiskController
  BY Zenon DEF Started, Ranged
<1>2. g \in SV_DiskController
  BY <1>1 DEF SV_DiskController
<1>3. \A k \in {"halted", "buf_pos", "buf_len", "wt_state", "wt_data_pos", "wt_id_pos", "reading",
                "read_pending", "writing", "write_track", "intrq_defer"} : g[k] = f[k]
  BY <1>1 DEF SV_DiskController
<1>4. Restored(f) = Finish(g, {"TRACK0"} \cup NotReady(g))
  BY Zenon DEF Restored
<1> HIDE DEF g
<1> QED
  BY <1>2, <1>3, <1>4, Endings, EndsAtOnce, Zenon

\* SEEK.
LEMMA SoughtObeys ==
  ASSUME NEW f, Started(f)
  PROVE  Obeys(f, Sought(f))
<1> DEFINE g == [f EXCEPT !.track = f.data]
<1>1. f \in SV_DiskController
  BY Zenon DEF Started, Ranged
<1>2. g \in SV_DiskController
  BY <1>1 DEF SV_DiskController
<1>3. \A k \in {"halted", "buf_pos", "buf_len", "wt_state", "wt_data_pos", "wt_id_pos", "reading",
                "read_pending", "writing", "write_track", "intrq_defer"} : g[k] = f[k]
  BY <1>1 DEF SV_DiskController
<1>4. Sought(f) = Finish(g, Track0(g) \cup NotReady(g))
  BY Zenon DEF Sought
<1> HIDE DEF g
<1> QED
  BY <1>2, <1>3, <1>4, Endings, EndsAtOnce, Zenon

\* STEP, STEP IN and STEP OUT.
LEMMA SteppedObeys ==
  ASSUME NEW f, Started(f), NEW kind \in Steps, NEW update \in BOOLEAN
  PROVE  Obeys(f, Stepped(f, kind, update))
<1> DEFINE dir == CASE kind = "step" -> f.step_direction [] kind = "step_in" -> 1 [] kind = "step_out" -> -1
           to == IF dir = 1 THEN (IF f.track >= MAXTRACK THEN MAXTRACK ELSE f.track + 1)
                 ELSE IF f.track = 0 THEN 0 ELSE IF f.track > MAXTRACK THEN MAXTRACK ELSE f.track - 1
           at == IF update THEN to ELSE f.track
           g == [f EXCEPT !.step_direction = dir, !.track = at]
<1>1. f \in SV_DiskController
  BY Zenon DEF Started, Ranged
<1>2. f.track \in Nat /\ f.step_direction \in {-1, 1}
  BY <1>1 DEF SV_DiskController
<1>3. dir \in {-1, 1}
  BY <1>2 DEF Steps
<1>4. to \in Nat
  <2> HIDE DEF dir
  <2> QED
    BY <1>2, FdcAssumption
<1>5. at \in Nat
  <2> HIDE DEF to
  <2> QED
    BY <1>2, <1>4
<1> HIDE DEF at
<1>6. g \in SV_DiskController
  <2> HIDE DEF dir
  <2> QED
    BY <1>1, <1>3, <1>5 DEF SV_DiskController
<1>7. \A k \in {"halted", "buf_pos", "buf_len", "wt_state", "wt_data_pos", "wt_id_pos", "reading",
                "read_pending", "writing", "write_track", "intrq_defer"} : g[k] = f[k]
  <2> HIDE DEF dir
  <2> QED
    BY <1>1 DEF SV_DiskController
<1>8. Stepped(f, kind, update) = Finish(g, Track0(g) \cup NotReady(g))
  BY DEF Stepped, at
<1> HIDE DEF g
<1> QED
  BY <1>6, <1>7, <1>8, Endings, EndsAtOnce, Zenon

\* A command that starts a transfer with its buffer empty.
LEMMA TransferObeys ==
  ASSUME NEW f, NEW g, Underway(g), HasCache(g), g.buf_pos \in {f.buf_pos, 0}
  PROVE  Obeys(f, Transferring(g))
<1>1. g \in SV_DiskController
  BY Zenon DEF Underway, Ranged
<1>2. /\ Transferring(g).stable = g.stable /\ Transferring(g).read_pending = g.read_pending
      /\ Transferring(g).writing = g.writing /\ Transferring(g).write_track = g.write_track
      /\ Transferring(g).drive_select = g.drive_select
  BY <1>1 DEF Transferring, SV_DiskController
<1>3. Steady(Transferring(g)) /\ Transferring(g).buf_pos = g.buf_pos
  BY Transfers, Zenon
<1> QED
  BY <1>2, <1>3, Zenon DEF Obeys, HasCache, Disk

\* A transfer refused: no image, or a write-protected one.
LEMMA Refused ==
  ASSUME NEW f, Started(f), NEW x \in {"NOTREADY", "PROTECT"}
  PROVE  Obeys(f, Finish(f, {x}))
<1>1. f \in SV_DiskController
  BY Zenon DEF Started, Ranged
<1>2. {x} \in SUBSET (Flags \ {"BUSY"})
  BY Endings
<1> QED
  BY <1>1, <1>2, EndsAtOnce, Zenon

\* READ SECTOR needs an image, and so a cache.
LEMMA ReadObeys ==
  ASSUME NEW f, Started(f)
  PROVE  Obeys(f, ReadBegun(f))
<1> DEFINE g == [f EXCEPT !.buf_pos = 0, !.buf_len = BUF, !.reading = TRUE, !.read_pending = TRUE]
<1>1. f \in SV_DiskController
  BY Zenon DEF Started, Ranged
<1>2. CASE ~HasMedia(f)
  BY <1>2, Refused DEF ReadBegun
<1>3. CASE HasMedia(f)
  <2>1. 0 \in 0 .. BUF /\ BUF \in {0, BUF} /\ 0 < BUF
    BY FdcAssumption
  <2>2. g \in SV_DiskController
    <3>1. \A n \in 0 .. BUF, m \in {0, BUF} :
            [f EXCEPT !.buf_pos = n, !.buf_len = m, !.reading = TRUE, !.read_pending = TRUE]
              \in SV_DiskController
      BY <1>1, ZenonT(30) DEF SV_DiskController
    <3> QED
      BY <2>1, <3>1
  <2>3. /\ g.buf_pos = 0 /\ g.buf_len = BUF /\ g.reading = TRUE /\ g.read_pending = TRUE
        /\ g.writing = f.writing /\ g.write_track = f.write_track /\ g.halted = f.halted
        /\ g.wt_state = f.wt_state /\ g.wt_id_pos = f.wt_id_pos /\ g.wt_data_pos = f.wt_data_pos
        /\ g.busy = f.busy /\ g.owed = f.owed /\ g.intrq_defer = f.intrq_defer /\ g.nmi = f.nmi
        /\ g.intrq = f.intrq /\ g.density = f.density /\ g.drive_select = f.drive_select
    BY <1>1 DEF SV_DiskController
  <2> HIDE DEF g
  <2>4. 0 <= BUF
    BY FdcAssumption
  <2>5. Ranged(g)
    BY <2>2, <2>3, <2>4, Zenon DEF Started, Ranged
  <2>6. Underway(g)
    BY <2>1, <2>3, <2>5, Zenon DEF Started, Quiet, Underway
  <2>7. HasCache(g)
    BY <1>3, <2>3, Zenon DEF HasCache, HasMedia, Disk
  <2>8. ReadBegun(f) = Transferring(g)
    BY <1>3 DEF ReadBegun, g
  <2>9. g.buf_pos \in {f.buf_pos, 0}
    BY <2>3
  <2> QED
    BY <2>6, <2>7, <2>8, <2>9, TransferObeys, Zenon
<1> QED
  BY <1>2, <1>3

\* WRITE SECTOR needs a writable image.
LEMMA WriteObeys ==
  ASSUME NEW f, Started(f)
  PROVE  Obeys(f, WriteBegun(f))
<1> DEFINE g == [f EXCEPT !.buf_pos = 0, !.buf_len = BUF, !.writing = TRUE]
<1>1. f \in SV_DiskController
  BY Zenon DEF Started, Ranged
<1>2. CASE ~HasMedia(f)
  BY <1>2, Refused DEF WriteBegun
<1>3. CASE HasMedia(f) /\ Disk(f).read_only
  BY <1>3, Refused DEF WriteBegun
<1>4. CASE HasMedia(f) /\ ~Disk(f).read_only
  <2>1. 0 \in 0 .. BUF /\ BUF \in {0, BUF} /\ 0 < BUF /\ 0 <= BUF
    BY FdcAssumption
  <2>2. g \in SV_DiskController
    <3>1. \A n \in 0 .. BUF, m \in {0, BUF} :
            [f EXCEPT !.buf_pos = n, !.buf_len = m, !.writing = TRUE] \in SV_DiskController
      BY <1>1, ZenonT(30) DEF SV_DiskController
    <3> QED
      BY <2>1, <3>1
  <2>3. /\ g.buf_pos = 0 /\ g.buf_len = BUF /\ g.reading = f.reading /\ g.read_pending = f.read_pending
        /\ g.writing = TRUE /\ g.write_track = f.write_track /\ g.halted = f.halted
        /\ g.wt_state = f.wt_state /\ g.wt_id_pos = f.wt_id_pos /\ g.wt_data_pos = f.wt_data_pos
        /\ g.busy = f.busy /\ g.owed = f.owed /\ g.intrq_defer = f.intrq_defer /\ g.nmi = f.nmi
        /\ g.intrq = f.intrq /\ g.density = f.density /\ g.drive_select = f.drive_select
    BY <1>1 DEF SV_DiskController
  <2> HIDE DEF g
  <2>4. Ranged(g)
    BY <2>1, <2>2, <2>3, Zenon DEF Started, Ranged
  <2>5. Underway(g)
    BY <2>1, <2>3, <2>4, Zenon DEF Started, Quiet, Underway
  <2>6. HasCache(g)
    BY <1>4, <2>3, Zenon DEF HasCache, HasMedia, Disk
  <2>7. WriteBegun(f) = Transferring(g)
    BY <1>4 DEF WriteBegun, g
  <2>8. g.buf_pos \in {f.buf_pos, 0}
    BY <2>3
  <2> QED
    BY <2>5, <2>6, <2>7, <2>8, TransferObeys, Zenon
<1> QED
  BY <1>2, <1>3, <1>4

\* READ ADDRESS needs none.
LEMMA AddressObeys ==
  ASSUME NEW f, Started(f)
  PROVE  Obeys(f, AddressBegun(f))
<1> DEFINE id == [i \in 0 .. BUF - 1 |-> IF i = 0 THEN f.track ELSE f.sector]
           g == [f EXCEPT !.sector_buf = id, !.buf_pos = 0, !.buf_len = BUF, !.reading = TRUE,
                          !.data = f.track, !.sector = f.track]
<1>1. f \in SV_DiskController
  BY Zenon DEF Started, Ranged
<1>2. f.track \in Nat /\ f.sector \in Nat
  BY <1>1 DEF SV_DiskController
<1>3. id \in Buffer
  BY <1>2 DEF Buffer
<1>4. 0 \in 0 .. BUF /\ BUF \in {0, BUF} /\ 0 < BUF /\ 0 <= BUF
  BY FdcAssumption
<1>5. AddressBegun(f) = Transferring(g)
  BY Zenon DEF AddressBegun
<1> HIDE DEF id
<1>6. g \in SV_DiskController
  <2>1. \A n \in 0 .. BUF, m \in {0, BUF} :
          [f EXCEPT !.sector_buf = id, !.buf_pos = n, !.buf_len = m] \in SV_DiskController
    BY <1>1, <1>3, ZenonT(30) DEF SV_DiskController
  <2>2. \A h \in SV_DiskController, t \in Nat :
          [h EXCEPT !.reading = TRUE, !.data = t, !.sector = t] \in SV_DiskController
    BY ZenonT(30) DEF SV_DiskController
  <2>3. g = [[f EXCEPT !.sector_buf = id, !.buf_pos = 0, !.buf_len = BUF]
               EXCEPT !.reading = TRUE, !.data = f.track, !.sector = f.track]
    BY DEF g
  <2> HIDE DEF g
  <2> QED
    BY <1>2, <1>4, <2>1, <2>2, <2>3, Zenon
<1>7. /\ g.buf_pos = 0 /\ g.buf_len = BUF /\ g.reading = TRUE /\ g.read_pending = f.read_pending
      /\ g.writing = f.writing /\ g.write_track = f.write_track /\ g.halted = f.halted
      /\ g.wt_state = f.wt_state /\ g.wt_id_pos = f.wt_id_pos /\ g.wt_data_pos = f.wt_data_pos
      /\ g.busy = f.busy /\ g.owed = f.owed /\ g.intrq_defer = f.intrq_defer /\ g.nmi = f.nmi
      /\ g.intrq = f.intrq /\ g.density = f.density
  BY <1>1 DEF SV_DiskController
<1> HIDE DEF g
<1>8. Ranged(g)
  BY <1>4, <1>6, <1>7, Zenon DEF Started, Ranged
<1>9. Underway(g) /\ HasCache(g)
  BY <1>4, <1>7, <1>8, Zenon DEF Started, Quiet, Underway, HasCache
<1>10. g.buf_pos \in {f.buf_pos, 0}
  BY <1>7
<1> QED
  BY <1>5, <1>9, <1>10, TransferObeys, Zenon

\* WRITE TRACK needs a writable image; its parser starts idle.
LEMMA FormatObeys ==
  ASSUME NEW f, Started(f)
  PROVE  Obeys(f, FormatBegun(f))
<1> DEFINE g == [f EXCEPT !.write_track = TRUE, !.wt_state = "idle", !.wt_f5_count = 0,
                          !.wt_id_pos = 0, !.wt_id_sector = 1, !.wt_data_pos = 0, !.wt_byte_count = 0]
<1>1. f \in SV_DiskController
  BY Zenon DEF Started, Ranged
<1>2. CASE ~HasMedia(f)
  BY <1>2, Refused DEF FormatBegun
<1>3. CASE HasMedia(f) /\ Disk(f).read_only
  BY <1>3, Refused DEF FormatBegun
<1>4. CASE HasMedia(f) /\ ~Disk(f).read_only
  <2>1. g \in SV_DiskController
    <3>1. \A a \in Nat :
            [f EXCEPT !.write_track = TRUE, !.wt_state = "idle", !.wt_f5_count = a] \in SV_DiskController
      BY <1>1 DEF SV_DiskController
    <3>2. \A h \in SV_DiskController, b \in 0 .. 4, c \in Nat :
            [h EXCEPT !.wt_id_pos = b, !.wt_id_sector = c] \in SV_DiskController
      BY ZenonT(30) DEF SV_DiskController
    <3>5. \A h \in SV_DiskController, a \in Nat, e \in 0 .. BUF :
            [h EXCEPT !.wt_data_pos = e, !.wt_byte_count = a] \in SV_DiskController
      BY ZenonT(30) DEF SV_DiskController
    <3>3. 0 \in Nat /\ 1 \in Nat /\ 0 \in 0 .. 4 /\ 0 \in 0 .. BUF
      BY FdcAssumption
    <3>4. g = [[[f EXCEPT !.write_track = TRUE, !.wt_state = "idle", !.wt_f5_count = 0]
                 EXCEPT !.wt_id_pos = 0, !.wt_id_sector = 1]
                 EXCEPT !.wt_data_pos = 0, !.wt_byte_count = 0]
      BY DEF g
    <3> HIDE DEF g
    <3> QED
      BY <3>1, <3>2, <3>3, <3>4, <3>5, Zenon
  <2>2. /\ g.buf_pos = f.buf_pos /\ g.buf_len = f.buf_len /\ g.reading = f.reading
        /\ g.read_pending = f.read_pending
        /\ g.writing = f.writing /\ g.write_track = TRUE /\ g.halted = f.halted /\ g.wt_state = "idle"
        /\ g.busy = f.busy /\ g.owed = f.owed /\ g.intrq_defer = f.intrq_defer /\ g.nmi = f.nmi
        /\ g.intrq = f.intrq /\ g.density = f.density /\ g.drive_select = f.drive_select
    BY <1>1 DEF SV_DiskController
  <2>3. g.wt_state # "data" /\ g.wt_state # "id"
    BY <2>2
  <2> HIDE DEF g
  <2>4. Ranged(g)
    BY <2>1, <2>2, <2>3, Zenon DEF Started, Ranged
  <2>5. Underway(g)
    BY <2>2, <2>4, Zenon DEF Started, Quiet, Underway
  <2>6. HasCache(g)
    BY <1>4, <2>2, Zenon DEF HasCache, HasMedia, Disk
  <2>7. FormatBegun(f) = Transferring(g)
    BY <1>4 DEF FormatBegun, g
  <2>8. g.buf_pos \in {f.buf_pos, 0}
    BY <2>2
  <2> QED
    BY <2>5, <2>6, <2>7, <2>8, TransferObeys, Zenon
<1> QED
  BY <1>2, <1>3, <1>4

\* FORCE INTERRUPT, with or without its own interrupt.
LEMMA ForcedObeys ==
  ASSUME NEW f, Started(f), NEW now \in BOOLEAN
  PROVE  Obeys(f, Forced(f, now))
<1> DEFINE st == Track0(f) \cup NotReady(f)
           g == [f EXCEPT !.busy = FALSE, !.status = st, !.owed = FALSE]
<1>1. f \in SV_DiskController
  BY Zenon DEF Started, Ranged
<1>2. st \in SUBSET Flags /\ "BUSY" \notin st
  BY Endings
<1>3. Forced(f, now) = IF now THEN SetIntrq(g, TRUE) ELSE g
  BY Zenon DEF Forced
<1> HIDE DEF st
<1>4. g \in SV_DiskController
  BY <1>1, <1>2 DEF SV_DiskController
<1>5. /\ g.status = st /\ g.busy = FALSE /\ g.owed = FALSE
      /\ g.density = f.density /\ g.nmi = f.nmi /\ g.intrq = f.intrq /\ g.halted = f.halted
      /\ g.intrq_defer = f.intrq_defer /\ g.buf_pos = f.buf_pos
      /\ g.buf_len = f.buf_len /\ g.reading = f.reading /\ g.read_pending = f.read_pending
      /\ g.writing = f.writing /\ g.write_track = f.write_track /\ g.wt_state = f.wt_state
      /\ g.wt_id_pos = f.wt_id_pos /\ g.wt_data_pos = f.wt_data_pos
  BY <1>1 DEF SV_DiskController
<1> HIDE DEF g
<1>6. Ranged(g) /\ Quiet(g)
  BY <1>4, <1>5, Zenon DEF Started, Ranged, Quiet
<1>7. ~(g.intrq_defer > 0)
  BY <1>6 DEF Quiet
<1>8. g.nmi = (g.intrq /\ ~g.density)
  BY <1>5, Zenon DEF Started
<1>9. CASE ~now
  <2>1. Steady(g)
    BY <1>2, <1>5, <1>6, <1>7, <1>8, Zenon DEF Steady, Quiet
  <2>2. HasCache(g)
    BY <1>6, Zenon DEF Quiet, HasCache
  <2> QED
    BY <1>3, <1>5, <1>9, <2>1, <2>2 DEF Obeys
<1>10. CASE now
  <2> DEFINE h == SetIntrq(g, TRUE)
  <2>1. /\ h \in SV_DiskController /\ ~h.halted /\ h.intrq = TRUE /\ h.nmi = (TRUE /\ ~g.density)
        /\ h.owed = (g.owed /\ ~TRUE)
    BY <1>4, <1>6, Intrq, Zenon DEF Ranged
  <2>2. /\ h.status = g.status /\ h.density = g.density /\ h.busy = g.busy
        /\ h.intrq_defer = g.intrq_defer /\ h.sector_buf = g.sector_buf /\ h.buf_pos = g.buf_pos
        /\ h.buf_len = g.buf_len /\ h.reading = g.reading /\ h.read_pending = g.read_pending
        /\ h.writing = g.writing /\ h.write_track = g.write_track /\ h.wt_state = g.wt_state
        /\ h.wt_id_pos = g.wt_id_pos /\ h.wt_data_pos = g.wt_data_pos
    BY <1>4, Intrq
  <2> HIDE DEF h
  <2>3. Ranged(h) /\ Quiet(h)
    BY <1>6, <2>1, <2>2, Zenon DEF Ranged, Quiet
  <2>4. Steady(h)
    BY <1>2, <1>5, <1>7, <2>1, <2>2, <2>3, Zenon DEF Steady, Quiet
  <2>5. HasCache(h)
    BY <2>3, Zenon DEF Quiet, HasCache
  <2>6. Forced(f, now) = h
    BY <1>3, <1>10 DEF h
  <2>7. h.buf_pos \in {f.buf_pos, 0}
    BY <1>5, <2>2
  <2> QED
    BY <2>4, <2>5, <2>6, <2>7, Zenon DEF Obeys
<1> QED
  BY <1>9, <1>10

\* fdc_execute_command(): whatever the command interrupts.
LEMMA CommandObeys ==
  ASSUME NEW cmd \in Kinds \ Steps, NEW f, Steady(f)
  PROVE  Obeys(f, Executed(Begin(f), cmd))
<1> DEFINE b == Begin(f)
<1>1. Started(b) /\ b.buf_pos = f.buf_pos
  BY Begun
<1> HIDE DEF b
<1>2. Obeys(b, Finish(b, {}))
  <2>1. b \in SV_DiskController
    BY <1>1, Zenon DEF Started, Ranged
  <2> QED
    BY <1>1, <2>1, Endings, EndsAtOnce, Zenon
<1>3. /\ Obeys(b, Restored(b)) /\ Obeys(b, Sought(b)) /\ Obeys(b, ReadBegun(b)) /\ Obeys(b, WriteBegun(b))
      /\ Obeys(b, AddressBegun(b)) /\ Obeys(b, FormatBegun(b))
      /\ Obeys(b, Forced(b, FALSE)) /\ Obeys(b, Forced(b, TRUE))
  BY <1>1, RestoredObeys, SoughtObeys, ReadObeys, WriteObeys, AddressObeys, FormatObeys, ForcedObeys
<1>4. Executed(b, cmd) \in {Restored(b), Sought(b), ReadBegun(b), WriteBegun(b), AddressBegun(b),
                            FormatBegun(b), Finish(b, {}), Forced(b, FALSE), Forced(b, TRUE)}
  BY DEF Executed, Kinds, Steps
<1>5. Obeys(b, Executed(b, cmd))
  BY <1>2, <1>3, <1>4
<1> QED
  BY <1>1, <1>5 DEF Obeys, b

\* The same of the stepping commands, which may update the track register.
LEMMA StepObeys ==
  ASSUME NEW kind \in Steps, NEW update \in BOOLEAN, NEW f, Steady(f)
  PROVE  Obeys(f, Stepped(Begin(f), kind, update))
<1>1. Started(Begin(f)) /\ Begin(f).buf_pos = f.buf_pos
  BY Begun
<1>2. Obeys(Begin(f), Stepped(Begin(f), kind, update))
  BY <1>1, SteppedObeys
<1> QED
  BY <1>1, <1>2 DEF Obeys

\* A read of the status register acknowledges the interrupt, and does nothing else.
LEMMA Acknowledged ==
  ASSUME NEW f, Steady(f), HasCache(f)
  PROVE  LET g == SetIntrq(f, FALSE) IN
         Steady(g) /\ HasCache(g) /\ g.writing = f.writing
<1> DEFINE g == SetIntrq(f, FALSE)
<1>1. f \in SV_DiskController
  BY Zenon DEF Steady, Ranged
<1>2. /\ g \in SV_DiskController /\ g.intrq = FALSE /\ g.nmi = (FALSE /\ ~f.density)
      /\ g.owed = (f.owed /\ ~FALSE) /\ (~f.halted => ~g.halted)
  BY <1>1, Intrq, Zenon
<1>3. /\ g.status = f.status /\ g.density = f.density /\ g.busy = f.busy /\ g.drq = f.drq
      /\ g.intrq_defer = f.intrq_defer /\ g.buf_pos = f.buf_pos /\ g.drive_select = f.drive_select
      /\ g.buf_len = f.buf_len /\ g.reading = f.reading /\ g.read_pending = f.read_pending
      /\ g.writing = f.writing /\ g.write_track = f.write_track /\ g.wt_state = f.wt_state
      /\ g.wt_id_pos = f.wt_id_pos /\ g.wt_data_pos = f.wt_data_pos /\ g.stable = f.stable
  BY <1>1, Intrq
<1> HIDE DEF g
<1>4. Ranged(g)
  BY <1>2, <1>3, Zenon DEF Steady, Ranged
<1>5. Steady(g)
  BY <1>2, <1>3, <1>4, Zenon DEF Steady
<1>6. HasCache(g)
  BY <1>3, Zenon DEF HasCache, Disk
<1> QED
  BY <1>3, <1>5, <1>6, Zenon DEF g

\* The fields Steady and HasCache speak of.
Fields == {"status", "density", "busy", "drq", "nmi", "intrq", "owed", "halted", "intrq_defer", "buf_pos",
           "buf_len", "reading", "read_pending", "writing", "write_track", "wt_state", "wt_id_pos",
           "wt_data_pos", "stable", "drive_select"}

\* A change of any other field disturbs neither.
LEMMA SameFields ==
  ASSUME NEW f, NEW g \in SV_DiskController, \A k \in Fields : g[k] = f[k], Steady(f)
  PROVE  Steady(g) /\ (HasCache(f) => HasCache(g))
<1>1. /\ g.status = f.status /\ g.density = f.density /\ g.busy = f.busy /\ g.drq = f.drq
      /\ g.nmi = f.nmi /\ g.intrq = f.intrq /\ g.owed = f.owed /\ g.halted = f.halted
  BY DEF Fields
<1>2. /\ g.intrq_defer = f.intrq_defer /\ g.buf_pos = f.buf_pos /\ g.drive_select = f.drive_select
      /\ g.buf_len = f.buf_len /\ g.reading = f.reading /\ g.read_pending = f.read_pending
      /\ g.writing = f.writing /\ g.write_track = f.write_track /\ g.wt_state = f.wt_state
      /\ g.wt_id_pos = f.wt_id_pos /\ g.wt_data_pos = f.wt_data_pos /\ g.stable = f.stable
  BY DEF Fields
<1>3. Ranged(g)
  BY <1>1, <1>2, Zenon DEF Steady, Ranged
<1> QED
  BY <1>1, <1>2, <1>3, Zenon DEF Steady, HasCache, Disk

\* The track, sector and data registers.
LEMMA RegisterWritten ==
  ASSUME NEW f, Steady(f), HasCache(f), NEW n \in Nat, NEW g,
         \/ g = [f EXCEPT !.track = n]
         \/ g = [f EXCEPT !.sector = n]
         \/ g = [f EXCEPT !.data = n]
  PROVE  Steady(g) /\ HasCache(g)
<1>1. f \in SV_DiskController
  BY Zenon DEF Steady, Ranged
<1>2. g \in SV_DiskController
  BY <1>1 DEF SV_DiskController
<1>3. \A k \in Fields : g[k] = f[k]
  BY <1>1 DEF SV_DiskController, Fields
<1> QED
  BY <1>2, <1>3, SameFields, Zenon

\* DSKREG: NMI follows the density, and HALT is not raised because a busy controller
\* has its DRQ up.
LEMMA DskregWritten ==
  ASSUME NEW f, Steady(f), HasCache(f), NEW d \in Drive, NEW density \in BOOLEAN, NEW halt \in BOOLEAN
  PROVE  LET g == DskregSet(f, d, 0, density, halt) IN
         Steady(g) /\ HasCache(g) /\ g.writing = f.writing
<1> DEFINE nmi == f.intrq /\ ~density
           he == halt /\ ~f.intrq
           st == f.stable /\ d = f.drive_select
           r == [f EXCEPT !.drive_select = d, !.side = 0, !.density = density, !.nmi = nmi,
                          !.halt_enable = he, !.stable = st]
           g == [r EXCEPT !.halted = Halts(r)]
<1>1. f \in SV_DiskController
  BY Zenon DEF Steady, Ranged
<1>2. nmi \in BOOLEAN /\ he \in BOOLEAN /\ st \in BOOLEAN
  OBVIOUS
<1>3. DskregSet(f, d, 0, density, halt) = g
  BY DEF DskregSet, DskregNmi
<1>4. nmi = (f.intrq /\ ~density) /\ (st => f.stable /\ d = f.drive_select)
  OBVIOUS
<1> HIDE DEF nmi, he, st
<1>5. r \in SV_DiskController
  BY <1>1, <1>2 DEF SV_DiskController
<1>6. /\ r.density = density /\ r.nmi = nmi /\ r.stable = st /\ r.drive_select = d
      /\ r.status = f.status /\ r.busy = f.busy /\ r.drq = f.drq /\ r.intrq = f.intrq
      /\ r.owed = f.owed /\ r.halted = f.halted
  BY <1>1 DEF SV_DiskController
<1>7. /\ r.intrq_defer = f.intrq_defer /\ r.buf_pos = f.buf_pos
      /\ r.buf_len = f.buf_len /\ r.reading = f.reading /\ r.read_pending = f.read_pending
      /\ r.writing = f.writing /\ r.write_track = f.write_track /\ r.wt_state = f.wt_state
      /\ r.wt_id_pos = f.wt_id_pos /\ r.wt_data_pos = f.wt_data_pos
  BY <1>1 DEF SV_DiskController
<1> HIDE DEF r
<1>8. ~Halts(r) /\ Halts(r) \in BOOLEAN
  BY <1>6, Zenon DEF Steady, Halts
<1>9. Halts(r) = FALSE
  BY <1>8, Zenon
<1>10. g = [r EXCEPT !.halted = FALSE]
  BY <1>9
<1> HIDE DEF g
<1>11. g \in SV_DiskController /\ ~g.halted /\ \A k \in Fields \ {"halted"} : g[k] = r[k]
  BY <1>5, <1>10, ZenonT(30) DEF SV_DiskController, Fields
<1>12. /\ g.status = r.status /\ g.density = r.density /\ g.busy = r.busy /\ g.drq = r.drq
       /\ g.nmi = r.nmi /\ g.intrq = r.intrq /\ g.owed = r.owed
       /\ g.intrq_defer = r.intrq_defer /\ g.buf_pos = r.buf_pos /\ g.drive_select = r.drive_select
       /\ g.buf_len = r.buf_len /\ g.reading = r.reading /\ g.read_pending = r.read_pending
       /\ g.writing = r.writing /\ g.write_track = r.write_track /\ g.wt_state = r.wt_state
       /\ g.wt_id_pos = r.wt_id_pos /\ g.wt_data_pos = r.wt_data_pos /\ g.stable = r.stable
  BY <1>11 DEF Fields
<1>13. Ranged(g)
  BY <1>7, <1>11, <1>12, Zenon DEF Steady, Ranged
<1>14. g.nmi = (g.intrq /\ ~g.density)
  BY <1>4, <1>6, <1>12, Zenon
<1>15. Steady(g)
  BY <1>6, <1>7, <1>12, <1>13, <1>14, Zenon DEF Steady
<1>16. HasCache(g)
  BY <1>4, <1>6, <1>7, <1>12, Zenon DEF HasCache, Disk
<1> QED
  BY <1>3, <1>7, <1>12, <1>15, <1>16, Zenon

\* The interrupt that was deferred to the end of a sector arrives.
LEMMA Arrives ==
  ASSUME NEW f, Steady(f), HasCache(f), f.intrq_defer > 0
  PROVE  LET g == SetIntrq([f EXCEPT !.intrq_defer = 0], TRUE) IN
         Steady(g) /\ HasCache(g) /\ ~f.writing
<1> DEFINE r == [f EXCEPT !.intrq_defer = 0]
           g == SetIntrq(r, TRUE)
<1>1. f \in SV_DiskController
  BY Zenon DEF Steady, Ranged
<1>2. ~(f.intrq_defer = 0) /\ 0 \in 0 .. 5 /\ ~(0 > 0)
  OBVIOUS
<1>3. /\ ~f.busy /\ ~f.reading /\ ~f.read_pending /\ ~f.writing /\ ~f.write_track
      /\ "BUSY" \notin f.status
  BY <1>2, Zenon DEF Steady
<1>4. r \in SV_DiskController
  <2>1. \A n \in 0 .. 5 : [f EXCEPT !.intrq_defer = n] \in SV_DiskController
    BY <1>1 DEF SV_DiskController
  <2> QED
    BY <1>2, <2>1, Zenon
<1>5. /\ r.intrq_defer = 0 /\ r.status = f.status /\ r.density = f.density /\ r.busy = f.busy
      /\ r.buf_pos = f.buf_pos /\ r.halted = f.halted
      /\ r.buf_len = f.buf_len /\ r.reading = f.reading /\ r.read_pending = f.read_pending
      /\ r.writing = f.writing /\ r.write_track = f.write_track /\ r.wt_state = f.wt_state
      /\ r.wt_id_pos = f.wt_id_pos /\ r.wt_data_pos = f.wt_data_pos
  BY <1>1 DEF SV_DiskController
<1> HIDE DEF r
<1>6. /\ g \in SV_DiskController /\ g.intrq = TRUE /\ g.nmi = (TRUE /\ ~r.density)
      /\ g.owed = (r.owed /\ ~TRUE) /\ (~r.halted => ~g.halted)
  BY <1>4, Intrq, Zenon
<1>7. /\ g.status = r.status /\ g.density = r.density /\ g.busy = r.busy
      /\ g.intrq_defer = r.intrq_defer /\ g.buf_pos = r.buf_pos
      /\ g.buf_len = r.buf_len /\ g.reading = r.reading /\ g.read_pending = r.read_pending
      /\ g.writing = r.writing /\ g.write_track = r.write_track /\ g.wt_state = r.wt_state
      /\ g.wt_id_pos = r.wt_id_pos /\ g.wt_data_pos = r.wt_data_pos
  BY <1>4, Intrq
<1> HIDE DEF g
<1>8. Ranged(g)
  BY <1>5, <1>6, <1>7, Zenon DEF Steady, Ranged
<1>9. Steady(g)
  BY <1>2, <1>3, <1>5, <1>6, <1>7, <1>8, Zenon DEF Steady
<1>10. HasCache(g)
  BY <1>3, <1>5, <1>7, Zenon DEF HasCache
<1> QED
  BY <1>3, <1>9, <1>10, Zenon DEF g, r

\* A scanline: the countdown goes on, or the interrupt arrives.
LEMMA TickSteady ==
  ASSUME Steady(fdc), HasCache(fdc), Tick
  PROVE  Steady(fdc') /\ HasCache(fdc)' /\ ~fdc.writing
<1> DEFINE n == fdc.intrq_defer - 1
           r == [fdc EXCEPT !.intrq_defer = n]
<1>1. fdc \in SV_DiskController
  BY Zenon DEF Steady, Ranged
<1>2. fdc.intrq_defer > 0 /\ drives' = drives
  BY DEF Tick, diskVars
<1>3. fdc.intrq_defer \in 0 .. 5
  BY <1>1 DEF SV_DiskController
<1>4. n \in 0 .. 5 /\ ~(fdc.intrq_defer = 0) /\ (n # 0 => n > 0)
  BY <1>2, <1>3
<1>5. ~fdc.busy /\ ~fdc.writing
  BY <1>4, Zenon DEF Steady
<1>6. r.intrq_defer = n
  BY <1>1 DEF SV_DiskController
<1>7. fdc' = IF r.intrq_defer = 0 THEN SetIntrq(r, TRUE) ELSE r
  BY DEF Tick
<1>8. CASE n = 0
  <2>1. fdc' = SetIntrq([fdc EXCEPT !.intrq_defer = 0], TRUE)
    BY <1>6, <1>7, <1>8
  <2>2. Steady(fdc') /\ (LET g == fdc' IN HasCache(g))
    BY <1>2, <2>1, Arrives
  <2> QED
    BY <1>2, <1>5, <2>2 DEF HasCache, Disk
<1>9. CASE n # 0
  <2>1. fdc' = r
    BY <1>6, <1>7, <1>9
  <2> HIDE DEF n
  <2>2. r \in SV_DiskController
    BY <1>1, <1>4 DEF SV_DiskController
  <2>3. /\ r.status = fdc.status /\ r.density = fdc.density /\ r.busy = fdc.busy /\ r.drq = fdc.drq
        /\ r.nmi = fdc.nmi /\ r.intrq = fdc.intrq /\ r.owed = fdc.owed /\ r.halted = fdc.halted
        /\ r.buf_pos = fdc.buf_pos /\ r.drive_select = fdc.drive_select
        /\ r.buf_len = fdc.buf_len /\ r.reading = fdc.reading /\ r.read_pending = fdc.read_pending
        /\ r.writing = fdc.writing /\ r.write_track = fdc.write_track /\ r.wt_state = fdc.wt_state
        /\ r.wt_id_pos = fdc.wt_id_pos /\ r.wt_data_pos = fdc.wt_data_pos /\ r.stable = fdc.stable
    BY <1>1 DEF SV_DiskController
  <2> HIDE DEF r
  <2>4. Ranged(r)
    BY <2>2, <2>3, Zenon DEF Steady, Ranged
  <2>5. Steady(r)
    BY <1>2, <1>4, <1>5, <1>6, <1>9, <2>3, <2>4, Zenon DEF Steady
  <2>6. HasCache(r)
    BY <2>3, Zenon DEF HasCache, Disk
  <2> QED
    BY <1>2, <1>5, <2>1, <2>5, <2>6 DEF HasCache, Disk
<1> QED
  BY <1>8, <1>9

\* sector_offset() names a sector of the image or none.
LEMMA Offsets ==
  ASSUME NEW f \in SV_DiskController, NEW s
  PROVE  Offset(f, s) \in Sector \/ Offset(f, s) = NSEC
<1>1. f.track \in Nat
  BY DEF SV_DiskController
<1>2. NSEC \in Nat /\ SECTORS \in Nat \ {0} /\ NSEC % SECTORS = 0
  BY DiskAssumption, FdcAssumption
<1>3. NSEC = SECTORS * TRACKS /\ TRACKS \in Int
  BY <1>2, ModDiv DEF TRACKS
<1>4. CASE s \in 1 .. SECTORS /\ f.track < TRACKS /\ f.side = 0
  <2>1. Offset(f, s) = f.track * SECTORS + s - 1
    BY <1>4 DEF Offset
  <2>2. (f.track + 1) * SECTORS <= TRACKS * SECTORS
    BY <1>1, <1>2, <1>3, <1>4, SMTT(20)
  <2>3. f.track * SECTORS + SECTORS <= NSEC /\ f.track * SECTORS \in Nat
    BY <1>1, <1>2, <1>3, <2>2, SMTT(20)
  <2> DEFINE k == f.track * SECTORS
  <2> HIDE DEF k
  <2>4. k + s - 1 \in Sector
    BY <1>2, <1>4, <2>3 DEF Sector, k
  <2> QED
    BY <2>1, <2>4 DEF k
<1>5. CASE ~(s \in 1 .. SECTORS /\ f.track < TRACKS /\ f.side = 0)
  BY <1>5 DEF Offset
<1> QED
  BY <1>4, <1>5

\* The drive the controller has selected.
LEMMA Selected ==
  ASSUME NEW f \in SV_DiskController, CachesWhole
  PROVE  /\ f.drive_select \in Drive /\ Disk(f) = drives[f.drive_select]
         /\ Disk(f).cache \in {NoCache} \cup [Sector -> Buffer] /\ Disk(f).cache_size \in {0, NSEC}
         /\ Disk(f).mounted => Disk(f).cache # NoCache /\ Disk(f).cache_size = NSEC
  BY DEF SV_DiskController, CachesWhole, Disk

\* A sector the selected drive can load or store.
LEMMA InImage ==
  ASSUME NEW f \in SV_DiskController, NEW s, CachesWhole, Offset(f, s) < Disk(f).cache_size
  PROVE  Offset(f, s) \in Sector
<1>1. Disk(f).cache_size \in {0, NSEC} /\ NSEC \in Nat
  BY Selected, DiskAssumption
<1>2. Offset(f, s) # NSEC
  BY <1>1
<1> QED
  BY <1>2, Offsets

\* The first byte read loads the sector.
LEMMA LoadedSteady ==
  ASSUME NEW f, Steady(f), HasCache(f), CachesWhole, Loads(f), Disk(f).cache # NoCache
  PROVE  /\ Steady(Loaded(f)) /\ HasCache(Loaded(f)) /\ ~Loaded(f).read_pending
         /\ Loaded(f).writing = f.writing
<1> DEFINE buf == Disk(f).cache[Offset(f, f.sector)]
           g == [f EXCEPT !.read_pending = FALSE, !.sector_buf = buf, !.data = buf[0]]
<1>1. f \in SV_DiskController
  BY Zenon DEF Steady, Ranged
<1>2. Offset(f, f.sector) \in Sector
  BY <1>1, InImage DEF Loads
<1>3. Disk(f).cache \in [Sector -> Buffer]
  BY <1>1, Selected
<1>4. buf \in Buffer
  BY <1>2, <1>3
<1>5. buf[0] \in Nat
  BY <1>4, FdcAssumption DEF Buffer
<1>6. Loaded(f) = g
  BY DEF Loaded
<1> HIDE DEF buf
<1>7. g \in SV_DiskController
  BY <1>1, <1>4, <1>5 DEF SV_DiskController
<1>8. /\ g.status = f.status /\ g.density = f.density /\ g.busy = f.busy /\ g.drq = f.drq
      /\ g.nmi = f.nmi /\ g.intrq = f.intrq /\ g.owed = f.owed /\ g.halted = f.halted
      /\ g.intrq_defer = f.intrq_defer /\ g.buf_pos = f.buf_pos /\ g.drive_select = f.drive_select
      /\ g.buf_len = f.buf_len /\ g.reading = f.reading /\ ~g.read_pending
      /\ g.writing = f.writing /\ g.write_track = f.write_track /\ g.wt_state = f.wt_state
      /\ g.wt_id_pos = f.wt_id_pos /\ g.wt_data_pos = f.wt_data_pos /\ g.stable = f.stable
  BY <1>1 DEF SV_DiskController
<1> HIDE DEF g
<1>9. Ranged(g)
  BY <1>7, <1>8, Zenon DEF Steady, Ranged
<1>10. Steady(g)
  BY <1>8, <1>9, Zenon DEF Steady
<1>11. HasCache(g)
  BY <1>8, Zenon DEF HasCache, Disk
<1> QED
  BY <1>6, <1>8, <1>10, <1>11, Zenon

\* A sector that is not there ends the command.
LEMMA NotFoundSteady ==
  ASSUME NEW f, Steady(f), f.read_pending
  PROVE  Steady(NotFound(f)) /\ HasCache(NotFound(f)) /\ ~f.writing
<1> DEFINE g == [f EXCEPT !.read_pending = FALSE, !.reading = FALSE, !.drq = FALSE]
<1>1. f \in SV_DiskController
  BY Zenon DEF Steady, Ranged
<1>2. f.reading /\ ~f.writing /\ ~f.write_track /\ f.intrq_defer = 0
  BY Zenon DEF Steady
<1>3. g \in SV_DiskController
  BY <1>1, ZenonT(30) DEF SV_DiskController
<1>4. /\ ~g.reading /\ ~g.read_pending /\ g.writing = f.writing /\ g.write_track = f.write_track
      /\ g.intrq_defer = f.intrq_defer /\ g.halted = f.halted /\ g.buf_pos = f.buf_pos
      /\ g.buf_len = f.buf_len /\ g.wt_state = f.wt_state
      /\ g.wt_id_pos = f.wt_id_pos /\ g.wt_data_pos = f.wt_data_pos
  BY <1>1 DEF SV_DiskController
<1>5. NotFound(f) = Finish(g, {"RNF"})
  BY DEF NotFound
<1> HIDE DEF g
<1>6. Ranged(g) /\ Quiet(g)
  BY <1>2, <1>3, <1>4, Zenon DEF Steady, Ranged, Quiet
<1>7. {"RNF"} \in SUBSET (Flags \ {"BUSY"})
  BY Endings
<1>8. Steady(Finish(g, {"RNF"})) /\ Quiet(Finish(g, {"RNF"}))
  BY <1>6, <1>7, Finished, Zenon
<1> QED
  BY <1>2, <1>5, <1>8, Zenon DEF HasCache, Quiet

\* The next byte, which the last one follows with a deferred interrupt.
LEMMA ByteRead ==
  ASSUME NEW f, Steady(f), HasCache(f), ~f.read_pending, f.reading
  PROVE  Steady(DataRead(f)) /\ HasCache(DataRead(f)) /\ ~f.writing
<1> DEFINE n == f.buf_pos + 1
           g == [f EXCEPT !.buf_pos = n]
<1>1. f \in SV_DiskController
  BY Zenon DEF Steady, Ranged
<1>2. /\ f.buf_len = BUF /\ f.buf_pos < BUF /\ ~f.writing /\ ~f.write_track /\ f.busy /\ f.owed
      /\ f.intrq_defer = 0 /\ f.drq
  BY Zenon DEF Steady
<1>3. f.buf_pos \in Nat /\ f.sector_buf \in Buffer /\ BUF \in Nat
  BY <1>1, FdcAssumption DEF SV_DiskController
<1>4. n \in 0 .. BUF /\ f.buf_pos < f.buf_len
  BY <1>2, <1>3
<1>5. g.buf_pos = n /\ g.buf_len = BUF /\ g.sector_buf = f.sector_buf
  BY <1>1, <1>2 DEF SV_DiskController
<1>6. g \in SV_DiskController
  <2> HIDE DEF n
  <2> QED
    BY <1>1, <1>4 DEF SV_DiskController
<1>7. /\ g.status = f.status /\ g.density = f.density /\ g.busy = f.busy /\ g.drq = f.drq
      /\ g.nmi = f.nmi /\ g.intrq = f.intrq /\ g.owed = f.owed /\ g.halted = f.halted
      /\ g.intrq_defer = f.intrq_defer /\ g.drive_select = f.drive_select
      /\ g.reading = f.reading /\ g.read_pending = f.read_pending
      /\ g.writing = f.writing /\ g.write_track = f.write_track /\ g.wt_state = f.wt_state
      /\ g.wt_id_pos = f.wt_id_pos /\ g.wt_data_pos = f.wt_data_pos /\ g.stable = f.stable
  BY <1>1 DEF SV_DiskController
<1>8. CASE n < BUF
  <2> DEFINE b == g.sector_buf[g.buf_pos]
             h == [g EXCEPT !.data = b, !.drq = TRUE]
  <2>1. DataRead(f) = h
    BY <1>2, <1>4, <1>5, <1>8 DEF DataRead
  <2>2. b \in Nat
    BY <1>3, <1>4, <1>5, <1>8 DEF Buffer
  <2> HIDE DEF b, g
  <2>3. h \in SV_DiskController
    BY <1>6, <2>2 DEF SV_DiskController
  <2>4. /\ h.status = g.status /\ h.density = g.density /\ h.busy = g.busy /\ h.drq
        /\ h.nmi = g.nmi /\ h.intrq = g.intrq /\ h.owed = g.owed /\ h.halted = g.halted
        /\ h.intrq_defer = g.intrq_defer /\ h.drive_select = g.drive_select
        /\ h.reading = g.reading /\ h.read_pending = g.read_pending /\ h.buf_pos = g.buf_pos
        /\ h.buf_len = g.buf_len /\ h.stable = g.stable
        /\ h.writing = g.writing /\ h.write_track = g.write_track /\ h.wt_state = g.wt_state
        /\ h.wt_id_pos = g.wt_id_pos /\ h.wt_data_pos = g.wt_data_pos
    BY <1>6 DEF SV_DiskController
  <2> HIDE DEF h
  <2>5. h.buf_pos <= h.buf_len /\ h.buf_pos < BUF /\ h.buf_len = BUF
    BY <1>4, <1>5, <1>8, <2>4
  <2>6. Ranged(h)
    BY <1>7, <2>3, <2>4, <2>5, Zenon DEF Steady, Ranged
  <2>7. Steady(h)
    BY <1>7, <2>4, <2>5, <2>6, Zenon DEF Steady
  <2>8. HasCache(h)
    BY <1>2, <1>7, <2>4, Zenon DEF HasCache
  <2> QED
    BY <1>2, <2>1, <2>7, <2>8, Zenon
<1>9. CASE ~(n < BUF)
  <2> DEFINE h == LastRead(g)
  <2>1. DataRead(f) = h
    BY <1>2, <1>4, <1>5, <1>9 DEF DataRead
  <2>2. 5 \in 0 .. 5 /\ {} \in SUBSET Flags /\ 5 > 0
    OBVIOUS
  <2> HIDE DEF g
  <2>3. h \in SV_DiskController
    <3>1. \A k \in 0 .. 5, st \in SUBSET Flags :
            [g EXCEPT !.reading = FALSE, !.drq = FALSE, !.busy = FALSE, !.status = st, !.intrq_defer = k]
              \in SV_DiskController
      BY <1>6, ZenonT(30) DEF SV_DiskController
    <3> QED
      BY <2>2, <3>1, Zenon DEF LastRead
  <2>4. /\ h.status = {} /\ ~h.busy /\ ~h.reading /\ h.intrq_defer = 5
        /\ h.density = g.density /\ h.nmi = g.nmi /\ h.intrq = g.intrq /\ h.owed = g.owed
        /\ h.halted = g.halted /\ h.read_pending = g.read_pending /\ h.buf_pos = g.buf_pos
        /\ h.buf_len = g.buf_len
        /\ h.writing = g.writing /\ h.write_track = g.write_track /\ h.wt_state = g.wt_state
        /\ h.wt_id_pos = g.wt_id_pos /\ h.wt_data_pos = g.wt_data_pos
    BY <1>6 DEF LastRead, SV_DiskController
  <2> HIDE DEF h
  <2>5. h.buf_pos <= h.buf_len
    BY <1>3, <1>4, <1>5, <2>4
  <2>6. "BUSY" \notin h.status /\ h.intrq_defer > 0
    BY <2>4
  <2>7. Ranged(h)
    BY <1>7, <2>3, <2>4, <2>5, Zenon DEF Steady, Ranged
  <2>8. h.nmi = (h.intrq /\ ~h.density)
    BY <1>7, <2>4, Zenon DEF Steady
  <2>9. ~h.writing /\ ~h.write_track /\ ~h.read_pending /\ h.owed
    BY <1>2, <1>7, <2>4, Zenon
  <2>10. Steady(h)
    BY <2>4, <2>6, <2>7, <2>8, <2>9, Zenon DEF Steady
  <2> QED
    BY <1>2, <2>1, <2>9, <2>10, Zenon DEF HasCache
<1> QED
  BY <1>8, <1>9

\* A read of the data register once the sector is loaded.
LEMMA DataReadSteady ==
  ASSUME NEW f, Steady(f), HasCache(f), ~f.read_pending
  PROVE  Steady(DataRead(f)) /\ HasCache(DataRead(f)) /\ (f.writing => DataRead(f).writing)
<1>1. CASE f.reading
  BY <1>1, ByteRead
<1>2. CASE ~f.reading /\ f.intrq_defer > 0 /\ ~f.intrq
  <2>1. DataRead(f) = SetIntrq([f EXCEPT !.intrq_defer = 0], TRUE)
    BY <1>2, Zenon DEF DataRead
  <2> QED
    BY <1>2, <2>1, Arrives, Zenon
<1>3. CASE ~f.reading /\ ~(f.intrq_defer > 0 /\ ~f.intrq)
  BY <1>3, Zenon DEF DataRead
<1> QED
  BY <1>1, <1>2, <1>3, Zenon

\* A read of the data register, with the load of the sector before the first byte.
LEMMA ReadDataSteady ==
  ASSUME Steady(fdc), HasCache(fdc), CachesWhole, ReadData
  PROVE  Steady(fdc') /\ HasCache(fdc)' /\ (fdc.writing => fdc'.writing)
<1>1. drives' = drives
  BY DEF ReadData, diskVars
<1>2. Steady(fdc') /\ (LET g == fdc' IN HasCache(g)) /\ (fdc.writing => fdc'.writing)
  <2>1. CASE ~fdc.read_pending
    BY <2>1, DataReadSteady, Zenon DEF ReadData
  <2>2. CASE fdc.read_pending /\ ~Loads(fdc)
    BY <2>2, NotFoundSteady, Zenon DEF ReadData
  <2>3. CASE fdc.read_pending /\ Loads(fdc)
    <3>1. Disk(fdc).cache # NoCache /\ fdc' = DataRead(Loaded(fdc))
      BY <2>3, Zenon DEF ReadData
    <3>2. /\ Steady(Loaded(fdc)) /\ HasCache(Loaded(fdc)) /\ ~Loaded(fdc).read_pending
          /\ Loaded(fdc).writing = fdc.writing
      BY <2>3, <3>1, LoadedSteady, Zenon
    <3> QED
      BY <3>1, <3>2, DataReadSteady, Zenon
  <2> QED
    BY <2>1, <2>2, <2>3, Zenon
<1> QED
  BY <1>1, <1>2, Zenon DEF HasCache, Disk

-----------------------------------------------------------------------------
(* The caches the controller stores in.                                     *)

\* The memcpy into the cache and sv_disk_mark_dirty().
LEMMA StoreWhole ==
  ASSUME CachesWhole, NEW d \in Drive, NEW s \in Sector, NEW v \in Buffer, StoreSector(d, s, v)
  PROVE  /\ CachesWhole'
         /\ \A e \in Drive : /\ drives'[e].mounted = drives[e].mounted
                             /\ drives'[e].cache = NoCache <=> drives[e].cache = NoCache
         /\ drives'[d].cache[s] = v /\ drives'[d].dirty
<1> DEFINE old == drives[d]
           cache == [old.cache EXCEPT ![s] = v]
           map == IF old.dirty_map = NoMap THEN NoMap ELSE old.dirty_map \cup {s}
           img == [old EXCEPT !.cache = cache, !.dirty = TRUE, !.dirty_map = map]
<1>1. drives' = [drives EXCEPT ![d] = img] /\ files' = files /\ old.cache # NoCache
  BY DEF StoreSector, Written
<1>2. /\ old.mounted \in BOOLEAN /\ old.cache \in [Sector -> Buffer]
      /\ old.dirty_map \in {NoMap} \cup SUBSET Sector
      /\ old.mounted => old.cache_size = NSEC
  BY <1>1 DEF CachesWhole
<1>3. cache \in [Sector -> Buffer] /\ cache[s] = v
  BY <1>2
<1>4. cache # NoCache
  BY <1>3, BufferAssumption
<1>5. map \in {NoMap} \cup SUBSET Sector
  BY <1>2
<1> HIDE DEF cache, map
<1> DEFINE Img == [mounted : BOOLEAN, dirty : BOOLEAN, read_only : BOOLEAN,
                   path : {NoFile} \cup File, cache : {NoCache} \cup [Sector -> Buffer],
                   cache_size : {0, NSEC}, dirty_map : {NoMap} \cup SUBSET Sector]
<1>6. old \in Img /\ drives \in [Drive -> Img]
  BY DEF CachesWhole
<1>7. img \in Img
  <2> HIDE DEF old
  <2> QED
    BY <1>3, <1>5, <1>6
<1>8. img.mounted = old.mounted /\ img.cache = cache /\ img.cache_size = old.cache_size /\ img.dirty
  <2> HIDE DEF old
  <2> QED
    BY <1>6
<1> HIDE DEF img
<1>9. drives'[d] = img /\ (\A e \in Drive : e # d => drives'[e] = drives[e]) /\ drives' \in [Drive -> Img]
  <2> HIDE DEF Img
  <2> QED
    BY <1>1, <1>6, <1>7
<1>10. \A e \in Drive : drives'[e].mounted => drives'[e].cache # NoCache /\ drives'[e].cache_size = NSEC
  <2>1. TAKE e \in Drive
  <2>2. CASE e = d
    BY <1>2, <1>4, <1>8, <1>9, <2>2
  <2>3. CASE e # d
    BY <1>9, <2>3 DEF CachesWhole
  <2> QED
    BY <2>2, <2>3
<1>11. CachesWhole'
  BY <1>1, <1>9, <1>10 DEF CachesWhole
<1>12. \A e \in Drive : /\ drives'[e].mounted = drives[e].mounted
                        /\ drives'[e].cache = NoCache <=> drives[e].cache = NoCache
  <2>1. TAKE e \in Drive
  <2> QED
    BY <1>1, <1>4, <1>8, <1>9
<1>13. drives'[d].cache[s] = v /\ drives'[d].dirty
  BY <1>3, <1>8, <1>9
<1> QED
  BY <1>11, <1>12, <1>13

\* Storing a sector of the buffer, or nothing where there is no such sector.
LEMMA StoredWhole ==
  ASSUME CachesWhole, NEW f \in SV_DiskController, NEW s, Stored(f, s)
  PROVE  /\ CachesWhole'
         /\ \A e \in Drive : /\ drives'[e].mounted = drives[e].mounted
                             /\ drives'[e].cache = NoCache <=> drives[e].cache = NoCache
         /\ Stores(f, s) => /\ drives'[f.drive_select].cache[Offset(f, s)] = f.sector_buf
                            /\ drives'[f.drive_select].dirty
<1>1. f.drive_select \in Drive /\ f.sector_buf \in Buffer
  BY DEF SV_DiskController
<1>2. CASE Stores(f, s)
  <2>1. Offset(f, s) \in Sector
    BY <1>2, InImage DEF Stores
  <2>2. StoreSector(f.drive_select, Offset(f, s), f.sector_buf)
    BY <1>2 DEF Stored
  <2> QED
    BY <1>1, <2>1, <2>2, StoreWhole
<1>3. CASE ~Stores(f, s)
  <2>1. drives' = drives /\ files' = files
    BY <1>3 DEF Stored, diskVars
  <2> QED
    BY <1>3, <2>1 DEF CachesWhole
<1> QED
  BY <1>2, <1>3

\* A step that leaves the drives mounted as they were leaves a transfer its cache.
LEMMA KeepsCache ==
  ASSUME NEW g \in SV_DiskController, HasCache(g),
         \A e \in Drive : /\ drives'[e].mounted = drives[e].mounted
                          /\ drives'[e].cache = NoCache <=> drives[e].cache = NoCache
  PROVE  HasCache(g)'
<1>1. g.drive_select \in Drive
  BY DEF SV_DiskController
<1> QED
  BY <1>1 DEF HasCache, Disk

\* A byte of WRITE SECTOR; the last one stores the sector.
LEMMA ByteWritten ==
  ASSUME NEW f, Steady(f), HasCache(f), CachesWhole, f.writing, NEW b \in Nat, SectorByte(f, b)
  PROVE  /\ Steady(fdc') /\ HasCache(fdc)' /\ CachesWhole'
         /\ ~fdc'.writing /\ fdc'.status = {} /\ f.stable =>
              /\ drives'[f.drive_select].cache[Offset(f, f.sector)] = fdc'.sector_buf
              /\ drives'[f.drive_select].dirty
<1> DEFINE n == f.buf_pos + 1
           buf == [f.sector_buf EXCEPT ![f.buf_pos] = b]
           g == [f EXCEPT !.sector_buf = buf, !.buf_pos = n]
           done == [g EXCEPT !.writing = FALSE, !.drq = FALSE]
           st == IF Offset(f, f.sector) = NSEC THEN {"RNF"} ELSE {}
<1>1. f \in SV_DiskController
  BY Zenon DEF Steady, Ranged
<1>2. /\ f.buf_len = BUF /\ f.buf_pos < BUF /\ ~f.reading /\ ~f.read_pending /\ ~f.write_track
      /\ f.busy /\ f.owed /\ f.intrq_defer = 0 /\ f.drq
  BY Zenon DEF Steady
<1>3. f.buf_pos \in Nat /\ f.sector_buf \in Buffer /\ BUF \in Nat
  BY <1>1, FdcAssumption DEF SV_DiskController
<1>4. n \in 0 .. BUF /\ n <= BUF
  BY <1>2, <1>3
<1>5. buf \in Buffer
  BY <1>3 DEF Buffer
<1>6. [f EXCEPT !.sector_buf[f.buf_pos] = b, !.buf_pos = @ + 1] = g
  BY <1>1 DEF SV_DiskController
<1> HIDE DEF n, buf
<1>7. g \in SV_DiskController
  BY <1>1, <1>4, <1>5 DEF SV_DiskController
<1>8. /\ g.status = f.status /\ g.density = f.density /\ g.busy = f.busy /\ g.drq = f.drq
      /\ g.nmi = f.nmi /\ g.intrq = f.intrq /\ g.owed = f.owed /\ g.halted = f.halted
      /\ g.intrq_defer = f.intrq_defer /\ g.buf_pos = n /\ g.drive_select = f.drive_select
      /\ g.buf_len = f.buf_len /\ g.reading = f.reading /\ g.read_pending = f.read_pending
      /\ g.writing = f.writing /\ g.write_track = f.write_track /\ g.wt_state = f.wt_state
      /\ g.wt_id_pos = f.wt_id_pos /\ g.wt_data_pos = f.wt_data_pos /\ g.stable = f.stable
      /\ g.sector_buf = buf
  BY <1>1 DEF SV_DiskController
<1>9. g.track = f.track /\ g.side = f.side
  BY <1>1 DEF SV_DiskController
<1>10. \A s : Offset(g, s) = Offset(f, s)
  BY <1>9 DEF Offset
<1>11. Disk(g) = Disk(f)
  BY <1>8 DEF Disk
<1> HIDE DEF g
<1>12. g.buf_pos <= g.buf_len
  BY <1>2, <1>4, <1>8
<1>13. Ranged(g) /\ HasCache(g)
  BY <1>7, <1>8, <1>11, <1>12, Zenon DEF Steady, Ranged, HasCache
<1>14. /\ g.buf_pos < g.buf_len => fdc' = [g EXCEPT !.drq = TRUE] /\ UNCHANGED diskVars
       /\ ~(g.buf_pos < g.buf_len) => fdc' = Finish(done, st) /\ Stored(g, f.sector)
  BY <1>6, Zenon DEF SectorByte
<1>15. CASE g.buf_pos < g.buf_len
  <2> DEFINE h == [g EXCEPT !.drq = TRUE]
  <2>1. fdc' = h /\ drives' = drives /\ files' = files
    BY <1>14, <1>15 DEF diskVars
  <2>2. h \in SV_DiskController
    BY <1>7 DEF SV_DiskController
  <2>3. \A k \in Fields \ {"drq"} : h[k] = g[k]
    BY <1>7 DEF SV_DiskController, Fields
  <2>4. h.drq = TRUE
    BY <1>7 DEF SV_DiskController
  <2>5. g.drq = TRUE
    BY <1>2, <1>7, <1>8 DEF SV_DiskController
  <2> HIDE DEF h
  <2>6. \A k \in Fields : h[k] = g[k]
    BY <2>3, <2>4, <2>5
  <2>7. g.buf_pos < BUF /\ g.buf_len = BUF
    BY <1>2, <1>8, <1>15
  <2>8. Steady(g)
    BY <1>8, <1>13, <2>7, Zenon DEF Steady
  <2>9. Steady(h) /\ HasCache(h)
    BY <1>13, <2>2, <2>6, <2>8, SameFields, Zenon
  <2>10. h.writing = f.writing
    BY <1>8, <2>6 DEF Fields
  <2>11. CachesWhole'
    BY <2>1 DEF CachesWhole
  <2>12. Steady(fdc') /\ HasCache(fdc)' /\ fdc'.writing
    BY <2>1, <2>9, <2>10, Zenon DEF HasCache, Disk
  <2> QED
    BY <2>11, <2>12
<1>16. CASE ~(g.buf_pos < g.buf_len)
  <2>1. fdc' = Finish(done, st) /\ Stored(g, f.sector)
    BY <1>14, <1>16
  <2>2. done \in SV_DiskController
    BY <1>7 DEF SV_DiskController
  <2>3. /\ done.writing = FALSE /\ done.reading = g.reading /\ done.read_pending = g.read_pending
        /\ done.write_track = g.write_track /\ done.intrq_defer = g.intrq_defer
        /\ done.halted = g.halted /\ done.buf_pos = g.buf_pos /\ done.buf_len = g.buf_len
        /\ done.wt_state = g.wt_state /\ done.wt_id_pos = g.wt_id_pos
        /\ done.wt_data_pos = g.wt_data_pos /\ done.sector_buf = g.sector_buf
    BY <1>7 DEF SV_DiskController
  <2> HIDE DEF done
  <2>4. Ranged(done) /\ Quiet(done)
    BY <1>2, <1>8, <1>13, <2>2, <2>3, Zenon DEF Ranged, Quiet
  <2>5. st \in SUBSET (Flags \ {"BUSY"})
    BY Endings
  <2> HIDE DEF st
  <2>6. /\ Steady(fdc') /\ Quiet(fdc') /\ fdc'.sector_buf = g.sector_buf /\ fdc'.status = st
    BY <2>1, <2>3, <2>4, <2>5, Finished, Zenon
  <2>7. HasCache(fdc)'
    BY <2>6, Zenon DEF HasCache, Quiet
  <2>8. /\ CachesWhole'
        /\ Stores(g, f.sector) => /\ drives'[g.drive_select].cache[Offset(g, f.sector)] = g.sector_buf
                                  /\ drives'[g.drive_select].dirty
    BY <1>7, <2>1, StoredWhole
  <2>9. ASSUME st = {}, f.stable
        PROVE  Stores(g, f.sector)
    <3>1. Disk(g).mounted /\ Disk(g).cache # NoCache
      BY <1>8, <1>13, <2>9, Zenon DEF HasCache
    <3>2. Disk(g).cache_size = NSEC
      BY <1>7, <3>1, Selected
    <3>3. Offset(f, f.sector) # NSEC
      BY <2>9 DEF st
    <3>4. Offset(g, f.sector) < NSEC
      BY <1>1, <1>10, <3>3, Offsets, DiskAssumption DEF Sector
    <3> QED
      BY <3>1, <3>2, <3>4 DEF Stores
  <2>10. /\ g.drive_select = f.drive_select /\ Offset(g, f.sector) = Offset(f, f.sector)
    BY <1>8, <1>10
  <2>11. fdc'.status = {} /\ f.stable =>
           /\ drives'[f.drive_select].cache[Offset(f, f.sector)] = fdc'.sector_buf
           /\ drives'[f.drive_select].dirty
    BY <2>6, <2>8, <2>9, <2>10, Zenon
  <2> QED
    BY <2>6, <2>7, <2>8, <2>11, Zenon
<1> QED
  BY <1>15, <1>16

\* What a byte of WRITE TRACK leaves alone.
Besides == Fields \ {"wt_state", "wt_id_pos", "wt_data_pos"}

\* The parser's positions stay in range.
InRange(f) ==
  /\ f \in SV_DiskController
  /\ f.wt_state = "data" => f.wt_data_pos < BUF
  /\ f.wt_state = "id" => f.wt_id_pos <= 3

\* The parser keeps its positions in range and moves nothing but them.
LEMMA ParsedRange ==
  ASSUME NEW f, InRange(f), NEW b \in Nat
  PROVE  InRange(Parsed(f, b)) /\ \A k \in Besides : Parsed(f, b)[k] = f[k]
<1> DEFINE g == [f EXCEPT !.wt_f5_count = 0]
           mark == f.wt_state \in {"idle", "wait_dam"} /\ f.wt_f5_count >= 3
           r == Parsed(f, b)
<1>1. f \in SV_DiskController
  BY DEF InRange
<1>2. /\ f.wt_f5_count \in Nat /\ f.wt_id_pos \in 0 .. 4 /\ f.wt_data_pos \in 0 .. BUF
      /\ f.wt_id_sector \in Nat /\ f.sector_buf \in Buffer
      /\ f.wt_state \in {"idle", "id", "wait_dam", "data"}
  BY <1>1 DEF SV_DiskController
<1>3. g \in SV_DiskController
  BY <1>1 DEF SV_DiskController
<1>4. /\ \A k \in Fields : g[k] = f[k]
      /\ g.wt_id_sector = f.wt_id_sector /\ g.sector_buf = f.sector_buf
  BY <1>1 DEF SV_DiskController, Fields
<1>5. /\ g.wt_state = f.wt_state /\ g.wt_id_pos = f.wt_id_pos /\ g.wt_data_pos = f.wt_data_pos
      /\ \A k \in Besides : g[k] = f[k]
  BY <1>4 DEF Fields, Besides
<1>6. InRange(g)
  BY <1>3, <1>5 DEF InRange
<1>7. CASE b = F5
  <2> DEFINE n == (f.wt_f5_count + 1) % 256
             h == [f EXCEPT !.wt_f5_count = n]
  <2>1. n \in Nat
    BY <1>2
  <2> HIDE DEF n
  <2>2. h \in SV_DiskController
    BY <1>1, <2>1 DEF SV_DiskController
  <2>3. \A k \in Fields : h[k] = f[k]
    BY <1>1 DEF SV_DiskController, Fields
  <2>4. h.wt_state = f.wt_state /\ h.wt_id_pos = f.wt_id_pos /\ h.wt_data_pos = f.wt_data_pos
    BY <2>3 DEF Fields
  <2>5. Parsed(f, b) = h
    BY <1>7 DEF Parsed, n
  <2> HIDE DEF h
  <2> QED
    BY <2>2, <2>3, <2>4, <2>5 DEF InRange, Besides
<1>8. CASE b # F5 /\ mark /\ b = FE
  <2> DEFINE h == [g EXCEPT !.wt_state = "id", !.wt_id_pos = 0]
  <2>1. Parsed(f, b) = h
    BY <1>8, SMTT(30) DEF Parsed, FE, F5, FB
  <2> HIDE DEF g
  <2>2. h \in SV_DiskController
    <3>1. \A n \in 0 .. 4 : [g EXCEPT !.wt_state = "id", !.wt_id_pos = n] \in SV_DiskController
      BY <1>3 DEF SV_DiskController
    <3> QED
      BY <3>1
  <2>3. h.wt_state = "id" /\ h.wt_id_pos = 0 /\ \A k \in Besides : h[k] = g[k]
    BY <1>3 DEF SV_DiskController, Besides, Fields
  <2> HIDE DEF h
  <2> QED
    BY <1>5, <2>1, <2>2, <2>3 DEF InRange
<1>9. CASE b # F5 /\ mark /\ b = FB
  <2> DEFINE h == [g EXCEPT !.wt_state = "data", !.wt_data_pos = 0]
  <2>1. Parsed(f, b) = h
    BY <1>9 DEF Parsed, DataMark, FE, F5, FB
  <2> HIDE DEF g
  <2>2. h \in SV_DiskController
    <3>1. \A n \in 0 .. BUF : [g EXCEPT !.wt_state = "data", !.wt_data_pos = n] \in SV_DiskController
      BY <1>3 DEF SV_DiskController
    <3>2. 0 \in 0 .. BUF
      BY FdcAssumption
    <3> QED
      BY <3>1, <3>2, Zenon
  <2>3. h.wt_state = "data" /\ h.wt_data_pos = 0 /\ \A k \in Besides : h[k] = g[k]
    BY <1>3 DEF SV_DiskController, Besides, Fields
  <2> HIDE DEF h
  <2> QED
    BY <1>5, <2>1, <2>2, <2>3, FdcAssumption DEF InRange
<1>10. CASE b # F5 /\ f.wt_state = "id"
  <2> DEFINE s == IF f.wt_id_pos = 2 THEN b ELSE f.wt_id_sector
             n == f.wt_id_pos + 1
             w == IF f.wt_id_pos >= 3 THEN "wait_dam" ELSE "id"
             h == [g EXCEPT !.wt_id_sector = s, !.wt_id_pos = n, !.wt_state = w]
  <2>1. Parsed(f, b) = h
    BY <1>3, <1>4, <1>5, <1>10 DEF Parsed, FE, F5, FB, SV_DiskController
  <2>2. s \in Nat /\ w \in {"wait_dam", "id"}
    BY <1>2
  <2>3. f.wt_id_pos <= 3
    BY <1>10 DEF InRange
  <2>4. n \in 0 .. 4 /\ (w = "id" => n <= 3)
    BY <1>2, <2>3
  <2> HIDE DEF g, s, n, w
  <2>5. h \in SV_DiskController
    BY <1>3, <2>2, <2>4 DEF SV_DiskController
  <2>6. h.wt_state = w /\ h.wt_id_pos = n /\ \A k \in Besides : h[k] = g[k]
    BY <1>3 DEF SV_DiskController, Besides, Fields
  <2> HIDE DEF h
  <2> QED
    BY <1>5, <2>1, <2>2, <2>4, <2>5, <2>6 DEF InRange
<1>11. CASE b # F5 /\ f.wt_state = "data"
  <2> DEFINE buf == [f.sector_buf EXCEPT ![f.wt_data_pos] = b]
             n == f.wt_data_pos + 1
             w == IF n >= BUF THEN "idle" ELSE "data"
             h == [g EXCEPT !.sector_buf = buf, !.wt_data_pos = n, !.wt_state = w]
  <2>1. Parsed(f, b) = h
    BY <1>3, <1>4, <1>5, <1>11 DEF Parsed, FE, F5, FB, SV_DiskController
  <2>2. f.wt_data_pos < BUF
    BY <1>11 DEF InRange
  <2>3. n \in 0 .. BUF /\ w \in {"idle", "data"} /\ (w = "data" => n < BUF)
    BY <1>2, <2>2, FdcAssumption
  <2>4. buf \in Buffer
    BY <1>2 DEF Buffer
  <2> HIDE DEF g, buf, n, w
  <2>5. h \in SV_DiskController
    BY <1>3, <2>3, <2>4 DEF SV_DiskController
  <2>6. h.wt_state = w /\ h.wt_data_pos = n /\ \A k \in Besides : h[k] = g[k]
    BY <1>3 DEF SV_DiskController, Besides, Fields
  <2> HIDE DEF h
  <2> QED
    BY <1>5, <2>1, <2>3, <2>5, <2>6 DEF InRange
<1>12. CASE b # F5 /\ ~(mark /\ b = FE) /\ ~(mark /\ b = FB) /\ f.wt_state \notin {"id", "data"}
  <2>1. Parsed(f, b) = g
    BY <1>12 DEF Parsed
  <2> QED
    BY <1>5, <1>6, <2>1
<1> QED
  BY <1>7, <1>8, <1>9, <1>10, <1>11, <1>12

\* A byte of WRITE TRACK; the last byte of a sector's data stores it, the last of the
\* track ends the command.
LEMMA TrackWritten ==
  ASSUME NEW f, Steady(f), HasCache(f), CachesWhole, f.write_track, NEW b \in Nat, TrackByte(f, b)
  PROVE  Steady(fdc') /\ HasCache(fdc)' /\ CachesWhole' /\ ~f.writing
<1> DEFINE n == f.wt_byte_count + 1
           c == [f EXCEPT !.wt_byte_count = n]
           g == Parsed(c, b)
           done == [g EXCEPT !.write_track = FALSE, !.drq = FALSE]
<1>1. f \in SV_DiskController /\ InRange(f)
  BY Zenon DEF Steady, Ranged, InRange
<1>2. /\ ~f.reading /\ ~f.read_pending /\ ~f.writing /\ f.busy /\ f.owed /\ f.drq
      /\ f.intrq_defer = 0
  BY Zenon DEF Steady
<1>3. n \in Nat
  BY <1>1 DEF SV_DiskController
<1>4. c = [f EXCEPT !.wt_byte_count = @ + 1]
  BY <1>1 DEF SV_DiskController
<1> HIDE DEF n
<1>5. c \in SV_DiskController
  BY <1>1, <1>3 DEF SV_DiskController
<1>6. \A k \in Fields : c[k] = f[k]
  BY <1>1 DEF SV_DiskController, Fields
<1> HIDE DEF c
<1>7. InRange(c)
  BY <1>1, <1>5, <1>6 DEF InRange, Fields
<1>8. InRange(g) /\ \A k \in Besides : g[k] = c[k]
  BY <1>7, ParsedRange
<1> HIDE DEF g
<1>9. \A k \in Besides : g[k] = f[k]
  BY <1>6, <1>8 DEF Besides
<1>10. /\ g.status = f.status /\ g.density = f.density /\ g.busy = f.busy /\ g.drq = f.drq
       /\ g.nmi = f.nmi /\ g.intrq = f.intrq /\ g.owed = f.owed /\ g.halted = f.halted
       /\ g.intrq_defer = f.intrq_defer /\ g.buf_pos = f.buf_pos /\ g.drive_select = f.drive_select
       /\ g.buf_len = f.buf_len /\ g.reading = f.reading /\ g.read_pending = f.read_pending
       /\ g.writing = f.writing /\ g.write_track = f.write_track /\ g.stable = f.stable
  BY <1>9 DEF Besides, Fields
<1>11. g \in SV_DiskController
  BY <1>8 DEF InRange
<1>12. Ranged(g)
  BY <1>8, <1>10, Zenon DEF Steady, Ranged, InRange
<1>13. Steady(g) /\ HasCache(g)
  BY <1>2, <1>10, <1>12, Zenon DEF Steady, HasCache, Disk
<1>14. /\ fdc' = IF g.wt_byte_count < WT_TRACK_BYTES THEN SetDrq(g) ELSE Finish(done, {})
       /\ Stored(g, g.wt_id_sector) \/ UNCHANGED diskVars
  BY <1>4, Zenon DEF TrackByte, g
<1>15. /\ CachesWhole'
       /\ \A e \in Drive : /\ drives'[e].mounted = drives[e].mounted
                           /\ drives'[e].cache = NoCache <=> drives[e].cache = NoCache
  <2>1. CASE Stored(g, g.wt_id_sector)
    BY <1>11, <2>1, StoredWhole
  <2>2. CASE UNCHANGED diskVars
    BY <2>2 DEF diskVars, CachesWhole
  <2> QED
    BY <1>14, <2>1, <2>2
<1>16. CASE g.wt_byte_count < WT_TRACK_BYTES
  <2> DEFINE h == [g EXCEPT !.drq = TRUE, !.halted = FALSE]
  <2>1. fdc' = h
    BY <1>14, <1>16 DEF SetDrq
  <2>2. h \in SV_DiskController
    BY <1>11 DEF SV_DiskController
  <2>3. h.drq = TRUE /\ h.halted = FALSE /\ \A k \in Fields \ {"drq", "halted"} : h[k] = g[k]
    BY <1>11 DEF SV_DiskController, Fields
  <2> HIDE DEF h
  <2>4. g.drq = TRUE /\ g.halted = FALSE
    <3>1. g.drq \in BOOLEAN /\ g.halted \in BOOLEAN
      BY <1>11 DEF SV_DiskController
    <3>2. g.drq /\ ~g.halted
      BY <1>2, <1>10, <1>12, Zenon DEF Ranged
    <3> QED
      BY <3>1, <3>2, Zenon
  <2>5. \A k \in Fields : h[k] = g[k]
    BY <2>3, <2>4
  <2>6. Steady(h) /\ HasCache(h)
    BY <1>13, <2>2, <2>5, SameFields, Zenon
  <2>7. h.drive_select \in Drive
    BY <2>2 DEF SV_DiskController
  <2>8. HasCache(fdc)'
    BY <1>15, <2>1, <2>6, <2>7 DEF HasCache, Disk
  <2> QED
    BY <1>2, <1>15, <2>1, <2>6, <2>8
<1>17. CASE ~(g.wt_byte_count < WT_TRACK_BYTES)
  <2>1. fdc' = Finish(done, {})
    BY <1>14, <1>17
  <2>2. done \in SV_DiskController
    BY <1>11 DEF SV_DiskController
  <2>3. /\ done.write_track = FALSE /\ done.reading = g.reading /\ done.read_pending = g.read_pending
        /\ done.writing = g.writing /\ done.intrq_defer = g.intrq_defer
        /\ done.halted = g.halted /\ done.buf_pos = g.buf_pos /\ done.buf_len = g.buf_len
        /\ done.wt_state = g.wt_state /\ done.wt_id_pos = g.wt_id_pos
        /\ done.wt_data_pos = g.wt_data_pos
    BY <1>11 DEF SV_DiskController
  <2> HIDE DEF done
  <2>4. Ranged(done) /\ Quiet(done)
    BY <1>2, <1>10, <1>12, <2>2, <2>3, Zenon DEF Ranged, Quiet
  <2>5. Steady(fdc') /\ Quiet(fdc')
    BY <2>1, <2>4, Endings, Finished, Zenon
  <2> QED
    BY <1>2, <1>15, <2>5 DEF HasCache, Quiet
<1> QED
  BY <1>16, <1>17

-----------------------------------------------------------------------------
(* The drive table, as the controller finds it.                             *)

\* What CachesWhole says of one drive.
Cached(img) ==
  /\ img \in [mounted : BOOLEAN, dirty : BOOLEAN, read_only : BOOLEAN,
              path : {NoFile} \cup File, cache : {NoCache} \cup [Sector -> Buffer],
              cache_size : {0, NSEC}, dirty_map : {NoMap} \cup SUBSET Sector]
  /\ img.mounted => img.cache # NoCache /\ img.cache_size = NSEC

\* A step that gives one drive an image with its cache.
LEMMA OneCached ==
  ASSUME CachesWhole, NEW d \in Drive, NEW img, Cached(img), drives' = [drives EXCEPT ![d] = img],
         files' \in [File -> [Sector -> Buffer]]
  PROVE  CachesWhole'
<1> DEFINE Img == [mounted : BOOLEAN, dirty : BOOLEAN, read_only : BOOLEAN,
                   path : {NoFile} \cup File, cache : {NoCache} \cup [Sector -> Buffer],
                   cache_size : {0, NSEC}, dirty_map : {NoMap} \cup SUBSET Sector]
<1>1. drives \in [Drive -> Img] /\ img \in Img
  BY DEF CachesWhole, Cached
<1>2. \A e \in Drive : drives[e].mounted => drives[e].cache # NoCache /\ drives[e].cache_size = NSEC
  BY DEF CachesWhole
<1> HIDE DEF Img
<1>3. /\ drives' \in [Drive -> Img] /\ drives'[d] = img
      /\ \A e \in Drive : e # d => drives'[e] = drives[e]
  BY <1>1
<1>4. \A e \in Drive : drives'[e].mounted => drives'[e].cache # NoCache /\ drives'[e].cache_size = NSEC
  BY <1>2, <1>3 DEF Cached
<1> QED
  BY <1>3, <1>4 DEF CachesWhole, Img

\* A flush leaves whole images on the card.
LEMMA FlushedWhole ==
  ASSUME CachesWhole, NEW d \in Drive, NEW opens, NEW saved
  PROVE  FlushTo(drives[d], opens, saved) \in [File -> [Sector -> Buffer]]
<1> DEFINE img == drives[d]
           saving == [s \in Sector |-> IF s \in saved THEN img.cache[s] ELSE files[img.path][s]]
<1>1. /\ img.cache \in {NoCache} \cup [Sector -> Buffer] /\ img.path \in {NoFile} \cup File
      /\ files \in [File -> [Sector -> Buffer]]
  BY DEF CachesWhole
<1>2. CASE ~(MustFlush(img) /\ opens) \/ img.path \notin File
  BY <1>1, <1>2 DEF FlushTo
<1>3. CASE MustFlush(img) /\ opens /\ img.path \in File
  <2>1. img.cache \in [Sector -> Buffer] /\ files[img.path] \in [Sector -> Buffer]
    BY <1>1, <1>3 DEF MustFlush
  <2>2. saving \in [Sector -> Buffer]
    BY <2>1
  <2>3. FlushTo(img, opens, saved) = [files EXCEPT ![img.path] = saving]
    BY <1>1, <1>3 DEF FlushTo
  <2> HIDE DEF saving
  <2> QED
    BY <1>1, <2>2, <2>3
<1> QED
  BY <1>2, <1>3

\* An ejected drive, and one that was empty.
LEMMA LeftCached ==
  ASSUME CachesWhole, NEW d \in Drive
  PROVE  Cached(Left(drives[d])) /\ ~Left(drives[d]).mounted
<1> DEFINE img == drives[d]
<1>1. Cached(img)
  BY DEF CachesWhole, Cached
<1> HIDE DEF img
<1>2. Cached(Left(img)) /\ ~Left(img).mounted
  BY <1>1, DiskAssumption DEF Left, Ejected, EmptyDrive, Cached
<1> QED
  BY <1>2 DEF img

\* Whatever the user and the debug server do, a mounted drive has its cache.
LEMMA DriveTableWhole ==
  ASSUME CachesWhole, DriveTable
  PROVE  CachesWhole'
<1>1. PICK d \in Drive : \E opens \in Opens, saved \in Saved(drives[d]) :
        \/ Flush(d, opens, saved)
        \/ Eject(d, opens, saved)
        \/ \E f \in File :
             \/ \E why \in MountFault : MountFails(d, f, why, opens, saved)
             \/ \E upto \in Load, map \in Map, ro \in ReadOnly : Mount(d, f, upto, map, ro, opens, saved)
  BY Zenon DEF DriveTable
<1>8. PICK opens \in Opens, saved \in Saved(drives[d]) :
        \/ Flush(d, opens, saved)
        \/ Eject(d, opens, saved)
        \/ \E f \in File :
             \/ \E why \in MountFault : MountFails(d, f, why, opens, saved)
             \/ \E upto \in Load, map \in Map, ro \in ReadOnly : Mount(d, f, upto, map, ro, opens, saved)
  BY <1>1, Zenon
<1> DEFINE img == drives[d]
           left == Left(img)
<1>2. FlushTo(drives[d], opens, saved) \in [File -> [Sector -> Buffer]]
  BY FlushedWhole
<1>3. Cached(img) /\ Cached(left) /\ ~left.mounted
  BY LeftCached DEF CachesWhole, Cached
<1>4. CASE Flush(d, opens, saved)
  <2>1. drives' = [drives EXCEPT ![d] = Flushed(img, opens)] /\ files' = FlushTo(drives[d], opens, saved)
    BY <1>4 DEF Flush
  <2> HIDE DEF img
  <2>2. Cached(Flushed(img, opens))
    BY <1>3 DEF Flushed, Cached
  <2> QED
    BY <1>2, <2>1, <2>2, OneCached
<1>5. CASE Eject(d, opens, saved)
  <2>1. drives' = [drives EXCEPT ![d] = left] /\ files' = FlushTo(drives[d], opens, saved)
    BY <1>5 DEF Eject, Leave, EjectFiles
  <2> QED
    BY <1>2, <1>3, <2>1, OneCached
<1>6. ASSUME NEW f \in File, NEW why \in MountFault, MountFails(d, f, why, opens, saved)
      PROVE  CachesWhole'
  <2> DEFINE new == CASE why = "open" -> left
                      [] why = "geometry" -> [left EXCEPT !.path = f, !.read_only = FALSE, !.dirty = FALSE]
                      [] why = "memory" -> [left EXCEPT !.path = f, !.read_only = FALSE, !.dirty = FALSE,
                                                        !.cache_size = NSEC]
  <2>1. drives' = [drives EXCEPT ![d] = new] /\ files' = FlushTo(drives[d], opens, saved)
    BY <1>6 DEF MountFails, Leave, EjectFiles
  <2>2. why \in {"open", "geometry", "memory"}
    BY DEF MountFault
  <2> HIDE DEF left
  <2>3. Cached(new)
    <3>1. CASE why = "open"
      BY <1>3, <3>1
    <3>2. CASE why = "geometry"
      BY <1>3, <3>2 DEF Cached
    <3>3. CASE why = "memory"
      BY <1>3, <3>3 DEF Cached
    <3> QED
      BY <2>2, <3>1, <3>2, <3>3
  <2> HIDE DEF new
  <2> QED
    BY <1>2, <2>1, <2>3, OneCached
<1>7. ASSUME NEW f \in File, NEW upto \in Load, NEW map \in Map, NEW ro \in ReadOnly,
             Mount(d, f, upto, map, ro, opens, saved)
      PROVE  CachesWhole'
  <2> DEFINE cache == [s \in Sector |-> IF s < upto THEN files'[f][s] ELSE Fill]
             dm == IF map THEN {} ELSE NoMap
             new == [mounted |-> TRUE, dirty |-> FALSE, read_only |-> ro, path |-> f, cache |-> cache,
                     cache_size |-> NSEC, dirty_map |-> dm]
  <2>1. drives' = [drives EXCEPT ![d] = new] /\ files' = FlushTo(drives[d], opens, saved)
    BY <1>7 DEF Mount, Leave, EjectFiles
  <2>2. files'[f] \in [Sector -> Buffer] /\ Fill \in Buffer
    BY <1>2, <2>1, DiskAssumption, BufferAssumption
  <2>3. cache \in [Sector -> Buffer]
    BY <2>2
  <2>4. cache # NoCache
    BY <2>3, BufferAssumption
  <2>5. dm \in {NoMap} \cup SUBSET Sector /\ ro \in BOOLEAN
    BY DEF ReadOnly
  <2> HIDE DEF cache, dm
  <2>6. Cached(new)
    BY <2>3, <2>4, <2>5 DEF Cached
  <2> HIDE DEF new
  <2> QED
    BY <1>2, <2>1, <2>6, OneCached
<1> QED
  BY <1>4, <1>5, <1>6, <1>7, <1>8, Zenon

\* The images may change under a transfer; then it is no longer stable.
LEMMA DriveTableSteady ==
  ASSUME Steady(fdc), HasCache(fdc), CachesWhole, DriveTableChange
  PROVE  Steady(fdc') /\ HasCache(fdc)' /\ CachesWhole' /\ fdc'.writing = fdc.writing
<1> DEFINE st == fdc.stable /\ drives'[fdc.drive_select] = drives[fdc.drive_select]
           g == [fdc EXCEPT !.stable = st]
<1>1. fdc \in SV_DiskController
  BY Zenon DEF Steady, Ranged
<1>2. fdc' = g
  BY <1>1 DEF DriveTableChange, SV_DiskController
<1>3. st \in BOOLEAN /\ (st => fdc.stable /\ drives'[fdc.drive_select] = drives[fdc.drive_select])
  OBVIOUS
<1>4. CachesWhole'
  BY DriveTableWhole DEF DriveTableChange
<1> HIDE DEF st
<1>5. g \in SV_DiskController
  BY <1>1, <1>3 DEF SV_DiskController
<1>6. g.stable = st /\ \A k \in Fields \ {"stable"} : g[k] = fdc[k]
  BY <1>1 DEF SV_DiskController, Fields
<1> HIDE DEF g
<1>7. /\ g.status = fdc.status /\ g.density = fdc.density /\ g.busy = fdc.busy /\ g.drq = fdc.drq
      /\ g.nmi = fdc.nmi /\ g.intrq = fdc.intrq /\ g.owed = fdc.owed /\ g.halted = fdc.halted
      /\ g.intrq_defer = fdc.intrq_defer /\ g.buf_pos = fdc.buf_pos
      /\ g.drive_select = fdc.drive_select
      /\ g.buf_len = fdc.buf_len /\ g.reading = fdc.reading /\ g.read_pending = fdc.read_pending
      /\ g.writing = fdc.writing /\ g.write_track = fdc.write_track /\ g.wt_state = fdc.wt_state
      /\ g.wt_id_pos = fdc.wt_id_pos /\ g.wt_data_pos = fdc.wt_data_pos
  BY <1>6 DEF Fields
<1>8. Ranged(g)
  BY <1>5, <1>7, Zenon DEF Steady, Ranged
<1>9. Steady(g)
  BY <1>7, <1>8, Zenon DEF Steady
<1>10. HasCache(fdc)'
  BY <1>2, <1>3, <1>6, <1>7, Zenon DEF HasCache, Disk
<1> QED
  BY <1>2, <1>4, <1>7, <1>9, <1>10, Zenon

-----------------------------------------------------------------------------
(* Every step.                                                              *)

\* A sector write over its whole buffer, without an error flag, from a drive nobody
\* changed; and what the cache then holds.
Completes == fdc.writing /\ ~fdc'.writing /\ fdc'.buf_pos = BUF /\ fdc'.status = {} /\ fdc.stable
IsStored ==
  /\ drives'[fdc.drive_select].cache[Offset(fdc, fdc.sector)] = fdc'.sector_buf
  /\ drives'[fdc.drive_select].dirty

\* A step that leaves the drive table alone and keeps the controller steady.
LEMMA TableKept ==
  ASSUME CachesWhole, UNCHANGED diskVars, Steady(fdc'), HasCache(fdc')
  PROVE  HasCache(fdc)' /\ CachesWhole'
<1>1. drives' = drives /\ files' = files
  BY DEF diskVars
<1>2. HasCache(fdc)'
  BY <1>1, Zenon DEF HasCache, Disk
<1> QED
  BY <1>1, <1>2 DEF CachesWhole

\* A command that interrupts a sector write leaves its buffer position short of the end.
LEMMA CommandKeeps ==
  ASSUME Steady(fdc), CachesWhole, Obeys(fdc, fdc'), UNCHANGED diskVars
  PROVE  Steady(fdc') /\ HasCache(fdc)' /\ CachesWhole' /\ ~Completes
<1>1. Steady(fdc') /\ HasCache(fdc') /\ fdc'.buf_pos \in {fdc.buf_pos, 0}
  BY Zenon DEF Obeys
<1>2. fdc \in SV_DiskController
  BY Zenon DEF Steady, Ranged
<1>3. fdc.writing => fdc.buf_pos < BUF
  BY Zenon DEF Steady
<1>4. fdc.buf_pos \in Nat /\ 0 # BUF
  BY <1>2, FdcAssumption DEF SV_DiskController
<1>5. fdc.writing => fdc'.buf_pos # BUF
  BY <1>1, <1>3, <1>4
<1>6. ~Completes
  BY <1>5, Zenon DEF Completes
<1> QED
  BY <1>1, <1>6, TableKept, Zenon

\* A write of the data register.
LEMMA WriteDataSteady ==
  ASSUME Steady(fdc), HasCache(fdc), CachesWhole, NEW b \in Nat, WriteData(b)
  PROVE  Steady(fdc') /\ HasCache(fdc)' /\ CachesWhole' /\ (Completes => IsStored)
<1> DEFINE f == [fdc EXCEPT !.data = b]
<1>1. fdc \in SV_DiskController
  BY Zenon DEF Steady, Ranged
<1>2. Steady(f) /\ HasCache(f)
  BY RegisterWritten, Zenon
<1>3. /\ f.writing = fdc.writing /\ f.write_track = fdc.write_track /\ f.drive_select = fdc.drive_select
      /\ f.sector = fdc.sector /\ f.track = fdc.track /\ f.side = fdc.side /\ f.stable = fdc.stable
  BY <1>1 DEF SV_DiskController
<1>4. /\ f.write_track => TrackByte(f, b)
      /\ ~f.write_track /\ f.writing /\ f.buf_pos < f.buf_len => SectorByte(f, b)
      /\ ~f.write_track /\ ~(f.writing /\ f.buf_pos < f.buf_len) => fdc' = f /\ UNCHANGED diskVars
  BY Zenon DEF WriteData
<1> HIDE DEF f
<1>5. CASE f.write_track
  <2>1. Steady(fdc') /\ HasCache(fdc)' /\ CachesWhole' /\ ~f.writing
    BY <1>2, <1>4, <1>5, TrackWritten, Zenon
  <2> QED
    BY <1>3, <2>1, Zenon DEF Completes
<1>6. CASE ~f.write_track /\ f.writing /\ f.buf_pos < f.buf_len
  <2>1. /\ Steady(fdc') /\ HasCache(fdc)' /\ CachesWhole'
        /\ ~fdc'.writing /\ fdc'.status = {} /\ f.stable =>
             /\ drives'[f.drive_select].cache[Offset(f, f.sector)] = fdc'.sector_buf
             /\ drives'[f.drive_select].dirty
    BY <1>2, <1>4, <1>6, ByteWritten, Zenon
  <2>2. Offset(f, f.sector) = Offset(fdc, fdc.sector)
    BY <1>3 DEF Offset
  <2> QED
    BY <1>3, <2>1, <2>2, Zenon DEF Completes, IsStored
<1>7. CASE ~f.write_track /\ ~(f.writing /\ f.buf_pos < f.buf_len)
  <2>1. fdc' = f /\ UNCHANGED diskVars
    BY <1>4, <1>7, Zenon
  <2>2. Steady(fdc') /\ HasCache(fdc') /\ fdc'.writing = fdc.writing
    BY <1>2, <1>3, <2>1, Zenon
  <2> QED
    BY <2>1, <2>2, TableKept, Zenon DEF Completes
<1> QED
  BY <1>5, <1>6, <1>7, Zenon

\* Every step keeps the controller steady, and a sector write that completes is stored.
LEMMA FdcStep ==
  ASSUME Steady(fdc), HasCache(fdc), CachesWhole, FdcNext
  PROVE  Steady(fdc') /\ HasCache(fdc)' /\ CachesWhole' /\ (Completes => IsStored)
<1>1. ASSUME NEW cmd \in Command \ Steps, WriteCommand(cmd)
      PROVE  Steady(fdc') /\ HasCache(fdc)' /\ CachesWhole' /\ (Completes => IsStored)
  <2>1. fdc' = Executed(Begin(fdc), cmd) /\ UNCHANGED diskVars
    BY <1>1, Zenon DEF WriteCommand
  <2>2. cmd \in Kinds \ Steps
    BY FdcAssumption
  <2>3. Obeys(fdc, fdc')
    BY <2>1, <2>2, CommandObeys, Zenon
  <2> QED
    BY <2>1, <2>3, CommandKeeps, Zenon
<1>2. ASSUME NEW kind \in Command \cap Steps, NEW update \in BOOLEAN, WriteStep(kind, update)
      PROVE  Steady(fdc') /\ HasCache(fdc)' /\ CachesWhole' /\ (Completes => IsStored)
  <2>1. fdc' = Stepped(Begin(fdc), kind, update) /\ UNCHANGED diskVars
    BY <1>2, Zenon DEF WriteStep
  <2>2. Obeys(fdc, fdc')
    BY <2>1, StepObeys, Zenon
  <2> QED
    BY <2>1, <2>2, CommandKeeps, Zenon
<1>3. CASE ReadStatus
  <2>1. fdc' = SetIntrq(fdc, FALSE) /\ UNCHANGED diskVars
    BY <1>3, Zenon DEF ReadStatus
  <2>2. Steady(fdc') /\ HasCache(fdc') /\ fdc'.writing = fdc.writing
    BY <2>1, Acknowledged, Zenon
  <2> QED
    BY <2>1, <2>2, TableKept, Zenon DEF Completes
<1>4. ASSUME NEW n \in Nat, WriteTrackReg(n) \/ WriteSectorReg(n)
      PROVE  Steady(fdc') /\ HasCache(fdc)' /\ CachesWhole' /\ (Completes => IsStored)
  <2>1. /\ fdc' = [fdc EXCEPT !.track = n] \/ fdc' = [fdc EXCEPT !.sector = n]
        /\ UNCHANGED diskVars
    BY <1>4, Zenon DEF WriteTrackReg, WriteSectorReg
  <2>2. Steady(fdc') /\ HasCache(fdc')
    BY <2>1, RegisterWritten, Zenon
  <2>3. fdc \in SV_DiskController
    BY Zenon DEF Steady, Ranged
  <2>4. fdc'.writing = fdc.writing
    BY <2>1, <2>3 DEF SV_DiskController
  <2> QED
    BY <2>1, <2>2, <2>4, TableKept, Zenon DEF Completes
<1>5. CASE ReadData
  <2>1. Steady(fdc') /\ HasCache(fdc)' /\ (fdc.writing => fdc'.writing)
    BY <1>5, ReadDataSteady, Zenon
  <2>2. CachesWhole'
    BY <1>5 DEF ReadData, diskVars, CachesWhole
  <2> QED
    BY <2>1, <2>2, Zenon DEF Completes
<1>6. ASSUME NEW b \in Byte, WriteData(b)
      PROVE  Steady(fdc') /\ HasCache(fdc)' /\ CachesWhole' /\ (Completes => IsStored)
  <2>1. b \in Nat
    BY FdcAssumption
  <2> QED
    BY <1>6, <2>1, WriteDataSteady, Zenon
<1>7. ASSUME NEW d \in Drive, NEW density \in BOOLEAN, NEW halt \in BOOLEAN,
             WriteDskreg(d, 0, density, halt)
      PROVE  Steady(fdc') /\ HasCache(fdc)' /\ CachesWhole' /\ (Completes => IsStored)
  <2>1. fdc' = DskregSet(fdc, d, 0, density, halt) /\ UNCHANGED diskVars
    BY <1>7, Zenon DEF WriteDskreg
  <2>2. Steady(fdc') /\ HasCache(fdc') /\ fdc'.writing = fdc.writing
    BY <2>1, DskregWritten, Zenon
  <2> QED
    BY <2>1, <2>2, TableKept, Zenon DEF Completes
<1>8. CASE Tick
  <2>1. Steady(fdc') /\ HasCache(fdc)' /\ ~fdc.writing
    BY <1>8, TickSteady, Zenon
  <2>2. CachesWhole'
    BY <1>8 DEF Tick, diskVars, CachesWhole
  <2> QED
    BY <2>1, <2>2, Zenon DEF Completes
<1>9. CASE DriveTableChange
  BY <1>9, DriveTableSteady, Zenon DEF Completes
<1>10. /\ \A t \in Track : t \in Nat
       /\ \A s \in SectorNo : s \in Nat
  BY FdcAssumption
<1> QED
  BY <1>1, <1>2, <1>3, <1>4, <1>5, <1>6, <1>7, <1>8, <1>9, <1>10, Zenon DEF FdcNext, Bus

\* The controller at power-on, before any image is mounted.
LEMMA FdcStarts ==
  ASSUME FdcInit
  PROVE  FdcIInv
<1> DEFINE d0 == CHOOSE d \in Drive : TRUE
           zero == [i \in 0 .. BUF - 1 |-> 0]
<1>1. d0 \in Drive /\ zero \in Buffer /\ 0 \in 0 .. BUF /\ 0 \in {0, BUF} /\ BUF \in Nat \ {0}
  BY FdcAssumption DEF Buffer
<1>2. {"TRACK0"} \in SUBSET Flags
  BY DEF Flags
<1>3. fdc = [status |-> {"TRACK0"}, track |-> 0, sector |-> 0, data |-> 0,
             drive_select |-> d0, halt_enable |-> FALSE, density |-> FALSE,
             side |-> 0, busy |-> FALSE, drq |-> FALSE, intrq |-> FALSE, intrq_defer |-> 0,
             step_direction |-> -1, sector_buf |-> zero, buf_pos |-> 0, buf_len |-> 0,
             reading |-> FALSE, read_pending |-> FALSE, writing |-> FALSE, write_track |-> FALSE,
             wt_state |-> "idle", wt_f5_count |-> 0, wt_id_pos |-> 0, wt_id_sector |-> 1,
             wt_data_pos |-> 0, wt_byte_count |-> 0,
             nmi |-> FALSE, halted |-> FALSE, owed |-> FALSE, stable |-> FALSE]
  BY DEF FdcInit
<1> HIDE DEF d0, zero
<1>4. fdc \in SV_DiskController
  BY <1>1, <1>2, <1>3 DEF SV_DiskController
<1>5. /\ fdc.status = {"TRACK0"} /\ fdc.busy = FALSE /\ fdc.drq = FALSE /\ fdc.intrq = FALSE
      /\ fdc.nmi = FALSE /\ fdc.density = FALSE /\ fdc.halted = FALSE /\ fdc.owed = FALSE
      /\ fdc.intrq_defer = 0 /\ fdc.buf_pos = 0 /\ fdc.buf_len = 0 /\ fdc.reading = FALSE
      /\ fdc.read_pending = FALSE /\ fdc.writing = FALSE /\ fdc.write_track = FALSE
      /\ fdc.wt_state = "idle" /\ fdc.stable = FALSE
  BY <1>3
<1>6. /\ fdc.buf_pos <= fdc.buf_len /\ fdc.wt_state # "data" /\ fdc.wt_state # "id"
      /\ "BUSY" \notin fdc.status /\ ~(fdc.intrq_defer > 0)
  BY <1>5
<1>7. Ranged(fdc)
  BY <1>4, <1>5, <1>6, Zenon DEF Ranged
<1>8. fdc.nmi = (fdc.intrq /\ ~fdc.density)
  BY <1>5, Zenon
<1>9. Steady(fdc) /\ HasCache(fdc)
  BY <1>5, <1>6, <1>7, <1>8, Zenon DEF Steady, HasCache
<1>10. Cached(EmptyDrive) /\ ~EmptyDrive.mounted
  BY DEF Cached, EmptyDrive
<1>11. drives = [d \in Drive |-> EmptyDrive] /\ files \in [File -> [Sector -> Val \ {Fill}]]
  BY DEF FdcInit, DiskInit
<1>12. files \in [File -> [Sector -> Buffer]]
  BY <1>11, BufferAssumption
<1>13. CachesWhole
  <2> DEFINE img == EmptyDrive
  <2>1. Cached(img) /\ ~img.mounted /\ drives = [d \in Drive |-> img]
    BY <1>10, <1>11
  <2> HIDE DEF img
  <2> QED
    BY <1>12, <2>1 DEF CachesWhole, Cached
<1> QED
  BY <1>9, <1>13, InvParts, Zenon

\* The inductive invariant of the controller.
LEMMA FdcIInvHolds == FdcSpec => []FdcIInv
<1>1. FdcInit => FdcIInv
  BY FdcStarts
<1>2. FdcIInv /\ [FdcNext]_fdcVars => FdcIInv'
  <2> SUFFICES ASSUME FdcIInv, [FdcNext]_fdcVars
               PROVE  FdcIInv'
    OBVIOUS
  <2>1. Steady(fdc) /\ HasCache(fdc) /\ CachesWhole
    BY InvParts, Zenon
  <2>2. CASE FdcNext
    <3>1. Steady(fdc') /\ HasCache(fdc)' /\ CachesWhole'
      BY <2>1, <2>2, FdcStep, Zenon
    <3>2. Steady(fdc)' /\ HasCache(fdc)' /\ CachesWhole'
      BY <3>1, Zenon DEF Steady, Ranged
    <3> QED
      BY <3>2, InvParts, PTL
  <2>3. CASE UNCHANGED fdcVars
    BY <2>3, Zenon DEF fdcVars, diskVars, FdcIInv, FdcInv, FdcTypeOK, LinesAgree, NmiFollows, BusyAgrees,
              TransferHasCache, NeverHalted, InterruptsOnce, TransferHasRoom, CachesWhole, Disk
  <2> QED
    BY <2>2, <2>3
<1> QED
  BY <1>1, <1>2, PTL DEF FdcSpec

\* Whatever the CPU, the scanlines and the drive table do, in any order: the buffers stay
\* in bounds, NMI and status agree with the controller, a transfer has its cache and
\* the CPU is never left halted.
THEOREM FdcCorrect == FdcSpec => []FdcInv
<1>1. FdcIInv => FdcInv
  BY DEF FdcIInv
<1> QED
  BY <1>1, FdcIInvHolds, PTL

\* Each command interrupts exactly once, at once or when its countdown ends, and none
\* is left to a command it no longer belongs to.
THEOREM FdcOnce == FdcSpec => []InterruptsOnce
<1>1. FdcIInv => InterruptsOnce
  BY DEF FdcIInv
<1> QED
  BY <1>1, FdcIInvHolds, PTL

\* A sector write that ends without an error flag is in the cache and marked dirty.
THEOREM FdcStores == FdcSpec => WriteIsStored
<1> DEFINE Stored2 ==
      fdc.writing /\ ~fdc'.writing /\ fdc'.buf_pos = BUF /\ fdc'.intrq /\ fdc'.status = {} /\ fdc.stable
        => /\ drives'[fdc.drive_select].cache[Offset(fdc, fdc.sector)] = fdc'.sector_buf
           /\ drives'[fdc.drive_select].dirty
<1>1. FdcIInv /\ [FdcNext]_fdcVars => [Stored2]_fdcVars
  <2> SUFFICES ASSUME FdcIInv, FdcNext
               PROVE  Stored2
    OBVIOUS
  <2>1. Steady(fdc) /\ HasCache(fdc) /\ CachesWhole
    BY InvParts, Zenon
  <2>2. Completes => IsStored
    BY <2>1, FdcStep, Zenon
  <2> QED
    BY <2>2, Zenon DEF Completes, IsStored
<1> QED
  BY <1>1, FdcIInvHolds, PTL DEF FdcSpec, WriteIsStored

-----------------------------------------------------------------------------
(* The geometry of an image file.                                           *)

\* A track holds something.
LEMMA TrackPositive == TrackSize \in Nat \ {0}
<1>1. \A m, n \in Nat \ {0} : m * n \in Nat \ {0}
  OBVIOUS
<1> QED
  BY <1>1, GeometryAssumption DEF TrackSize

\* What is left of a file behind its header is what it holds, or so much that it cannot be a disk.
LEMMA DataBehindHeader ==
  ASSUME NEW e \in {"dsk", "vdk"}, NEW size \in 0 .. UINT_MOD - 1
  PROVE  /\ DataSize(e, size) \in Nat /\ HeaderSize(e, size) \in Nat
         /\ DataSize(e, size) + HeaderSize(e, size) <= size \/ DataSize(e, size) >= 511 * TrackSize
<1>0. UINT_MOD \in Nat \ {0} /\ UINT_MOD >= 511 * TrackSize + 24 /\ TrackSize \in Nat /\ DISK_SECTOR_SIZE \in Nat \ {0}
  BY TrackPositive, GeometryAssumption DEF TrackSize
<1>1. \A a, b \in 0 .. UINT_MOD - 1 : Minus(a, b) = IF a >= b THEN a - b ELSE a + UINT_MOD - b
  <2> TAKE a, b \in 0 .. UINT_MOD - 1
  <2> DEFINE c == a + UINT_MOD - b
  <2>1. c \in 0 .. 2 * UINT_MOD - 1
    BY <1>0
  <2>2. c % UINT_MOD = IF c < UINT_MOD THEN c ELSE c - UINT_MOD
    <3> HIDE DEF c
    <3> QED
      BY <1>0, <2>1, ModNear
  <2> QED
    BY <1>0, <2>2 DEF Minus
<1>2. CASE e = "dsk"
  <2> DEFINE h == size % DISK_SECTOR_SIZE
  <2>1. h \in Nat /\ h <= size
    BY <1>0
  <2>2. HeaderSize(e, size) = h /\ DataSize(e, size) = Minus(size, h)
    BY <1>2 DEF HeaderSize, DataSize
  <2> HIDE DEF h
  <2> QED
    BY <1>0, <1>1, <2>1, <2>2
<1>3. CASE e = "vdk"
  <2>1. HeaderSize(e, size) = 12 /\ DataSize(e, size) = Minus(Minus(size, 12), 12)
    BY <1>3 DEF HeaderSize, DataSize, VdkHeader
  <2>2. 12 \in 0 .. UINT_MOD - 1
    BY <1>0
  <2>3. CASE size >= 12
    <3>1. Minus(size, 12) = size - 12 /\ size - 12 \in 0 .. UINT_MOD - 1
      BY <1>0, <1>1, <2>2, <2>3
    <3> DEFINE r == size - 12
    <3>2. DataSize(e, size) = IF r >= 12 THEN r - 12 ELSE r + UINT_MOD - 12
      BY <1>1, <2>1, <2>2, <3>1
    <3> QED
      BY <1>0, <2>1, <2>3, <3>2
  <2>4. CASE size < 12
    <3>1. Minus(size, 12) = size + UINT_MOD - 12 /\ size + UINT_MOD - 12 \in 0 .. UINT_MOD - 1
      BY <1>0, <1>1, <2>2, <2>4
    <3> DEFINE r == size + UINT_MOD - 12
    <3>2. DataSize(e, size) = IF r >= 12 THEN r - 12 ELSE r + UINT_MOD - 12
      BY <1>1, <2>1, <2>2, <3>1
    <3> QED
      BY <1>0, <2>1, <2>4, <3>2
  <2> QED
    BY <2>3, <2>4
<1> QED
  BY <1>2, <1>3

\* A disk has one or two sides, and no more whole tracks than the file.
LEMMA Detected ==
  ASSUME NEW e \in {"dsk", "vdk"}, NEW size \in 0 .. UINT_MOD - 1, DetectGeometry(e, size).ok
  PROVE  LET g == DetectGeometry(e, size)
         IN  /\ g.tracks \in Nat /\ g.sides \in {1, 2} /\ g.header_size \in Nat
             /\ g.header_size + CacheSize(g) <= size
<1> DEFINE d == DataSize(e, size)
           linear == d \div TrackSize
           g == DetectGeometry(e, size)
           h == HeaderSize(e, size)
<1>1. d \in Nat /\ h \in Nat /\ (d + h <= size \/ d >= 511 * TrackSize) /\ TrackSize \in Nat \ {0}
  BY DataBehindHeader, TrackPositive
<1>2. ~(linear = 0 \/ linear > 2 * 255)
  BY DEF DetectGeometry, NoGeometry
<1>3. g.header_size = h /\ g.tracks = Tracks(linear) /\ g.sides = IF linear > 40 THEN 2 ELSE 1
  BY <1>2 DEF DetectGeometry
<1> HIDE DEF g, h
<1>4. d = TrackSize * linear + (d % TrackSize) /\ linear \in Int /\ d % TrackSize \in 0 .. TrackSize - 1
  <2> HIDE DEF d
  <2> QED
    BY <1>1, ModDiv, ModRange
<1> HIDE DEF d, linear
<1> DEFINE T == TrackSize
<1>5. linear \in 1 .. 510
  <2>1. linear <= 0 => T * linear <= 0
    BY <1>1, <1>4
  <2> QED
    BY <1>1, <1>2, <1>4, <2>1
<1>6. T * linear <= d /\ d + h <= size
  <2>1. T * linear <= 510 * T
    BY <1>1, <1>5
  <2> QED
    BY <1>1, <1>4, <1>5, <2>1
<1> DEFINE half == linear \div 2
<1>7. half \in 0 .. 255 /\ 2 * half <= linear
  BY <1>5
<1>8. half % 256 = half
  BY <1>7
<1>9. /\ Tracks(linear) \in Nat
      /\ Tracks(linear) * (IF linear > 40 THEN 2 ELSE 1) <= linear
  BY <1>5, <1>7, <1>8 DEF Tracks
<1>10. CacheSize(g) = T * (Tracks(linear) * (IF linear > 40 THEN 2 ELSE 1)) /\ CacheSize(g) <= T * linear
  <2> DEFINE k == Tracks(linear)
             s == IF linear > 40 THEN 2 ELSE 1
  <2>1. k \in Nat /\ s \in Nat /\ k * s \in Nat /\ k * s <= linear
    BY <1>9
  <2>2. CacheSize(g) = k * T * s
    BY <1>3 DEF CacheSize
  <2> HIDE DEF k, s, T
  <2>3. T \in Nat \ {0}
    BY <1>1 DEF T
  <2>4. k * T * s = T * (k * s)
    BY <2>1, <2>3
  <2>5. T * (k * s) <= T * linear
    <3> DEFINE x == k * s
    <3>1. x \in Nat /\ x <= linear
      BY <2>1
    <3> HIDE DEF x
    <3>2. T * (linear - x) >= 0
      BY <1>5, <2>3, <3>1
    <3>3. T * (linear - x) = (T * linear) - (T * x)
      BY <1>5, <2>3, <3>1
    <3>4. T * x \in Int /\ T * linear \in Int
      BY <1>5, <2>3, <3>1
    <3>5. T * x <= T * linear
      BY <3>2, <3>3, <3>4
    <3> QED
      BY <3>5 DEF x
  <2> QED
    BY <2>2, <2>4, <2>5 DEF k, s
<1>11. g.header_size + CacheSize(g) <= size
  <2>1. CacheSize(g) \in Int /\ T * linear \in Int
    <3>1. \A m, n \in Int : m * n \in Int
      OBVIOUS
    <3> QED
      BY <1>1, <1>5, <1>9, <1>10, <3>1
  <2> HIDE DEF T
  <2> QED
    BY <1>1, <1>3, <1>6, <1>10, <2>1
<1> QED
  BY <1>1, <1>3, <1>9, <1>11 DEF g

\* Where a sector lies: places follow one another.
LEMMA SectorsFollow ==
  ASSUME NEW g, g.tracks \in Nat, g.sides \in {1, 2}, g.ok
  PROVE  /\ SectorOffset(g, 0, 0, 1) = 0
         /\ \A t \in 0 .. g.tracks - 1, s \in 0 .. g.sides - 1 :
              /\ \A n \in 1 .. DISK_SECTORS - 1 :
                   SectorOffset(g, t, s, n + 1) = SectorOffset(g, t, s, n) + DISK_SECTOR_SIZE
              /\ SectorOffset(g, t, s, DISK_SECTORS) + DISK_SECTOR_SIZE
                   = IF s + 1 < g.sides THEN SectorOffset(g, t, s + 1, 1)
                     ELSE IF t + 1 < g.tracks THEN SectorOffset(g, t + 1, 0, 1)
                     ELSE CacheSize(g)
<1> DEFINE T == TrackSize
           Z == DISK_SECTOR_SIZE
           S == DISK_SECTORS
           k == g.tracks
           w == g.sides
<1>1. T \in Nat /\ Z \in Nat \ {0} /\ S \in Nat \ {0} /\ T = S * Z /\ k \in Nat /\ w \in {1, 2}
  BY TrackPositive, GeometryAssumption DEF TrackSize
<1>2. \A t, s, n : SectorOffset(g, t, s, n) = (t * w + s) * T + (n - 1) * Z
  BY DEF SectorOffset
<1>3. CacheSize(g) = k * T * w
  BY DEF CacheSize
<1> HIDE DEF T, Z, S, k, w
<1>4. SectorOffset(g, 0, 0, 1) = 0
  <2>1. (0 * w + 0) * T + (1 - 1) * Z = 0
    BY <1>1
  <2> QED
    BY <1>2, <2>1
<1>5. ASSUME NEW t \in 0 .. k - 1, NEW s \in 0 .. w - 1, NEW n \in 1 .. S - 1
      PROVE  SectorOffset(g, t, s, n + 1) = SectorOffset(g, t, s, n) + Z
  <2>1. ((n + 1) - 1) * Z = (n - 1) * Z + Z /\ (n - 1) * Z \in Int
    BY <1>1
  <2>2. (t * w + s) * T \in Int
    BY <1>1
  <2> QED
    BY <1>1, <1>2, <2>1, <2>2
<1>6. ASSUME NEW t \in 0 .. k - 1, NEW s \in 0 .. w - 1
      PROVE  SectorOffset(g, t, s, S) + Z = IF s + 1 < w THEN SectorOffset(g, t, s + 1, 1)
                                            ELSE IF t + 1 < k THEN SectorOffset(g, t + 1, 0, 1)
                                            ELSE CacheSize(g)
  <2> DEFINE row == t * w + s
  <2>0. row \in Int /\ t * w \in Int
    BY <1>1
  <2>1. SectorOffset(g, t, s, S) + Z = (row + 1) * T
    <3>1. (S - 1) * Z + Z = T
      BY <1>1
    <3>2. (row + 1) * T = row * T + T /\ row * T \in Int /\ (S - 1) * Z \in Int
      <4> HIDE DEF row
      <4> QED
        BY <1>1, <2>0
    <3> QED
      BY <1>1, <1>2, <3>1, <3>2
  <2>2. \A a, b : SectorOffset(g, a, b, 1) = (a * w + b) * T + 0 * Z
    BY <1>2
  <2>3. \A x \in Int : x * T + 0 * Z = x * T
    BY <1>1
  <2>4. ASSUME s + 1 < w PROVE SectorOffset(g, t, s + 1, 1) = (row + 1) * T
    <3>1. t * w + (s + 1) = row + 1 /\ row + 1 \in Int
      BY <1>1, <2>0
    <3> QED
      BY <2>2, <2>3, <3>1
  <2>5. ASSUME ~(s + 1 < w) PROVE row + 1 = (t + 1) * w
    BY <1>1, <2>5
  <2>6. ASSUME ~(s + 1 < w), t + 1 < k PROVE SectorOffset(g, t + 1, 0, 1) = (row + 1) * T
    <3>1. (t + 1) * w + 0 = row + 1 /\ row + 1 \in Int
      BY <1>1, <2>0, <2>5, <2>6
    <3> QED
      BY <2>2, <2>3, <3>1
  <2>7. ASSUME ~(s + 1 < w), ~(t + 1 < k) PROVE CacheSize(g) = (row + 1) * T
    <3>1. t + 1 = k
      BY <1>1, <2>7
    <3>2. row + 1 = k * w
      BY <2>5, <2>7, <3>1
    <3>3. k * T * w = (k * w) * T
      BY <1>1
    <3> QED
      BY <1>3, <3>2, <3>3
  <2> QED
    BY <2>1, <2>4, <2>6, <2>7
<1> QED
  BY <1>4, <1>5, <1>6 DEF T, Z, S, k, w

\* What a mount starts from is a file of one of the two kinds, of a size an unsigned int holds.
GeoInv == ext \in {"dsk", "vdk"} /\ image_size \in 0 .. UINT_MOD - 1 /\ GeometryFits

\* GeometryFits for a file of any size: detect_geometry() never claims a track the file does not hold, and
\* sector_offset() gives every sector of the disk bytes of its own.
THEOREM GeometryCorrect == Spec => []GeometryFits
<1>1. Init => GeoInv
  BY GeometryAssumption DEF Init, GeoInv, GeometryFits, CacheFitsFile, SectorsTile, NoGeometry
<1>2. GeoInv /\ [Next]_vars => GeoInv'
  <2> SUFFICES ASSUME GeoInv, [Next]_vars PROVE GeoInv'
    OBVIOUS
  <2>1. CASE UNCHANGED vars
    BY <2>1 DEF vars, GeoInv, GeometryFits, CacheFitsFile, SectorsTile
  <2>2. CASE Next
    <3>1. geo' = DetectGeometry(ext, image_size) /\ ext' = ext /\ image_size' = image_size
      BY <2>2 DEF Next, Detect
    <3>2. ASSUME geo'.ok
          PROVE  /\ geo'.tracks \in Nat /\ geo'.sides \in {1, 2}
                 /\ geo'.header_size + CacheSize(geo') <= image_size
      BY <3>1, <3>2, Detected DEF GeoInv
    <3>3. CacheFitsFile'
      BY <3>1, <3>2 DEF CacheFitsFile
    <3>4. SectorsTile'
      BY <3>2, SectorsFollow DEF SectorsTile
    <3> QED
      BY <3>1, <3>3, <3>4 DEF GeoInv, GeometryFits
  <2> QED
    BY <2>1, <2>2
<1>3. GeoInv => GeometryFits
  BY DEF GeoInv
<1> QED
  BY <1>1, <1>2, <1>3, PTL DEF Spec
=============================================================================

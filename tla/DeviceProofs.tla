---------------------------- MODULE DeviceProofs ----------------------------
(***************************************************************************)
(* Devices that MCDevices checks: the virtual hard disk keeps what          *)
(* the CoCo wrote, but for what the card dropped, for every set of images,  *)
(* every image size and every failure of the card; the WiFi manager, its    *)
(* screen and the DriveWire bus agree with the radio, for every set of      *)
(* networks and every timeout; the sound feed plays what was queued, for    *)
(* every size and stride; and the RS-232 Pak accounts for every byte, for   *)
(* every ring and byte time.                                                *)
(*                                                                          *)
(* A step of the hard disk changes one drive, and on the card only the      *)
(* image of that drive.  So its proof is in two layers: lemmas on one       *)
(* BlockFile bf over an image i that shows content t, and OneDrive, which   *)
(* lifts them to the invariant.                                             *)
(***************************************************************************)
EXTENDS AudioFeed, Acia, Vhd, Wifi, ModTheorems, TLAPS

\* What the invariant says of one drive.
Sound(bf) == bf \in BlockFile /\ DirtyOk(bf) /\ Known(bf)

\* Drive nb shows what bf showed, but for the sectors D.
Keeps(bf, nb, D) ==
  \A i \in Image, t \in Image, L \in SUBSET Sector : Shows(bf, i, t, L) => Shows(nb, i, t, L \cup D)

-----------------------------------------------------------------------------
(* One BlockFile.                                                           *)

\* A handle that holds nothing.
LEMMA FreshHandle ==
  ASSUME NEW at \in 0 .. UNKNOWN, NEW write \in BOOLEAN
  PROVE  /\ HandleAt(at, write) \in Handle
         /\ HandleAt(at, write) # NoHandle
         /\ HandleAt(at, write).at = at /\ HandleAt(at, write).write = write
         /\ HandleAt(at, write).top = 0 /\ HandleAt(at, write).pend = Nothing
<1>1. Nothing \in [Sector -> Content \cup {NoVal}]
  BY DEF Nothing
<1>2. HandleAt(at, write) \in Handle
  BY <1>1, VhdAssumption DEF HandleAt, Handle
<1> QED BY <1>2, NoHandleAssumption DEF HandleAt

\* Merging keeps the type of an image.
LEMMA MergedType ==
  ASSUME NEW i \in Image, NEW h \in Handle
  PROVE  Merged(i, h) \in Image
  BY VhdAssumption DEF Merged, Image, Handle

\* A merged image, sector by sector.
LEMMA MergedFields ==
  ASSUME NEW i, NEW h
  PROVE  /\ Merged(i, h).len = IF h.top > i.len THEN h.top ELSE i.len
         /\ \A s \in Sector :
              Merged(i, h).data[s] = IF h.pend[s] = NoVal THEN i.data[s] ELSE h.pend[s]
  BY DEF Merged

\* What a drop is made of.
LEMMA DropTyped ==
  ASSUME NEW bf, NEW drop \in DropChoices(bf)
  PROVE  drop.data \in SUBSET Sector /\ drop.len \in BOOLEAN
<1>1. Pending(bf) \subseteq Sector
  BY DEF Pending
<1>2. \A D \in DropSets(bf) : D \subseteq Sector
  BY <1>1 DEF DropSets
<1> QED BY <1>2 DEF DropChoices

\* Nothing dropped, or some of the sectors the handle holds.
LEMMA DropSetTyped ==
  ASSUME NEW bf, NEW D \in DropSets(bf)
  PROVE  D \in SUBSET Sector
  BY DEF DropSets, Pending

\* Dropping sectors keeps the type of a handle.
LEMMA WithoutType ==
  ASSUME NEW h \in Handle, NEW D
  PROVE  /\ Without(h.pend, D) \in [Sector -> Content \cup {NoVal}]
         /\ \A s \in Sector : Without(h.pend, D)[s] = IF s \in D THEN NoVal ELSE h.pend[s]
         /\ h.pend = Nothing => Without(h.pend, D) = Nothing
<1>1. \A s \in Sector : h.pend[s] \in Content \cup {NoVal}
  BY DEF Handle
<1>2. Nothing = [s \in Sector |-> NoVal] /\ \A s \in Sector : Nothing[s] = NoVal
  BY DEF Nothing
<1> QED BY <1>1, <1>2 DEF Without

\* What a handle passes on.
LEMMA KeptType ==
  ASSUME NEW bf, NEW drop \in DropChoices(bf), bf.file \in Handle
  PROVE  /\ Kept(bf.file, drop) \in Handle
         /\ Kept(bf.file, drop).top = IF drop.len THEN 0 ELSE bf.file.top
         /\ \A s \in Sector :
              Kept(bf.file, drop).pend[s] = IF s \in drop.data THEN NoVal ELSE bf.file.pend[s]
<1> DEFINE top == IF drop.len THEN 0 ELSE bf.file.top
           pend == Without(bf.file.pend, drop.data)
<1>1. /\ pend \in [Sector -> Content \cup {NoVal}]
      /\ \A s \in Sector : pend[s] = IF s \in drop.data THEN NoVal ELSE bf.file.pend[s]
  BY WithoutType
<1>2. top \in 0 .. VHD_MAX
  BY VhdAssumption DEF Handle
<1>3. Kept(bf.file, drop) = [bf.file EXCEPT !.top = top, !.pend = pend]
  BY DEF Kept, Handle
<1> HIDE DEF top, pend
<1>4. /\ Kept(bf.file, drop) \in Handle
      /\ Kept(bf.file, drop).top = top /\ Kept(bf.file, drop).pend = pend
  BY <1>1, <1>2, <1>3 DEF Handle
<1> QED BY <1>1, <1>4 DEF top

\* Fewer claims hold of an image that holds more of them.
LEMMA AgreesWith ==
  ASSUME NEW i, NEW t, NEW L, NEW D, Agrees(i, t, L)
  PROVE  Agrees(i, t, L \cup D)
  BY DEF Agrees

\* An image that holds what another one does, but for the sectors D.
LEMMA AgreesLike ==
  ASSUME NEW i, NEW j, NEW t, NEW L, NEW D, Agrees(i, t, L), j.len = i.len,
         \A s \in Sector \ D : j.data[s] = i.data[s]
  PROVE  Agrees(j, t, L \cup D)
  BY DEF Agrees

\* A drive whose handle holds the same, but for the sectors D.
LEMMA SameHold ==
  ASSUME NEW bf, NEW nb, NEW D, bf.file # NoHandle, nb.file # NoHandle,
         nb.size = bf.size, nb.dirty = bf.dirty, nb.file.top = bf.file.top,
         \A s \in Sector \ D : nb.file.pend[s] = bf.file.pend[s]
  PROVE  Keeps(bf, nb, D)
<1> SUFFICES ASSUME NEW i \in Image, NEW t \in Image, NEW L \in SUBSET Sector, Shows(bf, i, t, L)
             PROVE  Shows(nb, i, t, L \cup D)
  BY DEF Keeps
<1>1. View(bf, i) = Merged(i, bf.file) /\ View(nb, i) = Merged(i, nb.file)
  BY DEF View
<1>2. /\ View(nb, i).len = View(bf, i).len
      /\ \A s \in Sector \ D : View(nb, i).data[s] = View(bf, i).data[s]
  BY <1>1, MergedFields
<1>3. Agrees(View(nb, i), t, L \cup D)
  BY <1>2, AgreesLike DEF Shows
<1>4. ~nb.dirty => Agrees(i, t, L \cup D)
  BY AgreesWith DEF Shows
<1> QED BY <1>2, <1>3, <1>4 DEF Shows

\* The image a handle leaves is what the drive showed, but for what the card dropped.
LEMMA SyncedAgrees ==
  ASSUME NEW bf, Sound(bf), NEW drop \in DropChoices(bf), NEW i \in Image, NEW t \in Image,
         NEW L, Shows(bf, i, t, L)
  PROVE  /\ SyncedImage(i, bf, drop) \in Image
         /\ Agrees(SyncedImage(i, bf, drop), t, L \cup Loss(i, bf, drop))
         /\ SyncedImage(i, bf, drop).len <= View(bf, i).len
         /\ \A s \in Sector \ Loss(i, bf, drop) :
              SyncedImage(i, bf, drop).data[s] = View(bf, i).data[s]
<1>1. CASE bf.file = NoHandle
  <2>1. SyncedImage(i, bf, drop) = i /\ View(bf, i) = i
    BY <1>1 DEF SyncedImage, View
  <2>2. i.len \in Nat
    BY VhdAssumption DEF Image
  <2> QED BY <2>1, <2>2, AgreesWith DEF Shows
<1>2. CASE bf.file # NoHandle
  <2> DEFINE j == SyncedImage(i, bf, drop)
             v == View(bf, i)
             D == Loss(i, bf, drop)
  <2>0. bf.file \in Handle /\ bf.file.top \in Nat /\ i.len \in Nat /\ t.len \in Nat
    BY <1>2, VhdAssumption DEF Sound, BlockFile, Handle, Image
  <2>1. /\ j = Merged(i, Kept(bf.file, drop)) /\ v = Merged(i, bf.file)
        /\ D = drop.data \cup {s \in Sector : drop.len /\ i.len <= s /\ s < bf.file.top}
    BY <1>2 DEF SyncedImage, View, Loss
  <2>2. /\ v.len = IF bf.file.top > i.len THEN bf.file.top ELSE i.len
        /\ j.len = IF drop.len THEN i.len ELSE v.len
        /\ \A s \in Sector : v.data[s] = IF bf.file.pend[s] = NoVal THEN i.data[s] ELSE bf.file.pend[s]
        /\ \A s \in Sector \ drop.data : j.data[s] = v.data[s]
    BY <2>0, <2>1, MergedFields, KeptType
  <2>3. j \in Image
    BY <2>0, <2>1, KeptType, MergedType
  <2>4. Agrees(v, t, L)
    BY DEF Shows
  <2>5. \A s \in Sector \ D : j.data[s] = v.data[s] /\ (s < v.len => s < j.len)
    BY <2>0, <2>1, <2>2 DEF Sector
  <2>6. j.len <= v.len
    BY <2>0, <2>2
  <2> HIDE DEF j, v, D
  <2>7. v.len \in Nat /\ j.len \in Nat
    BY <2>0, <2>2, <2>3, VhdAssumption DEF Image
  <2>8. Agrees(j, t, L \cup D)
    BY <2>0, <2>4, <2>5, <2>6, <2>7 DEF Agrees
  <2> QED BY <2>3, <2>5, <2>6, <2>8 DEF j, v, D
<1> QED BY <1>1, <1>2

\* ensure_open() keeps all but the handle and the position.
LEMMA ReopenedSound ==
  ASSUME NEW bf, Sound(bf), IsOpen(bf)
  PROVE  /\ Sound(Reopened(bf)) /\ Reopened(bf).file \in Handle
         /\ Reopened(bf).path = bf.path /\ Reopened(bf).size = bf.size
         /\ Reopened(bf).dirty = bf.dirty
         /\ Keeps(bf, Reopened(bf), {})
<1>1. CASE bf.file # NoHandle
  <2>1. Reopened(bf) = bf
    BY <1>1 DEF Reopened
  <2>2. Keeps(bf, bf, {})
    BY DEF Keeps
  <2> QED BY <1>1, <2>1, <2>2 DEF Sound, BlockFile
<1>2. CASE bf.file = NoHandle
  <2> DEFINE h == HandleAt(0, FALSE)
  <2>1. /\ h \in Handle /\ h # NoHandle /\ h.top = 0 /\ h.pend = Nothing
    <3>1. 0 \in 0 .. UNKNOWN /\ FALSE \in BOOLEAN
      BY VhdAssumption DEF UNKNOWN
    <3> QED BY <3>1, FreshHandle
  <2> HIDE DEF h
  <2>2. Reopened(bf) = [bf EXCEPT !.file = h, !.pos = UNKNOWN]
    BY <1>2 DEF Reopened, h
  <2>3. /\ Reopened(bf) \in BlockFile
        /\ Reopened(bf).file = h /\ Reopened(bf).pos = UNKNOWN
        /\ Reopened(bf).path = bf.path /\ Reopened(bf).size = bf.size
        /\ Reopened(bf).dirty = bf.dirty
    <3>1. UNKNOWN \in 0 .. UNKNOWN
      BY VhdAssumption DEF UNKNOWN
    <3> QED BY <2>1, <2>2, <3>1 DEF Sound, BlockFile
  <2>4. Sound(Reopened(bf))
    BY <1>2, <2>1, <2>3 DEF Sound, DirtyOk, Known, IsOpen
  <2>5. ASSUME NEW i \in Image, NEW t \in Image, NEW L \in SUBSET Sector, Shows(bf, i, t, L)
        PROVE  Shows(Reopened(bf), i, t, L \cup {})
    <3>1. View(bf, i) = i /\ View(Reopened(bf), i) = Merged(i, h)
      BY <1>2, <2>1, <2>3 DEF View
    <3>2. i.len \in Nat
      BY VhdAssumption DEF Image
    <3>3. /\ Merged(i, h).len = i.len
          /\ \A s \in Sector : Merged(i, h).data[s] = i.data[s]
      BY <2>1, <3>2, MergedFields DEF Nothing
    <3>4. Agrees(Merged(i, h), t, L)
      BY <2>5, <3>1, <3>3 DEF Shows, Agrees
    <3> QED BY <2>3, <2>5, <3>1, <3>3, <3>4 DEF Shows
  <2> QED BY <2>1, <2>3, <2>4, <2>5 DEF Keeps
<1> QED BY <1>1, <1>2

\* A handle placed anew, at the position that is noted or with none noted, less the
\* sectors it dropped.
Placed(bf, at, p, write, D) ==
  [bf EXCEPT !.last_write = write, !.pos = p, !.file.at = at, !.file.write = write,
             !.file.pend = Without(@, D)]

\* Placing it anew loses nothing but what it dropped.
LEMMA Repositioned ==
  ASSUME NEW bf, Sound(bf), bf.file \in Handle, NEW at \in 0 .. UNKNOWN, NEW p \in 0 .. UNKNOWN,
         NEW write \in BOOLEAN, p = UNKNOWN \/ p = at, NEW D
  PROVE  LET nb == Placed(bf, at, p, write, D)
         IN /\ Sound(nb) /\ nb.path = bf.path /\ nb.size = bf.size
            /\ nb.file \in Handle /\ nb.file.at = at /\ nb.file.write = write
            /\ nb.pos = p /\ nb.last_write = write
            /\ Keeps(bf, nb, D)
<1> DEFINE h == [bf.file EXCEPT !.at = at, !.write = write, !.pend = Without(bf.file.pend, D)]
           nb == Placed(bf, at, p, write, D)
<1>0. bf.file # NoHandle /\ bf.path # NoFile
  BY NoHandleAssumption DEF Sound, DirtyOk
<1>1. /\ h \in Handle /\ h.at = at /\ h.write = write /\ h.top = bf.file.top
      /\ h.pend = Without(bf.file.pend, D)
  BY WithoutType DEF Handle
<1>2. h # NoHandle
  BY <1>1, NoHandleAssumption
<1>3. nb = [bf EXCEPT !.last_write = write, !.pos = p, !.file = h]
  BY DEF Placed, Sound, BlockFile
<1> HIDE DEF h, nb
<1>4. /\ nb \in BlockFile /\ nb.file = h /\ nb.pos = p /\ nb.last_write = write
      /\ nb.path = bf.path /\ nb.size = bf.size /\ nb.dirty = bf.dirty
  BY <1>1, <1>3 DEF Sound, BlockFile
<1>5. Sound(nb)
  <2>1. ~bf.dirty => h.pend = Nothing
    BY <1>0, <1>1, WithoutType DEF Sound, DirtyOk
  <2> QED BY <1>0, <1>1, <1>2, <1>4, <2>1 DEF Sound, DirtyOk, Known
<1>6. \A s \in Sector \ D : h.pend[s] = bf.file.pend[s]
  BY <1>1, WithoutType
<1>7. Keeps(bf, nb, D)
  BY <1>0, <1>1, <1>2, <1>4, <1>6, SameHold
<1> QED BY <1>1, <1>4, <1>5, <1>7 DEF nb

\* Nothing dropped.
LEMMA WithoutNone ==
  ASSUME NEW h \in Handle
  PROVE  Without(h.pend, {}) = h.pend
  BY DEF Without, Handle

\* Two steps, one after the other.
LEMMA KeepsBoth ==
  ASSUME NEW a1, NEW a2, NEW a3, NEW D \in SUBSET Sector, NEW E \in SUBSET Sector,
         Keeps(a1, a2, D), Keeps(a2, a3, E)
  PROVE  Keeps(a1, a3, D \cup E)
<1> SUFFICES ASSUME NEW i \in Image, NEW t \in Image, NEW L \in SUBSET Sector, Shows(a1, i, t, L)
             PROVE  Shows(a3, i, t, L \cup (D \cup E))
  BY DEF Keeps
<1>1. Shows(a2, i, t, L \cup D) /\ L \cup D \in SUBSET Sector
  BY DEF Keeps
<1>2. Shows(a3, i, t, (L \cup D) \cup E)
  BY <1>1 DEF Keeps
<1>3. (L \cup D) \cup E = L \cup (D \cup E)
  OBVIOUS
<1> QED BY <1>2, <1>3

\* position(), whatever it has to reopen, leaves the handle at the offset, turned the
\* right way, and what is read as it was.
LEMMA PositionedSound ==
  ASSUME NEW bf, Sound(bf), IsOpen(bf), NEW offset \in Sector, NEW write \in BOOLEAN
  PROVE  LET P == Positioned(bf, offset, write)
         IN /\ Sound(P) /\ P.path = bf.path /\ P.size = bf.size
            /\ P.file \in Handle /\ P.file.at = offset /\ P.file.write = write
            /\ P.pos = offset /\ P.last_write = write
            /\ Keeps(bf, P, {})
<1> DEFINE P == Positioned(bf, offset, write)
           r == Reopened(bf)
<1>1. /\ Sound(r) /\ r.file \in Handle /\ r.path = bf.path /\ r.size = bf.size
      /\ Keeps(bf, r, {})
  BY ReopenedSound
<1>2. offset \in 0 .. UNKNOWN /\ offset # UNKNOWN
  BY VhdAssumption DEF Sector, UNKNOWN
<1>3. r.file # NoHandle
  BY <1>1, NoHandleAssumption
<1>4. CASE InPlace(r, offset, write)
  <2>1. P = r
    BY <1>4 DEF Positioned
  <2>2. r.pos = offset /\ r.last_write = write
    BY <1>4 DEF InPlace
  <2>3. r.file.at = offset /\ r.file.write = write
    BY <1>1, <1>2, <1>3, <2>2 DEF Sound, Known
  <2> QED BY <1>1, <2>1, <2>2, <2>3
<1>5. CASE ~InPlace(r, offset, write)
  <2>1. P = Sought(r, offset, write)
    BY <1>5 DEF Positioned
  <2>2. P = Placed(r, offset, offset, write, {})
    <3> DEFINE f == [r.file EXCEPT !.at = offset, !.write = write]
               g == [r.file EXCEPT !.at = offset, !.write = write, !.pend = Without(@, {})]
    <3>1. f = g
      <4>1. /\ r.file = [at |-> r.file.at, write |-> r.file.write, top |-> r.file.top,
                          pend |-> r.file.pend]
            /\ Without(r.file.pend, {}) = r.file.pend
        BY <1>1, WithoutNone DEF Handle
      <4> QED BY <4>1
    <3>2. P = [r EXCEPT !.last_write = write, !.pos = offset, !.file = f]
      BY <1>1, <2>1 DEF Sought, Sound, BlockFile
    <3>3. Placed(r, offset, offset, write, {})
            = [r EXCEPT !.last_write = write, !.pos = offset, !.file = g]
      BY <1>1 DEF Placed, Sound, BlockFile
    <3> QED BY <3>1, <3>2, <3>3
  <2> HIDE DEF P, r
  <2>3. /\ Sound(P) /\ P.path = r.path /\ P.size = r.size
        /\ P.file \in Handle /\ P.file.at = offset /\ P.file.write = write
        /\ P.pos = offset /\ P.last_write = write
        /\ Keeps(r, P, {})
    BY <1>1, <1>2, <2>2, Repositioned
  <2>4. Keeps(bf, P, {} \cup {})
    BY <1>1, <2>3, KeepsBoth
  <2> QED BY <1>1, <2>3, <2>4 DEF P
<1> QED BY <1>4, <1>5

\* A handle that has dropped some sectors.
Dropped(bf, D) == [bf EXCEPT !.file.pend = Without(@, D)]

\* Dropping them loses them and nothing else.
LEMMA DroppedSound ==
  ASSUME NEW bf, Sound(bf), bf.file \in Handle, NEW D
  PROVE  LET nb == Dropped(bf, D)
         IN /\ Sound(nb) /\ nb.path = bf.path /\ nb.size = bf.size /\ nb.file \in Handle
            /\ nb.file.at = bf.file.at /\ nb.file.write = bf.file.write
            /\ nb.pos = bf.pos /\ nb.last_write = bf.last_write /\ Keeps(bf, nb, D)
<1> DEFINE h == [bf.file EXCEPT !.pend = Without(bf.file.pend, D)]
           nb == Dropped(bf, D)
<1>0. bf.file # NoHandle /\ bf.path # NoFile
  BY NoHandleAssumption DEF Sound, DirtyOk
<1>1. /\ h \in Handle /\ h.at = bf.file.at /\ h.write = bf.file.write /\ h.top = bf.file.top
      /\ h.pend = Without(bf.file.pend, D)
  BY WithoutType DEF Handle
<1>2. h # NoHandle
  BY <1>1, NoHandleAssumption
<1>3. nb = [bf EXCEPT !.file = h]
  BY DEF Dropped, Sound, BlockFile
<1> HIDE DEF h, nb
<1>4. /\ nb \in BlockFile /\ nb.file = h /\ nb.pos = bf.pos /\ nb.last_write = bf.last_write
      /\ nb.path = bf.path /\ nb.size = bf.size /\ nb.dirty = bf.dirty
  BY <1>1, <1>3 DEF Sound, BlockFile
<1>5. Sound(nb)
  <2>1. ~bf.dirty => h.pend = Nothing
    BY <1>0, <1>1, WithoutType DEF Sound, DirtyOk
  <2> QED BY <1>0, <1>1, <1>2, <1>4, <2>1 DEF Sound, DirtyOk, Known
<1>6. \A s \in Sector \ D : h.pend[s] = bf.file.pend[s]
  BY <1>1, WithoutType
<1>7. Keeps(bf, nb, D)
  BY <1>0, <1>1, <1>2, <1>4, <1>6, SameHold
<1> QED BY <1>1, <1>4, <1>5, <1>7 DEF nb

\* A transfer moves the handle, or leaves it where nobody knows.
LEMMA MovedSound ==
  ASSUME NEW bf, Sound(bf), bf.file \in Handle, NEW at \in 0 .. UNKNOWN, NEW p \in 0 .. UNKNOWN,
         p = UNKNOWN \/ (p = at /\ bf.file.write = bf.last_write)
  PROVE  /\ Sound(Moved(bf, at, p)) /\ Moved(bf, at, p).path = bf.path
         /\ Keeps(bf, Moved(bf, at, p), {})
<1>0. bf.file # NoHandle
  BY NoHandleAssumption
<1> DEFINE h == [bf.file EXCEPT !.at = at]
           nb == Moved(bf, at, p)
<1>1. /\ h \in Handle /\ h.at = at /\ h.write = bf.file.write /\ h.top = bf.file.top
      /\ h.pend = bf.file.pend
  BY DEF Handle
<1>2. h # NoHandle
  BY <1>1, NoHandleAssumption
<1>3. nb = [bf EXCEPT !.file = h, !.pos = p]
  BY DEF Moved, Sound, BlockFile
<1> HIDE DEF h, nb
<1>4. /\ nb \in BlockFile /\ nb.file = h /\ nb.pos = p /\ nb.last_write = bf.last_write
      /\ nb.path = bf.path /\ nb.size = bf.size /\ nb.dirty = bf.dirty
  BY <1>1, <1>3 DEF Sound, BlockFile
<1>5. Sound(nb)
  BY <1>0, <1>1, <1>2, <1>4 DEF Sound, DirtyOk, Known
<1>6. Keeps(bf, nb, {})
  BY <1>0, <1>1, <1>2, <1>4, SameHold
<1> QED BY <1>4, <1>5, <1>6 DEF nb

\* fwrite(): the drive shows the image with the new sector, whether the write was
\* whole or cut short, and that sector is no longer among those lost.
LEMMA TransferSound ==
  ASSUME s_offset \in Sector, NEW bf, Sound(bf), IsOpen(bf), bf.file \in Handle,
         bf.file.at = s_offset, bf.file.write = bf.last_write,
         NEW v \in Content, NEW p \in {s_offset + 1, UNKNOWN}
  PROVE  /\ Sound(Transfer(bf, v, p)) /\ Transfer(bf, v, p).path = bf.path
         /\ \A i \in Image, t \in Image, L \in SUBSET Sector :
              Shows(bf, i, t, L)
              => Shows(Transfer(bf, v, p), i, Stored(t, s_offset, v), L \ {s_offset})
<1>0. /\ bf.file # NoHandle /\ s_offset \in Nat /\ VHD_MAX \in Nat
      /\ s_offset + 1 \in 0 .. VHD_MAX /\ s_offset + 1 # UNKNOWN /\ v # NoVal
  BY NoHandleAssumption, VhdAssumption DEF Sector, UNKNOWN, Content
<1> DEFINE at == IF p = UNKNOWN THEN UNKNOWN ELSE s_offset + 1
           top == IF s_offset < bf.file.top THEN bf.file.top ELSE s_offset + 1
           pend == [bf.file.pend EXCEPT ![s_offset] = v]
           h == [bf.file EXCEPT !.at = at, !.top = top, !.pend = pend]
           size == IF s_offset + 1 > bf.size THEN s_offset + 1 ELSE bf.size
           nb == Transfer(bf, v, p)
<1>1. at = p /\ at \in 0 .. UNKNOWN
  BY <1>0 DEF UNKNOWN
<1>2. top \in 0 .. VHD_MAX
  BY <1>0 DEF Handle
<1>3. pend \in [Sector -> Content \cup {NoVal}]
  BY DEF Handle
<1>4. Written(bf.file, v, p) = h
  BY DEF Written
<1>5. h \in Handle /\ h # NoHandle /\ h.at = p /\ h.write = bf.last_write /\ h.top = top /\ h.pend = pend
  <2> HIDE DEF at, top, pend
  <2>1. h \in Handle /\ h.at = at /\ h.write = bf.file.write /\ h.top = top /\ h.pend = pend
    BY <1>1, <1>2, <1>3 DEF Handle
  <2> QED BY <1>1, <2>1, NoHandleAssumption
<1>6. nb = [bf EXCEPT !.dirty = TRUE, !.size = size, !.pos = p, !.file = h]
  <2>1. Grown(bf, s_offset + 1) = size
    BY DEF Grown
  <2> HIDE DEF h, size
  <2> QED BY <1>4, <2>1 DEF Transfer
<1>7. size \in 0 .. VHD_MAX
  BY <1>0 DEF Sound, BlockFile
<1>8. /\ nb \in BlockFile /\ nb.path = bf.path /\ nb.size = size /\ nb.dirty = TRUE
      /\ nb.pos = p /\ nb.last_write = bf.last_write /\ nb.file = h
  <2> HIDE DEF h, size, nb
  <2>1. p \in 0 .. UNKNOWN
    BY <1>1
  <2> QED BY <1>5, <1>6, <1>7, <2>1 DEF Sound, BlockFile
<1>9. Sound(nb)
  <2> HIDE DEF h, nb
  <2> QED BY <1>5, <1>8 DEF Sound, DirtyOk, Known, IsOpen
<1>10. ASSUME NEW i \in Image, NEW t \in Image, NEW L \in SUBSET Sector, Shows(bf, i, t, L)
       PROVE  Shows(nb, i, Stored(t, s_offset, v), L \ {s_offset})
  <2> DEFINE w == View(bf, i)
             x == View(nb, i)
             u == Stored(t, s_offset, v)
  <2>1. /\ w = Merged(i, bf.file) /\ x = Merged(i, h)
    BY <1>0, <1>5, <1>8 DEF View
  <2>2. /\ i.len \in Nat /\ bf.file.top \in Nat /\ t.len \in Nat /\ bf.size \in Nat
        /\ t.data \in [Sector -> Content] /\ bf.file.pend \in [Sector -> Content \cup {NoVal}]
    BY <1>0 DEF Image, Handle, Sound, BlockFile
  <2>3. /\ w.len = IF bf.file.top > i.len THEN bf.file.top ELSE i.len
        /\ x.len = IF top > i.len THEN top ELSE i.len
        /\ \A s \in Sector : w.data[s] = IF bf.file.pend[s] = NoVal THEN i.data[s] ELSE bf.file.pend[s]
        /\ \A s \in Sector : x.data[s] = IF pend[s] = NoVal THEN i.data[s] ELSE pend[s]
    <3> HIDE DEF h, top, pend, w, x
    <3> QED BY <1>5, <2>1, MergedFields
  <2>4. x.len = (IF s_offset + 1 > w.len THEN s_offset + 1 ELSE w.len) /\ w.len \in Nat
    BY <1>0, <2>2, <2>3
  <2>5. \A s \in Sector : x.data[s] = IF s = s_offset THEN v ELSE w.data[s]
    BY <1>0, <2>2, <2>3
  <2>6. /\ u.len = IF s_offset + 1 > t.len THEN s_offset + 1 ELSE t.len
        /\ \A s \in Sector : u.data[s] = IF s = s_offset THEN v ELSE t.data[s]
    BY <2>2 DEF Stored
  <2>7. Agrees(w, t, L) /\ w.len <= bf.size /\ bf.size <= t.len
    BY <1>10 DEF Shows
  <2> HIDE DEF w, x, u
  <2>8. Agrees(x, u, L \ {s_offset})
    <3>1. x.len <= u.len
      BY <1>0, <2>2, <2>4, <2>6, <2>7
    <3>2. ASSUME NEW s \in Sector \ (L \ {s_offset})
          PROVE  x.data[s] = u.data[s] /\ (s < u.len => s < x.len)
      <4>1. s \in Nat
        BY DEF Sector
      <4>2. CASE s = s_offset
        BY <1>0, <2>4, <2>5, <2>6, <4>2
      <4>3. CASE s # s_offset
        <5>1. w.data[s] = t.data[s] /\ (s < t.len => s < w.len)
          BY <2>7, <3>2, <4>3 DEF Agrees
        <5> QED BY <1>0, <2>2, <2>4, <2>5, <2>6, <4>1, <4>3, <5>1
      <4> QED BY <4>2, <4>3
    <3> QED BY <3>1, <3>2 DEF Agrees
  <2>9. x.len <= size /\ size <= u.len
    BY <1>0, <2>2, <2>4, <2>6, <2>7
  <2> HIDE DEF h, size, nb
  <2> QED BY <1>8, <2>8, <2>9 DEF Shows, x, u
<1> QED BY <1>8, <1>9, <1>10

\* blockfile_flush(), with what it makes of the image.
FlushedImage(i, bf, drop) == IF bf.dirty THEN SyncedImage(i, bf, drop) ELSE i
FlushedLoss(i, bf, drop) == IF bf.dirty THEN Loss(i, bf, drop) ELSE {}

\* A flush leaves nothing waiting, and what is read as it was but for what the card
\* dropped.
LEMMA FlushedSound ==
  ASSUME NEW bf, Sound(bf), NEW drop \in DropChoices(bf)
  PROVE  /\ Sound(Flushed(bf, drop)) /\ Flushed(bf, drop).path = bf.path
         /\ ~Flushed(bf, drop).dirty
         /\ \A i \in Image, t \in Image, L \in SUBSET Sector :
              Shows(bf, i, t, L)
              => Shows(Flushed(bf, drop), FlushedImage(i, bf, drop), t,
                       L \cup FlushedLoss(i, bf, drop))
<1>1. CASE ~bf.dirty
  <2>1. Flushed(bf, drop) = bf
    BY <1>1 DEF Flushed
  <2>2. \A i, L : FlushedImage(i, bf, drop) = i /\ L \cup FlushedLoss(i, bf, drop) = L
    BY <1>1 DEF FlushedImage, FlushedLoss
  <2> QED BY <1>1, <2>1, <2>2
<1>2. CASE bf.dirty
  <2>0. bf.file # NoHandle /\ bf.file \in Handle /\ bf.path # NoFile /\ bf.dirty \in BOOLEAN
    BY <1>2 DEF Sound, DirtyOk, BlockFile
  <2> DEFINE top == IF drop.len THEN bf.file.top ELSE 0
             h == [bf.file EXCEPT !.top = top, !.pend = Nothing]
             nb == Flushed(bf, drop)
  <2>1. /\ h \in Handle /\ h.top = top /\ h.pend = Nothing
        /\ h.at = bf.file.at /\ h.write = bf.file.write
    <3>1. Nothing \in [Sector -> Content \cup {NoVal}]
      BY DEF Nothing
    <3>2. top \in 0 .. VHD_MAX
      BY <2>0, VhdAssumption DEF Handle
    <3> QED BY <2>0, <3>1, <3>2 DEF Handle
  <2>2. h # NoHandle
    BY <2>1, NoHandleAssumption
  <2>3. nb = [bf EXCEPT !.file = h, !.dirty = FALSE]
    BY <1>2, <2>0 DEF Flushed, Sound, BlockFile
  <2> HIDE DEF h, nb
  <2>4. /\ nb \in BlockFile /\ nb.file = h /\ nb.dirty = FALSE /\ nb.path = bf.path
        /\ nb.size = bf.size /\ nb.pos = bf.pos /\ nb.last_write = bf.last_write
    BY <2>1, <2>3 DEF Sound, BlockFile
  <2>5. Sound(nb)
    BY <2>0, <2>1, <2>2, <2>4 DEF Sound, DirtyOk, Known
  <2>6. ASSUME NEW i \in Image, NEW t \in Image, NEW L \in SUBSET Sector, Shows(bf, i, t, L)
        PROVE  Shows(nb, FlushedImage(i, bf, drop), t, L \cup FlushedLoss(i, bf, drop))
    <3> DEFINE j == SyncedImage(i, bf, drop)
               D == Loss(i, bf, drop)
               w == View(bf, i)
    <3>1. /\ j \in Image /\ Agrees(j, t, L \cup D) /\ j.len <= w.len
          /\ \A s \in Sector \ D : j.data[s] = w.data[s]
      BY <2>6, SyncedAgrees
    <3>2. FlushedImage(i, bf, drop) = j /\ FlushedLoss(i, bf, drop) = D
      BY <1>2 DEF FlushedImage, FlushedLoss
    <3>3. View(nb, j) = Merged(j, h)
      BY <2>2, <2>4 DEF View
    <3>4. i.len \in Nat /\ bf.file.top \in Nat /\ drop.len \in BOOLEAN
      BY <2>0, VhdAssumption, DropTyped DEF Image, Handle
    <3>5. /\ w.len = IF bf.file.top > i.len THEN bf.file.top ELSE i.len
          /\ j.len = IF drop.len THEN i.len ELSE w.len
      BY <2>0, <3>4, MergedFields, KeptType DEF View, SyncedImage
    <3>6. Merged(j, h).len = w.len
      BY <2>1, <3>4, <3>5, MergedFields
    <3>7. \A s \in Sector : Merged(j, h).data[s] = j.data[s]
      BY <2>1, MergedFields DEF Nothing
    <3> HIDE DEF j, D, w
    <3>8. Agrees(w, t, L) /\ w.len <= bf.size /\ bf.size <= t.len
      BY <2>6 DEF Shows, w
    <3>9. Agrees(Merged(j, h), t, L \cup D)
      BY <3>1, <3>6, <3>7, <3>8, AgreesLike
    <3> QED BY <2>4, <3>1, <3>2, <3>3, <3>6, <3>8, <3>9 DEF Shows
  <2> QED BY <2>4, <2>5, <2>6 DEF nb
<1>3. bf.dirty \in BOOLEAN
  BY DEF Sound, BlockFile
<1> QED BY <1>1, <1>2, <1>3

\* blockfile_tick() on an idle handle.
LEMMA IdleClosedSound ==
  ASSUME NEW bf, Sound(bf), NEW drop \in DropChoices(bf)
  PROVE  /\ Sound(IdleClosed(bf)) /\ IdleClosed(bf).path = bf.path
         /\ \A i \in Image, t \in Image, L \in SUBSET Sector :
              Shows(bf, i, t, L)
              => Shows(IdleClosed(bf), SyncedImage(i, bf, drop), t, L \cup Loss(i, bf, drop))
<1> DEFINE nb == IdleClosed(bf)
<1>1. /\ nb \in BlockFile /\ nb.file = NoHandle /\ nb.path = bf.path /\ nb.size = bf.size
      /\ nb.dirty = FALSE
  <2>1. bf.file = NoHandle => bf.dirty = FALSE
    BY DEF Sound, DirtyOk, BlockFile
  <2>2. nb = [bf EXCEPT !.dirty = FALSE, !.file = NoHandle]
    BY <2>1 DEF IdleClosed, Sound, BlockFile
  <2> HIDE DEF nb
  <2> QED BY <2>2 DEF Sound, BlockFile
<1> HIDE DEF nb
<1>2. Sound(nb)
  BY <1>1 DEF Sound, DirtyOk, Known
<1>3. ASSUME NEW i \in Image, NEW t \in Image, NEW L \in SUBSET Sector, Shows(bf, i, t, L)
      PROVE  Shows(nb, SyncedImage(i, bf, drop), t, L \cup Loss(i, bf, drop))
  <2>1. /\ Agrees(SyncedImage(i, bf, drop), t, L \cup Loss(i, bf, drop))
        /\ SyncedImage(i, bf, drop).len <= View(bf, i).len
        /\ SyncedImage(i, bf, drop).len \in Nat
    <3>1. SyncedImage(i, bf, drop) \in Image
      BY <1>3, SyncedAgrees
    <3> QED BY <1>3, <3>1, SyncedAgrees, VhdAssumption DEF Image
  <2>2. View(bf, i).len <= bf.size /\ bf.size <= t.len /\ View(bf, i).len \in Nat /\ bf.size \in Nat
    <3>1. View(bf, i) \in Image
      BY MergedType DEF View, Sound, BlockFile
    <3> QED BY <1>3, <3>1, VhdAssumption DEF Shows, Image, Sound, BlockFile
  <2>3. View(nb, SyncedImage(i, bf, drop)) = SyncedImage(i, bf, drop)
    BY <1>1 DEF View
  <2> QED BY <1>1, <2>1, <2>2, <2>3 DEF Shows
<1> QED BY <1>1, <1>2, <1>3 DEF nb

\* blockfile_close().
LEMMA ClosedSound ==
  ASSUME NEW bf, Sound(bf)
  PROVE  /\ Sound(Closed(bf)) /\ Closed(bf).path = NoFile /\ Closed(bf).file = NoHandle
         /\ Closed(bf).dirty = FALSE
<1> DEFINE nb == Closed(bf)
<1>1. bf.pos \in 0 .. UNKNOWN /\ bf.last_write \in BOOLEAN
  BY DEF Sound, BlockFile
<1>2. Unmounted \in BlockFile
  BY VhdAssumption DEF Unmounted, BlockFile, UNKNOWN
<1>3. /\ nb \in BlockFile /\ nb.path = NoFile /\ nb.file = NoHandle /\ nb.dirty = FALSE
  <2>1. Unmounted.path = NoFile /\ Unmounted.file = NoHandle /\ Unmounted.dirty = FALSE
    BY DEF Unmounted
  <2> QED BY <1>1, <1>2, <2>1 DEF Closed, BlockFile
<1> QED BY <1>3 DEF Sound, DirtyOk, Known

\* A write that reaches the card on its own: the drive shows what it showed.
LEMMA PassedSound ==
  ASSUME NEW bf, Sound(bf), NEW s \in Pending(bf)
  PROVE  LET nb == [bf EXCEPT !.file.pend[s] = NoVal]
         IN /\ Sound(nb) /\ nb.path = bf.path /\ IsOpen(bf) /\ bf.file \in Handle
            /\ s \in Sector /\ bf.file.pend[s] \in Content
            /\ \A i \in Image, t \in Image, L \in SUBSET Sector :
                 Shows(bf, i, t, L)
                 => Shows(nb, [i EXCEPT !.data[s] = bf.file.pend[s]], t, L)
<1>0. /\ bf.file # NoHandle /\ s \in Sector /\ bf.file.pend[s] # NoVal
  BY DEF Pending
<1>1. bf.file \in Handle /\ bf.path # NoFile /\ bf.file.pend[s] \in Content
  BY <1>0 DEF Sound, DirtyOk, BlockFile, Handle
<1>2. bf.dirty = TRUE
  BY <1>0 DEF Sound, DirtyOk, BlockFile, Nothing
<1> DEFINE pend == [bf.file.pend EXCEPT ![s] = NoVal]
           h == [bf.file EXCEPT !.pend = pend]
           nb == [bf EXCEPT !.file.pend[s] = NoVal]
<1>3. pend \in [Sector -> Content \cup {NoVal}]
  BY <1>1 DEF Handle
<1>4. /\ h \in Handle /\ h.at = bf.file.at /\ h.write = bf.file.write /\ h.top = bf.file.top
      /\ h.pend = pend
  <2> HIDE DEF pend
  <2> QED BY <1>1, <1>3 DEF Handle
<1>5. h # NoHandle
  BY <1>4, NoHandleAssumption
<1>6. nb = [bf EXCEPT !.file = h]
  BY <1>1 DEF Sound, BlockFile, Handle
<1> HIDE DEF h, nb
<1>7. /\ nb \in BlockFile /\ nb.file = h /\ nb.pos = bf.pos /\ nb.last_write = bf.last_write
      /\ nb.path = bf.path /\ nb.size = bf.size /\ nb.dirty = TRUE
  BY <1>2, <1>4, <1>6 DEF Sound, BlockFile
<1>8. Sound(nb)
  BY <1>0, <1>1, <1>4, <1>5, <1>7 DEF Sound, DirtyOk, Known
<1>9. ASSUME NEW i \in Image, NEW t \in Image, NEW L \in SUBSET Sector, Shows(bf, i, t, L)
      PROVE  Shows(nb, [i EXCEPT !.data[s] = bf.file.pend[s]], t, L)
  <2> DEFINE j == [i EXCEPT !.data[s] = bf.file.pend[s]]
             w == View(bf, i)
             x == View(nb, j)
  <2>1. /\ j.len = i.len
        /\ \A r \in Sector : j.data[r] = IF r = s THEN bf.file.pend[s] ELSE i.data[r]
    BY <1>0 DEF Image
  <2>2. w = Merged(i, bf.file) /\ x = Merged(j, h)
    BY <1>0, <1>5, <1>7 DEF View
  <2>3. \A r \in Sector : pend[r] = IF r = s THEN NoVal ELSE bf.file.pend[r]
    BY <1>0, <1>1 DEF Handle
  <2> HIDE DEF j, w, x, pend
  <2>4. x.len = w.len /\ \A r \in Sector : x.data[r] = w.data[r]
    <3>1. x.len = w.len
      BY <1>4, <2>1, <2>2, MergedFields
    <3>2. ASSUME NEW r \in Sector PROVE x.data[r] = w.data[r]
      <4>1. /\ x.data[r] = IF pend[r] = NoVal THEN j.data[r] ELSE pend[r]
            /\ w.data[r] = IF bf.file.pend[r] = NoVal THEN i.data[r] ELSE bf.file.pend[r]
        BY <1>4, <2>2, MergedFields
      <4>2. CASE r = s
        BY <1>0, <2>1, <2>3, <4>1, <4>2
      <4>3. CASE r # s
        BY <2>1, <2>3, <4>1, <4>3
      <4> QED BY <4>2, <4>3
    <3> QED BY <3>1, <3>2
  <2>5. Agrees(w, t, L) /\ w.len <= bf.size /\ bf.size <= t.len
    BY <1>9 DEF Shows, w
  <2>6. Agrees(x, t, L \cup {})
    BY <2>4, <2>5, AgreesLike
  <2>7. L \cup {} = L
    OBVIOUS
  <2>8. Shows(nb, j, t, L)
    BY <1>7, <2>4, <2>5, <2>6, <2>7 DEF Shows, x
  <2> QED BY <2>8 DEF j
<1> QED BY <1>0, <1>1, <1>7, <1>8, <1>9 DEF nb, IsOpen

-----------------------------------------------------------------------------
(* The card.                                                                *)

\* Card c and losses l become c2 and l2: a handle passes on what it holds.
Closing(c, l, c2, l2, bf, drop) ==
  /\ c2 \in [File -> Image] /\ l2 \in [File -> SUBSET Sector]
  /\ \A f \in File : c2[f] = IF f = bf.path THEN SyncedImage(c[f], bf, drop) ELSE c[f]
  /\ \A f \in File : l2[f] = IF f = bf.path THEN l[f] \cup Loss(c[f], bf, drop) ELSE l[f]

\* They become c2 and l2: blockfile_flush().
Flushing(c, l, c2, l2, bf, drop) ==
  /\ c2 \in [File -> Image] /\ l2 \in [File -> SUBSET Sector]
  /\ \A f \in File : c2[f] = IF f = bf.path THEN FlushedImage(c[f], bf, drop) ELSE c[f]
  /\ \A f \in File :
       l2[f] = IF f = bf.path THEN l[f] \cup FlushedLoss(c[f], bf, drop) ELSE l[f]

\* A handle changes the image it belongs to and no other, and loses sectors of that
\* image alone.
LEMMA SyncedCard ==
  ASSUME NEW c \in [File -> Image], NEW l \in [File -> SUBSET Sector], NEW bf, Sound(bf),
         NEW drop \in DropChoices(bf)
  PROVE  Closing(c, l, Synced(c, bf, drop), LostWith(l, c, bf, drop), bf, drop)
<1>1. CASE bf.file = NoHandle
  BY <1>1 DEF Synced, SyncedImage, LostWith, Loss, Closing
<1>2. CASE bf.file # NoHandle
  <2>1. bf.path \in File /\ bf.file \in Handle
    BY <1>2 DEF Sound, DirtyOk, BlockFile
  <2>2. SyncedImage(c[bf.path], bf, drop) \in Image
    BY <1>2, <2>1, KeptType, MergedType DEF SyncedImage
  <2>3. Synced(c, bf, drop) = [c EXCEPT ![bf.path] = SyncedImage(c[bf.path], bf, drop)]
    BY <1>2 DEF Synced
  <2>4. Loss(c[bf.path], bf, drop) \in SUBSET Sector
    BY <1>2, DropTyped DEF Loss
  <2>5. LostWith(l, c, bf, drop)
          = [l EXCEPT ![bf.path] = l[bf.path] \cup Loss(c[bf.path], bf, drop)]
    BY <1>2 DEF LostWith
  <2> QED BY <2>1, <2>2, <2>3, <2>4, <2>5 DEF Closing
<1> QED BY <1>1, <1>2

\* Nor does a flush.
LEMMA FlushedCard ==
  ASSUME NEW c \in [File -> Image], NEW l \in [File -> SUBSET Sector], NEW bf, Sound(bf),
         NEW drop \in DropChoices(bf)
  PROVE  Flushing(c, l, FlushTo(c, bf, drop), FlushLost(l, c, bf, drop), bf, drop)
<1>1. CASE bf.dirty
  <2>1. Closing(c, l, Synced(c, bf, drop), LostWith(l, c, bf, drop), bf, drop)
    BY SyncedCard
  <2> QED BY <1>1, <2>1 DEF FlushTo, FlushedImage, FlushLost, FlushedLoss, Closing, Flushing
<1>2. CASE ~bf.dirty
  BY <1>2 DEF FlushTo, FlushedImage, FlushLost, FlushedLoss, Flushing
<1> QED BY <1>1, <1>2

-----------------------------------------------------------------------------
(* The invariant.                                                           *)

\* What the invariant says of the registers.
RegistersOK ==
  /\ s_offset \in 0 .. VHD_MAX /\ s_drive_sel \in Drive
  /\ s_status \in {"pwrup", "ok", "nodisk", "wprot", "invalid"} /\ sector \in Content

\* What drive bf, in its place on the card, shows of its image.
Faithful(bf) ==
  IsOpen(bf) /\ bf.path \notin shared
  => Shows(bf, card[bf.path], truth[bf.path], lost[bf.path])

\* The invariant in the terms of the lemmas above.
LEMMA InvSound ==
  ASSUME VhdInv
  PROVE  /\ \A d \in Drive : Sound(s_drive[d]) /\ Faithful(s_drive[d])
         /\ \A d \in Drive : IsOpen(s_drive[d]) => s_drive[d].path \in File
         /\ s_drive[s_drive_sel] = Selected /\ Sound(Selected) /\ Faithful(Selected)
         /\ RegistersOK
  BY DEF VhdInv, VhdTypeOK, Sound, IsOpen, BlockFile, Selected, RegistersOK, Faithful

\* A step that leaves drives, images and histories alone.
LEMMA OnlyRegisters ==
  ASSUME VhdInv, RegistersOK', UNCHANGED <<s_drive, card, truth, lost, shared>>
  PROVE  VhdInv'
<1>1. VhdTypeOK'
  BY DEF VhdInv, VhdTypeOK, RegistersOK
<1> QED BY <1>1 DEF VhdInv

\* A step of one drive that keeps its image mounted.
LEMMA OneDrive ==
  ASSUME VhdInv, RegistersOK', NEW d \in Drive, NEW nb, Sound(nb), nb.path = s_drive[d].path,
         s_drive' = [s_drive EXCEPT ![d] = nb],
         card' \in [File -> Image], truth' \in [File -> Image], lost' \in [File -> SUBSET Sector],
         UNCHANGED shared,
         \A f \in File : f # nb.path => /\ card'[f] = card[f] /\ truth'[f] = truth[f]
                                        /\ lost'[f] = lost[f],
         IsOpen(nb) /\ nb.path \notin shared
           => Shows(nb, card'[nb.path], truth'[nb.path], lost'[nb.path])
  PROVE  VhdInv'
<1>1. s_drive \in [Drive -> BlockFile] /\ nb \in BlockFile
  BY DEF VhdInv, VhdTypeOK, Sound
<1>2. VhdTypeOK'
  BY <1>1 DEF VhdInv, VhdTypeOK, RegistersOK
<1>3. \A e \in Drive : s_drive'[e] = IF e = d THEN nb ELSE s_drive[e]
  BY <1>1
<1>4. \A e \in Drive : s_drive'[e].path = s_drive[e].path
  BY <1>3
<1>5. \A e \in Drive : DirtyOk(s_drive'[e]) /\ Known(s_drive'[e])
  BY <1>3 DEF VhdInv, Sound
<1>6. \A b, e \in Drive : b # e /\ IsOpen(s_drive'[b]) /\ s_drive'[b].path = s_drive'[e].path
                            => s_drive'[b].path \in shared'
  BY <1>4 DEF VhdInv, IsOpen
<1>7. ASSUME NEW e \in Drive, IsOpen(s_drive'[e]), s_drive'[e].path \notin shared'
      PROVE  Shows(s_drive'[e], card'[s_drive'[e].path], truth'[s_drive'[e].path],
                   lost'[s_drive'[e].path])
  <2>1. CASE e = d
    BY <1>3, <1>7, <2>1
  <2>2. CASE e # d
    <3>1. s_drive'[e] = s_drive[e] /\ s_drive[e].path \in File
      BY <1>1, <1>3, <1>7, <2>2 DEF BlockFile, IsOpen
    <3>2. s_drive[e].path # nb.path
      BY <1>7, <2>2, <3>1 DEF VhdInv
    <3> QED BY <1>7, <3>1, <3>2 DEF VhdInv
  <2> QED BY <2>1, <2>2
<1>8. ASSUME NEW f \in File \ shared', \A e \in Drive : s_drive'[e].path # f
      PROVE  Agrees(card'[f], truth'[f], lost'[f])
  <2>1. f # nb.path
    BY <1>3, <1>8
  <2>2. \A e \in Drive : s_drive[e].path # f
    BY <1>4, <1>8
  <2> QED BY <1>8, <2>1, <2>2 DEF VhdInv
<1> QED BY <1>2, <1>5, <1>6, <1>7, <1>8 DEF VhdInv

\* A step that closes the image of one drive and leaves it empty or with another
\* one, not yet opened.
LEMMA Exchange ==
  ASSUME VhdInv, RegistersOK', NEW d \in Drive, NEW nb, Sound(nb), nb.file = NoHandle,
         s_drive' = [s_drive EXCEPT ![d] = nb], CloseTo(s_drive[d]),
         UNCHANGED truth, shared' \subseteq File, shared \subseteq shared',
         IsOpen(nb) => nb.size = card'[nb.path].len,
         IsOpen(nb) /\ (\E e \in Drive \ {d} : s_drive[e].path = nb.path) => nb.path \in shared'
  PROVE  VhdInv'
<1>0. PICK drop \in DropChoices(s_drive[d]) : /\ card' = Synced(card, s_drive[d], drop)
                                              /\ lost' = LostWith(lost, card, s_drive[d], drop)
  BY DEF CloseTo
<1>1. /\ s_drive \in [Drive -> BlockFile] /\ nb \in BlockFile /\ card \in [File -> Image]
      /\ truth \in [File -> Image] /\ lost \in [File -> SUBSET Sector]
      /\ Sound(s_drive[d]) /\ s_drive[d] \in BlockFile
  BY InvSound DEF VhdInv, VhdTypeOK, Sound
<1>2. /\ card' \in [File -> Image] /\ lost' \in [File -> SUBSET Sector]
      /\ \A f \in File : card'[f] = IF f = s_drive[d].path
           THEN SyncedImage(card[f], s_drive[d], drop) ELSE card[f]
      /\ \A f \in File : lost'[f] = IF f = s_drive[d].path
           THEN lost[f] \cup Loss(card[f], s_drive[d], drop) ELSE lost[f]
  <2>1. Closing(card, lost, card', lost', s_drive[d], drop)
    BY <1>0, <1>1, SyncedCard
  <2> QED BY <2>1 DEF Closing
<1>3. VhdTypeOK'
  BY <1>1, <1>2 DEF VhdInv, VhdTypeOK, RegistersOK
<1>4. \A e \in Drive : s_drive'[e] = IF e = d THEN nb ELSE s_drive[e]
  BY <1>1
<1>5. \A e \in Drive : DirtyOk(s_drive'[e]) /\ Known(s_drive'[e])
  BY <1>4 DEF VhdInv, Sound
<1>6. \A b, e \in Drive : b # e /\ IsOpen(s_drive'[b]) /\ s_drive'[b].path = s_drive'[e].path
                            => s_drive'[b].path \in shared'
  BY <1>4 DEF VhdInv, IsOpen
<1>7. ASSUME NEW f \in File \ shared', \A e \in Drive \ {d} : s_drive[e].path # f
      PROVE  Agrees(card'[f], truth'[f], lost'[f])
  <2>1. CASE s_drive[d].path # f
    BY <1>2, <1>7, <2>1 DEF VhdInv
  <2>2. CASE s_drive[d].path = f
    <3>1. IsOpen(s_drive[d])
      BY <2>2, VhdAssumption DEF IsOpen
    <3>2. Shows(s_drive[d], card[f], truth[f], lost[f])
      BY <1>7, <2>2, <3>1 DEF VhdInv
    <3>3. card[f] \in Image /\ truth[f] \in Image
      BY <1>1
    <3>4. Agrees(SyncedImage(card[f], s_drive[d], drop), truth[f],
                 lost[f] \cup Loss(card[f], s_drive[d], drop))
      BY <1>1, <3>2, <3>3, SyncedAgrees
    <3> QED BY <1>2, <2>2, <3>4
  <2> QED BY <2>1, <2>2
<1>8. ASSUME NEW e \in Drive, IsOpen(s_drive'[e]), s_drive'[e].path \notin shared'
      PROVE  Shows(s_drive'[e], card'[s_drive'[e].path], truth'[s_drive'[e].path],
                   lost'[s_drive'[e].path])
  <2>1. CASE e = d
    <3>1. s_drive'[e] = nb /\ nb.path \in File \ shared'
      BY <1>1, <1>4, <1>8, <2>1 DEF BlockFile, IsOpen
    <3>2. Agrees(card'[nb.path], truth'[nb.path], lost'[nb.path])
      BY <1>7, <1>8, <2>1, <3>1
    <3>3. View(nb, card'[nb.path]) = card'[nb.path]
      BY DEF View
    <3>4. card'[nb.path].len \in Nat /\ nb.size = card'[nb.path].len
      BY <1>2, <1>8, <2>1, <3>1, VhdAssumption DEF Image
    <3>5. card'[nb.path].len <= truth'[nb.path].len
      BY <3>2 DEF Agrees
    <3> QED BY <3>1, <3>2, <3>3, <3>4, <3>5 DEF Shows
  <2>2. CASE e # d
    <3>1. s_drive'[e] = s_drive[e] /\ s_drive[e].path \in File
      BY <1>1, <1>4, <1>8, <2>2 DEF BlockFile, IsOpen
    <3>2. s_drive[e].path # s_drive[d].path
      BY <1>8, <2>2, <3>1 DEF VhdInv
    <3> QED BY <1>2, <1>8, <3>1, <3>2 DEF VhdInv
  <2> QED BY <2>1, <2>2
<1>9. ASSUME NEW f \in File \ shared', \A e \in Drive : s_drive'[e].path # f
      PROVE  Agrees(card'[f], truth'[f], lost'[f])
  BY <1>4, <1>7, <1>9
<1> QED BY <1>3, <1>5, <1>6, <1>8, <1>9 DEF VhdInv

-----------------------------------------------------------------------------
(* One lemma per kind of command.                                           *)

\* What a command that finds an image starts from.
LEMMA ReadyFacts ==
  ASSUME VhdInv, Ready
  PROVE  /\ Sound(Selected) /\ IsOpen(Selected) /\ Faithful(Selected) /\ s_offset \in Sector
         /\ s_drive_sel \in Drive /\ Selected = s_drive[s_drive_sel] /\ Selected.path \in File
         /\ card \in [File -> Image] /\ truth \in [File -> Image] /\ lost \in [File -> SUBSET Sector]
  BY InvSound, VhdAssumption DEF Ready, RegistersOK, Sector, VhdInv, VhdTypeOK

\* A command that moves the handle and may drop sectors that it holds.
LEMMA HandleStep ==
  ASSUME VhdInv, RegistersOK', Ready, NEW nb, Sound(nb), nb.path = Selected.path, NEW D \in SUBSET Sector,
         Keeps(Selected, nb, D), Put(nb), lost' = [lost EXCEPT ![Selected.path] = @ \cup D],
         UNCHANGED <<card, truth, shared>>
  PROVE  VhdInv'
<1>1. /\ Sound(Selected) /\ IsOpen(Selected) /\ Faithful(Selected) /\ s_drive_sel \in Drive
      /\ Selected = s_drive[s_drive_sel] /\ Selected.path \in File
      /\ card \in [File -> Image] /\ truth \in [File -> Image] /\ lost \in [File -> SUBSET Sector]
  BY ReadyFacts
<1>2. s_drive' = [s_drive EXCEPT ![s_drive_sel] = nb]
  BY DEF Put
<1>3. /\ lost' \in [File -> SUBSET Sector]
      /\ \A f \in File : lost'[f] = IF f = nb.path THEN lost[f] \cup D ELSE lost[f]
  BY <1>1
<1>4. ASSUME nb.path \notin shared
      PROVE  Shows(nb, card'[nb.path], truth'[nb.path], lost'[nb.path])
  <2>1. Shows(Selected, card[nb.path], truth[nb.path], lost[nb.path])
    BY <1>1, <1>4 DEF Faithful
  <2>2. Shows(nb, card[nb.path], truth[nb.path], lost[nb.path] \cup D)
    <3>1. card[nb.path] \in Image /\ truth[nb.path] \in Image /\ lost[nb.path] \in SUBSET Sector
      BY <1>1
    <3> QED BY <2>1, <3>1 DEF Keeps
  <2> QED BY <1>1, <1>3, <2>2
<1>5. card' \in [File -> Image] /\ truth' \in [File -> Image]
  BY <1>1
<1>6. \A f \in File : f # nb.path => /\ card'[f] = card[f] /\ truth'[f] = truth[f]
                                     /\ lost'[f] = lost[f]
  BY <1>3
<1>7. nb.path = s_drive[s_drive_sel].path
  BY <1>1
<1> QED BY <1>1, <1>2, <1>3, <1>4, <1>5, <1>6, <1>7, OneDrive

\* A handle moved by a read that went through, or by a transfer that failed.
LEMMA MovedStep ==
  ASSUME VhdInv, RegistersOK', Ready, NEW write \in BOOLEAN, NEW at \in 0 .. UNKNOWN,
         NEW p \in 0 .. UNKNOWN, p = UNKNOWN \/ p = at,
         Put(Moved(Positioned(Selected, s_offset, write), at, p)),
         UNCHANGED <<card, truth, lost, shared>>
  PROVE  VhdInv'
<1> DEFINE P == Positioned(Selected, s_offset, write)
           nb == Moved(P, at, p)
<1>1. /\ Sound(Selected) /\ IsOpen(Selected) /\ s_offset \in Sector /\ Selected.path \in File
      /\ lost \in [File -> SUBSET Sector]
  BY ReadyFacts
<1>2. /\ Sound(P) /\ P.path = Selected.path /\ P.file \in Handle
      /\ P.file.write = P.last_write /\ Keeps(Selected, P, {})
  BY <1>1, PositionedSound
<1>3. Put(nb)
  OBVIOUS
<1> HIDE DEF P
<1>4. p = UNKNOWN \/ (p = at /\ P.file.write = P.last_write)
  BY <1>2
<1>5. Sound(nb) /\ nb.path = P.path /\ Keeps(P, nb, {})
  BY <1>2, <1>4, MovedSound
<1> HIDE DEF nb
<1>6. Keeps(Selected, nb, {} \cup {})
  BY <1>2, <1>5, KeepsBoth
<1>7. lost' = [lost EXCEPT ![Selected.path] = lost[Selected.path] \cup ({} \cup {})]
  BY <1>1
<1> QED BY <1>2, <1>3, <1>5, <1>6, <1>7, HandleStep

\* A seek that failed.
LEMMA SeekFailedStep ==
  ASSUME VhdInv, RegistersOK', Ready, NEW write \in BOOLEAN, SeekFails(write),
         UNCHANGED <<card, truth, shared>>
  PROVE  VhdInv'
<1>0. PICK D \in DropSets(Selected) : /\ Put(SeekFailed(Reopened(Selected), write, D))
                                      /\ lost' = [lost EXCEPT ![Selected.path] = @ \cup D]
  BY DEF SeekFails
<1> DEFINE r == Reopened(Selected)
           nb == SeekFailed(r, write, D)
<1>1. /\ Sound(Selected) /\ IsOpen(Selected) /\ UNKNOWN \in 0 .. UNKNOWN /\ D \in SUBSET Sector
  BY ReadyFacts, VhdAssumption, DropSetTyped DEF UNKNOWN
<1>2. /\ Sound(r) /\ r.file \in Handle /\ r.path = Selected.path /\ Keeps(Selected, r, {})
  BY <1>1, ReopenedSound
<1>3. nb = Placed(r, UNKNOWN, UNKNOWN, write, D)
  BY DEF SeekFailed, Placed
<1>4. Put(nb)
  BY <1>0
<1> HIDE DEF r, nb
<1>5. Sound(nb) /\ nb.path = r.path /\ Keeps(r, nb, D)
  BY <1>1, <1>2, <1>3, Repositioned
<1>6. Keeps(Selected, nb, D)
  <2>1. Keeps(Selected, nb, {} \cup D) /\ {} \cup D = D
    BY <1>1, <1>2, <1>5, KeepsBoth
  <2> QED BY <2>1
<1> QED BY <1>0, <1>1, <1>2, <1>4, <1>5, <1>6, HandleStep

\* A write, whole or cut short, by a handle that may have dropped the sectors D.
LEMMA TransferStep ==
  ASSUME VhdInv, RegistersOK', Ready, NEW P, Sound(P), P.file \in Handle, P.path = Selected.path,
         P.file.at = s_offset, P.file.write = P.last_write, NEW D \in SUBSET Sector,
         Keeps(Selected, P, D), NEW v \in Content, NEW p \in {s_offset + 1, UNKNOWN},
         Transfers(P, v, p, D), UNCHANGED <<card, shared>>
  PROVE  VhdInv'
<1> DEFINE nb == Transfer(P, v, p)
<1>1. /\ Sound(Selected) /\ IsOpen(Selected) /\ Faithful(Selected) /\ s_offset \in Sector
      /\ s_drive_sel \in Drive /\ Selected = s_drive[s_drive_sel] /\ Selected.path \in File
      /\ card \in [File -> Image] /\ truth \in [File -> Image] /\ lost \in [File -> SUBSET Sector]
      /\ IsOpen(P)
  BY ReadyFacts DEF IsOpen
<1>2. s_drive' = [s_drive EXCEPT ![s_drive_sel] = nb]
  BY DEF Put, Transfers
<1>3. \A t \in Image : Stored(t, s_offset, v) \in Image
  BY <1>1, VhdAssumption DEF Stored, Image, Sector
<1>4. /\ truth' \in [File -> Image]
      /\ \A f \in File : truth'[f] = IF f = P.path THEN Stored(truth[f], s_offset, v) ELSE truth[f]
  BY <1>1, <1>3 DEF Transfers
<1>5. /\ lost' \in [File -> SUBSET Sector]
      /\ \A f \in File : lost'[f] = IF f = P.path THEN (lost[f] \cup D) \ {s_offset} ELSE lost[f]
  BY <1>1 DEF Transfers
<1>6. /\ Sound(nb) /\ nb.path = P.path
      /\ \A i \in Image, t \in Image, L \in SUBSET Sector :
           Shows(P, i, t, L) => Shows(nb, i, Stored(t, s_offset, v), L \ {s_offset})
  BY <1>1, TransferSound
<1> HIDE DEF nb
<1>7. ASSUME nb.path \notin shared
      PROVE  Shows(nb, card'[nb.path], truth'[nb.path], lost'[nb.path])
  <2> DEFINE f == P.path
  <2>1. /\ card[f] \in Image /\ truth[f] \in Image /\ lost[f] \in SUBSET Sector
        /\ lost[f] \cup D \in SUBSET Sector
    BY <1>1
  <2>2. Shows(Selected, card[f], truth[f], lost[f])
    BY <1>1, <1>6, <1>7 DEF Faithful
  <2>3. Shows(P, card[f], truth[f], lost[f] \cup D)
    BY <2>1, <2>2 DEF Keeps
  <2>4. Shows(nb, card[f], Stored(truth[f], s_offset, v), (lost[f] \cup D) \ {s_offset})
    BY <1>6, <2>1, <2>3
  <2> QED BY <1>1, <1>4, <1>5, <1>6, <2>4
<1>8. \A f \in File : f # nb.path => /\ card'[f] = card[f] /\ truth'[f] = truth[f]
                                     /\ lost'[f] = lost[f]
  BY <1>4, <1>5, <1>6
<1>9. card' \in [File -> Image] /\ nb.path = s_drive[s_drive_sel].path
  BY <1>1, <1>6
<1> QED BY <1>1, <1>2, <1>4, <1>5, <1>6, <1>7, <1>8, <1>9, OneDrive

\* A write that the card fails once the handle is in position.
LEMMA CutShortStep ==
  ASSUME VhdInv, RegistersOK', Ready, NEW D \in DropSets(Selected), NEW bf,
         bf = [Positioned(Selected, s_offset, TRUE) EXCEPT !.file.pend = Without(@, D)],
         \/ /\ Put(Moved(bf, UNKNOWN, UNKNOWN))
            /\ lost' = [lost EXCEPT ![bf.path] = @ \cup D]
            /\ UNCHANGED truth
         \/ Transfers(bf, Junk, UNKNOWN, D),
         UNCHANGED <<card, shared>>
  PROVE  VhdInv'
<1>1. PICK write \in BOOLEAN : write = TRUE
  OBVIOUS
<1> DEFINE P == Positioned(Selected, s_offset, write)
<1>2. /\ Sound(Selected) /\ IsOpen(Selected) /\ s_offset \in Sector /\ D \in SUBSET Sector
      /\ UNKNOWN \in 0 .. UNKNOWN /\ Junk \in Content
  BY ReadyFacts, DropSetTyped, VhdAssumption DEF UNKNOWN, Content
<1>3. /\ Sound(P) /\ P.path = Selected.path /\ P.file \in Handle /\ P.file.at = s_offset
      /\ P.file.write = P.last_write /\ Keeps(Selected, P, {})
  BY <1>2, PositionedSound
<1>4. bf = Dropped(P, D)
  BY <1>1 DEF Dropped
<1> HIDE DEF P
<1>5. /\ Sound(bf) /\ bf.path = Selected.path /\ bf.file \in Handle /\ bf.file.at = s_offset
      /\ bf.file.write = bf.last_write /\ Keeps(P, bf, D)
  <2>1. LET nb == Dropped(P, D)
        IN /\ Sound(nb) /\ nb.path = P.path /\ nb.size = P.size /\ nb.file \in Handle
           /\ nb.file.at = P.file.at /\ nb.file.write = P.file.write
           /\ nb.pos = P.pos /\ nb.last_write = P.last_write /\ Keeps(P, nb, D)
    BY <1>3, DroppedSound
  <2> QED BY <1>3, <1>4, <2>1
<1>6. Keeps(Selected, bf, D)
  <2>1. Keeps(Selected, bf, {} \cup D) /\ {} \cup D = D
    BY <1>2, <1>3, <1>5, KeepsBoth
  <2> QED BY <2>1
<1>7. CASE /\ Put(Moved(bf, UNKNOWN, UNKNOWN))
           /\ lost' = [lost EXCEPT ![bf.path] = @ \cup D]
           /\ UNCHANGED truth
  <2> DEFINE nb == Moved(bf, UNKNOWN, UNKNOWN)
  <2>1. Put(nb) /\ lost' = [lost EXCEPT ![Selected.path] = @ \cup D] /\ UNCHANGED truth
    BY <1>5, <1>7
  <2>2. Sound(nb) /\ nb.path = Selected.path /\ Keeps(bf, nb, {})
    BY <1>2, <1>5, MovedSound
  <2> HIDE DEF nb
  <2>3. Keeps(Selected, nb, D)
    <3>1. Keeps(Selected, nb, D \cup {}) /\ D \cup {} = D
      BY <1>2, <1>6, <2>2, KeepsBoth
    <3> QED BY <3>1
  <2> QED BY <1>2, <2>1, <2>2, <2>3, HandleStep
<1>8. CASE Transfers(bf, Junk, UNKNOWN, D)
  BY <1>2, <1>5, <1>6, <1>8, TransferStep
<1> QED BY <1>7, <1>8

\* vhd_flush_all(): the second drive does not disturb what the first wrote.
LEMMA FlushAllStep ==
  ASSUME VhdInv, RegistersOK', FlushAll, UNCHANGED <<truth, shared>>
  PROVE  VhdInv'
<1> DEFINE b0 == s_drive[0]
           b1 == s_drive[1]
<1>0. PICK x0 \in DropChoices(b0), x1 \in DropChoices(b1) :
        /\ card' = FlushTo(FlushTo(card, b0, x0), b1, x1)
        /\ lost' = FlushLost(FlushLost(lost, card, b0, x0), FlushTo(card, b0, x0), b1, x1)
        /\ s_drive' = [d \in Drive |-> Flushed(s_drive[d], IF d = 0 THEN x0 ELSE x1)]
  BY DEF FlushAll
<1> DEFINE mid == FlushTo(card, b0, x0)
           midl == FlushLost(lost, card, b0, x0)
           x(d) == IF d = 0 THEN x0 ELSE x1
<1>1. /\ Sound(b0) /\ Sound(b1) /\ card \in [File -> Image] /\ truth \in [File -> Image]
      /\ lost \in [File -> SUBSET Sector]
      /\ \A d \in Drive : d = 0 \/ d = 1
      /\ 0 \in Drive /\ 1 \in Drive /\ 0 # 1 /\ s_drive \in [Drive -> BlockFile]
  BY InvSound DEF Drive, VhdInv, VhdTypeOK
<1>2. /\ mid \in [File -> Image] /\ midl \in [File -> SUBSET Sector]
      /\ \A f \in File : mid[f] = IF f = b0.path THEN FlushedImage(card[f], b0, x0) ELSE card[f]
      /\ \A f \in File : midl[f] = IF f = b0.path THEN lost[f] \cup FlushedLoss(card[f], b0, x0)
                                   ELSE lost[f]
  <2>1. Flushing(card, lost, mid, midl, b0, x0)
    <3> HIDE DEF b0
    <3> QED BY <1>1, FlushedCard
  <2> QED BY <2>1 DEF Flushing
<1>3. /\ card' \in [File -> Image] /\ lost' \in [File -> SUBSET Sector]
      /\ \A f \in File : card'[f] = IF f = b1.path THEN FlushedImage(mid[f], b1, x1) ELSE mid[f]
      /\ \A f \in File : lost'[f] = IF f = b1.path THEN midl[f] \cup FlushedLoss(mid[f], b1, x1)
                                    ELSE midl[f]
  <2>1. card' = FlushTo(mid, b1, x1) /\ lost' = FlushLost(midl, mid, b1, x1)
    BY <1>0
  <2> HIDE DEF mid, midl, b1
  <2>2. Flushing(mid, midl, card', lost', b1, x1)
    BY <1>1, <1>2, <2>1, FlushedCard
  <2> QED BY <2>2 DEF Flushing
<1>4. ASSUME NEW d \in Drive
      PROVE  /\ s_drive'[d] = Flushed(s_drive[d], x(d)) /\ Sound(s_drive'[d])
             /\ s_drive'[d].path = s_drive[d].path
             /\ \A i \in Image, t \in Image, L \in SUBSET Sector :
                  Shows(s_drive[d], i, t, L)
                  => Shows(s_drive'[d], FlushedImage(i, s_drive[d], x(d)), t,
                           L \cup FlushedLoss(i, s_drive[d], x(d)))
  <2>1. s_drive'[d] = Flushed(s_drive[d], x(d))
    BY <1>0
  <2>2. Sound(s_drive[d]) /\ x(d) \in DropChoices(s_drive[d])
    BY <1>0, <1>1, InvSound
  <2> HIDE DEF x
  <2> QED BY <2>1, <2>2, FlushedSound
<1>5. VhdTypeOK'
  <2>1. s_drive' \in [Drive -> BlockFile]
    <3>1. \A d \in Drive : s_drive'[d] \in BlockFile
      BY <1>4 DEF Sound
    <3>2. s_drive' = [d \in Drive |-> s_drive'[d]]
      BY <1>0
    <3> QED BY <3>1, <3>2
  <2> QED BY <1>3, <2>1 DEF VhdInv, VhdTypeOK, RegistersOK
<1>6. ASSUME NEW d \in Drive, IsOpen(s_drive[d]), s_drive[d].path \notin shared
      PROVE  Shows(s_drive'[d], card'[s_drive[d].path], truth[s_drive[d].path], lost'[s_drive[d].path])
  <2> DEFINE f == s_drive[d].path
  <2>1. f \in File /\ card[f] \in Image /\ truth[f] \in Image /\ lost[f] \in SUBSET Sector
    BY <1>1, <1>6, InvSound
  <2>2. /\ card'[f] = FlushedImage(card[f], s_drive[d], x(d))
        /\ lost'[f] = lost[f] \cup FlushedLoss(card[f], s_drive[d], x(d))
    <3>1. CASE d = 0
      <4>1. b1.path # b0.path
        BY <1>1, <1>6, <3>1 DEF VhdInv
      <4> QED BY <1>2, <1>3, <2>1, <3>1, <4>1
    <3>2. CASE d = 1
      <4>1. b1.path # b0.path
        BY <1>1, <1>6, <3>2 DEF VhdInv
      <4> QED BY <1>1, <1>2, <1>3, <2>1, <3>2, <4>1
    <3> QED BY <1>1, <3>1, <3>2
  <2>3. Shows(s_drive[d], card[f], truth[f], lost[f])
    BY <1>6 DEF VhdInv
  <2>4. Shows(s_drive'[d], FlushedImage(card[f], s_drive[d], x(d)), truth[f],
              lost[f] \cup FlushedLoss(card[f], s_drive[d], x(d)))
    <3> HIDE DEF x, f
    <3> QED BY <1>4, <2>1, <2>3
  <2> QED BY <2>2, <2>4
<1>7. ASSUME NEW f \in File \ shared, \A d \in Drive : s_drive[d].path # f
      PROVE  Agrees(card'[f], truth[f], lost'[f])
  <2>1. b0.path # f /\ b1.path # f
    BY <1>1, <1>7
  <2>2. card'[f] = card[f] /\ lost'[f] = lost[f]
    BY <1>2, <1>3, <2>1
  <2> QED BY <1>7, <2>2 DEF VhdInv
<1> HIDE DEF b0, b1, mid, midl, x
<1>8. \A d \in Drive : DirtyOk(s_drive'[d]) /\ Known(s_drive'[d])
  BY <1>4 DEF Sound
<1>9. \A d, e \in Drive : d # e /\ IsOpen(s_drive'[d]) /\ s_drive'[d].path = s_drive'[e].path
                            => s_drive'[d].path \in shared'
  BY <1>4 DEF VhdInv, IsOpen
<1>10. \A d \in Drive : IsOpen(s_drive'[d]) /\ s_drive'[d].path \notin shared'
         => Shows(s_drive'[d], card'[s_drive'[d].path], truth'[s_drive'[d].path],
                  lost'[s_drive'[d].path])
  BY <1>4, <1>6 DEF IsOpen
<1>11. \A f \in File \ shared' : (\A d \in Drive : s_drive'[d].path # f)
                                  => Agrees(card'[f], truth'[f], lost'[f])
  BY <1>4, <1>7
<1> QED BY <1>5, <1>8, <1>9, <1>10, <1>11 DEF VhdInv

-----------------------------------------------------------------------------
\* What a read that went through hands to the CoCo.
LEMMA ReadSector ==
  ASSUME VhdInv, Read
  PROVE  /\ Positioned(Selected, s_offset, FALSE).file.at = s_offset
         /\ sector' \in Content
         /\ Selected.path \notin shared /\ s_offset \notin lost[Selected.path]
              => sector' = truth[Selected.path].data[s_offset]
<1>1. PICK write \in BOOLEAN : write = FALSE
  OBVIOUS
<1> DEFINE P == Positioned(Selected, s_offset, write)
<1>2. /\ Sound(Selected) /\ IsOpen(Selected) /\ Faithful(Selected) /\ s_offset \in Sector
      /\ Selected.path \in File
      /\ card \in [File -> Image] /\ truth \in [File -> Image] /\ lost \in [File -> SUBSET Sector]
  BY ReadyFacts DEF Read
<1>3. /\ P.path = Selected.path /\ P.file \in Handle /\ P.file.at = s_offset
      /\ P.file.write = write /\ Keeps(Selected, P, {})
  BY <1>2, PositionedSound
<1>4. P = Positioned(Selected, s_offset, FALSE)
  BY <1>1
<1>5. sector' = View(P, card[Selected.path]).data[s_offset]
  BY <1>1, <1>3, <1>4 DEF Read
<1> HIDE DEF P
<1>6. sector' \in Content
  <2>1. View(P, card[Selected.path]) \in Image
    BY <1>2, <1>3, MergedType DEF View
  <2> QED BY <1>2, <1>5, <2>1 DEF Image
<1>7. ASSUME Selected.path \notin shared, s_offset \notin lost[Selected.path]
      PROVE  sector' = truth[Selected.path].data[s_offset]
  <2> DEFINE f == Selected.path
  <2>1. Shows(Selected, card[f], truth[f], lost[f])
    BY <1>2, <1>7 DEF Faithful
  <2>2. card[f] \in Image /\ truth[f] \in Image /\ lost[f] \in SUBSET Sector
    BY <1>2
  <2>3. Shows(P, card[f], truth[f], lost[f] \cup {})
    BY <1>3, <2>1, <2>2 DEF Keeps
  <2>4. Agrees(View(P, card[f]), truth[f], lost[f] \cup {})
    BY <2>3 DEF Shows
  <2> QED BY <1>2, <1>5, <1>7, <2>4 DEF Agrees
<1> QED BY <1>3, <1>4, <1>6, <1>7

\* No image is mounted and nothing is cached.
LEMMA InitInv == VhdInit => VhdInv
<1> SUFFICES ASSUME VhdInit PROVE VhdInv
  OBVIOUS
<1>1. Unmounted \in BlockFile
  BY VhdAssumption DEF Unmounted, BlockFile, UNKNOWN
<1>2. /\ Unmounted.path = NoFile /\ Unmounted.file = NoHandle /\ Unmounted.dirty = FALSE
  BY DEF Unmounted
<1>3. \A d \in Drive : s_drive[d] = Unmounted
  BY DEF VhdInit
<1>4. VhdTypeOK
  <2>1. s_drive \in [Drive -> BlockFile] /\ card \in [File -> Image]
    BY <1>1 DEF VhdInit
  <2> QED BY <2>1, VhdAssumption DEF VhdInit, VhdTypeOK, Drive, Content
<1> HIDE DEF Unmounted
<1>5. \A d \in Drive : DirtyOk(s_drive[d]) /\ Known(s_drive[d]) /\ ~IsOpen(s_drive[d])
  BY <1>2, <1>3 DEF DirtyOk, Known, IsOpen
<1>6. \A f \in File : Agrees(card[f], truth[f], lost[f])
  <2>1. card = truth
    BY DEF VhdInit
  <2>2. \A f \in File : card[f].len \in Nat
    BY <1>4, VhdAssumption DEF VhdTypeOK, Image
  <2> QED BY <2>1, <2>2 DEF Agrees
<1> QED BY <1>4, <1>5, <1>6 DEF VhdInv, IsOpen

\* Every command, register write, mount, flush and frame keeps the invariant.
LEMMA NextInv == VhdInv /\ [VhdNext]_vhdVars => VhdInv'
<1> SUFFICES ASSUME VhdInv, [VhdNext]_vhdVars PROVE VhdInv'
  OBVIOUS
<1>0. /\ RegistersOK /\ Zero \in Content /\ 0 \in 0 .. VHD_MAX /\ 0 \in Drive
      /\ UNKNOWN \in 0 .. UNKNOWN /\ Junk \in Content /\ Val \subseteq Content
      /\ TRUE \in BOOLEAN /\ FALSE \in BOOLEAN /\ {} \in SUBSET Sector
      /\ s_offset + 1 \in {s_offset + 1, UNKNOWN} /\ UNKNOWN \in {s_offset + 1, UNKNOWN}
  BY InvSound, VhdAssumption DEF Content, Drive, UNKNOWN
<1>1. CASE UNCHANGED vhdVars
  BY <1>0, <1>1, OnlyRegisters DEF vhdVars, RegistersOK
<1>2. CASE Refused
  BY <1>0, <1>2, OnlyRegisters DEF Refused, Answer, RegistersOK, regs
<1>3. CASE ReadBeyond
  BY <1>0, <1>3, OnlyRegisters DEF ReadBeyond, Answer, RegistersOK, regs
<1>4. CASE WriteProtected
  BY <1>0, <1>4, OnlyRegisters DEF WriteProtected, Answer, RegistersOK, regs
<1>5. CASE InvalidCommand
  BY <1>0, <1>5, OnlyRegisters DEF InvalidCommand, Answer, RegistersOK, regs
<1>6. CASE \E n \in 0 .. VHD_MAX, d \in Drive : WriteRegisters(n, d)
  BY <1>0, <1>6, OnlyRegisters DEF WriteRegisters, RegistersOK
<1>7. CASE Read
  <2> DEFINE P == Positioned(Selected, s_offset, FALSE)
  <2>1. Ready /\ UNCHANGED <<card, truth, lost, shared>>
    BY <1>7 DEF Read
  <2>2. RegistersOK' /\ P.file.at = s_offset
    <3>1. sector' \in Content /\ P.file.at = s_offset
      BY <1>7, ReadSector
    <3>2. s_status' = "ok" /\ UNCHANGED <<s_offset, s_drive_sel>>
      BY <1>7 DEF Read, Answer, regs
    <3> QED BY <1>0, <3>1, <3>2 DEF RegistersOK
  <2>3. Put(Moved(P, P.file.at + 1, s_offset + 1))
    BY <1>7 DEF Read
  <2>4. s_offset + 1 \in 0 .. UNKNOWN
    BY <1>0, <2>1, VhdAssumption DEF Ready, UNKNOWN, RegistersOK
  <2>5. Put(Moved(P, s_offset + 1, s_offset + 1))
    BY <2>2, <2>3
  <2> QED BY <1>0, <2>1, <2>2, <2>4, <2>5, MovedStep
<1>8. CASE ReadFails
  <2>1. Ready /\ RegistersOK' /\ UNCHANGED <<card, truth, shared>>
    BY <1>0, <1>8 DEF ReadFails, Answer, RegistersOK, regs
  <2>2. CASE UNCHANGED <<s_drive, lost>>
    BY <2>1, <2>2, OnlyRegisters
  <2>3. CASE SeekFails(FALSE)
    BY <1>0, <2>1, <2>3, SeekFailedStep
  <2>4. CASE Put(Moved(Positioned(Selected, s_offset, FALSE), UNKNOWN, UNKNOWN)) /\ UNCHANGED lost
    BY <1>0, <2>1, <2>4, MovedStep
  <2> QED BY <1>8, <2>2, <2>3, <2>4 DEF ReadFails
<1>9. CASE \E v \in Val : Write(v)
  <2>1. PICK v \in Val : Write(v)
    BY <1>9
  <2>2. PICK write \in BOOLEAN : write = TRUE
    OBVIOUS
  <2> DEFINE P == Positioned(Selected, s_offset, write)
  <2>3. /\ Ready /\ RegistersOK' /\ UNCHANGED <<card, shared>> /\ v \in Content
        /\ Transfers(P, v, s_offset + 1, {})
    BY <1>0, <2>1, <2>2 DEF Write, Answer, RegistersOK, regs
  <2>4. Sound(Selected) /\ IsOpen(Selected) /\ s_offset \in Sector
    BY <2>3, ReadyFacts
  <2>5. /\ Sound(P) /\ P.path = Selected.path /\ P.file \in Handle /\ P.file.at = s_offset
        /\ P.file.write = P.last_write /\ Keeps(Selected, P, {})
    BY <2>4, PositionedSound
  <2> HIDE DEF P
  <2> QED BY <1>0, <2>3, <2>5, TransferStep
<1>10. CASE WriteFails
  <2>1. Ready /\ RegistersOK' /\ UNCHANGED <<card, shared>>
    BY <1>0, <1>10 DEF WriteFails, Answer, RegistersOK, regs
  <2>2. CASE UNCHANGED <<s_drive, truth, lost>>
    BY <2>1, <2>2, OnlyRegisters
  <2>3. CASE SeekFails(TRUE) /\ UNCHANGED truth
    BY <1>0, <2>1, <2>3, SeekFailedStep
  <2>4. ASSUME NEW D \in DropSets(Selected), NEW bf,
               bf = [Positioned(Selected, s_offset, TRUE) EXCEPT !.file.pend = Without(@, D)],
               \/ /\ Put(Moved(bf, UNKNOWN, UNKNOWN))
                  /\ lost' = [lost EXCEPT ![bf.path] = @ \cup D]
                  /\ UNCHANGED truth
               \/ Transfers(bf, Junk, UNKNOWN, D)
        PROVE  VhdInv'
    BY <2>1, <2>4, CutShortStep
  <2> QED BY <1>10, <2>2, <2>3, <2>4 DEF WriteFails
<1>11. CASE FlushCommand
  <2>0. PICK drop \in DropChoices(Selected) :
          /\ card' = FlushTo(card, Selected, drop) /\ Put(Flushed(Selected, drop))
          /\ lost' = FlushLost(lost, card, Selected, drop)
    BY <1>11 DEF FlushCommand
  <2> DEFINE nb == Flushed(Selected, drop)
  <2>1. /\ Sound(Selected) /\ Faithful(Selected) /\ IsOpen(Selected) /\ s_drive_sel \in Drive
        /\ Selected = s_drive[s_drive_sel] /\ Selected.path \in File
        /\ card \in [File -> Image] /\ truth \in [File -> Image] /\ lost \in [File -> SUBSET Sector]
    BY <1>0, <1>11, InvSound DEF FlushCommand, RegistersOK, VhdInv, VhdTypeOK
  <2>2. /\ s_drive' = [s_drive EXCEPT ![s_drive_sel] = nb]
        /\ UNCHANGED <<truth, shared>> /\ RegistersOK'
    BY <1>0, <1>11, <2>0 DEF FlushCommand, Put, Answer, RegistersOK
  <2>3. /\ Sound(nb) /\ nb.path = Selected.path
        /\ \A i \in Image, t \in Image, L \in SUBSET Sector :
             Shows(Selected, i, t, L)
             => Shows(nb, FlushedImage(i, Selected, drop), t, L \cup FlushedLoss(i, Selected, drop))
    BY <2>1, FlushedSound
  <2>4. /\ card' \in [File -> Image] /\ lost' \in [File -> SUBSET Sector]
        /\ \A f \in File : card'[f] = IF f = Selected.path
             THEN FlushedImage(card[f], Selected, drop) ELSE card[f]
        /\ \A f \in File : lost'[f] = IF f = Selected.path
             THEN lost[f] \cup FlushedLoss(card[f], Selected, drop) ELSE lost[f]
    <3>1. Flushing(card, lost, card', lost', Selected, drop)
      BY <2>0, <2>1, FlushedCard
    <3> QED BY <3>1 DEF Flushing
  <2> HIDE DEF nb
  <2>5. ASSUME nb.path \notin shared
        PROVE  Shows(nb, card'[nb.path], truth'[nb.path], lost'[nb.path])
    <3> DEFINE f == Selected.path
    <3>1. card[f] \in Image /\ truth[f] \in Image /\ lost[f] \in SUBSET Sector
      BY <2>1
    <3>2. Shows(Selected, card[f], truth[f], lost[f])
      BY <2>1, <2>3, <2>5 DEF Faithful
    <3> QED BY <2>1, <2>2, <2>3, <2>4, <3>1, <3>2
  <2>6. \A f \in File : f # nb.path => /\ card'[f] = card[f] /\ truth'[f] = truth[f]
                                       /\ lost'[f] = lost[f]
    BY <2>2, <2>3, <2>4
  <2>7. truth' \in [File -> Image] /\ nb.path = s_drive[s_drive_sel].path
    BY <2>1, <2>2, <2>3
  <2> QED BY <2>1, <2>2, <2>3, <2>4, <2>5, <2>6, <2>7, OneDrive
<1>12. CASE \E d \in Drive : IdleTick(d)
  <2>1. PICK d \in Drive : IdleTick(d)
    BY <1>12
  <2> DEFINE bf == s_drive[d]
             nb == IdleClosed(bf)
  <2>2. /\ Sound(bf) /\ Faithful(bf) /\ IsOpen(bf) /\ bf.path \in File
        /\ card \in [File -> Image] /\ truth \in [File -> Image] /\ lost \in [File -> SUBSET Sector]
    BY <2>1, InvSound DEF IdleTick, Sound, DirtyOk, IsOpen, BlockFile, VhdInv, VhdTypeOK
  <2>0. PICK drop \in DropChoices(bf) : /\ card' = Synced(card, bf, drop)
                                        /\ lost' = LostWith(lost, card, bf, drop)
    BY <2>1 DEF IdleTick, CloseTo
  <2>3. /\ s_drive' = [s_drive EXCEPT ![d] = nb]
        /\ UNCHANGED <<truth, shared>> /\ RegistersOK'
    BY <1>0, <2>1 DEF IdleTick, RegistersOK, regs
  <2>4. /\ Sound(nb) /\ nb.path = bf.path
        /\ \A i \in Image, t \in Image, L \in SUBSET Sector :
             Shows(bf, i, t, L)
             => Shows(nb, SyncedImage(i, bf, drop), t, L \cup Loss(i, bf, drop))
    BY <2>2, IdleClosedSound
  <2>5. /\ card' \in [File -> Image] /\ lost' \in [File -> SUBSET Sector]
        /\ \A f \in File : card'[f] = IF f = bf.path THEN SyncedImage(card[f], bf, drop) ELSE card[f]
        /\ \A f \in File : lost'[f] = IF f = bf.path THEN lost[f] \cup Loss(card[f], bf, drop)
                                      ELSE lost[f]
    <3>1. Closing(card, lost, card', lost', bf, drop)
      BY <2>0, <2>2, SyncedCard
    <3> QED BY <3>1 DEF Closing
  <2> HIDE DEF nb
  <2>6. ASSUME nb.path \notin shared
        PROVE  Shows(nb, card'[nb.path], truth'[nb.path], lost'[nb.path])
    <3> DEFINE f == bf.path
    <3>1. card[f] \in Image /\ truth[f] \in Image /\ lost[f] \in SUBSET Sector
      BY <2>2
    <3>2. Shows(bf, card[f], truth[f], lost[f])
      BY <2>2, <2>4, <2>6 DEF Faithful
    <3> QED BY <2>2, <2>3, <2>4, <2>5, <3>1, <3>2
  <2>7. \A f \in File : f # nb.path => /\ card'[f] = card[f] /\ truth'[f] = truth[f]
                                       /\ lost'[f] = lost[f]
    BY <2>3, <2>4, <2>5
  <2>8. truth' \in [File -> Image]
    BY <2>2, <2>3
  <2> QED BY <2>2, <2>3, <2>4, <2>5, <2>6, <2>7, <2>8, OneDrive
<1>13. CASE UserFlush
  BY <1>0, <1>13, FlushAllStep DEF UserFlush, RegistersOK, regs
<1>14. CASE Reset
  BY <1>0, <1>14, FlushAllStep DEF Reset, RegistersOK
<1>15. CASE \E d \in Drive : Unmount(d)
  <2>1. PICK d \in Drive : Unmount(d)
    BY <1>15
  <2> DEFINE nb == Closed(s_drive[d])
  <2>2. /\ Sound(nb) /\ nb.file = NoHandle /\ ~IsOpen(nb)
    BY InvSound, ClosedSound DEF IsOpen
  <2>3. /\ CloseTo(s_drive[d]) /\ s_drive' = [s_drive EXCEPT ![d] = nb]
        /\ UNCHANGED <<truth, shared>> /\ RegistersOK' /\ shared' \subseteq File
    BY <1>0, <2>1 DEF Unmount, Answer, RegistersOK, regs, VhdInv, VhdTypeOK
  <2> HIDE DEF nb
  <2> QED BY <2>2, <2>3, Exchange
<1>16. CASE \E d \in Drive : MountFails(d)
  <2>1. PICK d \in Drive : MountFails(d)
    BY <1>16
  <2> DEFINE nb == Closed(s_drive[d])
  <2>2. /\ Sound(nb) /\ nb.file = NoHandle /\ ~IsOpen(nb)
    BY InvSound, ClosedSound DEF IsOpen
  <2>3. /\ CloseTo(s_drive[d]) /\ s_drive' = [s_drive EXCEPT ![d] = nb]
        /\ UNCHANGED <<truth, shared>> /\ RegistersOK' /\ shared' \subseteq File
    BY <1>0, <2>1 DEF MountFails, Answer, RegistersOK, VhdInv, VhdTypeOK
  <2> HIDE DEF nb
  <2> QED BY <2>2, <2>3, Exchange
<1>17. ASSUME NEW d \in Drive, NEW f \in File, NEW ro \in BOOLEAN, Mount(d, f, ro)
       PROVE  VhdInv'
  <2> DEFINE c == Closed(s_drive[d])
             nb == [c EXCEPT !.path = f, !.size = card'[f].len, !.read_only = ro]
  <2>1. /\ Sound(s_drive[d]) /\ Sound(c) /\ c.file = NoHandle /\ c.dirty = FALSE
        /\ card \in [File -> Image] /\ lost \in [File -> SUBSET Sector]
    BY InvSound, ClosedSound DEF VhdInv, VhdTypeOK
  <2>2. /\ CloseTo(s_drive[d]) /\ s_drive' = [s_drive EXCEPT ![d] = nb]
        /\ UNCHANGED truth /\ RegistersOK'
        /\ shared' = shared \cup {g \in {f} : \E e \in Drive \ {d} : s_drive[e].path = g}
    BY <1>0, <1>17 DEF Mount, Answer, RegistersOK
  <2>3. card'[f].len \in 0 .. VHD_MAX
    <3>1. card' \in [File -> Image]
      BY <2>1, <2>2, SyncedCard DEF CloseTo, Closing
    <3> QED BY <3>1 DEF Image
  <2> HIDE DEF c
  <2>4. /\ nb \in BlockFile /\ nb.file = NoHandle /\ nb.path = f /\ nb.dirty = FALSE
        /\ nb.size = card'[f].len
    BY <2>1, <2>3 DEF Sound, BlockFile
  <2> HIDE DEF nb
  <2>5. Sound(nb)
    BY <2>4 DEF Sound, DirtyOk, Known
  <2>6. /\ shared' \subseteq File /\ shared \subseteq shared'
        /\ (\E e \in Drive \ {d} : s_drive[e].path = f) => f \in shared'
    BY <2>2 DEF VhdInv, VhdTypeOK
  <2> QED BY <2>2, <2>4, <2>5, <2>6, Exchange
<1>18. CASE \E d \in Drive : PassesOn(d)
  <2>1. PICK d \in Drive : PassesOn(d)
    BY <1>18
  <2> DEFINE bf == s_drive[d]
  <2>2. PICK s \in Pending(bf) :
          /\ card' = [card EXCEPT ![bf.path].data[s] = bf.file.pend[s]]
          /\ s_drive' = [s_drive EXCEPT ![d].file.pend[s] = NoVal]
    BY <2>1 DEF PassesOn
  <2> DEFINE nb == [bf EXCEPT !.file.pend[s] = NoVal]
             f == bf.path
             j == [card[f] EXCEPT !.data[s] = bf.file.pend[s]]
  <2>3. /\ UNCHANGED <<truth, lost, shared>> /\ RegistersOK'
    BY <1>0, <2>1 DEF PassesOn, RegistersOK, regs
  <2>4. /\ Sound(bf) /\ Faithful(bf) /\ s_drive \in [Drive -> BlockFile]
        /\ card \in [File -> Image] /\ truth \in [File -> Image] /\ lost \in [File -> SUBSET Sector]
    BY InvSound DEF VhdInv, VhdTypeOK
  <2>5. /\ Sound(nb) /\ nb.path = f /\ IsOpen(bf) /\ s \in Sector /\ bf.file.pend[s] \in Content
        /\ \A i \in Image, t \in Image, L \in SUBSET Sector :
             Shows(bf, i, t, L) => Shows(nb, [i EXCEPT !.data[s] = bf.file.pend[s]], t, L)
    BY <2>4, PassedSound
  <2>6. f \in File
    BY <2>5, InvSound
  <2>7. card[f] \in Image /\ truth[f] \in Image /\ lost[f] \in SUBSET Sector /\ j \in Image
    BY <2>4, <2>5, <2>6 DEF Image
  <2>8. s_drive' = [s_drive EXCEPT ![d] = nb] /\ card' = [card EXCEPT ![f] = j]
    BY <2>2, <2>4
  <2>9. ASSUME f \notin shared PROVE Shows(nb, j, truth[f], lost[f])
    BY <2>4, <2>5, <2>7, <2>9 DEF Faithful
  <2> HIDE DEF nb, j
  <2>10. /\ card' \in [File -> Image] /\ card'[f] = j
         /\ \A g \in File : g # f => card'[g] = card[g]
    BY <2>4, <2>6, <2>7, <2>8
  <2>11. nb.path \notin shared => Shows(nb, card'[nb.path], truth'[nb.path], lost'[nb.path])
    BY <2>3, <2>5, <2>9, <2>10
  <2>12. \A g \in File : g # nb.path => /\ card'[g] = card[g] /\ truth'[g] = truth[g]
                                        /\ lost'[g] = lost[g]
    BY <2>3, <2>5, <2>10
  <2>13. truth' \in [File -> Image] /\ lost' \in [File -> SUBSET Sector]
    BY <2>3, <2>4
  <2> QED BY <2>3, <2>5, <2>8, <2>10, <2>11, <2>12, <2>13, OneDrive
<1> QED BY <1>1, <1>2, <1>3, <1>4, <1>5, <1>6, <1>7, <1>8, <1>9, <1>10, <1>11, <1>12, <1>13,
           <1>14, <1>15, <1>16, <1>17, <1>18 DEF VhdNext

-----------------------------------------------------------------------------
\* But for what the card dropped, what the CoCo wrote is on the card or in the handle
\* of the drive that has the image, whatever the card refuses and in whatever order
\* commands, idle closes, flushes, resets and remounts come.
THEOREM VhdCorrect == VhdSpec => []VhdInv
  BY InitInv, NextInv, PTL DEF VhdSpec

\* position() skips the seek only when the handle stands at the offset and its last
\* transfer had the same direction.
THEOREM VhdPosition == VhdSpec => []PositionKnown
<1>1. VhdInv => PositionKnown
  BY DEF VhdInv, PositionKnown
<1> QED BY <1>1, VhdCorrect, PTL

\* blockfile_write() keeps bf->size equal to the size of the image, unless the card
\* dropped part of it.
THEOREM VhdSize == VhdSpec => []SizeFollows
<1>1. VhdInv => SizeFollows
  <2> SUFFICES ASSUME VhdInv, NEW d \in Drive, IsOpen(s_drive[d]),
                      s_drive[d].path \notin shared, lost[s_drive[d].path] = {}
               PROVE  s_drive[d].size = truth[s_drive[d].path].len
    BY DEF SizeFollows
  <2> DEFINE bf == s_drive[d]
             t == truth[bf.path]
             v == View(bf, card[bf.path])
  <2>1. Sound(bf) /\ Faithful(bf) /\ card[bf.path] \in Image /\ t \in Image
    BY InvSound DEF VhdInv, VhdTypeOK
  <2>2. Agrees(v, t, {}) /\ v.len <= bf.size /\ bf.size <= t.len
    BY <2>1 DEF Faithful, Shows
  <2>3. v \in Image
    BY <2>1, MergedType DEF View, Sound, BlockFile
  <2>4. v.len \in 0 .. VHD_MAX /\ bf.size \in Nat /\ t.len \in 0 .. VHD_MAX /\ VHD_MAX \in Nat
    BY <2>1, <2>3, VhdAssumption DEF Image, Sound, BlockFile
  <2> HIDE DEF bf, t, v
  <2>5. t.len <= v.len
    <3>1. CASE t.len = 0
      BY <2>4, <3>1
    <3>2. CASE t.len # 0
      <4>1. t.len - 1 \in Sector /\ t.len - 1 < t.len
        BY <2>4, <3>2 DEF Sector
      <4>2. t.len - 1 < v.len
        BY <2>2, <4>1 DEF Agrees
      <4> QED BY <2>4, <4>2
    <3> QED BY <3>1, <3>2
  <2> QED BY <2>2, <2>4, <2>5 DEF bf, t
<1> QED BY <1>1, VhdCorrect, PTL

\* An image no drive holds dirty is on the card as the CoCo left it, but for the
\* sectors that the card dropped while a flush, a seek, a write or a close was passing
\* them on and that were not written again since.
THEOREM VhdClean == VhdSpec => []CleanIsOnCard
<1>1. VhdInv => CleanIsOnCard
  <2> SUFFICES ASSUME VhdInv, NEW f \in File \ shared,
                      \A d \in Drive : s_drive[d].path = f => ~s_drive[d].dirty
               PROVE  Agrees(card[f], truth[f], lost[f])
    BY DEF CleanIsOnCard
  <2>1. CASE \A d \in Drive : s_drive[d].path # f
    BY <2>1 DEF VhdInv
  <2>2. ASSUME NEW d \in Drive, s_drive[d].path = f PROVE Agrees(card[f], truth[f], lost[f])
    <3>1. IsOpen(s_drive[d]) /\ Faithful(s_drive[d])
      BY <2>2, InvSound, VhdAssumption DEF IsOpen
    <3> QED BY <2>2, <3>1 DEF Faithful, Shows
  <2> QED BY <2>1, <2>2
<1> QED BY <1>1, VhdCorrect, PTL

\* A read the card does not fail returns what was last written to that sector, unless
\* the card dropped it.
THEOREM VhdReadsBack == VhdSpec => ReadsBack
<1>1. VhdInv /\ [VhdNext]_vhdVars =>
        [Read /\ Selected.path \notin shared /\ s_offset \notin lost[Selected.path]
           => sector' = truth[Selected.path].data[s_offset]]_vhdVars
  BY ReadSector
<1> QED BY <1>1, VhdCorrect, PTL DEF VhdSpec, ReadsBack

-----------------------------------------------------------------------------
(* The radio.                                                               *)

\* A radio that nobody uses.
Silent == [mode |-> "off", join |-> NONE, up |-> FALSE]

\* A scan gives back what it took: a radio in use stays as it is, any other is off after it.
LEMMA ScanGivesBack ==
  ASSUME WifiIInv, Running
  PROVE  LET scan == wifi_mgr_scan
             free == wifi_mgr_scan_free(scan[1], scan[2])
         IN  \/ free = <<mgr, radio>> /\ mgr.state \in {"running", "off"} /\ radio.mode # "off"
             \/ free = <<[mgr EXCEPT !.state = "off", !.scan_powered = FALSE], Silent>>
<1>1. /\ mgr.state \in {"off", "connecting", "running", "failed"} /\ mgr.scan_powered = FALSE
      /\ mgr = [mgr EXCEPT !.scan_powered = FALSE]
      /\ radio.mode \in {"off", "sta"}
      /\ mgr \in [state : {"reset", "off", "connecting", "running", "failed"}, age : Nat,
              scan_powered : BOOLEAN, ssid : SSIDS \cup {NONE}]
      /\ radio \in [mode : {"off", "sta"}, join : SSIDS \cup {NONE}, up : BOOLEAN]
  BY DEF WifiIInv, WifiTypeOK, RadioAndBus, RadioOwned, Running
<1>2. CASE Drops(mgr.state)
  <2> DEFINE m == [mgr EXCEPT !.state = "off", !.scan_powered = mgr.scan_powered \/ (TRUE \/ radio.mode = "off")]
             r == IF Disconnected(radio).mode = "off" THEN Mode("sta") ELSE Disconnected(radio)
  <2>1. Drops(mgr.state) = TRUE
    BY <1>2 DEF Drops
  <2>2. wifi_mgr_scan = <<m, r>>
    BY <2>1 DEF wifi_mgr_scan, AnswersForRadio
  <2>3. m.scan_powered /\ m.state = "off" /\ [m EXCEPT !.scan_powered = FALSE] = [mgr EXCEPT !.state = "off", !.scan_powered = FALSE]
    BY <1>1
  <2> HIDE DEF m, r
  <2> QED
    BY <2>2, <2>3 DEF wifi_mgr_scan_free, PowersDown, Silent
<1>3. CASE ~Drops(mgr.state) /\ radio.mode = "off"
  <2> DEFINE m == [mgr EXCEPT !.scan_powered = mgr.scan_powered \/ (FALSE \/ radio.mode = "off")]
             r == Mode("sta")
  <2>1. Drops(mgr.state) = FALSE
    BY <1>3 DEF Drops
  <2>4. mgr.state = "off"
    BY <1>1, <1>3 DEF Drops, WifiIInv, RadioAndBus, RadioOwned
  <2>2. wifi_mgr_scan = <<m, r>>
    BY <1>1, <1>3, <2>1 DEF wifi_mgr_scan, AnswersForRadio
  <2>3. m.scan_powered /\ m.state = "off" /\ [m EXCEPT !.scan_powered = FALSE] = [mgr EXCEPT !.state = "off", !.scan_powered = FALSE]
    BY <1>1, <1>3, <2>4
  <2> HIDE DEF m, r
  <2> QED
    BY <2>2, <2>3 DEF wifi_mgr_scan_free, PowersDown, Silent
<1>4. CASE ~Drops(mgr.state) /\ radio.mode # "off"
  <2> DEFINE m == [mgr EXCEPT !.scan_powered = mgr.scan_powered \/ (FALSE \/ radio.mode = "off")]
  <2>1. Drops(mgr.state) = FALSE
    BY <1>4 DEF Drops
  <2>5. mgr.state \in {"running", "off"}
    BY <1>1, <1>4 DEF Drops
  <2>2. wifi_mgr_scan = <<m, radio>>
    BY <1>1, <1>4, <2>1 DEF wifi_mgr_scan, AnswersForRadio
  <2>3. ~m.scan_powered /\ [m EXCEPT !.scan_powered = FALSE] = mgr
    BY <1>1, <1>4
  <2> HIDE DEF m
  <2> QED
    BY <1>4, <2>2, <2>3, <2>5 DEF wifi_mgr_scan_free, PowersDown
<1> QED
  BY <1>2, <1>3, <1>4

\* The manager's view of the radio, of any two records.
Owns(m, r, disowned) ==
  /\ m.state \in {"connecting", "running", "failed"} => r.mode = "sta" /\ r.join # NONE
  /\ m.state = "off" /\ ~disowned => r.mode = "off" /\ ~r.up
  /\ ~m.scan_powered
  /\ r.mode = "off" => r.join = NONE /\ ~r.up

\* What BusReady asks of a manager that runs.
Waits(b, u, m, n) ==
  b.mode = "external" /\ ~u.touched /\ m.state # "reset" /\ n.ssid # NONE => m.state # "off"

\* The inductive invariant by its parts.
LEMMA WifiParts ==
  WifiIInv <=> /\ WifiTypeOK /\ Owns(mgr, radio, user.disowned) /\ Waits(bus, user, mgr, nvs)
               /\ bus.hdbdos = (bus.mode = "external") /\ (bus.mode = "external" => bus.host # NONE)
  BY Zenon DEF WifiIInv, RadioAndBus, RadioOwned, BusReady, OffIsQuiet, Running, Owns, Waits

\* Joining the network whose credentials are saved, from a radio that is off or in use.
LEMMA ConnectSaved ==
  ASSUME NEW s \in [state : {"reset", "off", "connecting", "running", "failed"}, age : Nat,
                    scan_powered : BOOLEAN, ssid : SSIDS \cup {NONE}], ~s.scan_powered,
         NEW creds \in SSIDS \cup {NONE}, NEW r
  PROVE  \/ creds = NONE /\ connect_saved(s, creds, r) = <<[s EXCEPT !.state = "off"], r>>
         \/ /\ creds # NONE /\ connect_saved(s, creds, r) = <<begin_sta(creds), Joining(creds)>>
            /\ begin_sta(creds).state = "connecting" /\ Owns(begin_sta(creds), Joining(creds), FALSE)
            /\ Owns(begin_sta(creds), Joining(creds), TRUE)
  BY DEF connect_saved, begin_sta, Joining, Owns

\* The manager and the radio of a network that was chosen.
LEMMA Begins ==
  ASSUME NEW s \in SSIDS
  PROVE  /\ begin_sta(s) \in [state : {"reset", "off", "connecting", "running", "failed"}, age : Nat,
                             scan_powered : BOOLEAN, ssid : SSIDS \cup {NONE}]
         /\ Joining(s) \in [mode : {"off", "sta"}, join : SSIDS \cup {NONE}, up : BOOLEAN]
         /\ begin_sta(s).state = "connecting"
         /\ \A d \in BOOLEAN : Owns(begin_sta(s), Joining(s), d)
  BY WifiAssumption DEF begin_sta, Joining, Owns

\* The same of the state after a step, given value by value.
LEMMA WifiPartsAfter ==
  ASSUME NEW m \in [state : {"reset", "off", "connecting", "running", "failed"}, age : Nat,
                    scan_powered : BOOLEAN, ssid : SSIDS \cup {NONE}],
         NEW r \in [mode : {"off", "sta"}, join : SSIDS \cup {NONE}, up : BOOLEAN],
         NEW n \in [ssid : SSIDS \cup {NONE}, auto : BOOLEAN, bus_mode : {"off", "external"},
                    dw_host : HOSTS \cup {NONE}],
         NEW b \in [mode : {"off", "external"}, host : HOSTS \cup {NONE}, hdbdos : BOOLEAN],
         NEW u \in [touched : BOOLEAN, disowned : BOOLEAN],
         mgr' = m, radio' = r, nvs' = n, bus' = b, user' = u, view' \in {"main", "nets"},
         Owns(m, r, u.disowned), Waits(b, u, m, n),
         b.hdbdos = (b.mode = "external"), b.mode = "external" => b.host # NONE
  PROVE  WifiIInv'
<1>1. WifiTypeOK'
  BY DEF WifiTypeOK
<1>2. RadioOwned' /\ OffIsQuiet'
  BY Zenon DEF RadioOwned, OffIsQuiet, Owns
<1>3. BusReady'
  BY Zenon DEF BusReady, Waits, Running
<1> QED
  BY <1>1, <1>2, <1>3 DEF WifiIInv, RadioAndBus

\* Every step of the manager, its screen, the radio and the board.
LEMMA WifiStep ==
  ASSUME WifiIInv, WifiNext
  PROVE  WifiIInv'
<1> DEFINE Mgr == [state : {"reset", "off", "connecting", "running", "failed"}, age : Nat,
                   scan_powered : BOOLEAN, ssid : SSIDS \cup {NONE}]
           Radio == [mode : {"off", "sta"}, join : SSIDS \cup {NONE}, up : BOOLEAN]
           Nvs == [ssid : SSIDS \cup {NONE}, auto : BOOLEAN, bus_mode : {"off", "external"},
                   dw_host : HOSTS \cup {NONE}]
           Bus == [mode : {"off", "external"}, host : HOSTS \cup {NONE}, hdbdos : BOOLEAN]
           User == [touched : BOOLEAN, disowned : BOOLEAN]
           BusOk(b) == b.hdbdos = (b.mode = "external") /\ (b.mode = "external" => b.host # NONE)
           After == /\ mgr' \in Mgr /\ radio' \in Radio /\ nvs' \in Nvs /\ bus' \in Bus /\ user' \in User
                    /\ view' \in {"main", "nets"}
                    /\ Owns(mgr', radio', user'.disowned) /\ Waits(bus', user', mgr', nvs')
                    /\ BusOk(bus')
<1>0. /\ mgr \in Mgr /\ radio \in Radio /\ nvs \in Nvs /\ bus \in Bus /\ user \in User
      /\ view \in {"main", "nets"}
      /\ Owns(mgr, radio, user.disowned) /\ Waits(bus, user, mgr, nvs)
      /\ BusOk(bus)
  BY WifiParts DEF WifiTypeOK
<1> SUFFICES After
  BY WifiPartsAfter, Zenon
<1>a. NONE \notin SSIDS /\ \A s \in SSIDS : s \in SSIDS \cup {NONE}
  BY WifiAssumption
<1>1. CASE Boot
  <2>1. PICK rings \in BOOLEAN : Booted(rings) /\ nvs' = nvs
    BY <1>1 DEF Boot
  <2> DEFINE b == dw_bus_load_config(rings)
             s == [state |-> "off", age |-> 0, scan_powered |-> FALSE, ssid |-> nvs.ssid]
             auto == IF nvs.auto THEN connect_saved(s, nvs.ssid, Silent) ELSE <<s, Silent>>
             up == dw_bus_begin(b, auto[1], auto[2])
  <2>2. /\ bus' = b /\ mgr' = up[1] /\ radio' = up[2] /\ view' = "main"
        /\ user' = [touched |-> FALSE, disowned |-> FALSE]
    BY <2>1 DEF Booted, Silent
  <2>3. b \in Bus /\ BusOk(b)
    BY <1>0 DEF dw_bus_load_config
  <2>4. s \in Mgr /\ Silent \in Radio /\ s.state = "off" /\ Owns(s, Silent, FALSE) /\ ~s.scan_powered
        /\ nvs.ssid \in SSIDS \cup {NONE}
    BY <1>0 DEF Silent, Owns
  <2> HIDE DEF b, s
  <2>5. [s EXCEPT !.state = "off"] = s
    BY <2>4
  <2> DEFINE joined == <<begin_sta(nvs.ssid), Joining(nvs.ssid)>>
  <2>6. \/ nvs.ssid = NONE /\ connect_saved(s, nvs.ssid, Silent) = <<s, Silent>>
        \/ nvs.ssid # NONE /\ connect_saved(s, nvs.ssid, Silent) = joined
    BY <2>4, <2>5, ConnectSaved
  <2>7. \/ auto = <<s, Silent>>
        \/ nvs.ssid # NONE /\ auto = joined
    BY <2>6
  <2>8. nvs.ssid # NONE => begin_sta(nvs.ssid).state = "connecting"
    BY DEF begin_sta
  <2>9. \/ up = <<s, Silent>> /\ ~(b.mode = "external" /\ nvs.ssid # NONE)
        \/ nvs.ssid # NONE /\ up = joined
    BY <2>4, <2>6, <2>7, <2>8 DEF dw_bus_begin
  <2> HIDE DEF up
  <2>10. CASE up = <<s, Silent>> /\ ~(b.mode = "external" /\ nvs.ssid # NONE)
    <3>1. mgr' = s /\ radio' = Silent
      BY <2>2, <2>10
    <3>2. Waits(bus', user', mgr', nvs')
      BY <2>1, <2>2, <2>10, Zenon DEF Waits
    <3>3. user' \in User /\ user'.disowned = FALSE
      BY <2>2
    <3> QED
      BY <1>0, <2>1, <2>2, <2>3, <2>4, <3>1, <3>2, <3>3
  <2>11. CASE nvs.ssid # NONE /\ up = joined
    <3>1. mgr' = begin_sta(nvs.ssid) /\ radio' = Joining(nvs.ssid)
      BY <2>2, <2>11
    <3>2. nvs.ssid \in SSIDS
      BY <2>4, <2>11
    <3>3. user' \in User /\ user'.disowned = FALSE
      BY <2>2
    <3>4. /\ mgr' \in Mgr /\ radio' \in Radio /\ mgr'.state = "connecting"
          /\ Owns(mgr', radio', user'.disowned)
      BY <3>1, <3>2, <3>3, Begins
    <3>5. Waits(bus', user', mgr', nvs')
      BY <3>4 DEF Waits
    <3> QED
      BY <1>0, <2>1, <2>2, <2>3, <3>3, <3>4, <3>5
  <2> QED
    BY <2>9, <2>10, <2>11
<1>2. CASE StationUp \/ StationDown
  <2>a. UNCHANGED <<mgr, nvs, bus, view, user>>
    BY <1>2 DEF StationUp, StationDown
  <2>b. \/ radio' = [radio EXCEPT !.up = TRUE] /\ radio.join # NONE
        \/ radio' = [radio EXCEPT !.up = FALSE] /\ radio.up
    BY <1>2 DEF StationUp, StationDown
  <2>c. \A u \in BOOLEAN : [radio EXCEPT !.up = u] \in Radio /\ [radio EXCEPT !.up = u].mode = radio.mode
          /\ [radio EXCEPT !.up = u].join = radio.join
    BY <1>0
  <2>d. radio.mode = "off" => radio.join = NONE /\ ~radio.up
    BY <1>0, Zenon DEF Owns
  <2>1. /\ radio' \in Radio /\ radio'.mode = radio.mode /\ radio'.join = radio.join
    BY <2>b, <2>c
  <2>2. radio.mode = "off" => ~radio'.up
    <3> SUFFICES ASSUME radio.mode = "off"
                 PROVE  ~radio'.up
      OBVIOUS
    <3>1. radio' = [radio EXCEPT !.up = FALSE] \/ FALSE
      BY <2>b, <2>d, Zenon
    <3>2. [radio EXCEPT !.up = FALSE].up = FALSE
      BY <1>0
    <3> QED
      BY <3>1, <3>2, Zenon
  <2>3. Owns(mgr, radio', user.disowned)
    <3>1. mgr.state = "off" /\ ~user.disowned => radio.mode = "off"
      BY <1>0, Zenon DEF Owns
    <3> QED
      BY <1>0, <2>1, <2>2, <2>d, <3>1, Zenon DEF Owns
  <2> QED
    BY <1>0, <2>a, <2>1, <2>3
<1>4. CASE wifi_mgr_tick
  <2>1. /\ mgr' \in Mgr /\ mgr'.state \in {"connecting", "running", "failed"}
        /\ mgr'.scan_powered = mgr.scan_powered /\ mgr.state = "connecting"
        /\ UNCHANGED <<radio, nvs, bus, view, user>>
    BY <1>0, <1>4 DEF wifi_mgr_tick
  <2>2. Owns(mgr', radio, user.disowned) /\ Waits(bus, user, mgr', nvs)
    BY <1>0, <2>1 DEF Owns, Waits
  <2> QED
    BY <1>0, <2>1, <2>2
<1>5. CASE scan_networks
  <2> DEFINE scan == wifi_mgr_scan
             free == wifi_mgr_scan_free(scan[1], scan[2])
  <2>1. mgr' = free[1] /\ radio' = free[2] /\ view' = "nets" /\ UNCHANGED <<nvs, bus>>
        /\ Running /\ user' = [user EXCEPT !.touched = TRUE]
    BY <1>5 DEF scan_networks, MenuCommand
  <2>2. user' \in User /\ user'.touched /\ user'.disowned = user.disowned
    BY <1>0, <2>1
  <2>3. \/ free = <<mgr, radio>> /\ mgr.state \in {"running", "off"} /\ radio.mode # "off"
        \/ free = <<[mgr EXCEPT !.state = "off", !.scan_powered = FALSE], Silent>>
    BY <2>1, ScanGivesBack
  <2> HIDE DEF free
  <2>4. Waits(bus', user', mgr', nvs')
    BY <2>2 DEF Waits
  <2>5. CASE free = <<mgr, radio>>
    BY <1>0, <2>1, <2>2, <2>4, <2>5
  <2>6. CASE free = <<[mgr EXCEPT !.state = "off", !.scan_powered = FALSE], Silent>>
    <3>1. mgr' \in Mgr /\ mgr'.state = "off" /\ ~mgr'.scan_powered /\ radio' = Silent /\ Silent \in Radio
      BY <1>0, <2>1, <2>6 DEF Silent
    <3>2. \A d : Owns(mgr', radio', d)
      BY <3>1 DEF Owns, Silent
    <3> QED
      BY <1>0, <2>1, <2>2, <2>4, <3>1, <3>2
  <2> QED
    BY <2>3, <2>5, <2>6
<1>6. CASE ScanWithoutMemory
  <2>1. /\ user' \in User /\ user'.disowned = user.disowned /\ user'.touched
        /\ view' = "nets" /\ UNCHANGED <<mgr, radio, nvs, bus>>
    BY <1>0, <1>6 DEF ScanWithoutMemory, MenuCommand
  <2>2. Waits(bus', user', mgr', nvs')
    BY <2>1 DEF Waits
  <2> QED
    BY <1>0, <2>1, <2>2
<1>7. CASE net_select \/ load_cfg_file
  <2>1. PICK s \in SSIDS : Connects(s) /\ user' = [touched |-> TRUE, disowned |-> FALSE]
    BY <1>7 DEF net_select, load_cfg_file, Owned
  <2>2. /\ nvs' \in Nvs /\ mgr' = begin_sta(s) /\ radio' = Joining(s) /\ view' = "main" /\ bus' = bus
    BY <1>0, <2>1 DEF Connects
  <2>3. user' \in User /\ user'.touched /\ user'.disowned = FALSE
    BY <2>1
  <2>4. mgr' \in Mgr /\ radio' \in Radio /\ Owns(mgr', radio', user'.disowned)
    BY <2>2, <2>3, Begins
  <2>5. Waits(bus', user', mgr', nvs')
    BY <2>3 DEF Waits
  <2> QED
    BY <1>0, <2>2, <2>3, <2>4, <2>5
<1>8. CASE LoadDisabled \/ wifi_mgr_stop
  <2>a. \A s \in SSIDS : /\ [nvs EXCEPT !.ssid = s, !.auto = FALSE] \in Nvs
                        /\ [mgr EXCEPT !.state = "off", !.ssid = s] \in Mgr
                        /\ [mgr EXCEPT !.state = "off", !.ssid = s].state = "off"
                        /\ [mgr EXCEPT !.state = "off", !.ssid = s].scan_powered = mgr.scan_powered
    BY <1>0
  <2>b. /\ [mgr EXCEPT !.state = "off"] \in Mgr /\ [mgr EXCEPT !.state = "off"].state = "off"
        /\ [mgr EXCEPT !.state = "off"].scan_powered = mgr.scan_powered
    BY <1>0
  <2>c. /\ user' = [touched |-> TRUE, disowned |-> FALSE] /\ radio' = Silent /\ UNCHANGED <<bus, view>>
        /\ \/ nvs' = nvs /\ mgr' = [mgr EXCEPT !.state = "off"]
           \/ \E s \in SSIDS : /\ nvs' = [nvs EXCEPT !.ssid = s, !.auto = FALSE]
                              /\ mgr' = [mgr EXCEPT !.state = "off", !.ssid = s]
    BY <1>8, Zenon DEF LoadDisabled, wifi_mgr_stop, Owned, Silent
  <2>1. /\ user' = [touched |-> TRUE, disowned |-> FALSE] /\ radio' = Silent /\ UNCHANGED <<bus, view>>
        /\ nvs' \in Nvs /\ mgr' \in Mgr /\ mgr'.state = "off" /\ mgr'.scan_powered = mgr.scan_powered
    <3> HIDE DEF Nvs, Mgr
    <3>1. CASE nvs' = nvs /\ mgr' = [mgr EXCEPT !.state = "off"]
      BY <1>0, <2>b, <2>c, <3>1, Zenon
    <3>2. CASE \E s \in SSIDS : /\ nvs' = [nvs EXCEPT !.ssid = s, !.auto = FALSE]
                               /\ mgr' = [mgr EXCEPT !.state = "off", !.ssid = s]
      <4>1. PICK s \in SSIDS : /\ nvs' = [nvs EXCEPT !.ssid = s, !.auto = FALSE]
                              /\ mgr' = [mgr EXCEPT !.state = "off", !.ssid = s]
        BY <3>2
      <4> QED
        BY <2>a, <2>c, <4>1, Zenon
    <3> QED
      BY <2>c, <3>1, <3>2
  <2>2. user' \in User /\ user'.touched /\ Silent \in Radio
    BY <2>1 DEF Silent
  <2>3. Owns(mgr', radio', user'.disowned) /\ Waits(bus', user', mgr', nvs')
    BY <1>0, <2>1, <2>2 DEF Owns, Waits, Silent
  <2> QED
    BY <1>0, <2>1, <2>2, <2>3
<1>10. CASE wifi_mgr_connect_saved
  <2> DEFINE c == connect_saved(mgr, nvs.ssid, radio)
  <2>1. /\ mgr' = c[1] /\ radio' = c[2] /\ UNCHANGED <<nvs, bus, view>>
        /\ user' = [touched |-> TRUE, disowned |-> nvs.ssid = NONE /\ (user.disowned \/ mgr.state # "off")]
    BY <1>10 DEF wifi_mgr_connect_saved
  <2>2. user' \in User /\ user'.touched
        /\ user'.disowned = (nvs.ssid = NONE /\ (user.disowned \/ mgr.state # "off"))
    BY <2>1
  <2>3. ~mgr.scan_powered /\ nvs.ssid \in SSIDS \cup {NONE}
    BY <1>0 DEF Owns
  <2>4. \/ nvs.ssid = NONE /\ c = <<[mgr EXCEPT !.state = "off"], radio>>
        \/ nvs.ssid # NONE /\ c = <<begin_sta(nvs.ssid), Joining(nvs.ssid)>>
    BY Zenon DEF connect_saved
  <2> HIDE DEF c
  <2>5. Waits(bus', user', mgr', nvs')
    BY <2>2 DEF Waits
  <2>6. CASE nvs.ssid = NONE /\ c = <<[mgr EXCEPT !.state = "off"], radio>>
    <3>1. mgr' \in Mgr /\ mgr'.state = "off" /\ mgr'.scan_powered = mgr.scan_powered /\ radio' = radio
      BY <1>0, <2>1, <2>6
    <3>2. ~user'.disowned => ~user.disowned /\ mgr.state = "off"
      BY <2>2, <2>6
    <3>3. mgr'.state \notin {"connecting", "running", "failed"}
      BY <3>1
    <3>4. Owns(mgr', radio', user'.disowned)
      BY <1>0, <3>1, <3>2, <3>3, Zenon DEF Owns
    <3> QED
      BY <1>0, <2>1, <2>2, <2>5, <3>1, <3>4
  <2>7. CASE nvs.ssid # NONE /\ c = <<begin_sta(nvs.ssid), Joining(nvs.ssid)>>
    <3>1. nvs.ssid \in SSIDS /\ mgr' = begin_sta(nvs.ssid) /\ radio' = Joining(nvs.ssid)
      BY <2>1, <2>3, <2>7
    <3>2. user'.disowned \in BOOLEAN
      BY <2>2
    <3>3. mgr' \in Mgr /\ radio' \in Radio /\ Owns(mgr', radio', user'.disowned)
      BY <3>1, <3>2, Begins
    <3> QED
      BY <1>0, <2>1, <2>2, <2>5, <3>3
  <2> QED
    BY <2>4, <2>6, <2>7
<1>11. CASE wifi_mgr_forget
  <2>1. /\ mgr' \in Mgr /\ mgr'.state = mgr.state /\ mgr'.scan_powered = mgr.scan_powered
        /\ nvs' \in Nvs /\ UNCHANGED <<radio, bus, view>>
        /\ user' \in User /\ user'.touched /\ user'.disowned = user.disowned
    BY <1>0, <1>11 DEF wifi_mgr_forget, MenuCommand
  <2>2. Owns(mgr', radio', user'.disowned)
    BY <1>0, <2>1, Zenon DEF Owns
  <2>3. Waits(bus', user', mgr', nvs')
    BY <2>1 DEF Waits
  <2> QED
    BY <1>0, <2>1, <2>2, <2>3
<1>12. CASE CloseList
  BY <1>0, <1>12 DEF CloseList
<1>13. CASE SaveBus \/ PowerLoss
  <2>a. /\ \A m \in {"off", "external"}, h \in HOSTS \cup {NONE} :
             [nvs EXCEPT !.bus_mode = m, !.dw_host = h] \in Nvs
        /\ [mgr EXCEPT !.state = "reset"] \in Mgr /\ [mgr EXCEPT !.state = "reset"].state = "reset"
        /\ [mgr EXCEPT !.state = "reset"].scan_powered = mgr.scan_powered
    BY <1>0
  <2>b. [user EXCEPT !.touched = TRUE] \in User /\ [user EXCEPT !.touched = TRUE].touched
    BY <1>0
  <2>c. /\ mgr' = [mgr EXCEPT !.state = "reset"] /\ radio' = Silent /\ UNCHANGED <<bus, view>>
        /\ user' = [user EXCEPT !.touched = TRUE]
        /\ \/ nvs' = nvs
           \/ \E m \in {"off", "external"}, h \in HOSTS \cup {NONE} :
                nvs' = [nvs EXCEPT !.bus_mode = m, !.dw_host = h]
    BY <1>13, Zenon DEF SaveBus, PowerLoss, MenuCommand, Silent
  <2>1. /\ mgr' \in Mgr /\ mgr'.state = "reset" /\ mgr'.scan_powered = mgr.scan_powered
        /\ nvs' \in Nvs /\ radio' = Silent /\ UNCHANGED <<bus, view>>
        /\ user' \in User /\ user'.touched
    <3>1. nvs' \in Nvs
      <4>1. CASE nvs' = nvs
        BY <1>0, <4>1, Zenon
      <4>2. CASE nvs' # nvs
        <5>1. PICK m \in {"off", "external"}, h \in HOSTS \cup {NONE} :
                nvs' = [nvs EXCEPT !.bus_mode = m, !.dw_host = h]
          BY <2>c, <4>2, Zenon
        <5>2. [nvs EXCEPT !.bus_mode = m, !.dw_host = h] \in Nvs
          BY <2>a
        <5> QED
          BY <5>1, <5>2, Zenon
      <4> QED
        BY <4>1, <4>2
    <3> HIDE DEF Nvs, Mgr, User
    <3> QED
      BY <2>a, <2>b, <2>c, <3>1, Zenon
  <2>2. Silent \in Radio /\ Silent.mode = "off" /\ Silent.join = NONE /\ ~Silent.up
    BY DEF Silent
  <2>3. Owns(mgr', radio', user'.disowned) /\ Waits(bus', user', mgr', nvs')
    BY <1>0, <2>1, <2>2 DEF Owns, Waits
  <2> QED
    BY <1>0, <2>1, <2>2, <2>3
<1> QED
  BY <1>1, <1>2, <1>4, <1>5, <1>6, <1>7, <1>8, <1>10, <1>11, <1>12, <1>13 DEF WifiNext

\* Before the first start.
LEMMA WifiStarts == WifiInit => WifiIInv
<1> SUFFICES ASSUME WifiInit
             PROVE  WifiIInv
  OBVIOUS
<1>1. WifiTypeOK
  BY DEF WifiInit, WifiTypeOK
<1>2. /\ mgr.state = "reset" /\ ~mgr.scan_powered /\ radio.join = NONE /\ ~radio.up
      /\ bus.mode = "off" /\ bus.hdbdos = FALSE
  BY DEF WifiInit
<1>3. RadioOwned /\ OffIsQuiet
  BY <1>2 DEF RadioOwned, OffIsQuiet
<1>4. BusReady
  BY <1>2 DEF BusReady, Running
<1> QED
  BY <1>1, <1>3, <1>4 DEF WifiIInv, RadioAndBus

\* The state the manager shows is the radio's, whatever the screen does, whenever the link comes
\* or goes, and through restarts; and an External bus finds its radio on.
THEOREM WifiCorrect == WifiSpec => []RadioAndBus
<1>1. WifiInit => WifiIInv
  BY WifiStarts
<1>2. WifiIInv /\ [WifiNext]_wvars => WifiIInv'
  <2>1. WifiIInv /\ UNCHANGED wvars => WifiIInv'
    BY Zenon DEF wvars, WifiIInv, WifiTypeOK, RadioAndBus, RadioOwned, BusReady, OffIsQuiet, Running
  <2> QED
    BY <2>1, WifiStep
<1>3. WifiIInv => RadioAndBus
  BY DEF WifiIInv
<1> QED
  BY <1>1, <1>2, <1>3, PTL DEF WifiSpec

-----------------------------------------------------------------------------
(* The sound feed.                                                          *)

\* What the constants are, with the modulus positive.
LEMMA FeedConstants ==
  /\ AUDIO_RING_SIZE \in Nat \ {0} /\ INDEX_MOD \in Nat \ {0} /\ INDEX_MOD % AUDIO_RING_SIZE = 0
  /\ AUDIO_FILL_TARGET \in Nat /\ AUDIO_FILL_LIMIT \in Nat /\ AUDIO_FILL_TARGET <= AUDIO_FILL_LIMIT
  /\ AUDIO_FILL_LIMIT < AUDIO_RING_SIZE /\ AUDIO_RING_SIZE < INDEX_MOD
  /\ AUDIO_DMA_BUFS \in Nat \ {0} /\ AUDIO_DMA_BUFS >= 3
  BY FeedAssumption

\* An index moved on, and the distance of two indices.
LEMMA IndexPlus ==
  ASSUME NEW i \in 0 .. INDEX_MOD - 1, NEW n \in 0 .. INDEX_MOD
  PROVE  /\ Plus(i, n) = (IF i + n < INDEX_MOD THEN i + n ELSE i + n - INDEX_MOD)
         /\ Plus(i, n) \in 0 .. INDEX_MOD - 1
<1>1. i + n \in 0 .. 2 * INDEX_MOD - 1 /\ INDEX_MOD \in Nat \ {0}
  BY FeedConstants
<1> DEFINE x == i + n
<1>2. x % INDEX_MOD = IF x < INDEX_MOD THEN x ELSE x - INDEX_MOD
  BY <1>1, ModNear
<1>3. Plus(i, n) = x % INDEX_MOD
  BY DEF Plus
<1> QED
  BY <1>1, <1>2, <1>3

\* The same backwards.
LEMMA IndexMinus ==
  ASSUME NEW i \in 0 .. INDEX_MOD - 1, NEW j \in 0 .. INDEX_MOD - 1
  PROVE  /\ Minus(i, j) = (IF i >= j THEN i - j ELSE i + INDEX_MOD - j)
         /\ Minus(i, j) \in 0 .. INDEX_MOD - 1
<1>1. i + INDEX_MOD - j \in 0 .. 2 * INDEX_MOD - 1 /\ INDEX_MOD \in Nat \ {0}
  BY FeedConstants
<1> DEFINE x == i + INDEX_MOD - j
<1>2. x % INDEX_MOD = IF x < INDEX_MOD THEN x ELSE x - INDEX_MOD
  BY <1>1, ModNear
<1>3. Minus(i, j) = x % INDEX_MOD
  BY DEF Minus
<1> QED
  BY <1>1, <1>2, <1>3

\* The fill after the producer or the consumer moved its index, and after a restart.
LEMMA FillMoves ==
  ASSUME NEW i \in 0 .. INDEX_MOD - 1, NEW j \in 0 .. INDEX_MOD - 1
  PROVE  /\ Minus(i, j) \in 0 .. INDEX_MOD - 1
         /\ Minus(i, j) + 1 < INDEX_MOD => Minus(Plus(i, 1), j) = Minus(i, j) + 1
         /\ \A n \in Nat : n <= Minus(i, j) => Minus(i, Plus(j, n)) = Minus(i, j) - n
         /\ \A n \in Nat : n < INDEX_MOD => Minus(i, n) \in 0 .. INDEX_MOD - 1 /\ Minus(i, Minus(i, n)) = n
<1>0. INDEX_MOD \in Nat \ {0} /\ 1 \in 0 .. INDEX_MOD
  BY FeedConstants
<1>1. Minus(i, j) = (IF i >= j THEN i - j ELSE i + INDEX_MOD - j) /\ Minus(i, j) \in 0 .. INDEX_MOD - 1
  BY IndexMinus
<1>2. Minus(i, j) + 1 < INDEX_MOD => Minus(Plus(i, 1), j) = Minus(i, j) + 1
  <2> DEFINE k == Plus(i, 1)
  <2>1. k = (IF i + 1 < INDEX_MOD THEN i + 1 ELSE i + 1 - INDEX_MOD) /\ k \in 0 .. INDEX_MOD - 1
    BY <1>0, IndexPlus
  <2> HIDE DEF k
  <2>2. Minus(k, j) = (IF k >= j THEN k - j ELSE k + INDEX_MOD - j)
    BY <2>1, IndexMinus
  <2>3. Minus(i, j) + 1 < INDEX_MOD => Minus(k, j) = Minus(i, j) + 1
    BY <1>0, <1>1, <2>1, <2>2
  <2> QED
    BY <2>3 DEF k
<1>3. ASSUME NEW n \in Nat, n <= Minus(i, j)
      PROVE  Minus(i, Plus(j, n)) = Minus(i, j) - n
  <2> DEFINE k == Plus(j, n)
  <2>0. n \in 0 .. INDEX_MOD
    BY <1>0, <1>1, <1>3
  <2>1. k = (IF j + n < INDEX_MOD THEN j + n ELSE j + n - INDEX_MOD) /\ k \in 0 .. INDEX_MOD - 1
    BY <2>0, IndexPlus
  <2> HIDE DEF k
  <2>2. Minus(i, k) = (IF i >= k THEN i - k ELSE i + INDEX_MOD - k)
    BY <2>1, IndexMinus
  <2>3. Minus(i, k) = Minus(i, j) - n
    BY <1>0, <1>1, <1>3, <2>0, <2>1, <2>2
  <2> QED
    BY <2>3 DEF k
<1>4. ASSUME NEW n \in Nat, n < INDEX_MOD
      PROVE  Minus(i, n) \in 0 .. INDEX_MOD - 1 /\ Minus(i, Minus(i, n)) = n
  <2> DEFINE k == Minus(i, n)
  <2>0. n \in 0 .. INDEX_MOD - 1
    BY <1>0, <1>4
  <2>1. k = (IF i >= n THEN i - n ELSE i + INDEX_MOD - n) /\ k \in 0 .. INDEX_MOD - 1
    BY <2>0, IndexMinus
  <2> HIDE DEF k
  <2>2. Minus(i, k) = (IF i >= k THEN i - k ELSE i + INDEX_MOD - k)
    BY <2>1, IndexMinus
  <2>3. k \in 0 .. INDEX_MOD - 1 /\ Minus(i, k) = n
    BY <1>0, <2>0, <2>1, <2>2
  <2> QED
    BY <2>3 DEF k
<1> QED
  BY <1>1, <1>2, <1>3, <1>4

\* The read index is that of sample ReadAt, and the slots from there on are those of the next samples.
LEMMA ReadIndex ==
  ASSUME FeedTypeOK, RingKnown, NEW n \in Nat, n <= Fill
  PROVE  /\ ReadAt \in Nat /\ Fill \in Nat
         /\ Plus(rd, n) = (ReadAt + n) % INDEX_MOD
         /\ Slot(Plus(rd, n)) = Slot(ReadAt + n)
<1>0. /\ INDEX_MOD \in Nat \ {0} /\ AUDIO_RING_SIZE \in Nat \ {0} /\ INDEX_MOD % AUDIO_RING_SIZE = 0
      /\ wr \in 0 .. INDEX_MOD - 1 /\ rd \in 0 .. INDEX_MOD - 1 /\ made \in Nat /\ wr = made % INDEX_MOD
      /\ Fill <= made
  BY FeedConstants DEF FeedTypeOK, RingKnown
<1>1. Fill = (IF wr >= rd THEN wr - rd ELSE wr + INDEX_MOD - rd) /\ Fill \in 0 .. INDEX_MOD - 1
  BY <1>0, IndexMinus DEF Fill
<1>2. ReadAt = made - Fill /\ ReadAt \in Nat
  BY <1>0, <1>1 DEF ReadAt
<1>3. PICK q \in Int : made = INDEX_MOD * q + wr
  <2>1. made \in Int /\ INDEX_MOD \in Nat \ {0}
    BY <1>0
  <2>2. made = INDEX_MOD * (made \div INDEX_MOD) + (made % INDEX_MOD) /\ made \div INDEX_MOD \in Int
    BY <2>1, ModDiv
  <2> QED
    BY <1>0, <2>2, Zenon
<1>4. rd = ReadAt % INDEX_MOD
  <2>1. CASE wr >= rd
    <3>1. ReadAt = INDEX_MOD * q + rd
      BY <1>0, <1>1, <1>2, <1>3, <2>1
    <3>2. ReadAt \in Int
      BY <1>2
    <3>3. ReadAt % INDEX_MOD = rd
      BY <1>0, <3>1, <3>2, ModUnique, Zenon
    <3> QED
      BY <3>3
  <2>2. CASE wr < rd
    <3>1. INDEX_MOD * (q - 1) = INDEX_MOD * q - INDEX_MOD /\ q - 1 \in Int
      BY <1>0
    <3>2. ReadAt = INDEX_MOD * (q - 1) + rd
      BY <1>0, <1>1, <1>2, <1>3, <2>2, <3>1
    <3>3. ReadAt \in Int
      BY <1>2
    <3>4. ReadAt % INDEX_MOD = rd
      BY <1>0, <3>1, <3>2, <3>3, ModUnique, Zenon
    <3> QED
      BY <3>4
  <2> QED
    BY <1>0, <2>1, <2>2
<1>5. ((ReadAt % INDEX_MOD) + n) % INDEX_MOD = (ReadAt + n) % INDEX_MOD
  BY <1>0, <1>2, ModPlus
<1>6. Plus(rd, n) = (ReadAt + n) % INDEX_MOD
  BY <1>4, <1>5, Zenon DEF Plus
<1>7. ReadAt + n \in Int
  BY <1>2
<1>8. ((ReadAt + n) % INDEX_MOD) % AUDIO_RING_SIZE = (ReadAt + n) % AUDIO_RING_SIZE
  BY <1>0, <1>7, ModOfMod
<1>9. Slot(Plus(rd, n)) = Slot(ReadAt + n)
  BY <1>6, <1>8, Zenon DEF Slot
<1>10. Fill \in Nat
  BY <1>1
<1> QED
  BY <1>2, <1>6, <1>9, <1>10, Zenon

-----------------------------------------------------------------------------
(* The DMA buffers.                                                         *)

\* The descriptor runs two ahead of the buffer being fetched, and the task allows for that.
LEMMA FetchedIsDma ==
  ASSUME dma \in 0 .. AUDIO_DMA_BUFS - 1
  PROVE  audio_dma_fetching(Dscr) = dma
<1> DEFINE x == dma + 2
           y == Dscr
           z == y - 2 + AUDIO_DMA_BUFS
<1>0. AUDIO_DMA_BUFS \in Nat \ {0} /\ AUDIO_DMA_BUFS >= 3
  BY FeedConstants
<1>a. x \in 0 .. 2 * AUDIO_DMA_BUFS - 1
  BY <1>0
<1>1. x % AUDIO_DMA_BUFS = IF x < AUDIO_DMA_BUFS THEN x ELSE x - AUDIO_DMA_BUFS
  BY <1>0, <1>a, ModNear
<1>2. y = IF x < AUDIO_DMA_BUFS THEN x ELSE x - AUDIO_DMA_BUFS
  BY <1>1 DEF Dscr
<1> HIDE DEF y
<1>3. z \in 0 .. 2 * AUDIO_DMA_BUFS - 1
  BY <1>0, <1>2
<1>4. z % AUDIO_DMA_BUFS = IF z < AUDIO_DMA_BUFS THEN z ELSE z - AUDIO_DMA_BUFS
  BY <1>0, <1>3, ModNear
<1>5. z % AUDIO_DMA_BUFS = dma
  BY <1>0, <1>2, <1>4
<1>6. audio_dma_fetching(y) = z % AUDIO_DMA_BUFS
  BY DEF audio_dma_fetching
<1> QED
  BY <1>5, <1>6 DEF y

\* The next buffer, going round.
LEMMA NextBuffer ==
  ASSUME NEW b \in 0 .. AUDIO_DMA_BUFS - 1
  PROVE  /\ (b + 1) % AUDIO_DMA_BUFS = IF b + 1 < AUDIO_DMA_BUFS THEN b + 1 ELSE 0
         /\ (b + 1) % AUDIO_DMA_BUFS \in 0 .. AUDIO_DMA_BUFS - 1
<1> DEFINE x == b + 1
<1>0. AUDIO_DMA_BUFS \in Nat \ {0} /\ AUDIO_DMA_BUFS >= 3 /\ x \in 0 .. 2 * AUDIO_DMA_BUFS - 1
  BY FeedConstants
<1>1. x % AUDIO_DMA_BUFS = IF x < AUDIO_DMA_BUFS THEN x ELSE x - AUDIO_DMA_BUFS
  BY <1>0, ModNear
<1> QED
  BY <1>0, <1>1

Working == {"test", "have", "take", "advance"}

\* A step that is not about the buffers.
LEMMA DmaStays ==
  ASSUME DmaKnown, UNCHANGED dmavars, opc' = opc \/ (opc \in Working /\ opc' \in Working)
  PROVE  DmaKnown'
<1>1. FirstPoll => FirstPoll'
  BY DEF FirstPoll, dmavars, Working
<1>2. Turning => Turning'
  BY DEF Turning, Ahead, dmavars, Working
<1> QED
  BY <1>1, <1>2 DEF DmaKnown, dmavars

\* A word ends: the buffer goes on, or is done and fresh.
LEMMA WordEnds ==
  ASSUME FeedTypeOK, DmaKnown, opc \in Working, WordDone, UNCHANGED <<dma, upto, passed, started>>
  PROVE  DmaKnown' /\ opc' \in {"test", "refill"} /\ word' \in 0 .. AUDIO_DMA_WORDS - 1
<1>0. AUDIO_DMA_BUFS \in Nat \ {0} /\ AUDIO_DMA_BUFS >= 3 /\ AUDIO_DMA_WORDS \in Nat \ {0} /\ LATE \in Nat
  BY FeedConstants, FeedAssumption
<1>1. CASE word + 1 # AUDIO_DMA_WORDS
  <2>1. opc' = "test" /\ word' = word + 1 /\ UNCHANGED <<next, fresh>>
    BY <1>1 DEF WordDone
  <2>2. opc' \in Working /\ UNCHANGED dmavars
    BY <2>1 DEF Working, dmavars
  <2>3. word' \in 0 .. AUDIO_DMA_WORDS - 1
    BY <1>0, <1>1, <2>1 DEF FeedTypeOK
  <2> QED
    BY <2>1, <2>2, <2>3, DmaStays
<1>2. CASE word + 1 = AUDIO_DMA_WORDS
  <2>1. /\ opc' = "refill" /\ word' = 0
        /\ next' = (next + 1) % AUDIO_DMA_BUFS /\ fresh' = [fresh EXCEPT ![next] = TRUE]
    BY <1>2 DEF WordDone
  <2>2. /\ dma \in 0 .. AUDIO_DMA_BUFS - 1 /\ next \in 0 .. AUDIO_DMA_BUFS - 1 /\ upto \in 0 .. AUDIO_DMA_BUFS - 1
        /\ passed \in 0 .. LATE /\ fresh \in [0 .. AUDIO_DMA_BUFS - 1 -> BOOLEAN] /\ started \in BOOLEAN
        /\ Turning
    BY DEF DmaKnown, FirstPoll, Working
  <2>3. next' = (IF next + 1 < AUDIO_DMA_BUFS THEN next + 1 ELSE 0) /\ next' \in 0 .. AUDIO_DMA_BUFS - 1
    BY <2>1, <2>2, NextBuffer
  <2>4. fresh' \in [0 .. AUDIO_DMA_BUFS - 1 -> BOOLEAN]
    BY <2>1, <2>2
  <2>5. next # upto
    BY <2>2 DEF Turning, Working
  <2>6. Ahead(next', upto) = Ahead(next, upto) - 1 /\ Ahead(next, upto) \in Nat
    BY <1>0, <2>2, <2>3, <2>5 DEF Ahead
  <2>7. ASSUME NEW b \in 0 .. AUDIO_DMA_BUFS - 1, passed <= Ahead(upto, b),
               started => Ahead(upto, b) + Ahead(next', upto) < AUDIO_DMA_BUFS
        PROVE  fresh'[b]
    <3>1. CASE b = next
      BY <2>1, <2>2, <3>1
    <3>2. CASE b # next
      <4>1. fresh'[b] = fresh[b]
        BY <2>1, <2>2, <3>2
      <4>2. started => Ahead(upto, b) + Ahead(next, upto) < AUDIO_DMA_BUFS
        BY <1>0, <2>2, <2>6, <2>7, <3>2 DEF Ahead
      <4>3. fresh[b]
        BY <2>2, <2>7, <4>2 DEF Turning
      <4> QED
        BY <4>1, <4>3
    <3> QED
      BY <3>1, <3>2
  <2>8. Ahead(upto, dma) = passed /\ passed <= 1 /\ (started => Ahead(next', upto) <= LATE)
    BY <1>0, <2>2, <2>6 DEF Turning, Working
  <2>9. Turning'
    BY <2>1, <2>7, <2>8 DEF Turning, Ahead
  <2> QED
    BY <1>0, <2>1, <2>2, <2>3, <2>4, <2>9 DEF DmaKnown
<1> QED
  BY <1>1, <1>2

\* Every step keeps what the task and the DMA know of each other.
LEMMA DmaStep ==
  ASSUME FeedTypeOK, DmaKnown, FeedNext
  PROVE  DmaKnown'
<1>0. /\ AUDIO_DMA_BUFS \in Nat \ {0} /\ AUDIO_DMA_BUFS >= 3
      /\ LATE \in Nat /\ LATE >= 1 /\ LATE <= AUDIO_DMA_BUFS - 2
  BY FeedConstants, FeedAssumption
<1>a. /\ dma \in 0 .. AUDIO_DMA_BUFS - 1 /\ next \in 0 .. AUDIO_DMA_BUFS - 1 /\ upto \in 0 .. AUDIO_DMA_BUFS - 1
      /\ passed \in 0 .. LATE /\ fresh \in [0 .. AUDIO_DMA_BUFS - 1 -> BOOLEAN] /\ started \in BOOLEAN
  BY DEF DmaKnown
<1>1. CASE \/ Push \/ PushFill \/ PushPublish \/ Steer \/ SteerPlaying \/ SteerDry
           \/ Restart \/ RestartStride \/ RestartPlay
  <2>1. UNCHANGED dmavars /\ opc' = opc
    BY <1>1 DEF Push, PushFill, PushPublish, Steer, SteerPlaying, SteerDry, Restart, RestartStride, RestartPlay,
                dmavars, consvars
  <2> QED
    BY <2>1, DmaStays
<1>2. CASE ReadRd \/ ReadWr \/ Take
  <2>1. UNCHANGED dmavars /\ opc \in Working /\ opc' \in Working
    BY <1>2 DEF ReadRd, ReadWr, Take, Working, dmavars
  <2> QED
    BY <2>1, DmaStays
<1>3. CASE Hold \/ RunDry \/ Advance
  <2>1. opc \in Working /\ WordDone /\ UNCHANGED <<dma, upto, passed, started>>
    BY <1>3 DEF Hold, RunDry, Advance, Working
  <2> QED
    BY <2>1, WordEnds
<1>4. CASE PollDma
  <2>1. /\ opc = "poll" /\ upto' = dma /\ passed' = 0 /\ opc' = "refill"
        /\ UNCHANGED <<dma, next, fresh, started>>
    BY <1>4, <1>a, FetchedIsDma DEF PollDma
  <2>2. Turning'
    <3>1. Ahead(upto, dma)' = passed'
      BY <1>a, <2>1 DEF Ahead
    <3>2. CASE FirstPoll
      BY <1>0, <2>1, <3>1, <3>2 DEF FirstPoll, Turning
    <3>3. CASE Turning
      <4>1. started /\ next = upto /\ Ahead(upto, dma) = passed
        BY <2>1, <3>3 DEF Turning
      <4>2. Ahead(next', upto') <= LATE
        BY <1>a, <2>1, <4>1
      <4>3. ASSUME NEW b \in 0 .. AUDIO_DMA_BUFS - 1, 0 <= Ahead(dma, b),
                   Ahead(dma, b) + Ahead(next, dma) < AUDIO_DMA_BUFS
            PROVE  fresh[b]
        <5>1. passed <= Ahead(upto, b) /\ Ahead(upto, b) + Ahead(next, upto) < AUDIO_DMA_BUFS
          BY <1>0, <1>a, <4>1, <4>3 DEF Ahead
        <5> QED
          BY <3>3, <5>1 DEF Turning
      <4> QED
        BY <1>0, <2>1, <3>1, <4>1, <4>2, <4>3 DEF Turning, Ahead
    <3> QED
      BY <3>2, <3>3 DEF DmaKnown
  <2>3. passed' \in 0 .. LATE
    BY <1>0, <2>1
  <2> QED
    BY <1>a, <2>1, <2>2, <2>3 DEF DmaKnown
<1>5. CASE Refill
  <2>1. opc = "refill" /\ next # upto /\ opc' = "test" /\ UNCHANGED dmavars
    BY <1>5 DEF Refill
  <2>2. Turning
    BY <2>1 DEF DmaKnown, FirstPoll
  <2>3. Turning'
    BY <2>1, <2>2 DEF Turning, Ahead, dmavars
  <2> QED
    BY <1>a, <2>1, <2>3 DEF DmaKnown, dmavars
<1>6. CASE Refilled
  <2>1. opc = "refill" /\ next = upto /\ opc' = "poll" /\ started' = TRUE /\ UNCHANGED <<dma, next, upto, fresh, passed>>
    BY <1>6 DEF Refilled
  <2>2. Turning
    BY <2>1 DEF DmaKnown, FirstPoll
  <2>3. Ahead(next, upto) = 0
    BY <1>0, <1>a, <2>1 DEF Ahead
  <2>4. Turning'
    BY <1>0, <2>1, <2>2, <2>3 DEF Turning, Ahead
  <2> QED
    BY <1>a, <2>1, <2>4 DEF DmaKnown
<1>7. CASE DmaNext
  <2>1. /\ passed < (IF opc = "poll" THEN LATE ELSE 1)
        /\ dma' = (dma + 1) % AUDIO_DMA_BUFS /\ passed' = passed + 1 /\ fresh' = [fresh EXCEPT ![dma] = FALSE]
        /\ opc' = opc /\ UNCHANGED <<next, upto, started>>
    BY <1>7 DEF DmaNext, consvars
  <2>2. dma' = (IF dma + 1 < AUDIO_DMA_BUFS THEN dma + 1 ELSE 0) /\ dma' \in 0 .. AUDIO_DMA_BUFS - 1
    BY <1>a, <2>1, NextBuffer
  <2>3. passed' \in 0 .. LATE /\ fresh' \in [0 .. AUDIO_DMA_BUFS - 1 -> BOOLEAN]
    BY <1>0, <1>a, <2>1
  <2>4. Turning
    BY <1>0, <1>a, <2>1 DEF DmaKnown, FirstPoll
  <2>5. Ahead(upto, dma') = passed + 1
    BY <1>0, <1>a, <2>1, <2>2, <2>4 DEF Turning, Ahead
  <2>6. ASSUME NEW b \in 0 .. AUDIO_DMA_BUFS - 1, passed + 1 <= Ahead(upto, b),
               started => Ahead(upto, b) + Ahead(next, upto) < AUDIO_DMA_BUFS
        PROVE  fresh'[b]
    <3>1. b # dma
      BY <1>a, <2>4, <2>6 DEF Turning
    <3>3. passed <= Ahead(upto, b)
      BY <1>0, <1>a, <2>6 DEF Ahead
    <3>2. fresh[b]
      BY <2>4, <2>6, <3>3 DEF Turning
    <3> QED
      BY <1>a, <2>1, <3>1, <3>2
  <2>7. Turning'
    BY <1>0, <1>a, <2>1, <2>4, <2>5, <2>6 DEF Turning, Ahead
  <2> QED
    BY <1>a, <2>1, <2>2, <2>3, <2>7 DEF DmaKnown
<1> QED
  BY <1>1, <1>2, <1>3, <1>4, <1>5, <1>6, <1>7 DEF FeedNext

\* What the task knows keeps it off the buffer that is fetched.
LEMMA DmaAhead ==
  ASSUME FeedTypeOK, DmaKnown
  PROVE  DmaKeepsAhead
<1>0. /\ AUDIO_DMA_BUFS \in Nat \ {0} /\ AUDIO_DMA_BUFS >= 3
      /\ LATE \in Nat /\ LATE >= 1 /\ LATE <= AUDIO_DMA_BUFS - 2
  BY FeedConstants, FeedAssumption
<1> SUFFICES ASSUME started
             PROVE  fresh[dma] /\ (opc \in Working => next # dma)
  BY DEF DmaKeepsAhead, Working
<1>1. /\ dma \in 0 .. AUDIO_DMA_BUFS - 1 /\ next \in 0 .. AUDIO_DMA_BUFS - 1 /\ upto \in 0 .. AUDIO_DMA_BUFS - 1
      /\ passed \in 0 .. LATE /\ Turning
  BY DEF DmaKnown, FirstPoll
<1>2. passed + Ahead(next, upto) < AUDIO_DMA_BUFS
  BY <1>0, <1>1 DEF Turning, Ahead
<1>3. fresh[dma]
  BY <1>1, <1>2 DEF Turning
<1>4. opc \in Working => next # dma
  BY <1>0, <1>1 DEF Turning, Ahead, Working
<1> QED
  BY <1>3, <1>4

-----------------------------------------------------------------------------
(* The ring.                                                                *)

\* Every variable keeps its type.
LEMMA FeedTypeAfter ==
  ASSUME FeedTypeOK, FeedNext, DmaKnown
  PROVE  FeedTypeOK'
<1>0. /\ INDEX_MOD \in Nat \ {0} /\ AUDIO_STRIDE_ONE \in Nat \ {0} /\ AUDIO_DMA_WORDS \in Nat \ {0}
      /\ 0 \in 0 .. INDEX_MOD - 1 /\ 0 \in 0 .. AUDIO_DMA_WORDS - 1 /\ 1 \in 0 .. INDEX_MOD
      /\ STRIDES \subseteq 1 .. 2 * AUDIO_STRIDE_ONE - 1 /\ AUDIO_STRIDE_ONE \in 1 .. 2 * AUDIO_STRIDE_ONE - 1
      /\ AUDIO_FILL_TARGET \in 0 .. INDEX_MOD - 1
  BY FeedConstants, FeedAssumption
<1>a. Minus(wr, rd) \in 0 .. INDEX_MOD - 1 /\ Minus(wr, crd) \in 0 .. INDEX_MOD - 1
      /\ Minus(wr, AUDIO_FILL_TARGET) \in 0 .. INDEX_MOD - 1
  BY <1>0, IndexMinus DEF FeedTypeOK
<1>1. CASE Push \/ Steer \/ SteerPlaying \/ SteerDry \/ Restart \/ RestartStride \/ RestartPlay
  <2>1. UNCHANGED <<ring, made, cstride, crd, chave, frac, opc, word, last, wrong, wr>>
    BY <1>1 DEF Push, Steer, SteerPlaying, SteerDry, Restart, RestartStride, RestartPlay, feedvars, consvars
  <2>2. ppc' \in {"idle", "fill", "publish", "steer", "restart", "restride", "replay"}
    BY <1>1 DEF Push, Steer, SteerPlaying, SteerDry, Restart, RestartStride, RestartPlay
  <2>a. rd \in 0 .. INDEX_MOD - 1 /\ wr \in 0 .. INDEX_MOD - 1 /\ pwr \in 0 .. INDEX_MOD - 1 /\ pfill \in Nat /\ took \in Nat
        /\ Minus(wr, rd) \in Nat /\ 0 \in Nat
    BY <1>0, <1>a DEF FeedTypeOK
  <2>b. rd' = rd \/ rd' = Minus(wr, AUDIO_FILL_TARGET)
    BY <1>1 DEF Push, Steer, SteerPlaying, SteerDry, Restart, RestartStride, RestartPlay, feedvars
  <2>c. (pwr' = pwr \/ pwr' = wr) /\ (pfill' = pfill \/ pfill' = Minus(wr, rd)) /\ (took' = took \/ took' = 0)
    BY <1>1 DEF Push, Steer, SteerPlaying, SteerDry, Restart, RestartStride, RestartPlay
  <2>3. rd' \in 0 .. INDEX_MOD - 1 /\ pwr' \in 0 .. INDEX_MOD - 1 /\ pfill' \in Nat /\ took' \in Nat
    BY <1>a, <2>a, <2>b, <2>c, Zenon
  <2>4. playing' \in BOOLEAN
    BY <1>1, Zenon DEF Push, Steer, SteerPlaying, SteerDry, Restart, RestartStride, RestartPlay, feedvars, FeedTypeOK
  <2>5. stride' \in STRIDES \cup {AUDIO_STRIDE_ONE}
    BY <1>1 DEF Push, Steer, SteerPlaying, SteerDry, Restart, RestartStride, RestartPlay, feedvars, FeedTypeOK
  <2> QED
    BY <2>1, <2>2, <2>3, <2>4, <2>5 DEF FeedTypeOK
<1>2. CASE PushFill
  <2>1. ring' \in [0 .. AUDIO_RING_SIZE - 1 -> Int]
    <3>2. ring \in [0 .. AUDIO_RING_SIZE - 1 -> Int] /\ made \in Int
      BY DEF FeedTypeOK
    <3>1. \A i : [ring EXCEPT ![i] = made] \in [0 .. AUDIO_RING_SIZE - 1 -> Int]
      BY <3>2, Zenon
    <3> QED
      BY <1>2, <3>1 DEF PushFill
  <2> QED
    BY <1>2, <2>1 DEF PushFill, FeedTypeOK, consvars
<1>3. CASE PushPublish
  <2>1. wr' \in 0 .. INDEX_MOD - 1
    BY <1>0, <1>3, IndexPlus DEF PushPublish, FeedTypeOK
  <2> QED
    BY <1>3, <2>1 DEF PushPublish, FeedTypeOK, consvars
<1>4. CASE PollDma \/ Refilled \/ ReadRd \/ ReadWr \/ DmaNext
  <2>1. UNCHANGED <<ring, wr, rd, stride, playing, made, ppc, pwr, pfill, took, cstride, frac, word, last, wrong>>
    BY <1>4 DEF PollDma, Refilled, ReadRd, ReadWr, DmaNext, feedvars, prodvars, consvars
  <2>2. opc' \in {"poll", "refill", "have", "take"} \/ opc' = opc
    BY <1>4 DEF PollDma, Refilled, ReadRd, ReadWr, DmaNext, consvars
  <2>3. (crd' = crd \/ crd' = rd) /\ (chave' = chave \/ chave' = Minus(wr, crd))
    BY <1>4 DEF PollDma, Refilled, ReadRd, ReadWr, DmaNext, consvars
  <2>4. crd' \in 0 .. INDEX_MOD - 1 /\ chave' \in Nat
    BY <1>0, <1>a, <2>3 DEF FeedTypeOK
  <2> QED
    BY <2>1, <2>2, <2>4 DEF FeedTypeOK
<1>5. CASE Refill
  <2>1. cstride' \in 1 .. 2 * AUDIO_STRIDE_ONE - 1 /\ frac' \in 0 .. AUDIO_STRIDE_ONE - 1
    BY <1>0, <1>5 DEF Refill, FeedTypeOK
  <2> QED
    BY <1>0, <1>5, <2>1 DEF Refill, FeedTypeOK, feedvars, prodvars
<1>6. CASE Hold \/ RunDry \/ Advance
  <2>1. opc \in Working /\ WordDone /\ UNCHANGED <<dma, upto, passed, started>>
    BY <1>6 DEF Hold, RunDry, Advance, Working
  <2>2. opc' \in {"test", "refill"} /\ word' \in 0 .. AUDIO_DMA_WORDS - 1
    BY <2>1, WordEnds
  <2>3. /\ rd' \in 0 .. INDEX_MOD - 1 /\ frac' \in 0 .. AUDIO_STRIDE_ONE - 1
    <3>1. CASE Hold \/ RunDry
      BY <3>1 DEF Hold, RunDry, feedvars, FeedTypeOK
    <3>2. CASE Advance
      <4>1. CASE cstride = AUDIO_STRIDE_ONE
        BY <1>0, <3>2, <4>1, IndexPlus DEF Advance, FeedTypeOK
      <4>2. CASE cstride # AUDIO_STRIDE_ONE
        <5>1. /\ rd' = Plus(crd, (frac + cstride) \div AUDIO_STRIDE_ONE)
              /\ frac' = (frac + cstride) % AUDIO_STRIDE_ONE
          BY <3>2, <4>2 DEF Advance
        <5> DEFINE x == frac + cstride
                   k == x \div AUDIO_STRIDE_ONE
        <5>2. x \in Int /\ k \in Int /\ x % AUDIO_STRIDE_ONE \in 0 .. AUDIO_STRIDE_ONE - 1
          BY <1>0, ModRange, ModDiv DEF FeedTypeOK
        <5> HIDE DEF k
        <5>3. (crd + k) % INDEX_MOD \in 0 .. INDEX_MOD - 1
          BY <1>0, <5>2, ModRange DEF FeedTypeOK
        <5> QED
          BY <5>1, <5>2, <5>3 DEF Plus, k
      <4> QED
        BY <4>1, <4>2
    <3> QED
      BY <1>6, <3>1, <3>2
  <2>4. UNCHANGED <<ring, wr, stride, made, ppc, pwr, pfill, cstride, crd, chave, last, wrong>>
    BY <1>6 DEF Hold, RunDry, Advance, feedvars, prodvars
  <2>5. took' \in Nat
    BY <1>6 DEF Hold, RunDry, Advance, FeedTypeOK
  <2>6. playing' \in BOOLEAN
    BY <1>6, Zenon DEF Hold, RunDry, Advance, FeedTypeOK, feedvars
  <2> QED
    BY <2>2, <2>3, <2>4, <2>5, <2>6 DEF FeedTypeOK
<1>7. CASE Take
  <2>1. last' \in Int
    <3>1. Slot(crd) \in 0 .. AUDIO_RING_SIZE - 1
      <4>1. crd \in Int /\ AUDIO_RING_SIZE \in Nat \ {0}
        BY <1>0, FeedConstants DEF FeedTypeOK
      <4> QED
        BY <4>1, ModRange, Zenon DEF Slot
    <3> QED
      BY <1>7, <3>1 DEF Take, FeedTypeOK
  <2>2. wrong' \in BOOLEAN
    BY <1>7, Zenon DEF Take
  <2>3. UNCHANGED <<ring, wr, rd, stride, playing, made, ppc, pwr, pfill, took, cstride, crd, chave, frac, word>>
        /\ opc' = "advance"
    BY <1>7 DEF Take, feedvars, prodvars
  <2> QED
    BY <2>1, <2>2, <2>3 DEF FeedTypeOK
<1> QED
  BY <1>1, <1>2, <1>3, <1>4, <1>5, <1>6, <1>7 DEF FeedNext

\* A sample that was queued less than the limit ago.
LEMMA Held ==
  ASSUME RingHolds, made \in Nat, AUDIO_FILL_LIMIT \in Nat,
         NEW i \in Nat, made - AUDIO_FILL_LIMIT <= i, i < made
  PROVE  ring[Slot(i)] = i
<1>1. i \in made - AUDIO_FILL_LIMIT .. made - 1 /\ i >= 0
  OBVIOUS
<1> QED
  BY <1>1, Zenon DEF RingHolds

\* A sample is at its place from the time it is written until it is read.
LEMMA RingHoldsAfter ==
  ASSUME FeedTypeOK, RingKnown, RingHolds, FeedNext
  PROVE  RingHolds'
<1>0. /\ AUDIO_RING_SIZE \in Nat \ {0} /\ AUDIO_FILL_LIMIT \in Nat /\ AUDIO_FILL_LIMIT < AUDIO_RING_SIZE /\ made \in Nat
  BY FeedConstants DEF FeedTypeOK
<1>1. CASE PushFill
  <2>1. /\ ppc' = "publish" /\ made' = made /\ ring' = [ring EXCEPT ![Slot(pwr)] = made]
        /\ pwr = made % INDEX_MOD
    BY <1>1 DEF PushFill, RingKnown
  <2>2. Slot(pwr) = Slot(made)
    <3>1. made \in Int /\ INDEX_MOD \in Nat \ {0} /\ INDEX_MOD % AUDIO_RING_SIZE = 0
      BY <1>0, FeedConstants
    <3>2. (made % INDEX_MOD) % AUDIO_RING_SIZE = made % AUDIO_RING_SIZE
      BY <1>0, <3>1, ModOfMod
    <3> QED
      BY <2>1, <3>2, Zenon DEF Slot
  <2>3. Slot(made) \in 0 .. AUDIO_RING_SIZE - 1
    BY <1>0, ModRange DEF Slot
  <2>4. ring'[Slot(made)] = made
    BY <2>1, <2>2, <2>3 DEF FeedTypeOK
  <2>5. ASSUME NEW i \in Nat, made - AUDIO_FILL_LIMIT <= i, i < made
        PROVE  ring'[Slot(i)] = i
    <3>1. i \in Int /\ made \in Int /\ made - i > 0 /\ made - i < AUDIO_RING_SIZE
      BY <1>0, <2>5
    <3>2. Slot(i) # Slot(made)
      BY <1>0, <3>1, ModDiffer DEF Slot
    <3>3. Slot(i) \in 0 .. AUDIO_RING_SIZE - 1
      BY <1>0, ModRange DEF Slot
    <3>4. ring'[Slot(i)] = ring[Slot(i)]
      BY <2>1, <2>2, <3>2, <3>3 DEF FeedTypeOK
    <3> QED
      BY <1>0, <2>5, <3>4, Held
  <2>6. \A i \in made' - AUDIO_FILL_LIMIT .. made' - 1 : i >= 0 => ring'[i % AUDIO_RING_SIZE] = i
    BY <1>0, <2>1, <2>5 DEF Slot
  <2> QED
    BY <2>1, <2>4, <2>6 DEF RingHolds, Slot
<1>2. CASE PushPublish
  <2>1. ring' = ring /\ made' = made + 1 /\ ppc' = "idle" /\ ring[Slot(made)] = made
    BY <1>2 DEF PushPublish, RingHolds
  <2>2. ASSUME NEW i \in Nat, made + 1 - AUDIO_FILL_LIMIT <= i, i < made + 1
        PROVE  ring[Slot(i)] = i
    <3>1. i = made \/ (made - AUDIO_FILL_LIMIT <= i /\ i < made)
      BY <1>0, <2>2
    <3> QED
      BY <1>0, <2>1, <2>2, <3>1, Held
  <2>3. \A i \in made' - AUDIO_FILL_LIMIT .. made' - 1 : i >= 0 => ring'[i % AUDIO_RING_SIZE] = i
    BY <1>0, <2>1, <2>2 DEF Slot
  <2> QED
    BY <2>1, <2>3 DEF RingHolds, Slot
<1>3. CASE ~PushFill /\ ~PushPublish
  <2>1. ring' = ring /\ made' = made /\ (ppc' = "publish" => ppc = "publish")
    BY <1>3 DEF FeedNext, Push, Steer, SteerPlaying, SteerDry, Restart, RestartStride, RestartPlay, PollDma, Refill,
                Refilled, Hold, ReadRd, ReadWr, RunDry, Take, Advance, DmaNext, feedvars, prodvars
  <2> QED
    BY <2>1 DEF RingHolds, Slot
<1> QED
  BY <1>1, <1>2, <1>3

\* What a step of the producer leaves the consumer with.
LEMMA ProducerStep ==
  ASSUME FeedTypeOK, RingKnown,
         \/ Push \/ PushFill \/ PushPublish \/ Steer \/ SteerPlaying \/ SteerDry
         \/ Restart \/ RestartStride \/ RestartPlay
  PROVE  RingKnown'
<1>0. /\ INDEX_MOD \in Nat \ {0} /\ AUDIO_FILL_LIMIT \in Nat /\ AUDIO_FILL_LIMIT < INDEX_MOD
      /\ AUDIO_FILL_TARGET \in Nat /\ AUDIO_FILL_TARGET < INDEX_MOD /\ AUDIO_FILL_TARGET <= AUDIO_FILL_LIMIT
      /\ wr \in 0 .. INDEX_MOD - 1 /\ rd \in 0 .. INDEX_MOD - 1 /\ made \in Nat /\ last \in Int
      /\ took \in Nat /\ pfill \in Nat /\ chave \in Nat
  BY FeedConstants DEF FeedTypeOK
<1>a. Fill \in 0 .. INDEX_MOD - 1 /\ ReadAt = made - Fill
  BY <1>0, FillMoves DEF Fill, ReadAt
<1>1. UNCHANGED <<opc, cstride, crd, chave, last, wrong>> /\ Dry' = Dry
  BY DEF Push, PushFill, PushPublish, Steer, SteerPlaying, SteerDry, Restart, RestartStride, RestartPlay,
         consvars, Dry, Needs
<1>2. CASE Push
  <2>1. UNCHANGED <<wr, rd, playing, made, pfill, took>> /\ ppc = "idle" /\ pwr' = wr
        /\ ppc' = IF Fill >= AUDIO_FILL_LIMIT THEN "idle" ELSE "fill"
    BY <1>2 DEF Push, feedvars, Fill
  <2>2. Fill' = Fill /\ ReadAt' = ReadAt
    BY <2>1 DEF Fill, ReadAt
  <2> QED
    BY <1>0, <1>a, <1>1, <2>1, <2>2 DEF RingKnown
<1>3. CASE PushFill
  <2>1. UNCHANGED <<wr, rd, playing, made, pwr, pfill, took>> /\ ppc = "fill" /\ ppc' = "publish"
    BY <1>3 DEF PushFill
  <2>2. Fill' = Fill /\ ReadAt' = ReadAt
    BY <2>1 DEF Fill, ReadAt
  <2> QED
    BY <1>0, <1>a, <1>1, <2>1, <2>2 DEF RingKnown
<1>4. CASE PushPublish
  <2>1. UNCHANGED <<rd, playing, pwr, pfill, took>> /\ ppc = "publish" /\ ppc' = "idle"
        /\ wr' = Plus(pwr, 1) /\ made' = made + 1 /\ pwr = wr /\ Fill < AUDIO_FILL_LIMIT
    BY <1>4 DEF PushPublish, RingKnown
  <2>2. Fill' = Fill + 1
    BY <1>0, <1>a, <2>1, FillMoves DEF Fill
  <2>3. ReadAt' = ReadAt
    BY <1>0, <1>a, <2>1, <2>2 DEF ReadAt
  <2>4. wr' = made' % INDEX_MOD
    <3>1. ((made % INDEX_MOD) + 1) % INDEX_MOD = (made + 1) % INDEX_MOD
      <4>1. made \in Int /\ 1 \in Int
        BY <1>0
      <4> QED
        BY <1>0, <4>1, ModPlus, Zenon
    <3> QED
      BY <2>1, <3>1 DEF Plus, RingKnown
  <2> QED
    BY <1>0, <1>a, <1>1, <2>1, <2>2, <2>3, <2>4 DEF RingKnown
<1>5. CASE Steer
  <2>1. UNCHANGED <<wr, rd, playing, made, pwr>> /\ ppc = "idle" /\ ppc' = "steer"
        /\ pfill' = Fill /\ took' = 0
    BY <1>5 DEF Steer, feedvars, Fill
  <2>2. Fill' = Fill /\ ReadAt' = ReadAt
    BY <2>1 DEF Fill, ReadAt
  <2>3. SteerKnows'
    BY <2>1, <2>2 DEF SteerKnows
  <2> QED
    BY <1>0, <1>a, <1>1, <2>1, <2>2, <2>3 DEF RingKnown
<1>6. CASE SteerPlaying \/ SteerDry
  <2>1. UNCHANGED <<wr, rd, playing, made, pwr, pfill, took>> /\ ppc = "steer"
    BY <1>6 DEF SteerPlaying, SteerDry, feedvars
  <2>a. ppc' = "idle" \/ (ppc' = "restart" /\ pfill >= AUDIO_FILL_TARGET /\ ~playing)
    <3>1. CASE SteerPlaying
      BY <3>1, Zenon DEF SteerPlaying
    <3>2. CASE SteerDry
      <4>1. ~playing
        BY <3>2, Zenon DEF SteerDry
      <4>2. ppc' = "idle" \/ (ppc' = "restart" /\ pfill >= AUDIO_FILL_TARGET)
        BY <3>2 DEF SteerDry
      <4> QED
        BY <4>1, <4>2, Zenon
    <3> QED
      BY <1>6, <3>1, <3>2
  <2>2. Fill' = Fill /\ ReadAt' = ReadAt
    BY <2>1 DEF Fill, ReadAt
  <2>3. ppc' = "restart" => Fill >= AUDIO_FILL_TARGET /\ ~playing
    BY <1>0, <2>1, <2>a DEF SteerKnows, RingKnown
  <2> QED
    BY <1>0, <1>a, <1>1, <2>1, <2>a, <2>2, <2>3 DEF RingKnown
<1>7. CASE Restart
  <2>1. UNCHANGED <<wr, playing, made, pwr, pfill, took>> /\ ppc = "restart" /\ ppc' = "restride"
        /\ rd' = Minus(wr, AUDIO_FILL_TARGET) /\ Fill >= AUDIO_FILL_TARGET /\ ~playing
    BY <1>7 DEF Restart, RingKnown
  <2>2. Fill' = AUDIO_FILL_TARGET
    BY <1>0, <2>1, FillMoves DEF Fill
  <2>3. ReadAt' = made - AUDIO_FILL_TARGET
    BY <2>1, <2>2 DEF ReadAt
  <2>4. opc \notin {"have", "take", "advance"}
    BY <2>1 DEF RingKnown
  <2>5. last <= ReadAt' /\ Fill' <= made
    BY <1>0, <1>a, <2>1, <2>2, <2>3 DEF RingKnown
  <2> QED
    BY <1>0, <1>a, <1>1, <2>1, <2>2, <2>4, <2>5 DEF RingKnown
<1>8. CASE RestartStride
  <2>1. UNCHANGED <<wr, rd, playing, made, pwr, pfill, took>> /\ ppc = "restride" /\ ppc' = "replay"
    BY <1>8 DEF RestartStride
  <2>2. Fill' = Fill /\ ReadAt' = ReadAt
    BY <2>1 DEF Fill, ReadAt
  <2> QED
    BY <1>0, <1>a, <1>1, <2>1, <2>2 DEF RingKnown
<1>9. CASE RestartPlay
  <2>1. UNCHANGED <<wr, rd, made, pwr, pfill, took>> /\ ppc = "replay" /\ ppc' = "idle" /\ playing' = TRUE
    BY <1>9 DEF RestartPlay
  <2>2. Fill' = Fill /\ ReadAt' = ReadAt
    BY <2>1 DEF Fill, ReadAt
  <2> QED
    BY <1>0, <1>a, <1>1, <2>1, <2>2 DEF RingKnown
<1> QED
  BY <1>2, <1>3, <1>4, <1>5, <1>6, <1>7, <1>8, <1>9

\* The strides' whole part: a word that needs two samples takes at most two.
LEMMA AtMostTwo ==
  ASSUME FeedTypeOK
  PROVE  (frac + cstride) \div AUDIO_STRIDE_ONE \in 0 .. 2
<1> DEFINE x == frac + cstride
           q == x \div AUDIO_STRIDE_ONE
           m == x % AUDIO_STRIDE_ONE
           one == AUDIO_STRIDE_ONE
<1>1. one \in Nat \ {0} /\ x \in 1 .. 3 * one - 2
  BY FeedAssumption DEF FeedTypeOK
<1>2. x = one * q + m /\ q \in Int /\ m \in 0 .. one - 1
  <2>1. x \in Int
    BY <1>1
  <2> HIDE DEF x
  <2> QED
    BY <1>1, <2>1, ModDiv, ModRange
<1> HIDE DEF x, q, m, one
<1>3. ASSUME q >= 3 PROVE FALSE
  <2>1. one * (q - 3) >= 0 /\ one * (q - 3) = one * q - 3 * one
    BY <1>1, <1>2, <1>3
  <2> QED
    BY <1>1, <1>2, <2>1
<1>4. ASSUME q <= -1 PROVE FALSE
  <2>1. one * (-1 - q) >= 0 /\ one * (-1 - q) = -one - one * q
    BY <1>1, <1>2, <1>4
  <2> QED
    BY <1>1, <1>2, <2>1
<1>5. q \in 0 .. 2
  BY <1>2, <1>3, <1>4
<1> QED
  BY <1>5 DEF q, x

\* What a step of the consumer or the DMA leaves the producer with.
LEMMA ConsumerStep ==
  ASSUME FeedTypeOK, RingKnown, RingHolds,
         \/ PollDma \/ Refill \/ Refilled \/ Hold \/ ReadRd \/ ReadWr \/ RunDry \/ Take \/ Advance
         \/ DmaNext
  PROVE  RingKnown'
<1>0. /\ INDEX_MOD \in Nat \ {0} /\ AUDIO_FILL_LIMIT \in Nat /\ AUDIO_FILL_LIMIT < INDEX_MOD
      /\ AUDIO_FILL_TARGET \in Nat /\ BURST \in Nat /\ 2 * BURST + 2 <= AUDIO_FILL_TARGET
      /\ wr \in 0 .. INDEX_MOD - 1 /\ rd \in 0 .. INDEX_MOD - 1 /\ made \in Nat /\ last \in Int
      /\ took \in Nat /\ pfill \in Nat /\ chave \in Nat
  BY FeedConstants, FeedAssumption DEF FeedTypeOK
<1>a. Fill \in 0 .. INDEX_MOD - 1 /\ ReadAt = made - Fill
  BY <1>0, FillMoves DEF Fill, ReadAt
<1>b. UNCHANGED <<wr, made, ppc, pwr, pfill>>
  BY DEF PollDma, Refill, Refilled, Hold, ReadRd, ReadWr, RunDry, Take, Advance, DmaNext, feedvars, prodvars
<1>1. CASE PollDma \/ Refill \/ Refilled \/ Hold
  <2>1. UNCHANGED <<rd, playing, took, last, wrong>> /\ opc' \in {"poll", "refill", "test"}
    BY <1>1 DEF PollDma, Refill, Refilled, Hold, WordDone, feedvars
  <2>2. Fill' = Fill /\ ReadAt' = ReadAt
    BY <1>b, <2>1 DEF Fill, ReadAt
  <2>3. SteerKnows => SteerKnows'
    BY <1>b, <2>1, <2>2 DEF SteerKnows
  <2> QED
    BY <1>0, <1>a, <1>b, <2>1, <2>2, <2>3 DEF RingKnown
<1>2. CASE DmaNext
  <2>1. UNCHANGED <<rd, playing, took, last, wrong, opc, crd, chave, cstride>>
    BY <1>2 DEF DmaNext, feedvars, consvars
  <2>2. Fill' = Fill /\ ReadAt' = ReadAt /\ Dry' = Dry
    BY <1>b, <2>1 DEF Fill, ReadAt, Dry, Needs
  <2>3. SteerKnows => SteerKnows'
    BY <1>b, <2>1, <2>2 DEF SteerKnows
  <2> QED
    BY <1>0, <1>a, <1>b, <2>1, <2>2, <2>3 DEF RingKnown
<1>3. CASE ReadRd
  <2>1. UNCHANGED <<rd, playing, took, last, wrong>> /\ opc' = "have" /\ playing /\ crd' = rd
    BY <1>3, Zenon DEF ReadRd, feedvars
  <2>2. Fill' = Fill /\ ReadAt' = ReadAt
    BY <1>b, <2>1 DEF Fill, ReadAt
  <2>3. SteerKnows => SteerKnows'
    BY <1>b, <2>1, <2>2 DEF SteerKnows
  <2> QED
    BY <1>0, <1>a, <1>b, <2>1, <2>2, <2>3 DEF RingKnown
<1>4. CASE ReadWr
  <2>1. UNCHANGED <<rd, playing, took, last, wrong, crd>> /\ opc = "have" /\ opc' = "take" /\ chave' = Minus(wr, crd)
    BY <1>4 DEF ReadWr, feedvars
  <2>2. Fill' = Fill /\ ReadAt' = ReadAt /\ chave' = Fill /\ crd = rd /\ playing
    BY <1>b, <2>1 DEF Fill, ReadAt, RingKnown
  <2>3. ppc = "steer" => SteerKnows'
    BY <1>0, <1>a, <1>b, <2>1, <2>2 DEF SteerKnows, RingKnown
  <2> QED
    BY <1>0, <1>a, <1>b, <2>1, <2>2, <2>3 DEF RingKnown
<1>5. CASE RunDry
  <2>1. UNCHANGED <<rd, took, last, wrong>> /\ opc = "take" /\ Dry /\ playing' = FALSE /\ opc' \in {"refill", "test"}
    BY <1>5 DEF RunDry, WordDone
  <2>2. Fill' = Fill /\ ReadAt' = ReadAt
    BY <1>b, <2>1 DEF Fill, ReadAt
  <2>3. ppc = "steer" => SteerKnows'
    <3>1. chave < 2
      BY <1>0, <2>1 DEF Dry, Needs
    <3> QED
      BY <1>0, <1>a, <1>b, <2>1, <2>2, <3>1 DEF SteerKnows, RingKnown
  <2> QED
    BY <1>0, <1>a, <1>b, <2>1, <2>2, <2>3 DEF RingKnown
<1>6. CASE Take
  <2>1. UNCHANGED <<rd, playing, took, crd, chave, cstride>> /\ opc = "take" /\ opc' = "advance" /\ ~Dry
    BY <1>6 DEF Take, feedvars
  <2>2. Fill' = Fill /\ ReadAt' = ReadAt /\ Dry' = Dry
    BY <1>b, <2>1 DEF Fill, ReadAt, Dry, Needs
  <2>3. SteerKnows => SteerKnows'
    BY <1>b, <2>1, <2>2 DEF SteerKnows
  <2>4. crd = rd /\ Needs <= chave /\ chave <= Fill /\ Needs \in {1, 2}
    BY <1>0, <2>1 DEF RingKnown, Dry, Needs
  <2>5. ASSUME NEW i \in 0 .. Needs - 1
        PROVE  ring[Slot(Plus(crd, i))] = ReadAt + i /\ (ReadAt + i) % INDEX_MOD = Plus(crd, i)
    <3>1. i \in Nat /\ i < Fill
      BY <1>0, <1>a, <2>4
    <3>2. ReadAt \in Nat /\ Plus(rd, i) = (ReadAt + i) % INDEX_MOD /\ Slot(Plus(rd, i)) = Slot(ReadAt + i)
      BY <1>a, <3>1, ReadIndex
    <3>3. ReadAt + i \in Nat /\ made - AUDIO_FILL_LIMIT <= ReadAt + i /\ ReadAt + i < made
      BY <1>0, <1>a, <3>1, <3>2 DEF RingKnown
    <3>4. ring[Slot(ReadAt + i)] = ReadAt + i
      BY <1>0, <3>3, Held
    <3> QED
      BY <2>4, <3>2, <3>4, Zenon
  <2>6. ring[Slot(crd)] = ReadAt
    <3>1. 0 \in 0 .. Needs - 1 /\ Plus(crd, 0) = crd /\ ReadAt + 0 = ReadAt
      BY <1>0, <1>a, <2>4, IndexPlus
    <3> QED
      BY <2>5, <3>1
  <2>7. last' = ReadAt
    BY <1>6, <2>6 DEF Take
  <2>8. ~wrong'
    <3>1. wrong' = (wrong \/ last' < last
               \/ \E i \in 0 .. Needs - 1 : ring[Slot(Plus(crd, i))] % INDEX_MOD # Plus(crd, i))
      BY <1>6, Zenon DEF Take
    <3>2. ~wrong
      BY Zenon DEF RingKnown
    <3>3. ~(last' < last)
      BY <1>0, <1>a, <2>7 DEF RingKnown
    <3>4. \A i \in 0 .. Needs - 1 : ring[Slot(Plus(crd, i))] % INDEX_MOD = Plus(crd, i)
      BY <2>5, Zenon
    <3> QED
      BY <3>1, <3>2, <3>3, <3>4, Zenon
  <2> QED
    BY <1>0, <1>a, <1>b, <2>1, <2>2, <2>3, <2>4, <2>7, <2>8 DEF RingKnown
<1>7. CASE Advance
  <2>1. UNCHANGED <<playing, crd, chave, cstride, last, wrong>> /\ opc = "advance" /\ opc' \in {"refill", "test"}
        /\ (ppc = "steer" => took < BURST) /\ took' = IF ppc = "steer" THEN took + 1 ELSE took
    BY <1>7 DEF Advance, WordDone
  <2>2. crd = rd /\ playing /\ ~Dry /\ chave <= Fill
    BY <2>1, Zenon DEF RingKnown
  <2>3. PICK n \in 0 .. 2 : rd' = Plus(rd, n) /\ n <= Fill
    <3>1. CASE cstride = AUDIO_STRIDE_ONE
      BY <1>0, <1>7, <1>a, <2>2, <3>1 DEF Advance, Dry, Needs
    <3>2. CASE cstride # AUDIO_STRIDE_ONE
      <4> DEFINE q == (frac + cstride) \div AUDIO_STRIDE_ONE
      <4>1. q \in 0 .. 2
        BY AtMostTwo
      <4>2. rd' = Plus(rd, q)
        BY <1>7, <2>2, <3>2 DEF Advance
      <4> HIDE DEF q
      <4>3. q <= Fill
        BY <1>0, <1>a, <2>2, <3>2, <4>1 DEF Dry, Needs
      <4> QED
        BY <4>1, <4>2, <4>3
    <3> QED
      BY <3>1, <3>2
  <2>4. Fill' = Fill - n
    <3>1. n \in Nat /\ n <= Minus(wr, rd)
      BY <2>3 DEF Fill
    <3>2. Minus(wr, Plus(rd, n)) = Minus(wr, rd) - n
      BY <1>0, <3>1, FillMoves
    <3> QED
      BY <1>b, <2>3, <3>2 DEF Fill
  <2>5. ReadAt' = ReadAt + n
    BY <1>0, <1>a, <1>b, <2>3, <2>4 DEF ReadAt
  <2>6. ppc = "steer" => SteerKnows'
    <3> SUFFICES ASSUME ppc = "steer"
                 PROVE  SteerKnows'
      OBVIOUS
    <3>1. took' = took + 1 /\ took' <= BURST /\ pfill' = pfill
      BY <1>0, <1>b, <2>1
    <3>2. pfill <= Fill + 2 * took
      BY <1>0, <1>a DEF RingKnown, SteerKnows
    <3>3. pfill <= Fill' + 2 * took'
      BY <1>0, <1>a, <2>3, <2>4, <3>1, <3>2
    <3>4. playing'
      BY <2>1, <2>2, Zenon
    <3> QED
      BY <1>0, <2>1, <3>1, <3>3, <3>4 DEF SteerKnows
  <2>7. Fill' <= AUDIO_FILL_LIMIT /\ Fill' <= made /\ last <= ReadAt' /\ (Fill < AUDIO_FILL_LIMIT => Fill' < AUDIO_FILL_LIMIT)
    BY <1>0, <1>a, <2>3, <2>4, <2>5 DEF RingKnown
  <2>8. ppc \notin {"restart", "restride", "replay"}
    BY <2>2 DEF RingKnown
  <2> QED
    BY <1>b, <2>1, <2>2, <2>6, <2>7, <2>8 DEF RingKnown
<1> QED
  BY <1>1, <1>2, <1>3, <1>4, <1>5, <1>6, <1>7

\* The start: an empty ring, silence in the buffers, and the task about to poll.
LEMMA FeedStarts == FeedInit => FeedIInv
<1> SUFFICES ASSUME FeedInit
             PROVE  FeedIInv
  OBVIOUS
<1>0. /\ INDEX_MOD \in Nat \ {0} /\ 0 \in 0 .. INDEX_MOD - 1 /\ AUDIO_DMA_WORDS \in Nat \ {0}
      /\ AUDIO_STRIDE_ONE \in Nat \ {0} /\ AUDIO_FILL_LIMIT \in Nat
      /\ AUDIO_DMA_BUFS \in Nat \ {0} /\ AUDIO_DMA_BUFS >= 3 /\ LATE \in Nat
  BY FeedConstants, FeedAssumption
<1>1. FeedTypeOK
  <2>1. ring \in [0 .. AUDIO_RING_SIZE - 1 -> Int] /\ last \in Int
    BY DEF FeedInit
  <2>2. playing \in BOOLEAN /\ wrong \in BOOLEAN
    BY DEF FeedInit
  <2>3. /\ wr = 0 /\ rd = 0 /\ stride = AUDIO_STRIDE_ONE /\ made = 0 /\ pwr = 0 /\ pfill = 0 /\ took = 0
        /\ ppc = "idle" /\ opc = "poll" /\ cstride = AUDIO_STRIDE_ONE /\ crd = 0 /\ chave = 0 /\ frac = 0 /\ word = 0
    BY DEF FeedInit
  <2>4. /\ AUDIO_STRIDE_ONE \in 1 .. 2 * AUDIO_STRIDE_ONE - 1 /\ 0 \in 0 .. AUDIO_STRIDE_ONE - 1
        /\ 0 \in 0 .. AUDIO_DMA_WORDS - 1
    BY <1>0
  <2> QED
    BY <1>0, <2>1, <2>2, <2>3, <2>4 DEF FeedTypeOK
<1>2. Fill = 0 /\ ReadAt = 0
  BY <1>0, IndexMinus DEF FeedInit, Fill, ReadAt
<1>3. RingKnown
  <2>1. 0 % INDEX_MOD = 0
    <3>1. 0 \in 0 .. 2 * INDEX_MOD - 1
      BY <1>0
    <3> QED
      BY <1>0, <3>1, ModNear
  <2> QED
    BY <1>0, <1>2, <2>1 DEF FeedInit, RingKnown
<1>4. RingHolds
  BY <1>0 DEF FeedInit, RingHolds
<1>5. DmaKnown
  <2>1. dma = 0 /\ dma \in 0 .. AUDIO_DMA_BUFS - 1
    BY <1>0 DEF FeedInit
  <2>2. audio_dma_fetching(Dscr) = 0
    BY <2>1, FetchedIsDma
  <2>3. next \in 0 .. AUDIO_DMA_BUFS - 1 /\ upto = next
    BY <2>1, <2>2, NextBuffer DEF FeedInit, audio_dma_first
  <2>4. FirstPoll
    BY DEF FeedInit, FirstPoll
  <2>5. fresh \in [0 .. AUDIO_DMA_BUFS - 1 -> BOOLEAN] /\ started \in BOOLEAN
    BY DEF FeedInit
  <2>6. passed \in 0 .. LATE
    BY <1>0 DEF FeedInit
  <2> QED
    BY <2>1, <2>3, <2>4, <2>5, <2>6 DEF DmaKnown
<1> QED
  BY <1>1, <1>3, <1>4, <1>5 DEF FeedIInv

\* What the DAC plays is what was queued, in order and once, and it never plays a buffer that is being
\* filled, whatever the sizes, the strides and the timing of the two cores and the DMA.
THEOREM FeedCorrect == FeedSpec => []SoundInOrder
<1>1. FeedInit => FeedIInv
  BY FeedStarts
<1>2. FeedIInv /\ [FeedNext]_afvars => FeedIInv'
  <2>1. FeedIInv /\ UNCHANGED afvars => FeedIInv'
    <3> SUFFICES ASSUME FeedIInv, UNCHANGED afvars
                 PROVE  FeedIInv'
      OBVIOUS
    <3>1. UNCHANGED <<ring, wr, rd, stride, playing>> /\ UNCHANGED <<made, ppc, pwr, pfill>>
          /\ UNCHANGED <<opc, cstride, crd, chave, frac, word, last, wrong>> /\ took' = took
          /\ UNCHANGED dmavars
      BY DEF afvars, feedvars, prodvars, consvars
    <3>2. FeedTypeOK'
      BY <3>1 DEF FeedIInv, FeedTypeOK
    <3>3. RingKnown'
      BY <3>1 DEF FeedIInv, RingKnown, SteerKnows, Fill, ReadAt, Dry, Needs
    <3>4. RingHolds'
      BY <3>1 DEF FeedIInv, RingHolds, Slot
    <3>5. DmaKnown'
      BY <3>1, DmaStays DEF FeedIInv
    <3> QED
      BY <3>2, <3>3, <3>4, <3>5 DEF FeedIInv
  <2>2. FeedIInv /\ FeedNext => FeedIInv'
    BY FeedTypeAfter, RingHoldsAfter, ProducerStep, ConsumerStep, DmaStep DEF FeedIInv, FeedNext
  <2> QED
    BY <2>1, <2>2
<1>3. FeedIInv => SoundInOrder
  <2> SUFFICES ASSUME FeedIInv
               PROVE  SoundInOrder
    OBVIOUS
  <2>1. RingAgreed
    BY DEF FeedIInv, RingKnown, RingAgreed, Fill
  <2> QED
    BY <2>1, DmaAhead DEF FeedIInv, SoundInOrder
<1> QED
  BY <1>1, <1>2, <1>3, PTL DEF FeedSpec

-----------------------------------------------------------------------------
(* The RS-232 Pak: the host's bytes.                                        *)

USE DEF Rising, Before, Sent

\* Nothing in the register any more.
LEMMA LineDiscard ==
  ASSUME NEW A \in Seq(Int), NEW B \in Seq(Int), NEW C \in Seq(Int), NEW D \in Seq(Int), NEW n \in Nat,
         InLine(A, B, C, D, n)
  PROVE  InLine(A, <<>>, C, D, n)
  BY DEF InLine

\* The ring and UART0 are emptied as well.
LEMMA LineFlush ==
  ASSUME NEW A \in Seq(Int), NEW B \in Seq(Int), NEW C \in Seq(Int), NEW D \in Seq(Int), NEW n \in Nat,
         InLine(A, B, C, D, n)
  PROVE  InLine(A, <<>>, <<>>, <<>>, n)
  BY DEF InLine

\* A byte is read.
LEMMA LineRead ==
  ASSUME NEW A \in Seq(Int), NEW b \in Int, NEW C \in Seq(Int), NEW D \in Seq(Int), NEW n \in Nat,
         InLine(A, <<b>>, C, D, n)
  PROVE  InLine(Append(A, b), <<>>, C, D, n)
<1> DEFINE E == Append(A, b)
           B == <<b>>
<1>1. /\ Len(E) = Len(A) + 1 /\ E[Len(A) + 1] = b /\ \A i \in 1 .. Len(A) : E[i] = A[i]
      /\ Len(B) = 1 /\ B[1] = b
  OBVIOUS
<1>2. InLine(A, B, C, D, n)
  OBVIOUS
<1>3. /\ \A i \in 1 .. Len(A) : A[i] < b
      /\ \A i \in 1 .. Len(C) : b < C[i]
      /\ \A i \in 1 .. Len(D) : b < D[i]
      /\ b \in 1 .. n
  <2> HIDE DEF B
  <2>1. 1 \in 1 .. Len(B)
    BY <1>1
  <2> QED
    BY <1>1, <1>2, <2>1 DEF InLine
<1> HIDE DEF B, E
<1>4. Rising(E) /\ Before(E, C) /\ Before(E, D) /\ Sent(E, n)
  <2>0. /\ Rising(A) /\ Before(A, C) /\ Before(A, D) /\ Sent(A, n) /\ Len(A) \in Nat
        /\ \A i \in 1 .. Len(A) : A[i] \in Int
    BY <1>2 DEF InLine
  <2>1. \A i \in 1 .. Len(E) : i \in 1 .. Len(A) \/ i = Len(A) + 1
    BY <1>1, <2>0
  <2>2. Rising(E)
    <3> SUFFICES ASSUME NEW i \in 1 .. Len(E), NEW j \in 1 .. Len(E), i < j PROVE E[i] < E[j]
      OBVIOUS
    <3>1. i \in 1 .. Len(A)
      BY <1>1, <2>0
    <3>2. CASE j \in 1 .. Len(A)
      BY <1>1, <2>0, <3>1, <3>2
    <3>3. CASE j = Len(A) + 1
      BY <1>1, <1>3, <3>1, <3>3
    <3> QED
      BY <2>1, <3>2, <3>3
  <2>3. Before(E, C) /\ Before(E, D)
    BY <1>1, <1>3, <2>0, <2>1
  <2>4. Sent(E, n)
    BY <1>1, <1>3, <2>0, <2>1
  <2> QED
    BY <2>2, <2>3, <2>4
<1>5. Rising(<<>>) /\ Before(E, <<>>) /\ Before(<<>>, C) /\ Before(<<>>, D) /\ Sent(<<>>, n)
  OBVIOUS
<1>6. Rising(C) /\ Rising(D) /\ Before(C, D) /\ Sent(C, n) /\ Sent(D, n)
  BY <1>2 DEF InLine
<1> QED
  BY <1>4, <1>5, <1>6, Zenon DEF InLine, E

\* The first byte leaves the ring: for the register, which is empty, or for nowhere.
LEMMA LineShorter ==
  ASSUME NEW A \in Seq(Int), NEW B \in Seq(Int), NEW C \in Seq(Int), NEW D \in Seq(Int), NEW n \in Nat,
         InLine(A, B, C, D, n), NEW E \in Seq(Int), Len(C) = Len(E) + 1, \A i \in 1 .. Len(E) : E[i] = C[i + 1]
  PROVE  InLine(A, B, E, D, n) /\ InLine(A, <<C[1]>>, E, D, n)
<1> DEFINE b == C[1]
           F == <<b>>
<1>1. Len(F) = 1 /\ F[1] = b /\ 1 \in 1 .. Len(C)
  OBVIOUS
<1>2. \A i \in 1 .. Len(E) : i + 1 \in 1 .. Len(C) /\ 1 < i + 1
  OBVIOUS
<1>3. /\ \A i \in 1 .. Len(A) : A[i] < b
      /\ \A i \in 1 .. Len(E) : b < E[i]
      /\ \A i \in 1 .. Len(D) : b < D[i]
      /\ b \in 1 .. n /\ b \in Int
  BY <1>1, <1>2 DEF InLine
<1>4. Rising(E) /\ Before(A, E) /\ Before(B, E) /\ Before(E, D) /\ Sent(E, n)
  <2>0. /\ Rising(C) /\ Before(A, C) /\ Before(B, C) /\ Before(C, D) /\ Sent(C, n)
        /\ Len(E) \in Nat /\ Len(C) \in Nat /\ \A i \in 1 .. Len(C) : C[i] \in Int
    BY DEF InLine
  <2>1. Rising(E)
    <3> SUFFICES ASSUME NEW i \in 1 .. Len(E), NEW j \in 1 .. Len(E), i < j PROVE E[i] < E[j]
      OBVIOUS
    <3> DEFINE p == i + 1
               q == j + 1
    <3>1. p \in 1 .. Len(C) /\ q \in 1 .. Len(C) /\ p < q
      BY <1>2, <2>0
    <3>2. E[i] = C[p] /\ E[j] = C[q]
      OBVIOUS
    <3> HIDE DEF p, q
    <3> QED
      BY <2>0, <3>1, <3>2
  <2>2. Before(A, E) /\ Before(B, E)
    BY <1>2, <2>0
  <2>3. Before(E, D) /\ Sent(E, n)
    BY <1>2, <2>0
  <2> QED
    BY <2>1, <2>2, <2>3
<1> HIDE DEF b, F
<1>5. Rising(F) /\ Before(A, F) /\ Before(F, E) /\ Before(F, D) /\ Sent(F, n)
  BY <1>1, <1>3
<1> QED
  BY <1>4, <1>5 DEF InLine, F, b

\* A byte reaches UART0.
LEMMA LineLonger ==
  ASSUME NEW A \in Seq(Int), NEW B \in Seq(Int), NEW C \in Seq(Int), NEW D \in Seq(Int), NEW n \in Nat,
         InLine(A, B, C, D, n)
  PROVE  InLine(A, B, C, Append(D, n + 1), n + 1)
<1> DEFINE E == Append(D, n + 1)
<1>1. Len(E) = Len(D) + 1 /\ E[Len(D) + 1] = n + 1 /\ \A i \in 1 .. Len(D) : E[i] = D[i]
  OBVIOUS
<1> HIDE DEF E
<1>2. Rising(E) /\ Before(A, E) /\ Before(B, E) /\ Before(C, E) /\ Sent(E, n + 1)
  <2>0. /\ Rising(D) /\ Before(A, D) /\ Before(B, D) /\ Before(C, D)
        /\ Sent(A, n) /\ Sent(B, n) /\ Sent(C, n) /\ Sent(D, n) /\ Len(D) \in Nat
        /\ (\A i \in 1 .. Len(A) : A[i] \in Int) /\ (\A i \in 1 .. Len(B) : B[i] \in Int)
        /\ (\A i \in 1 .. Len(C) : C[i] \in Int) /\ (\A i \in 1 .. Len(D) : D[i] \in Int)
    BY DEF InLine
  <2>1. \A i \in 1 .. Len(E) : i \in 1 .. Len(D) \/ i = Len(D) + 1
    BY <1>1, <2>0
  <2>2. Rising(E)
    <3> SUFFICES ASSUME NEW i \in 1 .. Len(E), NEW j \in 1 .. Len(E), i < j PROVE E[i] < E[j]
      OBVIOUS
    <3>1. i \in 1 .. Len(D) /\ E[i] = D[i] /\ D[i] <= n
      BY <1>1, <2>0
    <3>2. CASE j \in 1 .. Len(D)
      BY <1>1, <2>0, <3>1, <3>2
    <3>3. CASE j = Len(D) + 1
      BY <1>1, <2>0, <3>1, <3>3
    <3> QED
      BY <2>1, <3>2, <3>3
  <2>3. ASSUME NEW T \in Seq(Int), Before(T, D), Sent(T, n) PROVE Before(T, E)
    <3> SUFFICES ASSUME NEW i \in 1 .. Len(T), NEW j \in 1 .. Len(E) PROVE T[i] < E[j]
      OBVIOUS
    <3>1. T[i] \in 1 .. n
      BY <2>3
    <3>2. CASE j \in 1 .. Len(D)
      BY <1>1, <2>3, <3>2
    <3>3. CASE j = Len(D) + 1
      BY <1>1, <3>1, <3>3
    <3> QED
      BY <2>1, <3>2, <3>3
  <2>4. Sent(E, n + 1)
    <3> SUFFICES ASSUME NEW i \in 1 .. Len(E) PROVE E[i] \in 1 .. n + 1
      OBVIOUS
    <3>1. CASE i \in 1 .. Len(D)
      <4>1. E[i] = D[i] /\ D[i] \in 1 .. n
        BY <1>1, <2>0, <3>1
      <4> QED
        BY <4>1
    <3>2. CASE i = Len(D) + 1
      BY <1>1, <3>2
    <3> QED
      BY <2>1, <3>1, <3>2
  <2>5. Before(A, E) /\ Before(B, E) /\ Before(C, E)
    BY <2>0, <2>3
  <2> QED
    BY <2>2, <2>4, <2>5
<1>3. Sent(A, n + 1) /\ Sent(B, n + 1) /\ Sent(C, n + 1)
  BY DEF InLine
<1> QED
  BY <1>2, <1>3 DEF InLine, E

\* What is left of a sequence.
LEMMA Suffix ==
  ASSUME NEW D \in Seq(Int), NEW k \in 0 .. Len(D)
  PROVE  LET F == SubSeq(D, k + 1, Len(D))
         IN  F \in Seq(Int) /\ Len(F) = Len(D) - k /\ \A i \in 1 .. Len(F) : F[i] = D[i + k]
<1> DEFINE F == SubSeq(D, k + 1, Len(D))
<1>1. Len(D) \in Nat /\ k \in Nat /\ k <= Len(D)
  OBVIOUS
<1>2. F \in Seq(Int) /\ Len(F) = Len(D) - k
  BY <1>1, SMTT(60)
<1>3. ASSUME NEW i \in 1 .. Len(D) - k PROVE F[i] = D[i + k]
  <2>1. F[i] = D[(k + 1) + i - 1] /\ (k + 1) + i - 1 = i + k
    BY <1>1, SMTT(60)
  <2> QED
    BY <2>1
<1> QED
  BY <1>2, <1>3

\* The first k bytes in UART0 move to the end of the ring.
LEMMA LineMoved ==
  ASSUME NEW A \in Seq(Int), NEW B \in Seq(Int), NEW C \in Seq(Int), NEW D \in Seq(Int), NEW n \in Nat,
         InLine(A, B, C, D, n), NEW k \in 0 .. Len(D), NEW E \in Seq(Int), Len(E) = Len(C) + k,
         \A i \in 1 .. Len(C) : E[i] = C[i], \A i \in 1 .. k : E[Len(C) + i] = D[i]
  PROVE  InLine(A, B, E, SubSeq(D, k + 1, Len(D)), n)
<1> DEFINE F == SubSeq(D, k + 1, Len(D))
<1>1. F \in Seq(Int) /\ Len(F) = Len(D) - k /\ \A i \in 1 .. Len(F) : F[i] = D[i + k]
  BY Suffix
<1> HIDE DEF F
<1>2. /\ Rising(C) /\ Rising(D) /\ Before(A, C) /\ Before(B, C) /\ Before(A, D) /\ Before(B, D) /\ Before(C, D)
      /\ Sent(C, n) /\ Sent(D, n)
      /\ Len(C) \in Nat /\ Len(D) \in Nat /\ Len(E) \in Nat /\ k \in Nat
      /\ (\A i \in 1 .. Len(C) : C[i] \in Int) /\ (\A i \in 1 .. Len(D) : D[i] \in Int)
  BY DEF InLine
<1>3. \A i \in 1 .. Len(E) : \/ i \in 1 .. Len(C) /\ E[i] = C[i]
                             \/ i - Len(C) \in 1 .. k /\ i - Len(C) \in 1 .. Len(D) /\ E[i] = D[i - Len(C)]
  <2> TAKE i \in 1 .. Len(E)
  <2> DEFINE j == i - Len(C)
  <2>1. CASE i <= Len(C)
    BY <1>2, <2>1
  <2>2. CASE i > Len(C)
    <3>1. j \in 1 .. k /\ Len(C) + j = i /\ j \in 1 .. Len(D)
      BY <1>2, <2>2
    <3> QED
      BY <3>1
  <2> QED
    BY <1>2, <2>1, <2>2
<1>4. \A i \in 1 .. Len(F) : i + k \in 1 .. Len(D) /\ F[i] = D[i + k]
  BY <1>1, <1>2
<1>5. Before(A, E) /\ Before(B, E)
  BY <1>2, <1>3
<1>6. Sent(E, n) /\ Sent(F, n)
  BY <1>2, <1>3, <1>4
<1>7. Before(A, F) /\ Before(B, F)
  BY <1>2, <1>4
<1>8. Rising(F)
  <2> SUFFICES ASSUME NEW i \in 1 .. Len(F), NEW j \in 1 .. Len(F), i < j PROVE F[i] < F[j]
    OBVIOUS
  <2> DEFINE p == i + k
             q == j + k
  <2>1. p \in 1 .. Len(D) /\ F[i] = D[p]
    BY <1>4
  <2>2. q \in 1 .. Len(D) /\ F[j] = D[q]
    BY <1>4
  <2>3. p < q
    BY <1>1, <1>2
  <2> HIDE DEF p, q
  <2> QED
    BY <1>2, <2>1, <2>2, <2>3
<1>9. Rising(E)
  <2> SUFFICES ASSUME NEW i \in 1 .. Len(E), NEW j \in 1 .. Len(E), i < j PROVE E[i] < E[j]
    OBVIOUS
  <2>1. CASE j <= Len(C)
    <3>1. i \in 1 .. Len(C) /\ j \in 1 .. Len(C)
      BY <1>2, <2>1
    <3>2. E[i] = C[i] /\ E[j] = C[j]
      BY <3>1
    <3> QED
      BY <1>2, <3>1, <3>2
  <2>2. CASE i <= Len(C) /\ j > Len(C)
    <3> DEFINE q == j - Len(C)
    <3>1. i \in 1 .. Len(C)
      BY <1>2, <2>2
    <3>2. E[i] = C[i] /\ q \in 1 .. Len(D) /\ E[j] = D[q]
      BY <1>2, <1>3, <2>2, <3>1
    <3> HIDE DEF q
    <3> QED
      BY <1>2, <3>1, <3>2
  <2>3. CASE i > Len(C)
    <3> DEFINE p == i - Len(C)
               q == j - Len(C)
    <3>1. E[i] = D[p] /\ E[j] = D[q] /\ p \in 1 .. Len(D) /\ q \in 1 .. Len(D) /\ p < q
      <4>0. i \notin 1 .. Len(C) /\ j \notin 1 .. Len(C)
        BY <1>2, <2>3
      <4>1. E[i] = D[p] /\ p \in 1 .. Len(D)
        BY <1>3, <4>0
      <4>2. E[j] = D[q] /\ q \in 1 .. Len(D)
        BY <1>3, <4>0
      <4>3. p < q
        BY <1>2
      <4> QED
        BY <4>1, <4>2, <4>3
    <3> HIDE DEF p, q
    <3> QED
      BY <1>2, <3>1
  <2> QED
    BY <1>2, <2>1, <2>2, <2>3
<1>10. Before(E, F)
  <2> SUFFICES ASSUME NEW i \in 1 .. Len(E), NEW j \in 1 .. Len(F) PROVE E[i] < F[j]
    OBVIOUS
  <2>1. CASE E[i] = C[i] /\ i \in 1 .. Len(C)
    BY <1>2, <1>4, <2>1
  <2>2. CASE i - Len(C) \in 1 .. k
    <3> DEFINE p == i - Len(C)
               q == j + k
    <3>1. E[i] = D[p] /\ F[j] = D[q] /\ p \in 1 .. Len(D) /\ q \in 1 .. Len(D) /\ p < q
      <4>1. E[i] = D[p] /\ p \in 1 .. Len(D)
        BY <1>2, <1>3, <2>2
      <4>2. F[j] = D[q] /\ q \in 1 .. Len(D)
        BY <1>4
      <4>3. p < q
        BY <1>1, <1>2, <2>2
      <4> QED
        BY <4>1, <4>2, <4>3
    <3> HIDE DEF p, q
    <3> QED
      BY <1>2, <3>1
  <2> QED
    BY <1>3, <2>1, <2>2
<1>11. Rising(A) /\ Rising(B) /\ Before(A, B) /\ Sent(A, n) /\ Sent(B, n)
  BY DEF InLine
<1> QED
  BY <1>5, <1>6, <1>7, <1>8, <1>9, <1>10, <1>11 DEF InLine, F

\* The ring holds what its indices say.
LEMMA RingIs ==
  ASSUME AciaAssumption, NEW s, s.head \in 0 .. RING_SIZE - 1, s.tail \in 0 .. RING_SIZE - 1,
         s.ring \in [0 .. RING_SIZE - 1 -> Int]
  PROVE  /\ ring_count(s) \in 0 .. RING_SIZE - 1
         /\ ring_count(s) = IF s.head >= s.tail THEN s.head - s.tail ELSE s.head - s.tail + RING_SIZE
         /\ Ring(s) \in Seq(Int) /\ Len(Ring(s)) = ring_count(s)
         /\ \A i \in 1 .. ring_count(s) :
              Ring(s)[i] = s.ring[IF s.tail + i - 1 < RING_SIZE THEN s.tail + i - 1 ELSE s.tail + i - 1 - RING_SIZE]
<1> DEFINE h == s.head
           t == s.tail
           d == h - t + RING_SIZE
           N == ring_count(s)
<1>0. RING_SIZE \in Nat \ {0}
  BY DEF AciaAssumption
<1>1. d \in 0 .. 2 * RING_SIZE - 1
  BY <1>0
<1>2. d % RING_SIZE = IF d < RING_SIZE THEN d ELSE d - RING_SIZE
  <2> HIDE DEF d
  <2> QED
    BY <1>0, <1>1, ModNear
<1>3. N \in 0 .. RING_SIZE - 1 /\ N = IF h >= t THEN h - t ELSE h - t + RING_SIZE
  <2>1. N = d % RING_SIZE
    BY DEF ring_count
  <2>2. N = IF d < RING_SIZE THEN d ELSE d - RING_SIZE
    BY <1>2, <2>1
  <2>3. (d < RING_SIZE) = ~(h >= t)
    BY <1>0
  <2> HIDE DEF N
  <2> QED
    BY <1>0, <2>2, <2>3
<1> HIDE DEF N
<1>4. \A i \in 1 .. N : (t + i - 1) % RING_SIZE = (IF t + i - 1 < RING_SIZE THEN t + i - 1 ELSE t + i - 1 - RING_SIZE)
                        /\ (t + i - 1) % RING_SIZE \in 0 .. RING_SIZE - 1
  <2> TAKE i \in 1 .. N
  <2> DEFINE e == t + i - 1
  <2>1. e \in 0 .. 2 * RING_SIZE - 1
    BY <1>0, <1>3
  <2>2. e % RING_SIZE = IF e < RING_SIZE THEN e ELSE e - RING_SIZE
    <3> HIDE DEF e
    <3> QED
      BY <1>0, <2>1, ModNear
  <2> QED
    BY <1>0, <2>1, <2>2
<1>5. Ring(s) = [i \in 1 .. N |-> s.ring[(t + i - 1) % RING_SIZE]]
  BY DEF Ring, N
<1>6. Ring(s) \in Seq(Int) /\ Len(Ring(s)) = N
  <2>1. \A i \in 1 .. N : s.ring[(t + i - 1) % RING_SIZE] \in Int
    BY <1>4
  <2>2. N \in Nat
    BY <1>0, <1>3
  <2> QED
    BY <1>5, <2>1, <2>2
<1>7. \A i \in 1 .. N : Ring(s)[i] = s.ring[IF t + i - 1 < RING_SIZE THEN t + i - 1 ELSE t + i - 1 - RING_SIZE]
  BY <1>4, <1>5
<1> QED
  BY <1>3, <1>6, <1>7 DEF N

\* A byte leaves the ring, and the others move up.
LEMMA RingTaken ==
  ASSUME AciaAssumption, NEW s, SerialShape(s), ring_count(s) > 0
  PROVE  LET t == rs232_rx(s)
         IN  /\ SerialShape(t) /\ t.uart = s.uart
             /\ Ring(s) \in Seq(Int) /\ Ring(t) \in Seq(Int) /\ Len(Ring(s)) = Len(Ring(t)) + 1
             /\ \A i \in 1 .. Len(Ring(t)) : Ring(t)[i] = Ring(s)[i + 1]
<1> DEFINE t == rs232_rx(s)
           R == RING_SIZE
           M == ring_count(s)
           N == ring_count(t)
<1>0. R \in Nat \ {0} /\ R \in Int /\ R > 1
  BY DEF AciaAssumption
<1>1. (s.tail + 1) % R = IF s.tail + 1 < R THEN s.tail + 1 ELSE 0
  <2> DEFINE e == s.tail + 1
  <2>1. e \in 0 .. 2 * R - 1 /\ e <= R
    BY <1>0 DEF SerialShape
  <2>2. e % R = IF e < R THEN e ELSE e - R
    <3> HIDE DEF e
    <3> QED
      BY <1>0, <2>1, ModNear
  <2> QED
    BY <1>0, <2>1, <2>2
<1>2. /\ DOMAIN t = DOMAIN s /\ t.ring = s.ring /\ t.head = s.head /\ t.uart = s.uart
      /\ t.tail = IF s.tail + 1 < R THEN s.tail + 1 ELSE 0
  BY <1>1 DEF rs232_rx, SerialShape
<1> HIDE DEF t
<1>3. SerialShape(t)
  BY <1>0, <1>2 DEF SerialShape
<1>4. /\ M \in 0 .. R - 1 /\ M > 0
      /\ M = IF s.head >= s.tail THEN s.head - s.tail ELSE s.head - s.tail + R
  BY RingIs DEF SerialShape
<1>4a. /\ Ring(s) \in Seq(Int) /\ Len(Ring(s)) = M
       /\ \A i \in 1 .. M : Ring(s)[i] = s.ring[IF s.tail + i - 1 < R THEN s.tail + i - 1 ELSE s.tail + i - 1 - R]
  BY RingIs DEF SerialShape
<1>5. /\ N \in 0 .. R - 1
      /\ N = IF t.head >= t.tail THEN t.head - t.tail ELSE t.head - t.tail + R
  BY <1>3, RingIs DEF SerialShape
<1>5a. /\ Ring(t) \in Seq(Int) /\ Len(Ring(t)) = N
       /\ \A i \in 1 .. N : Ring(t)[i] = t.ring[IF t.tail + i - 1 < R THEN t.tail + i - 1 ELSE t.tail + i - 1 - R]
  BY <1>3, RingIs DEF SerialShape
<1> HIDE DEF M, N, R
<1>6. s.head \in 0 .. R - 1 /\ s.tail \in 0 .. R - 1
  BY DEF SerialShape, R
<1>7. M = N + 1
  BY <1>0, <1>2, <1>4, <1>5, <1>6
<1>8. ASSUME NEW i \in 1 .. N PROVE Ring(t)[i] = Ring(s)[i + 1]
  <2> DEFINE p == IF t.tail + i - 1 < R THEN t.tail + i - 1 ELSE t.tail + i - 1 - R
             j == i + 1
             q == IF s.tail + j - 1 < R THEN s.tail + j - 1 ELSE s.tail + j - 1 - R
  <2>1. p = q
    BY <1>0, <1>2, <1>5, <1>6
  <2>2. j \in 1 .. M
    BY <1>5, <1>7
  <2>3. Ring(t)[i] = t.ring[p]
    BY <1>5a
  <2>4. Ring(s)[j] = s.ring[q]
    <3> HIDE DEF j
    <3> QED
      BY <1>4a, <2>2
  <2> QED
    BY <1>2, <2>1, <2>3, <2>4
<1> QED
  BY <1>2, <1>3, <1>4a, <1>5a, <1>7, <1>8 DEF t

\* What UART0 holds fills the ring from its head, as far as there is room.
LEMMA RingFilled ==
  ASSUME AciaAssumption, NEW s, SerialShape(s)
  PROVE  LET t == hal_rs232_poll(s)
             n == Len(Ring(t)) - Len(Ring(s))
         IN  /\ SerialShape(t) /\ Ring(s) \in Seq(Int) /\ Ring(t) \in Seq(Int)
             /\ n \in 0 .. Len(s.uart) /\ t.uart = SubSeq(s.uart, n + 1, Len(s.uart))
             /\ \A i \in 1 .. Len(Ring(s)) : Ring(t)[i] = Ring(s)[i]
             /\ \A i \in 1 .. n : Ring(t)[Len(Ring(s)) + i] = s.uart[i]
<1> DEFINE t == hal_rs232_poll(s)
           R == RING_SIZE
           M == ring_count(s)
           N == ring_count(t)
           free == R - 1 - M
           n == IF Len(s.uart) < free THEN Len(s.uart) ELSE free
           place(i) == (i - s.head + R) % R
<1>0. R \in Nat \ {0} /\ R \in Int /\ R > 1 /\ s.head \in 0 .. R - 1 /\ s.tail \in 0 .. R - 1
  BY DEF AciaAssumption, SerialShape
<1>0a. s.uart \in Seq(Int) /\ Len(s.uart) \in Nat
  BY DEF SerialShape
<1>1. /\ M \in 0 .. R - 1
      /\ M = IF s.head >= s.tail THEN s.head - s.tail ELSE s.head - s.tail + R
  BY RingIs DEF SerialShape
<1>1a. /\ Ring(s) \in Seq(Int) /\ Len(Ring(s)) = M
       /\ \A i \in 1 .. M : Ring(s)[i] = s.ring[IF s.tail + i - 1 < R THEN s.tail + i - 1 ELSE s.tail + i - 1 - R]
  BY RingIs DEF SerialShape
<1>2. n \in 0 .. Len(s.uart) /\ n <= (R - 1) - M
  <2> HIDE DEF M
  <2> QED
    BY <1>0, <1>0a, <1>1
<1>2a. n \in Nat /\ n <= (R - 1) - M
  <2> HIDE DEF n, M
  <2> QED
    BY <1>0, <1>0a, <1>1, <1>2
<1>3. /\ DOMAIN t = DOMAIN s
      /\ t.ring = [i \in 0 .. R - 1 |-> IF place(i) < n THEN s.uart[place(i) + 1] ELSE s.ring[i]]
      /\ t.uart = SubSeq(s.uart, n + 1, Len(s.uart))
  BY DEF hal_rs232_poll, SerialShape
<1>3a. t.head = (s.head + n) % R /\ t.tail = s.tail
  BY DEF hal_rs232_poll, SerialShape
<1> HIDE DEF t, n, free, M
<1>4. (s.head + n) % R = IF s.head + n < R THEN s.head + n ELSE (s.head + n) - R
  <2> DEFINE e == s.head + n
  <2>1. e \in 0 .. 2 * R - 1
    BY <1>0, <1>0a, <1>1, <1>2
  <2>2. e % R = IF e < R THEN e ELSE e - R
    <3> HIDE DEF e
    <3> QED
      BY <1>0, <2>1, ModNear
  <2> QED
    BY <2>2
<1>4a. t.head = (IF s.head + n < R THEN s.head + n ELSE (s.head + n) - R) /\ t.tail = s.tail
  BY <1>3a, <1>4, Zenon
<1>5. \A i \in 0 .. R - 1 : place(i) \in 0 .. R - 1 /\ place(i) = IF i < s.head THEN i - s.head + R ELSE i - s.head
  <2> TAKE i \in 0 .. R - 1
  <2> DEFINE e == i - s.head + R
  <2>1. e \in 0 .. 2 * R - 1
    BY <1>0
  <2>2. e % R = IF e < R THEN e ELSE e - R
    <3> HIDE DEF e
    <3> QED
      BY <1>0, <2>1, ModNear
  <2>3. place(i) = IF e < R THEN e ELSE e - R
    BY <2>2, Zenon
  <2>6. e = i - s.head + R
    OBVIOUS
  <2> HIDE DEF place, e
  <2>4. CASE i < s.head
    BY <1>0, <2>3, <2>4, <2>6
  <2>5. CASE ~(i < s.head)
    BY <1>0, <2>3, <2>5, <2>6
  <2> QED
    BY <2>4, <2>5
<1> HIDE DEF place
<1>6. SerialShape(t)
  <2>1. t.ring \in [0 .. R - 1 -> Int]
    <3> SUFFICES ASSUME NEW i \in 0 .. R - 1 PROVE (IF place(i) < n THEN s.uart[place(i) + 1] ELSE s.ring[i]) \in Int
      BY <1>3
    <3>1. CASE place(i) < n
      <4>1. place(i) + 1 \in 1 .. Len(s.uart)
        <5>1. place(i) \in 0 .. R - 1
          BY <1>5
        <5> QED
          BY <1>0, <1>0a, <1>2, <3>1, <5>1
      <4> QED
        BY <1>0a, <3>1, <4>1
    <3>2. CASE ~(place(i) < n)
      BY <3>2 DEF SerialShape
    <3> QED
      BY <3>1, <3>2
  <2>2. t.head \in 0 .. R - 1 /\ t.tail \in 0 .. R - 1
    BY <1>0, <1>1, <1>2a, <1>4a
  <2>3. t.uart \in Seq(Int)
    BY <1>0, <1>0a, <1>2, <1>3
  <2> QED
    BY <1>3, <2>1, <2>2, <2>3 DEF SerialShape
<1>7. /\ N \in 0 .. R - 1
      /\ N = IF t.head >= t.tail THEN t.head - t.tail ELSE t.head - t.tail + R
  BY <1>6, RingIs DEF SerialShape
<1>7a. /\ Ring(t) \in Seq(Int) /\ Len(Ring(t)) = N
       /\ \A i \in 1 .. N : Ring(t)[i] = t.ring[IF t.tail + i - 1 < R THEN t.tail + i - 1 ELSE t.tail + i - 1 - R]
  BY <1>6, RingIs DEF SerialShape
<1> HIDE DEF N, R
<1>8. N = M + n
  BY <1>0, <1>1, <1>2a, <1>4a, <1>7
<1>9. ASSUME NEW i \in 1 .. M PROVE Ring(t)[i] = Ring(s)[i]
  <2> DEFINE p == IF s.tail + i - 1 < R THEN s.tail + i - 1 ELSE s.tail + i - 1 - R
  <2>1. p \in 0 .. R - 1 /\ i \in 1 .. N
    BY <1>0, <1>1, <1>2a, <1>8
  <2>2. ~(place(p) < n)
    <3>1. place(p) = IF p < s.head THEN p - s.head + R ELSE p - s.head
      <4> HIDE DEF p
      <4> QED
        BY <1>5, <2>1
    <3> QED
      BY <1>0, <1>1, <1>2a, <3>1
  <2>3. Ring(s)[i] = s.ring[p] /\ Ring(t)[i] = t.ring[p]
    BY <1>1a, <1>3a, <1>7a, <2>1
  <2> HIDE DEF p
  <2> QED
    BY <1>3, <2>1, <2>2, <2>3
<1>10. ASSUME NEW i \in 1 .. n PROVE Ring(t)[M + i] = s.uart[i]
  <2> DEFINE j == M + i
             p == IF s.tail + j - 1 < R THEN s.tail + j - 1 ELSE s.tail + j - 1 - R
  <2>1. p \in 0 .. R - 1 /\ j \in 1 .. N
    BY <1>0, <1>1, <1>2a, <1>7, <1>8
  <2>2. place(p) = i - 1
    <3>1. place(p) = IF p < s.head THEN p - s.head + R ELSE p - s.head
      <4> HIDE DEF p
      <4> QED
        BY <1>5, <2>1
    <3> QED
      BY <1>0, <1>1, <1>2a, <3>1
  <2>3. Ring(t)[j] = t.ring[p]
    <3> HIDE DEF j
    <3> QED
      BY <1>3a, <1>7a, <2>1
  <2> HIDE DEF p, j
  <2>4. t.ring[p] = s.uart[(i - 1) + 1] /\ i - 1 < n
    BY <1>0, <1>2, <1>3, <2>1, <2>2
  <2>5. (i - 1) + 1 = i
    OBVIOUS
  <2> QED
    BY <2>3, <2>4, <2>5 DEF j
<1>11. Len(Ring(t)) - Len(Ring(s)) = n
  <2>1. Len(Ring(t)) = N /\ Len(Ring(s)) = M
    BY <1>1a, <1>7a
  <2>2. N - M = n
    BY <1>0, <1>1, <1>2a, <1>8
  <2> QED
    BY <2>1, <2>2
<1>12. Ring(s) \in Seq(Int) /\ Ring(t) \in Seq(Int) /\ Len(Ring(s)) = M
  BY <1>1a, <1>7a
<1>13. t.uart = SubSeq(s.uart, n + 1, Len(s.uart))
  BY <1>3
<1> HIDE DEF N
<1>14. LET k == Len(Ring(t)) - Len(Ring(s))
       IN  /\ k \in 0 .. Len(s.uart) /\ t.uart = SubSeq(s.uart, k + 1, Len(s.uart))
           /\ \A i \in 1 .. k : Ring(t)[Len(Ring(s)) + i] = s.uart[i]
  BY <1>2, <1>10, <1>11, <1>12, <1>13
<1>15. \A i \in 1 .. Len(Ring(s)) : Ring(t)[i] = Ring(s)[i]
  BY <1>9, <1>12
<1> QED
  BY <1>6, <1>12, <1>14, <1>15 DEF t

\* A flush empties both.
LEMMA RingCleared ==
  ASSUME AciaAssumption, NEW s, SerialShape(s)
  PROVE  LET t == hal_rs232_flush(s) IN SerialShape(t) /\ Ring(t) = <<>> /\ t.uart = <<>>
<1> DEFINE t == hal_rs232_flush(s)
<1>1. DOMAIN t = DOMAIN s /\ t.ring = s.ring /\ t.head = 0 /\ t.tail = 0 /\ t.uart = <<>>
  BY DEF hal_rs232_flush, ring_clear, SerialShape
<1> HIDE DEF t
<1>2. 0 \in 0 .. RING_SIZE - 1
  BY DEF AciaAssumption
<1>3. SerialShape(t)
  BY <1>1, <1>2 DEF SerialShape
<1>4. ring_count(t) = 0
  <2>1. t.head \in 0 .. RING_SIZE - 1 /\ t.tail \in 0 .. RING_SIZE - 1 /\ t.ring \in [0 .. RING_SIZE - 1 -> Int]
    BY <1>3 DEF SerialShape
  <2>2. ring_count(t) = IF t.head >= t.tail THEN t.head - t.tail ELSE t.head - t.tail + RING_SIZE
    BY <2>1, RingIs
  <2> QED
    BY <1>1, <2>2
<1>5. Ring(t) \in Seq(Int) /\ Len(Ring(t)) = 0
  BY <1>1, <1>2, <1>3, <1>4, RingIs DEF SerialShape
<1> QED
  BY <1>1, <1>3, <1>5 DEF t

-----------------------------------------------------------------------------
(* The program's bytes.                                                     *)

\* The byte that waited goes out.
LEMMA WireSends ==
  ASSUME NEW w \in Seq(Int), NEW b \in Int, NEW n \in Nat, OnWire(w, b, n)
  PROVE  w \o Own(b) \in Seq(Int) /\ OnWire(w \o Own(b), 0, n)
<1>1. CASE b < 0
  <2> DEFINE v == w \o <<b>>
  <2>1. Own(b) = <<b>>
    BY <1>1 DEF Own
  <2>2. v \in Seq(Int) /\ Len(v) = Len(w) + 1 /\ v[Len(w) + 1] = b /\ \A i \in 1 .. Len(w) : v[i] = w[i]
    OBVIOUS
  <2>3. /\ \A i \in 1 .. Len(w) : w[i] < 0 /\ w[i] >= -n /\ w[i] > b /\ w[i] \in Int
        /\ \A i, j \in 1 .. Len(w) : i < j => w[i] > w[j]
        /\ b < 0 /\ b >= -n /\ Len(w) \in Nat
    BY <1>1 DEF OnWire
  <2> HIDE DEF v
  <2>4. \A i \in 1 .. Len(v) : i \in 1 .. Len(w) \/ i = Len(w) + 1
    BY <2>2, <2>3
  <2>5. \A i \in 1 .. Len(v) : v[i] < 0 /\ v[i] >= -n
    BY <2>2, <2>3, <2>4
  <2>6. ASSUME NEW i \in 1 .. Len(v), NEW j \in 1 .. Len(v), i < j PROVE v[i] > v[j]
    <3>1. i \in 1 .. Len(w)
      BY <2>2, <2>3, <2>6
    <3>2. CASE j \in 1 .. Len(w)
      BY <2>2, <2>3, <2>6, <3>1, <3>2
    <3>3. CASE j = Len(w) + 1
      BY <2>2, <2>3, <3>1, <3>3
    <3> QED
      BY <2>4, <3>2, <3>3
  <2>7. OnWire(v, 0, n)
    BY <2>5, <2>6 DEF OnWire
  <2> QED
    BY <2>1, <2>2, <2>7 DEF v
<1>2. CASE ~(b < 0)
  <2>1. Own(b) = <<>> /\ w \o <<>> = w
    BY <1>2 DEF Own
  <2>2. OnWire(w, 0, n)
    BY DEF OnWire
  <2> QED
    BY <2>1, <2>2
<1> QED
  BY <1>1, <1>2

\* The program's next byte is less than all before it.
LEMMA WireNext ==
  ASSUME NEW w \in Seq(Int), NEW b \in Int, NEW n \in Nat, OnWire(w, b, n)
  PROVE  OnWire(w, -(n + 1), n + 1)
<1>1. \A i \in 1 .. Len(w) : w[i] < 0 /\ w[i] >= -n /\ w[i] \in Int
  BY DEF OnWire
<1>2. \A i \in 1 .. Len(w) : w[i] < 0 /\ w[i] >= -(n + 1) /\ w[i] > -(n + 1)
  BY <1>1
<1> QED
  BY <1>2 DEF OnWire

-----------------------------------------------------------------------------
(* The chip.                                                                *)

\* A byte that is submitted goes out or waits.
LEMMA Submitted ==
  ASSUME NEW c, ChipShape(c), NEW b \in Int
  PROVE  LET d == tx_submit(c, b)
         IN  /\ ChipShape(d) /\ d.command = c.command /\ d.rdrf = c.rdrf /\ d.rx_data = c.rx_data
             /\ d.overrun_count = c.overrun_count /\ d.irq_flag = c.irq_flag /\ d.tx_busy
             /\ IF c.tx_busy THEN d.tx_pending = b /\ d.tdre = c.tdre ELSE d.tx_pending = c.tx_pending /\ ~d.tdre
  BY DEF tx_submit, ChipShape, mc6551_reset

\* A byte time passes: the line is left alone, falls idle, or takes the byte that waited.
LEMMA TxTicked ==
  ASSUME AciaAssumption, NEW c, ChipShape(c), NEW cyc \in TICKS
  PROVE  LET d == TxDone(c, cyc)[1]
             b == TxDone(c, cyc)[2]
         IN  /\ ChipShape(d) /\ d.command = c.command /\ d.rdrf = c.rdrf /\ d.rx_data = c.rx_data
             /\ d.overrun_count = c.overrun_count /\ (c.irq_flag => d.irq_flag)
             /\ \/ b = 0 /\ d.tx_busy = c.tx_busy /\ d.tx_pending = c.tx_pending /\ d.tdre = c.tdre
                \/ b = 0 /\ c.tx_pending = 0 /\ ~d.tx_busy /\ d.tx_pending = 0 /\ d.tdre
                \/ b = c.tx_pending /\ b # 0 /\ d.tx_busy /\ d.tx_pending = 0 /\ ~d.tdre /\ c.tx_busy
<1> DEFINE left == Wrap(c.tx_countdown - cyc)
           done == set_irq([c EXCEPT !.tx_countdown = left, !.tx_busy = FALSE, !.tdre = TRUE], c.command.tx_irq_en)
           idle == [done EXCEPT !.tx_pending = 0]
           sent == tx_submit(idle, c.tx_pending)
<1>1. left \in Int
  <2>1. cyc \in Int /\ c.tx_countdown \in Int /\ 2 * INT_HALF \in Nat \ {0} /\ INT_HALF \in Int
    BY DEF AciaAssumption, ChipShape
  <2>2. \A x \in Int, m \in Nat \ {0} : x % m \in Int
    OBVIOUS
  <2>3. ((c.tx_countdown - cyc) + INT_HALF) % (2 * INT_HALF) \in Int
    BY <2>1, <2>2
  <2> QED
    BY <2>1, <2>3 DEF Wrap
<1> HIDE DEF left
<1>2. /\ ChipShape(done) /\ done.command = c.command /\ done.rdrf = c.rdrf /\ done.rx_data = c.rx_data
      /\ done.overrun_count = c.overrun_count /\ (c.irq_flag => done.irq_flag)
      /\ ~done.tx_busy /\ done.tdre /\ done.tx_pending = c.tx_pending
  BY <1>1 DEF set_irq, ChipShape, mc6551_reset
<1> HIDE DEF done
<1>3. /\ ChipShape(idle) /\ idle.command = done.command /\ idle.rdrf = done.rdrf /\ idle.rx_data = done.rx_data
      /\ idle.overrun_count = done.overrun_count /\ idle.irq_flag = done.irq_flag
      /\ ~idle.tx_busy /\ idle.tdre /\ idle.tx_pending = 0
  <2>1. /\ ChipShape(idle) /\ idle.command = done.command /\ idle.rdrf = done.rdrf /\ idle.rx_data = done.rx_data
        /\ idle.overrun_count = done.overrun_count /\ idle.irq_flag = done.irq_flag
        /\ idle.tx_busy = done.tx_busy /\ idle.tdre = done.tdre /\ idle.tx_pending = 0
    <3>1. ChipShape(done)
      BY <1>2
    <3>2. "tx_pending" \in DOMAIN done /\ DOMAIN idle = DOMAIN done
      BY <3>1 DEF ChipShape, mc6551_reset
    <3>3. /\ idle.command = done.command /\ idle.rdrf = done.rdrf /\ idle.rx_data = done.rx_data
          /\ idle.overrun_count = done.overrun_count /\ idle.irq_flag = done.irq_flag
          /\ idle.tx_busy = done.tx_busy /\ idle.tdre = done.tdre /\ idle.tx_pending = 0
          /\ idle.cycles_per_byte = done.cycles_per_byte /\ idle.tx_countdown = done.tx_countdown
          /\ idle.rx_countdown = done.rx_countdown
      BY <3>1, <3>2 DEF ChipShape, mc6551_reset
    <3> HIDE DEF idle
    <3>4. ChipShape(idle)
      BY <3>1, <3>2, <3>3 DEF ChipShape
    <3> QED
      BY <3>3, <3>4
  <2> HIDE DEF idle
  <2> QED
    BY <1>2, <2>1
<1> HIDE DEF idle
<1>4. /\ ChipShape(sent) /\ sent.command = idle.command /\ sent.rdrf = idle.rdrf /\ sent.rx_data = idle.rx_data
      /\ sent.overrun_count = idle.overrun_count /\ sent.irq_flag = idle.irq_flag
      /\ sent.tx_busy /\ ~sent.tdre /\ sent.tx_pending = 0
  <2>1. c.tx_pending \in Int
    BY DEF ChipShape
  <2> HIDE DEF sent
  <2>2. sent = tx_submit(idle, c.tx_pending)
    BY DEF sent
  <2>3. LET d == tx_submit(idle, c.tx_pending)
        IN  /\ ChipShape(d) /\ d.command = idle.command /\ d.rdrf = idle.rdrf /\ d.rx_data = idle.rx_data
            /\ d.overrun_count = idle.overrun_count /\ d.irq_flag = idle.irq_flag /\ d.tx_busy
            /\ IF idle.tx_busy THEN d.tx_pending = c.tx_pending /\ d.tdre = idle.tdre
               ELSE d.tx_pending = idle.tx_pending /\ ~d.tdre
    BY <1>3, <2>1, Submitted
  <2> QED
    BY <1>3, <2>2, <2>3
<1> HIDE DEF sent
<1>5. TxDone(c, cyc) = CASE ~c.tx_busy -> <<c, 0>>
                         [] c.tx_busy /\ left > 0 -> <<[c EXCEPT !.tx_countdown = left], 0>>
                         [] c.tx_busy /\ left <= 0 /\ c.tx_pending = 0 -> <<done, 0>>
                         [] OTHER -> <<sent, c.tx_pending>>
  BY DEF TxDone, left, done, idle, sent
<1>6. CASE ~c.tx_busy
  <2>1. TxDone(c, cyc) = <<c, 0>>
    BY <1>5, <1>6
  <2> QED
    BY <2>1
<1>7. CASE c.tx_busy /\ left > 0
  <2> DEFINE d == [c EXCEPT !.tx_countdown = left]
  <2>1. TxDone(c, cyc) = <<d, 0>>
    BY <1>1, <1>5, <1>7
  <2>2. /\ ChipShape(d) /\ d.command = c.command /\ d.rdrf = c.rdrf /\ d.rx_data = c.rx_data
        /\ d.overrun_count = c.overrun_count /\ d.irq_flag = c.irq_flag
        /\ d.tx_busy = c.tx_busy /\ d.tx_pending = c.tx_pending /\ d.tdre = c.tdre
    BY <1>1 DEF ChipShape, mc6551_reset
  <2> HIDE DEF d
  <2> QED
    BY <2>1, <2>2
<1>8. CASE c.tx_busy /\ ~(left > 0) /\ c.tx_pending = 0
  <2>1. TxDone(c, cyc) = <<done, 0>>
    BY <1>1, <1>5, <1>8
  <2>2. TxDone(c, cyc)[1] = done /\ TxDone(c, cyc)[2] = 0
    BY <2>1
  <2> QED
    BY <1>2, <1>8, <2>2
<1>9. CASE c.tx_busy /\ ~(left > 0) /\ c.tx_pending # 0
  <2>1. TxDone(c, cyc) = <<sent, c.tx_pending>>
    BY <1>1, <1>5, <1>9
  <2>2. TxDone(c, cyc)[1] = sent /\ TxDone(c, cyc)[2] = c.tx_pending
    BY <2>1
  <2> QED
    BY <1>2, <1>3, <1>4, <1>9, <2>2
<1> QED
  BY <1>6, <1>7, <1>8, <1>9

\* A byte comes off the ring.
LEMMA RxTaken ==
  ASSUME NEW c, ChipShape(c), NEW b \in Int
  PROVE  LET d == RxIntake(c, b)
         IN  /\ ChipShape(d) /\ d.command = c.command /\ d.rdrf
             /\ IF c.rdrf
                THEN /\ d.overrun_count = c.overrun_count + 1 /\ d.rx_data = c.rx_data /\ d.irq_flag = c.irq_flag
                     /\ d.tx_busy = c.tx_busy /\ d.tx_pending = c.tx_pending /\ d.tdre = c.tdre
                ELSE /\ d.overrun_count = c.overrun_count /\ d.rx_data = b
                     /\ (c.command.rx_irq_en => d.irq_flag)
                     /\ \/ d.tx_busy = c.tx_busy /\ d.tx_pending = c.tx_pending /\ d.tdre = c.tdre
                        \/ c.command.echo_en /\ d.tx_busy /\ d.tx_pending \in {b, c.tx_pending}
<1>1. CASE c.rdrf
  <2> DEFINE d == [c EXCEPT !.overrun = TRUE, !.overrun_count = @ + 1, !.rx_countdown = c.cycles_per_byte]
  <2>1. /\ ChipShape(d) /\ d.command = c.command /\ d.rdrf = c.rdrf
        /\ d.overrun_count = c.overrun_count + 1 /\ d.rx_data = c.rx_data /\ d.irq_flag = c.irq_flag
        /\ d.tx_busy = c.tx_busy /\ d.tx_pending = c.tx_pending /\ d.tdre = c.tdre
    <3>1. DOMAIN d = DOMAIN c
      OBVIOUS
    <3>2. /\ d.command = c.command /\ d.rdrf = c.rdrf /\ d.rx_data = c.rx_data /\ d.irq_flag = c.irq_flag
          /\ d.tx_busy = c.tx_busy /\ d.tx_pending = c.tx_pending /\ d.tdre = c.tdre
          /\ d.overrun_count = c.overrun_count + 1
          /\ d.cycles_per_byte = c.cycles_per_byte /\ d.tx_countdown = c.tx_countdown
          /\ d.rx_countdown = c.cycles_per_byte
      BY DEF ChipShape, mc6551_reset
    <3> HIDE DEF d
    <3>3. ChipShape(d)
      BY <3>1, <3>2 DEF ChipShape
    <3> QED
      BY <3>2, <3>3
  <2>2. RxIntake(c, b) = d
    BY <1>1 DEF RxIntake
  <2> HIDE DEF d
  <2> QED
    BY <1>1, <2>1, <2>2
<1>2. CASE ~c.rdrf
  <2> DEFINE got == set_irq([c EXCEPT !.rx_data = b, !.rdrf = TRUE, !.rx_countdown = c.cycles_per_byte],
                            c.command.rx_irq_en)
             sent == tx_submit(got, b)
  <2>1. /\ ChipShape(got) /\ got.command = c.command /\ got.rdrf /\ got.rx_data = b
        /\ got.overrun_count = c.overrun_count /\ (c.command.rx_irq_en => got.irq_flag)
        /\ got.tx_busy = c.tx_busy /\ got.tx_pending = c.tx_pending /\ got.tdre = c.tdre
    BY DEF set_irq, ChipShape, mc6551_reset
  <2>2. RxIntake(c, b) = IF c.command.echo_en THEN sent ELSE got
    BY <1>2 DEF RxIntake
  <2> HIDE DEF got
  <2>3. /\ ChipShape(sent) /\ sent.command = got.command /\ sent.rdrf = got.rdrf /\ sent.rx_data = got.rx_data
        /\ sent.overrun_count = got.overrun_count /\ sent.irq_flag = got.irq_flag /\ sent.tx_busy
        /\ sent.tx_pending \in {b, got.tx_pending}
    <3>1. LET d == tx_submit(got, b)
          IN  /\ ChipShape(d) /\ d.command = got.command /\ d.rdrf = got.rdrf /\ d.rx_data = got.rx_data
              /\ d.overrun_count = got.overrun_count /\ d.irq_flag = got.irq_flag /\ d.tx_busy
              /\ IF got.tx_busy THEN d.tx_pending = b /\ d.tdre = got.tdre ELSE d.tx_pending = got.tx_pending /\ ~d.tdre
      <4>1. ChipShape(got)
        BY <2>1
      <4> QED
        BY <4>1, Submitted
    <3> QED
      BY <3>1
  <2> HIDE DEF sent
  <2>4. CASE c.command.echo_en
    BY <1>2, <2>1, <2>2, <2>3, <2>4
  <2>5. CASE ~c.command.echo_en
    BY <1>2, <2>1, <2>2, <2>5
  <2> QED
    BY <2>4, <2>5
<1> QED
  BY <1>1, <1>2

-----------------------------------------------------------------------------
(* The steps.                                                               *)

\* The host's bytes that are read or on their way.
Total(a, b, c, d) == Len(a) + Len(b) + Len(c) + Len(d)
\* The register and the ring are sequences.
LEMMA AciaParts ==
  ASSUME AciaAssumption, AciaIInv
  PROVE  /\ ChipShape(chip) /\ SerialShape(serial) /\ ProgShape(prog) /\ rs232 \in BOOLEAN /\ wire \in Seq(Int)
         /\ TxKnown /\ RxKnown /\ NoLostWakeup
         /\ Register \in Seq(Int) /\ Ring(serial) \in Seq(Int) /\ serial.uart \in Seq(Int)
         /\ prog.taken \in Seq(Int) /\ prog.sent \in Nat
         /\ InLine(prog.taken, Register, Ring(serial), serial.uart, prog.sent)
         /\ prog.sent = Total(prog.taken, Register, Ring(serial), serial.uart) + prog.gone + chip.overrun_count
<1>1. ChipShape(chip) /\ SerialShape(serial) /\ ProgShape(prog) /\ RxKnown
  BY DEF AciaIInv, AciaShape
<1>2. Register \in Seq(Int)
  BY <1>1 DEF Register, ChipShape
<1>3. Ring(serial) \in Seq(Int)
  BY <1>1, RingIs DEF SerialShape
<1>4. serial.uart \in Seq(Int) /\ prog.taken \in Seq(Int) /\ prog.sent \in Nat
  BY <1>1 DEF SerialShape, ProgShape
<1>5. InLine(prog.taken, Register, Ring(serial), serial.uart, prog.sent)
  BY <1>1 DEF RxKnown
<1>6. prog.sent = Total(prog.taken, Register, Ring(serial), serial.uart) + prog.gone + chip.overrun_count
  BY <1>1 DEF RxKnown, Total
<1> QED
  BY <1>1, <1>2, <1>3, <1>4, <1>5, <1>6 DEF AciaIInv, AciaShape

\* The same, as numbers.
LEMMA AciaCount ==
  ASSUME AciaAssumption, AciaIInv
  PROVE  /\ Len(prog.taken) \in Int /\ Len(Register) \in Int /\ Len(Ring(serial)) \in Int /\ Len(serial.uart) \in Int
         /\ Total(prog.taken, Register, Ring(serial), serial.uart) \in Int
         /\ prog.sent \in Int /\ prog.gone \in Nat /\ chip.overrun_count \in Nat
         /\ prog.sent = (Total(prog.taken, Register, Ring(serial), serial.uart) + prog.gone) + chip.overrun_count
<1>1. Len(prog.taken) \in Int /\ Len(Register) \in Int /\ Len(Ring(serial)) \in Int /\ Len(serial.uart) \in Int
  BY AciaParts
<1>2. Total(prog.taken, Register, Ring(serial), serial.uart) \in Int
  BY <1>1 DEF Total
<1>3. prog.sent \in Int /\ prog.gone \in Nat /\ chip.overrun_count \in Nat
  BY AciaParts DEF ProgShape, ChipShape
<1> QED
  BY <1>1, <1>2, <1>3, AciaParts

\* What a step owes.
LEMMA AciaWhole ==
  ASSUME ChipShape(chip)', SerialShape(serial)', ProgShape(prog)', rs232' \in BOOLEAN, wire' \in Seq(Int),
         TxKnown', NoLostWakeup',
         InLine(prog'.taken, Register', Ring(serial)', serial'.uart, prog'.sent),
         prog'.sent = Total(prog'.taken, Register', Ring(serial)', serial'.uart) + prog'.gone + chip'.overrun_count
  PROVE  AciaIInv'
  BY DEF AciaIInv, AciaShape, RxKnown, Total

\* The sender is left alone.
LEMMA TxSame ==
  ASSUME TxKnown, wire' = wire, chip'.tx_busy = chip.tx_busy, chip'.tdre = chip.tdre,
         chip'.tx_pending = chip.tx_pending, chip'.command.echo_en = chip.command.echo_en,
         prog'.written = prog.written, prog'.torn = prog.torn, prog'.empty = prog.empty
  PROVE  TxKnown'
  BY DEF TxKnown, OnWire, Untorn

\* A byte of the host reaches UART0.
LEMMA HostSendsKeeps ==
  ASSUME AciaAssumption, AciaIInv, HostSends
  PROVE  AciaIInv'
<1>1. /\ chip' = chip /\ rs232' = rs232 /\ wire' = wire
      /\ serial' = [serial EXCEPT !.uart = Append(@, prog.sent + 1)] /\ prog' = [prog EXCEPT !.sent = @ + 1]
  BY DEF HostSends
<1>2. /\ ProgShape(prog)' /\ prog'.sent = prog.sent + 1 /\ prog'.taken = prog.taken /\ prog'.written = prog.written
      /\ prog'.torn = prog.torn /\ prog'.empty = prog.empty /\ prog'.told = prog.told /\ prog'.gone = prog.gone
  BY <1>1, AciaParts DEF ProgShape
<1>3. /\ DOMAIN serial' = DOMAIN serial /\ serial'.ring = serial.ring /\ serial'.head = serial.head
      /\ serial'.tail = serial.tail /\ serial'.uart = Append(serial.uart, prog.sent + 1)
  BY <1>1, AciaParts DEF SerialShape
<1>4. SerialShape(serial)'
  BY <1>3, AciaParts DEF SerialShape
<1>5. Register' = Register /\ Ring(serial)' = Ring(serial)
  BY <1>1, <1>3 DEF Register, Ring, ring_count
<1>6. InLine(prog'.taken, Register', Ring(serial)', serial'.uart, prog'.sent)
  BY <1>2, <1>3, <1>5, AciaParts, LineLonger
<1>7. Total(prog'.taken, Register', Ring(serial)', serial'.uart) =
      Total(prog.taken, Register, Ring(serial), serial.uart) + 1
  <2>1. Len(serial'.uart) = Len(serial.uart) + 1
    BY <1>3, AciaParts
  <2> QED
    <3> DEFINE a == Len(prog.taken)
               b == Len(Register)
               c == Len(Ring(serial))
               d == Len(serial.uart)
    <3>1. Total(prog'.taken, Register', Ring(serial)', serial'.uart) = a + b + c + (d + 1)
      BY <1>2, <1>5, <2>1, Zenon DEF Total
    <3>2. Total(prog.taken, Register, Ring(serial), serial.uart) = a + b + c + d
      BY Zenon DEF Total
    <3>3. a \in Int /\ b \in Int /\ c \in Int /\ d \in Int
      BY AciaCount
    <3> HIDE DEF a, b, c, d
    <3> QED
      BY <3>1, <3>2, <3>3
<1>8. prog'.sent = Total(prog'.taken, Register', Ring(serial)', serial'.uart) + prog'.gone + chip'.overrun_count
  <2> DEFINE before == Total(prog.taken, Register, Ring(serial), serial.uart)
             after == Total(prog'.taken, Register', Ring(serial)', serial'.uart)
  <2>1. /\ prog'.sent = prog.sent + 1 /\ prog'.gone = prog.gone /\ chip'.overrun_count = chip.overrun_count
        /\ after = before + 1
    BY <1>1, <1>2, <1>7, Zenon
  <2>2. /\ before \in Int /\ prog.sent \in Int /\ prog.gone \in Nat /\ chip.overrun_count \in Nat
        /\ prog.sent = (before + prog.gone) + chip.overrun_count
    BY AciaCount
  <2> HIDE DEF before, after
  <2>3. prog'.sent = after + prog'.gone + chip'.overrun_count
    BY <2>1, <2>2
  <2> QED BY <2>3, Zenon DEF after
<1>9. TxKnown'
  BY <1>1, <1>2, AciaParts, TxSame
<1>10. ChipShape(chip)' /\ rs232' \in BOOLEAN /\ wire' \in Seq(Int) /\ NoLostWakeup'
  BY <1>1, <1>2, AciaParts DEF NoLostWakeup
<1> QED
  BY <1>2, <1>4, <1>6, <1>8, <1>9, <1>10, AciaWhole

\* What is in UART0 goes to the ring.
LEMMA PollKeeps ==
  ASSUME AciaAssumption, AciaIInv, Poll
  PROVE  AciaIInv'
<1>1. /\ chip' = chip /\ rs232' = rs232 /\ wire' = wire /\ prog' = prog /\ serial' = hal_rs232_poll(serial)
  BY DEF Poll
<1> DEFINE k == Len(Ring(serial)') - Len(Ring(serial))
<1>2. SerialShape(serial)' /\ Ring(serial)' \in Seq(Int) /\ Ring(serial) \in Seq(Int)
  BY <1>1, AciaParts, RingFilled
<1>3. /\ k \in 0 .. Len(serial.uart) /\ serial'.uart = SubSeq(serial.uart, k + 1, Len(serial.uart))
      /\ \A i \in 1 .. Len(Ring(serial)) : Ring(serial)'[i] = Ring(serial)[i]
      /\ \A i \in 1 .. k : Ring(serial)'[Len(Ring(serial)) + i] = serial.uart[i]
  BY <1>1, AciaParts, RingFilled
<1>4. Len(Ring(serial)') = Len(Ring(serial)) + k
  BY <1>2
<1>5. Register' = Register
  BY <1>1 DEF Register
<1> HIDE DEF k
<1>6. InLine(prog'.taken, Register', Ring(serial)', serial'.uart, prog'.sent)
  <2>1. InLine(prog.taken, Register, Ring(serial)', SubSeq(serial.uart, k + 1, Len(serial.uart)), prog.sent)
    <3> DEFINE C == Ring(serial)
               D == serial.uart
               E == Ring(serial)'
    <3>1. /\ C \in Seq(Int) /\ D \in Seq(Int) /\ E \in Seq(Int) /\ prog.taken \in Seq(Int) /\ Register \in Seq(Int)
          /\ prog.sent \in Nat /\ InLine(prog.taken, Register, C, D, prog.sent)
      BY <1>2, AciaParts
    <3>2. /\ k \in 0 .. Len(D) /\ Len(E) = Len(C) + k
          /\ \A i \in 1 .. Len(C) : E[i] = C[i]
          /\ \A i \in 1 .. k : E[Len(C) + i] = D[i]
      BY <1>3, <1>4
    <3> HIDE DEF C, D, E
    <3>3. InLine(prog.taken, Register, E, SubSeq(D, k + 1, Len(D)), prog.sent)
      BY <3>1, <3>2, LineMoved
    <3> QED
      BY <3>3 DEF D, E
  <2> QED
    BY <1>1, <1>3, <1>5, <2>1
<1>7. Total(prog'.taken, Register', Ring(serial)', serial'.uart) =
      Total(prog.taken, Register, Ring(serial), serial.uart)
  <2>1. Len(serial'.uart) = Len(serial.uart) - k
    BY <1>3, AciaParts
  <2>2. k \in Int
    BY <1>3, AciaCount
  <2> QED
    <3> DEFINE a == Len(prog.taken)
               b == Len(Register)
               c == Len(Ring(serial))
               d == Len(serial.uart)
    <3>1. Total(prog'.taken, Register', Ring(serial)', serial'.uart) = a + b + (c + k) + (d - k)
      BY <1>1, <1>4, <1>5, <2>1, Zenon DEF Total
    <3>2. Total(prog.taken, Register, Ring(serial), serial.uart) = a + b + c + d
      BY Zenon DEF Total
    <3>3. a \in Int /\ b \in Int /\ c \in Int /\ d \in Int
      BY AciaCount
    <3> HIDE DEF a, b, c, d
    <3> QED
      BY <2>2, <3>1, <3>2, <3>3
<1>8. prog'.sent = Total(prog'.taken, Register', Ring(serial)', serial'.uart) + prog'.gone + chip'.overrun_count
  BY <1>1, <1>7, AciaParts
<1>9. TxKnown'
  BY <1>1, AciaParts, TxSame
<1>10. ChipShape(chip)' /\ ProgShape(prog)' /\ rs232' \in BOOLEAN /\ wire' \in Seq(Int) /\ NoLostWakeup'
  BY <1>1, AciaParts DEF NoLostWakeup
<1> QED
  BY <1>2, <1>6, <1>8, <1>9, <1>10, AciaWhole

\* The register is read.
LEMMA ReadDataKeeps ==
  ASSUME AciaAssumption, AciaIInv, ReadData
  PROVE  AciaIInv'
<1>1. /\ serial' = serial /\ rs232' = rs232 /\ wire' = wire
      /\ chip' = [chip EXCEPT !.rdrf = FALSE, !.overrun = FALSE]
      /\ prog' = [prog EXCEPT !.taken = IF chip.rdrf THEN Append(@, chip.rx_data) ELSE @]
  BY DEF ReadData
<1>2. /\ ChipShape(chip)' /\ ~chip'.rdrf /\ chip'.tx_busy = chip.tx_busy /\ chip'.tdre = chip.tdre
      /\ chip'.tx_pending = chip.tx_pending /\ chip'.command = chip.command
      /\ chip'.overrun_count = chip.overrun_count
  BY <1>1, AciaParts DEF ChipShape, mc6551_reset
<1>3. /\ ProgShape(prog)' /\ prog'.sent = prog.sent /\ prog'.written = prog.written
      /\ prog'.taken = (IF chip.rdrf THEN Append(prog.taken, chip.rx_data) ELSE prog.taken)
      /\ prog'.torn = prog.torn /\ prog'.empty = prog.empty /\ prog'.told = prog.told /\ prog'.gone = prog.gone
  BY <1>1, AciaParts DEF ProgShape, ChipShape
<1>4. Register' = <<>> /\ Ring(serial)' = Ring(serial)
  BY <1>1, <1>2 DEF Register
<1>5. /\ InLine(prog'.taken, <<>>, Ring(serial), serial.uart, prog.sent)
      /\ Total(prog'.taken, <<>>, Ring(serial), serial.uart) = Total(prog.taken, Register, Ring(serial), serial.uart)
  <2>1. CASE chip.rdrf
    <3>1. Register = <<chip.rx_data>> /\ prog'.taken = Append(prog.taken, chip.rx_data) /\ chip.rx_data \in Int
      BY <1>3, <2>1, AciaParts DEF Register, ChipShape
    <3>2. InLine(prog'.taken, <<>>, Ring(serial), serial.uart, prog.sent)
      BY <3>1, AciaParts, LineRead
    <3>3. Len(Register) = 1 /\ Len(prog'.taken) = Len(prog.taken) + 1
      BY <3>1, AciaParts
    <3> QED
      BY <3>2, <3>3, AciaParts DEF Total
  <2>2. CASE ~chip.rdrf
    <3>1. Register = <<>> /\ prog'.taken = prog.taken
      BY <1>3, <2>2 DEF Register
    <3> QED
      BY <3>1, AciaParts
  <2> QED
    BY <2>1, <2>2
<1>6. prog'.sent = Total(prog'.taken, Register', Ring(serial)', serial'.uart) + prog'.gone + chip'.overrun_count
  BY <1>1, <1>2, <1>3, <1>4, <1>5, AciaParts
<1>7. InLine(prog'.taken, Register', Ring(serial)', serial'.uart, prog'.sent)
  BY <1>1, <1>3, <1>4, <1>5
<1>8. TxKnown'
  BY <1>1, <1>2, <1>3, AciaParts, TxSame
<1>9. SerialShape(serial)' /\ rs232' \in BOOLEAN /\ wire' \in Seq(Int) /\ NoLostWakeup'
  BY <1>1, <1>2, AciaParts DEF NoLostWakeup
<1> QED
  BY <1>2, <1>3, <1>6, <1>7, <1>8, <1>9, AciaWhole

\* The status is read.
LEMMA ReadStatusKeeps ==
  ASSUME AciaAssumption, AciaIInv, ReadStatus
  PROVE  AciaIInv'
<1>1. /\ serial' = serial /\ rs232' = rs232 /\ wire' = wire /\ chip' = [chip EXCEPT !.irq_flag = FALSE]
      /\ prog' = [prog EXCEPT !.empty = chip.tdre, !.told = @ \/ chip.rdrf]
  BY DEF ReadStatus
<1>2. /\ ChipShape(chip)' /\ chip'.rdrf = chip.rdrf /\ chip'.rx_data = chip.rx_data /\ chip'.tx_busy = chip.tx_busy
      /\ chip'.tdre = chip.tdre /\ chip'.tx_pending = chip.tx_pending /\ chip'.command = chip.command
      /\ chip'.overrun_count = chip.overrun_count
  BY <1>1, AciaParts DEF ChipShape, mc6551_reset
<1>3. /\ ProgShape(prog)' /\ prog'.sent = prog.sent /\ prog'.written = prog.written /\ prog'.taken = prog.taken
      /\ prog'.torn = prog.torn /\ prog'.empty = chip.tdre /\ prog'.told = (prog.told \/ chip.rdrf)
      /\ prog'.gone = prog.gone
  BY <1>1, AciaParts DEF ProgShape, ChipShape
<1>4. Register' = Register /\ Ring(serial)' = Ring(serial)
  BY <1>1, <1>2 DEF Register
<1>5. prog'.sent = Total(prog'.taken, Register', Ring(serial)', serial'.uart) + prog'.gone + chip'.overrun_count
  BY <1>1, <1>2, <1>3, <1>4, AciaParts
<1>6. InLine(prog'.taken, Register', Ring(serial)', serial'.uart, prog'.sent)
  BY <1>1, <1>3, <1>4, AciaParts
<1>7. TxKnown'
  BY <1>1, <1>2, <1>3, AciaParts DEF TxKnown, OnWire, Untorn
<1>8. SerialShape(serial)' /\ rs232' \in BOOLEAN /\ wire' \in Seq(Int) /\ NoLostWakeup'
  BY <1>1, <1>2, <1>3, AciaParts DEF NoLostWakeup
<1> QED
  BY <1>2, <1>3, <1>5, <1>6, <1>7, <1>8, AciaWhole

\* The program writes: after TDRE, so until something is torn the line is free.
LEMMA WriteDataKeeps ==
  ASSUME AciaAssumption, AciaIInv, WriteData
  PROVE  AciaIInv'
<1> DEFINE n == Len(prog.written)
           b == -(n + 1)
<1>1. /\ serial' = serial /\ rs232' = rs232 /\ prog.empty
      /\ chip' = tx_submit(chip, b) /\ wire' = wire \o Own(Sends(chip, b))
      /\ prog' = [prog EXCEPT !.written = Append(@, b), !.empty = FALSE]
  BY DEF WriteData
<1>2. n \in Nat /\ b \in Int /\ b < 0
  BY AciaParts DEF ProgShape
<1>3. /\ ChipShape(chip)' /\ chip'.command = chip.command /\ chip'.rdrf = chip.rdrf /\ chip'.rx_data = chip.rx_data
      /\ chip'.overrun_count = chip.overrun_count /\ chip'.irq_flag = chip.irq_flag /\ chip'.tx_busy
      /\ IF chip.tx_busy THEN chip'.tx_pending = b /\ chip'.tdre = chip.tdre
         ELSE chip'.tx_pending = chip.tx_pending /\ ~chip'.tdre
  <2>1. ChipShape(chip)
    BY AciaParts
  <2> DEFINE d == tx_submit(chip, b)
  <2>2. /\ ChipShape(d) /\ d.command = chip.command /\ d.rdrf = chip.rdrf /\ d.rx_data = chip.rx_data
        /\ d.overrun_count = chip.overrun_count /\ d.irq_flag = chip.irq_flag /\ d.tx_busy
        /\ IF chip.tx_busy THEN d.tx_pending = b /\ d.tdre = chip.tdre
           ELSE d.tx_pending = chip.tx_pending /\ ~d.tdre
    <3> HIDE DEF b
    <3> QED
      BY <1>2, <2>1, Submitted
  <2>3. chip' = d
    BY <1>1
  <2> HIDE DEF d
  <2> QED
    BY <2>2, <2>3
<1>4. /\ ProgShape(prog)' /\ prog'.sent = prog.sent /\ prog'.taken = prog.taken /\ prog'.torn = prog.torn
      /\ ~prog'.empty /\ prog'.told = prog.told /\ prog'.gone = prog.gone
      /\ prog'.written = Append(prog.written, b) /\ Len(prog'.written) = n + 1
  BY <1>1, <1>2, AciaParts DEF ProgShape
<1>5. Register' = Register /\ Ring(serial)' = Ring(serial)
  BY <1>1, <1>3 DEF Register
<1>6. prog'.sent = Total(prog'.taken, Register', Ring(serial)', serial'.uart) + prog'.gone + chip'.overrun_count
  BY <1>1, <1>3, <1>4, <1>5, AciaParts
<1>7. InLine(prog'.taken, Register', Ring(serial)', serial'.uart, prog'.sent)
  BY <1>1, <1>4, <1>5, AciaParts
<1>8. wire' \in Seq(Int) /\ TxKnown'
  <2>1. OnWire(wire, chip.tx_pending, n) /\ (chip.tx_pending # 0 => chip.tx_busy) /\ Untorn(chip, prog)
    BY AciaParts DEF TxKnown
  <2>2. OnWire(wire, b, n + 1)
    BY <1>2, <2>1, AciaParts, WireNext DEF ChipShape
  <2> HIDE DEF b, n
  <2>3. CASE chip.tx_busy
    <3>1. wire' = wire
      BY <1>1, <2>3, AciaParts DEF Sends, Own
    <3>2. OnWire(wire', chip'.tx_pending, Len(prog'.written))
      BY <1>3, <1>4, <2>2, <2>3, <3>1
    <3>3. prog.torn
      BY <1>1, <2>1, <2>3 DEF Untorn
    <3> QED
      BY <1>3, <1>4, <3>1, <3>2, <3>3, AciaParts DEF TxKnown, Untorn
  <2>4. CASE ~chip.tx_busy
    <3>1. wire' = wire \o Own(b) /\ chip'.tx_pending = 0
      BY <1>1, <1>3, <2>1, <2>4 DEF Sends
    <3>2. wire' \in Seq(Int) /\ OnWire(wire', 0, n + 1)
      BY <1>2, <2>2, <3>1, AciaParts, WireSends
    <3>3. wire' = Append(wire, b)
      BY <1>2, <3>1, AciaParts DEF Own
    <3>4. OnWire(wire', chip'.tx_pending, Len(prog'.written))
      BY <1>4, <3>1, <3>2
    <3>5. Untorn(chip, prog)'
      <4> SUFFICES ASSUME ~prog.torn
                   PROVE  wire' = prog'.written /\ chip'.tx_pending = 0 /\ ~chip'.command.echo_en
                          /\ chip'.tdre = ~chip'.tx_busy /\ (prog'.empty => chip'.tdre)
        BY <1>4 DEF Untorn
      <4>1. wire = prog.written /\ ~chip.command.echo_en
        BY <2>1 DEF Untorn
      <4>2. wire' = prog'.written
        BY <1>4, <3>3, <4>1
      <4>3. ~chip'.tdre /\ chip'.tx_busy /\ ~prog'.empty
        BY <1>3, <1>4, <2>4
      <4>4. chip'.tdre = FALSE /\ chip'.tx_busy = TRUE
        BY <1>3, <4>3 DEF ChipShape
      <4> QED
        BY <1>3, <3>1, <4>1, <4>2, <4>3, <4>4
    <3> QED
      BY <3>1, <3>2, <3>4, <3>5 DEF TxKnown
  <2> QED
    BY <2>3, <2>4
<1>9. SerialShape(serial)' /\ rs232' \in BOOLEAN /\ NoLostWakeup'
  BY <1>1, <1>3, <1>4, AciaParts DEF NoLostWakeup
<1> QED
  BY <1>3, <1>4, <1>6, <1>7, <1>8, <1>9, AciaWhole

\* Without the register there is one byte less, if there was one.
LEMMA RegisterDropped ==
  ASSUME AciaAssumption, AciaIInv
  PROVE  Total(prog.taken, <<>>, Ring(serial), serial.uart)
           = Total(prog.taken, Register, Ring(serial), serial.uart) - (IF chip.rdrf THEN 1 ELSE 0)
<1> DEFINE a == Len(prog.taken)
           b == Len(Register)
           c == Len(Ring(serial))
           d == Len(serial.uart)
<1>1. Total(prog.taken, Register, Ring(serial), serial.uart) = a + b + c + d
  BY Zenon DEF Total
<1>2. Total(prog.taken, <<>>, Ring(serial), serial.uart) = a + 0 + c + d
  BY DEF Total
<1>3. b = IF chip.rdrf THEN 1 ELSE 0
  BY DEF Register
<1>4. a \in Int /\ c \in Int /\ d \in Int
  BY AciaCount
<1> HIDE DEF a, b, c, d
<1> QED
  BY <1>1, <1>2, <1>3, <1>4

\* A programmed reset, which drops what was not read and reports the line free.
LEMMA ProgrammedResetKeeps ==
  ASSUME AciaAssumption, AciaIInv, ProgrammedReset
  PROVE  AciaIInv'
<1> DEFINE one == IF chip.rdrf THEN 1 ELSE 0
<1>1. /\ serial' = serial /\ rs232' = rs232 /\ wire' = wire
      /\ chip' = [chip EXCEPT !.overrun = FALSE, !.rdrf = FALSE, !.tdre = TRUE, !.irq_flag = FALSE,
                              !.command = Command(FALSE, FALSE, FALSE)]
      /\ prog' = [prog EXCEPT !.torn = @ \/ chip.tx_busy, !.gone = Discard(one)]
  BY DEF ProgrammedReset
<1>2. /\ ChipShape(chip)' /\ ~chip'.rdrf /\ chip'.tx_busy = chip.tx_busy
      /\ chip'.tdre /\ chip'.tx_pending = chip.tx_pending /\ ~chip'.command.echo_en
      /\ chip'.overrun_count = chip.overrun_count
  BY <1>1, AciaParts DEF ChipShape, mc6551_reset, Command
<1>3. /\ ProgShape(prog)' /\ prog'.sent = prog.sent /\ prog'.written = prog.written /\ prog'.taken = prog.taken
      /\ prog'.torn = (prog.torn \/ chip.tx_busy) /\ prog'.empty = prog.empty /\ prog'.told = prog.told
      /\ prog'.gone = prog.gone + one
  BY <1>1, AciaParts DEF ProgShape, ChipShape, Discard
<1>4. Register' = <<>> /\ Ring(serial)' = Ring(serial)
  BY <1>1, <1>2 DEF Register
<1>5. prog'.sent = Total(prog'.taken, Register', Ring(serial)', serial'.uart) + prog'.gone + chip'.overrun_count
  BY <1>1, <1>2, <1>3, <1>4, AciaCount, RegisterDropped
<1>6. InLine(prog'.taken, Register', Ring(serial)', serial'.uart, prog'.sent)
  BY <1>1, <1>3, <1>4, AciaParts, LineDiscard
<1>7. TxKnown'
  BY <1>1, <1>2, <1>3, AciaParts DEF TxKnown, OnWire, Untorn, ProgShape, ChipShape
<1>8. SerialShape(serial)' /\ rs232' \in BOOLEAN /\ wire' \in Seq(Int) /\ NoLostWakeup'
  BY <1>1, <1>2, <1>3, AciaParts DEF NoLostWakeup
<1> QED
  BY <1>2, <1>3, <1>5, <1>6, <1>7, <1>8, AciaWhole

\* The command register is written.
LEMMA WriteCommandKeeps ==
  ASSUME AciaAssumption, AciaIInv, WriteCommand
  PROVE  AciaIInv'
<1> PICK rx_off \in BOOLEAN, tx_on \in BOOLEAN, echo \in BOOLEAN :
           chip' = [chip EXCEPT !.command = Command(rx_off, tx_on, echo)]
  BY DEF WriteCommand
<1>1. /\ serial' = serial /\ rs232' = rs232 /\ wire' = wire
      /\ prog' = [prog EXCEPT !.told = @ \/ ~chip.command.rx_irq_en, !.torn = @ \/ chip'.command.echo_en]
  BY DEF WriteCommand
<1>2. /\ ChipShape(chip)' /\ chip'.rdrf = chip.rdrf /\ chip'.rx_data = chip.rx_data /\ chip'.tx_busy = chip.tx_busy
      /\ chip'.tdre = chip.tdre /\ chip'.tx_pending = chip.tx_pending /\ chip'.irq_flag = chip.irq_flag
      /\ chip'.overrun_count = chip.overrun_count
  BY AciaParts DEF ChipShape, mc6551_reset, Command
<1>3. /\ ProgShape(prog)' /\ prog'.sent = prog.sent /\ prog'.written = prog.written /\ prog'.taken = prog.taken
      /\ prog'.torn = (prog.torn \/ chip'.command.echo_en) /\ prog'.empty = prog.empty
      /\ prog'.told = (prog.told \/ ~chip.command.rx_irq_en) /\ prog'.gone = prog.gone
  BY <1>1, <1>2, AciaParts DEF ProgShape, ChipShape
<1>4. Register' = Register /\ Ring(serial)' = Ring(serial)
  BY <1>1, <1>2 DEF Register
<1>5. prog'.sent = Total(prog'.taken, Register', Ring(serial)', serial'.uart) + prog'.gone + chip'.overrun_count
  BY <1>1, <1>2, <1>3, <1>4, AciaParts
<1>6. InLine(prog'.taken, Register', Ring(serial)', serial'.uart, prog'.sent)
  BY <1>1, <1>3, <1>4, AciaParts
<1>7. TxKnown'
  BY <1>1, <1>2, <1>3, AciaParts DEF TxKnown, OnWire, Untorn
<1>8. SerialShape(serial)' /\ rs232' \in BOOLEAN /\ wire' \in Seq(Int) /\ NoLostWakeup'
  BY <1>1, <1>2, <1>3, AciaParts DEF NoLostWakeup
<1> QED
  BY <1>2, <1>3, <1>5, <1>6, <1>7, <1>8, AciaWhole

\* The control register is written.
LEMMA WriteControlKeeps ==
  ASSUME AciaAssumption, AciaIInv, WriteControl
  PROVE  AciaIInv'
<1> PICK t \in BYTE_TIMES : chip' = [chip EXCEPT !.cycles_per_byte = t]
  BY DEF WriteControl
<1>1. serial' = serial /\ rs232' = rs232 /\ wire' = wire /\ prog' = prog /\ t \in Int
  BY DEF WriteControl, AciaAssumption
<1>2. /\ ChipShape(chip)' /\ chip'.rdrf = chip.rdrf /\ chip'.rx_data = chip.rx_data /\ chip'.tx_busy = chip.tx_busy
      /\ chip'.tdre = chip.tdre /\ chip'.tx_pending = chip.tx_pending /\ chip'.irq_flag = chip.irq_flag
      /\ chip'.overrun_count = chip.overrun_count /\ chip'.command = chip.command
  BY <1>1, AciaParts DEF ChipShape, mc6551_reset
<1>3. Register' = Register /\ Ring(serial)' = Ring(serial)
  BY <1>1, <1>2 DEF Register
<1>4. prog'.sent = Total(prog'.taken, Register', Ring(serial)', serial'.uart) + prog'.gone + chip'.overrun_count
  BY <1>1, <1>2, <1>3, AciaParts
<1>5. InLine(prog'.taken, Register', Ring(serial)', serial'.uart, prog'.sent)
  BY <1>1, <1>3, AciaParts
<1>6. TxKnown'
  BY <1>1, <1>2, AciaParts, TxSame
<1>7. SerialShape(serial)' /\ ProgShape(prog)' /\ rs232' \in BOOLEAN /\ wire' \in Seq(Int) /\ NoLostWakeup'
  BY <1>1, <1>2, AciaParts DEF NoLostWakeup
<1> QED
  BY <1>2, <1>4, <1>5, <1>6, <1>7, AciaWhole

\* The chip after a reset.
LEMMA ResetShape ==
  LET c == mc6551_reset
  IN  /\ ChipShape(c) /\ ~c.rdrf /\ ~c.tx_busy /\ c.tdre /\ c.tx_pending = 0
      /\ ~c.command.echo_en /\ c.overrun_count = 0
<1> DEFINE c == mc6551_reset
<1>1. /\ c.rdrf = FALSE /\ c.tx_busy = FALSE /\ c.tdre = TRUE /\ c.tx_pending = 0
      /\ c.command = Command(FALSE, FALSE, FALSE) /\ c.overrun_count = 0 /\ c.irq_flag = FALSE
      /\ c.rx_data = 0 /\ c.cycles_per_byte = 1 /\ c.tx_countdown = 1 /\ c.rx_countdown = 1
  BY DEF mc6551_reset
<1>2. c.command.rx_irq_en = TRUE /\ c.command.tx_irq_en = FALSE /\ c.command.echo_en = FALSE
  <2>1. (~FALSE) = TRUE
    OBVIOUS
  <2>2. Command(FALSE, FALSE, FALSE) = [rx_irq_en |-> TRUE, tx_irq_en |-> FALSE, echo_en |-> FALSE]
    BY <2>1, Zenon DEF Command
  <2> HIDE DEF c
  <2>3. c.command = [rx_irq_en |-> TRUE, tx_irq_en |-> FALSE, echo_en |-> FALSE]
    BY <1>1, <2>2
  <2> DEFINE d == c.command
  <2>4. d.rx_irq_en = TRUE /\ d.tx_irq_en = FALSE /\ d.echo_en = FALSE
    <3>1. d = [rx_irq_en |-> TRUE, tx_irq_en |-> FALSE, echo_en |-> FALSE]
      BY <2>3
    <3> HIDE DEF d
    <3> QED
      BY <3>1
  <2> QED
    BY <2>4
<1>3. DOMAIN c = DOMAIN mc6551_reset /\ DOMAIN c.command = DOMAIN mc6551_reset.command
  OBVIOUS
<1> HIDE DEF c
<1>4. ChipShape(c)
  <2>1. /\ c.command.rx_irq_en \in BOOLEAN /\ c.command.tx_irq_en \in BOOLEAN /\ c.command.echo_en \in BOOLEAN
        /\ c.tx_busy \in BOOLEAN /\ c.tdre \in BOOLEAN /\ c.rdrf \in BOOLEAN /\ c.irq_flag \in BOOLEAN
    BY <1>1, <1>2
  <2>2. /\ c.rx_data \in Int /\ c.tx_pending \in Int /\ c.overrun_count \in Nat
        /\ c.cycles_per_byte \in Int /\ c.tx_countdown \in Int /\ c.rx_countdown \in Int
    BY <1>1
  <2> QED
    BY <1>3, <2>1, <2>2 DEF ChipShape
<1> QED
  BY <1>1, <1>2, <1>4 DEF c

\* After a reset of the chip what was read, in order, is what matters.
LEMMA ResetChip ==
  ASSUME AciaAssumption, AciaIInv, chip' = mc6551_reset, wire' = wire,
         prog' = [prog EXCEPT !.empty = FALSE, !.torn = @ \/ chip.tx_pending # 0, !.gone = prog'.gone],
         prog'.gone \in Nat
  PROVE  /\ ChipShape(chip)' /\ ProgShape(prog)' /\ wire' \in Seq(Int) /\ TxKnown' /\ NoLostWakeup'
         /\ prog'.sent = prog.sent /\ prog'.taken = prog.taken /\ Register' = <<>> /\ chip'.overrun_count = 0
<1>1. /\ ChipShape(chip)' /\ ~chip'.rdrf /\ ~chip'.tx_busy
      /\ chip'.tdre /\ chip'.tx_pending = 0 /\ ~chip'.command.echo_en /\ chip'.overrun_count = 0
  BY ResetShape
<1>2. /\ ProgShape(prog)' /\ prog'.sent = prog.sent /\ prog'.written = prog.written /\ prog'.taken = prog.taken
      /\ prog'.torn = (prog.torn \/ chip.tx_pending # 0) /\ ~prog'.empty
  BY AciaParts DEF ProgShape
<1>3. TxKnown'
  <2>1. OnWire(wire, chip.tx_pending, Len(prog.written)) /\ Untorn(chip, prog)
    BY AciaParts DEF TxKnown
  <2>2. OnWire(wire', chip'.tx_pending, Len(prog'.written))
    BY <1>1, <1>2, <2>1 DEF OnWire
  <2>3. Untorn(chip, prog)'
    <3> SUFFICES ASSUME ~prog'.torn PROVE wire' = prog'.written /\ chip'.tdre = ~chip'.tx_busy
      BY <1>1, <1>2 DEF Untorn
    <3>1. wire' = prog'.written
      BY <1>2, <2>1 DEF Untorn
    <3>2. chip'.tdre = TRUE /\ chip'.tx_busy = FALSE
      BY <1>1 DEF ChipShape
    <3> QED
      BY <3>1, <3>2
  <2> QED
    BY <1>1, <2>2, <2>3 DEF TxKnown
<1>4. Register' = <<>> /\ NoLostWakeup' /\ wire' \in Seq(Int)
  BY <1>1, AciaParts DEF Register, NoLostWakeup
<1> QED
  BY <1>1, <1>2, <1>3, <1>4

\* machine_reset(): what is in the ring stays.
LEMMA MachineResetKeeps ==
  ASSUME AciaAssumption, AciaIInv, MachineReset
  PROVE  AciaIInv'
<1> DEFINE one == IF chip.rdrf THEN 1 ELSE 0
<1>1. /\ serial' = serial /\ rs232' = rs232 /\ wire' = wire /\ chip' = mc6551_reset
      /\ prog' = [prog EXCEPT !.empty = FALSE, !.torn = @ \/ chip.tx_pending # 0,
                              !.gone = Discard(chip.overrun_count + one)]
  BY DEF MachineReset
<1>2. prog'.gone = prog.gone + (chip.overrun_count + one) /\ prog'.gone \in Nat
  <2>1. prog'.gone = prog.gone + (chip.overrun_count + one)
    BY <1>1, AciaParts DEF ProgShape, Discard
  <2> QED
    BY <2>1, AciaCount
<1>3. /\ ChipShape(chip)' /\ ProgShape(prog)' /\ wire' \in Seq(Int) /\ TxKnown' /\ NoLostWakeup'
      /\ prog'.sent = prog.sent /\ prog'.taken = prog.taken /\ Register' = <<>> /\ chip'.overrun_count = 0
  BY <1>1, <1>2, ResetChip
<1>4. InLine(prog'.taken, Register', Ring(serial)', serial'.uart, prog'.sent)
  BY <1>1, <1>3, AciaParts, LineDiscard
<1>5. prog'.sent = Total(prog'.taken, Register', Ring(serial)', serial'.uart) + prog'.gone + chip'.overrun_count
  BY <1>1, <1>2, <1>3, AciaCount, RegisterDropped
<1>6. SerialShape(serial)' /\ rs232' \in BOOLEAN
  BY <1>1, AciaParts
<1> QED
  BY <1>3, <1>4, <1>5, <1>6, AciaWhole

\* The mode changes: what is in the ring and UART0 is thrown away on the way back.
LEMMA ModeKeeps ==
  ASSUME AciaAssumption, AciaIInv, serial_mode_apply
  PROVE  AciaIInv'
<1> DEFINE one == IF chip.rdrf THEN 1 ELSE 0
           emptied == IF rs232 THEN 0 ELSE Len(Ring(serial) \o serial.uart)
<1>1. /\ rs232' = ~rs232 /\ chip' = mc6551_reset /\ wire' = wire
      /\ serial' = (IF rs232' THEN hal_rs232_flush(serial) ELSE serial)
      /\ prog' = [prog EXCEPT !.empty = FALSE, !.torn = @ \/ chip.tx_pending # 0,
                              !.gone = Discard(emptied + chip.overrun_count + one)]
  BY DEF serial_mode_apply
<1>2. emptied = IF rs232 THEN 0 ELSE Len(Ring(serial)) + Len(serial.uart)
  BY AciaParts
<1>3. emptied \in Nat
  BY <1>2, AciaParts
<1> HIDE DEF emptied
<1>4. prog'.gone = prog.gone + (emptied + chip.overrun_count + one) /\ prog'.gone \in Nat
  <2>1. prog'.gone = prog.gone + (emptied + chip.overrun_count + one)
    BY <1>1, AciaParts DEF ProgShape, Discard
  <2> QED
    BY <1>3, <2>1, AciaCount
<1>5. /\ ChipShape(chip)' /\ ProgShape(prog)' /\ wire' \in Seq(Int) /\ TxKnown' /\ NoLostWakeup'
      /\ prog'.sent = prog.sent /\ prog'.taken = prog.taken /\ Register' = <<>> /\ chip'.overrun_count = 0
  BY <1>1, <1>4, ResetChip
<1>6. CASE rs232
  <2>1. serial' = serial /\ emptied = 0
    BY <1>1, <1>2, <1>6
  <2>2. InLine(prog'.taken, Register', Ring(serial)', serial'.uart, prog'.sent)
    BY <1>5, <2>1, AciaParts, LineDiscard
  <2>3. prog'.sent = Total(prog'.taken, Register', Ring(serial)', serial'.uart) + prog'.gone + chip'.overrun_count
    BY <1>4, <1>5, <2>1, AciaCount, RegisterDropped
  <2>4. SerialShape(serial)' /\ rs232' \in BOOLEAN
    BY <1>1, <2>1, AciaParts
  <2> QED
    BY <1>5, <2>2, <2>3, <2>4, AciaWhole
<1>7. CASE ~rs232
  <2>1. serial' = hal_rs232_flush(serial) /\ emptied = Len(Ring(serial)) + Len(serial.uart)
    BY <1>1, <1>2, <1>7
  <2>2. SerialShape(serial)' /\ Ring(serial)' = <<>> /\ serial'.uart = <<>>
    <3>1. SerialShape(serial)
      BY AciaParts
    <3> DEFINE t == hal_rs232_flush(serial)
    <3>2. SerialShape(t) /\ Ring(t) = <<>> /\ t.uart = <<>>
      BY <3>1, RingCleared
    <3> HIDE DEF t
    <3>3. serial' = t
      BY <2>1 DEF t
    <3> QED
      BY <3>2, <3>3
  <2>3. InLine(prog'.taken, Register', Ring(serial)', serial'.uart, prog'.sent)
    BY <1>5, <2>2, AciaParts, LineFlush
  <2>4. prog'.sent = Total(prog'.taken, Register', Ring(serial)', serial'.uart) + prog'.gone + chip'.overrun_count
    <3> DEFINE a == Len(prog.taken)
               c == Len(Ring(serial))
               d == Len(serial.uart)
    <3>1. Total(prog.taken, <<>>, Ring(serial), serial.uart) = a + 0 + c + d
      BY DEF Total
    <3>2. Total(prog'.taken, Register', Ring(serial)', serial'.uart) = a
      <4>1. Total(prog'.taken, Register', Ring(serial)', serial'.uart) = a + 0 + 0 + 0
        BY <1>5, <2>2 DEF Total
      <4> QED
        BY <4>1, AciaCount
    <3>3. a \in Int /\ c \in Int /\ d \in Int /\ emptied = c + d
      BY <2>1, AciaCount
    <3> DEFINE all == Total(prog.taken, Register, Ring(serial), serial.uart)
    <3>4. Total(prog.taken, <<>>, Ring(serial), serial.uart) = all - one
      BY RegisterDropped
    <3>5. /\ all \in Int /\ prog.gone \in Int /\ chip.overrun_count \in Int
          /\ prog.sent = (all + prog.gone) + chip.overrun_count /\ one \in Int
      BY AciaCount
    <3> HIDE DEF a, c, d, all, one
    <3>6. all = a + (c + d) + one
      BY <3>1, <3>3, <3>4, <3>5
    <3>7. prog.sent = (a + (prog.gone + (emptied + chip.overrun_count + one))) + 0
      BY <3>3, <3>5, <3>6
    <3> QED
      BY <1>4, <1>5, <3>2, <3>7
  <2>5. rs232' \in BOOLEAN
    BY <1>1
  <2> QED
    BY <1>5, <2>2, <2>3, <2>4, <2>5, AciaWhole
<1> QED
  BY <1>6, <1>7

\* A scanline passes: a byte may go out, and one may come off the ring, to be read or counted as an overrun.
LEMMA TickKeeps ==
  ASSUME AciaAssumption, AciaIInv, NEW cyc \in TICKS, mc6551_tick(cyc)
  PROVE  AciaIInv'
<1> DEFINE tx == TxDone(chip, cyc)
           m == tx[1]
           o == tx[2]
           c == [m EXCEPT !.rx_countdown = Wrap(@ - cyc)]
           b == Head(Ring(serial))
           intake == c.rx_countdown <= 0 /\ ring_count(serial) > 0
<1>1. /\ rs232' = rs232
      /\ chip' = (IF intake THEN RxIntake(c, b) ELSE c)
      /\ serial' = (IF intake THEN rs232_rx(serial) ELSE serial)
      /\ wire' = wire \o Own(o)
      /\ prog' = IF intake /\ ~c.rdrf THEN [prog EXCEPT !.told = FALSE] ELSE prog
  BY DEF mc6551_tick
<1>2. /\ ChipShape(m) /\ m.command = chip.command /\ m.rdrf = chip.rdrf /\ m.rx_data = chip.rx_data
      /\ m.overrun_count = chip.overrun_count /\ (chip.irq_flag => m.irq_flag)
      /\ \/ o = 0 /\ m.tx_busy = chip.tx_busy /\ m.tx_pending = chip.tx_pending /\ m.tdre = chip.tdre
         \/ o = 0 /\ chip.tx_pending = 0 /\ ~m.tx_busy /\ m.tx_pending = 0 /\ m.tdre
         \/ o = chip.tx_pending /\ o # 0 /\ m.tx_busy /\ m.tx_pending = 0 /\ ~m.tdre /\ chip.tx_busy
  BY AciaParts, TxTicked
<1> HIDE DEF m, o
<1>3. /\ ChipShape(c) /\ c.command = m.command /\ c.rdrf = m.rdrf /\ c.rx_data = m.rx_data
      /\ c.overrun_count = m.overrun_count /\ c.irq_flag = m.irq_flag
      /\ c.tx_busy = m.tx_busy /\ c.tx_pending = m.tx_pending /\ c.tdre = m.tdre
  <2> DEFINE left == Wrap(m.rx_countdown - cyc)
  <2>1. left \in Int
    <3>1. cyc \in Int /\ m.rx_countdown \in Int /\ 2 * INT_HALF \in Nat \ {0} /\ INT_HALF \in Int
      BY <1>2 DEF AciaAssumption, ChipShape
    <3>2. \A x \in Int, k \in Nat \ {0} : x % k \in Int
      OBVIOUS
    <3>3. ((m.rx_countdown - cyc) + INT_HALF) % (2 * INT_HALF) \in Int
      BY <3>1, <3>2
    <3> QED
      BY <3>1, <3>3 DEF Wrap
  <2> HIDE DEF left
  <2>2. c = [m EXCEPT !.rx_countdown = left]
    BY DEF left
  <2> HIDE DEF c
  <2>3. /\ DOMAIN c = DOMAIN m /\ c.command = m.command /\ c.rdrf = m.rdrf /\ c.rx_data = m.rx_data
        /\ c.overrun_count = m.overrun_count /\ c.irq_flag = m.irq_flag
        /\ c.tx_busy = m.tx_busy /\ c.tx_pending = m.tx_pending /\ c.tdre = m.tdre
        /\ c.cycles_per_byte = m.cycles_per_byte /\ c.tx_countdown = m.tx_countdown /\ c.rx_countdown = left
    BY <1>2, <2>2 DEF ChipShape, mc6551_reset
  <2>4. ChipShape(c)
    BY <1>2, <2>1, <2>3 DEF ChipShape
  <2> QED
    BY <2>3, <2>4
<1> HIDE DEF c
  \* What went out, and what is still to go out.
<1>4. /\ wire' \in Seq(Int) /\ OnWire(wire', c.tx_pending, Len(prog.written)) /\ (c.tx_pending # 0 => c.tx_busy)
      /\ ~prog.torn => /\ wire' = prog.written /\ c.tx_pending = 0 /\ ~c.command.echo_en
                       /\ c.tdre = ~c.tx_busy /\ (prog.empty => c.tdre)
  <2> DEFINE n == Len(prog.written)
  <2>1. OnWire(wire, chip.tx_pending, n) /\ (chip.tx_pending # 0 => chip.tx_busy) /\ Untorn(chip, prog)
    BY AciaParts DEF TxKnown
  <2>2. n \in Nat /\ chip.tx_pending \in Int /\ wire \in Seq(Int)
    BY AciaParts DEF ProgShape, ChipShape
  <2> HIDE DEF n
  <2>3. o = 0 => wire' = wire
    BY <1>1, <2>2 DEF Own
  <2>4. CASE o = 0 /\ m.tx_busy = chip.tx_busy /\ m.tx_pending = chip.tx_pending /\ m.tdre = chip.tdre
    BY <1>2, <1>3, <2>1, <2>2, <2>3, <2>4 DEF Untorn, n
  <2>5. CASE o = 0 /\ chip.tx_pending = 0 /\ ~m.tx_busy /\ m.tx_pending = 0 /\ m.tdre
    <3>1. m.tdre = TRUE /\ m.tx_busy = FALSE
      BY <1>2, <2>5 DEF ChipShape
    <3> QED
      BY <1>2, <1>3, <2>1, <2>2, <2>3, <2>5, <3>1 DEF Untorn, n
  <2>6. CASE o = chip.tx_pending /\ o # 0 /\ m.tx_busy /\ m.tx_pending = 0 /\ ~m.tdre /\ chip.tx_busy
    <3>1. wire' \in Seq(Int) /\ OnWire(wire', 0, n)
      BY <1>1, <2>1, <2>2, <2>6, WireSends
    <3>2. prog.torn
      BY <2>1, <2>6 DEF Untorn
    <3> QED
      BY <1>3, <2>6, <3>1, <3>2 DEF n
  <2> QED
    BY <1>2, <2>4, <2>5, <2>6
<1>5. CASE ~intake
  <2>1. chip' = c /\ serial' = serial /\ prog' = prog
    BY <1>1, <1>5
  <2>2. Register' = Register /\ Ring(serial)' = Ring(serial)
    BY <1>2, <1>3, <2>1 DEF Register
  <2>3. prog'.sent = Total(prog'.taken, Register', Ring(serial)', serial'.uart) + prog'.gone + chip'.overrun_count
    BY <1>2, <1>3, <2>1, <2>2, AciaParts
  <2>4. InLine(prog'.taken, Register', Ring(serial)', serial'.uart, prog'.sent)
    BY <2>1, <2>2, AciaParts
  <2>5. TxKnown'
    BY <1>4, <2>1 DEF TxKnown, Untorn
  <2>6. NoLostWakeup'
    BY <1>2, <1>3, <2>1, AciaParts DEF NoLostWakeup
  <2>7. ChipShape(chip)' /\ SerialShape(serial)' /\ ProgShape(prog)' /\ rs232' \in BOOLEAN
    BY <1>1, <1>3, <2>1, AciaParts
  <2> QED
    BY <1>4, <2>3, <2>4, <2>5, <2>6, <2>7, AciaWhole
<1>6. CASE intake
  <2> DEFINE C == Ring(serial)
             E == Ring(serial)'
  <2>1. chip' = RxIntake(c, b) /\ serial' = rs232_rx(serial) /\ ring_count(serial) > 0
    BY <1>1, <1>6
  <2>2. /\ SerialShape(serial)' /\ serial'.uart = serial.uart
        /\ C \in Seq(Int) /\ E \in Seq(Int) /\ Len(C) = Len(E) + 1
        /\ \A i \in 1 .. Len(E) : E[i] = C[i + 1]
    BY <2>1, AciaParts, RingTaken
  <2>3. b = C[1] /\ b \in Int /\ 1 \in 1 .. Len(C)
    BY <2>2
  <2>4. b \in 1 .. prog.sent
    BY <2>2, <2>3, AciaParts DEF InLine
  <2> HIDE DEF intake, b
  <2>5. /\ ChipShape(chip)' /\ chip'.command = c.command /\ chip'.rdrf
        /\ IF c.rdrf
           THEN /\ chip'.overrun_count = c.overrun_count + 1 /\ chip'.rx_data = c.rx_data
                /\ chip'.irq_flag = c.irq_flag
                /\ chip'.tx_busy = c.tx_busy /\ chip'.tx_pending = c.tx_pending /\ chip'.tdre = c.tdre
           ELSE /\ chip'.overrun_count = c.overrun_count /\ chip'.rx_data = b
                /\ (c.command.rx_irq_en => chip'.irq_flag)
                /\ \/ chip'.tx_busy = c.tx_busy /\ chip'.tx_pending = c.tx_pending /\ chip'.tdre = c.tdre
                   \/ c.command.echo_en /\ chip'.tx_busy /\ chip'.tx_pending \in {b, c.tx_pending}
    <3> DEFINE d == RxIntake(c, b)
    <3>1. /\ ChipShape(d) /\ d.command = c.command /\ d.rdrf
          /\ IF c.rdrf
             THEN /\ d.overrun_count = c.overrun_count + 1 /\ d.rx_data = c.rx_data /\ d.irq_flag = c.irq_flag
                  /\ d.tx_busy = c.tx_busy /\ d.tx_pending = c.tx_pending /\ d.tdre = c.tdre
             ELSE /\ d.overrun_count = c.overrun_count /\ d.rx_data = b
                  /\ (c.command.rx_irq_en => d.irq_flag)
                  /\ \/ d.tx_busy = c.tx_busy /\ d.tx_pending = c.tx_pending /\ d.tdre = c.tdre
                     \/ c.command.echo_en /\ d.tx_busy /\ d.tx_pending \in {b, c.tx_pending}
      <4>1. ChipShape(c)
        BY <1>3
      <4>2. b \in Int
        BY <2>3
      <4> QED
        BY <4>1, <4>2, RxTaken
    <3>2. chip' = d
      BY <2>1
    <3> HIDE DEF d
    <3> QED
      BY <3>1, <3>2
  <2>6. /\ ProgShape(prog)' /\ prog'.sent = prog.sent /\ prog'.written = prog.written /\ prog'.taken = prog.taken
        /\ prog'.torn = prog.torn /\ prog'.empty = prog.empty /\ prog'.gone = prog.gone
        /\ c.rdrf => prog' = prog
    BY <1>1, <1>6, AciaParts DEF ProgShape
  <2>7. TxKnown'
    <3>1. CASE chip'.tx_busy = c.tx_busy /\ chip'.tx_pending = c.tx_pending /\ chip'.tdre = c.tdre
      BY <1>4, <2>5, <2>6, <3>1 DEF TxKnown, Untorn
    <3>2. CASE c.command.echo_en /\ chip'.tx_busy /\ chip'.tx_pending \in {b, c.tx_pending}
      <4>1. prog.torn
        BY <1>4, <3>2
      <4>2. OnWire(wire', b, Len(prog.written))
        BY <1>4, <2>4, AciaParts DEF OnWire
      <4>3. OnWire(wire', chip'.tx_pending, Len(prog'.written))
        BY <1>4, <2>6, <3>2, <4>2
      <4> QED
        BY <2>6, <3>2, <4>1, <4>3 DEF TxKnown, Untorn
    <3> QED
      BY <2>5, <3>1, <3>2
  <2> HIDE DEF C, E
  <2>8. /\ InLine(prog.taken, Register, E, serial.uart, prog.sent)
        /\ InLine(prog.taken, <<b>>, E, serial.uart, prog.sent)
    <3>1. /\ prog.taken \in Seq(Int) /\ Register \in Seq(Int) /\ serial.uart \in Seq(Int) /\ prog.sent \in Nat
          /\ InLine(prog.taken, Register, C, serial.uart, prog.sent)
      BY AciaParts DEF C
    <3> QED
      BY <2>2, <2>3, <3>1, LineShorter
  <2>9. Len(C) \in Int /\ Len(E) \in Int
    BY <2>2
  <2>10. CASE c.rdrf
    <3>1. Register' = Register /\ chip'.overrun_count = chip.overrun_count + 1
      BY <1>2, <1>3, <2>5, <2>10 DEF Register
    <3>2. InLine(prog'.taken, Register', Ring(serial)', serial'.uart, prog'.sent)
      BY <2>2, <2>6, <2>8, <3>1 DEF E
    <3>3. prog'.sent = Total(prog'.taken, Register', Ring(serial)', serial'.uart) + prog'.gone + chip'.overrun_count
      <4> DEFINE a == Len(prog.taken)
                 r == Len(Register)
                 d == Len(serial.uart)
                 e == Len(E)
      <4>1. Total(prog'.taken, Register', Ring(serial)', serial'.uart) = a + r + e + d
        BY <2>2, <2>6, <3>1, Zenon DEF Total, E
      <4>2. Total(prog.taken, Register, Ring(serial), serial.uart) = a + r + (e + 1) + d
        BY <2>2, Zenon DEF Total, C
      <4>3. a \in Int /\ r \in Int /\ d \in Int /\ e \in Int
        BY <2>9, AciaCount
      <4> HIDE DEF a, r, d, e
      <4> QED
        BY <2>6, <3>1, <4>1, <4>2, <4>3, AciaCount
    <3>4. NoLostWakeup'
      BY <1>2, <1>3, <2>5, <2>6, <2>10, AciaParts DEF NoLostWakeup
    <3> QED
      BY <1>1, <1>4, <2>2, <2>5, <2>6, <2>7, <3>2, <3>3, <3>4, AciaParts, AciaWhole
  <2>11. CASE ~c.rdrf
    <3>1. Register = <<>> /\ Register' = <<b>> /\ chip'.overrun_count = chip.overrun_count
      BY <1>2, <1>3, <2>5, <2>11 DEF Register
    <3>2. InLine(prog'.taken, Register', Ring(serial)', serial'.uart, prog'.sent)
      BY <2>2, <2>6, <2>8, <3>1 DEF E
    <3>3. prog'.sent = Total(prog'.taken, Register', Ring(serial)', serial'.uart) + prog'.gone + chip'.overrun_count
      <4> DEFINE a == Len(prog.taken)
                 d == Len(serial.uart)
                 e == Len(E)
      <4>0. Len(Register) = 0 /\ Len(Register') = 1
        BY <3>1
      <4>1. Total(prog'.taken, Register', Ring(serial)', serial'.uart) = a + 1 + e + d
        BY <2>2, <2>6, <4>0, Zenon DEF Total, E
      <4>2. Total(prog.taken, Register, Ring(serial), serial.uart) = a + 0 + (e + 1) + d
        BY <2>2, <4>0, Zenon DEF Total, C
      <4>3. a \in Int /\ d \in Int /\ e \in Int
        BY <2>9, AciaCount
      <4> HIDE DEF a, d, e
      <4> QED
        BY <2>6, <3>1, <4>1, <4>2, <4>3, AciaCount
    <3>4. NoLostWakeup'
      BY <2>5, <2>11 DEF NoLostWakeup
    <3> QED
      BY <1>1, <1>4, <2>2, <2>5, <2>6, <2>7, <3>2, <3>3, <3>4, AciaParts, AciaWhole
  <2> QED
    BY <2>10, <2>11
<1> QED
  BY <1>5, <1>6

-----------------------------------------------------------------------------
\* One rising sequence before another.
LEMMA Joined ==
  ASSUME NEW s \in Seq(Int), NEW t \in Seq(Int), Rising(s), Rising(t), Before(s, t)
  PROVE  Rising(s \o t) /\ s \o t \in Seq(Int) /\ Len(s \o t) = Len(s) + Len(t)
<1> DEFINE u == s \o t
<1>1. u \in Seq(Int) /\ Len(u) = Len(s) + Len(t) /\ Len(s) \in Nat /\ Len(t) \in Nat
  OBVIOUS
<1>2. (\A i \in 1 .. Len(s) : s[i] \in Int) /\ (\A i \in 1 .. Len(t) : t[i] \in Int)
  OBVIOUS
<1>3. ASSUME NEW i \in 1 .. Len(u)
      PROVE  \/ i \in 1 .. Len(s) /\ u[i] = s[i]
             \/ i > Len(s) /\ i - Len(s) \in 1 .. Len(t) /\ u[i] = t[i - Len(s)]
  BY <1>1
<1> HIDE DEF u
<1>4. ASSUME NEW i \in 1 .. Len(u), NEW j \in 1 .. Len(u), i < j PROVE u[i] < u[j]
  <2> DEFINE p == i - Len(s)
             q == j - Len(s)
  <2>1. CASE i \in 1 .. Len(s) /\ u[i] = s[i] /\ j \in 1 .. Len(s) /\ u[j] = s[j]
    BY <1>2, <1>4, <2>1
  <2>2. CASE i \in 1 .. Len(s) /\ u[i] = s[i] /\ q \in 1 .. Len(t) /\ u[j] = t[q]
    <3> HIDE DEF q
    <3> QED
      BY <1>2, <2>2
  <2>3. CASE i > Len(s) /\ p \in 1 .. Len(t) /\ u[i] = t[p]
    <3>1. j > Len(s) /\ j \notin 1 .. Len(s)
      BY <1>1, <1>4, <2>3
    <3>2. q \in 1 .. Len(t) /\ u[j] = t[q]
      BY <1>3, <3>1
    <3>3. p < q
      BY <1>1, <1>4
    <3> HIDE DEF p, q
    <3> QED
      BY <1>2, <2>3, <3>2, <3>3
  <2> QED
    BY <1>3, <2>1, <2>2, <2>3
<1> QED
  BY <1>1, <1>4 DEF u

\* What comes before both comes before the two joined.
LEMMA BeforeJoined ==
  ASSUME NEW r \in Seq(Int), NEW s \in Seq(Int), NEW t \in Seq(Int), Before(r, s), Before(r, t)
  PROVE  Before(r, s \o t)
<1> DEFINE u == s \o t
<1>1. Len(u) = Len(s) + Len(t) /\ Len(s) \in Nat /\ Len(t) \in Nat
  OBVIOUS
<1>2. ASSUME NEW i \in 1 .. Len(u)
      PROVE  \/ i \in 1 .. Len(s) /\ u[i] = s[i]
             \/ i - Len(s) \in 1 .. Len(t) /\ u[i] = t[i - Len(s)]
  BY <1>1
<1> HIDE DEF u
<1>3. ASSUME NEW i \in 1 .. Len(r), NEW j \in 1 .. Len(u) PROVE r[i] < u[j]
  <2> DEFINE q == j - Len(s)
  <2>1. CASE j \in 1 .. Len(s) /\ u[j] = s[j]
    BY <2>1
  <2>2. CASE q \in 1 .. Len(t) /\ u[j] = t[q]
    <3> HIDE DEF q
    <3> QED
      BY <2>2
  <2> QED
    BY <1>2, <2>1, <2>2
<1> QED
  BY <1>3 DEF u

\* The invariant says what SerialFaithful says.
LEMMA AciaSays ==
  ASSUME AciaAssumption, AciaIInv
  PROVE  SerialFaithful
<1> DEFINE A == prog.taken
           B == Register
           C == Ring(serial)
           D == serial.uart
<1>1. A \in Seq(Int) /\ B \in Seq(Int) /\ C \in Seq(Int) /\ D \in Seq(Int) /\ InLine(A, B, C, D, prog.sent)
  BY AciaParts
<1>2. Len(A) \in Int /\ Len(B) \in Int /\ Len(C) \in Int /\ Len(D) \in Int
  BY AciaCount
<1>3. prog.sent = Len(A) + Len(B) + Len(C) + Len(D) + prog.gone + chip.overrun_count
  BY AciaParts DEF Total
<1>4. prog.taken \o InFlight = A \o ((B \o C) \o D)
  BY DEF InFlight
<1> HIDE DEF A, B, C, D
<1>5. /\ Rising(A) /\ Rising(B) /\ Rising(C) /\ Rising(D)
      /\ Before(A, B) /\ Before(A, C) /\ Before(A, D) /\ Before(B, C) /\ Before(B, D) /\ Before(C, D)
  BY <1>1 DEF InLine
<1> DEFINE F == B \o C
<1>6. Rising(F) /\ F \in Seq(Int) /\ Len(F) = Len(B) + Len(C)
  BY <1>1, <1>5, Joined
<1>7. Before(A, F)
  BY <1>1, <1>5, BeforeJoined
<1>8. Before(F, D)
  <2>1. Len(B) \in Nat /\ Len(C) \in Nat
    BY <1>1
  <2>2. ASSUME NEW i \in 1 .. Len(F), NEW j \in 1 .. Len(D) PROVE F[i] < D[j]
    <3> DEFINE q == i - Len(B)
    <3>1. \/ i \in 1 .. Len(B) /\ F[i] = B[i]
          \/ q \in 1 .. Len(C) /\ F[i] = C[q]
      BY <1>1, <1>6, <2>1
    <3> HIDE DEF F, q
    <3> QED
      BY <1>5, <3>1
  <2> QED
    BY <2>2
<1> HIDE DEF F
<1> DEFINE G == F \o D
<1>9. Rising(G) /\ G \in Seq(Int) /\ Len(G) = Len(F) + Len(D)
  BY <1>1, <1>5, <1>6, <1>8, Joined
<1>10. Before(A, G)
  BY <1>1, <1>5, <1>6, <1>7, BeforeJoined
<1> HIDE DEF G
<1> DEFINE H == A \o G
<1>11. Rising(H) /\ H \in Seq(Int) /\ Len(H) = Len(A) + Len(G)
  BY <1>1, <1>5, <1>9, <1>10, Joined
<1> HIDE DEF H
<1>12. prog.taken \o InFlight = H
  BY <1>4 DEF F, G, H
<1>13. Ascending(H)
  <2> SUFFICES ASSUME NEW i \in 1 .. Len(H) - 1 PROVE H[i] < H[i + 1]
    BY DEF Ascending
  <2> DEFINE j == i + 1
  <2>1. i \in 1 .. Len(H) /\ j \in 1 .. Len(H) /\ i < j
    BY <1>11
  <2> HIDE DEF j
  <2>2. H[i] < H[j]
    BY <1>11, <2>1
  <2> QED
    BY <2>2 DEF j
<1>14. prog.sent = Len(H) + prog.gone + chip.overrun_count
  <2>1. Len(H) = Len(A) + Len(B) + Len(C) + Len(D)
    BY <1>2, <1>6, <1>9, <1>11
  <2>2. prog.gone \in Int /\ chip.overrun_count \in Int
    BY AciaCount
  <2> QED
    BY <1>2, <1>3, <2>1, <2>2
<1>15. RxAccounted
  BY <1>12, <1>13, <1>14 DEF RxAccounted
<1>16. TxInOrder
  <2> DEFINE f == [i \in 1 .. Len(wire) |-> -wire[i]]
  <2>1. TxKnown /\ wire \in Seq(Int)
    BY AciaParts
  <2>2. \A i, k \in 1 .. Len(wire) : i < k => wire[i] > wire[k]
    BY <2>1 DEF TxKnown, OnWire
  <2>3. Len(wire) \in Nat /\ \A i \in 1 .. Len(wire) : wire[i] \in Int
    BY <2>1
  <2>4. Len(f) = Len(wire) /\ \A i \in 1 .. Len(wire) : f[i] = -wire[i]
    BY <2>3
  <2> HIDE DEF f
  <2>5. Ascending(f)
    <3> SUFFICES ASSUME NEW i \in 1 .. Len(f) - 1 PROVE f[i] < f[i + 1]
      BY DEF Ascending
    <3> DEFINE j == i + 1
    <3>1. i \in 1 .. Len(wire) /\ j \in 1 .. Len(wire) /\ i < j
      BY <2>3, <2>4
    <3> HIDE DEF j
    <3>2. wire[i] > wire[j] /\ f[i] = -wire[i] /\ f[j] = -wire[j] /\ wire[i] \in Int /\ wire[j] \in Int
      BY <2>2, <2>3, <2>4, <3>1
    <3>3. f[i] < f[j]
      BY <3>2
    <3> QED
      BY <3>3 DEF j
  <2>6. ~prog.torn => wire = prog.written
    BY <2>1 DEF TxKnown, Untorn
  <2> QED
    BY <2>5, <2>6 DEF TxInOrder, f
<1> QED
  BY <1>15, <1>16, AciaParts DEF SerialFaithful

\* SerialFaithful for a ring and byte times of any size and any number of bytes.
THEOREM SerialCorrect == AciaSpec => []SerialFaithful
<1> USE AciaAssumption
<1>1. AciaInit => AciaIInv
  <2> SUFFICES ASSUME AciaInit PROVE AciaIInv
    OBVIOUS
  <2>1. /\ chip = mc6551_reset
        /\ serial = [ring |-> [i \in 0 .. RING_SIZE - 1 |-> 0], head |-> 0, tail |-> 0, uart |-> <<>>]
        /\ rs232 = TRUE /\ wire = <<>>
        /\ prog = [sent |-> 0, written |-> <<>>, taken |-> <<>>, empty |-> FALSE, told |-> FALSE, torn |-> FALSE,
                   gone |-> 0]
    BY DEF AciaInit
  <2>2. ChipShape(chip) /\ chip.rdrf = FALSE /\ chip.overrun_count = 0 /\ chip.tx_pending = 0
        /\ chip.tdre = TRUE /\ chip.tx_busy = FALSE /\ chip.command.echo_en = FALSE
    <3>1. ~chip.rdrf /\ ~chip.tx_busy /\ chip.tdre /\ ~chip.command.echo_en /\ ChipShape(chip)
      BY <2>1, ResetShape
    <3>2. chip.overrun_count = 0 /\ chip.tx_pending = 0
      BY <2>1, ResetShape
    <3> QED
      BY <3>1, <3>2 DEF ChipShape
  <2>3. SerialShape(serial) /\ serial.uart = <<>> /\ serial.head = 0 /\ serial.tail = 0
    BY <2>1 DEF SerialShape, AciaAssumption
  <2>4. ProgShape(prog)
    BY <2>1 DEF ProgShape
  <2>5. TxKnown
    <3>1. Len(wire) = 0 /\ OnWire(wire, chip.tx_pending, Len(prog.written))
      BY <2>1, <2>2 DEF OnWire
    <3>2. Untorn(chip, prog)
      <4>1. wire = prog.written /\ prog.empty = FALSE
        BY <2>1
      <4> QED
        BY <2>2, <4>1 DEF Untorn
    <3> QED
      BY <2>2, <3>1, <3>2 DEF TxKnown
  <2>6. Register = <<>> /\ NoLostWakeup
    BY <2>2 DEF Register, NoLostWakeup
  <2>7. Ring(serial) = <<>>
    <3>1. ring_count(serial) = 0 /\ Ring(serial) \in Seq(Int) /\ Len(Ring(serial)) = 0
      <4>1. ring_count(serial) = IF serial.head >= serial.tail THEN serial.head - serial.tail
                                 ELSE serial.head - serial.tail + RING_SIZE
        BY <2>3, RingIs DEF SerialShape
      <4>2. ring_count(serial) = 0
        BY <2>3, <4>1
      <4> QED
        BY <2>3, <4>2, RingIs DEF SerialShape
    <3> QED
      BY <3>1
  <2>8. RxKnown
    BY <2>1, <2>2, <2>3, <2>6, <2>7 DEF RxKnown, InLine
  <2> QED
    BY <2>1, <2>2, <2>3, <2>4, <2>5, <2>6, <2>8 DEF AciaIInv, AciaShape
<1>2. AciaIInv /\ [AciaNext]_avars => AciaIInv'
  <2> SUFFICES ASSUME AciaIInv, [AciaNext]_avars PROVE AciaIInv'
    OBVIOUS
  <2>1. CASE UNCHANGED avars
    <3>1. chip' = chip /\ serial' = serial /\ rs232' = rs232 /\ wire' = wire /\ prog' = prog
      BY <2>1 DEF avars
    <3>2. Register' = Register /\ Ring(serial)' = Ring(serial)
      BY <3>1 DEF Register
    <3>3. TxKnown'
      BY <3>1, AciaParts, TxSame
    <3>4. prog'.sent = Total(prog'.taken, Register', Ring(serial)', serial'.uart) + prog'.gone + chip'.overrun_count
      BY <3>1, <3>2, AciaParts
    <3>5. InLine(prog'.taken, Register', Ring(serial)', serial'.uart, prog'.sent)
      BY <3>1, <3>2, AciaParts
    <3>6. ChipShape(chip)' /\ SerialShape(serial)' /\ ProgShape(prog)' /\ rs232' \in BOOLEAN /\ wire' \in Seq(Int)
          /\ NoLostWakeup'
      BY <3>1, AciaParts DEF NoLostWakeup
    <3> QED
      BY <3>3, <3>4, <3>5, <3>6, AciaWhole
  <2> QED
    BY <2>1, HostSendsKeeps, PollKeeps, TickKeeps, ReadDataKeeps, ReadStatusKeeps, WriteDataKeeps,
       ProgrammedResetKeeps, WriteCommandKeeps, WriteControlKeeps, MachineResetKeeps, ModeKeeps DEF AciaNext
<1>3. AciaIInv => SerialFaithful
  BY AciaSays
<1> QED
  BY <1>1, <1>2, <1>3, PTL DEF AciaSpec
=============================================================================

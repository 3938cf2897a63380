---------------------------- MODULE DiskGeometry ----------------------------
(***************************************************************************)
(* sv_disk_detect_geometry() and sector_offset(): how the size of a .DSK or *)
(* .VDK file becomes tracks and sides, and where a sector lies in the       *)
(* cached image.  Arithmetic is that of uint32_t, with modulus UINT_MOD;    *)
(* tracks is a uint8_t.                                                     *)
(***************************************************************************)
EXTENDS Naturals

CONSTANTS
  DISK_SECTOR_SIZE,   \* 256
  DISK_SECTORS,       \* 18
  UINT_MOD,           \* 2^32: what wraps below zero is more than 510 tracks
  Sizes               \* the file sizes tried

ASSUME GeometryAssumption ==
  /\ DISK_SECTOR_SIZE \in Nat \ {0} /\ DISK_SECTORS \in Nat \ {0}
  /\ UINT_MOD \in Nat /\ UINT_MOD >= 511 * (DISK_SECTORS * DISK_SECTOR_SIZE) + 24
  /\ Sizes \subseteq 0 .. UINT_MOD - 1

VARIABLES
  ext, image_size,    \* the file
  geo                 \* what was detected; geo.ok is the return value

vars == <<ext, image_size, geo>>

Minus(a, b) == (a + UINT_MOD - b) % UINT_MOD
TrackSize == DISK_SECTORS * DISK_SECTOR_SIZE
VdkHeader == 12

HeaderSize(e, size) == IF e = "vdk" THEN VdkHeader ELSE size % DISK_SECTOR_SIZE

\* Both branches leave size for the common subtraction of the header; the .vdk
\* branch has already taken the header off once.
DataSize(e, size) ==
  Minus(IF e = "vdk" THEN Minus(size, VdkHeader) ELSE size, HeaderSize(e, size))

\* Mutant: a double-sided image keeps its linear track count.
WholeTracks(linear) == IF linear > 255 THEN 255 ELSE linear
Tracks(linear) == IF linear > 40 THEN (linear \div 2) % 256 ELSE linear

NoGeometry == [ok |-> FALSE, header_size |-> 0, tracks |-> 0, sides |-> 1]

DetectGeometry(e, size) ==
  LET linear == DataSize(e, size) \div TrackSize
  IN IF linear = 0 \/ linear > 2 * 255
     THEN NoGeometry
     ELSE [ok |-> TRUE, header_size |-> HeaderSize(e, size),
           tracks |-> Tracks(linear), sides |-> IF linear > 40 THEN 2 ELSE 1]

CacheSize(g) == g.tracks * TrackSize * g.sides

\* sector_offset() of a sector in range.
SectorOffset(g, track, side, sector) ==
  (track * g.sides + side) * TrackSize + (sector - 1) * DISK_SECTOR_SIZE

-----------------------------------------------------------------------------
Init ==
  /\ ext \in {"dsk", "vdk"} /\ image_size \in Sizes
  /\ geo = NoGeometry

\* mount_locked() measures the file and detects its geometry.
Detect ==
  /\ geo' = DetectGeometry(ext, image_size)
  /\ UNCHANGED <<ext, image_size>>

Next == Detect

Spec == Init /\ [][Next]_vars

-----------------------------------------------------------------------------
\* The data area a geometry describes, which mount loads and flush writes back,
\* lies within the file, however short, long or odd the file is.
CacheFitsFile == geo.ok => geo.header_size + CacheSize(geo) <= image_size

\* Every (track, side, sector) has a place of its own: sectors follow one another
\* in the order sector, side, track, the first at 0 and the last ending at
\* cache_size, so no two overlap and none is cut off.
SectorsTile ==
  geo.ok =>
    /\ SectorOffset(geo, 0, 0, 1) = 0
    /\ \A t \in 0 .. geo.tracks - 1, s \in 0 .. geo.sides - 1 :
         /\ \A n \in 1 .. DISK_SECTORS - 1 :
              SectorOffset(geo, t, s, n + 1) = SectorOffset(geo, t, s, n) + DISK_SECTOR_SIZE
         /\ SectorOffset(geo, t, s, DISK_SECTORS) + DISK_SECTOR_SIZE
              = IF s + 1 < geo.sides THEN SectorOffset(geo, t, s + 1, 1)
                ELSE IF t + 1 < geo.tracks THEN SectorOffset(geo, t + 1, 0, 1)
                ELSE CacheSize(geo)

\* Both: every file detection accepts is cached and addressed whole and within its
\* bounds (sv_disk_detect_geometry(), mount_locked(), sector_offset()).
GeometryFits == CacheFitsFile /\ SectorsTile
=============================================================================

CONSTANTS
\* Fdc
  d1 = d1
  f1 = f1
  Drive <- MCDrive
  File <- MCFile
  NSEC = 1
  SdFault = {"memory", "read_only"}
  Val <- MCVal
  Fill <- MCFill
  NoCache = NoCache
  NoMap = NoMap
  NoFile = NoFile
  SECTORS = 1
  BUF = 2
  Track = {2}
  SectorNo = {1}
  Byte = {1, 245, 251, 254}
  MAXTRACK = 1
  WT_TRACK_BYTES = 14
  Command <- Kinds
\* DebugRpc
  MaxRequests = 3
  KEYQ = 2
\* Supervisor
  HDB_ROMS <- MCHdbRoms
  CARTS = {"rgb", "big", "bad"}
  RGBDOS_CARTS = {"rgb"}
  BIG_CARTS = {"big"}
  BAD_CARTS = {"bad"}
  FLOPPY_IMAGES = {"a.dsk"}
  VHD_IMAGES = {"h.vhd"}
  FLOPPY_SLOTS = {0, 1}
  HD_SLOTS = {2}
  RAM_VALUES = {128, 512}
  NO_PATH = "none"
  MaxChanges = 2
CONSTRAINTS
  FormatAlone
  OneTopic
SPECIFICATION RequestsSpec
INVARIANTS
  FdcInv
  InterruptsOnce
  RpcInv
  SettingsSafe
  RestartObeys
PROPERTIES
  WriteIsStored
  DeferredArrives
  AnsweredIfOsdCloses

\* DiskSafety
CONSTANTS
  f1 = f1
  d1 = d1
  d2 = d2
  a = a
  b = b
  zero = zero
  Drive <- MCDrive
  File <- MCFile
  NSEC = 2
  SdFault <- Faults
  Val <- MCVal
  Fill = zero
  NoCache = NoCache
  NoMap = NoMap
  NoFile = NoFile
\* DiskGeometry: the modulus is as large as TLC's integers allow
  DISK_SECTOR_SIZE = 256
  DISK_SECTORS = 18
  UINT_MOD = 1073741824
  Sizes <- MCSizes
\* Keyboard
  VK_MAP <- MCVkMap
  KM_CHARS <- MCKmChars
  JoyKeys = {"up"}
  SHIFT = "shift"
  NONE = "none"
  KEYQ_SIZE = 2
  MIN_HOLD_FRAMES = 2
  MIN_GAP_FRAMES = 1
  MaxHeld = 2
  MaxSessions = 1
\* Display
  HEIGHTS = {5, 6, 8}
  STD_ROWS = 7
  TALL_ROWS = 8
  VOTES = 2
  EVENTS = 4
\* AudioRate
  SPEEDS = {16666, 18000, 25641}
  SWITCHES = 1
  WINDOW = 200
SYMMETRY MCSymmetry
SPECIFICATION ConsoleSpec
INVARIANTS
  DiskInv
  GeometryFits
  KeyboardFaithful
  DisplayCurrent
  SoundFollowsSpeed

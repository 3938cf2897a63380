CONSTANTS
  HDB_ROMS = {}
  CARTS = {"rgb", "big", "bad"}
  RGBDOS_CARTS = {"rgb"}
  BIG_CARTS = {"big"}
  BAD_CARTS = {"bad"}
  FLOPPY_IMAGES = {"a.dsk"}
  VHD_IMAGES = {"h.vhd"}
  FLOPPY_SLOTS = {0, 1}
  HD_SLOTS = {2}
  RAM_VALUES = {128, 512}
  NO_PATH = "none"
  MaxChanges = 2
SPECIFICATION SupervisorSpec
INVARIANT PickerIsTheHardDisks

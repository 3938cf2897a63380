\* Cpu: two handlers deep
CONSTANTS
  HD6309 = TRUE
  DEPTH = 2
  WMAX = 2
  Masks <- MCMasks
  Modes <- MCModes
\* Programs
  Bytes = {0, 1, 15, 127, 128, 153, 255}
  Words = {0, 1, 255, 32767, 32768, 65535}
  Postbytes = {1, 6, 8, 48, 64, 127, 128, 129, 255}
\* IdleLoop
  Bodies <- ListWalk
  BUDGET = 60
  CALLS = 2
SPECIFICATION ProcessorSpec
INVARIANT SkipIsInterpreting

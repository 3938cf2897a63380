CONSTANTS
  Byte <- Tags
  RX_SIZE = 2
  TX_SIZE = 2
  W = 8
  START = 6
  POP_MAX = 2
  MaxTx = 2
  MaxRx = 2
  MaxSession = 2
  MaxEpoch = 1
  BACKOFF_MIN = 1
  BACKOFF_MAX = 2
SPECIFICATION DwSpec
CHECK_DEADLOCK FALSE
INVARIANT NoStaleReply

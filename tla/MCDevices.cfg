CONSTANTS
\* AudioFeed: a ring of six samples, indices that wrap
  AUDIO_RING_SIZE = 6
  AUDIO_FILL_LIMIT = 5
  AUDIO_FILL_TARGET = 4
  AUDIO_STRIDE_ONE = 2
  STRIDES = {2, 3}
  INDEX_MOD = 12
  AUDIO_DMA_WORDS = 2
  AUDIO_DMA_BUFS = 3
  BURST = 1
  LATE = 1
  MaxSamples = 13
\* Acia
  RING_SIZE = 2
  INT_HALF = 4
  BYTE_TIMES = {1, 3}
  TICKS = {2}
  MaxSent = 2
  MaxWritten = 2
\* Wifi
  SSIDS = {home, cafe}
  HOSTS = {server}
  NONE = none
  WIFI_CONNECT_TIMEOUT = 2
\* Vhd
  f1 = f1
  a = a
  zero = zero
  File <- MCFile
  VHD_MAX = 2
  Val <- MCVal
  Zero = zero
  Junk = Junk
  NoVal = NoVal
  NoFile = NoFile
  NoHandle = NoHandle
  Fault = {"open", "read_only", "seek", "read", "write", "flush"}
CONSTRAINT OneDriveEach
VIEW MCView
SPECIFICATION DevicesSpec
INVARIANTS
  SoundInOrder
  SerialFaithful
  RadioAndBus
  VhdInv
  CleanIsOnCard
PROPERTY ReadsBack

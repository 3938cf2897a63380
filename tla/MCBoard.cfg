\* Machine
CONSTANTS
  NoPage = NoPage
  NullPage = NullPage
  Scenes <- MCScenes
\* GimeRender
  ViewWrites <- MCViewWrites
  VRAM_SIZE = 1024
  Vram <- MCVram
  Font <- MCFont
  FIRST = 900
  RANK = 4
SPECIFICATION BoardSpec
INVARIANTS
  DecodersAgree
  FrameShape
  TimerKeepsRate
  MixerFollowsPins
  RenderersAgree
PROPERTY FieldShape

CONSTANTS
  SSC_CMDQ_SIZE = 4
  SSC_SMP_SIZE = 2
  SSC_AHEAD = 1
  SSC_BATCH = 2
  INDEX_MOD = 8
  MaxData = 3
  MaxCtrl = 2
SPECIFICATION FairSscSpec
INVARIANTS
  RingsSafe
  ReadyFaithful
PROPERTY ReadyReturns

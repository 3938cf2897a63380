CONSTANTS
  MaxRequests = 3
  KEYQ = 2
SPECIFICATION Spec
INVARIANT SuccessMeansExecuted

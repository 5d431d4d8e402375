SPECIFICATION Spec
CONSTANTS
  Scenarios <- FlushAndFail
  QueueDepth = 1
  None = None
INVARIANTS
  ReturnedOnce

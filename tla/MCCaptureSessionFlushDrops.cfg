SPECIFICATION Spec
CONSTANTS
  Scenarios <- FlushAtStill
  QueueDepth = 1
  None = None
INVARIANTS
  NothingAbandoned

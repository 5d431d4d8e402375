SPECIFICATION FairSpec
CONSTANTS
  Buffers = {b1, b2}
  Threads = {t1, t2}
  QueueDepth = 2
  MaxTimeouts = 2
  None = None
INVARIANTS
  FimcSourceMapped
  NoOverwriteWhileReading
  HeldIsExact
PROPERTIES
  StopTerminates
  OwnedIsGivenBack

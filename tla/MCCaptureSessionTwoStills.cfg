SPECIFICATION Spec
CONSTANTS
  Scenarios <- TwoStills
  QueueDepth = 1
  None = None
INVARIANTS
  StopWakesDequeue

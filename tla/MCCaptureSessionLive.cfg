SPECIFICATION FairSpec
CONSTANTS
  Scenarios <- LiveScenarios
  QueueDepth = 1
  None = None
PROPERTIES
  EveryRequestReturns
  CallsReturn

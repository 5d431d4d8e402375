SPECIFICATION Spec
CONSTANTS
  Scenarios <- SafetyScenarios
  QueueDepth = 1
  None = None
INVARIANTS
  NothingLost
  ReservationsAreHeld
  ShutterOrderOfStills
PROPERTIES
  FlushReturnsAll
  ContractSpec

SPECIFICATION FairSpec
CONSTANTS
  Outputs = {earpiece, speaker}
  Inputs = {mic}
  Earpiece = earpiece
  Speaker = speaker
  Scenarios <- Sessions
  None = None
INVARIANTS
  StreamLockIsOwn
  StandbyIsSilent
  PathIsCurrent
  RouteReachesModem
PROPERTIES
  CallsReturn
CHECK_DEADLOCK FALSE

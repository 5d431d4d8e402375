SPECIFICATION MCSpec
CONSTANTS
  Configurations <- StreamLists
  SetupFaults = {"drain", "scratch", "nodes", "control", "start", "picture"}
  MaxConfigures = 2
  MaxFlushCalls = 1
  MaxSetupRequests = 2
  MaxSetupFaults = 1
  SettingsRequests <- RequestKinds
  Scans = {1, 2}
  Refusable = {"scene", "focus"}
  Freed = {"scene"}
  MaxSettings = 3
  MaxSettingsMishaps = 1
  MaxTorchCalls = 3
  MaxOpens = 3
  MaxTorchFaults = 2
  Stills = {1}
  StillAttributes <- StillKinds
  NodeFaults = {}
  MaxNodeCalls = 0
  MaxNodeFaults = 0
INVARIANTS
  ExposureReachesSensor
CHECK_DEADLOCK FALSE

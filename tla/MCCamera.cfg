SPECIFICATION MCSpec
CONSTANTS
  Configurations <- StreamLists
  SetupFaults = {"drain", "scratch", "nodes", "control", "start", "picture"}
  MaxConfigures = 2
  MaxFlushCalls = 1
  MaxSetupRequests = 2
  MaxSetupFaults = 1
  SettingsRequests <- RequestKinds
  Scans = {1, 2}
  Refusable = {"scene", "focus"}
  Freed = {"scene"}
  MaxSettings = 3
  MaxSettingsMishaps = 1
  MaxTorchCalls = 3
  MaxOpens = 3
  MaxTorchFaults = 2
  Stills = {1, 2}
  StillAttributes <- StillKinds
  NodeFaults = {"open", "s_fmt", "memory", "map_picture", "streamon", "streamoff", "capture",
    "poll", "picture_thread", "encode", "data", "preview_thread", "preview"}
  MaxNodeCalls = 4
  MaxNodeFaults = 1
INVARIANTS
  ConfiguredIsComplete
  NothingRunsAcrossReconfigure
  RouteIsReady
  SettingsReachSensor
  CancelStands
  RotationOfStill
  NodesAreFree
  PictureReadsItsOwn
  StillIsWhole
  TorchStatusIsTrue
CHECK_DEADLOCK FALSE

SPECIFICATION MCSpec
CONSTANTS
  RilTokens = {1, 2}
  MaxRadioChanges = 1
  NoCell = 0
  SapTokens = {1, 2, 3}
  MaxNoMemory = 2
  Nobody = 0
  Serials = {1, 2}
  MaxResponses = 3
  CatCommands = {c1}
  NoCat = NoCat
  Configs <- Mixers
  RoutedDevices <- Asked
  Refusable <- Refusing
  MaxMixerFaults = 1
  GpsClients = {framework}
  NoClient = NoClient
  GpsFixes <- Positions
  GpsTimes = {10, 40, 71}
  MaxFixes = 3
INVARIANTS
  AndroidIsCurrent
  ImeiSurvives
  SapExchangesAreExact
  SapStateTracksLink
  JavaAnsweredOnce
  ControlsFollowRoutes
  HeldPositionIsFresh
PROPERTIES
  EveryRilRequestAnswered
  SapEveryRequestAnswered
CHECK_DEADLOCK FALSE

SPECIFICATION Spec
CONSTANTS
  DebounceDelay = 1
  NoiseFilterDelay = 1
  HoldTime = 3
  RepeatOnHold = 0
  MulticlickTime = 4
  MostClicks = 2
  MostHolds = 1
  Elapsed = {1}
  Configurations <- ServerConfigurations
  ClicksTold = 2
  ActiveActions <- MCActions
  MatchSequences <- MCSequences
  SequenceSize = 2
  MarginPart = 2
  LeastMargin = 2
  LeastWait = 3
  FirstWait = 3
  WordRange = 9
  CounterRange = 4
  LongestGap = 10
  MostGaps = 3
  SendOrder <- Order
  TimerChannels = {"a"}
  ChannelValues <- TwoValues
  RelayKinds = {"relay", "light", "virtual", "output", "bistable", "blind"}
  Durations = {0, 2}
  MinDuration = 3
  StatusPulse = 1
  ReadTime = 1
  Second = 2
  MostLate = 2
  MostLit = 5
  MostSwitched = 2
  RgbwKinds = {"rgbw", "rgb", "dimmer"}
  Brightest = 3
  ButtonStep = 2
  MinIteration = 1
  Dimmed = 1
  IterationDelay = 2
  ServerLevels = {0, 3}
  Hues = {0, 1}
  ReportDelay = 0
  FadeKinds = {"rgbw", "rgb", "dimmer"}
  FadeTimes = {0, 5}
  Delays = {1, 3}
  Top = 12
  MostRed = 5
  Reds = {0, 5}
  MostLevel = 3
  FadeLevels = {0, 3}
  Limits <- MCLimits
  SensorKinds = {"thermometer", "ds18b20", "dht", "si7021", "sht3x", "bme280", "distance", "counter", "binary"}
  Readings = {3, 8}
  MostRetries = 3
  Corrections <- MCCorrections
  Conditions <- MCConditions
  CharRange = 6
  CharSigned = FALSE
  Echoes = {0, 2, 7}
  InRange <- NearAndFar
  OutRange <- TenAndNothing
  ImpulseGap = 1
  MostImpulses = 6
  MeterKinds = {"single", "three", "parsed"}
  Phases = {1, 2}
  PhaseReadings <- MCPhases
  OverLimit = 6
  Coarse = 2
  MeterConditions <- MCMeterConditions
  Inverters = {"afore", "fronius", "solaredge"}
  Reports <- MCReports
  MostTries = 1
  ReplyTimeout = 1
  Addresses = 2
  SocketBound = 1
  ConfigFiles <- MCConfigFiles
  FileNames = {"f", "g"}
  Contents <- MCContents
  MostWrites = 2
INVARIANTS
  ControlsTypeOK
  ServerKnows
  ChannelShowsCircuit
  RelayTimes
  LightsAreRight
  ReadingsAreShown
PROPERTIES
  ServerCatchesUp
  NoiseFiltered
  LocalActionOnce
  CrossingFires
  ParsedIsSaid

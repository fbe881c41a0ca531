SPECIFICATION ServicesSpec
CONSTANTS
  Second = 2
  PingGap = 4
  Margin = 2
  Grace = 3
  Timeouts <- MCTimeouts
  ActivityTimeout = 5
  LoopBound = 3
  Latency = 3
  AgeCap = 20
  DataSizes = {1, 3, 4}
  LongestData = 3
  ChunkSize = 10
  BufferMax = 13
  QueueSize = 2
  RrIds = 4
  MostCalls = 3
  MostFaults = 2
  CaptionSizes = {0, 7, 201, 401, 402}
  PackCounts = {0, 1, 2, 20, 21}
  NotSet = NotSet
  BufferSize = 440
  MostPosts = 2
  CustomValues <- MCCustom
  MostIdentities = 2
  Edits <- MCEdits
  ValueLength = 30
  RecvSizes = {1, 499}
  Layouts <- Firmwares
  SizeBound = 3
  Values = {v0, v1}
  Default = v0
  Garbled = Garbled
  Partitions = {p0, p1}
  Factory <- MCFactory
  Offered <- MCOffered
  Replies <- MCReplies
  MostUpdates = 3
  MostEvents = 4
  MostSetups = 3
  MostTried = 1
  LogSize = 12
  Texts <- MCTexts
  Rhythms <- MCRhythms
  MostLogs = 2
  MostOrders = 1
  SecondMs = 2
  UpdateGap = 4
  Width = 9
  LongWidth = 29
  HalfInt = 3
  MostTime = 16
  MostDelay = 1
  ValueSize = 14
  Measurements = 2
  Given <- MCGiven
  MostValues = 3
  MostIdentitiesMade = 2
  Causes = {activity, server}
INVARIANTS
  ServicesTypeOK
  KeepAlive
  SilenceIsJudged
  TakenInOrder
  PackedIsUnpacked
  SettingsAreKept
  PageKeepsSettings
  BootsVerified
  WifiTasksAgree
  DriversAgree
  DeviceTells
PROPERTIES
  EachIsTaken
  FormIsStored
  Refines
  UnchangedSurvives
CHECK_DEADLOCK FALSE

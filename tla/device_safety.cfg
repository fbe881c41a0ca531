SPECIFICATION Spec
CONSTANTS
  ConnectWait = 2
  NotReadyWait = 1
  NotReadyLimit = 2
  SetupPeriod = 2
  ResetOn = 3
  IterateFailWait = 2
  RegTimeout = 2
  RegTimeoutWait = 1
  NokWait = 2
  VersionErrorWait = 2
  CfgModeTimeout = 2
  RestartDelay = 2
  MaxSlip = 1
  LoopGap = 1
  AgeCap = 4
  FailBound = 4
  BufferBound = 6
  BootModes <- NormalModes
  ServerCalls <- NormalCalls
  LocalActions <- NormalActions
  WebRequests = {}
INVARIANTS TypeOK SetupNotStarved ResetThresholdNotSkipped FreshResultAgrees RegistersOnce
PROPERTIES WaitsAreKept

SPECIFICATION FairSpec
CONSTANTS
  ConnectWait = 1
  NotReadyWait = 1
  NotReadyLimit = 1
  SetupPeriod = 2
  ResetOn = 3
  IterateFailWait = 1
  RegTimeout = 3
  RegTimeoutWait = 1
  NokWait = 1
  VersionErrorWait = 1
  CfgModeTimeout = 2
  RestartDelay = 2
  MaxSlip = 1
  LoopGap = 1
  AgeCap = 5
  FailBound = 4
  BufferBound = 5
  BootModes <- NormalModes
  ServerCalls <- RecoveryCalls
  LocalActions = {}
  WebRequests = {}
PROPERTY Recovers

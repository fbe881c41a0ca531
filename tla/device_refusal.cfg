SPECIFICATION Spec
CONSTANTS
  ConnectWait = 2
  NotReadyWait = 1
  NotReadyLimit = 2
  SetupPeriod = 2
  ResetOn = 3
  IterateFailWait = 2
  RegTimeout = 3
  RegTimeoutWait = 1
  NokWait = 2
  VersionErrorWait = 3
  CfgModeTimeout = 3
  RestartDelay = 2
  MaxSlip = 1
  LoopGap = 1
  AgeCap = 5
  FailBound = 4
  BufferBound = 4
  BootModes <- NormalModes
  ServerCalls <- NormalCalls
  LocalActions = {}
  WebRequests = {}
PROPERTY TimeoutMeansNoReply

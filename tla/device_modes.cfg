SPECIFICATION FairSpec
CONSTANTS
  ConnectWait = 1
  NotReadyWait = 1
  NotReadyLimit = 0
  SetupPeriod = 2
  ResetOn = 0
  IterateFailWait = 1
  RegTimeout = 1
  RegTimeoutWait = 1
  NokWait = 1
  VersionErrorWait = 1
  CfgModeTimeout = 2
  RestartDelay = 2
  MaxSlip = 0
  LoopGap = 1
  AgeCap = 3
  FailBound = 0
  BufferBound = 2
  BootModes <- ConfigModes
  ServerCalls <- ConfigCalls
  LocalActions <- ConfigActions
  WebRequests <- ConfigRequests
INVARIANT ConfigModeIsOffline
PROPERTIES RestartComes ConfigModeTimesOut

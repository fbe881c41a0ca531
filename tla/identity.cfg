SPECIFICATION WebSpec
CONSTANTS
  NotSet = NotSet
  BufferSize = 440
  MostPosts = 2
  CustomValues <- MCCustom
  MostIdentities = 2
  Edits <- MCEdits
  ValueLength = 30
  RecvSizes = {499}
PROPERTY GuidIsKept
CHECK_DEADLOCK FALSE

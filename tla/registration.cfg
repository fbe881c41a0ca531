SPECIFICATION CallsSpec
CONSTANTS
  CaptionSizes = {0, 401}
  PackCounts = {1, 20}
INVARIANT RegistrationFits
CHECK_DEADLOCK FALSE

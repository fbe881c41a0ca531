SPECIFICATION FairSpec
CONSTANTS
  Variants <- AllVariants
  Full = 2
  Comfort = {1}
  TravelTimes <- Times
  CalibrationExtra = 1
  OperationTimeout = 3
  Pause = 1
  PulseTime = 1
  AgeCap = 4
INVARIANTS TypeOK MotorFollows
PROPERTIES PauseBetween LastCommandWins

SPECIFICATION RgbwSpec
CONSTANTS
  RgbwKinds = {"rgbw", "rgb", "dimmer"}
  Brightest = 13
  ButtonStep = 5
  MinIteration = 5
  Dimmed = 4
  IterationDelay = 5
  ServerLevels = {0, 8}
  Hues = {0}
  ReportDelay = 0
PROPERTY IterationDims

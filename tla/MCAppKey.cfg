SPECIFICATION FairSpec
CONSTANTS
  PwrKey = pwr
  GpioKeys = {}
  Builds <- MCBuilds
  LongPress = 3
  LongLongPress = 4
  DoubleClick = 2
  Repeat = 2
  MaxClicks = 2
  MaxCloseRuns = 1
  EventLimit = 3
  MaxRaced = 1
  MaxStray = 2
INVARIANTS CountOfEvents FewKeyMails
PROPERTIES BlockEnds

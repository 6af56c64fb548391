SPECIFICATION KeySpec
CONSTANTS
  fn1 = fn1
  fn2 = fn2
  PwrKey = pwr
  GpioKeys = {}
  Builds <- MCOneKey
  LongPress = 3
  LongLongPress = 4
  DoubleClick = 2
  Repeat = 1
  MaxClicks = 2
  MaxCloseRuns = 1
INVARIANTS TapsTogether

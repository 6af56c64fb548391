SPECIFICATION KeyFairSpec
CONSTANTS
  fn1 = fn1
  fn2 = fn2
  PwrKey = pwr
  GpioKeys = {fn1, fn2}
  Builds <- MCBuilds
  LongPress = 3
  LongLongPress = 4
  DoubleClick = 2
  Repeat = 1
  MaxClicks = 2
  MaxCloseRuns = 1
INVARIANTS KeyAsserts NoKeyForgotten CountsTaps ClosedIsQuiet
PROPERTIES KeysSettle KeysNoticed

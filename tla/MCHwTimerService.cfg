SPECIFICATION FairSpec
CONSTANTS
  t1 = t1
  t2 = t2
  t3 = t3
  Timers = {t1, t2}
  NoTimer = NoTimer
  Durations = {0, 2, 4}
  MaxLatency = 2
  MaxDrift = 2
PROPERTIES TimerServiceSpec

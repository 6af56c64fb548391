SPECIFICATION NvSpec
CONSTANTS
  main = main
  bak = bak
  log = log
  Main = main
  Bak = bak
  Sectors = {main, bak, log}
  Owner <- OwnerWithLog
  NumMods = 2
  NumCells = 2
  Values = {0, 1, 2}
  Blank = Blank
  Mixed = Mixed
  NoSector = NoSector
  OpraLen = 2
  BuffLen = 1
  SyncDuringCpBoot = FALSE
  NoMod = NoMod
  NumThreads = 1
  SetterPreempts = TRUE
  MaxRecord = 2
INVARIANTS NvNoAssert NeverRollsBack
PROPERTIES UsesQueueAsMeant

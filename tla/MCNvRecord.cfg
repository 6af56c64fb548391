SPECIFICATION NvFairSpec
CONSTANTS
  main = main
  bak = bak
  log = log
  Main = main
  Bak = bak
  Sectors = {main, bak}
  Owner <- OwnerAlone
  NumMods = 1
  NumCells = 2
  Values = {0, 1, 2}
  Blank = Blank
  Mixed = Mixed
  NoSector = NoSector
  OpraLen = 1
  BuffLen = 1
  SyncDuringCpBoot = FALSE
  NoMod = NoMod
  NumThreads = 1
  SetterPreempts = FALSE
  MaxRecord = 2
INVARIANTS NothingForgotten
PROPERTIES NvSaves

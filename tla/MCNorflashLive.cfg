SPECIFICATION FairSpec
CONSTANTS
  s1 = s1
  s2 = s2
  s3 = s3
  v1 = v1
  Sectors = {s1, s2, s3}
  NumCells = 1
  Values = {v1}
  Blank = Blank
  Mixed = Mixed
  NoSector = NoSector
  NumMods = 2
  Owner <- OwnerTwoOne
  OpraLen = 2
  BuffLen = 1
  SyncDuringCpBoot = TRUE
  NoMod = NoMod
CHECK_DEADLOCK FALSE
INVARIANTS IInv
PROPERTIES QueueDrains SyncEnds

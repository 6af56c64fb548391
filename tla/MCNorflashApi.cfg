SPECIFICATION Spec
CONSTANTS
  s1 = s1
  s2 = s2
  s3 = s3
  v1 = v1
  Sectors = {s1, s3}
  NumCells = 2
  Values = {v1}
  Blank = Blank
  Mixed = Mixed
  NoSector = NoSector
  NumMods = 2
  Owner <- OwnerOneOne
  OpraLen = 3
  BuffLen = 1
  SyncDuringCpBoot = FALSE
  NoMod = NoMod
INVARIANTS NoAssert SuspendedIsCurrent PoolsMatchLists SyncDrainsQueue ReadsWhatIsStored
PROPERTIES ReadsAreAtomic LockedNodeIsStable

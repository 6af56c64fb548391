SPECIFICATION Spec
CONSTANTS
  m1 = m1
  m2 = m2
  s1 = s1
  s2 = s2
  s3 = s3
  Mods = {m1, m2}
  Sectors = {s1, s2, s3}
  Owner <- OwnerTwoOne
  OpraLen = 4
  BuffLen = 2
  AnyErase = FALSE
  NULL = NULL
INVARIANTS ListsEnd NoFreedNodeListed UsedOnOneList CurIsTail EraseWalkDeletesPending

SPECIFICATION MCSpec
CONSTANTS
  j1 = j1
  j2 = j2
  j3 = j3
  p1 = p1
  p2 = p2
  Jobs = {j1, j2, j3}
  Paths = {p1, p2}
  Dest <- MCDest
  Route <- MCRoute
  Report <- MCReport
  FileSize = 2
  TagSize = 1
  Capacity = 4
  MinFree = 1
  ContentLength = 11
  ThreadCounts = {1, 2, 3, 4}
INVARIANTS
  StorageTypeOK
  InFlightKept
  SpaceReserved
  IntervalsDenote
  ProgressExact
CHECK_DEADLOCK FALSE

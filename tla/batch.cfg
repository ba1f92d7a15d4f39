SPECIFICATION FairSpec
CONSTANTS
  MaxSongs = 4
  Requests <- MCRequests
INVARIANTS
  TypeOK
  SlotsAligned
  PrefetchesTriggered
  CountsAddUp
  TracksDistinct
PROPERTIES
  WorkerEnds
  PrefetchesEnd
CHECK_DEADLOCK FALSE

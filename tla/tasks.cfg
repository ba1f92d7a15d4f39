SPECIFICATION FairSpec
CONSTANTS
  Keys = {k1}
  Starters = {h1, h2}
  Readers = {r1}
  Permits = 1
  MaxTasks = 2
INVARIANTS
  TypeOK
  DedupNamesRunning
  OneWorkerPerKey
  DoneKeepsZip
  ZipHasOwner
PROPERTIES
  TerminalIsFinal
  WorkersEnd
  TasksSettle
CHECK_DEADLOCK FALSE

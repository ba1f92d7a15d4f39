SPECIFICATION FairSpec
CONSTANTS
  Keys = {k1}
  Starters = {h1}
  Readers = {}
  Permits = 1
  MaxTasks = 1
PROPERTY
  CancelSettles
CHECK_DEADLOCK FALSE

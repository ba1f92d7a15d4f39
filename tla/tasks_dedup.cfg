SPECIFICATION Spec
CONSTANTS
  Keys = {k1}
  Starters = {h1, h2}
  Readers = {}
  Permits = 1
  MaxTasks = 2
INVARIANT
  OneActivePerKey
CHECK_DEADLOCK FALSE

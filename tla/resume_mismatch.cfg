SPECIFICATION Spec
CONSTANTS
  Sizes = {2, 3}
  Thresholds = {1}
  Budget = 1
  MaxRetries = 0
  MaxLive = 1
  MaxJobs = 1
INVARIANT
  MismatchRestartsWhole

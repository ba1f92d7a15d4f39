SPECIFICATION Spec
CONSTANTS
  Sizes = {2}
  Thresholds = {1}
  Budget = 1
  MaxRetries = 1
  MaxLive = 2
  MaxJobs = 2
INVARIANT
  FallbackRedownloads

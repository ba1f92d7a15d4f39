SPECIFICATION FairSpec
CONSTANTS
  Sizes = {2, 3}
  Thresholds = {2, 3}
  Budget = 1
  MaxRetries = 1
  MaxLive = 2
  MaxJobs = 2
INVARIANTS
  TypeOK
  FsmFollowsDriver
  ManifestNeverAhead
  HolesOnlyByLength
  LengthIsProgress
  ResumeWithinWritten
PROPERTY
  JobsTerminate
  ImplementsDownload

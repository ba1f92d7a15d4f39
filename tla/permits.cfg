SPECIFICATION MCSpec
CONSTANTS
  Actors = {"async", "sync", "gather", "batch", "1", "2"}
  Kind <- MCKind
  Admins = {d1, d2}
  Caps = {1, 3}
  Resized = "parse"
  Limit = 1
INVARIANTS
  TypeOK
  GaugeCountsGuards
  PermitsMatchCap
PROPERTY
  RequestsEnd
CHECK_DEADLOCK FALSE

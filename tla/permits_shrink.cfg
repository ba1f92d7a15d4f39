SPECIFICATION MCSpec
CONSTANTS
  Actors = {"1", "2"}
  Kind <- MCKind
  Admins = {d1}
  Caps = {1, 2}
  Resized = "parse"
  Limit = 1
INVARIANT
  DrainedWithinConfig
CHECK_DEADLOCK FALSE

SPECIFICATION MCSpec
CONSTANTS
  MaxAttempts = 2
  Chunks = 2
  Callers = {c1, c2}
  Passwords = {"w1", "w2"}
  Configs = {"tuned"}
  Absent = Absent
  Handlers = {h1, h2}
  MaxTotal = 3
  Tasks = {t1, t2}
  Users = {u1, u2, u3}
  MaxUsers = 1
  MaxClock = 2
  MaxMeetings = 2
  Fetches = {f1, f2}
  Covers = {v1, v2, v3}
  Sizes = {1, 2}
  Ttls = {1, 2}
  MaxEpoch = 1
  MaxOverlaps = 1
INVARIANTS
  ServicesTypeOK
  BestAvailable
  RiskCodesKept
  PasswordAgrees
  ConfigLoadable
  DirtyOrSaved
  WatcherCatchesUp
  CachesBounded
CHECK_DEADLOCK FALSE

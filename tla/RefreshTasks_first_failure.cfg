SPECIFICATION Spec
SYMMETRY Symmetry
INVARIANTS FailedFirstCheckIsRepeated
CONSTANTS
  Domain = {d1}
  Worker = {w1}
  Scheduler = {s1}
  Caller = {}
  Key = {}
  BackfillKey = backfill
  Token = {t1, t2}
  NoToken = NoToken
  MaxAttempts = 2
  ScheduledMaxAttempts = 2
  Lease = 1
  Interval = 2
  TTL = 0
  RetryBase = 1
  RetryMax = 2
  MaxCooldown = 2
  SkipLocked = FALSE
  Stalls = FALSE
  MaxTasks = 2
  MaxCrashes = 0
  Horizon = 5
CHECK_DEADLOCK FALSE

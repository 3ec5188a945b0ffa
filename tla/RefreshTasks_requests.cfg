SPECIFICATION Spec
SYMMETRY Symmetry
INVARIANTS OneExecutor KeyNamesOneTask
PROPERTIES AutomaticChecksKeepPhase RequestsKeepCooldown
CONSTANTS
  Domain = {d1}
  Worker = {w1, w2}
  Scheduler = {s1}
  Caller = {c1, c2}
  Key = {k1}
  BackfillKey = k1
  Token = {t1, t2}
  NoToken = NoToken
  MaxAttempts = 2
  ScheduledMaxAttempts = 2
  Lease = 2
  Interval = 2
  TTL = 1
  RetryBase = 1
  RetryMax = 2
  MaxCooldown = 2
  SkipLocked = FALSE
  Stalls = FALSE
  MaxTasks = 2
  MaxCrashes = 0
  Horizon = 3
CHECK_DEADLOCK FALSE

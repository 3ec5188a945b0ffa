SPECIFICATION Spec
SYMMETRY Symmetry
INVARIANTS OneActiveTask OneWriter
PROPERTIES OnlyOwnerSettles SuccessNeverRegresses ImplementsLifecycle
CONSTANTS
  Domain = {d1}
  Worker = {w1, w2}
  Scheduler = {s1}
  Caller = {}
  Key = {}
  BackfillKey = backfill
  Token = {t1, t2, t3}
  NoToken = NoToken
  NoWorker = NoWorker
  MaxAttempts = 2
  ScheduledMaxAttempts = 2
  Lease = 1
  Interval = 1
  TTL = 0
  RetryBase = 1
  RetryMax = 2
  MaxCooldown = 1
  SkipLocked = TRUE
  Stalls = TRUE
  MaxTasks = 2
  MaxCrashes = 1
  Horizon = 2
CHECK_DEADLOCK FALSE

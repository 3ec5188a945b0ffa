SPECIFICATION GateSpec
INVARIANTS TimelyRequests RetryDelayIsCapped
PROPERTIES CooldownRunsOut GateReopens
CONSTANTS
  Caller = {c1, c2}
  Token = {t1, t2, t3}
  NoToken = NoToken
  Lease = 2
  RetryBase = 1
  RetryMax = 3
  MaxRetryAfter = 2
  MaxFailures = 3
  MaxCrashes = 2

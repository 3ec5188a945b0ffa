SPECIFICATION OutboxSpec
INVARIANTS OneSender
PROPERTIES ImplementsDelivery EventuallyFinished
CONSTANTS
  Message = {m1}
  Notifier = {n1, n2}
  Token = {t1, t2, t3}
  NoMessage = NoMessage
  NoToken = NoToken
  NoNotifier = NoNotifier
  Lease = 2
  MaxAttempts = 3
  RetryBase = 1
  RetryMax = 2
  MaxRetryAfter = 3
  MaxCrashes = 2
  MaxToggles = 2

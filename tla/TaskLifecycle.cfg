SPECIFICATION Spec
PROPERTIES EventuallySettled
CONSTANTS
  Worker = {w1, w2, w3}
  NoWorker = NoWorker
  MaxAttempts = 4
  Lease = 3
  Period = 5
  Backoff = 3
  Cooldown = 3

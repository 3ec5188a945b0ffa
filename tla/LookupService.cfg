SPECIFICATION Spec
INVARIANTS AnswersAreCurrent DiscoversOnce LocksAreReleased
PROPERTIES CacheNeverGoesBack
SYMMETRY Symmetry
CONSTANTS
  Process = {p1, p2}
  Lookup = {l1, l2}
  None = None
  CacheTTL = 2
  NotFoundTTL = 1
  EndpointTTL = 1
  Horizon = 1
  Referral = {"server"}
  Bootstrap = {"urls"}

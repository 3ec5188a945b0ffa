SPECIFICATION Spec
INVARIANTS BanEndsSessions
SYMMETRY Symmetry
CHECK_DEADLOCK FALSE
CONSTANTS
  User = {u}
  Session = {s1, s2}
  Token = {t1, t2, t3}
  Request = {r1, r2}
  None = None
  RefreshTTL = 2
  MaxVersion = 1

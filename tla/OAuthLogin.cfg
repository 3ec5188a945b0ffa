SPECIFICATION Spec
INVARIANT LoginMethodRemains
PROPERTIES UnlinkingEndsSessions LinksEndWithTheirSession
SYMMETRY Symmetry
CHECK_DEADLOCK FALSE
CONSTANTS
  User = {u1, u2}
  Session = {s1, s2}
  Attempt = {a1}
  Request = {r1, r2}
  Provider = {p1, p2}
  Subject = {x}
  None = None
  MaxVersion = 1

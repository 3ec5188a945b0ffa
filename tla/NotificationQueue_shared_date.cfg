SPECIFICATION Spec
PROPERTIES DomainIsWarned
SYMMETRY Symmetry
CHECK_DEADLOCK FALSE
CONSTANTS
  Absent = Absent
  Rule = {r1}
  Domain = {d1, d2}
  AnyDomain = AnyDomain
  DaysBefore = {0, 1}
  MaxDay = 2
  MaxChecks = 2

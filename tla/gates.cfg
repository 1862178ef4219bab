SPECIFICATION Spec
CONSTANTS
  Permit = {p1}
  Worker = {}
  Scanned = {p1}
  Request = {r1, r2}
  Scan = {s1, s2}
  EnforceSingle = TRUE
  CountBound = 3
INVARIANTS
  TypeOK
  UseBound
PROPERTIES
  EndedUndoneOnlyLate
  VisitorChased
CHECK_DEADLOCK FALSE

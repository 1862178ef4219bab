SPECIFICATION Spec
CONSTANTS
  Permit = {p1, p2}
  Worker = {p1, p2}
  Scanned = {}
  Request = {r1, r2}
  Scan = {s1}
  EnforceSingle = TRUE
  CountBound = 3
INVARIANTS
  SingleActive
  PermitBacked
SYMMETRY Symmetric
CHECK_DEADLOCK FALSE

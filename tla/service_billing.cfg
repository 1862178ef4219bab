SPECIFICATION Spec
CONSTANTS
  Ticket = {k1}
  Fee = {f1, f2}
  Invoice = {i1, i2}
  Request = {r1, r2}
INVARIANTS
  TypeOK
  RevenueHonest
PROPERTIES
  RechargedOnlyLate
  CancelledStays
CONSTRAINT OneSide
SYMMETRY Symmetric
CHECK_DEADLOCK FALSE

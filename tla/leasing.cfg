SPECIFICATION Spec
CONSTANTS
  Tenant = {t1, t2}
  NoTenant = NoTenant
  Request = {r1, r2}
  RentRequest = {a1}
  MaxLease = 3
  MaxPeriod = 2
  Now = 2
  MaxCall = 5
INVARIANTS
  TypeOK
  OverlapOnlyByRace
  ChainLinear
  AccessFollowsLease
PROPERTIES
  DeactivatedOnlyLate
  DecisionStands
SYMMETRY Symmetric
CHECK_DEADLOCK FALSE

SPECIFICATION Spec
CONSTANTS
  Device = {d1, d2}
  TakeoverOtp = TRUE
  MaxAttempts = 2
  MaxToken = 3
  MaxCall = 4
  MaxCode = 1
  MaxReset = 1
INVARIANTS
  TypeOK
  OneUsableSession
  RefusedOnlyWhenLost
  ResetEndsSessions
PROPERTY LockLiftedOnlyLate
SYMMETRY Symmetric
CHECK_DEADLOCK FALSE

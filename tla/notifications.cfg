\* One notification, two calls in flight, one of which may die.
CONSTANTS
  Note = {n1}
  Log = {l1, l2}
  Worker = {w1, w2}
  NoNote = NoNote
  MaxFail = 1
  MaxResend = 1
SPECIFICATION FairSpec
INVARIANTS
  TypeOK
  NoDuplicateDelivery
  AggregateHonest
PROPERTIES
  CancelledStaysUnsent
  DueIsTaken
  LogsSettle
CHECK_DEADLOCK FALSE

SPECIFICATION Spec
CONSTANTS
  Violation = {v1}
  Action = {a1, a2}
  Request = {r1, r2}
INVARIANTS
  TypeOK
  AnnulledFineNotPending
  PendingBound
  AppealFlagHonest
SYMMETRY Symmetric
PROPERTIES
  OutForGood
  DecisionStands

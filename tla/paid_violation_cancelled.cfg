SPECIFICATION Spec
CONSTANTS
  Violation = {v1}
  Action = {a1, a2}
  Request = {r1}
PROPERTY ResolvedNotCancelled

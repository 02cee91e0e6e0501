SPECIFICATION Spec
CONSTANTS
  Session = {s1, s2}
  Request = {q1, q2}
  Effect = "external_write"
  RequireApproval = TRUE
  HasReconciler = TRUE
  Approval = {a1, a2}
  MaxRuns = 2
  MaxCrashes = 1
  None = None
SYMMETRY Symmetry
INVARIANTS TypeOK OneRunPerApproval SucceededIsReal OwnRequestOnly

SPECIFICATION Spec
CONSTANTS
  Session = {s1}
  Request = {q1}
  Effect = "external_write"
  RequireApproval = TRUE
  HasReconciler = TRUE
  Approval = {a1, a2, a3}
  MaxRuns = 3
  MaxCrashes = 2
  None = None
INVARIANTS NoDuplicateEffect

SPECIFICATION Spec
CONSTANTS
  Session = {s1}
  Request = {q1}
  Effect = "internal_write"
  RequireApproval = TRUE
  HasReconciler = TRUE
  Approval = {a1}
  MaxRuns = 2
  MaxCrashes = 1
  None = None
INVARIANTS InternalWriteIsAtomic

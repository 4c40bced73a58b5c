CONSTANTS
  Workflow = {w, v, u}
  Single = {}
  Guest = {w}
  After <- RootFirst
  Beside <- OtherReviewers
  Proc = {p, q}
  Terminal = {t1, t2}
  None = None
  Commands = {"start", "finish", "cleanup", "retry"}
  MaxMishaps = 0
SYMMETRY PlanSymmetry
SPECIFICATION Spec
CHECK_DEADLOCK FALSE
INVARIANTS NoRoleWaitsInVain

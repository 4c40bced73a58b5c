CONSTANTS
  Resource = {rig}
  Owner = {o1, o2, o3}
  Activation = {a1, a2}
  None = None
  MaxRequests = 3
  MaxExecutors = 2
  MaxMishaps = 1
  FinishMayFail = FALSE
  ResolveRunning = TRUE
SYMMETRY OwnerSymmetry
SPECIFICATION Spec
CHECK_DEADLOCK FALSE
INVARIANTS TypeOK NoLostWakeup ExclusiveUse ServiceKnowsItsJobs
PROPERTIES GrantInArrivalOrder JobsNeverRerun ImplementsExclusive

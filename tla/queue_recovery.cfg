CONSTANTS
  Resource = {rig}
  Owner = {o1, o2}
  Activation = {a1}
  None = None
  MaxRequests = 3
  MaxExecutors = 2
  MaxMishaps = 2
  FinishMayFail = TRUE
  ResolveRunning = FALSE
SPECIFICATION FairSpec
CHECK_DEADLOCK FALSE
INVARIANTS RecoveryCommits UnverifiedIsBlocked
PROPERTIES EveryWaiterServed EveryJobSettles

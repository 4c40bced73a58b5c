CONSTANTS
  root = root
  follower = follower
  Resource = {rig}
  Owner = {root, follower}
  Activation = {a1}
  None = None
  MaxRequests = 1
  MaxExecutors = 1
  MaxMishaps = 0
  FinishMayFail = FALSE
  ResolveRunning = TRUE
  Scanner = {s1, s2}
  After <- Plan
  MissingLimit = 2
SPECIFICATION FairLinkSpec
CHECK_DEADLOCK FALSE
INVARIANT LinkTypeOK
PROPERTIES OnlyTheGoneAreCancelled CancellationIsWhole GoneIsCancelled

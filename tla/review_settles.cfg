CONSTANTS
  Reviewers = {r1}
  Coordinators = {c1}
  Manual = {m1}
  MaxCycles = 2
  MaxErrors = 2
  MaxCommits = 2
  MaxMishaps = 1
  Silent = {"manager"}
  Repeats = FALSE
  ResumesRetired = TRUE
  Blockers = {"manager"}
  None = None
SPECIFICATION FairSpec
CHECK_DEADLOCK FALSE
INVARIANTS ConsumedLast
 

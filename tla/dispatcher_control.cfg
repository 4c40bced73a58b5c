CONSTANTS
  Caller = {c1, c2}
  Service = {s1, s2}
  Job = {j1, j2}
  None = None
  MaxMishaps = 1
  MaxExecutors = 1
SPECIFICATION FairSpec
CHECK_DEADLOCK FALSE
INVARIANTS TypeOK ServesOnlyItsOwn
PROPERTIES StopWins StopCompleteIsTrue 

CONSTANTS
  Size = 2
  Orchestrated = {2}
  Watchers = {w1, w2, w3}
  MaxMishaps = 3
  None = None
SPECIFICATION FairSpec
CHECK_DEADLOCK FALSE
INVARIANT ToldIsWhole
 

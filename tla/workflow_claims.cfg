CONSTANTS
  Workflow = {w}
  Single = {}
  Guest = {}
  After <- NobodyAfter
  Beside <- NobodyAfter
  Proc = {p, q}
  Terminal = {t1, t2}
  None = None
  Commands = {"start", "finish", "cleanup"}
  MaxMishaps = 1
SPECIFICATION FairSpec
CHECK_DEADLOCK FALSE
INVARIANTS TypeOK NoAgentIsForgotten
PROPERTIES  StartingIsResolved

CONSTANTS
  Workflow = {w}
  Single = {w}
  Guest = {}
  After <- NobodyAfter
  Beside <- NobodyAfter
  Proc = {p, q}
  Terminal = {t1, t2}
  None = None
  Commands = {"start", "timeout", "finish", "resume", "restart", "acquire", "maintain"}
  MaxMishaps = 0
SPECIFICATION FairSpec
CHECK_DEADLOCK FALSE
PROPERTIES TimeoutIsFresh FinishedReleases

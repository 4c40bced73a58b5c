CONSTANTS
  Reviewers = {r1, r2}
  Coordinators = {c1}
  Manual = {}
  MaxCycles = 2
  MaxErrors = 2
  MaxCommits = 2
  MaxMishaps = 2
  Silent = {}
  Repeats = FALSE
  ResumesRetired = FALSE
  Blockers = {"manager"}
  None = None
SPECIFICATION Spec
SYMMETRY ReviewerSymmetry
CHECK_DEADLOCK FALSE
INVARIANTS TypeOK DeliveryIsApproved EveryCycleHasNewWork
PROPERTIES NoReviewerIsForgotten RunsThroughPhases

CONSTANTS
  Owners = {a, b}
  Singles = {a}
  MaxRequests = 2
  MaxTerminals = 2
  MaxMishaps = 1
  None = None
SPECIFICATION FairSpec
CHECK_DEADLOCK FALSE
PROPERTIES SupersededStays 

CONSTANTS
  Creators = {a}
  Attachers = {b}
  Removers = {r}
  Outcomes = {"completed", "cancelled"}
  MaxMishaps = 2
  None = None
SPECIFICATION Spec
CHECK_DEADLOCK FALSE
INVARIANT OwnedIsThere
PROPERTY NoCheckoutIsLost

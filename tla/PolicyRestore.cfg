SPECIFICATION RestoreSpec
CONSTANTS
  Contents = {p1, p2, broken}
  Valid = {p1, p2}
  Missing = Missing
  NoPolicy = NoPolicy
  KeyMayFail = FALSE
  MaxEdits = 2
INVARIANT RestoreIsConfirmed
CHECK_DEADLOCK FALSE

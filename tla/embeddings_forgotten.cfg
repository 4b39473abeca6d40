SPECIFICATION Spec
CONSTANTS
  Record = {r1}
  Profile = {p}
  NoProfile = none
  Worker = {w}
  Limit = 1
INVARIANTS ForgottenHaveNoVector
CHECK_DEADLOCK FALSE

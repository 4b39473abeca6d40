SPECIFICATION FairSpec
CONSTANTS
  Record = {r1, r2}
  Profile = {p, q}
  NoProfile = none
  Worker = {w}
  Limit = 2
INVARIANTS NoneLost
PROPERTIES EventuallyDerived
CHECK_DEADLOCK FALSE

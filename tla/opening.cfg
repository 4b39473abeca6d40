SPECIFICATION FairSpec
CONSTANTS
  p = p
  q = q
  old = old
  Process = {p, q, old}
  NoProcess = none
  Latest <- MCLatest
  Attempts = 2
  MaxDeaths = 2
INVARIANTS AppliedOnce OpenedIsMigrated SteadyTakesNoLock
PROPERTIES EveryoneOpens

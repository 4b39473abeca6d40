SPECIFICATION FairSpec
CONSTANTS
  gpd = gpd
  mac = mac
  o1 = o1
  o2 = o2
  Device = {gpd, mac}
  Source = gpd
  Offered <- GpdCaptures
  Record = {1}
  Origin = {o1}
  Tag = {}
  MaxEpoch = 2
  MaxSequence = 1
  MaxResets = 0
  MaxInFlight = 1
  Flagging = FALSE
  EmptyBump = TRUE
PROPERTIES RowsGetPromoted
CHECK_DEADLOCK FALSE

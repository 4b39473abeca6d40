SPECIFICATION FairSpec
CONSTANTS
  gpd = gpd
  mac = mac
  o1 = o1
  o2 = o2
  Device = {gpd, mac}
  Source = gpd
  Offered <- BothCapture
  Record = {1, 2}
  Origin = {o1, o2}
  Tag = {}
  MaxEpoch = 2
  MaxSequence = 1
  MaxResets = 0
  MaxInFlight = 1
  Flagging = TRUE
  EmptyBump = FALSE
INVARIANTS ReuseFailsClosed
PROPERTIES RowsGetPromoted PromotersSpreadAcknowledgements
CHECK_DEADLOCK FALSE

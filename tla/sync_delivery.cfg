SPECIFICATION Spec
CONSTANTS
  gpd = gpd
  mac = mac
  o1 = o1
  o2 = o2
  Device = {gpd, mac}
  Source = gpd
  Offered <- GpdCaptures
  Record = {1, 2}
  Origin = {o1, o2}
  Tag = {}
  MaxEpoch = 2
  MaxSequence = 2
  MaxResets = 0
  MaxInFlight = 1
  Flagging = TRUE
  EmptyBump = FALSE
SYMMETRY OriginSymmetry
INVARIANTS DivergencesResolve PromotedIsReplicated NeverStuck
PROPERTIES AcknowledgementsStick TombstonesStick
CHECK_DEADLOCK FALSE

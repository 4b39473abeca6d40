SPECIFICATION Spec
CONSTANTS
  gpd = gpd
  mac = mac
  o1 = o1
  o2 = o2
  Device = {gpd, mac}
  Source = gpd
  Offered <- GpdCaptures
  Record = {1}
  Origin = {o1}
  Tag = {t}
  MaxEpoch = 2
  MaxSequence = 2
  MaxResets = 1
  MaxInFlight = 1
  Flagging = FALSE
  EmptyBump = TRUE
INVARIANTS RowsExportable ReplicaCoversCursor CaughtUpConverges
PROPERTIES StreamImplemented RecordsImplemented
CHECK_DEADLOCK FALSE

SPECIFICATION Spec
CONSTANTS
  File = {f, g}
  Accepter = {a, b}
  MaxSize = 2
  Torn = torn
  Absent = absent
  NoDir = nodir
SYMMETRY Symmetry
INVARIANTS CurrentVerified SignedIsOneMoment ListingIsOfArtifact
PROPERTIES CurrentStable

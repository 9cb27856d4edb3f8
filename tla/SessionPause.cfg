SPECIFICATION FairSpec
CONSTANTS
  Proc = {"first", "r1", "r2", "r3"}
  First = "first"
  Overlap = FALSE
  MaxTrace = 3
  MaxAsked = 3
INVARIANTS
  PausesSound
  ArtifactsAreWhole
PROPERTIES
  RowSettles
CHECK_DEADLOCK FALSE

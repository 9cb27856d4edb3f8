SPECIFICATION Spec
CONSTANTS
  Proc = {"first", "r1", "r2", "r3"}
  First = "first"
  Overlap = FALSE
  MaxTrace = 2
  MaxAsked = 1
INVARIANTS
  BridgedWhenCompleted
CHECK_DEADLOCK FALSE

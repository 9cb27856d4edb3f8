SPECIFICATION Spec
CONSTANTS
  Thread = {"a1", "a2", "b1"}
  Proc = {"a", "b"}
  ProcOf <- MCProcOf
  Nobody = "nobody"
  Workspace = TRUE
  Mortal = {}
  PayloadMayFail = FALSE
  MaxPolls = 1
  MaxNest = 0
  Found = 0
  MaxSaves = 2
INVARIANTS
  NoStomp
CHECK_DEADLOCK FALSE

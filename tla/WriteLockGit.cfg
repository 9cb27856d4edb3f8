SPECIFICATION FairSpec
CONSTANTS
  Thread = {"a1", "a2", "b1"}
  Proc = {"a", "b"}
  ProcOf <- MCProcOf
  Nobody = "nobody"
  Workspace = FALSE
  Mortal = {"b"}
  PayloadMayFail = TRUE
  MaxPolls = 1
  MaxNest = 0
  Found = 0
  MaxSaves = 2
PROPERTIES
  ImplementsStore
  AcquireReturns
CHECK_DEADLOCK FALSE

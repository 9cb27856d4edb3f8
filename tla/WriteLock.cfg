SPECIFICATION FairSpec
CONSTANTS
  Thread = {"a1", "a2", "b1"}
  Proc = {"a", "b"}
  ProcOf <- MCProcOf
  Nobody = "nobody"
  Workspace = TRUE
  Mortal = {"b"}
  PayloadMayFail = TRUE
  MaxPolls = 0
  MaxNest = 1
  Found = 1
  MaxSaves = 2
INVARIANTS
  LockSound
PROPERTIES
  DeadLockReclaimed
CHECK_DEADLOCK FALSE

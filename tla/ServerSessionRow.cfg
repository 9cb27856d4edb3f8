SPECIFICATION Spec
CONSTANTS
  Client = {"c1", "c2"}
  MaxQueue = 3
  Cap = 2
  MaxPosted = 1
  MaxInbox = 1
INVARIANTS
  RowIsFinal
CHECK_DEADLOCK FALSE

SPECIFICATION FairSpec
CONSTANTS
  Client = {"c1", "c2"}
  MaxQueue = 3
  Cap = 2
  MaxPosted = 1
  MaxInbox = 1
INVARIANTS
  SessionSound
PROPERTIES
  StreamsEnd
  StopEnds
CHECK_DEADLOCK FALSE

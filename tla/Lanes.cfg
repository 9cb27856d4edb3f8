SPECIFICATION FairSpec
CONSTANTS
  Run <- MCRun
  Parent <- MCParent
  Depth <- MCDepth
  NoRun = "none"
  CapMain = 2
  CapSub = 1
  MaxDepth = 2
INVARIANTS
  LanesSound
PROPERTIES
  ImplementsPool
  EveryRunEnds
CHECK_DEADLOCK FALSE

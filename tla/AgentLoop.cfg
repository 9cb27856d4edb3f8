SPECIFICATION FairSpec
CONSTANTS
  Kinds = {"batch", "interactive"}
  Batches <- MCBatches
  MaxTurns = 3
  MaxToolCalls = 4
  MaxCost = 2
  MaxTurnCost = 2
  MaxAuxCost = 1
  Threshold = 2
  TerminateAt = 3
  MaxLines = 2
INVARIANTS
  BudgetsHold
  RunsSound
PROPERTIES
  EveryRunReturns
CHECK_DEADLOCK FALSE

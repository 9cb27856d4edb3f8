SPECIFICATION Spec
CONSTANTS
  PartNames = {"sessions", "subagents", "rows", "replay", "history", "compaction", "guard"}
  ServerSession = {"s1", "s2"}
  ServerFolder = {"act1", "act2"}
  ServerDay = {1}
  ServerMaxActive = 1
  ServerMaxEvents = 2
  SubRun = {"r1", "r2", "r3"}
  SubMaxDepth = 2
  SubMaxPauses = 1
  RowsSession = {1, 2}
  RowsWindow = 2
  RowsBaseline = 2
  RowsRecency = 1
  RowsThresholdPct = 25
  RowsMinBaselineSessions = 1
  RowsMinBaselineRollups = 1
  RowsPageSize = 1
  RowsMaxTime = 4
  RowsMaxCalls = 1
  RowsMaxEvents = 6
  PlayMaxResponses = 4
  PlayMaxTurns = 5
  PlayMaxOpens = 2
  HistoryAnswers <- MCHistoryAnswers
  HistoryMaxAnswers = 2
  CompactMaxTurns = 5
  CompactKeepRecentPairs = 1
  CompactFullKeepRecentPairs = 1
  CompactDeadEndsLlmMin = 2
  CompactMaxDeadEnds = 2
  GuardFile = {1, 2}
  GuardPath = {"env", ".env", "b"}
  GuardNormal <- MCGuardNormal
  GuardThreshold = 2
  GuardTerminateAt = 3
  GuardWindow = 4
  GuardMaxBatch = 2
  GuardMaxBatches = 4
INVARIANTS
  ThreadsBounded
  ReportedApart
  NoneMissed
  ReplayIsFaithful
  HistoryPairs
  HistoryStands
  ActsAreEarned
\* every part's behaviours end at its bounds
CHECK_DEADLOCK FALSE

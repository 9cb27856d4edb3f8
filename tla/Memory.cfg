SPECIFICATION Spec
CONSTANTS
  PartNames = {"git", "recall", "search", "record", "decay", "consolidation", "links", "bootstrap", "readiness", "capabilities", "validation"}
  GitWriter = {"s1", "s2"}
  GitPath = {"a", "log"}
  GitPathsOf <- MCGitPathsOf
  GitStranger = "stranger"
  GitMaxOps <- MCGitMaxOps
  GitMaxStrange = 1
  RecallFile = {"a", "b", "c", "d", "e"}
  RecallChunks <- MCRecallChunks
  RecallRanks <- MCRecallRanks
  RecallMeans <- MCRecallMeans
  RecallLikes <- MCRecallLikes
  RecallLinkRows <- MCRecallLinks
  RecallMaxK = 2
  SearchSession = {"s1", "s2"}
  SearchFile = {"k", "s"}
  SearchScopeOf <- MCSearchScopeOf
  SearchVectorScopes = {"knowledge"}
  SearchKinds = {"bm25", "vectors"}
  SearchMaxWrites = 2
  SearchMaxBuilds = 2
  RecordSession = {"s1", "s2"}
  RecordFile = {"a", "b", "c"}
  RecordInitial = {"a"}
  RecordMaxEvents = 3
  DecayFile = {"f", "g"}
  DecayFrontMatter <- MCDecayFrontMatter
  DecayHelpfulness = {0, 6996, 10000}
  DecayDecayFactor <- MCDecayFactor
  DecayLimit = 1
  DecayMaxDay = 2
  DecayMaxAccesses = 2
  DecayMaxEvents = 5
  DecayPromoteMinAccesses = 1
  DecayDemoteMinAccesses = 1
  ConsolidateNamespace = {1, 2}
  ConsolidateFile = {"a", "b", "c"}
  ConsolidateTrusts = {"none", "high"}
  ConsolidateMinUnmentioned = 2
  ConsolidateMaxNamespaces = 1
  ConsolidateMaxFilesPerDir = 2
  ConsolidateMaxEvents = 6
  LinksSessions = 2
  LinksName <- MCLinkName
  LinksDay <- MCLinkDay
  LinksPair = {{1, 2}, {1, 3}}
  LinksHome <- MCLinkHome
  LinksMaxAge = 0
  LinksEdgeCap = 10
  LinksMaxRecalls = 2
  LinksMaxAudits = 1
  LinksMaxAgain = 2
  StartPath = {"a", "transcript"}
  StartTranscript = {"transcript"}
  StartLimit <- MCStartLimit
  StartSummaries = {"returning", "full_bootstrap", "periodic_review", "automation"}
  StartMaxEntries = 4
  ReadyProfile = {"publish_branch", "terminal_plan_authoring"}
  ReadyKinds = {{"python"}}
  ReadyMaxChanges = 2
  ReadyMaxRuns = 2
  AbleTool = {"t", "u"}
  AbleOperation = {"o"}
  AbleManifests <- MCAbleManifests
  AbleReadOnlyAllowed = TRUE
  ValidPath = {"k1", "u1", "s1"}
  ValidNameSpace = {"skills", "knowledge"}
  ValidHome <- MCValidHome
  ValidQuarantine = {"u1"}
  ValidCovered = {"skills"}
  ValidCalls <- MCValidCalls
  ValidLayouts <- MCValidLayouts
  ValidWindow = 1
  ValidMaxDay = 1
  ValidMaxEvents = 4
INVARIANTS
  PublicationsStand
  RefillComplete
  SearchSees
  RecordsStand
  SweepHeals
  OnlyDrifted
  DensityIsEarned
  ReadyIsRoomy
  ContractHolds
  VerdictsStand
PROPERTIES
  ReportsAgree
\* every part's behaviours end at its bounds
CHECK_DEADLOCK FALSE

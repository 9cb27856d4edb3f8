SPECIFICATION Spec
CONSTANTS
  PartNames = {"plan", "workspace", "todos", "files", "programs", "bridge"}
  PlanSession = {"s1", "s2", "s3"}
  PlanNobody = "nobody"
  PlanPhases = 3
  PlanNeedsApproval = {0, 2}
  PlanMaxRequests = 3
  SpaceSession = {"s1", "s2"}
  SpaceThreadName = {"t", "project"}
  SpaceRetention = 0
  SpaceMaxDay = 1
  SpaceMaxOps = 4
  SpaceMaxKills = 1
  TodoCaller = {"c1", "c2"}
  TodoId = {"a", "b"}
  TodoStatus = {"pending", "done"}
  TodoMaxItems = 2
  TodoHandWritten <- MCTodoFiles
  TodoMaxEvents = 4
  FilesComponent = {"a", "k"}
  FilesRoot = {"k"}
  FilesCalls <- MCFileCalls
  FilesTrees <- MCFileTrees
  FilesMaxBatch = 2
  ProgCaller = {"c1", "c2"}
  ProgName = {"a"}
  ProgSources <- MCProgSources
  ProgOutputs <- MCProgOutputs
  ProgBudget = 24
  ProgPreview = 12
  ProgMaxBash = 80
  ProgMaxRuns = 2
  ProgMaxEvents = 2
  BridgeRequest <- MCBridgeRequest
  BridgeRecalled = {"g"}
  BridgeKind = {"repl", "server"}
  BridgeMaxWork = 3
  BridgeMaxLines = 2
  BridgeMaxDeaths = 1
INVARIANTS
  PlanSound
  ThreadsStand
  TurnsAreDeterministic
  RunsStand
  BridgeStands
PROPERTIES
  SavedWhole
\* every part's behaviours end at its bounds
CHECK_DEADLOCK FALSE

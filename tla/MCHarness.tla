---- MODULE MCHarness ----
(***************************************************************************)
(* Components of the harness around a session, model-checked in one run, as    *)
(* MCMemory does for those of the memory: a behaviour belongs to one part, and    *)
(* the variables x1, x2, ... are that part's own.                                 *)
(***************************************************************************)
EXTENDS Integers, Sequences, FiniteSets

CONSTANTS
  PartNames,
  ServerSession, ServerFolder, ServerDay, ServerMaxActive, ServerMaxEvents,
  SubRun, SubMaxDepth, SubMaxPauses,
  RowsSession, RowsWindow, RowsBaseline, RowsRecency, RowsThresholdPct, RowsMinBaselineSessions,
    RowsMinBaselineRollups, RowsPageSize, RowsMaxTime, RowsMaxCalls, RowsMaxEvents,
  PlayMaxResponses, PlayMaxTurns, PlayMaxOpens,
  HistoryAnswers, HistoryMaxAnswers,
  CompactMaxTurns, CompactKeepRecentPairs, CompactFullKeepRecentPairs, CompactDeadEndsLlmMin,
    CompactMaxDeadEnds,
  GuardFile, GuardPath, GuardNormal, GuardThreshold, GuardTerminateAt, GuardWindow, GuardMaxBatch,
    GuardMaxBatches

VARIABLES part,
  x1, x2, x3, x4, x5, x6, x7, x8, x9, x10, x11, x12, x13, x14, x15, x16

(* Two server sessions with room for one, and a restart of the server. *)
Server == INSTANCE ServerSessions WITH
  Session <- ServerSession, Folder <- ServerFolder, Day <- ServerDay, MaxActive <- ServerMaxActive,
  MaxEvents <- ServerMaxEvents,
  server <- x1, listed <- x2, status <- x3, thread <- x4, stop <- x5, trace <- x6, subs <- x7,
  row <- x8, sending <- x9, events <- x10

(* A root run with two more below it, one of which may pause. *)
Sub == INSTANCE SubagentRun WITH
  Run <- SubRun, MaxDepth <- SubMaxDepth, MaxPauses <- SubMaxPauses,
  pc <- x1, seq <- x2, number <- x3, above <- x4, state <- x5, depth <- x6, files <- x7,
  reported <- x8, stamp <- x9, request <- x10, asker <- x11, replies <- x12, pauses <- x13

(* Two sessions over four days, drift computed page by page while rows are added. *)
Rows == INSTANCE SessionRows WITH
  Session <- RowsSession, Window <- RowsWindow, Baseline <- RowsBaseline, Recency <- RowsRecency,
  ThresholdPct <- RowsThresholdPct, MinBaselineSessions <- RowsMinBaselineSessions,
  MinBaselineRollups <- RowsMinBaselineRollups, PageSize <- RowsPageSize, MaxTime <- RowsMaxTime,
  MaxCalls <- RowsMaxCalls, MaxEvents <- RowsMaxEvents,
  now <- x1, row <- x2, hint <- x3, log <- x4, trace <- x5, rollups <- x6, alertsFile <- x7, pc <- x8,
  offset <- x9, loaded <- x10, since <- x11, report <- x12, failed <- x13, everywhere <- x14,
  moved <- x15, events <- x16

(* A recording of up to four answers, replayed. *)
Play == INSTANCE Replay WITH
  MaxResponses <- PlayMaxResponses, MaxTurns <- PlayMaxTurns, MaxOpens <- PlayMaxOpens,
  given <- x1, file <- x2, turn <- x3, opens <- x4, lost <- x5, pc <- x6, on <- x7, served <- x8

(* Two answers of one or two items each, and some of three, for each provider. *)
History == INSTANCE ProviderHistory WITH
  Answers <- HistoryAnswers, MaxAnswers <- HistoryMaxAnswers,
  provider <- x1, history <- x2, pc <- x3, calls <- x4, request <- x5, toolSeq <- x6, traced <- x7,
  given <- x8, left <- x9

(* A conversation of five turns, compacted at each level. *)
Compact == INSTANCE Compaction WITH
  MaxTurns <- CompactMaxTurns, KeepRecentPairs <- CompactKeepRecentPairs,
  FullKeepRecentPairs <- CompactFullKeepRecentPairs, DeadEndsLlmMin <- CompactDeadEndsLlmMin,
  MaxDeadEnds <- CompactMaxDeadEnds,
  messages <- x1, pc <- x2, turns <- x3, failed <- x4, mixed <- x5, garbled <- x6, swallowed <- x7,
  mistaken <- x8, overwritten <- x9

(* Four batches of two reads over two files, one of them with two spellings. *)
Guard == INSTANCE PatternGuard WITH
  File <- GuardFile, Path <- GuardPath, Normal <- GuardNormal, Threshold <- GuardThreshold,
  TerminateAt <- GuardTerminateAt, Window <- GuardWindow, MaxBatch <- GuardMaxBatch,
  MaxBatches <- GuardMaxBatches,
  recent <- x1, nudged <- x2, action <- x3, reads <- x4, batches <- x5

(* What the code gives of these constants, and the proofs use. *)
ASSUME HistoryAssumption ==
  HistoryAnswers \subseteq Seq(History!Kind) /\ HistoryMaxAnswers \in Nat
ASSUME ServerAssumption ==
  IsFiniteSet(ServerSession) /\ ServerMaxActive \in Nat /\ ServerMaxEvents \in Nat
ASSUME SubAssumption ==
  IsFiniteSet(SubRun) /\ "session" \notin SubRun /\ SubMaxDepth \in Nat
ASSUME PlayAssumption ==
  PlayMaxResponses \in Nat /\ PlayMaxTurns \in Nat
ASSUME CompactionAssumption ==
  /\ CompactMaxTurns \in Nat /\ CompactKeepRecentPairs \in Nat /\ CompactDeadEndsLlmMin \in Nat
  /\ CompactFullKeepRecentPairs \in Nat \ {0} /\ CompactMaxDeadEnds \in Nat \ {0}
ASSUME GuardAssumption ==
  /\ GuardFile \subseteq Nat \ {0} /\ "none" \notin GuardPath /\ GuardNormal \in [GuardPath -> GuardFile]
  /\ GuardThreshold \in Nat /\ GuardTerminateAt \in Nat /\ GuardWindow \in Nat \ {0} /\ GuardMaxBatch \in Nat
ASSUME RowsAssumption ==
  /\ RowsSession \subseteq Nat \ {0} /\ IsFiniteSet(RowsSession)
  /\ RowsPageSize \in Nat \ {0} /\ RowsMaxTime \in Nat /\ RowsMaxCalls \in Nat

vars ==
  <<part, x1, x2, x3, x4, x5, x6, x7, x8, x9, x10, x11, x12, x13, x14, x15, x16>>

Init ==
  /\ part \in PartNames
  /\ \/ part = "sessions" /\ Server!Init /\ x11 = 0 /\ x12 = 0 /\ x13 = 0 /\ x14 = 0 /\ x15 = 0 /\ x16 = 0
     \/ part = "subagents" /\ Sub!Init /\ x14 = 0 /\ x15 = 0 /\ x16 = 0
     \/ part = "rows" /\ Rows!Init
     \/ part = "replay" /\ Play!Init /\ x9 = 0 /\ x10 = 0 /\ x11 = 0 /\ x12 = 0 /\ x13 = 0 /\ x14 = 0 /\ x15 = 0 /\ x16 = 0
     \/ part = "history" /\ History!Init /\ x10 = 0 /\ x11 = 0 /\ x12 = 0 /\ x13 = 0 /\ x14 = 0 /\ x15 = 0 /\ x16 = 0
     \/ part = "compaction" /\ Compact!Init /\ x10 = 0 /\ x11 = 0 /\ x12 = 0 /\ x13 = 0 /\ x14 = 0 /\ x15 = 0 /\ x16 = 0
     \/ part = "guard" /\ Guard!Init /\ x6 = 0 /\ x7 = 0 /\ x8 = 0 /\ x9 = 0 /\ x10 = 0 /\ x11 = 0 /\ x12 = 0 /\ x13 = 0 /\ x14 = 0 /\ x15 = 0 /\ x16 = 0

Next ==
  /\ UNCHANGED part
  /\ \/ part = "sessions" /\ Server!Next /\ UNCHANGED <<x11, x12, x13, x14, x15, x16>>
     \/ part = "subagents" /\ Sub!Next /\ UNCHANGED <<x14, x15, x16>>
     \/ part = "rows" /\ Rows!Next
     \/ part = "replay" /\ Play!Next /\ UNCHANGED <<x9, x10, x11, x12, x13, x14, x15, x16>>
     \/ part = "history" /\ History!Next /\ UNCHANGED <<x10, x11, x12, x13, x14, x15, x16>>
     \/ part = "compaction" /\ Compact!Next /\ UNCHANGED <<x10, x11, x12, x13, x14, x15, x16>>
     \/ part = "guard" /\ Guard!Next /\ UNCHANGED <<x6, x7, x8, x9, x10, x11, x12, x13, x14, x15, x16>>

Spec == Init /\ [][Next]_vars

(* server.py: no more threads take turns than the server allows, and none is hidden from its count. *)
ThreadsBounded == part = "sessions" => Server!TypeOK /\ Server!ThreadsBounded

(* subagent.py: two runs that the trace reports never have one number. *)
ReportedApart == part = "subagents" => Sub!TypeOK /\ Sub!ReportedApart

(* drift.py: every session that was over when the run began is among its rows, unless a row was moved out of the workspace meanwhile. *)
NoneMissed == part = "rows" => Rows!TypeOK /\ Rows!NoneMissed

(* replay.py: a replayed loop is handed the recorded responses, in order, none left out. *)
ReplayIsFaithful == part = "replay" => Play!TypeOK /\ Play!ReplayIsFaithful

(* modes, loop.py: a request holds each call once with its answer once behind it, but for calls that Grok passed over or that a run stopped on, sent once and never answered. *)
HistoryPairs == part = "history" => History!TypeOK /\ History!HistoryPairs

(* compaction.py: every turn can still be read, but for what newer dead ends drove out, a reply left out, what else a failed turn brought, and what a full summary mistaken for the dead ends told. *)
HistoryStands == part = "compaction" => Compact!TypeOK /\ Compact!HistoryStands

(* loop_guards.py: the guard acts only on as many small reads of a file as it takes, since the last change. *)
ActsAreEarned == part = "guard" => Guard!TypeOK /\ Guard!ActsAreEarned

-----------------------------------------------------------------------------
(* The values the run gives to the constants that a configuration cannot write. *)
HistoryKind == {"text", "reasoning", "sealed", "search", "call", "stray", "pause"}
MCHistoryAnswers ==
  UNION {[1..n -> HistoryKind] : n \in 1..2}
    \cup {<<"stray", "search", "call">>, <<"search", "call", "call">>,
          <<"call", "search", "pause">>, <<"sealed", "call", "reasoning">>}

MCGuardNormal == [p \in {"env", ".env", "b"} |-> IF p = "b" THEN 2 ELSE 1]

====

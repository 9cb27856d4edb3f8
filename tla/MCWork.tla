---- MODULE MCWork ----
(***************************************************************************)
(* What sessions work on and with (plans, threads, lists, files, programs)   *)
(* and the bridge that reads their traces, model-checked in one run, as       *)
(* MCMemory does for the components of the memory: a behaviour belongs to      *)
(* one part, and x1, x2, ... are that part's own.                              *)
(***************************************************************************)
EXTENDS Integers, Sequences, FiniteSets

CONSTANTS
  PartNames,
  PlanSession, PlanNobody, PlanPhases, PlanNeedsApproval, PlanMaxRequests,
  SpaceSession, SpaceThreadName, SpaceRetention, SpaceMaxDay, SpaceMaxOps, SpaceMaxKills,
  TodoCaller, TodoId, TodoStatus, TodoMaxItems, TodoHandWritten, TodoMaxEvents,
  FilesComponent, FilesRoot, FilesCalls, FilesTrees, FilesMaxBatch,
  ProgCaller, ProgName, ProgSources, ProgOutputs, ProgBudget, ProgPreview, ProgMaxBash, ProgMaxRuns,
    ProgMaxEvents,
  BridgeRequest, BridgeRecalled, BridgeKind, BridgeMaxWork, BridgeMaxLines, BridgeMaxDeaths

VARIABLES part,
  x1, x2, x3, x4, x5, x6, x7, x8, x9, x10, x11, x12, x13, x14, x15, x16, x17

(* Three sessions and a plan of three phases, of which the first and the last need approval. *)
Plan == INSTANCE PlanRunState WITH
  Session <- PlanSession, Nobody <- PlanNobody, Phases <- PlanPhases,
  NeedsApproval <- PlanNeedsApproval, MaxRequests <- PlanMaxRequests,
  plan <- x1, state <- x2, lock <- x3, pc <- x4, view <- x5, requests <- x6, named <- x7, acted <- x8

(* Two sessions on one CURRENT.md with a thread and a project, and one killed process. *)
Space == INSTANCE Workspace WITH
  Session <- SpaceSession, ThreadName <- SpaceThreadName, Retention <- SpaceRetention,
  MaxDay <- SpaceMaxDay, MaxOps <- SpaceMaxOps, MaxKills <- SpaceMaxKills,
  today <- x1, current <- x2, archive <- x3, live <- x4, shelved <- x5, questions <- x6, lock <- x7,
  pc <- x8, doc <- x9, late <- x10, copy <- x11, ops <- x12, written <- x13, torn <- x14, kills <- x15

(* Two callers of one list, which a person may have edited or a crash torn. *)
Todo == INSTANCE Todos WITH
  Caller <- TodoCaller, Id <- TodoId, Status <- TodoStatus, MaxItems <- TodoMaxItems,
  HandWritten <- TodoHandWritten, MaxEvents <- TodoMaxEvents,
  file <- x1, tmp <- x2, holder <- x3, pc <- x4, mine <- x5, events <- x6

(* A turn of two file calls over two names in two homes. *)
Files == INSTANCE FileTools WITH
  Component <- FilesComponent, Root <- FilesRoot, Calls <- FilesCalls, Trees <- FilesTrees,
  MaxBatch <- FilesMaxBatch,
  tree <- x1, mounted <- x2, first <- x3, batch <- x4, granted <- x5, seen <- x6, answers <- x7

(* Two programs in one output directory, with more output than an answer holds. *)
Prog == INSTANCE ToolRuns WITH
  Caller <- ProgCaller, Name <- ProgName, Sources <- ProgSources, Outputs <- ProgOutputs,
  Budget <- ProgBudget, Preview <- ProgPreview, MaxBash <- ProgMaxBash, MaxRuns <- ProgMaxRuns,
  MaxEvents <- ProgMaxEvents,
  python <- x1, clock <- x2, disk <- x3, scripts <- x4, temps <- x5, orphans <- x6, pc <- x7,
  call <- x8, serial <- x9, stamp <- x10, pre <- x11, wrote <- x12, alone <- x13, ran <- x14,
  report <- x15, runs <- x16, events <- x17

(* A session of two lines of work, its trace bridged at each end, with one death of the process. *)
Bridge == INSTANCE TraceBridge WITH
  Request <- BridgeRequest, Recalled <- BridgeRecalled, Kind <- BridgeKind, MaxWork <- BridgeMaxWork,
  MaxLines <- BridgeMaxLines, MaxDeaths <- BridgeMaxDeaths,
  kind <- x1, lines <- x2, inLine <- x3, trace <- x4, recalls <- x5, batch <- x6, toolSeq <- x7,
  place <- x8, segment <- x9, rows <- x10, rollups <- x11, saved <- x12, deaths <- x13, forgot <- x14

(* What the code gives of these constants, and the proofs use. *)
ASSUME PlanAssumption ==
  /\ PlanNobody \notin PlanSession
  /\ PlanPhases \in Nat \ {0} /\ PlanMaxRequests \in Nat
  /\ PlanNeedsApproval \subseteq 0 .. PlanPhases - 1
ASSUME SpaceAssumption ==
  SpaceMaxOps \in Nat /\ SpaceMaxDay \in Nat /\ "nobody" \notin SpaceSession
ASSUME FilesAssumption ==
  FilesMaxBatch \in Nat /\ \A t \in FilesTrees : DOMAIN t = Files!Path
ASSUME ProgAssumption ==
  /\ (\A source \in ProgSources : source.tool \in Prog!Tool) /\ ProgOutputs \subseteq Prog!Output
  /\ ProgBudget \in Nat /\ ProgBudget >= 6 /\ ProgPreview \in Nat
  /\ ProgMaxBash \in Nat \ {0} /\ ProgMaxRuns \in Nat
ASSUME BridgeAssumption ==
  BridgeKind \subseteq {"repl", "server"} /\ BridgeMaxWork \in Nat /\ BridgeMaxLines \in Nat /\ BridgeMaxDeaths \in Nat

vars ==
  <<part, x1, x2, x3, x4, x5, x6, x7, x8, x9, x10, x11, x12, x13, x14, x15, x16, x17>>

Init ==
  /\ part \in PartNames
  /\ \/ part = "plan" /\ Plan!Init /\ x9 = 0 /\ x10 = 0 /\ x11 = 0 /\ x12 = 0 /\ x13 = 0 /\ x14 = 0 /\ x15 = 0 /\ x16 = 0 /\ x17 = 0
     \/ part = "workspace" /\ Space!Init /\ x16 = 0 /\ x17 = 0
     \/ part = "todos" /\ Todo!Init /\ x7 = 0 /\ x8 = 0 /\ x9 = 0 /\ x10 = 0 /\ x11 = 0 /\ x12 = 0 /\ x13 = 0 /\ x14 = 0 /\ x15 = 0 /\ x16 = 0 /\ x17 = 0
     \/ part = "files" /\ Files!Init /\ x8 = 0 /\ x9 = 0 /\ x10 = 0 /\ x11 = 0 /\ x12 = 0 /\ x13 = 0 /\ x14 = 0 /\ x15 = 0 /\ x16 = 0 /\ x17 = 0
     \/ part = "programs" /\ Prog!Init
     \/ part = "bridge" /\ Bridge!Init /\ x15 = 0 /\ x16 = 0 /\ x17 = 0

Next ==
  /\ UNCHANGED part
  /\ \/ part = "plan" /\ Plan!Next /\ UNCHANGED <<x9, x10, x11, x12, x13, x14, x15, x16, x17>>
     \/ part = "workspace" /\ Space!Next /\ UNCHANGED <<x16, x17>>
     \/ part = "todos" /\ Todo!Next /\ UNCHANGED <<x7, x8, x9, x10, x11, x12, x13, x14, x15, x16, x17>>
     \/ part = "files" /\ Files!Next /\ UNCHANGED <<x8, x9, x10, x11, x12, x13, x14, x15, x16, x17>>
     \/ part = "programs" /\ Prog!Next
     \/ part = "bridge" /\ Bridge!Next /\ UNCHANGED <<x15, x16, x17>>

Spec == Init /\ [][Next]_vars

(* workspace.py: no phase that needs approval is completed without its own grant, and the record of a plan is exact. *)
PlanSound == part = "plan" => Plan!TypeOK /\ Plan!PlanSound

(* workspace.py: a closed thread is listed or archived, and an open one has its project. *)
ThreadsStand == part = "workspace" => Space!TypeOK /\ Space!ThreadsStand

(* todos.py: a call that saves puts exactly its own list there. *)
SavedWhole == [][part = "todos" => Todo!SaveStep]_vars

(* loop.py: a turn leaves what its calls give in the order the model wrote them. *)
TurnsAreDeterministic == part = "files" => Files!TypeOK /\ Files!TurnsAreDeterministic

(* tools/_python_runner.py: an answer names the program's own files, its own value, and where the rest of its output is. *)
RunsStand == part = "programs" => Prog!TypeOK /\ Prog!RunsStand

(* trace_bridge.py: a call of the trace is given its own result, and a bridge that is killed and run again leaves the rows of a single run. *)
BridgeStands == part = "bridge" => Bridge!TypeOK /\ Bridge!BridgeStands

-----------------------------------------------------------------------------
(* The values the run gives to the constants that a configuration cannot write. *)
TodoRow(id, status) == [id |-> id, status |-> status]
MCTodoFiles ==
  {<<>>, <<TodoRow("a", "pending")>>, <<TodoRow("a", "pending"), TodoRow("b", "pending")>>,
   <<TodoRow("a", "pending"), TodoRow("a", "pending")>>, <<TodoRow("a", "odd")>>, <<TodoRow("none", "torn")>>}

FileCall(tool, path) ==
  [tool |-> tool, path |-> path, to |-> <<"a">>, explicit |-> FALSE, flag |-> "", old |-> "", new |-> "n"]
MCFileCalls ==
  {FileCall("read_file", <<"k", "a">>), FileCall("list_files", <<"k">>), FileCall("glob_files", <<"k">>),
   FileCall("path_stat", <<"a">>), FileCall("edit_file", <<"a">>), FileCall("write_file", <<"k", "a">>),
   FileCall("append_file", <<"a">>), FileCall("mkdir", <<"a">>), FileCall("mkdir", <<"k">>),
   FileCall("delete_path", <<"a">>), FileCall("delete_path", <<"k">>), FileCall("move_path", <<"k", "a">>),
   FileCall("move_path", <<"k">>),
   [FileCall("edit_file", <<"k", "a">>) EXCEPT !.old = "x", !.new = "y"],
   [FileCall("edit_file", <<"k", "a">>) EXCEPT !.old = "y", !.new = "x"],
   [FileCall("write_file", <<"a">>) EXCEPT !.flag = "create_only", !.new = "z"],
   [FileCall("write_file", <<"a">>) EXCEPT !.flag = "must_exist"],
   [FileCall("append_file", <<"k", "a">>) EXCEPT !.flag = "must_exist"],
   [FileCall("append_file", <<"k", "a">>) EXCEPT !.explicit = TRUE],
   [FileCall("delete_path", <<"k">>) EXCEPT !.flag = "recursive"],
   [FileCall("move_path", <<"a">>) EXCEPT !.to = <<"k">>],
   [FileCall("copy_path", <<"a">>) EXCEPT !.to = <<"k", "a">>],
   [FileCall("copy_path", <<"k">>) EXCEPT !.flag = "recursive"]}
NoFile == [kind |-> "none", text |-> <<>>]
ADir == [kind |-> "dir", text |-> <<>>]
AFile(text) == [kind |-> "file", text |-> text]
FilePath == ({"workspace", "memory"} \X {"a", "k"}) \cup ({"workspace", "memory"} \X {"a", "k"} \X {"a", "k"})
EmptyTree == [p \in FilePath |-> NoFile]
MCFileTrees ==
  {[EmptyTree EXCEPT ![<<"memory", "k">>] = ADir, ![<<"memory", "k", "a">>] = AFile(<<"x">>),
                     ![<<"workspace", "a">>] = AFile(<<"x", "y">>)],
   [EmptyTree EXCEPT ![<<"workspace", "k">>] = ADir, ![<<"workspace", "k", "a">>] = AFile(<<"x", "y">>),
                     ![<<"memory", "k">>] = ADir],
   [EmptyTree EXCEPT ![<<"workspace", "k">>] = ADir, ![<<"memory", "k">>] = ADir,
                     ![<<"memory", "k", "a">>] = AFile(<<"y">>), ![<<"workspace", "a">>] = ADir]}

MCProgSources ==
  {[tool |-> "python_eval", future |-> "commented", last |-> TRUE],
   [tool |-> "run_script", future |-> "none", last |-> FALSE],
   [tool |-> "bash", future |-> "none", last |-> FALSE]}
MCProgOutputs == {[out |-> 50, err |-> 50, marks |-> TRUE, value |-> 50]}

MCBridgeRequest == {<<"read_file", "f">>, <<"edit_file", "f">>}

====

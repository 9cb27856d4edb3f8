---- MODULE MCMemory ----
(***************************************************************************)
(* The components of the memory, model-checked in one run.  They share no     *)
(* state here: a behaviour belongs to one part, chosen in the initial state,    *)
(* and the variables x1, x2, ... are that part's own, in the order its module    *)
(* declares them.  What the components do share (files, commits, rows of a log)  *)
(* is in each module as a step of its environment.                               *)
(***************************************************************************)
EXTENDS Integers, Sequences, FiniteSets

CONSTANTS
  PartNames,
  GitWriter, GitPath, GitPathsOf, GitStranger, GitMaxOps, GitMaxStrange,
  RecallFile, RecallChunks, RecallRanks, RecallMeans, RecallLikes, RecallLinkRows, RecallMaxK,
  SearchSession, SearchFile, SearchScopeOf(_), SearchVectorScopes, SearchKinds, SearchMaxWrites,
    SearchMaxBuilds,
  RecordSession, RecordFile, RecordInitial, RecordMaxEvents,
  DecayFile, DecayFrontMatter, DecayHelpfulness, DecayDecayFactor(_), DecayLimit, DecayMaxDay,
    DecayMaxAccesses, DecayMaxEvents, DecayPromoteMinAccesses, DecayDemoteMinAccesses,
  ConsolidateNamespace, ConsolidateFile, ConsolidateTrusts, ConsolidateMinUnmentioned,
    ConsolidateMaxNamespaces, ConsolidateMaxFilesPerDir, ConsolidateMaxEvents,
  LinksSessions, LinksName, LinksDay, LinksPair, LinksHome, LinksMaxAge, LinksEdgeCap,
    LinksMaxRecalls, LinksMaxAudits, LinksMaxAgain,
  StartPath, StartTranscript, StartLimit, StartSummaries, StartMaxEntries,
  ReadyProfile, ReadyKinds, ReadyMaxChanges, ReadyMaxRuns,
  AbleTool, AbleOperation, AbleManifests, AbleReadOnlyAllowed,
  ValidPath, ValidNameSpace, ValidHome, ValidQuarantine, ValidCovered, ValidCalls, ValidLayouts,
    ValidWindow, ValidMaxDay, ValidMaxEvents

VARIABLES part,
  x1, x2, x3, x4, x5, x6, x7, x8, x9, x10, x11, x12, x13, x14, x15, x16, x17, x18, x19

(* Two sessions that commit, one of them twice, and a person who changes what they share. *)
Git == INSTANCE GitCommit WITH
  Writer <- GitWriter, Path <- GitPath, PathsOf <- GitPathsOf, Stranger <- GitStranger,
  MaxOps <- GitMaxOps, MaxStrange <- GitMaxStrange,
  work <- x1, index <- x2, commits <- x3, refs <- x4, guard <- x5, idxLock <- x6, refLock <- x7,
  pc <- x8, goal <- x9, base <- x10, made <- x11, kept <- x12, ops <- x13, strange <- x14,
  published <- x15, pending <- x16, overrode <- x17, linked <- x18, aside <- x19

(* A recall over five files: what the back ends rank, what is superseded, rated and linked. *)
Recall == INSTANCE RecallRanking WITH
  File <- RecallFile, Chunks <- RecallChunks, Ranks <- RecallRanks, Means <- RecallMeans,
  Likes <- RecallLikes, LinkRows <- RecallLinkRows, MaxK <- RecallMaxK,
  chunks <- x1, ranks <- x2, scan <- x3, dead <- x4, mean <- x5, like <- x6, rows <- x7, k <- x8,
  keepDead <- x9, weigh <- x10, stage <- x11, pool <- x12, answer <- x13

(* Two sessions that search and refresh one index, over two files of two scopes. *)
Search == INSTANCE SearchIndex WITH
  Session <- SearchSession, File <- SearchFile, ScopeOf <- SearchScopeOf,
  VectorScopes <- SearchVectorScopes, Kinds <- SearchKinds, MaxWrites <- SearchMaxWrites,
  MaxBuilds <- SearchMaxBuilds,
  kind <- x1, file <- x2, index <- x3, writes <- x4, builds <- x5, at <- x6, scopes <- x7, todo <- x8,
  seen <- x9, held <- x10, stale <- x11, found <- x12, dropped <- x13, quiet <- x14, alone <- x15

(* Two sessions of one memory: directories, summaries, new files and replacements. *)
Record == INSTANCE MemorySession WITH
  Session <- RecordSession, File <- RecordFile, Initial <- RecordInitial, MaxEvents <- RecordMaxEvents,
  today <- x1, dirs <- x2, at <- x3, number <- x4, home <- x5, trace <- x6, owners <- x7, file <- x8,
  saved <- x9, job <- x10, events <- x11, raced <- x12, torn <- x13, cache <- x14

(* Two files over three days of accesses, edits and sweeps, and a tool that shows one. *)
Decay == INSTANCE DecaySweep WITH
  File <- DecayFile, FrontMatter <- DecayFrontMatter, Helpfulness <- DecayHelpfulness,
  DecayFactor <- DecayDecayFactor, Limit <- DecayLimit, MaxDay <- DecayMaxDay,
  MaxAccesses <- DecayMaxAccesses, MaxEvents <- DecayMaxEvents,
  PromoteMinAccesses <- DecayPromoteMinAccesses, DemoteMinAccesses <- DecayDemoteMinAccesses,
  today <- x1, files <- x2, access <- x3, cached <- x4, cache <- x5, lists <- x6, head <- x7,
  pc <- x8, view <- x9, changed <- x10, failed <- x11, events <- x12

(* Two directories of three files, consolidated one at a time while others write. *)
Consolidate == INSTANCE Consolidation WITH
  Namespace <- ConsolidateNamespace, File <- ConsolidateFile, Trusts <- ConsolidateTrusts,
  MinUnmentioned <- ConsolidateMinUnmentioned, MaxNamespaces <- ConsolidateMaxNamespaces,
  MaxFilesPerDir <- ConsolidateMaxFilesPerDir, MaxEvents <- ConsolidateMaxEvents,
  files <- x1, summary <- x2, head <- x3, pc <- x4, queue <- x5, written <- x6, exit <- x7,
  told <- x8, events <- x9

(* Two sessions of two days with the same name, which is what sessions of two days have. *)
Links == INSTANCE LinkGraph WITH
  Sessions <- LinksSessions, Name <- LinksName, Day <- LinksDay, Pair <- LinksPair, Home <- LinksHome,
  MaxAge <- LinksMaxAge, EdgeCap <- LinksEdgeCap, MaxRecalls <- LinksMaxRecalls,
  MaxAudits <- LinksMaxAudits, MaxAgain <- LinksMaxAgain,
  today <- x1, links <- x2, together <- x3, pc <- x4, todo <- x5, fresh <- x6, audit <- x7,
  audits <- x8, again <- x9

(* Start-up lists of up to four entries, in every mode with the token budgets of the manifest. *)
Start == INSTANCE Bootstrap WITH
  Path <- StartPath, Transcript <- StartTranscript, Limit <- StartLimit, Summaries <- StartSummaries,
  MaxEntries <- StartMaxEntries,
  repo <- x1, pc <- x2, mode <- x3, source <- x4, router <- x5, entries <- x6, loaded <- x7,
  absent <- x8, excused <- x9, squeezed <- x10, needed <- x11, overlooked <- x12, used <- x13,
  pressure <- x14, warnings <- x15

(* Two preflights of a host that changes twice, before, between or during them. *)
Ready == INSTANCE TaskReadiness WITH
  Profile <- ReadyProfile, Kinds <- ReadyKinds, MaxChanges <- ReadyMaxChanges, MaxRuns <- ReadyMaxRuns,
  world <- x1, kinds <- x2, origin <- x3, hint <- x4, pc <- x5, profile <- x6, todo <- x7,
  results <- x8, previous <- x9, runtime <- x10, status <- x11, resolved <- x12, skip <- x13,
  changes <- x14, runs <- x15, held <- x16, carried <- x17, steady <- x18, still <- x19

(* Two tools and one operation, with manifests wrong in every pair of tables. *)
Able == INSTANCE Capabilities WITH
  Tool <- AbleTool, Operation <- AbleOperation, Manifests <- AbleManifests,
  ReadOnlyAllowed <- AbleReadOnlyAllowed,
  manifest <- x1, exported <- x2, mutating <- x3, pc <- x4, errors <- x5, mode <- x6, preview <- x7

(* Three files, one in quarantine, validated while sessions and a person write; a call is left
unanswered, one begins with ./ and one leads through another folder. *)
Valid == INSTANCE RepoValidation WITH
  Path <- ValidPath, NameSpace <- ValidNameSpace, Home <- ValidHome, Quarantine <- ValidQuarantine,
  Covered <- ValidCovered, Calls <- ValidCalls, Layouts <- ValidLayouts, Window <- ValidWindow,
  MaxDay <- ValidMaxDay, MaxEvents <- ValidMaxEvents,
  files <- x1, rows <- x2, removed <- x3, layout <- x4, day <- x5, pc <- x6, errors <- x7, gaps <- x8,
  events <- x9

(* What the code gives of these constants, and the proofs use. *)
ASSUME GitAssumption ==
  GitPathsOf \in [GitWriter -> SUBSET GitPath] /\ Git!Nobody \notin GitWriter /\ GitStranger \notin GitWriter
ASSUME SearchAssumption ==
  SearchKinds \subseteq {"bm25", "vectors"} /\ SearchMaxWrites \in Nat
ASSUME RecallAssumption ==
  /\ \A c \in RecallChunks : c \in Seq(RecallFile)
  /\ \A r \in RecallRanks : r \in Seq(RecallFile) /\ \A i, j \in DOMAIN r : r[i] = r[j] => i = j
  /\ \A m \in RecallMeans \cup RecallLikes : m \in [RecallFile -> Int]
  /\ \A r \in RecallLinkRows : r \in Seq({r[i] : i \in DOMAIN r}) /\ \A i \in DOMAIN r : r[i].score \in Int
  /\ RecallMaxK \in Nat
ASSUME RecordAssumption ==
  Record!None \notin RecordFile /\ "act" \notin RecordSession /\ RecordMaxEvents \in Nat
ASSUME DecayAssumption ==
  DecayMaxDay \in Nat /\ DecayHelpfulness \subseteq Nat /\ \A d \in 0 .. DecayMaxDay : DecayDecayFactor(d) \in Nat
ASSUME ConsolidateAssumption ==
  IsFiniteSet(ConsolidateFile) /\ ConsolidateMinUnmentioned \in Nat
ASSUME LinksAssumption ==
  /\ LinksSessions \in Nat /\ LinksName \in [Links!Session -> Nat] /\ LinksDay \in [Links!Session -> Nat]
  /\ IsFiniteSet(LinksPair) /\ {} \notin LinksPair /\ LinksEdgeCap \in Nat
ASSUME StartAssumption ==
  /\ {"first_run", "returning", "full_bootstrap", "periodic_review", "automation"} \subseteq DOMAIN StartLimit
  /\ \A name \in DOMAIN StartLimit : StartLimit[name] \in Nat /\ StartLimit[name] >= 500
ASSUME ReadyAssumption ==
  ReadyProfile \subseteq {"workspace_general", "pull_request", "publish_branch", "terminal_plan_authoring",
                     "python_validation", "node_validation", "python_dependency_install",
                     "node_dependency_install"}
ASSUME AbleAssumption ==
  AbleManifests \subseteq Able!Manifest /\ IsFiniteSet(AbleOperation)
ASSUME ValidAssumption ==
  ValidHome \in [ValidPath -> ValidNameSpace] /\ ValidCalls \subseteq Valid!Call /\ ValidLayouts \subseteq Valid!Layout /\ ValidMaxDay \in Nat /\ ValidWindow \in Nat

vars ==
  <<part, x1, x2, x3, x4, x5, x6, x7, x8, x9, x10, x11, x12, x13, x14, x15, x16, x17, x18, x19>>

Init ==
  /\ part \in PartNames
  /\ \/ part = "git" /\ Git!Init
     \/ part = "recall" /\ Recall!Init /\ x14 = 0 /\ x15 = 0 /\ x16 = 0 /\ x17 = 0 /\ x18 = 0 /\ x19 = 0
     \/ part = "search" /\ Search!Init /\ x16 = 0 /\ x17 = 0 /\ x18 = 0 /\ x19 = 0
     \/ part = "record" /\ Record!Init /\ x15 = 0 /\ x16 = 0 /\ x17 = 0 /\ x18 = 0 /\ x19 = 0
     \/ part = "decay" /\ Decay!Init /\ x13 = 0 /\ x14 = 0 /\ x15 = 0 /\ x16 = 0 /\ x17 = 0 /\ x18 = 0 /\ x19 = 0
     \/ part = "consolidation" /\ Consolidate!Init /\ x10 = 0 /\ x11 = 0 /\ x12 = 0 /\ x13 = 0 /\ x14 = 0 /\ x15 = 0 /\ x16 = 0 /\ x17 = 0 /\ x18 = 0 /\ x19 = 0
     \/ part = "links" /\ Links!Init /\ x10 = 0 /\ x11 = 0 /\ x12 = 0 /\ x13 = 0 /\ x14 = 0 /\ x15 = 0 /\ x16 = 0 /\ x17 = 0 /\ x18 = 0 /\ x19 = 0
     \/ part = "bootstrap" /\ Start!Init /\ x16 = 0 /\ x17 = 0 /\ x18 = 0 /\ x19 = 0
     \/ part = "readiness" /\ Ready!Init
     \/ part = "capabilities" /\ Able!Init /\ x8 = 0 /\ x9 = 0 /\ x10 = 0 /\ x11 = 0 /\ x12 = 0 /\ x13 = 0 /\ x14 = 0 /\ x15 = 0 /\ x16 = 0 /\ x17 = 0 /\ x18 = 0 /\ x19 = 0
     \/ part = "validation" /\ Valid!Init /\ x10 = 0 /\ x11 = 0 /\ x12 = 0 /\ x13 = 0 /\ x14 = 0 /\ x15 = 0 /\ x16 = 0 /\ x17 = 0 /\ x18 = 0 /\ x19 = 0

Next ==
  /\ UNCHANGED part
  /\ \/ part = "git" /\ Git!Next
     \/ part = "recall" /\ Recall!Next /\ UNCHANGED <<x14, x15, x16, x17, x18, x19>>
     \/ part = "search" /\ Search!Next /\ UNCHANGED <<x16, x17, x18, x19>>
     \/ part = "record" /\ Record!Next /\ UNCHANGED <<x15, x16, x17, x18, x19>>
     \/ part = "decay" /\ Decay!Next /\ UNCHANGED <<x13, x14, x15, x16, x17, x18, x19>>
     \/ part = "consolidation" /\ Consolidate!Next /\ UNCHANGED <<x10, x11, x12, x13, x14, x15, x16, x17, x18, x19>>
     \/ part = "links" /\ Links!Next /\ UNCHANGED <<x10, x11, x12, x13, x14, x15, x16, x17, x18, x19>>
     \/ part = "bootstrap" /\ Start!Next /\ UNCHANGED <<x16, x17, x18, x19>>
     \/ part = "readiness" /\ Ready!Next
     \/ part = "capabilities" /\ Able!Next /\ UNCHANGED <<x8, x9, x10, x11, x12, x13, x14, x15, x16, x17, x18, x19>>
     \/ part = "validation" /\ Valid!Next /\ UNCHANGED <<x10, x11, x12, x13, x14, x15, x16, x17, x18, x19>>

Spec == Init /\ [][Next]_vars

(* git_repo.py: a commit takes only its own files, none goes back to older text, and what was published stays. *)
PublicationsStand == part = "git" => Git!TypeOK /\ Git!PublicationsStand

(* engram_memory.py:386-431: a recall answers with k live files whenever the back ends know so many. *)
RefillComplete == part = "recall" => Recall!TypeOK /\ Recall!RefillComplete

(* bm25_index.py:125-226: a search after an undisturbed build of its own sees every file the build covers and could read as it is. *)
SearchSees == part = "search" => Search!TypeOK /\ Search!SearchSees

(* engram_memory.py: a session's directory is its own, and no fact is hidden without its replacement. *)
RecordsStand == part = "record" => Record!TypeOK /\ Record!RecordsStand

(* cmd_decay.py:208-210: a sweep without an error leaves the lists of its own view, whatever earlier ones left, and the tool shows them but for rounding and its limit. *)
SweepHeals == part = "decay" => Decay!TypeOK /\ Decay!SweepHeals

(* cmd_consolidate.py:3-6: only for a directory that has drifted is a summary asked of the model. *)
OnlyDrifted == part = "consolidation" => Consolidate!TypeOK /\ Consolidate!OnlyDrifted

(* link_graph.py:216-348: no pair counts for more than the recalls that returned it. *)
DensityIsEarned == part = "links" => Links!TypeOK /\ Links!DensityIsEarned

(* resolve_bootstrap_manifest.py: a start called ready keeps its reserve, and nothing was squeezed out or missing but what an optional entry had named before. *)
ReadyIsRoomy == part = "bootstrap" => Start!TypeOK /\ Start!ReadyIsRoomy

(* resolve_task_readiness.py: attempts are called off for a failure that held in both preflights, and a host that did not change is reported as it was. *)
ReportsAgree == [][part = "readiness" => Ready!ReportStep]_vars

(* resolve_memory_capabilities.py: what an error-free manifest promises of previews and read-only servers holds. *)
ContractHolds == part = "capabilities" => Able!TypeOK /\ Able!ContractHolds

(* validate_memory_repo.py: rows of files that calls named plainly and told pass the gate unless removed, and the gaps it reports are there. *)
VerdictsStand == part = "validation" => Valid!TypeOK /\ Valid!VerdictsStand

-----------------------------------------------------------------------------
(* The values the run gives to the constants that a configuration cannot write. *)
MCGitPathsOf == [w \in {"s1", "s2"} |-> IF w = "s1" THEN {"a", "log"} ELSE {"log"}]
MCGitMaxOps == [w \in {"s1", "s2"} |-> IF w = "s1" THEN 2 ELSE 1]

RecallFiles == {"a", "b", "c", "d", "e"}
MCRecallChunks == {<<>>, <<"a", "a", "b">>, <<"a", "b", "c", "d", "e">>}
MCRecallRanks == {<<>>, <<"c", "a">>, <<"e", "d", "c", "b", "a">>}
MCRecallMeans == {[f \in RecallFiles |-> 50], [f \in RecallFiles |-> IF f = "c" THEN 85 ELSE 50]}
MCRecallLikes == {[f \in RecallFiles |-> 0], [f \in RecallFiles |-> IF f = "d" THEN 50 ELSE 0]}
MCRecallLinks == {<<>>, <<[a |-> "b", b |-> "a", score |-> 2000000], [a |-> "b", b |-> "n", score |-> 1000000]>>}

MCSearchScopeOf(f) == IF f = "k" THEN "knowledge" ELSE "skills"

MCDecayFrontMatter == {<<"high", "agent-generated">>, <<"medium", "agent-generated">>,
                     <<"medium", "user-stated">>, <<"none", "agent-generated">>}
MCDecayFactor(days) == 10000 \div 2^days

MCLinkName == [s \in {1, 2} |-> 1]
MCLinkDay == [s \in {1, 2} |-> s - 1]
MCLinkHome == [p \in {{1, 2}, {1, 3}} |-> "d"]

MCStartLimit == [m \in {"first_run", "returning", "full_bootstrap", "periodic_review", "automation"} |->
  IF m = "first_run" THEN 20000 ELSE IF m \in {"returning", "automation"} THEN 7000 ELSE 25000]

AbleTools == {"t", "u"}
AbleRecord(read, raw, semantic, minRead, minSemantic, contract, previewed, status, tool, class, broken, fits, readOnly) ==
  [read |-> read, raw |-> raw, semantic |-> semantic, minRead |-> minRead, minSemantic |-> minSemantic,
   contract |-> contract, previewed |-> previewed,
   desktop |-> [o \in {"o"} |-> [status |-> status, tool |-> tool, class |-> class, profile |-> TRUE]],
   broken |-> broken, compatible |-> fits, readOnlyProfile |-> readOnly]
AbleContracts == [AbleTools -> {"automatic", "protected", "none"}]
MCAbleManifests ==
  {AbleRecord(r, {}, s, {}, {}, c, p, st, t, cl, b, TRUE, r) : r \in {{}, {"t"}}, s \in {{}, {"u"}, AbleTools},
     c \in AbleContracts, b \in {{}, {"ui_feedback"}}, p \in {{"proposed", "protected"}, {"protected"}, {}},
     st \in {"implemented", "gap"}, t \in AbleTools, cl \in {"automatic", "protected"}}
  \cup
  {AbleRecord(r, w, s, mr, ms, c, {"proposed", "protected"}, "gap", "t", "automatic", {}, fits, ro) :
     r \in SUBSET AbleTools, w \in {{}, {"u"}}, s \in SUBSET AbleTools, mr \in {{}, {"t"}}, ms \in {{}, {"u"}},
     c \in [AbleTools -> {"automatic", "none"}], fits \in BOOLEAN, ro \in {{}, AbleTools}}

MCValidHome == [p \in {"k1", "u1", "s1"} |-> IF p = "s1" THEN "skills" ELSE "knowledge"]
MCValidCalls ==
  {[file |-> p, dotted |-> FALSE, home |-> MCValidHome[p], told |-> TRUE] : p \in {"k1", "u1", "s1"}}
  \cup {[file |-> "k1", dotted |-> FALSE, home |-> "knowledge", told |-> FALSE],
        [file |-> "s1", dotted |-> TRUE, home |-> "skills", told |-> TRUE],
        [file |-> "k1", dotted |-> FALSE, home |-> "skills", told |-> TRUE]}
MCValidLayouts ==
  {[host |-> h, worktree |-> h = "usable", broken |-> {"prompts"}, steps |-> IF h = "usable" THEN "deployed" ELSE "source"] :
     h \in {"none", "usable"}}

====

------------------------------- MODULE Bootstrap -------------------------------
(***************************************************************************)
(* The start of a session on a memory repository                            *)
(* (resolve_bootstrap_manifest.py): the mode is detected, the manifest's     *)
(* entries for it are resolved one after the other against the files that    *)
(* are there and against the token budget, and a panel tells the user how     *)
(* it went.  The manifest is data: its entries are chosen as they are met.     *)
(***************************************************************************)
EXTENDS Integers, FiniteSets

CONSTANTS
  Path,            \* the paths that a manifest may name
  Transcript,      \* those of them that are transcripts
  Limit,           \* of each mode that the manifest has: its token budget
  Summaries,       \* the modes that prefer summaries
  MaxEntries

VARIABLES
  repo,            \* what detection looks at: [chats, profile]
  pc,
  mode, source, router,
  entries,         \* of the trace: the number of entries, and by the first entry
  loaded, absent,  \* of each path the paths loaded, those that are not there,
  excused,         \* those skipped for what is in the file,
  squeezed,        \* and the optional ones skipped for the budget
  needed,          \* the paths whose first entry is required
  overlooked,      \* those that a required entry names after an optional one
  used, pressure,
  warnings
trace == <<entries, loaded, absent, excused, squeezed, needed, overlooked, used, pressure>>
vars == <<repo, pc, mode, source, router, trace, warnings>>

Mode == DOMAIN Limit
Cost == {"light", "medium", "heavy"}
Tokens(cost) == CASE cost = "light" -> 500 [] cost = "medium" -> 2500 [] cost = "heavy" -> 7000

Init ==
  /\ repo \in [chats : BOOLEAN, profile : {"none", "template", "filled"}]
  /\ pc = "detect" /\ mode = "none" /\ source = "none" /\ router = "none"
  /\ entries = 0 /\ loaded = {} /\ absent = {} /\ excused = {} /\ squeezed = {}
  /\ needed = {} /\ overlooked = {} /\ used = 0 /\ pressure = FALSE /\ warnings = {}

-----------------------------------------------------------------------------
(* The mode.  What is asked for: a mode or "auto", four flags, an override. *)
LooksFirstRun == ~repo.chats /\ repo.profile \in {"none", "template"}

Detected(ask) ==
  IF ask.mode # "auto" THEN <<ask.mode, "mode_override">>
  ELSE IF ask.automation THEN <<"automation", "automation_flag">>
  ELSE IF ask.review THEN <<"periodic_review", "periodic_review_flag">>
  ELSE IF LooksFirstRun THEN <<"first_run", "first_run_heuristic">>
  ELSE IF ask.fresh THEN <<"full_bootstrap", "fresh_instantiation_flag">>
  ELSE IF ask.full THEN <<"full_bootstrap", "full_bootstrap_flag">>
  ELSE <<"returning", "default_mode">>

Resolved(ask) ==
  CASE ask.override = "full_bootstrap" -> <<"full_bootstrap", "user_override">>
    [] ask.override = "compact_only" -> <<"returning", "user_override">>
    [] ask.override = "none" -> Detected(ask)

Ask == [mode : Mode \cup {"auto"}, automation : BOOLEAN, review : BOOLEAN, fresh : BOOLEAN,
        full : BOOLEAN, override : {"none", "full_bootstrap", "compact_only"}]

Detect ==
  /\ pc = "detect" /\ pc' = "resolve"
  /\ \E ask \in Ask : mode' = Resolved(ask)[1] /\ source' = Resolved(ask)[2]
  /\ router' = "manifest" /\ UNCHANGED <<repo, trace, warnings>>

\* The user may have the manifest skipped: the entries are then two fixed ones.
SkipManifest ==
  /\ pc = "detect" /\ pc' = "resolve"
  /\ mode' = IF LooksFirstRun THEN "first_run" ELSE "returning"
  /\ source' = "user_override_skip_manifest"
  /\ router' = "README" /\ warnings' = {"manifest_skipped"}
  /\ UNCHANGED <<repo, trace>>

-----------------------------------------------------------------------------
(* The entries. *)
Entry == [path : Path, cost : Cost, required : BOOLEAN]
Fallback == [path : Path, cost : {"medium"}, required : {FALSE}]
\* Without a manifest the budget is that of the compact start.
Budget == IF router = "README" THEN 7000 ELSE Limit[mode]
Reserve == IF Budget \div 7 > 500 THEN Budget \div 7 ELSE 500

Estimate(path, cost) ==
  IF (router = "README" \/ mode \in Summaries) /\ path \in Transcript /\ Tokens(cost) < Tokens("heavy")
  THEN Tokens("heavy") ELSE Tokens(cost)

seen == loaded \cup absent \cup excused \cup squeezed
First(path, required) ==
  path \notin seen /\ needed' = (IF required THEN needed \cup {path} ELSE needed) /\ UNCHANGED overlooked

\* What the first entry of a path has decided stands, also for a required one after it.
Duplicate(path, required) ==
  /\ path \in seen
  /\ overlooked' = IF required /\ path \notin needed THEN overlooked \cup {path} ELSE overlooked
  /\ UNCHANGED <<loaded, absent, excused, squeezed, needed, used, pressure>>

Missing(path, required) ==
  /\ First(path, required) /\ absent' = absent \cup {path}
  /\ UNCHANGED <<loaded, excused, squeezed, used, pressure>>

\* A placeholder, an empty file or one without active projects, if the entry says so.
SkippedFor(path, required) ==
  /\ First(path, required) /\ excused' = excused \cup {path}
  /\ UNCHANGED <<loaded, absent, squeezed, used, pressure>>

Fits(tokens) == Budget - (used + tokens) >= Reserve

Squeeze(path, required, tokens) ==
  /\ ~required /\ ~Fits(tokens) /\ First(path, required)
  /\ squeezed' = squeezed \cup {path} /\ pressure' = TRUE
  /\ UNCHANGED <<loaded, absent, excused, used>>

\* Faulty variant: only a skipped file counts as pressure.
PressedOnlyBySkip(tokens) == pressure
PressedBy(tokens) == pressure \/ ~Fits(tokens)
Load(path, required, tokens) ==
  /\ (required \/ Fits(tokens)) /\ First(path, required) /\ loaded' = loaded \cup {path}
  /\ used' = used + tokens /\ pressure' = PressedBy(tokens)
  /\ UNCHANGED <<absent, excused, squeezed>>

Resolve ==
  /\ pc = "resolve" /\ entries < (IF router = "README" THEN 2 ELSE MaxEntries)
  /\ entries' = entries + 1
  /\ \E e \in IF router = "README" THEN Fallback ELSE Entry :
       LET tokens == Estimate(e.path, e.cost)
       IN \/ Duplicate(e.path, e.required) \/ Missing(e.path, e.required) \/ SkippedFor(e.path, e.required)
          \/ Squeeze(e.path, e.required, tokens) \/ Load(e.path, e.required, tokens)
  /\ UNCHANGED <<repo, pc, mode, source, router, warnings>>

\* Git as it is found: the branch checked out here, those checked out in other worktrees,
\* and the branch that the caller expects.
Branch == {"main", "other"}
GitState == [head : Branch \cup {"detached", "no repository"}, elsewhere : SUBSET Branch,
             expected : {"none", "main"}]
Target(git) == IF git.expected # "none" THEN git.expected ELSE git.head
GitWarnings(git) ==
  IF git.head = "no repository" THEN {} ELSE
    {w \in {"detached_head", "worktree_branch_drift", "branch_checked_out_elsewhere"} :
       CASE w = "detached_head" -> git.head = "detached"
         [] w = "worktree_branch_drift" -> git.head # Target(git)
         [] w = "branch_checked_out_elsewhere" -> Target(git) \in git.elsewhere}

\* The warnings of the repository's state, which the shipped manifest asks for, and of
\* the budget.
Warn ==
  /\ pc = "resolve" /\ pc' = "done"
  /\ \E git \in GitState :
       warnings' = warnings \cup GitWarnings(git)
                            \cup (IF pressure THEN {"budget_pressure"} ELSE {})
  /\ UNCHANGED <<repo, mode, source, router, trace>>

Status == IF warnings # {} \/ absent \cap needed # {} THEN "attention" ELSE "ready"
Panel == [status |-> Status, budget |-> IF pressure THEN "tight" ELSE "healthy",
          loaded |-> Cardinality(loaded), warnings |-> Cardinality(warnings)]

Next == Detect \/ SkipManifest \/ Resolve \/ Warn
Spec == Init /\ [][Next]_vars

-----------------------------------------------------------------------------
TypeOK ==
  /\ seen \subseteq Path
  /\ used \in Nat /\ pressure \in BOOLEAN /\ mode \in Mode \cup {"none"}

\* A panel that says "ready" says that the start went as the manifest meant it: what was
\* loaded leaves the reserve, nothing was squeezed out of the budget, and every path that a
\* required entry names was loaded or passed over for what is in it, whatever order the
\* entries have and however often they name a path -- but for a file that is not there and
\* that an optional entry has named before the required one, which is then a duplicate.
ReadyIsRoomy ==
  pc = "done" /\ Panel.status = "ready" =>
    /\ Budget - used >= Reserve /\ Panel.budget = "healthy" /\ Panel.warnings = 0 /\ squeezed = {}
    /\ needed \cup overlooked \subseteq loaded \cup excused \cup (overlooked \cap absent)

(* What it rests on, for a proof by induction: while there is no pressure the     *)
(* reserve is left, and pressure that there was is told.                          *)
Roomy ==
  /\ pc # "detect" => mode \in Mode /\ (~pressure => squeezed = {} /\ Budget - used >= Reserve)
  /\ pc = "detect" => ~pressure /\ squeezed = {} /\ used = 0
  /\ pc = "done" => (pressure => "budget_pressure" \in warnings)
  /\ needed \subseteq loaded \cup excused \cup absent /\ overlooked \subseteq seen
IInv == TypeOK /\ Roomy

\* "Startup preload hit budget pressure; optional higher-cost files were skipped"
\* (resolve_bootstrap_manifest.py:556-557): the warning tells of files that were skipped.
PressureMeansSkipped == pc = "done" /\ "budget_pressure" \in warnings => squeezed # {}
=============================================================================

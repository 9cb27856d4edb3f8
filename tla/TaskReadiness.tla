---------------------------- MODULE TaskReadiness ----------------------------
(***************************************************************************)
(* Preflight checks of a task (resolve_task_readiness.py): a profile is       *)
(* inferred from the task and the repository, its checks probe the            *)
(* environment one after the other, and what is blocked now is compared with   *)
(* what was blocked before, which the caller carries from one preflight to     *)
(* the next.  The environment changes between and during preflights.           *)
(***************************************************************************)
EXTENDS Naturals, Sequences, FiniteSets

CONSTANTS Profile,   \* the profiles that are asked for by name or by their keywords
          Kinds,     \* the looks of the repository: sets of kinds of project
          MaxChanges, MaxRuns

VARIABLES
  world,                    \* of each probe: what it would answer now
  kinds,                    \* the kinds of project that the repository looks like
  origin, hint,             \* its remote and branch: now, and when the preflight began
  pc, profile, todo,        \* the preflight that runs, and its checks to come
  results,                  \* of the checks done: their classification, or "passed"
  previous,                 \* the blockers that the caller carries: <<check, class>>
  runtime,                  \* are the probes run at all
  status, resolved, skip,   \* what the last preflight told
  changes, runs,
  held,     \* history: what probes would have told at some moment of the preflight that runs
  carried,  \* history: the preflight whose blockers are carried, and what held during it
  steady, still \* history: nothing has changed since the one began, or since the other did
told == <<status, resolved, skip>>
environment == <<world, kinds, origin>>
history == <<held, carried, steady, still>>
vars == <<world, kinds, origin, hint, pc, profile, todo, results, previous, runtime, told, changes, runs, history>>

Checks(p) ==
  CASE p = "workspace_general" -> <<>>
    [] p = "pull_request" ->
         <<"git_cli", "git_remote", "git_push_dry_run", "gh_auth", "remote_network">>
    [] p = "publish_branch" -> <<"git_cli", "git_remote", "git_push_dry_run", "remote_network">>
    [] p = "terminal_plan_authoring" -> <<"python_runtime", "git_cli">>
    [] p = "python_validation" -> <<"python_runtime", "python_validation_stack">>
    [] p = "node_validation" -> <<"node_runtime", "node_validation_stack">>
    [] p = "python_dependency_install" ->
         <<"python_runtime", "python_package_manager", "python_package_network">>
    [] p = "node_dependency_install" ->
         <<"node_runtime", "node_package_manager", "node_package_network">>
\* What validate_manifest finds in a manifest: a key that is missing or of another type, a
\* profile that names a check that is not declared.
Flaw == {"key", "reference"}
Of(p) == {Checks(p)[i] : i \in DOMAIN Checks(p)}
Check == UNION {Of(p) : p \in Profile}
\* What a command or a connection can come to: it succeeds, it is not installed, it does
\* not answer in time, or it fails with a message of one of the kinds told apart.
Messages == {"auth", "policy", "connectivity", "config", "repo_state", "other"}
Network == {"remote_network", "python_package_network", "node_package_network"}
Outcome(c) ==
  IF c \in Network THEN {"ok", "connectivity", "policy"}
  ELSE IF c \in {"git_remote", "git_push_dry_run", "gh_auth"} THEN {"ok", "missing", "timeout"} \cup Messages
  ELSE {"ok", "missing", "timeout", "other"}

Nothing == [profile |-> "none", held |-> {}]
Init ==
  /\ world = [c \in Check |-> "ok"] /\ kinds \in Kinds
  /\ origin = "branch" /\ hint = "branch"
  /\ pc = "idle" /\ profile = "none" /\ todo = <<>> /\ results = {} /\ previous = {}
  /\ runtime = FALSE /\ status = "none" /\ resolved = {} /\ skip = FALSE
  /\ changes = 0 /\ runs = 0
  /\ held = {} /\ carried = Nothing /\ steady = FALSE /\ still = FALSE

-----------------------------------------------------------------------------
(* The profile: asked for, else by the two kinds of word that a task can hold, else by the *)
(* keywords of the profiles. *)
OneKind == Cardinality(kinds) = 1
Kind == CHOOSE k \in kinds : TRUE
KindProfile(install) ==
  CASE Kind = "python" /\ install -> "python_dependency_install"
    [] Kind = "python" /\ ~install -> "python_validation"
    [] Kind = "node" /\ install -> "node_dependency_install"
    [] Kind = "node" /\ ~install -> "node_validation"
Inferred(task) ==
  IF task.asked = "undeclared" THEN "workspace_general"
  ELSE IF task.asked # "none" THEN task.asked
  ELSE IF task.install /\ OneKind THEN KindProfile(TRUE)
  ELSE IF task.validate /\ OneKind THEN KindProfile(FALSE)
  ELSE IF task.keyword # "none" THEN task.keyword ELSE "workspace_general"
Task == [asked : Profile \cup {"none", "undeclared"}, install : BOOLEAN, validate : BOOLEAN,
         keyword : Profile \cup {"none"}]

\* The remote and the branch are read once, before the checks.
DetectHints == hint' = origin
\* A remote that is no address names no host: the network is probed at github.com instead.
NamesHost == hint # "no remote"

-----------------------------------------------------------------------------
(* The checks. *)
RemoteClass(outcome) ==
  IF outcome \in {"policy", "auth", "connectivity", "config"} THEN outcome ELSE "unknown"
PushClass(outcome) ==
  IF outcome \in {"policy", "auth", "connectivity", "repo_state"} THEN outcome ELSE "config"
GhClass(outcome) ==
  IF outcome \in {"missing", "config", "auth", "connectivity", "policy"} THEN outcome ELSE "unknown"
ToolClass(outcome) == IF outcome = "missing" THEN "missing" ELSE "runtime"

\* The managers and the stack do not tell why they fail.
ClassOfFailure(c, outcome) ==
  CASE c = "git_remote" -> RemoteClass(outcome)
    [] c = "git_push_dry_run" -> PushClass(outcome)
    [] c = "gh_auth" -> GhClass(outcome)
    [] c \in Network -> outcome
    [] c \in {"git_cli", "python_runtime", "node_runtime"} -> ToolClass(outcome)
    [] OTHER -> "missing"
Class(c, outcome) ==
  IF c = "git_remote" /\ ~NamesHost THEN "missing_remote"
  ELSE IF c = "git_push_dry_run" /\ ~NamesHost THEN "config"
  ELSE IF c = "git_push_dry_run" /\ hint = "detached" THEN "repo_state"
  ELSE IF outcome = "ok" THEN "passed" ELSE ClassOfFailure(c, outcome)

CheckResult(c) == <<c, Class(c, world[c])>>
Answers == {CheckResult(c) : c \in Check}

\* A preflight is of the manifest only if it was asked for so, or if the manifest, or the
\* profile asked for, is wrong.
Begin ==
  /\ pc = "idle" /\ runs < MaxRuns /\ runs' = runs + 1
  /\ \E start \in {<<Inferred(task), task.asked # "undeclared">> : task \in Task} :
       /\ start[1] \in Profile \cup {"workspace_general"} /\ profile' = start[1]
       /\ runtime' \in {asked /\ flaws = {} /\ start[2] : asked \in BOOLEAN, flaws \in SUBSET Flaw}
  /\ DetectHints
  /\ pc' = "probe" /\ todo' = (IF runtime' THEN Checks(profile') ELSE <<>>) /\ results' = {}
  /\ UNCHANGED <<world, kinds, origin, previous, told, changes, carried, still>>
  /\ steady' = TRUE /\ held' = Answers'

Probe ==
  /\ pc = "probe" /\ todo # <<>> /\ todo' = Tail(todo)
  /\ results' = results \cup {CheckResult(Head(todo))}
  /\ UNCHANGED <<world, kinds, origin, hint, pc, profile, previous, runtime, told, changes, runs, history>>

-----------------------------------------------------------------------------
(* What was blocked before and what is blocked now. *)
Blockers == {r \in results : r[2] # "passed"}

\* Faulty variant: a check that fails in another way counts as unchanged.
UnchangedByCheck(blockers) == {b \in blockers : \E p \in previous : p[1] = b[1]}
Unchanged(blockers) == blockers \cap previous

StatusOf(gone) ==
  IF ~runtime THEN "manifest_only" ELSE IF Blockers # {} THEN "blocked"
  ELSE IF gone # {} THEN "attention" ELSE "ready"

Publishes == profile \in {"pull_request", "publish_branch"}
\* The caller hands the next preflight what is blocked, or nothing.
Report ==
  /\ pc = "probe" /\ todo = <<>> /\ pc' = "idle"
  /\ resolved' = previous \ Blockers
  /\ status' = StatusOf(resolved')
  /\ skip' = (Publishes /\ Unchanged(Blockers) # {})
  /\ \E handed \in BOOLEAN :
       /\ previous' = (IF handed THEN Blockers ELSE {})
       /\ carried' = (IF handed THEN [profile |-> profile, held |-> held] ELSE Nothing)
       /\ still' = (handed /\ steady /\ runtime)
  /\ held' = {} /\ steady' = FALSE
  /\ UNCHANGED <<world, kinds, origin, hint, profile, todo, results, runtime, changes, runs>>

\* What the history keeps of a change of the host.
Changed ==
  /\ changes < MaxChanges /\ changes' = changes + 1
  /\ steady' = FALSE /\ still' = FALSE
  /\ UNCHANGED <<kinds, hint, pc, profile, todo, results, previous, runtime, told, runs, carried>>
  /\ held' = (IF pc = "probe" THEN held \cup Answers' ELSE held)
Change(c) ==
  /\ \E outcome \in Outcome(c) \ {world[c]} : world' = [world EXCEPT ![c] = outcome]
  /\ UNCHANGED origin /\ Changed
Switch ==
  /\ origin' \in {"branch", "detached", "no remote"} \ {origin} /\ UNCHANGED world /\ Changed

Next == Switch \/ Begin \/ Probe \/ Report \/ \E c \in Check : Change(c)
Spec == Init /\ [][Next]_vars

-----------------------------------------------------------------------------
TypeOK ==
  /\ \A c \in Check : world[c] \in Outcome(c)
  /\ \A r \in results : r[1] \in Check
  /\ previous \subseteq Check \X (Messages \cup {"missing", "missing_remote", "runtime", "unknown"})
  /\ steady \in BOOLEAN /\ still \in BOOLEAN

\* "A previous blocker is unchanged.  Skip repeated publish or install attempts until the
\* environment changes" (resolve_task_readiness.py:1451).  Attempts are called off only when
\* a probe would have failed in the same way at some moment of the preflight whose blockers
\* are carried and at some moment of this one, whatever changed in between, before or after
\* the probe itself, and whichever profile that other preflight had.  And a host that has not
\* changed since a preflight of the same profile began is reported as it was: nothing is
\* told resolved, and attempts are called off exactly when that preflight was blocked.
ReportStep ==
  pc = "probe" /\ pc' = "idle" =>
    /\ skip' => \E b \in held \cap carried.held : b[2] # "passed"
    /\ still /\ runtime /\ profile = carried.profile =>
         resolved' = {} /\ (skip' <=> Publishes /\ previous # {})
ReportsAgree == [][ReportStep]_vars

\* "One or more previously carried-forward blockers are no longer active"
\* (resolve_task_readiness.py:1584): a blocker reported as resolved was probed by this
\* preflight and its check passed.
ResolvedIsProbed == \A b \in resolved : <<b[1], "passed">> \in results

\* "failure_modes" (HUMANS/tooling/agent-task-readiness.toml): how each check can fail.
FailureModes(c) ==
  CASE c = "git_remote" -> {"missing_remote", "config", "auth", "connectivity", "policy"}
    [] c = "git_push_dry_run" -> {"repo_state", "config", "auth", "connectivity", "policy"}
    [] c = "gh_auth" -> {"missing", "config", "auth", "connectivity", "policy"}
    [] c \in Network -> {"connectivity", "policy"}
    [] OTHER -> {"missing", "runtime"}
ModesAreDeclared == \A r \in results : r[2] \in FailureModes(r[1]) \cup {"passed"}
-----------------------------------------------------------------------------
(* What ReportsAgree rests on, for a proof by induction: blockers are carried out of     *)
(* what held in their own preflight, results out of what held in this one; while nothing *)
(* changes, they are what the checks of the profile tell now.                            *)
Told(p) == {CheckResult(c) : c \in Of(p)}
Failed(answers) == {r \in answers : r[2] # "passed"}
CarriedHeld == \A b \in previous : b \in carried.held /\ b[2] # "passed"
ResultsHeld ==
  pc = "probe" =>
    /\ profile \in Profile \cup {"workspace_general"} /\ todo \in Seq(Of(profile))
    /\ Answers \subseteq held /\ results \subseteq held
    /\ still => steady
    /\ steady => results \subseteq Told(profile) /\ hint = origin
    /\ runtime => \A c \in Of(profile) : (\E i \in DOMAIN todo : todo[i] = c) \/ (\E r \in results : r[1] = c)
StillTold == still => hint = origin /\ previous = Failed(Told(carried.profile))
IInv == CarriedHeld /\ ResultsHeld /\ StillTold
=============================================================================

---------------------------- MODULE RepoValidation ----------------------------
(***************************************************************************)
(* The gate of a memory repository (validate_memory_repo.py), which reads the   *)
(* repository part by part and takes no lock, and those who write between its   *)
(* steps: sessions that promote and supersede notes and that leave one access   *)
(* row for each file they read, people who write and review files by hand.       *)
(***************************************************************************)
EXTENDS Integers

CONSTANTS
  Path,        \* files of memory/, relative to the content root
  NameSpace,   \* the access-tracked folders
  Home,        \* [Path -> NameSpace]: the folder whose ACCESS.jsonl a file belongs to
  Quarantine,  \* the paths below knowledge/_unverified
  Covered,     \* ACCESS_COVERAGE_DIRS
  Calls,       \* the calls looked at, of the set Call below
  Layouts,     \* the layouts looked at, of the set Layout below
  Window,      \* days without a row after which a covered folder is reported
  MaxDay, MaxEvents

VARIABLES
  files,   \* Path -> the front matter of the file, or NoFile
  rows,    \* the rows of all ACCESS*.jsonl files
  removed, \* the paths a file was ever removed from
  layout,  \* what the manifests, the router and the other fixed documents look like
  day, pc, errors, gaps, events
vars == <<files, rows, removed, layout, day, pc, errors, gaps, events>>

NoFile == [keys |-> FALSE, trust |-> "none", verified |-> FALSE, successor |-> "none", by |-> "none"]
File == [keys : BOOLEAN, trust : {"low", "medium", "high"}, verified : BOOLEAN,
         successor : {"none", "found", "unresolved"}, by : {"session", "person"}]
\* A call that names a file of memory: its path may begin with ./ or lead through another
\* folder than the file's, and it need not have told the file: a call that a budget or an
\* output limit left unanswered and a memory_review of no file are not errors in a trace.
Call == [file : Path, dotted : BOOLEAN, home : NameSpace, told : BOOLEAN]
\* plain and told are history: whether the call named the file by its path and told it.
Row == [file : Path, rooted : BOOLEAN, home : NameSpace, day : 0 .. MaxDay,
        session : {"act", "cli"}, archived : BOOLEAN, plain : BOOLEAN, told : BOOLEAN]
\* Documents that the gate compares with texts of its own; each is read in one phase.
Document == {"bootstrap", "readiness", "router", "budget", "guidance", "runtime", "prompts",
             "consistency", "navigator"}
Layout == [host : {"none", "invalid", "usable"}, worktree : BOOLEAN, broken : SUBSET Document,
           steps : {"source", "deployed"}]
Exists(p) == files[p] # NoFile
ContentFiles == {p \in Path : Exists(p)}
Event == events < MaxEvents /\ events' = events + 1
\* Whoever writes after a report leaves that report behind.
Writes == pc' = (IF pc = "done" THEN "idle" ELSE pc)
Kept == UNCHANGED <<layout, day, errors, gaps>>

-----------------------------------------------------------------------------
(* The writers. *)
Init ==
  /\ files = [p \in Path |-> NoFile] /\ rows = {} /\ removed = {}
  /\ layout \in Layouts
  /\ day = 0 /\ pc = "idle" /\ errors = {} /\ gaps = {} /\ events = 0

Write(p, keys, trust, verified, by) ==
  files' = [files EXCEPT ![p] = [keys |-> keys, trust |-> trust, verified |-> verified,
                                 successor |-> "none", by |-> by]]

\* The front matter of a session's notes has no origin_session.
PromoteNote(p, trust) ==
  /\ Event /\ ~Exists(p) /\ Write(p, FALSE, trust, FALSE, "session") /\ Writes
  /\ Kept /\ UNCHANGED <<rows, removed>>

\* superseded_by names the successor without memory/; the gate looks below core/.
SupersedeFile(old, new) ==
  /\ Event /\ old # new /\ Exists(old) /\ ~Exists(new) /\ Writes
  /\ files' = [files EXCEPT ![old].successor = "unresolved",
                            ![new] = [NoFile EXCEPT !.trust = "medium", !.by = "session"]]
  /\ Kept /\ UNCHANGED <<rows, removed>>

Plain(c) == ~c.dotted /\ c.home = Home[c.file]
\* Faulty variant: the row names the file the way the tools do.
RowOfAsCalled(c, session) ==
  [file |-> c.file, rooted |-> FALSE, home |-> c.home, day |-> day, session |-> session,
   archived |-> FALSE, plain |-> Plain(c), told |-> c.told]
\* A row names its file from the root of the repository, but for a path that begins with
\* ./, whose folder is found all the same.  The session is the directory of its artefacts:
\* its own act-NNN, or the one named after the id of a resumed run.
RowOf(c, session) ==
  [file |-> c.file, rooted |-> ~c.dotted, home |-> c.home, day |-> day, session |-> session,
   archived |-> FALSE, plain |-> Plain(c), told |-> c.told]
EndSession(c, session) ==
  /\ Event /\ (c.told => Exists(c.file) \/ c.file \in removed)
  /\ rows' = rows \cup {RowOf(c, session)} /\ Writes
  /\ Kept /\ UNCHANGED <<files, removed>>

\* By hand: a file with all its keys, low and unverified while it is in quarantine;
\* a file dropped or moved away; rows put into the archive; another day.
Author(p) ==
  /\ Event /\ ~Exists(p) /\ Write(p, TRUE, IF p \in Quarantine THEN "low" ELSE "high", FALSE, "person")
  /\ Writes /\ Kept /\ UNCHANGED <<rows, removed>>
Review(p) ==
  /\ Event /\ Exists(p) /\ ~files[p].verified /\ files' = [files EXCEPT ![p].verified = TRUE]
  /\ Writes /\ Kept /\ UNCHANGED <<rows, removed>>
Remove(p) ==
  /\ Event /\ Exists(p) /\ files' = [files EXCEPT ![p] = NoFile] /\ removed' = removed \cup {p}
  /\ Writes /\ Kept /\ UNCHANGED rows
Archive ==
  /\ Event /\ \E r \in rows : ~r.archived /\ rows' = (rows \ {r}) \cup {[r EXCEPT !.archived = TRUE]}
  /\ Writes /\ Kept /\ UNCHANGED <<files, removed>>
NewDay ==
  /\ day < MaxDay /\ day' = day + 1 /\ Writes
  /\ UNCHANGED <<files, rows, removed, layout, errors, gaps, events>>

-----------------------------------------------------------------------------
(* The gate. *)
Deployed == layout.host = "usable" /\ layout.worktree
If(wrong, e) == IF wrong THEN {e} ELSE {}
DocumentErrors(d) == If(d \in layout.broken, [kind |-> "document", what |-> d])

\* The manifest first, and whether this is the checkout that sessions work in, which has
\* no setup, prompt copies, readiness manifest nor changelog to check.
TopologyErrors ==
  If((layout.host # "none") # layout.worktree \/ layout.host = "invalid", [kind |-> "document", what |-> "topology"])
StepErrors ==
  DocumentErrors("bootstrap") \cup
  If(layout.steps # (IF Deployed THEN "deployed" ELSE "source"), [kind |-> "document", what |-> "steps"])
RouterErrors == DocumentErrors("router")
StartupErrors == DocumentErrors("budget")
RuntimeErrors == DocumentErrors("runtime")
ConsistencyErrors == DocumentErrors("consistency")
NavigatorErrors == DocumentErrors("navigator")
ReadinessErrors == DocumentErrors("readiness")
GuidanceErrors == DocumentErrors("guidance")
PromptErrors == DocumentErrors("prompts")
SourceErrors == IF Deployed THEN {} ELSE ReadinessErrors \cup GuidanceErrors \cup PromptErrors
Manifests ==
  /\ pc = "idle" /\ pc' = "notes" /\ events < MaxEvents /\ events' = events + 1
  /\ errors' = TopologyErrors \cup StepErrors \cup RouterErrors \cup StartupErrors \cup RuntimeErrors
                 \cup ConsistencyErrors \cup NavigatorErrors \cup SourceErrors
  /\ gaps' = {} /\ UNCHANGED <<files, rows, removed, layout, day>>

QuarantineErrors(p) ==
  If(p \in Quarantine /\ (files[p].trust # "low" \/ files[p].verified), [kind |-> "quarantine", what |-> p])
FrontMatterErrors(p) == If(~files[p].keys, [kind |-> "front matter", what |-> p])
Notes ==
  /\ pc = "notes" /\ pc' = "rows"
  /\ errors' = errors \cup UNION {QuarantineErrors(p) \cup FrontMatterErrors(p) : p \in ContentFiles}
  /\ UNCHANGED <<files, rows, removed, layout, day, gaps, events>>

\* The namespace of a path as written; a path that does not start below core/ has none.
Owner(r) == IF r.rooted THEN {Home[r.file]} ELSE {}
RowErrors(r) ==
  LET missing == ~r.archived /\ ~Exists(r.file)
  IN  If(Owner(r) # {r.home} \/ missing \/ r.session = "cli", [kind |-> "row", what |-> r])
Rows ==
  /\ pc = "rows" /\ pc' = "coverage"
  /\ errors' = errors \cup UNION {RowErrors(r) : r \in rows}
  /\ UNCHANGED <<files, rows, removed, layout, day, gaps, events>>

Days(folder) == {r.day : r \in {x \in rows : Owner(x) = {folder}}}
\* Faulty variant: a later row does not replace an earlier one.
LastSeenFirst(folder) == CHOOSE d \in Days(folder) : \A e \in Days(folder) : d <= e
LastSeen(folder) == CHOOSE d \in Days(folder) : \A e \in Days(folder) : e <= d
Gap(folder) ==
  /\ \E p \in Path : Home[p] = folder /\ Exists(p)
  /\ Days(folder) = {} \/ day - LastSeen(folder) >= Window
Coverage ==
  /\ pc = "coverage" /\ pc' = "done"
  /\ gaps' = {f \in Covered : Gap(f)}
  /\ UNCHANGED <<files, rows, removed, layout, day, errors, events>>

Next ==
  \/ \E p \in Path, t \in {"low", "medium"} : PromoteNote(p, t)
  \/ \E p, q \in Path : SupersedeFile(p, q)
  \/ \E c \in Calls, s \in {"act", "cli"} : EndSession(c, s)
  \/ \E p \in Path : Author(p) \/ Review(p) \/ Remove(p)
  \/ Archive \/ NewDay
  \/ Manifests \/ Notes \/ Rows \/ Coverage
Spec == Init /\ [][Next]_vars

-----------------------------------------------------------------------------
TypeOK ==
  /\ files \in [Path -> File \cup {NoFile}] /\ rows \subseteq Row /\ removed \subseteq Path
  /\ layout \in Layout /\ day \in 0 .. MaxDay /\ gaps \subseteq Covered

\* What a session writes into ACCESS.jsonl of a file that a call named by its path and told
\* passes the gate, whatever else is written while the gate is reading: it objects to such
\* a row only if the file was removed, or the row is of a resumed session, whose directory
\* does not have the canonical name.  Rows of other calls it may well object to.
RowsStand ==
  \A e \in errors : e.kind = "row" /\ e.what.plain /\ e.what.told =>
    e.what.session = "cli" \/ e.what.file \in removed

\* A report of a gap is right: no call named a file of the folder within the window.
GapsAreReal ==
  pc = "done" => \A f \in gaps : \A r \in rows : Home[r.file] = f /\ r.plain => day - r.day >= Window

\* Memory that sessions write passes the gate that every commit is checked with.
SessionsPass ==
  \A e \in errors : e.kind = "front matter" => files[e.what].by # "session"

\* What the gate objects to is wrong, and the gaps it reports are there.
VerdictsStand == RowsStand /\ GapsAreReal
-----------------------------------------------------------------------------
(* What VerdictsStand rests on, for a proof by induction: of a call that named its   *)
(* file by its path, the row is written from the root, in the file of its folder,    *)
(* and of a call that told its file, about a file that was there.                    *)
RowsRooted ==
  \A r \in rows : /\ r.plain => r.rooted /\ r.home = Home[r.file]
                  /\ r.told => Exists(r.file) \/ r.file \in removed
IInv == TypeOK /\ RowsRooted /\ RowsStand /\ GapsAreReal
=============================================================================

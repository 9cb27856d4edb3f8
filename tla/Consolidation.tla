----------------------------- MODULE Consolidation -----------------------------
(***************************************************************************)
(* `harness consolidate` (consolidate.py, cmd_consolidate.py): a run lists   *)
(* the directories whose SUMMARY.md leaves files out, asks the model for a    *)
(* new body of each, one at a time, and commits what it wrote at the end.      *)
(* Sessions and people go on changing the files and the summaries while it     *)
(* waits for the model.  Directories are numbers, in the order of their paths. *)
(***************************************************************************)
EXTENDS Naturals, FiniteSets

CONSTANTS
  Namespace, File,
  Trusts,
  MinUnmentioned, MaxNamespaces, MaxFilesPerDir,
  MaxEvents

VARIABLES
  files,     \* the content files of each directory
  summary,   \* its SUMMARY.md: is there one, its trust, the files its body mentions
  head,      \* the summaries as last committed
  pc, queue, written,   \* the run: its candidates not yet refreshed, what it wrote
  exit,      \* the exit status of the last run
  told,      \* (history) the files the model was shown and named, when it last wrote it
  events
vars == <<files, summary, head, pc, queue, written, exit, told, events>>

NoSummary == [exists |-> FALSE, trust |-> "none", body |-> {}]
Emptied == [exists |-> TRUE, trust |-> "none", body |-> {}]

Init ==
  /\ files = [n \in Namespace |-> {}] /\ summary = [n \in Namespace |-> NoSummary]
  /\ head = summary /\ pc = "idle" /\ queue = {} /\ written = {} /\ exit = 0
  /\ told = [n \in Namespace |-> {}] /\ events = 0

-----------------------------------------------------------------------------
(* What others do. *)
Others == events < MaxEvents /\ events' = events + 1

ChangeFiles(n) ==
  /\ Others /\ \E f \in File : files' = [files EXCEPT ![n] = IF f \in @ THEN @ \ {f} ELSE @ \cup {f}]
  /\ UNCHANGED <<summary, head, pc, queue, written, exit, told>>

EditSummary(n) ==
  /\ Others
  /\ \E t \in Trusts, b \in {{}, files[n]} :
       summary' = [summary EXCEPT ![n] = [exists |-> TRUE, trust |-> t, body |-> b]]
  /\ told' = [told EXCEPT ![n] = {}]
  /\ UNCHANGED <<files, head, pc, queue, written, exit>>

-----------------------------------------------------------------------------
\* Faulty variant: the body that is there is not looked at.
UnmentionedAll(n) == files[n]
\* The files the summary does not name.
Unmentioned(n) == files[n] \ summary[n].body

Candidates ==
  {n \in Namespace :
     /\ Cardinality(files[n]) <= MaxFilesPerDir
     /\ Cardinality(Unmentioned(n)) >= MinUnmentioned /\ files[n] # {}}

\* The first MaxNamespaces of them; 0 is no cap.
Capped(cs) == IF MaxNamespaces = 0 THEN cs
              ELSE {n \in cs : Cardinality({m \in cs : m < n}) < MaxNamespaces}

Candidate(n) == [ns |-> n, files |-> files[n], trust |-> summary[n].trust]
\* The directories are looked at once, and what was read then is kept for the whole run.
Start ==
  /\ pc = "idle" /\ Others
  /\ queue' = {Candidate(n) : n \in Capped(Candidates)}
  /\ exit' = 0 /\ written' = {} /\ pc' = IF queue' = {} THEN "idle" ELSE "ask"
  /\ UNCHANGED <<files, summary, head, told>>

\* seed_frontmatter: what was there, and a trust where there was none.
Seed(c) == IF c.trust = "none" THEN "medium" ELSE c.trust

NextCandidate(c) == pc = "ask" /\ c \in queue /\ \A d \in queue : c.ns <= d.ns
Leave(c) == queue' = queue \ {c} /\ pc' = IF queue' = {} THEN "commit" ELSE "ask"

\* The model failed, or its reply is empty, or the file could not be written: nothing or
\* half of it is on the disk.
Skip(c) ==
  /\ NextCandidate(c) /\ Leave(c) /\ exit' = 1
  /\ \/ UNCHANGED <<summary, told>>
     \/ /\ summary' = [summary EXCEPT ![c.ns] = Emptied]
        /\ told' = [told EXCEPT ![c.ns] = {}]
  /\ UNCHANGED <<files, head, written, events>>

\* The files that the prompt shows, with the body there is; the reply names some of them.
Shown(c) == c.files
Write(c) ==
  /\ NextCandidate(c) /\ Leave(c)
  /\ \E named \in SUBSET Shown(c) :
       /\ summary' = [summary EXCEPT ![c.ns] = [exists |-> TRUE, trust |-> Seed(c), body |-> named]]
       /\ told' = [told EXCEPT ![c.ns] = named]
  /\ written' = written \cup {c.ns}
  /\ UNCHANGED <<files, head, exit, events>>

Killed == pc' = "idle" /\ queue' = {} /\ written' = {}
KillInWrite(c) ==
  /\ NextCandidate(c) /\ Killed
  /\ summary' = [summary EXCEPT ![c.ns] = Emptied] /\ told' = [told EXCEPT ![c.ns] = {}]
  /\ UNCHANGED <<files, head, exit, events>>
Kill == pc # "idle" /\ Killed /\ UNCHANGED <<files, summary, head, exit, told, events>>

\* One commit of all that was written; a repository that refuses it is a warning.
Commit ==
  /\ pc = "commit" /\ Killed
  /\ head' \in {head, [n \in Namespace |-> IF n \in written THEN summary[n] ELSE head[n]]}
  /\ UNCHANGED <<files, summary, exit, told, events>>

Next ==
  \/ \E n \in Namespace : ChangeFiles(n) \/ EditSummary(n)
  \/ Start \/ (\E c \in queue : Skip(c) \/ Write(c) \/ KillInWrite(c))
  \/ Kill \/ Commit
Spec == Init /\ [][Next]_vars

-----------------------------------------------------------------------------
TypeOK ==
  /\ \A n \in Namespace : files[n] \subseteq File /\ summary[n].body \subseteq File
  /\ written \subseteq Namespace /\ pc \in {"idle", "ask", "commit"} /\ exit \in {0, 1}

\* "find SUMMARY.md files that have drifted (new files the existing summary doesn't
\* reference ...)" (cmd_consolidate.py:3-6): no run, however it interleaves with other
\* writers and whatever earlier runs were killed, asks (and pays) for a summary unless,
\* when it looked, that many files had come up since the model last named them.
OnlyDrifted ==
  \A c \in queue : Cardinality(c.files \ told[c.ns]) >= MinUnmentioned

(* What it rests on, for a proof by induction: a summary names all that the model last *)
(* named in it, and a directory is in the queue at most once.                           *)
Types ==
  /\ files \in [Namespace -> SUBSET File] /\ told \in [Namespace -> SUBSET File]
  /\ summary \in [Namespace -> [exists : BOOLEAN, trust : Trusts \cup {"none", "medium"}, body : SUBSET File]]
  /\ queue \subseteq [ns : Namespace, files : SUBSET File, trust : Trusts \cup {"none", "medium"}]
StillNamed == \A n \in Namespace : told[n] \subseteq summary[n].body
QueuedOnce == \A c, d \in queue : c.ns = d.ns => c = d
IInv == TypeOK /\ Types /\ StillNamed /\ QueuedOnce /\ OnlyDrifted

\* seed_frontmatter "Preserves existing fields the curation policy cares about (``trust``,
\* ...)" (consolidate.py:322-325): a run leaves the trust of a summary as it finds it.
TrustPreserved ==
  [][\A n \in Namespace :
       written' # written /\ summary[n].trust # "none" => summary'[n].trust = summary[n].trust]_vars
=============================================================================

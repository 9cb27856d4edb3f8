----------------------------- MODULE SubagentRun -----------------------------
(***************************************************************************)
(* The runs of sub-agents in one session (config.py: _wire_subagent_spawn;        *)
(* tools/subagent.py): each takes a number, writes a trace of its own beside the  *)
(* session's, and is reported in the session's trace when it has returned.        *)
(* The session may pause and be resumed by another process, which starts its      *)
(* numbers after the highest one reported.  A child holds the tools its parent    *)
(* granted it, which may be the tool that asks the user.                          *)
(***************************************************************************)
EXTENDS Naturals, FiniteSets

CONSTANTS
  Run,        \* the runs of sub-agents, in the life of the session
  MaxDepth, MaxPauses

VARIABLES
  pc,         \* the session: "turn", "batch", "paused" or "stuck"
  seq,        \* spawn_seq of the process
  number, above, state,  \* of a run: its number, the run that spawned it (Session for none), how far it is
  depth,      \* current_depth of the spawn tool that its child would be given
  files,      \* files[n]: the runs whose events the n-th trace holds
  reported,   \* the subagent_run events of the session's trace: [run, seq]
  stamp,      \* current_tool_use_id: of the pausing call, of another call, or none
  request,    \* the pause handle's request: the tool_use_id it names, or None
  asker,      \* who asked
  replies,    \* what the user's answers were written over
  pauses
runs == <<number, above, state, depth>>
pause == <<stamp, request, asker, replies>>
vars == <<pc, seq, runs, files, reported, pause, pauses>>

Session == "session"
None == "none"
Unstamped == ""  \* current_tool_use_id outside of a mutating turn
Number == 1 .. Cardinality(Run)

Init ==
  /\ pc = "turn" /\ seq = 0 /\ pauses = 0
  /\ number = [r \in Run |-> 0] /\ above = [r \in Run |-> Session] /\ state = [r \in Run |-> "new"]
  /\ depth = [r \in Run |-> 0]
  /\ files = [n \in Number |-> {}] /\ reported = {}
  /\ stamp = Unstamped /\ request = None /\ asker = Session /\ replies = {}

-----------------------------------------------------------------------------
Depth(r) == IF r = Session THEN 0 ELSE depth[r]
Live(r) == state[r] \in {"numbered", "running"}
\* A child dispatches its calls one at a time, so that it waits for the one it has spawned.
Waits(r) == \E s \in Run : above[s] = r /\ Live(s)

\* A turn's calls: a mutating one among them gives each its own stamp, in turn.
BeginBatch(mutating) ==
  /\ pc = "turn" /\ pc' = "batch" /\ stamp' = IF mutating THEN "other" ELSE Unstamped
  /\ UNCHANGED <<seq, runs, files, reported, request, asker, replies, pauses>>
Asks(who, id) == pauses < MaxPauses /\ request' = id /\ asker' = who
ParentAsks ==
  /\ pc = "batch" /\ stamp = "other" /\ ~\E r \in Run : Live(r)
  /\ Asks(Session, "pause")
  /\ UNCHANGED <<pc, seq, runs, files, reported, stamp, replies, pauses>>

MaySpawn(from) == Depth(from) < MaxDepth
\* The number is taken under a lock; no number is ever given back.
Spawn(r, from) ==
  /\ pc = "batch" /\ state[r] = "new"
  /\ from = Session \/ (from \in Run /\ state[from] = "running" /\ ~Waits(from))
  /\ MaySpawn(from)
  \* The calls of a mutating turn run one by one.
  /\ from = Session /\ stamp # Unstamped => ~\E s \in Run : Live(s)
  /\ seq' = seq + 1 /\ number' = [number EXCEPT ![r] = seq + 1]
  /\ above' = [above EXCEPT ![r] = from] /\ state' = [state EXCEPT ![r] = "numbered"]
  /\ depth' = [depth EXCEPT ![r] = Depth(from) + 1]
  /\ UNCHANGED <<pc, files, reported, pause, pauses>>

\* Opened to append; a file that cannot be opened leaves the run without a trace.
OpenTrace(r) ==
  /\ state[r] = "numbered" /\ state' = [state EXCEPT ![r] = "running"]
  /\ \/ files' = [files EXCEPT ![number[r]] = @ \cup {r}]
     \/ UNCHANGED files
  /\ UNCHANGED <<pc, seq, number, above, depth, reported, pause, pauses>>

\* The child's loop has no pause handle: it goes on after it has asked.
ChildAsks(r) ==
  /\ state[r] = "running" /\ ~Waits(r) /\ Asks(r, stamp)
  /\ UNCHANGED <<pc, seq, runs, files, reported, stamp, replies, pauses>>

\* The report is made on a best effort.
Return(r) ==
  /\ state[r] = "running" /\ ~Waits(r) /\ state' = [state EXCEPT ![r] = "returned"]
  /\ \/ reported' = reported \cup {[run |-> r, seq |-> number[r]]}
     \/ UNCHANGED reported
  /\ UNCHANGED <<pc, seq, number, above, depth, files, pause, pauses>>
Raise(r) ==
  /\ state[r] = "running" /\ ~Waits(r) /\ state' = [state EXCEPT ![r] = "raised"]
  /\ UNCHANGED <<pc, seq, number, above, depth, files, reported, pause, pauses>>

\* The end of the batch: the loop looks whether anyone has asked.
EndBatch ==
  /\ pc = "batch" /\ ~\E r \in Run : Live(r)
  /\ IF request = None THEN pc' = "turn" /\ UNCHANGED pauses ELSE pc' = "paused" /\ pauses' = pauses + 1
  /\ stamp' = Unstamped
  /\ UNCHANGED <<seq, runs, files, reported, request, asker, replies>>

-----------------------------------------------------------------------------
(* The next process. *)
\* Faulty variant: the numbers start anew.
MaxExistingNone == 0
MaxExistingSubagentSeq ==
  IF reported = {} THEN 0 ELSE CHOOSE n \in {e.seq : e \in reported} : \A e \in reported : e.seq <= n

\* The reply is written over the result of the call that the request names.
Resume ==
  /\ pc = "paused"
  /\ IF request = Unstamped
       THEN pc' = "stuck" /\ UNCHANGED <<seq, request, replies>>
       ELSE /\ pc' = "turn" /\ seq' = MaxExistingSubagentSeq
            /\ replies' = replies \cup {[over |-> request, asker |-> asker]} /\ request' = None
  /\ UNCHANGED <<runs, files, reported, stamp, asker, pauses>>

OfRun(r) ==
  \/ \E from \in Run \cup {Session} : Spawn(r, from)
  \/ OpenTrace(r) \/ ChildAsks(r) \/ Return(r) \/ Raise(r)
Next ==
  \/ \E mutating \in BOOLEAN : BeginBatch(mutating)
  \/ ParentAsks \/ EndBatch \/ Resume
  \/ \E r \in Run : OfRun(r)
Spec == Init /\ [][Next]_vars

-----------------------------------------------------------------------------
TypeOK ==
  /\ pc \in {"turn", "batch", "paused", "stuck"} /\ seq \in 0 .. Cardinality(Run)
  /\ \A r \in Run : (state[r] = "new" <=> number[r] = 0) /\ depth[r] <= MaxDepth
  /\ request \in {None, "pause", "other", Unstamped}

\* Two runs that the session's trace reports never have one number, and so neither one
\* trace file nor one span: over parallel and nested spawns, runs that raised, and resumes.
ReportedApart == \A e, f \in reported : e.seq = f.seq => e.run = f.run

\* "Each subagent run writes its own JSONL trace" (config.py:1086): a trace holds the events
\* of one run, also after a resume.
TracesAreOwn == \A n \in Number : Cardinality(files[n]) <= 1

\* "Their answer becomes this tool's result on resume" (pause.py): the answer of the user
\* replaces the placeholder of whoever asked, and no session is left that cannot be resumed.
AnswersLand == pc # "stuck" /\ \A a \in replies : a.over = "pause"
-----------------------------------------------------------------------------
(* What ReportedApart rests on, for a proof by induction: the numbers of runs  *)
(* that raised or were not reported are given out again after a resume.       *)
Spawned == {r \in Run : state[r] # "new"}
Types ==
  /\ seq \in Nat /\ number \in [Run -> Nat] /\ depth \in [Run -> Nat] /\ stamp \in {Unstamped, "other"}
  /\ state \in [Run -> {"new", "numbered", "running", "returned", "raised"}]
  /\ reported \in SUBSET [run : Run, seq : Nat]

\* No run outlives its batch, so nothing is live when a process is replaced.
BatchEnds == pc # "batch" => \A r \in Run : ~Live(r)

\* Of the numbers that were reported one is the highest, which a new process reads.
HasHighest ==
  reported # {} => \E m \in {e.seq : e \in reported} : \A e \in reported : e.seq <= m

\* No process has counted further than there were runs.
Counted ==
  seq <= Cardinality(Spawned) /\ \A e \in reported : e.seq <= Cardinality(Spawned)

\* What is live has numbers of its own, none of them reported; the counter is never
\* below a number that is live or reported.
Distinct ==
  /\ \A e \in reported : e.seq <= seq
  /\ \A r \in Run : Live(r) => number[r] <= seq /\ \A e \in reported : e.seq # number[r]
  /\ \A r, s \in Run : Live(r) /\ Live(s) /\ number[r] = number[s] => r = s

IInv == TypeOK /\ Types /\ BatchEnds /\ HasHighest /\ Counted /\ Distinct /\ ReportedApart
=============================================================================

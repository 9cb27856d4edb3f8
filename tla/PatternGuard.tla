------------------------------ MODULE PatternGuard ------------------------------
(***************************************************************************)
(* The guard against an agent that pages through a file in tiny slices        *)
(* (loop_guards.py), on which AgentLoop's StopAtPattern stands: after each     *)
(* batch of calls it looks at the last calls and may warn the agent, once for   *)
(* each file, or end the run.  A batch that changes a file starts it afresh,    *)
(* and so does every run, resumed ones included.                                *)
(***************************************************************************)
EXTENDS Naturals, Sequences, FiniteSets

CONSTANTS
  File,                            \* numbers: normalised paths, in their order
  Path, Normal,                    \* paths as calls spell them, and normalize_tool_path of each
  Threshold, TerminateAt, Window,  \* 0: off
  MaxBatch, MaxBatches

VARIABLES
  recent,    \* the small reads among the last Window calls, by file; 0: another call
  nudged,    \* the files the agent was warned about
  action,    \* what the last batch led to: [kind, file]
  reads,     \* (history) the calls of the run since a batch that changed files, as in Observe
  batches
vars == <<recent, nudged, action, reads, batches>>

NoAction == [kind |-> "none", file |-> 0]
Init == recent = <<>> /\ nudged = {} /\ action = NoAction /\ reads = <<>> /\ batches = 0

Active == Threshold > 0 \/ TerminateAt > 0
Batches == batches < MaxBatches /\ batches' = batches + 1 /\ action.kind # "terminate"

Latest(seq) == IF Len(seq) <= Window THEN seq ELSE SubSeq(seq, Len(seq) - Window + 1, Len(seq))
Times(seq, f) == Cardinality({i \in DOMAIN seq : seq[i] = f})

\* What the guard keeps of a call.
Event(call) == IF call = "none" THEN 0 ELSE Normal[call]

-----------------------------------------------------------------------------
\* The first file, in their order, that is due for the one or the other.
Due(seq) ==
  {[kind |-> k, file |-> f] : k \in {"nudge", "terminate"}, f \in File} \cap
  ({[kind |-> "terminate", file |-> f] : f \in {g \in File : TerminateAt > 0 /\ Times(seq, g) >= TerminateAt}}
     \cup
   {[kind |-> "nudge", file |-> f] : f \in {g \in File \ nudged :
       /\ Threshold > 0 /\ Times(seq, g) >= Threshold
       /\ ~(TerminateAt > 0 /\ Times(seq, g) >= TerminateAt)}})
FirstDue(seq) ==
  IF Due(seq) = {} THEN NoAction ELSE CHOOSE a \in Due(seq) : \A b \in Due(seq) : a.file <= b.file

\* A batch without a call that changes files: for each call the path of a small read that
\* succeeded, or none.
Observe ==
  /\ Active /\ Batches
  /\ \E n \in 1 .. MaxBatch : \E calls \in [1 .. n -> Path \cup {"none"}] :
       LET seen == Latest(recent \o [i \in 1 .. n |-> Event(calls[i])])
       IN /\ recent' = seen /\ action' = FirstDue(seen)
          /\ nudged' = IF action'.kind = "nudge" THEN nudged \cup {action'.file} ELSE nudged
          /\ reads' = reads \o calls

\* Faulty variant: the reads stay, only the warnings are forgotten.
AfterChangeKeeps(seq) == seq
\* What remains of the last calls after a batch that changed files.
AfterChange(seq) == <<>>

\* One call of the batch changes files, or fails to.
ObserveChange ==
  /\ Active /\ Batches
  /\ recent' = AfterChange(recent) /\ nudged' = {} /\ action' = NoAction /\ reads' = <<>>

\* The next line of a session, or the run of a session that was paused.
NewRun ==
  /\ Batches /\ recent' = <<>> /\ nudged' = {} /\ action' = NoAction /\ reads' = <<>>

Next == Observe \/ ObserveChange \/ NewRun
Spec == Init /\ [][Next]_vars

-----------------------------------------------------------------------------
TypeOK ==
  /\ Len(recent) <= Window /\ \A i \in DOMAIN recent : recent[i] \in File \cup {0}
  /\ nudged \subseteq File

Spelled(f) == {p \in Path : Normal[p] = f}
ReadsIn(seq, f) == Cardinality({i \in DOMAIN seq : seq[i] \in Spelled(f)})

\* The guard acts on what the agent did since it last changed a file: no warning and no
\* end of the run before as many small reads as each takes, however the batches cut the
\* window (loop_guards.py:163-196).
ActsAreEarned ==
  /\ action.kind = "nudge" => ReadsIn(reads, action.file) >= Threshold
  /\ action.kind = "terminate" => ReadsIn(reads, action.file) >= TerminateAt

\* Inductive: the window is the end of what the run did, as the guard keeps it.
Windowed(seq, done) ==
  /\ seq \in Seq(File \cup {0}) /\ done \in Seq(Path \cup {"none"}) /\ Len(seq) <= Len(done)
  /\ \A i \in 1 .. Len(seq) : seq[i] = Event(done[Len(done) - Len(seq) + i])
Acted ==
  /\ action.kind \in {"none", "nudge", "terminate"}
  /\ action.kind # "none" => action.file \in File
IInv ==
  /\ Windowed(recent, reads) /\ Len(recent) <= Window /\ nudged \subseteq File
  /\ Acted /\ ActsAreEarned

\* "you have repeatedly read tiny slices of the same file" (loop_guards.py:51-53).
ItWasOneFile ==
  action.kind # "none" =>
    \E p \in Spelled(action.file) :
      Times(reads, p) >= IF action.kind = "nudge" THEN Threshold ELSE TerminateAt
=============================================================================

---------------------------- MODULE SessionPause ----------------------------
(***************************************************************************)
(* A session that pauses for its user and is resumed by later processes:   *)
(* what the processes share is the session's row in the SessionStore, its  *)
(* checkpoint.json and its trace.  The first process is the CLI or the     *)
(* server; every other one is a `harness resume`, plain or --relocate.     *)
(*                                                                         *)
(* The conversation, the memory buffer and the usage of a run grow         *)
(* together with the trace; their common measure is the number of events.  *)
(* The first process may be interactive: its runs are lines, and a pause   *)
(* hands on the usage of the last of them only.                            *)
(***************************************************************************)
EXTENDS Naturals

CONSTANTS
  Proc,     \* the processes, in the life of one session
  First,    \* the process that starts the session
  Overlap,  \* whether two resumes may be under way at once
  MaxTrace, \* bound on traced events
  MaxAsked  \* bound on questions

ASSUME SessionPauseAssumption ==
  /\ First \in Proc
  /\ Overlap \in BOOLEAN
  /\ {MaxTrace, MaxAsked} \subseteq Nat

VARIABLES
  status,    \* the row's status
  recorded,  \* the row names a checkpoint (pause_checkpoint is not NULL)
  row,       \* what complete_session stored: usage and the bridge's verdict
  file,      \* checkpoint.json, or NoFile
  traced,    \* events in the trace
  covered,   \* the trace the artifacts were made from; 0: no artifacts
  asked,     \* questions asked so far; they are numbered
  pc,        \* pc[p]: where process p is
  work,      \* work[p]: the events the conversation of p holds
  earlier,   \* earlier[p]: those whose usage the run of p does not count
  answered,  \* answered[p]: the questions whose placeholder became a reply
  pending,   \* pending[p]: the request in the pause handle, 0 for none
  gen,       \* gen[p]: the checkpoint p has loaded, 0 for none
  outcome,   \* outcome[p]: the status p will store
  \* history
  lost,      \* requests overwritten by a later one of the same batch
  resumed,   \* checkpoints a run has been continued from
  forked,    \* some checkpoint has been continued from twice
  relocated, \* --relocate has been used
  broken     \* some process died, raised, or could not write its checkpoint

vars == <<status, recorded, row, file, traced, covered, asked, pc, work, earlier,
          answered, pending, gen, outcome, lost, resumed, forked, relocated, broken>>

NoFile == [work |-> 0, usage |-> 0, answered |-> {}, pending |-> 0, gen |-> 0]

(* A process that has begun to handle the session and is not done with it.  *)
Active(p) == pc[p] \notin {"new", "done", "dead"}

(* A process that runs the session's loop, or ends a run and still needs    *)
(* what the run has left in memory.                                         *)
Running(p) == pc[p] \in {"run", "pausing", "bridging", "closing"}

(* The first event is session_start.                                        *)
Init ==
  /\ status = "running" /\ recorded = FALSE
  /\ row = [usage |-> 0, bridge |-> "none"]
  /\ file = NoFile
  /\ traced = 1 /\ covered = 0 /\ asked = 0
  /\ pc = [p \in Proc |-> IF p = First THEN "run" ELSE "new"]
  /\ work = [p \in Proc |-> IF p = First THEN 1 ELSE 0]
  /\ earlier = [p \in Proc |-> 0]
  /\ answered = [p \in Proc |-> {}]
  /\ pending = [p \in Proc |-> 0]
  /\ gen = [p \in Proc |-> 0]
  /\ outcome = [p \in Proc |-> "completed"]
  /\ lost = {} /\ resumed = {}
  /\ forked = FALSE /\ relocated = FALSE /\ broken = FALSE
-----------------------------------------------------------------------------
(* The loop of one process.                                                 *)

Work(p) ==
  /\ pc[p] = "run"
  /\ traced < MaxTrace
  /\ traced' = traced + 1
  /\ work' = [work EXCEPT ![p] = @ + 1]
  /\ UNCHANGED <<status, recorded, row, file, covered, asked, pc, earlier, answered,
                 pending, gen, outcome, lost, resumed, forked, relocated, broken>>

(* The next line of an interactive session: the result of its run counts    *)
(* from here, while the session's total stays with the process.             *)
NextLine(p) ==
  /\ pc[p] = "run" /\ p = First /\ pending[p] = 0
  /\ earlier' = [earlier EXCEPT ![p] = work[p]]
  /\ UNCHANGED <<status, recorded, row, file, traced, covered, asked, pc, work, answered,
                 pending, gen, outcome, lost, resumed, forked, relocated, broken>>

(* pause_for_user stamps the handle; a second call in the same batch        *)
(* replaces the first request.                                              *)
Ask(p) ==
  /\ pc[p] = "run"
  /\ asked < MaxAsked
  /\ asked' = asked + 1
  /\ pending' = [pending EXCEPT ![p] = asked + 1]
  /\ lost' = lost \union ({pending[p]} \ {0})
  /\ UNCHANGED <<status, recorded, row, file, traced, covered, pc, work, earlier,
                 answered, gen, outcome, resumed, forked, relocated, broken>>

(* Faulty variant: the bridge runs over the trace of a pausing session.     *)
PauseBridges(p) ==
  /\ pc[p] = "run" /\ pending[p] # 0
  /\ pc' = [pc EXCEPT ![p] = "pausing"]
  /\ covered' = traced
  /\ UNCHANGED <<status, recorded, row, file, traced, asked, work, earlier, answered,
                 pending, gen, outcome, lost, resumed, forked, relocated, broken>>

(* After the batch the loop returns the pause; nothing else is written yet. *)
Pause(p) ==
  /\ pc[p] = "run" /\ pending[p] # 0
  /\ pc' = [pc EXCEPT ![p] = "pausing"]
  /\ UNCHANGED <<status, recorded, row, file, traced, covered, asked, work, earlier,
                 answered, pending, gen, outcome, lost, resumed, forked, relocated, broken>>

(* The run ends without a pause: an answer, a budget, or the stop button of *)
(* the server.                                                              *)
Finish(p) ==
  /\ pc[p] = "run" /\ pending[p] = 0
  /\ pc' = [pc EXCEPT ![p] = "bridging"]
  /\ \E o \in {"completed"} \union (IF p = First THEN {"stopped"} ELSE {}) :
       outcome' = [outcome EXCEPT ![p] = o]
  /\ UNCHANGED <<status, recorded, row, file, traced, covered, asked, work, earlier,
                 answered, pending, gen, lost, resumed, forked, relocated, broken>>

(* An exception leaves run(): the CLI and `harness resume` close the store  *)
(* without touching the row; the server bridges and stores an error row.    *)
Raise(p) ==
  /\ pc[p] = "run"
  /\ pc' = [pc EXCEPT ![p] = "done"]
  /\ broken' = TRUE
  /\ UNCHANGED <<status, recorded, row, file, traced, covered, asked, work, earlier,
                 answered, pending, gen, outcome, lost, resumed, forked, relocated>>

ServerError(p) ==
  /\ pc[p] = "run" /\ p = First
  /\ pc' = [pc EXCEPT ![p] = "bridging"]
  /\ outcome' = [outcome EXCEPT ![p] = "error"]
  /\ UNCHANGED <<status, recorded, row, file, traced, covered, asked, work, earlier,
                 answered, pending, gen, lost, resumed, forked, relocated, broken>>
-----------------------------------------------------------------------------
(* A pause: the checkpoint is replaced atomically, then the row is flipped. *)

(* Faulty variant: the conversation is taken without the user's replies.    *)
CheckpointWithoutReplies(p) ==
  [work |-> work[p], usage |-> work[p] - earlier[p], answered |-> {},
   pending |-> pending[p], gen |-> file.gen + 1]

(* The usage is that of the run that paused: of an interactive session the  *)
(* last line only.                                                          *)
Checkpoint(p) ==
  [work |-> work[p], usage |-> work[p] - earlier[p], answered |-> answered[p],
   pending |-> pending[p], gen |-> file.gen + 1]

(* Faulty variant: the row is flipped before the checkpoint is written.     *)
MarkThenWrite(p) ==
  /\ pc[p] = "pausing"
  /\ status' = "paused" /\ recorded' = TRUE
  /\ pc' = [pc EXCEPT ![p] = "marking"]
  /\ UNCHANGED <<file, row, traced, covered, asked, work, earlier, answered,
                 pending, gen, outcome, lost, resumed, forked, relocated, broken>>

WriteCheckpoint(p) ==
  /\ pc[p] = "pausing"
  /\ file' = Checkpoint(p)
  /\ pc' = [pc EXCEPT ![p] = "marking"]
  /\ UNCHANGED <<status, recorded, row, traced, covered, asked, work, earlier, answered,
                 pending, gen, outcome, lost, resumed, forked, relocated, broken>>

(* The checkpoint cannot be written: the server keeps the error for itself, *)
(* the CLI raises.  Or the final row cannot, which record_completed_session *)
(* hides.  In each case the row stays as it is.                             *)
WriteFails(p) ==
  /\ pc[p] \in {"pausing", "closing"}
  /\ pc' = [pc EXCEPT ![p] = "done"]
  /\ broken' = TRUE
  /\ UNCHANGED <<status, recorded, row, file, traced, covered, asked, work, earlier,
                 answered, pending, gen, outcome, lost, resumed, forked, relocated>>

(* Faulty variant: the row keeps its status when the session pauses again.  *)
MarkPausedOnce(p) ==
  /\ pc[p] = "marking"
  /\ status' = IF p = First THEN "paused" ELSE status
  /\ recorded' = TRUE
  /\ pc' = [pc EXCEPT ![p] = "done"]
  /\ UNCHANGED <<row, file, traced, covered, asked, work, earlier, answered, pending,
                 gen, outcome, lost, resumed, forked, relocated, broken>>

MarkPaused(p) ==
  /\ pc[p] = "marking"
  /\ status' = "paused" /\ recorded' = TRUE
  /\ pc' = [pc EXCEPT ![p] = "done"]
  /\ UNCHANGED <<row, file, traced, covered, asked, work, earlier, answered, pending,
                 gen, outcome, lost, resumed, forked, relocated, broken>>
-----------------------------------------------------------------------------
(* The natural end: artifacts from the trace, then the final row.           *)

(* Faulty variant: a run without artifacts is reported as skipped.          *)
BridgeReportsSkip(p) ==
  /\ pc[p] = "bridging"
  /\ covered' = IF file = NoFile THEN traced ELSE covered
  /\ row' = [row EXCEPT !.bridge = IF file = NoFile THEN "ok" ELSE "skipped"]
  /\ pc' = [pc EXCEPT ![p] = "closing"]
  /\ UNCHANGED <<status, recorded, file, traced, asked, work, earlier, answered, pending,
                 gen, outcome, lost, resumed, forked, relocated, broken>>

(* run_trace_bridge returns without artifacts, and without an error, when a *)
(* checkpoint.json lies next to the trace; any exception is caught.         *)
Bridge(p) ==
  /\ pc[p] = "bridging"
  /\ \/ /\ covered' = IF file = NoFile THEN traced ELSE covered
        /\ row' = [usage |-> row.usage, bridge |-> "ok"]
     \/ /\ covered' = covered
        /\ row' = [usage |-> row.usage, bridge |-> "error"]
  /\ pc' = [pc EXCEPT ![p] = "closing"]
  /\ UNCHANGED <<status, recorded, file, traced, asked, work, earlier, answered, pending,
                 gen, outcome, lost, resumed, forked, relocated, broken>>

Complete(p) ==
  /\ pc[p] = "closing"
  /\ status' = outcome[p]
  /\ row' = [usage |-> IF p = First THEN work[p] ELSE work[p] - earlier[p],
             bridge |-> row.bridge]
  /\ pc' = [pc EXCEPT ![p] = "done"]
  /\ UNCHANGED <<recorded, file, traced, covered, asked, work, earlier, answered, pending,
                 gen, outcome, lost, resumed, forked, relocated, broken>>
-----------------------------------------------------------------------------
(* harness resume.                                                          *)

Quiet == Overlap \/ \A p \in Proc : ~Active(p)

(* The row must be paused and name a checkpoint, or the command refuses.    *)
Check(p) ==
  /\ pc[p] = "new" /\ Quiet
  /\ pc' = [pc EXCEPT ![p] = IF status = "paused" /\ recorded THEN "checked" ELSE "done"]
  /\ UNCHANGED <<status, recorded, row, file, traced, covered, asked, work, earlier,
                 answered, pending, gen, outcome, lost, resumed, forked, relocated, broken>>

(* Faulty variant: the resumed run starts its usage from nothing.           *)
RestoreWithoutUsage(p) ==
  /\ pc' = [pc EXCEPT ![p] = "loaded"]
  /\ work' = [work EXCEPT ![p] = file.work]
  /\ earlier' = [earlier EXCEPT ![p] = file.work]
  /\ answered' = [answered EXCEPT ![p] = file.answered \union {file.pending}]
  /\ gen' = [gen EXCEPT ![p] = file.gen]

(* Read the checkpoint, take the reply and put it in the place of the       *)
(* pending question: conversation, memory buffer and usage are restored.    *)
Restore(p) ==
  /\ pc' = [pc EXCEPT ![p] = "loaded"]
  /\ work' = [work EXCEPT ![p] = file.work]
  /\ earlier' = [earlier EXCEPT ![p] = file.work - file.usage]
  /\ answered' = [answered EXCEPT ![p] = file.answered \union {file.pending}]
  /\ gen' = [gen EXCEPT ![p] = file.gen]

Load(p) ==
  /\ pc[p] = "checked"
  /\ file # NoFile
  /\ Restore(p)
  /\ UNCHANGED <<status, recorded, row, file, traced, covered, asked, pending,
                 outcome, lost, resumed, forked, relocated, broken>>

(* --relocate looks at no row: it registers one as paused and goes on.      *)
Relocate(p) ==
  /\ pc[p] = "new" /\ p # First /\ Quiet
  /\ file # NoFile
  /\ Restore(p)
  /\ status' = "paused" /\ recorded' = TRUE
  /\ relocated' = TRUE
  /\ UNCHANGED <<row, file, traced, covered, asked, pending,
                 outcome, lost, resumed, forked, broken>>

(* The user sends no reply: nothing has changed.                            *)
GiveUp(p) ==
  /\ pc[p] \in {"checked", "loaded"}
  /\ pc' = [pc EXCEPT ![p] = "done"]
  /\ UNCHANGED <<status, recorded, row, file, traced, covered, asked, work, earlier,
                 answered, pending, gen, outcome, lost, resumed, forked, relocated, broken>>

(* Faulty variant: the row still says paused while the session runs.        *)
ResumeUnmarked(p) ==
  /\ pc[p] = "loaded"
  /\ pc' = [pc EXCEPT ![p] = "run"]
  /\ resumed' = resumed \union {gen[p]}
  /\ forked' = (forked \/ gen[p] \in resumed)
  /\ UNCHANGED <<status, recorded, row, file, traced, covered, asked, work, earlier, answered,
                 pending, gen, outcome, lost, relocated, broken>>

MarkResumed(p) ==
  /\ pc[p] = "loaded"
  /\ status' = "running" /\ recorded' = FALSE
  /\ pc' = [pc EXCEPT ![p] = "run"]
  /\ resumed' = resumed \union {gen[p]}
  /\ forked' = (forked \/ gen[p] \in resumed)
  /\ UNCHANGED <<row, file, traced, covered, asked, work, earlier, answered, pending,
                 gen, outcome, lost, relocated, broken>>

Crash(p) ==
  /\ Active(p)
  /\ pc' = [pc EXCEPT ![p] = "dead"]
  /\ broken' = TRUE
  /\ UNCHANGED <<status, recorded, row, file, traced, covered, asked, work, earlier,
                 answered, pending, gen, outcome, lost, resumed, forked, relocated>>

(* What a process does of itself once the model and the tools have spoken.  *)
Ending(p) ==
  \/ Pause(p) \/ Finish(p) \/ WriteCheckpoint(p) \/ MarkPaused(p)
  \/ Bridge(p) \/ Complete(p) \/ MarkResumed(p)

Next ==
  \E p \in Proc :
    \/ Work(p) \/ NextLine(p) \/ Ask(p) \/ Raise(p) \/ ServerError(p) \/ WriteFails(p) \/ Ending(p)
    \/ Check(p) \/ Load(p) \/ Relocate(p) \/ GiveUp(p) \/ Crash(p)

Spec == Init /\ [][Next]_vars

(* Every run of the loop ends (AgentLoop!EveryRunReturns), and a process    *)
(* that is not killed goes on.                                              *)
FairSpec == Spec /\ \A p \in Proc : WF_vars(Ending(p))
-----------------------------------------------------------------------------
PC == {"new", "checked", "loaded", "run", "pausing", "marking", "bridging",
       "closing", "done", "dead"}
Question == 0 .. MaxAsked   \* 0: no question
CheckpointType == [work : Nat, usage : Nat, answered : SUBSET Question, pending : Question, gen : Nat]

(* Every variable stays in its type.                                        *)
TypeOK ==
  /\ status \in {"running", "paused", "completed", "stopped", "error"}
  /\ recorded \in BOOLEAN /\ forked \in BOOLEAN
  /\ relocated \in BOOLEAN /\ broken \in BOOLEAN
  /\ row \in [usage : Nat, bridge : {"none", "ok", "error"}]
  /\ file \in CheckpointType /\ file.usage <= file.work
  /\ traced \in Nat /\ covered \in Nat
  /\ asked \in 0 .. MaxAsked
  /\ pc \in [Proc -> PC]
  /\ work \in [Proc -> Nat]
  /\ earlier \in [Proc -> Nat] /\ \A p \in Proc : earlier[p] <= work[p]
  /\ answered \in [Proc -> SUBSET Question]
  /\ pending \in [Proc -> Question]
  /\ gen \in [Proc -> Nat]
  /\ outcome \in [Proc -> {"completed", "stopped", "error"}]
  /\ lost \subseteq Question /\ resumed \subseteq Nat

(* A row says paused only while a checkpoint is on disk that the row names, *)
(* and, without overlap or relocation, the checkpoint holds all of          *)
(* the session: every traced event, and the question asked last.            *)
PausedIsComplete ==
  status = "paused" =>
    /\ recorded /\ file # NoFile
    /\ ~(relocated \/ Overlap) => file.work = traced /\ file.pending = asked

(* A session runs on from a checkpoint at most once, whoever crashes where, *)
(* unless resumes overlap or somebody relocates it.                         *)
ForkNeedsRelocate == forked => relocated \/ Overlap

(* Along a session that was not forked a run holds every event of all the   *)
(* runs before it: conversation and memory survive each pause. Their usage  *)
(* survives too, but for the lines of an interactive session before the one *)
(* that paused: they are dropped once, and no later pause drops any more.   *)
NothingForgotten ==
  ~forked => \A p \in Proc : Running(p) =>
    /\ work[p] = traced
    /\ p # First => earlier[p] = earlier[First]

(* ... and every question was answered by a user exactly where it was       *)
(* asked, but for those a second call in their batch has overwritten, and   *)
(* the one now pending.                                                     *)
EveryReplyLands ==
  ~forked => \A p \in Proc : Running(p) =>
    answered[p] = (1 .. asked) \ (lost \union {pending[p]})

(* Artifacts are made once, from the whole trace, after the session's end:  *)
(* never from a session that pauses or may go on.                           *)
ArtifactsAreWhole ==
  covered # 0 => covered = traced /\ file = NoFile

(* A row that says running is settled by its process, unless that process   *)
(* crashed, raised or could not write: paused, or completed.                *)
RowSettles == (status = "running") ~> (status # "running" \/ broken)

(* trace_bridge.py takes the "paused" branch never under normal flow: a     *)
(* completed session whose bridge reported ok has artifacts of its trace.   *)
BridgedWhenCompleted ==
  (status = "completed" /\ row.bridge = "ok") => covered = traced

(* A pause keeps the session whole, and whoever resumes it goes on from     *)
(* there with every answer in its place.                                    *)
PausesSound == TypeOK /\ PausedIsComplete /\ ForkNeedsRelocate /\ NothingForgotten /\ EveryReplyLands
=============================================================================

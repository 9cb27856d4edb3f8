------------------------------ MODULE AgentLoop ------------------------------
(***************************************************************************)
(* One agent session: the turn loop run_until_idle of harness/loop.py and  *)
(* its callers. A "batch" session is run(): one invocation of the loop and *)
(* a reflection turn. An "interactive" session is run_interactive() of     *)
(* harness/runner.py: one invocation per line the user types, under what   *)
(* the earlier lines left of the session's budgets. A session that calls   *)
(* pause_for_user stops behind a checkpoint; resuming it goes on as a      *)
(* batch session from the checkpoint's counters.                           *)
(*                                                                         *)
(* A model response is a cost, whether the output limit cut it, and a      *)
(* batch of tool calls. Tool results, nudges and summaries are message     *)
(* text and left out; what is kept of the conversation is how many         *)
(* assistant messages hold tool calls nobody answered.                     *)
(***************************************************************************)
EXTENDS Integers

CONSTANTS
    Kinds,          \* the kinds of session started, a subset of AllKinds
    Batches,        \* the batches of tool calls a model may emit
    MaxTurns,       \* max_turns of one invocation of the loop
    MaxToolCalls,   \* max_tool_calls of the session
    MaxCost,        \* max_cost_usd of the session, in some unit
    MaxTurnCost,    \* bound: what one model response may cost
    MaxAuxCost,     \* bound: what one call of a compaction or a reflection may cost
    Threshold,      \* repeat_guard_threshold
    TerminateAt,    \* repeat_guard_terminate_at, 0 when it is None
    MaxLines        \* bound: lines typed in an interactive session

AllKinds == {"batch", "interactive"}

NoSig == "no signature"

NoCalls == [sig |-> NoSig, calls |-> 0, exempt |-> FALSE, pauses |-> FALSE]

ASSUME ConstantsAssumption ==
    /\ Kinds \subseteq AllKinds
    /\ \A b \in Batches : /\ b.calls \in Nat \ {0}
                          /\ b.exempt \in BOOLEAN
                          /\ b.pauses \in BOOLEAN
                          /\ b.sig # NoSig
                          /\ b = [sig |-> b.sig, calls |-> b.calls,
                                  exempt |-> b.exempt, pauses |-> b.pauses]
    /\ MaxTurns \in Nat \ {0}
    /\ MaxToolCalls \in Nat
    /\ MaxCost \in Nat
    /\ MaxTurnCost \in Nat
    /\ MaxAuxCost \in Nat
    /\ Threshold \in Nat
    /\ TerminateAt \in Nat
    /\ MaxLines \in Nat

MaxContinuations == 1

VARIABLES
    kind,           \* batch or interactive; a resumed session is batch
    pc,             \* where the session is
    lines,          \* lines typed so far
    turn,           \* the loop variable of this invocation
    cost, calls,    \* total.total_cost_usd and total_tool_calls of this invocation
    prior,          \* session_cost_usd and session_tool_calls of earlier lines
    batch,          \* the batch being executed
    repeats,        \* the repetition guard: prev_batch_sig, repeat_streak, nudge_fired
    continuations,  \* output_limit_continuations
    outcome,        \* how the last invocation ended
    saved,          \* the loop counters and usage in the checkpoint
    reflected,      \* the reflection turn called the model
    unanswered,     \* assistant messages whose tool calls have no result
    spent, executed,\* history: money spent and tool calls executed by the session
    forgotten,      \* history: what the counters lost of both
    warned          \* history: the agent was nudged during the present streak

loopVars == <<turn, cost, calls, repeats, continuations>>
vars == <<kind, pc, lines, turn, cost, calls, prior, batch, repeats, continuations, outcome,
          saved, reflected, unanswered, spent, executed, forgotten, warned>>

Zero == [cost |-> 0, calls |-> 0]
FreshGuard == [sig |-> NoSig, streak |-> 0, nudged |-> FALSE]

Init ==
    /\ kind \in Kinds
    /\ pc = "waiting"
    /\ lines = 0
    /\ turn = 0 /\ cost = 0 /\ calls = 0
    /\ prior = Zero
    /\ batch = NoCalls
    /\ repeats = FreshGuard
    /\ continuations = 0
    /\ outcome = "none"
    /\ saved = [cost |-> 0, calls |-> 0, sig |-> NoSig, streak |-> 0, continuations |-> 0]
    /\ reflected = FALSE
    /\ unanswered = 0
    /\ spent = 0 /\ executed = 0
    /\ forgotten = Zero
    /\ warned = FALSE

-----------------------------------------------------------------------------
(* The budgets of an invocation: what the earlier lines left of the session's. *)

Remaining(cap, used) == IF used < cap THEN cap - used ELSE 0

CostCap == Remaining(MaxCost, prior.cost)
CallCap == Remaining(MaxToolCalls, prior.calls)

(* run() starts its one invocation. *)
StartBatch ==
    /\ kind = "batch" /\ pc = "waiting"
    /\ pc' = "turn"
    /\ UNCHANGED <<kind, lines, loopVars, prior, batch, outcome, saved, reflected,
                   unanswered, spent, executed, forgotten, warned>>

(* A line is typed: an invocation with fresh counters, unless the session's money is gone. *)
ReadLine ==
    /\ kind = "interactive" /\ pc = "waiting" /\ lines < MaxLines
    /\ lines' = lines + 1
    /\ turn' = 0 /\ cost' = 0 /\ calls' = 0
    /\ repeats' = FreshGuard
    /\ warned' = FALSE
    /\ continuations' = 0
    /\ IF CostCap = 0
       THEN pc' = "returned" /\ outcome' = "budget"
       ELSE pc' = "turn" /\ outcome' = "none"
    /\ UNCHANGED <<kind, prior, batch, saved, reflected, unanswered, spent, executed, forgotten>>

-----------------------------------------------------------------------------
(* One turn of run_until_idle: the model answers, the tools run, the guards look. *)

Return(o) == pc' = "returned" /\ outcome' = o

StopSeen ==
    /\ pc = "turn" /\ turn < MaxTurns
    /\ kind = "batch"
    /\ Return("stopped")
    /\ UNCHANGED <<kind, lines, loopVars, prior, batch, saved, reflected, unanswered,
                   spent, executed, forgotten, warned>>

TurnsExhausted ==
    /\ pc = "turn" /\ turn = MaxTurns
    /\ Return("max_turns")
    /\ UNCHANGED <<kind, lines, loopVars, prior, batch, saved, reflected, unanswered,
                   spent, executed, forgotten, warned>>

(* Faulty variant: one turn more than max_turns. *)
ChargeOneMore(c) ==
    /\ pc = "turn" /\ turn <= MaxTurns
    /\ cost' = cost + c
    /\ spent' = spent + c
    /\ UNCHANGED <<kind, lines, calls, prior, repeats, saved, reflected, executed, forgotten, warned>>

(* The model is called and its response paid for. *)
Charge(c) ==
    /\ pc = "turn" /\ turn < MaxTurns
    /\ cost' = cost + c
    /\ spent' = spent + c
    /\ UNCHANGED <<kind, lines, calls, prior, repeats, saved, reflected, executed, forgotten, warned>>

(* Faulty variant: the budget is compared before the response is added to the total. *)
WithinCostLate(c) == cost <= CostCap

WithinCost(c) == cost + c <= CostCap

OverCost == \E c \in 0..MaxTurnCost :
    /\ Charge(c)
    /\ ~WithinCost(c)
    /\ Return("budget")
    /\ UNCHANGED <<turn, batch, continuations, unanswered>>

(* No tool calls, not cut: the loop is idle. *)
FinalAnswer == \E c \in 0..MaxTurnCost :
    /\ Charge(c)
    /\ WithinCost(c)
    /\ Return("final")
    /\ UNCHANGED <<turn, batch, continuations, unanswered>>

(* Faulty variant: the allowance is renewed once it is used, and no turn is counted. *)
ContinueForever == \E c \in 0..MaxTurnCost :
    /\ Charge(c)
    /\ WithinCost(c)
    /\ continuations' = MaxContinuations - continuations
    /\ pc' = "turn"
    /\ UNCHANGED <<turn, batch, outcome, unanswered>>

(* Text cut by the output limit: ask once for the rest. *)
ContinueCutText == \E c \in 0..MaxTurnCost :
    /\ Charge(c)
    /\ WithinCost(c)
    /\ continuations < MaxContinuations
    /\ continuations' = continuations + 1
    /\ turn' = turn + 1
    /\ pc' = "turn"
    /\ UNCHANGED <<batch, outcome, unanswered>>

StopAtCutText == \E c \in 0..MaxTurnCost :
    /\ Charge(c)
    /\ WithinCost(c)
    /\ continuations = MaxContinuations
    /\ Return("output_limit")
    /\ UNCHANGED <<turn, batch, continuations, unanswered>>

(* Tool calls in a cut response may be incomplete: the message stays, its calls never run. *)
BlockCutCalls == \E c \in 0..MaxTurnCost :
    /\ Charge(c)
    /\ WithinCost(c)
    /\ Batches # {}
    /\ unanswered' = unanswered + 1
    /\ Return("output_limit")
    /\ UNCHANGED <<turn, batch, continuations>>

(* Faulty variant: the session's whole budget is handed to every line. *)
WithinCallsPerLine(b) == calls + b.calls <= MaxToolCalls

WithinCalls(b) == calls + b.calls <= CallCap

OverCalls == \E c \in 0..MaxTurnCost, b \in Batches :
    /\ Charge(c)
    /\ WithinCost(c)
    /\ ~WithinCalls(b)
    /\ unanswered' = unanswered + 1
    /\ Return("budget")
    /\ UNCHANGED <<turn, batch, continuations>>

AcceptCalls == \E c \in 0..MaxTurnCost, b \in Batches :
    /\ Charge(c)
    /\ WithinCost(c)
    /\ WithinCalls(b)
    /\ batch' = b
    /\ unanswered' = unanswered + 1
    /\ pc' = "tools"
    /\ UNCHANGED <<turn, continuations, outcome>>

(* The batch runs and its results follow the assistant message that asked for them. *)
Execute ==
    /\ pc = "tools"
    /\ calls' = calls + batch.calls
    /\ executed' = executed + batch.calls
    /\ unanswered' = unanswered - 1
    /\ UNCHANGED <<kind, lines, turn, cost, batch, repeats, continuations, reflected, spent, warned>>

RunTools ==
    /\ Execute
    /\ ~batch.pauses
    /\ pc' = "guards"
    /\ UNCHANGED <<prior, outcome, saved, forgotten>>

(* Faulty variant: the pausing batch is left out of the checkpoint's counters. *)
PauseBeforeCount ==
    /\ Execute
    /\ batch.pauses
    /\ pc' = "paused"
    /\ outcome' = "paused"
    /\ saved' = [cost |-> cost, calls |-> calls, sig |-> repeats.sig,
                 streak |-> repeats.streak, continuations |-> continuations]
    /\ forgotten' = [cost |-> forgotten.cost + prior.cost, calls |-> forgotten.calls + prior.calls]
    /\ prior' = Zero

(* pause_for_user ran: leave before compaction and guards, and checkpoint the   *)
(* counters of this invocation; what earlier lines used is not among them.      *)
Pause ==
    /\ Execute
    /\ batch.pauses
    /\ pc' = "paused"
    /\ outcome' = "paused"
    /\ saved' = [cost |-> cost, calls |-> calls', sig |-> repeats.sig,
                 streak |-> repeats.streak, continuations |-> continuations]
    /\ forgotten' = [cost |-> forgotten.cost + prior.cost, calls |-> forgotten.calls + prior.calls]
    /\ prior' = Zero

-----------------------------------------------------------------------------
(* After the results: compaction, the pattern guard, the repetition guard. *)

GuardActive == Threshold > 0 \/ TerminateAt > 0

(* The streak once this batch is counted; a batch with an exempt tool is not. *)
Counted ==
    IF batch.exempt \/ ~GuardActive THEN repeats
    ELSE IF batch.sig = repeats.sig THEN [sig |-> repeats.sig, streak |-> repeats.streak + 1, nudged |-> repeats.nudged]
    ELSE [sig |-> batch.sig, streak |-> 1, nudged |-> FALSE]

LoopDetected == ~batch.exempt /\ TerminateAt > 0 /\ Counted.streak >= TerminateAt

(* Faulty variant: the nudge waits for a streak beyond the threshold. *)
NudgeDueLate ==
    ~batch.exempt /\ Threshold > 0 /\ Counted.streak > Threshold /\ ~Counted.nudged

NudgeDue ==
    ~batch.exempt /\ Threshold > 0 /\ Counted.streak >= Threshold /\ ~Counted.nudged

NewStreak == ~batch.exempt /\ GuardActive /\ batch.sig # repeats.sig

(* What the two layers may bill in one turn, one after the other: a summary and a list  *)
(* of dead ends, then a full summary. An empty summary is billed but never counted.      *)
Bills == {b \in [counted : 0..3 * MaxAuxCost, dropped : 0..2 * MaxAuxCost] :
             b.counted + b.dropped <= 3 * MaxAuxCost}

Compact ==
    /\ pc = "guards"
    /\ \E bill \in Bills :
          /\ cost' = cost + bill.counted
          /\ spent' = spent + bill.counted + bill.dropped
          /\ forgotten' = [forgotten EXCEPT !.cost = @ + bill.dropped]
    /\ UNCHANGED <<kind, lines, calls, prior, batch, continuations, saved, reflected,
                   unanswered, executed>>

(* The pattern guard, a module of its own, may end the run before the streak is counted. *)
StopAtPattern ==
    /\ Compact
    /\ Return("pattern_loop")
    /\ UNCHANGED <<turn, repeats, warned>>

StopAtLoop ==
    /\ Compact
    /\ LoopDetected
    /\ repeats' = Counted
    /\ warned' = (warned /\ ~NewStreak)
    /\ Return("loop")
    /\ UNCHANGED turn

(* Without a hard stop a nudge restarts the streak; with one the streak goes on growing. *)
NextTurn ==
    /\ Compact
    /\ ~LoopDetected
    /\ repeats' = IF NudgeDue
                  THEN IF TerminateAt = 0 THEN FreshGuard
                       ELSE [sig |-> Counted.sig, streak |-> Counted.streak, nudged |-> TRUE]
                  ELSE Counted
    /\ warned' = (NudgeDue \/ (warned /\ ~NewStreak))
    /\ turn' = turn + 1
    /\ pc' = "turn"
    /\ UNCHANGED outcome

-----------------------------------------------------------------------------
(* The callers. *)

CutShort == {"stopped", "output_limit", "budget"}

(* The reflection turn asks the model about the whole conversation. *)
Reflect(skip) ==
    /\ reflected' = ~skip
    /\ \E c \in (IF skip THEN {0} ELSE 0..MaxAuxCost) :
          cost' = cost + c /\ spent' = spent + c
    /\ pc' = "over"
    /\ UNCHANGED <<kind, lines, turn, calls, prior, batch, repeats, continuations, outcome, saved,
                   unanswered, executed, forgotten, warned>>

(* Faulty variant: run() reflects on every session the user did not stop. *)
FinishBatchAlwaysReflects ==
    /\ kind = "batch" /\ pc = "returned"
    /\ Reflect(outcome = "stopped")

(* run() skips the reflection of a session that was cut short. *)
FinishBatch ==
    /\ kind = "batch" /\ pc = "returned"
    /\ Reflect(outcome \in CutShort)

(* Faulty variant: the REPL forgets to add what the line used. *)
LineDoneUncounted ==
    /\ kind = "interactive" /\ pc = "returned"
    /\ prior' = [prior EXCEPT !.cost = @ + cost]
    /\ cost' = 0 /\ calls' = 0
    /\ pc' = IF outcome # "budget" THEN "waiting" ELSE IF lines = 1 THEN "over" ELSE "closing"
    /\ UNCHANGED <<kind, lines, turn, batch, repeats, continuations, outcome, saved, reflected,
                   unanswered, spent, executed, forgotten, warned>>

(* A line is done: its use joins the session's; an exhausted budget ends the REPL,   *)
(* and on the first line the session counts as never started.                        *)
LineDone ==
    /\ kind = "interactive" /\ pc = "returned"
    /\ prior' = [cost |-> prior.cost + cost, calls |-> prior.calls + calls]
    /\ cost' = 0 /\ calls' = 0
    /\ pc' = IF outcome # "budget" THEN "waiting" ELSE IF lines = 1 THEN "over" ELSE "closing"
    /\ UNCHANGED <<kind, lines, turn, batch, repeats, continuations, outcome, saved, reflected,
                   unanswered, spent, executed, forgotten, warned>>

(* An empty read, an exit word: the REPL stops reading. *)
LeaveRepl ==
    /\ kind = "interactive" /\ pc = "waiting"
    /\ pc' = IF lines = 0 THEN "over" ELSE "closing"
    /\ UNCHANGED <<kind, lines, loopVars, prior, batch, outcome, saved, reflected, unanswered,
                   spent, executed, forgotten, warned>>

(* A keyboard interrupt while the REPL reads or works: the result of the line never     *)
(* reaches the session's totals, nor does what was in flight, a call of the model or     *)
(* the tools of the batch that had already run.                                          *)
Interrupt ==
    /\ kind = "interactive" /\ pc \in {"waiting", "turn", "tools", "guards", "returned"}
    /\ pc' = IF lines = 0 THEN "over" ELSE "closing"
    /\ outcome' = "stopped"
    /\ cost' = 0 /\ calls' = 0
    /\ \E billed \in (IF pc = "turn" THEN 0..MaxTurnCost ELSE {0}),
          run \in (IF pc = "tools" THEN 0..batch.calls ELSE {0}) :
          /\ spent' = spent + billed
          /\ executed' = executed + run
          /\ forgotten' = [cost |-> forgotten.cost + cost + billed, calls |-> forgotten.calls + calls + run]
    /\ UNCHANGED <<kind, lines, turn, prior, batch, repeats, continuations, saved, reflected,
                   unanswered, warned>>

(* The REPL reflects unless the user interrupted it. *)
CloseRepl ==
    /\ kind = "interactive" /\ pc = "closing"
    /\ Reflect(outcome = "stopped")

(* harness resume: run() with the checkpoint's counters, the nudge flag lost. *)
Resume ==
    /\ pc = "paused"
    /\ kind' = "batch"
    /\ turn' = 0
    /\ cost' = saved.cost /\ calls' = saved.calls
    /\ repeats' = [sig |-> saved.sig, nudged |-> FALSE,
                   streak |-> IF saved.streak = 0 THEN 1 ELSE saved.streak]
    /\ continuations' = saved.continuations
    /\ pc' = "turn"
    /\ UNCHANGED <<lines, prior, batch, outcome, saved, reflected, unanswered, spent, executed,
                   forgotten, warned>>

Answer == FinalAnswer \/ ContinueCutText \/ StopAtCutText \/ BlockCutCalls \/ OverCalls \/ AcceptCalls
Guards == StopAtPattern \/ StopAtLoop \/ NextTurn
Invocation == TurnsExhausted \/ OverCost \/ Answer \/ RunTools \/ Pause \/ Guards
Callers == StartBatch \/ FinishBatch \/ LineDone \/ CloseRepl

Next ==
    \/ StopSeen \/ Invocation \/ Callers
    \/ ReadLine \/ LeaveRepl \/ Interrupt \/ Resume

Spec == Init /\ [][Next]_vars

(* The program runs on by itself; the user need not type, interrupt or resume. *)
FairSpec == Spec /\ WF_vars(Invocation) /\ WF_vars(Callers)

-----------------------------------------------------------------------------
SigSet == {b.sig : b \in Batches} \cup {NoSig}
Outcomes == CutShort \cup {"none", "final", "max_turns", "loop", "pattern_loop", "paused"}
Account == [cost : Nat, calls : Nat]

(* Type invariant: every variable ranges over the values the code gives it. *)
TypeOK ==
    /\ kind \in AllKinds
    /\ pc \in {"waiting", "turn", "tools", "guards", "returned", "closing", "paused", "over"}
    /\ lines \in 0..MaxLines
    /\ turn \in 0..MaxTurns
    /\ cost \in Nat /\ calls \in Nat
    /\ prior \in Account
    /\ batch \in Batches \cup {NoCalls}
    /\ repeats \in [sig : SigSet, streak : Nat, nudged : BOOLEAN]
    /\ continuations \in 0..MaxContinuations
    /\ outcome \in Outcomes
    /\ saved \in [cost : Nat, calls : Nat, sig : SigSet, streak : Nat,
                  continuations : 0..MaxContinuations]
    /\ reflected \in BOOLEAN
    /\ unanswered \in Nat
    /\ spent \in Nat /\ executed \in Nat
    /\ forgotten \in Account
    /\ warned \in BOOLEAN

(* The running totals lose nothing but what is known to be lost: what the session really *)
(* spent and ran is what the counters hold, plus what an interactive checkpoint leaves    *)
(* out, an interrupted line never reports and an empty summary is billed for              *)
(* (session_cost_usd and session_tool_calls of run_interactive).                          *)
Accounted ==
    /\ spent = forgotten.cost + prior.cost + cost
    /\ executed = forgotten.calls + prior.calls + calls

(* No history of lines, interrupts, pauses and resumes runs more tool calls than          *)
(* max_tool_calls, but for those that were forgotten, and these stay below it once more:  *)
(* a session runs at most twice its cap (max_tool_calls check of the loop).               *)
CallsWithinCap ==
    /\ executed <= MaxToolCalls + forgotten.calls
    /\ forgotten.calls <= MaxToolCalls

(* Tools never run once the session is over its cost budget, although compaction is      *)
(* charged after the check of a turn and lines share the budget (max_cost_usd check).    *)
NoToolsOverCost == [][executed' # executed => spent <= MaxCost + forgotten.cost]_vars

(* The check comes after the model call, so the money that is counted may overshoot: by   *)
(* one response, the three calls of the two compactions of a turn, and the reflection.    *)
OvershootBounded == spent <= MaxCost + forgotten.cost + MaxTurnCost + 4 * MaxAuxCost

(* A run ended for repeating itself was warned first, in the same streak, also when a    *)
(* pause and resume came in between (repeat_guard_threshold before terminate_at).        *)
LoopStopWarned ==
    (outcome = "loop" /\ 0 < Threshold /\ Threshold < TerminateAt) => warned

(* run() never shows the model a conversation with unanswered tool calls: neither on     *)
(* the next turn, nor after a resume, nor for the reflection (tool_result follows        *)
(* tool_use, the API contract named at the adaptive recall nudge).                       *)
BatchConversationAnswered ==
    lines = 0 /\ (pc = "turn" \/ reflected) => unanswered = 0

(* A checkpoint never holds a conversation whose last batch is unanswered, and it holds  *)
(* the counters as they stand after the pausing batch.                                   *)
CheckpointConsistent ==
    pc = "paused" => /\ saved.calls = calls /\ saved.cost = cost
                     /\ lines = 0 => unanswered = 0 /\ saved.calls = executed

(* Every invocation of the loop comes to an end: the agent cannot keep the session       *)
(* working for ever (max_turns, continuations, budgets).                                 *)
EveryRunReturns == (pc = "turn") ~> (pc \in {"waiting", "paused", "over"})

(* The caps hold for the session as a whole, pauses included, as _run_subtask says.      *)
SessionCallCap == executed <= MaxToolCalls

(* "tool_result immediately follows tool_use": the model never gets unanswered calls.    *)
ModelSeesAnswers == (pc = "turn" /\ turn = 0) => unanswered = 0

(* What is spent and run is accounted for and stays within the budgets of the session.   *)
BudgetsHold == Accounted /\ CallsWithinCap /\ OvershootBounded

(* The conversation, the checkpoints and the stops of the loop are in order.             *)
RunsSound == TypeOK /\ BatchConversationAnswered /\ CheckpointConsistent /\ LoopStopWarned
=============================================================================

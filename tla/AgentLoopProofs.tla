--------------------------- MODULE AgentLoopProofs ---------------------------
(***************************************************************************)
(* Proofs about AgentLoop for every choice of batches, limits and          *)
(* thresholds: the totals are exact, the budgets hold, a run is warned     *)
(* before it is stopped for repeating itself, and run() never shows the    *)
(* model unanswered tool calls.                                            *)
(***************************************************************************)
EXTENDS AgentLoop, TLAPS

(* Between lines nothing is in flight; a paused session equals its checkpoint; run()    *)
(* has no earlier lines; a batch about to run is an unanswered one, of an allowed turn.   *)
Bookkeeping ==
    /\ pc = "waiting" => cost = 0 /\ calls = 0
    /\ pc = "paused" => saved.cost = cost /\ saved.calls = calls /\ prior = Zero
    /\ kind = "batch" => prior = Zero
    /\ pc = "tools" => unanswered >= 1
    /\ pc \in {"tools", "guards"} => turn < MaxTurns

(* The calls of a batch fit the budget before it runs; how far the session may be over   *)
(* its cost budget depends on the place of the program.                                  *)
Budgets ==
    /\ prior.calls + calls <= MaxToolCalls
    /\ pc = "tools" => prior.calls + calls + batch.calls <= MaxToolCalls
    /\ pc \in {"tools", "guards", "paused"} => prior.cost + cost <= MaxCost
    /\ pc = "turn" => prior.cost + cost <= MaxCost + 3 * MaxAuxCost
    /\ pc # "over" => prior.cost + cost <= MaxCost + MaxTurnCost + 3 * MaxAuxCost
    /\ prior.cost + cost <= MaxCost + MaxTurnCost + 4 * MaxAuxCost
    /\ pc \in {"turn", "tools", "guards"} => prior.cost <= MaxCost

(* Calls are forgotten once: a pause makes the session a batch, an interrupt ends it.      *)
Losses ==
    /\ kind = "interactive" /\ pc \notin {"paused", "closing", "over"} => forgotten.calls = 0
    /\ forgotten.calls <= MaxToolCalls

IInv == TypeOK /\ Accounted /\ Bookkeeping /\ Budgets /\ Losses

LEMMA InitIInv == Init => IInv
<1> USE ConstantsAssumption DEF Init, Zero
<1>1. ASSUME Init PROVE TypeOK
  <2>1. kind \in AllKinds /\ batch \in Batches \cup {NoCalls}
    BY <1>1
  <2>2. NoSig \in SigSet /\ "none" \in Outcomes
    BY DEF SigSet, Outcomes
  <2>3. repeats \in [sig : SigSet, streak : Nat, nudged : BOOLEAN]
    BY <1>1, <2>2 DEF FreshGuard
  <2>4. saved \in [cost : Nat, calls : Nat, sig : SigSet, streak : Nat,
                   continuations : 0..MaxContinuations]
    BY <1>1, <2>2 DEF MaxContinuations
  <2>5. prior \in Account /\ forgotten \in Account
    BY <1>1 DEF Account
  <2>6. turn \in 0..MaxTurns /\ lines \in 0..MaxLines /\ continuations \in 0..MaxContinuations
    BY <1>1 DEF MaxContinuations
  <2> QED
    BY <1>1, <2>1, <2>2, <2>3, <2>4, <2>5, <2>6 DEF TypeOK
<1>2. Init => Accounted /\ Bookkeeping /\ Budgets /\ Losses
  BY DEF Accounted, Bookkeeping, Budgets, Losses
<1> QED
  BY <1>1, <1>2 DEF IInv

GuardState == [sig : SigSet, streak : Nat, nudged : BOOLEAN]

(* The repetition guard stays well formed whatever batch it counts. *)
LEMMA CountedIsGuardState ==
    ASSUME TypeOK
    PROVE  Counted \in GuardState
<1>1. batch.sig \in SigSet
  BY DEF TypeOK, SigSet, NoCalls
<1> QED
  BY <1>1 DEF TypeOK, GuardState, Counted

(* The bills of a turn's compactions: what is counted is bounded, what is not is forgotten. *)
LEMMA CompactBills ==
    ASSUME TypeOK, Compact
    PROVE  /\ pc = "guards"
           /\ UNCHANGED <<kind, lines, calls, prior, batch, continuations, saved, reflected,
                          unanswered, executed>>
           /\ \E counted \in 0..3 * MaxAuxCost, dropped \in Nat :
                /\ cost' = cost + counted
                /\ spent' = spent + counted + dropped
                /\ forgotten' = [cost |-> forgotten.cost + dropped, calls |-> forgotten.calls]
<1>1. PICK bill \in Bills : /\ cost' = cost + bill.counted
                            /\ spent' = spent + bill.counted + bill.dropped
                            /\ forgotten' = [forgotten EXCEPT !.cost = @ + bill.dropped]
  BY DEF Compact
<1>2. bill.counted \in 0..3 * MaxAuxCost /\ bill.dropped \in Nat
  BY ConstantsAssumption DEF Bills
<1>3. forgotten' = [cost |-> forgotten.cost + bill.dropped, calls |-> forgotten.calls]
  BY <1>1 DEF TypeOK, Account
<1>4. /\ pc = "guards"
      /\ UNCHANGED <<kind, lines, calls, prior, batch, continuations, saved, reflected,
                     unanswered, executed>>
  BY DEF Compact
<1> QED
  BY <1>1, <1>2, <1>3, <1>4

LEMMA NextIInv == IInv /\ [Next]_vars => IInv'
<1> SUFFICES ASSUME IInv, [Next]_vars PROVE IInv'
  OBVIOUS
<1> USE ConstantsAssumption DEF IInv, TypeOK, Accounted, Bookkeeping, Budgets, Losses,
        AllKinds, SigSet, Outcomes, CutShort, Account, Zero, Return
<1>1. CASE StartBatch
  BY <1>1 DEF StartBatch, loopVars
<1>2. CASE ReadLine
  <2>1. prior.cost \in Nat /\ (CostCap # 0 => prior.cost < MaxCost)
    BY DEF CostCap, Remaining
  <2>2. repeats' \in [sig : SigSet, streak : Nat, nudged : BOOLEAN]
    BY <1>2 DEF ReadLine, FreshGuard
  <2>3. TypeOK'
    <3>1. pc' \in {"returned", "turn"} /\ outcome' \in Outcomes
      BY <1>2 DEF ReadLine
    <3>2. turn' \in 0..MaxTurns /\ lines' \in 0..MaxLines /\ continuations' \in 0..MaxContinuations
      BY <1>2 DEF ReadLine, MaxContinuations
    <3> QED
      BY <1>2, <2>2, <3>1, <3>2 DEF ReadLine
  <2>4. Accounted' /\ Bookkeeping' /\ Losses'
    BY <1>2 DEF ReadLine
  <2>5. Budgets'
    BY <1>2, <2>1 DEF ReadLine
  <2> QED
    BY <2>3, <2>4, <2>5
<1>3. CASE StopSeen
  BY <1>3 DEF StopSeen, loopVars
<1>4. CASE TurnsExhausted
  BY <1>4 DEF TurnsExhausted, loopVars
<1>5. CASE OverCost
  BY <1>5 DEF OverCost, Charge
<1>6. CASE FinalAnswer
  BY <1>6 DEF FinalAnswer, Charge
<1>7. CASE ContinueCutText
  BY <1>7 DEF ContinueCutText, Charge, WithinCost, CostCap, Remaining, MaxContinuations
<1>8. CASE StopAtCutText
  BY <1>8 DEF StopAtCutText, Charge
<1>9. CASE BlockCutCalls
  BY <1>9 DEF BlockCutCalls, Charge
<1>10. CASE OverCalls
  BY <1>10 DEF OverCalls, Charge
<1>11. CASE AcceptCalls
  BY <1>11 DEF AcceptCalls, Charge, WithinCost, WithinCalls, CostCap, CallCap, Remaining
<1>12. CASE RunTools
  BY <1>12 DEF RunTools, Execute, NoCalls
<1>13. CASE Pause
  BY <1>13 DEF Pause, Execute, NoCalls
<1>14. CASE StopAtPattern
  <2>1. TypeOK /\ Compact
    BY <1>14 DEF StopAtPattern
  <2> QED
    BY <1>14, <2>1, CompactBills DEF StopAtPattern
<1>15. CASE StopAtLoop
  <2>1. repeats' \in GuardState
    BY <1>15, CountedIsGuardState DEF StopAtLoop
  <2>2. Compact /\ UNCHANGED turn /\ warned' \in BOOLEAN /\ Return("loop")
    BY <1>15 DEF StopAtLoop
  <2> QED
    BY <2>1, <2>2, CompactBills DEF GuardState
<1>16. CASE NextTurn
  <2>1. repeats' \in GuardState
    <3>1. FreshGuard \in GuardState
      BY DEF FreshGuard, GuardState
    <3> QED
      BY <1>16, <3>1, CountedIsGuardState DEF NextTurn, GuardState
  <2>2. warned' \in BOOLEAN
    BY <1>16 DEF NextTurn
  <2>3. Compact /\ turn' = turn + 1 /\ pc' = "turn" /\ UNCHANGED outcome
    BY <1>16 DEF NextTurn
  <2> QED
    BY <2>1, <2>2, <2>3, CompactBills DEF GuardState
<1>17. CASE FinishBatch
  BY <1>17 DEF FinishBatch, Reflect
<1>18. CASE LineDone
  BY <1>18 DEF LineDone
<1>19. CASE LeaveRepl
  BY <1>19 DEF LeaveRepl, loopVars
<1>20. CASE Interrupt
  <2>1. PICK billed \in (IF pc = "turn" THEN 0..MaxTurnCost ELSE {0}),
             run \in (IF pc = "tools" THEN 0..batch.calls ELSE {0}) :
             /\ spent' = spent + billed
             /\ executed' = executed + run
             /\ forgotten' = [cost |-> forgotten.cost + cost + billed,
                              calls |-> forgotten.calls + calls + run]
    BY <1>20 DEF Interrupt
  <2>2. billed \in Nat /\ run \in Nat /\ (pc = "tools" => run <= batch.calls) /\ (pc # "tools" => run = 0)
    <3>1. batch.calls \in Nat
      BY DEF NoCalls
    <3> QED
      BY <3>1
  <2> HIDE DEF Budgets
  <2>3. forgotten'.calls = calls + run /\ forgotten'.calls <= MaxToolCalls
    <3>1. kind = "interactive" /\ pc \in {"waiting", "turn", "tools", "guards", "returned"}
      BY <1>20 DEF Interrupt
    <3>2. forgotten.calls = 0
      BY <3>1
    <3>3. forgotten'.calls = calls + run
      BY <2>1, <2>2, <3>2
    <3>4. calls + run <= MaxToolCalls
      BY <2>2 DEF Budgets, NoCalls
    <3> QED
      BY <3>3, <3>4
  <2>4. TypeOK' /\ Accounted' /\ Bookkeeping' /\ Losses'
    BY <1>20, <2>1, <2>2, <2>3 DEF Interrupt
  <2>5. Budgets'
    BY <1>20 DEF Interrupt, Budgets
  <2> QED
    BY <2>4, <2>5
<1>21. CASE CloseRepl
  BY <1>21 DEF CloseRepl, Reflect
<1>22. CASE Resume
  BY <1>22 DEF Resume
<1>23. CASE UNCHANGED vars
  BY <1>23 DEF vars
<1> QED
  BY <1>1, <1>2, <1>3, <1>4, <1>5, <1>6, <1>7, <1>8, <1>9, <1>10, <1>11, <1>12, <1>13, <1>14,
     <1>15, <1>16, <1>17, <1>18, <1>19, <1>20, <1>21, <1>22, <1>23
  DEF Next, Invocation, Answer, Guards, Callers

-----------------------------------------------------------------------------
LEMMA SpecIInv == Spec => []IInv
<1>1. Init => IInv
  BY InitIInv
<1>2. IInv /\ [Next]_vars => IInv'
  BY NextIInv
<1> QED
  BY <1>1, <1>2, PTL DEF Spec

(* Every reachable state of a session is well typed, whatever the batches and limits. *)
THEOREM TypeCorrect == Spec => []TypeOK
<1>1. IInv => TypeOK
  BY DEF IInv
<1> QED
  BY <1>1, SpecIInv, PTL

(* The session's totals lose nothing but what is known to be lost: nothing it spent or  *)
(* ran escapes session_cost_usd, session_tool_calls and the running totals, but what an   *)
(* interactive checkpoint drops, an interrupt and an empty summary.                       *)
THEOREM UseIsAccounted == Spec => []Accounted
<1>1. IInv => Accounted
  BY DEF IInv
<1> QED
  BY <1>1, SpecIInv, PTL

(* The max_tool_calls check of the loop keeps the cap over all lines and resumes, but for *)
(* the calls that were forgotten, which stay below the cap a second time.                 *)
THEOREM CallsStayWithinCap == Spec => []CallsWithinCap
<1>1. IInv => CallsWithinCap
  BY ConstantsAssumption DEF IInv, TypeOK, Account, Accounted, Budgets, Losses, CallsWithinCap
<1> QED
  BY <1>1, SpecIInv, PTL

(* The late max_cost_usd check overshoots by a response, the three calls of a turn's     *)
(* compactions and a reflection.                                                          *)
THEOREM OvershootIsBounded == Spec => []OvershootBounded
<1>1. IInv => OvershootBounded
  BY ConstantsAssumption DEF IInv, TypeOK, Account, Accounted, Budgets, OvershootBounded
<1> QED
  BY <1>1, SpecIInv, PTL

(* No step runs tools for a session that is over its cost budget. *)
THEOREM ToolsNeedBudget == Spec => NoToolsOverCost
<1>1. IInv /\ [Next]_vars => [executed' # executed => spent <= MaxCost + forgotten.cost]_vars
  <2> SUFFICES ASSUME IInv, [Next]_vars, executed' # executed
               PROVE  spent <= MaxCost + forgotten.cost
    BY DEF vars
  <2>1. ~Guards
    BY DEF Guards, StopAtPattern, StopAtLoop, NextTurn, Compact
  <2>2. RunTools \/ Pause \/ Interrupt
    BY <2>1 DEF Next, Invocation, Answer, Callers, StartBatch, ReadLine, StopSeen,
       TurnsExhausted, OverCost, FinalAnswer, ContinueCutText, StopAtCutText, BlockCutCalls, OverCalls,
       AcceptCalls, Charge, FinishBatch, CloseRepl, Reflect, LineDone, LeaveRepl, Resume, vars
  <2>3. pc = "tools"
    <3>1. CASE Interrupt
      <4>1. PICK run \in (IF pc = "tools" THEN 0..batch.calls ELSE {0}) : executed' = executed + run
        BY <3>1 DEF Interrupt
      <4> QED
        BY <4>1 DEF IInv, TypeOK
    <3> QED
      BY <2>2, <3>1 DEF RunTools, Pause, Execute
  <2> QED
    BY <2>3, ConstantsAssumption DEF IInv, TypeOK, Account, Accounted, Budgets
<1> QED
  BY <1>1, SpecIInv, PTL DEF Spec, NoToolsOverCost

-----------------------------------------------------------------------------
(* The warning. Within a streak that reached the threshold the agent was nudged; the    *)
(* flag that a resume loses is weaker than that, and a guard or checkpoint without a     *)
(* signature has no streak to speak of.                                                  *)
Warnable == 0 < Threshold /\ Threshold < TerminateAt

WarnInv == Warnable =>
    /\ repeats.sig # NoSig /\ repeats.streak >= Threshold => warned
    /\ repeats.nudged => repeats.sig # NoSig /\ warned
    /\ pc = "guards" => batch \in Batches
    /\ pc = "tools" => batch \in Batches
    /\ pc = "paused" => saved.sig = repeats.sig /\ saved.streak = repeats.streak
    /\ repeats.sig # NoSig => repeats.streak >= 1
    /\ pc \in {"turn", "tools", "guards", "paused"} => outcome # "loop"
    /\ kind = "batch" /\ pc = "waiting" => outcome # "loop"
    /\ LoopStopWarned

LEMMA NextWarnInv == IInv /\ WarnInv /\ [Next]_vars => WarnInv'
<1> SUFFICES ASSUME IInv, WarnInv, [Next]_vars, Warnable PROVE WarnInv'
  BY DEF WarnInv
<1> USE ConstantsAssumption DEF WarnInv, Warnable, LoopStopWarned, Return, IInv, TypeOK
<1>1. CASE StopSeen \/ TurnsExhausted \/ OverCost \/ Answer
  BY <1>1 DEF StopSeen, TurnsExhausted, OverCost, Answer, FinalAnswer, ContinueCutText, StopAtCutText,
     BlockCutCalls, OverCalls, AcceptCalls, Charge, loopVars
<1>2. CASE RunTools \/ Pause
  BY <1>2 DEF RunTools, Pause, Execute
<1>3. CASE Callers \/ ReadLine \/ LeaveRepl \/ Interrupt
  <2>1. CASE StartBatch \/ LineDone \/ LeaveRepl \/ Interrupt
    BY <2>1 DEF StartBatch, LineDone, LeaveRepl, Interrupt, loopVars
  <2>2. CASE FinishBatch \/ CloseRepl
    BY <2>2 DEF FinishBatch, CloseRepl, Reflect
  <2>3. CASE ReadLine
    BY <2>3 DEF ReadLine, FreshGuard
  <2> QED
    BY <1>3, <2>1, <2>2, <2>3 DEF Callers
<1>4. CASE StopAtPattern
  BY <1>4 DEF StopAtPattern, Compact
<1>5. CASE StopAtLoop
  BY <1>5 DEF StopAtLoop, Compact, LoopDetected, Counted, NewStreak, GuardActive
<1>6. CASE NextTurn
  <2>1. /\ batch \in Batches /\ batch.sig # NoSig
        /\ warned' = (NudgeDue \/ (warned /\ ~NewStreak))
        /\ pc' = "turn" /\ outcome' = outcome /\ outcome # "loop"
    BY <1>6 DEF NextTurn, Compact
  <2>2. CASE NudgeDue
    <3>1. repeats' = [sig |-> Counted.sig, streak |-> Counted.streak, nudged |-> TRUE]
      BY <1>6, <2>2 DEF NextTurn
    <3>2. Counted.sig # NoSig /\ Counted.streak >= 1
      BY <2>1, <2>2 DEF Counted, NudgeDue, GuardActive
    <3> QED
      BY <2>1, <2>2, <3>1, <3>2
  <2>3. CASE ~NudgeDue
    <3>1. repeats' = Counted
      BY <1>6, <2>3 DEF NextTurn
    <3>2. CASE batch.exempt
      BY <2>1, <2>3, <3>1, <3>2 DEF Counted, NewStreak
    <3>3. CASE ~batch.exempt /\ batch.sig = repeats.sig
      BY <2>1, <2>3, <3>1, <3>3 DEF Counted, NewStreak, NudgeDue, GuardActive
    <3>4. CASE ~batch.exempt /\ batch.sig # repeats.sig
      BY <2>1, <2>3, <3>1, <3>4 DEF Counted, NewStreak, NudgeDue, GuardActive
    <3> QED
      BY <3>2, <3>3, <3>4
  <2> QED
    BY <2>2, <2>3
<1>7. CASE Resume
  BY <1>7 DEF Resume
<1>8. CASE UNCHANGED vars
  BY <1>8 DEF vars
<1> QED
  BY <1>1, <1>2, <1>3, <1>4, <1>5, <1>6, <1>7, <1>8 DEF Next, Invocation, Guards

(* A run that is stopped for repeating itself was warned in the same streak, for every  *)
(* pair of thresholds with the warning below the stop, pauses and resumes included.      *)
THEOREM LoopStopsAreWarned == Spec => []LoopStopWarned
<1>1. Init => WarnInv
  BY DEF Init, WarnInv, FreshGuard, LoopStopWarned
<1>2. WarnInv => LoopStopWarned
  BY DEF WarnInv, Warnable, LoopStopWarned
<1> QED
  BY <1>1, <1>2, SpecIInv, NextWarnInv, PTL DEF Spec

-----------------------------------------------------------------------------
(* The conversation of a session that was never interactive: calls are open only while  *)
(* they run, or after an exit for which run() skips the reflection.                      *)
ConversationInv == lines = 0 =>
    /\ kind = "interactive" => pc \in {"waiting", "over"}
    /\ pc \in {"waiting", "turn", "guards", "paused"} => unanswered = 0
    /\ pc = "tools" => unanswered = 1
    /\ pc = "returned" /\ outcome \notin CutShort => unanswered = 0
    /\ reflected => unanswered = 0 /\ pc = "over"

LEMMA NextConversationInv == IInv /\ ConversationInv /\ [Next]_vars => ConversationInv'
<1> SUFFICES ASSUME IInv, ConversationInv, [Next]_vars PROVE ConversationInv'
  OBVIOUS
<1> USE ConstantsAssumption DEF ConversationInv, CutShort, Return, IInv, TypeOK, AllKinds
<1>1. CASE StopSeen \/ TurnsExhausted \/ OverCost \/ Answer
  BY <1>1 DEF StopSeen, TurnsExhausted, OverCost, Answer, FinalAnswer, ContinueCutText, StopAtCutText,
     BlockCutCalls, OverCalls, AcceptCalls, Charge, loopVars
<1>2. CASE RunTools \/ Pause
  BY <1>2 DEF RunTools, Pause, Execute
<1>3. CASE StartBatch \/ LineDone
  BY <1>3 DEF StartBatch, LineDone, loopVars
<1>4. CASE FinishBatch \/ CloseRepl
  BY <1>4 DEF FinishBatch, CloseRepl, Reflect
<1>5. CASE ReadLine \/ LeaveRepl \/ Interrupt
  BY <1>5 DEF ReadLine, LeaveRepl, Interrupt, loopVars
<1>6. CASE Guards
  BY <1>6 DEF Guards, StopAtPattern, StopAtLoop, NextTurn, Compact
<1>7. CASE Resume
  BY <1>7 DEF Resume
<1>8. CASE UNCHANGED vars
  BY <1>8 DEF vars
<1> QED
  BY <1>1, <1>2, <1>3, <1>4, <1>5, <1>6, <1>7, <1>8 DEF Next, Invocation, Callers

(* run() shows the model every tool call with its result: on each turn, after each      *)
(* resume, and for the reflection.                                                       *)
THEOREM BatchConversationsAnswered == Spec => []BatchConversationAnswered
<1>1. Init => ConversationInv
  BY DEF Init, ConversationInv
<1>2. ConversationInv => BatchConversationAnswered
  BY DEF ConversationInv, BatchConversationAnswered
<1> QED
  BY <1>1, <1>2, SpecIInv, NextConversationInv, PTL DEF Spec
-----------------------------------------------------------------------------
(* A session that was never interactive leaves nothing out of its checkpoints.           *)
NothingLeftOut == lines = 0 => forgotten.calls = 0

LEMMA NextNothingLeftOut ==
    IInv /\ ConversationInv /\ NothingLeftOut /\ [Next]_vars => NothingLeftOut'
<1> SUFFICES ASSUME IInv, ConversationInv, NothingLeftOut, [Next]_vars, lines' = 0
             PROVE  forgotten'.calls = 0
  BY DEF NothingLeftOut
<1>1. ~ReadLine
  BY ConstantsAssumption DEF ReadLine, IInv, TypeOK
<1>2. lines = 0 /\ forgotten.calls = 0
  BY <1>1 DEF NothingLeftOut, Next, Invocation, Answer, Guards, Callers, StartBatch, StopSeen,
     TurnsExhausted, OverCost, FinalAnswer, ContinueCutText, StopAtCutText, BlockCutCalls, OverCalls,
     AcceptCalls, Charge, RunTools, Pause, Execute, StopAtPattern, StopAtLoop, NextTurn, Compact,
     FinishBatch, CloseRepl, Reflect, LineDone, LeaveRepl, Interrupt, Resume, vars
<1>3. CASE Pause
  <2>1. kind = "batch" /\ prior = Zero
    BY <1>2, <1>3 DEF Pause, Execute, ConversationInv, IInv, TypeOK, AllKinds, Bookkeeping
  <2>2. forgotten' = [cost |-> forgotten.cost + prior.cost, calls |-> forgotten.calls + prior.calls]
    BY <1>3 DEF Pause
  <2> QED
    BY <1>2, <2>1, <2>2 DEF Zero
<1>4. CASE Interrupt
  <2>1. pc = "waiting" /\ calls = 0 /\ forgotten.calls \in Nat
    BY <1>2, <1>4 DEF Interrupt, ConversationInv, IInv, TypeOK, Account, Bookkeeping
  <2>2. PICK run \in {0} : forgotten'.calls = forgotten.calls + calls + run
    BY <1>4, <2>1 DEF Interrupt
  <2> QED
    BY <1>2, <2>1, <2>2
<1>5. CASE Guards
  <2>1. Compact
    BY <1>5 DEF Guards, StopAtPattern, StopAtLoop, NextTurn
  <2> QED
    BY <1>2, <2>1, CompactBills DEF IInv
<1>6. CASE ~Pause /\ ~Interrupt /\ ~Guards
  <2>1. forgotten' = forgotten
    BY <1>6 DEF Next, Invocation, Answer, Guards, Callers, StartBatch, ReadLine, StopSeen, TurnsExhausted,
       OverCost, FinalAnswer, ContinueCutText, StopAtCutText, BlockCutCalls, OverCalls, AcceptCalls,
       Charge, RunTools, Execute, FinishBatch, CloseRepl, Reflect, LineDone, LeaveRepl, Resume, vars
  <2> QED
    BY <1>2, <2>1
<1> QED
  BY <1>3, <1>4, <1>5, <1>6

(* What a checkpoint holds is what the session used, the pausing batch included, and      *)
(* that batch is answered, for every set of batches and any number of pauses.             *)
THEOREM CheckpointsAreConsistent == Spec => []CheckpointConsistent
<1>1. Init => ConversationInv /\ NothingLeftOut
  BY DEF Init, ConversationInv, NothingLeftOut, Zero
<1>2. IInv /\ ConversationInv /\ NothingLeftOut => CheckpointConsistent
  <2> SUFFICES ASSUME IInv, ConversationInv, NothingLeftOut, pc = "paused"
               PROVE  /\ saved.calls = calls /\ saved.cost = cost
                      /\ lines = 0 => unanswered = 0 /\ saved.calls = executed
    BY DEF CheckpointConsistent
  <2>1. saved.calls = calls /\ saved.cost = cost /\ prior = Zero
    BY DEF IInv, Bookkeeping
  <2>2. executed = forgotten.calls + prior.calls + calls /\ calls \in Nat
    BY DEF IInv, Accounted, TypeOK
  <2>3. lines = 0 => unanswered = 0 /\ forgotten.calls = 0
    BY DEF ConversationInv, NothingLeftOut
  <2> QED
    BY <2>1, <2>2, <2>3 DEF Zero
<1> QED
  BY <1>1, <1>2, SpecIInv, NextConversationInv, NextNothingLeftOut, PTL DEF Spec

(* The totals and the budgets of a session, as one statement.                             *)
THEOREM BudgetsAreKept == Spec => []BudgetsHold
<1>1. Accounted /\ CallsWithinCap /\ OvershootBounded => BudgetsHold
  BY DEF BudgetsHold
<1> QED
  BY <1>1, UseIsAccounted, CallsStayWithinCap, OvershootIsBounded, PTL

(* The conversation, the checkpoints and the stops of the loop, as one statement.         *)
THEOREM RunsAreSound == Spec => []RunsSound
<1>1. TypeOK /\ BatchConversationAnswered /\ CheckpointConsistent /\ LoopStopWarned => RunsSound
  BY DEF RunsSound
<1> QED
  BY <1>1, TypeCorrect, BatchConversationsAnswered, CheckpointsAreConsistent, LoopStopsAreWarned, PTL
=============================================================================

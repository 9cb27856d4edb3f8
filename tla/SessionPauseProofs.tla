------------------------- MODULE SessionPauseProofs -------------------------
(***************************************************************************)
(* TLAPS proofs about SessionPause, for any number of processes, events    *)
(* and questions: pauses lose nothing while no checkpoint is continued     *)
(* twice, and without overlap and relocation none is.                      *)
(***************************************************************************)
EXTENDS SessionPause, TLAPS

(* The checkpoints are numbered from 1; none is resumed before it exists.   *)
Numbered ==
  /\ resumed \subseteq 1 .. file.gen
  /\ file = NoFile <=> file.gen = 0
  /\ \A p \in Proc : gen[p] <= file.gen

(* Before the first checkpoint only the first process works.                *)
FirstAlone ==
  \A p \in Proc :
    /\ p # First /\ file.gen = 0 => pc[p] \in {"new", "checked", "done", "dead"}
    /\ pc[p] \in {"new", "checked", "loaded"} => p # First

(* The pause handle is empty until the run of its process begins.           *)
HandleFresh ==
  \A p \in Proc : pc[p] \in {"new", "checked", "loaded"} => pending[p] = 0

(* What was loaded is what the checkpoint holds, while it is the latest.    *)
LoadedMatches ==
  \A p \in Proc : pc[p] = "loaded" =>
    /\ gen[p] \in 1 .. file.gen
    /\ gen[p] = file.gen =>
         /\ work[p] = file.work /\ answered[p] = file.answered \union {file.pending}
         /\ earlier[p] = file.work - file.usage

(* Without a fork the session is one line of runs: every checkpoint but the *)
(* latest has been resumed, at most one process runs, it runs only while    *)
(* the latest has been resumed too, and holds everything.                   *)
OneLine ==
  ~forked =>
    /\ \A g \in 1 .. file.gen : g = file.gen \/ g \in resumed
    /\ \A p, q \in Proc : Running(p) /\ Running(q) => p = q
    /\ \A p \in Proc : Running(p) => file.gen = 0 \/ file.gen \in resumed
    /\ lost \subseteq 1 .. asked
    /\ \A p \in Proc : Running(p) =>
         /\ work[p] = traced
         /\ p # First => earlier[p] = earlier[First]
         /\ pending[p] \in {0, asked} /\ pending[p] \notin lost
         /\ pc[p] = "pausing" => pending[p] # 0
         /\ answered[p] = (1 .. asked) \ (lost \union {pending[p]})

(* ... and the latest, until it is resumed, holds everything.               *)
LatestIsComplete ==
  (~forked /\ file.gen # 0 /\ file.gen \notin resumed) =>
    /\ file.work = traced
    /\ file.work - file.usage = earlier[First]
    /\ file.pending = asked /\ asked # 0 /\ asked \notin lost
    /\ file.answered = (1 .. asked) \ (lost \union {asked})

(* Once there are artifacts nobody runs on.                                 *)
ArtifactsEnd ==
  covered # 0 =>
    /\ covered = traced /\ file.gen = 0
    /\ \A p \in Proc : pc[p] \notin {"run", "pausing", "marking", "bridging", "loaded"}

PausedHasFile == status = "paused" => recorded /\ file.gen # 0

LineInv ==
  /\ TypeOK /\ Numbered /\ FirstAlone /\ HandleFresh /\ LoadedMatches
  /\ OneLine /\ LatestIsComplete /\ ArtifactsEnd /\ PausedHasFile
  /\ \A p \in Proc : pc[p] = "marking" => file.gen # 0

(* The protocol of the row, without overlap and relocation.                 *)
RowProtocol ==
  ~(relocated \/ Overlap) =>
    /\ ~forked
    /\ \A p, q \in Proc : Active(p) /\ Active(q) => p = q
    /\ status = "paused" =>
         file.gen \notin resumed /\ \A p \in Proc : ~Running(p) /\ pc[p] # "marking"
    /\ \A p \in Proc :
         /\ pc[p] \in {"checked", "loaded"} => status = "paused"
         /\ pc[p] = "loaded" => gen[p] = file.gen
         /\ pc[p] = "marking" => file.gen \notin resumed

IInv == LineInv /\ RowProtocol

(* What a checkpoint holds.                                                 *)
LEMMA NoFileType == NoFile \in CheckpointType
<1>1. {} \in SUBSET Question /\ 0 \in Question /\ 0 \in Nat
  BY SessionPauseAssumption DEF Question
<1> QED BY <1>1 DEF NoFile, CheckpointType

LEMMA Fields ==
  ASSUME NEW c \in CheckpointType
  PROVE  /\ c.work \in Nat /\ c.usage \in Nat /\ c.gen \in Nat
         /\ c.answered \subseteq Question
         /\ c.pending \in Question
BY DEF CheckpointType

LEMMA InitInv == Init => IInv
<1> SUFFICES ASSUME Init PROVE IInv
  OBVIOUS
<1> USE SessionPauseAssumption DEF Init, NoFile
<1>1. TypeOK
  <2>1. NoFile \in CheckpointType
    BY NoFileType
  <2>2. pc \in [Proc -> PC] /\ asked \in 0 .. MaxAsked
    BY DEF PC
  <2>3. pending \in [Proc -> Question] /\ answered \in [Proc -> SUBSET Question]
    BY DEF Question
  <2>4. earlier \in [Proc -> Nat] /\ \A p \in Proc : earlier[p] <= work[p]
    OBVIOUS
  <2>5. file.usage <= file.work
    OBVIOUS
  <2> QED BY <2>1, <2>2, <2>3, <2>4, <2>5 DEF TypeOK
<1>2. Numbered /\ FirstAlone /\ HandleFresh /\ LoadedMatches /\ LatestIsComplete
  BY DEF Numbered, FirstAlone, HandleFresh, LoadedMatches, LatestIsComplete
<1>3. OneLine /\ ArtifactsEnd /\ PausedHasFile
  BY DEF OneLine, Running, ArtifactsEnd, PausedHasFile
<1>4. RowProtocol
  BY DEF RowProtocol, Active, Running
<1> QED BY <1>1, <1>2, <1>3, <1>4 DEF IInv, LineInv

(* Every action keeps the types.                                            *)
LEMMA TypeStep == TypeOK /\ [Next]_vars => TypeOK'
<1> SUFFICES ASSUME TypeOK, [Next]_vars PROVE TypeOK'
  OBVIOUS
<1> USE SessionPauseAssumption DEF TypeOK, PC, Question
<1>1. ASSUME NEW p \in Proc, Work(p) PROVE TypeOK'
  BY <1>1 DEF Work
<1>2. ASSUME NEW p \in Proc, Ask(p) PROVE TypeOK'
  <2>1. asked' \in 0 .. MaxAsked /\ asked' \in Question
    BY <1>2 DEF Ask
  <2>2. pending' \in [Proc -> Question]
    BY <1>2, <2>1 DEF Ask
  <2>3. lost' \subseteq Question
    BY <1>2 DEF Ask
  <2> QED BY <1>2, <2>1, <2>2, <2>3 DEF Ask
<1>3. ASSUME NEW p \in Proc, Pause(p) PROVE TypeOK'
  BY <1>3 DEF Pause
<1>4. ASSUME NEW p \in Proc, Finish(p) PROVE TypeOK'
  BY <1>4 DEF Finish
<1>5. ASSUME NEW p \in Proc, Raise(p) PROVE TypeOK'
  BY <1>5 DEF Raise
<1>6. ASSUME NEW p \in Proc, ServerError(p) PROVE TypeOK'
  BY <1>6 DEF ServerError
<1>7. ASSUME NEW p \in Proc, WriteCheckpoint(p) PROVE TypeOK'
  <2>1. file.gen + 1 \in Nat
    BY Fields
  <2>2. Checkpoint(p) \in CheckpointType /\ Checkpoint(p).usage <= Checkpoint(p).work
    BY <2>1 DEF Checkpoint, CheckpointType
  <2>3. pc' \in [Proc -> PC]
    BY <1>7 DEF WriteCheckpoint
  <2> QED BY <1>7, <2>2, <2>3 DEF WriteCheckpoint
<1>8. ASSUME NEW p \in Proc, WriteFails(p) PROVE TypeOK'
  BY <1>8 DEF WriteFails
<1>9. ASSUME NEW p \in Proc, MarkPaused(p) PROVE TypeOK'
  BY <1>9 DEF MarkPaused
<1>10. ASSUME NEW p \in Proc, Bridge(p) PROVE TypeOK'
  BY <1>10 DEF Bridge
<1>11. ASSUME NEW p \in Proc, Complete(p) PROVE TypeOK'
  BY <1>11 DEF Complete
<1>12. ASSUME NEW p \in Proc, Check(p) PROVE TypeOK'
  BY <1>12 DEF Check, Quiet
<1>13. ASSUME NEW p \in Proc, Load(p) PROVE TypeOK'
  <2>1. answered' \in [Proc -> SUBSET Question]
    BY <1>13, Fields DEF Load, Restore
  <2>2. work' \in [Proc -> Nat] /\ gen' \in [Proc -> Nat] /\ pc' \in [Proc -> PC]
    BY <1>13, Fields DEF Load, Restore
  <2>3. earlier' \in [Proc -> Nat] /\ \A q \in Proc : earlier'[q] <= work'[q]
    <3>1. file.work \in Nat /\ file.usage \in Nat /\ file.usage <= file.work
      BY Fields
    <3>2. file.work - file.usage \in Nat /\ file.work - file.usage <= file.work
      BY <3>1
    <3> QED BY <1>13, <3>2 DEF Load, Restore
  <2> QED BY <1>13, <2>1, <2>2, <2>3 DEF Load, Restore
<1>14. ASSUME NEW p \in Proc, Relocate(p) PROVE TypeOK'
  <2>1. answered' \in [Proc -> SUBSET Question]
    BY <1>14, Fields DEF Relocate, Restore
  <2>2. work' \in [Proc -> Nat] /\ gen' \in [Proc -> Nat] /\ pc' \in [Proc -> PC]
    BY <1>14, Fields DEF Relocate, Restore
  <2>3. earlier' \in [Proc -> Nat] /\ \A q \in Proc : earlier'[q] <= work'[q]
    <3>1. file.work \in Nat /\ file.usage \in Nat /\ file.usage <= file.work
      BY Fields
    <3>2. file.work - file.usage \in Nat /\ file.work - file.usage <= file.work
      BY <3>1
    <3> QED BY <1>14, <3>2 DEF Relocate, Restore
  <2> QED BY <1>14, <2>1, <2>2, <2>3 DEF Relocate, Restore
<1>15. ASSUME NEW p \in Proc, GiveUp(p) PROVE TypeOK'
  BY <1>15 DEF GiveUp
<1>16. ASSUME NEW p \in Proc, MarkResumed(p) PROVE TypeOK'
  <2>1. (gen[p] \in resumed) \in BOOLEAN
    OBVIOUS
  <2>2. forked' \in BOOLEAN
    BY <1>16 DEF MarkResumed
  <2>3. resumed' \subseteq Nat
    BY <1>16 DEF MarkResumed
  <2>4. pc' \in [Proc -> PC] /\ status' = "running" /\ recorded' = FALSE
    BY <1>16 DEF MarkResumed
  <2> QED BY <1>16, <2>2, <2>3, <2>4 DEF MarkResumed
<1>17. ASSUME NEW p \in Proc, Crash(p) PROVE TypeOK'
  BY <1>17 DEF Crash
<1>19. ASSUME NEW p \in Proc, NextLine(p) PROVE TypeOK'
  BY <1>19 DEF NextLine
<1>18. CASE UNCHANGED vars
  BY <1>18 DEF vars
<1> QED BY <1>1, <1>2, <1>3, <1>4, <1>5, <1>6, <1>7, <1>8, <1>9, <1>10, <1>11, <1>12, <1>13, <1>14, <1>15, <1>16, <1>17, <1>18, <1>19 DEF Next, Ending

BookInv ==
  /\ Numbered /\ FirstAlone /\ HandleFresh /\ LoadedMatches /\ PausedHasFile
  /\ \A p \in Proc : pc[p] = "marking" => file.gen # 0

(* Numbering, the order of a process's life and what a load finds.          *)
LEMMA BookStep == LineInv /\ [Next]_vars => BookInv'
<1> SUFFICES ASSUME LineInv, [Next]_vars PROVE BookInv'
  OBVIOUS
<1> USE SessionPauseAssumption DEF LineInv, TypeOK, PC, Question, CheckpointType, NoFile, Numbered, FirstAlone, BookInv, HandleFresh, LoadedMatches, PausedHasFile
<1>1. ASSUME NEW p \in Proc, Work(p) PROVE BookInv'
  BY <1>1 DEF Work
<1>2. ASSUME NEW p \in Proc, Ask(p) PROVE BookInv'
  BY <1>2 DEF Ask
<1>3. ASSUME NEW p \in Proc, Pause(p) PROVE BookInv'
  BY <1>3 DEF Pause
<1>4. ASSUME NEW p \in Proc, Finish(p) PROVE BookInv'
  BY <1>4 DEF Finish
<1>5. ASSUME NEW p \in Proc, Raise(p) PROVE BookInv'
  BY <1>5 DEF Raise
<1>6. ASSUME NEW p \in Proc, ServerError(p) PROVE BookInv'
  BY <1>6 DEF ServerError
<1>7. ASSUME NEW p \in Proc, WriteCheckpoint(p) PROVE BookInv'
  BY <1>7 DEF WriteCheckpoint, Checkpoint
<1>8. ASSUME NEW p \in Proc, WriteFails(p) PROVE BookInv'
  BY <1>8 DEF WriteFails
<1>9. ASSUME NEW p \in Proc, MarkPaused(p) PROVE BookInv'
  BY <1>9 DEF MarkPaused
<1>10. ASSUME NEW p \in Proc, Bridge(p) PROVE BookInv'
  BY <1>10 DEF Bridge
<1>11. ASSUME NEW p \in Proc, Complete(p) PROVE BookInv'
  BY <1>11 DEF Complete
<1>12. ASSUME NEW p \in Proc, Check(p) PROVE BookInv'
  BY <1>12 DEF Check, Quiet
<1>13. ASSUME NEW p \in Proc, Load(p) PROVE BookInv'
  BY <1>13 DEF Load, Restore
<1>14. ASSUME NEW p \in Proc, Relocate(p) PROVE BookInv'
  BY <1>14 DEF Relocate, Restore, Quiet
<1>15. ASSUME NEW p \in Proc, GiveUp(p) PROVE BookInv'
  BY <1>15 DEF GiveUp
<1>16. ASSUME NEW p \in Proc, MarkResumed(p) PROVE BookInv'
  <2>1. gen[p] \in 1 .. file.gen
    BY <1>16 DEF MarkResumed
  <2>2. resumed' \subseteq 1 .. file'.gen
    BY <1>16, <2>1 DEF MarkResumed
  <2>3. \A q \in Proc : pc'[q] # "run" => pc'[q] = pc[q]
    BY <1>16 DEF MarkResumed
  <2>4. pc[p] = "loaded" /\ \A q \in Proc : pc'[q] = "run" => pc[q] = "run" \/ q = p
    BY <1>16 DEF MarkResumed
  <2>5. UNCHANGED <<file, gen, work, earlier, answered, pending>> /\ status' # "paused"
    BY <1>16 DEF MarkResumed
  <2>6. Numbered'
    BY <2>2, <2>5
  <2>7. FirstAlone' /\ HandleFresh'
    BY <2>3, <2>4, <2>5
  <2>8. LoadedMatches'
    BY <2>3, <2>5
  <2> QED BY <2>3, <2>5, <2>6, <2>7, <2>8
<1>17. ASSUME NEW p \in Proc, Crash(p) PROVE BookInv'
  BY <1>17 DEF Crash
<1>19. ASSUME NEW p \in Proc, NextLine(p) PROVE BookInv'
  BY <1>19 DEF NextLine
<1>18. CASE UNCHANGED vars
  BY <1>18 DEF vars
<1> QED BY <1>1, <1>2, <1>3, <1>4, <1>5, <1>6, <1>7, <1>8, <1>9, <1>10, <1>11, <1>12, <1>13, <1>14, <1>15, <1>16, <1>17, <1>18, <1>19 DEF Next, Ending

(* One line of runs: a second resume of a checkpoint is a fork.             *)
LEMMA OneLineStep == LineInv /\ [Next]_vars => OneLine'
<1> SUFFICES ASSUME LineInv, [Next]_vars PROVE OneLine'
  OBVIOUS
<1> USE SessionPauseAssumption DEF LineInv, TypeOK, PC, Question, CheckpointType, NoFile, Numbered, FirstAlone, LoadedMatches, HandleFresh, OneLine, LatestIsComplete, Running
<1>1. ASSUME NEW p \in Proc, Work(p) PROVE OneLine'
  BY <1>1 DEF Work
<1>2. ASSUME NEW p \in Proc, Ask(p) PROVE OneLine'
  <2> SUFFICES ASSUME ~forked PROVE OneLine'
    BY <1>2 DEF Ask
  <2>1. Running(p) /\ pc[p] = "run"
    BY <1>2 DEF Ask
  <2>2. \A q \in Proc : Running(q) => q = p
    BY <2>1
  <2>3. UNCHANGED <<file, resumed, pc, work, earlier, traced, answered, forked>>
    BY <1>2 DEF Ask
  <2>4. asked \in Nat /\ asked' = asked + 1 /\ pending'[p] = asked'
    BY <1>2 DEF Ask
  <2>5. lost' = lost \union ({pending[p]} \ {0}) /\ pending[p] \in {0, asked}
    BY <1>2, <2>1 DEF Ask
  <2>6. lost' \subseteq 1 .. asked
    <3>1. lost \subseteq 1 .. asked
      OBVIOUS
    <3>2. {pending[p]} \ {0} \subseteq 1 .. asked
      <4> HIDE DEF LineInv
      <4> QED BY <2>4, <2>5
    <3> QED BY <2>5, <3>1, <3>2
  <2>7. pending'[p] \notin lost' /\ lost' \subseteq 1 .. asked'
    BY <2>4, <2>6
  <2>8. answered[p] = (1 .. asked) \ lost'
    BY <2>1, <2>4, <2>5
  <2>9. answered'[p] = (1 .. asked') \ (lost' \union {pending'[p]})
    <3> HIDE DEF LineInv
    <3>1. (1 .. asked') \ {asked'} = 1 .. asked
      BY <2>4
    <3> QED BY <2>3, <2>4, <2>6, <2>8, <3>1
  <2> QED BY <2>1, <2>2, <2>3, <2>4, <2>7, <2>9
<1>3. ASSUME NEW p \in Proc, Pause(p) PROVE OneLine'
  BY <1>3 DEF Pause
<1>4. ASSUME NEW p \in Proc, Finish(p) PROVE OneLine'
  BY <1>4 DEF Finish
<1>5. ASSUME NEW p \in Proc, Raise(p) PROVE OneLine'
  BY <1>5 DEF Raise
<1>6. ASSUME NEW p \in Proc, ServerError(p) PROVE OneLine'
  BY <1>6 DEF ServerError
<1>7. ASSUME NEW p \in Proc, WriteCheckpoint(p) PROVE OneLine'
  <2> SUFFICES ASSUME ~forked PROVE OneLine'
    BY <1>7 DEF WriteCheckpoint
  <2>1. Running(p) /\ ~Running(p)'
    BY <1>7 DEF WriteCheckpoint
  <2>2. \A q \in Proc : ~Running(q)'
    BY <1>7, <2>1 DEF WriteCheckpoint
  <2>3. file'.gen = file.gen + 1 /\ file.gen \in Nat
    BY <1>7, Fields DEF WriteCheckpoint, Checkpoint
  <2>4. file.gen = 0 \/ file.gen \in resumed
    BY <2>1
  <2>5. \A g \in 1 .. file.gen : g \in resumed
    BY <2>4
  <2>6. UNCHANGED <<resumed, lost, asked, forked>>
    BY <1>7 DEF WriteCheckpoint
  <2>7. lost' \subseteq 1 .. asked'
    BY <2>6
  <2>8. \A g \in 1 .. file'.gen : g = file'.gen \/ g \in resumed'
    BY <2>3, <2>5, <2>6
  <2> QED BY <2>2, <2>7, <2>8
<1>8. ASSUME NEW p \in Proc, WriteFails(p) PROVE OneLine'
  BY <1>8 DEF WriteFails
<1>9. ASSUME NEW p \in Proc, MarkPaused(p) PROVE OneLine'
  BY <1>9 DEF MarkPaused
<1>10. ASSUME NEW p \in Proc, Bridge(p) PROVE OneLine'
  BY <1>10 DEF Bridge
<1>11. ASSUME NEW p \in Proc, Complete(p) PROVE OneLine'
  BY <1>11 DEF Complete
<1>12. ASSUME NEW p \in Proc, Check(p) PROVE OneLine'
  BY <1>12 DEF Check, Quiet
<1>13. ASSUME NEW p \in Proc, Load(p) PROVE OneLine'
  BY <1>13 DEF Load, Restore
<1>14. ASSUME NEW p \in Proc, Relocate(p) PROVE OneLine'
  BY <1>14 DEF Relocate, Restore, Quiet
<1>15. ASSUME NEW p \in Proc, GiveUp(p) PROVE OneLine'
  BY <1>15 DEF GiveUp
<1>16. ASSUME NEW p \in Proc, MarkResumed(p) PROVE OneLine'
  <2> SUFFICES ASSUME ~forked' PROVE OneLine'
    OBVIOUS
  <2>1. ~forked /\ gen[p] \notin resumed /\ pc[p] = "loaded" /\ pending[p] = 0
    BY <1>16 DEF MarkResumed
  <2>2. gen[p] \in 1 .. file.gen
    BY <2>1
  <2>3. gen[p] = file.gen /\ file.gen # 0 /\ file.gen \notin resumed
    BY <2>1, <2>2, Fields
  <2>4. \A q \in Proc : ~Running(q)
    BY <2>1, <2>3
  <2>5. \A q \in Proc : Running(q)' => q = p
    BY <1>16, <2>4 DEF MarkResumed
  <2>10. earlier[p] = earlier[First]
    BY <2>1, <2>3
  <2>6. work[p] = traced /\ answered[p] = file.answered \union {file.pending}
    BY <2>1, <2>3
  <2>7. answered[p] = (1 .. asked) \ (lost \union {0})
    BY <2>1, <2>3, <2>6
  <2>8. UNCHANGED <<file, work, earlier, answered, pending, traced, asked, lost>>
    BY <1>16 DEF MarkResumed
  <2>9. resumed' = resumed \union {file.gen} /\ pc'[p] = "run"
    BY <1>16, <2>3 DEF MarkResumed
  <2> QED BY <2>1, <2>3, <2>5, <2>6, <2>7, <2>8, <2>9, <2>10
<1>17. ASSUME NEW p \in Proc, Crash(p) PROVE OneLine'
  BY <1>17 DEF Crash
<1>19. ASSUME NEW p \in Proc, NextLine(p) PROVE OneLine'
  BY <1>19 DEF NextLine
<1>18. CASE UNCHANGED vars
  BY <1>18 DEF vars
<1> QED BY <1>1, <1>2, <1>3, <1>4, <1>5, <1>6, <1>7, <1>8, <1>9, <1>10, <1>11, <1>12, <1>13, <1>14, <1>15, <1>16, <1>17, <1>18, <1>19 DEF Next, Ending

(* The latest checkpoint is complete: nobody runs until it is resumed.      *)
LEMMA LatestStep == LineInv /\ [Next]_vars => LatestIsComplete'
<1> SUFFICES ASSUME LineInv, [Next]_vars PROVE LatestIsComplete'
  OBVIOUS
<1> USE SessionPauseAssumption DEF LineInv, TypeOK, PC, Question, CheckpointType, NoFile, Numbered, FirstAlone, OneLine, LatestIsComplete, Running
<1>1. ASSUME NEW p \in Proc, Work(p) PROVE LatestIsComplete'
  BY <1>1 DEF Work
<1>2. ASSUME NEW p \in Proc, Ask(p) PROVE LatestIsComplete'
  BY <1>2 DEF Ask
<1>3. ASSUME NEW p \in Proc, Pause(p) PROVE LatestIsComplete'
  BY <1>3 DEF Pause
<1>4. ASSUME NEW p \in Proc, Finish(p) PROVE LatestIsComplete'
  BY <1>4 DEF Finish
<1>5. ASSUME NEW p \in Proc, Raise(p) PROVE LatestIsComplete'
  BY <1>5 DEF Raise
<1>6. ASSUME NEW p \in Proc, ServerError(p) PROVE LatestIsComplete'
  BY <1>6 DEF ServerError
<1>7. ASSUME NEW p \in Proc, WriteCheckpoint(p) PROVE LatestIsComplete'
  BY <1>7 DEF WriteCheckpoint, Checkpoint
<1>8. ASSUME NEW p \in Proc, WriteFails(p) PROVE LatestIsComplete'
  BY <1>8 DEF WriteFails
<1>9. ASSUME NEW p \in Proc, MarkPaused(p) PROVE LatestIsComplete'
  BY <1>9 DEF MarkPaused
<1>10. ASSUME NEW p \in Proc, Bridge(p) PROVE LatestIsComplete'
  BY <1>10 DEF Bridge
<1>11. ASSUME NEW p \in Proc, Complete(p) PROVE LatestIsComplete'
  BY <1>11 DEF Complete
<1>12. ASSUME NEW p \in Proc, Check(p) PROVE LatestIsComplete'
  BY <1>12 DEF Check, Quiet
<1>13. ASSUME NEW p \in Proc, Load(p) PROVE LatestIsComplete'
  BY <1>13 DEF Load, Restore
<1>14. ASSUME NEW p \in Proc, Relocate(p) PROVE LatestIsComplete'
  BY <1>14 DEF Relocate, Restore, Quiet
<1>15. ASSUME NEW p \in Proc, GiveUp(p) PROVE LatestIsComplete'
  BY <1>15 DEF GiveUp
<1>16. ASSUME NEW p \in Proc, MarkResumed(p) PROVE LatestIsComplete'
  BY <1>16 DEF MarkResumed
<1>17. ASSUME NEW p \in Proc, Crash(p) PROVE LatestIsComplete'
  BY <1>17 DEF Crash
<1>19. ASSUME NEW p \in Proc, NextLine(p) PROVE LatestIsComplete'
  BY <1>19 DEF NextLine
<1>18. CASE UNCHANGED vars
  BY <1>18 DEF vars
<1> QED BY <1>1, <1>2, <1>3, <1>4, <1>5, <1>6, <1>7, <1>8, <1>9, <1>10, <1>11, <1>12, <1>13, <1>14, <1>15, <1>16, <1>17, <1>18, <1>19 DEF Next, Ending

(* Artifacts come from the only run of a session that never paused.         *)
LEMMA ArtifactsStep == LineInv /\ [Next]_vars => ArtifactsEnd'
<1> SUFFICES ASSUME LineInv, [Next]_vars PROVE ArtifactsEnd'
  OBVIOUS
<1> USE SessionPauseAssumption DEF LineInv, TypeOK, PC, Question, CheckpointType, NoFile, Numbered, FirstAlone, ArtifactsEnd
<1>1. ASSUME NEW p \in Proc, Work(p) PROVE ArtifactsEnd'
  BY <1>1 DEF Work
<1>2. ASSUME NEW p \in Proc, Ask(p) PROVE ArtifactsEnd'
  BY <1>2 DEF Ask
<1>3. ASSUME NEW p \in Proc, Pause(p) PROVE ArtifactsEnd'
  BY <1>3 DEF Pause
<1>4. ASSUME NEW p \in Proc, Finish(p) PROVE ArtifactsEnd'
  BY <1>4 DEF Finish
<1>5. ASSUME NEW p \in Proc, Raise(p) PROVE ArtifactsEnd'
  BY <1>5 DEF Raise
<1>6. ASSUME NEW p \in Proc, ServerError(p) PROVE ArtifactsEnd'
  BY <1>6 DEF ServerError
<1>7. ASSUME NEW p \in Proc, WriteCheckpoint(p) PROVE ArtifactsEnd'
  BY <1>7 DEF WriteCheckpoint, Checkpoint
<1>8. ASSUME NEW p \in Proc, WriteFails(p) PROVE ArtifactsEnd'
  BY <1>8 DEF WriteFails
<1>9. ASSUME NEW p \in Proc, MarkPaused(p) PROVE ArtifactsEnd'
  BY <1>9 DEF MarkPaused
<1>10. ASSUME NEW p \in Proc, Bridge(p) PROVE ArtifactsEnd'
  BY <1>10 DEF Bridge
<1>11. ASSUME NEW p \in Proc, Complete(p) PROVE ArtifactsEnd'
  BY <1>11 DEF Complete
<1>12. ASSUME NEW p \in Proc, Check(p) PROVE ArtifactsEnd'
  BY <1>12 DEF Check, Quiet
<1>13. ASSUME NEW p \in Proc, Load(p) PROVE ArtifactsEnd'
  BY <1>13 DEF Load, Restore
<1>14. ASSUME NEW p \in Proc, Relocate(p) PROVE ArtifactsEnd'
  BY <1>14 DEF Relocate, Restore, Quiet
<1>15. ASSUME NEW p \in Proc, GiveUp(p) PROVE ArtifactsEnd'
  BY <1>15 DEF GiveUp
<1>16. ASSUME NEW p \in Proc, MarkResumed(p) PROVE ArtifactsEnd'
  BY <1>16 DEF MarkResumed
<1>17. ASSUME NEW p \in Proc, Crash(p) PROVE ArtifactsEnd'
  BY <1>17 DEF Crash
<1>19. ASSUME NEW p \in Proc, NextLine(p) PROVE ArtifactsEnd'
  BY <1>19 DEF NextLine
<1>18. CASE UNCHANGED vars
  BY <1>18 DEF vars
<1> QED BY <1>1, <1>2, <1>3, <1>4, <1>5, <1>6, <1>7, <1>8, <1>9, <1>10, <1>11, <1>12, <1>13, <1>14, <1>15, <1>16, <1>17, <1>18, <1>19 DEF Next, Ending

(* The row's status excludes a second resume.                               *)
LEMMA RowStep == IInv /\ [Next]_vars => RowProtocol'
<1> SUFFICES ASSUME IInv, [Next]_vars PROVE RowProtocol'
  OBVIOUS
<1> USE SessionPauseAssumption DEF LineInv, TypeOK, PC, Question, CheckpointType, NoFile, Numbered, FirstAlone, IInv, RowProtocol, Active, Running, LoadedMatches, PausedHasFile
<1>1. ASSUME NEW p \in Proc, Work(p) PROVE RowProtocol'
  BY <1>1 DEF Work
<1>2. ASSUME NEW p \in Proc, Ask(p) PROVE RowProtocol'
  BY <1>2 DEF Ask
<1>3. ASSUME NEW p \in Proc, Pause(p) PROVE RowProtocol'
  BY <1>3 DEF Pause
<1>4. ASSUME NEW p \in Proc, Finish(p) PROVE RowProtocol'
  BY <1>4 DEF Finish
<1>5. ASSUME NEW p \in Proc, Raise(p) PROVE RowProtocol'
  BY <1>5 DEF Raise
<1>6. ASSUME NEW p \in Proc, ServerError(p) PROVE RowProtocol'
  BY <1>6 DEF ServerError
<1>7. ASSUME NEW p \in Proc, WriteCheckpoint(p) PROVE RowProtocol'
  BY <1>7 DEF WriteCheckpoint, Checkpoint
<1>8. ASSUME NEW p \in Proc, WriteFails(p) PROVE RowProtocol'
  BY <1>8 DEF WriteFails
<1>9. ASSUME NEW p \in Proc, MarkPaused(p) PROVE RowProtocol'
  BY <1>9 DEF MarkPaused
<1>10. ASSUME NEW p \in Proc, Bridge(p) PROVE RowProtocol'
  BY <1>10 DEF Bridge
<1>11. ASSUME NEW p \in Proc, Complete(p) PROVE RowProtocol'
  BY <1>11 DEF Complete
<1>12. ASSUME NEW p \in Proc, Check(p) PROVE RowProtocol'
  BY <1>12 DEF Check, Quiet
<1>13. ASSUME NEW p \in Proc, Load(p) PROVE RowProtocol'
  BY <1>13 DEF Load, Restore
<1>14. ASSUME NEW p \in Proc, Relocate(p) PROVE RowProtocol'
  BY <1>14 DEF Relocate, Restore, Quiet
<1>15. ASSUME NEW p \in Proc, GiveUp(p) PROVE RowProtocol'
  BY <1>15 DEF GiveUp
<1>16. ASSUME NEW p \in Proc, MarkResumed(p) PROVE RowProtocol'
  BY <1>16 DEF MarkResumed
<1>17. ASSUME NEW p \in Proc, Crash(p) PROVE RowProtocol'
  BY <1>17 DEF Crash
<1>19. ASSUME NEW p \in Proc, NextLine(p) PROVE RowProtocol'
  BY <1>19 DEF NextLine
<1>18. CASE UNCHANGED vars
  BY <1>18 DEF vars
<1> QED BY <1>1, <1>2, <1>3, <1>4, <1>5, <1>6, <1>7, <1>8, <1>9, <1>10, <1>11, <1>12, <1>13, <1>14, <1>15, <1>16, <1>17, <1>18, <1>19 DEF Next, Ending

LEMMA IInvStep == IInv /\ [Next]_vars => IInv'
<1> SUFFICES ASSUME IInv, [Next]_vars PROVE IInv'
  OBVIOUS
<1>1. LineInv /\ TypeOK
  BY DEF IInv, LineInv
<1>2. TypeOK' /\ BookInv' /\ OneLine' /\ LatestIsComplete' /\ ArtifactsEnd'
  BY <1>1, TypeStep, BookStep, OneLineStep, LatestStep, ArtifactsStep
<1>3. RowProtocol'
  BY RowStep
<1> QED BY <1>2, <1>3 DEF IInv, LineInv, BookInv

THEOREM Inductive == Spec => []IInv
BY InitInv, IInvStep, PTL DEF Spec

(* Every variable stays in its type.                                        *)
THEOREM TypeCorrect == Spec => []TypeOK
<1>1. IInv => TypeOK
  BY DEF IInv, LineInv
<1> QED BY <1>1, Inductive, PTL

(* mark_paused and mark_resumed keep a paused row and the checkpoint it     *)
(* names together; without overlap and relocation it holds everything.      *)
THEOREM PausedRowIsBacked == Spec => []PausedIsComplete
<1>1. IInv => PausedIsComplete
  <2> SUFFICES ASSUME IInv, status = "paused" PROVE PausedIsComplete
    BY DEF PausedIsComplete
  <2>1. recorded /\ file # NoFile /\ file.gen # 0
    BY DEF IInv, LineInv, PausedHasFile, Numbered
  <2>2. ~(relocated \/ Overlap) => ~forked /\ file.gen \notin resumed
    BY DEF IInv, RowProtocol
  <2> QED BY <2>1, <2>2 DEF IInv, LineInv, LatestIsComplete, PausedIsComplete
<1> QED BY <1>1, Inductive, PTL

(* The paused status lets one resume through: with resumes one at a time    *)
(* and no --relocate, no checkpoint is continued from twice.                *)
THEOREM NoFork == Spec => []ForkNeedsRelocate
<1>1. IInv => ForkNeedsRelocate
  BY DEF IInv, RowProtocol, ForkNeedsRelocate
<1> QED BY <1>1, Inductive, PTL

(* Conversation and memory buffer survive any number of pauses, and so does *)
(* the usage, but for the lines before the one that paused first.           *)
THEOREM PausesForgetNothing == Spec => []NothingForgotten
<1>1. IInv => NothingForgotten
  BY DEF IInv, LineInv, OneLine, NothingForgotten
<1> QED BY <1>1, Inductive, PTL

(* mutate_pause_reply puts every reply in the place of its own question.    *)
THEOREM RepliesLand == Spec => []EveryReplyLands
<1>1. IInv => EveryReplyLands
  BY DEF IInv, LineInv, OneLine, EveryReplyLands
<1> QED BY <1>1, Inductive, PTL

(* The paused branch of run_trace_bridge keeps artifacts of a half session  *)
(* from ever being made.                                                    *)
THEOREM NoHalfArtifacts == Spec => []ArtifactsAreWhole
<1>1. IInv => ArtifactsAreWhole
  BY DEF IInv, LineInv, ArtifactsEnd, Numbered, ArtifactsAreWhole
<1> QED BY <1>1, Inductive, PTL
(* What holds of a paused and resumed session in every state, as one statement. *)
THEOREM PausesAreSound == Spec => []PausesSound
<1>1. TypeOK /\ PausedIsComplete /\ ForkNeedsRelocate /\ NothingForgotten /\ EveryReplyLands => PausesSound
  BY DEF PausesSound
<1> QED
  BY <1>1, TypeCorrect, PausedRowIsBacked, NoFork, PausesForgetNothing, RepliesLand, PTL
=============================================================================

--------------------------- MODULE WriteLockProofs ---------------------------
(***************************************************************************)
(* TLAPS proofs about WriteLock, for all threads, processes and bounds:    *)
(* as long as no recovery can be under way the file backs its holder, no   *)
(* update is lost and the reentrancy counter is exact; and the git lock    *)
(* implements the exclusive store whatever is killed.                      *)
(***************************************************************************)
EXTENDS WriteLock, TLAPS

(* Nobody removes a file as stale.                                          *)
NobodyReclaims ==
  /\ ~aged => ~file.old
  /\ NoRecovery => \A t \in Thread : pc[t] \notin {"stated", "orphan"}

(* What a holder has read is still what stands, and what it has truncated   *)
(* is still empty; only the workspace lock can have a failed write.         *)
BufFresh ==
  NoRecovery => \A t \in Thread :
    /\ pc[t] \in {"read", "torn"} => buf[t] = Standing
    /\ pc[t] = "torn" => doc = 0

(* Only a thread that holds the lock is nested.                             *)
NestedInside ==
  \A t \in Thread :
    pc[t] \notin {"hold", "read", "torn", "dead"} => level[t] = 0

LInv == TypeOK /\ NobodyReclaims /\ LockBacksHolder
TornLock == ~Workspace => wiped = 0 /\ \A t \in Thread : pc[t] # "torn"

IInv == LInv /\ BufFresh /\ NothingLost /\ TornLock
RInv == LInv /\ NestedInside /\ ReentrancyExact

FileType == [by : Thread \union {Nobody}, pid : Proc \union {Nobody}, old : BOOLEAN]

LEMMA NoFileType == NoFile \in FileType
BY DEF NoFile, FileType

LEMMA InitInv == Init => IInv /\ RInv
<1> SUFFICES ASSUME Init PROVE IInv /\ RInv
  OBVIOUS
<1>1. TypeOK
  <2>1. polls \in [Thread -> 0 .. MaxPolls] /\ level \in [Thread -> 0 .. MaxNest]
    BY WriteLockAssumption DEF Init
  <2>2. file \in FileType /\ pc \in [Thread -> PC] /\ aged \in BOOLEAN
    BY NoFileType DEF Init, PC
  <2>3. buf \in [Thread -> Nat]
    BY DEF Init
  <2> QED BY <2>1, <2>2, <2>3, WriteLockAssumption DEF Init, TypeOK, FileType
<1>2. NobodyReclaims /\ LockBacksHolder /\ BufFresh /\ NothingLost /\ TornLock /\ NestedInside
  BY WriteLockAssumption DEF Init, NobodyReclaims, LockBacksHolder, BufFresh, NothingLost, Standing, TornLock, NestedInside, NoFile, Inside
<1>3. ReentrancyExact
  BY WriteLockAssumption DEF Init, ReentrancyExact, Alive, Inside
<1> QED BY <1>1, <1>2, <1>3 DEF IInv, RInv, LInv

(* A poll changes only its own thread's counter and place.                  *)
LEMMA TypeStep == TypeOK /\ [Next]_vars => TypeOK'
<1> SUFFICES ASSUME TypeOK, [Next]_vars PROVE TypeOK'
  OBVIOUS
<1> USE WriteLockAssumption, NoFileType DEF TypeOK, PC, Inside, FileType
<1>1. ASSUME NEW t \in Thread, Enter(t) PROVE TypeOK'
  BY <1>1 DEF Enter
<1>2. ASSUME NEW t \in Thread, Create(t) PROVE TypeOK'
  BY <1>2 DEF Create, NoFile
<1>3. ASSUME NEW t \in Thread, PollOrRaise(t) PROVE TypeOK'
  <2>1. polls' \in [Thread -> 0 .. MaxPolls]
    BY <1>3 DEF PollOrRaise
  <2> QED BY <1>3, <2>1 DEF PollOrRaise
<1>4. ASSUME NEW t \in Thread, StatOld(t) \/ ReadDead(t) \/ Reclaim(t) PROVE TypeOK'
  BY <1>4 DEF StatOld, ReadDead, Reclaim
<1>5. ASSUME NEW t \in Thread, Acquiring(t) PROVE TypeOK'
  BY <1>2, <1>3, <1>4, <1>5 DEF Acquiring, Exists, ReadAlive, ReclaimLate
<1>6. ASSUME NEW t \in Thread, Hold(t) PROVE TypeOK'
  <2>1. ProcOf[t] \in Proc
    OBVIOUS
  <2>2. file' \in [by : Thread \union {Nobody}, pid : Proc \union {Nobody}, old : BOOLEAN]
    BY <1>6, <2>1 DEF Hold
  <2> QED BY <1>6, <2>1, <2>2 DEF Hold
<1>7. ASSUME NEW t \in Thread, PayloadRaises(t) \/ Truncate(t) \/ SaveRaises(t) \/ Release(t) PROVE TypeOK'
  BY <1>7 DEF PayloadRaises, Truncate, SaveRaises, Release
<1>8. ASSUME NEW t \in Thread, Nest(t) \/ Unnest(t) PROVE TypeOK'
  <2>1. level' \in [Thread -> 0 .. MaxNest] /\ depth' \in [Proc -> Int]
    BY <1>8 DEF Nest, Unnest
  <2> QED BY <1>8, <2>1 DEF Nest, Unnest
<1>9. ASSUME NEW t \in Thread, ReadDoc(t) \/ Save(t) PROVE TypeOK'
  BY <1>9 DEF ReadDoc, Save
<1>10. ASSUME NEW t \in Thread, Leave(t) PROVE TypeOK'
  BY <1>10 DEF Leave
<1>11. ASSUME NEW t \in Thread, Holding(t) PROVE TypeOK'
  BY <1>6, <1>7, <1>8, <1>9, <1>10, <1>11 DEF Holding
<1>12. CASE Age
  BY <1>12 DEF Age
<1>13. ASSUME NEW p \in Proc, Crash(p) PROVE TypeOK'
  BY <1>13 DEF Crash
<1>14. CASE UNCHANGED vars
  BY <1>14 DEF vars
<1> QED BY <1>1, <1>5, <1>11, <1>12, <1>13, <1>14 DEF Next

(* The lock part: with no recovery nobody unlinks but the owner of the file,*)
(* and nobody creates while it exists.                                      *)
LEMMA LockStep == LInv /\ [Next]_vars => LInv'
<1> SUFFICES ASSUME LInv, [Next]_vars PROVE NobodyReclaims' /\ LockBacksHolder'
  BY TypeStep DEF LInv
<1> USE WriteLockAssumption DEF LInv, TypeOK, NobodyReclaims, LockBacksHolder, NoRecovery, PC, Inside, NoFile
<1>1. ASSUME NEW t \in Thread, Enter(t) PROVE NobodyReclaims' /\ LockBacksHolder'
  BY <1>1 DEF Enter
<1>2. ASSUME NEW t \in Thread, Create(t) PROVE NobodyReclaims' /\ LockBacksHolder'
  BY <1>2 DEF Create
<1>3. ASSUME NEW t \in Thread, PollOrRaise(t), pc[t] \in {"try", "stated", "orphan"}
      PROVE NobodyReclaims' /\ LockBacksHolder'
  BY <1>3 DEF PollOrRaise
<1>4. ASSUME NEW t \in Thread, StatOld(t) \/ ReadDead(t) \/ Reclaim(t)
      PROVE NobodyReclaims' /\ LockBacksHolder'
  BY <1>4 DEF StatOld, ReadDead, Reclaim
<1>5. ASSUME NEW t \in Thread, Acquiring(t) PROVE NobodyReclaims' /\ LockBacksHolder'
  BY <1>2, <1>3, <1>4, <1>5 DEF Acquiring, Exists, ReadAlive, ReclaimLate
<1>6. ASSUME NEW t \in Thread, Hold(t) PROVE NobodyReclaims' /\ LockBacksHolder'
  <2>1. file'.by = file.by /\ (file.old = FALSE => file'.old = FALSE)
    BY <1>6 DEF Hold
  <2> QED BY <1>6, <2>1 DEF Hold
<1>7. ASSUME NEW t \in Thread, PayloadRaises(t) \/ Truncate(t) \/ ReadDoc(t) \/ Save(t) \/ SaveRaises(t)
      PROVE NobodyReclaims' /\ LockBacksHolder'
  BY <1>7 DEF PayloadRaises, Truncate, ReadDoc, Save, SaveRaises
<1>8. ASSUME NEW t \in Thread, Nest(t) \/ Unnest(t) PROVE NobodyReclaims' /\ LockBacksHolder'
  BY <1>8 DEF Nest, Unnest
<1>9. ASSUME NEW t \in Thread, Leave(t) PROVE NobodyReclaims' /\ LockBacksHolder'
  BY <1>9 DEF Leave
<1>10. ASSUME NEW t \in Thread, Release(t) PROVE NobodyReclaims' /\ LockBacksHolder'
  BY <1>10 DEF Release
<1>11. ASSUME NEW t \in Thread, Holding(t) PROVE NobodyReclaims' /\ LockBacksHolder'
  BY <1>6, <1>7, <1>8, <1>9, <1>10, <1>11 DEF Holding
<1>12. CASE Age
  BY <1>12 DEF Age
<1>13. ASSUME NEW p \in Proc, Crash(p) PROVE NobodyReclaims' /\ LockBacksHolder'
  BY <1>13 DEF Crash
<1>14. CASE UNCHANGED vars
  BY <1>14 DEF vars
<1> QED BY <1>1, <1>5, <1>11, <1>12, <1>13, <1>14 DEF Next

(* The data part: a reader reads what was saved last, and nobody else saves *)
(* before it does.                                                          *)
LEMMA DataStep == IInv /\ [Next]_vars => IInv'
<1> SUFFICES ASSUME IInv, [Next]_vars PROVE BufFresh' /\ NothingLost' /\ TornLock'
  BY LockStep DEF IInv
<1> DEFINE Goal == BufFresh' /\ NothingLost' /\ TornLock'
<1> USE WriteLockAssumption DEF IInv, LInv, TypeOK, NobodyReclaims, LockBacksHolder, BufFresh, NothingLost, Standing, TornLock, NoRecovery, PC, Inside, NoFile
<1>1. ASSUME NEW t \in Thread, Enter(t) PROVE Goal
  BY <1>1 DEF Enter
<1>2. ASSUME NEW t \in Thread, Create(t) PROVE Goal
  BY <1>2 DEF Create
<1>3. ASSUME NEW t \in Thread, PollOrRaise(t), pc[t] \in {"try", "stated", "orphan"}
      PROVE Goal
  BY <1>3 DEF PollOrRaise
<1>4. ASSUME NEW t \in Thread, StatOld(t) \/ ReadDead(t) \/ Reclaim(t) PROVE Goal
  BY <1>4 DEF StatOld, ReadDead, Reclaim
<1>5. ASSUME NEW t \in Thread, Acquiring(t) PROVE Goal
  BY <1>2, <1>3, <1>4, <1>5 DEF Acquiring, Exists, ReadAlive, ReclaimLate
<1>6. ASSUME NEW t \in Thread, Hold(t) PROVE Goal
  <2>1. file'.by = file.by
    BY <1>6 DEF Hold
  <2> QED BY <1>6, <2>1 DEF Hold
<1>7. ASSUME NEW t \in Thread, PayloadRaises(t) \/ Nest(t) \/ Unnest(t) \/ Leave(t)
      PROVE Goal
  BY <1>7 DEF PayloadRaises, Nest, Unnest, Leave
<1>8. ASSUME NEW t \in Thread, ReadDoc(t) PROVE Goal
  <2>1. NoRecovery => doc = Standing
    BY <1>8 DEF ReadDoc
  <2> QED BY <1>8, <2>1 DEF ReadDoc
<1>9. ASSUME NEW t \in Thread, Truncate(t) PROVE Goal
  BY <1>9 DEF Truncate
<1>10. ASSUME NEW t \in Thread, Save(t) PROVE Goal
  <2>1. NoRecovery => \A u \in Thread : pc[u] \in {"read", "torn"} => u = t
    BY <1>10 DEF Save
  <2> QED BY <1>10, <2>1 DEF Save
<1>11. ASSUME NEW t \in Thread, Release(t) PROVE Goal
  BY <1>11 DEF Release
<1>16. ASSUME NEW t \in Thread, SaveRaises(t) PROVE Goal
  <2>1. NoRecovery => \A u \in Thread : pc[u] \in {"read", "torn"} => u = t
    BY <1>16 DEF SaveRaises
  <2>2. Workspace
    BY <1>16 DEF SaveRaises
  <2>3. NoRecovery => doc = 0
    BY <1>16 DEF SaveRaises
  <2> QED BY <1>16, <2>1, <2>2, <2>3 DEF SaveRaises
<1>12. ASSUME NEW t \in Thread, Holding(t) PROVE Goal
  BY <1>6, <1>7, <1>8, <1>9, <1>10, <1>11, <1>12, <1>16 DEF Holding
<1>13. CASE Age
  BY <1>13 DEF Age
<1>14. ASSUME NEW p \in Proc, Crash(p) PROVE Goal
  BY <1>14 DEF Crash
<1>15. CASE UNCHANGED vars
  BY <1>15 DEF vars
<1> QED BY <1>1, <1>5, <1>12, <1>13, <1>14, <1>15 DEF Next

(* The reentrancy part: with one thread inside at a time, the object of its *)
(* process is written by that thread alone.                                 *)
LEMMA ReentrancyStep == RInv /\ [Next]_vars => RInv'
<1> SUFFICES ASSUME RInv, [Next]_vars PROVE NestedInside' /\ ReentrancyExact'
  BY LockStep DEF RInv
<1> DEFINE Goal == NestedInside' /\ ReentrancyExact'
<1> USE WriteLockAssumption DEF RInv, LInv, TypeOK, NobodyReclaims, LockBacksHolder, NestedInside, ReentrancyExact, NoRecovery, PC, Inside, Alive
<1>1. ASSUME NEW t \in Thread, Enter(t) PROVE Goal
  BY <1>1 DEF Enter
<1>2. ASSUME NEW t \in Thread, Create(t) PROVE Goal
  BY <1>2 DEF Create
<1>3. ASSUME NEW t \in Thread, PollOrRaise(t), pc[t] \in {"try", "stated", "orphan"}
      PROVE Goal
  BY <1>3 DEF PollOrRaise
<1>4. ASSUME NEW t \in Thread, StatOld(t) \/ ReadDead(t) \/ Reclaim(t) PROVE Goal
  BY <1>4 DEF StatOld, ReadDead, Reclaim
<1>5. ASSUME NEW t \in Thread, Acquiring(t) PROVE Goal
  BY <1>2, <1>3, <1>4, <1>5 DEF Acquiring, Exists, ReadAlive, ReclaimLate
<1>6. ASSUME NEW t \in Thread, Hold(t) PROVE Goal
  <2>1. Workspace /\ ~aged =>
          \A u \in Thread : pc[u] \in Inside \union {"release"} => u = t
    BY <1>6 DEF Hold
  <2>2. NestedInside'
    BY <1>6 DEF Hold
  <2>3. ReentrancyExact'
    BY <1>6, <2>1 DEF Hold
  <2> QED BY <2>2, <2>3
<1>7. ASSUME NEW t \in Thread, Nest(t) PROVE Goal
  BY <1>7 DEF Nest
<1>8. ASSUME NEW t \in Thread, Unnest(t) PROVE Goal
  BY <1>8 DEF Unnest
<1>9. ASSUME NEW t \in Thread, Leave(t) PROVE Goal
  <2>1. /\ pc[t] \in {"hold", "read"} /\ level[t] = 0 /\ ProcOf[t] \in Proc
        /\ UNCHANGED <<file, level, aged>>
    BY <1>9 DEF Leave
  <2>2. \E left \in Int :
          /\ left = IF Workspace THEN depth[ProcOf[t]] - 1 ELSE 0
          /\ depth' = [depth EXCEPT ![ProcOf[t]] = left]
          /\ owner' = [owner EXCEPT ![ProcOf[t]] = IF left = 0 THEN Nobody ELSE @]
          /\ pc' = [pc EXCEPT ![t] = IF left = 0 THEN "release" ELSE "idle"]
    <3> DEFINE left == IF Workspace THEN depth[ProcOf[t]] - 1 ELSE 0
    <3>1. left \in Int
      BY <2>1
    <3>2. /\ depth' = [depth EXCEPT ![ProcOf[t]] = left]
          /\ owner' = [owner EXCEPT ![ProcOf[t]] = IF left = 0 THEN Nobody ELSE @]
          /\ pc' = [pc EXCEPT ![t] = IF left = 0 THEN "release" ELSE "idle"]
      BY <1>9 DEF Leave
    <3> QED BY <3>1, <3>2
  <2>3. NestedInside'
    <3>1. \A u \in Thread : u # t => pc'[u] = pc[u]
      BY <2>2
    <3> QED BY <2>1, <3>1
  <2>4. ASSUME Workspace, ~aged PROVE ReentrancyExact'
    <3>1. owner[ProcOf[t]] = t /\ depth[ProcOf[t]] = 1
      BY <2>1, <2>4
    <3>2. /\ depth' = [depth EXCEPT ![ProcOf[t]] = 0]
          /\ owner' = [owner EXCEPT ![ProcOf[t]] = Nobody]
          /\ pc' = [pc EXCEPT ![t] = "release"]
      BY <2>2, <2>4, <3>1
    <3> QED BY <2>1, <2>4, <3>1, <3>2
  <2>5. ~Workspace \/ aged => ReentrancyExact'
    BY <2>1
  <2> QED BY <2>3, <2>4, <2>5
<1>10. ASSUME NEW t \in Thread,
              PayloadRaises(t) \/ ReadDoc(t) \/ Truncate(t) \/ Save(t) \/ SaveRaises(t) \/ Release(t)
       PROVE Goal
  BY <1>10 DEF PayloadRaises, ReadDoc, Truncate, Save, SaveRaises, Release
<1>11. ASSUME NEW t \in Thread, Holding(t) PROVE Goal
  BY <1>6, <1>7, <1>8, <1>9, <1>10, <1>11 DEF Holding
<1>12. CASE Age
  BY <1>12 DEF Age
<1>13. ASSUME NEW p \in Proc, Crash(p) PROVE Goal
  BY <1>13 DEF Crash
<1>14. CASE UNCHANGED vars
  BY <1>14 DEF vars
<1> QED BY <1>1, <1>5, <1>11, <1>12, <1>13, <1>14 DEF Next

(* A step of the git lock is a step of the exclusive store or a stutter:    *)
(* the create takes it, the save changes it, the unlink drops it.           *)
LEMMA StoreStep ==
  ASSUME LInv, BufFresh, NothingLost, TornLock, ~Workspace, [Next]_vars
  PROVE  [Store!Next]_Store!storeVars
<1> USE WriteLockAssumption DEF LInv, TypeOK, NobodyReclaims, LockBacksHolder, NoRecovery, Inside
<1> DEFINE Same == UNCHANGED <<file.by, doc>>
<1>1. ASSUME NEW t \in Thread, Enter(t) PROVE Same
  BY <1>1 DEF Enter
<1>2. ASSUME NEW t \in Thread, Acquiring(t) PROVE Same \/ Store!Take(t)
  <2>1. ASSUME Create(t) PROVE Store!Take(t)
    BY <2>1 DEF Create, NoFile, Store!Take
  <2>2. ASSUME Exists(t) PROVE Same
    BY <2>2 DEF Exists, PollOrRaise
  <2> QED BY <1>2, <2>1, <2>2
            DEF Acquiring, StatOld, ReadAlive, ReadDead, Reclaim, ReclaimLate
<1>3. ASSUME NEW t \in Thread, Save(t) PROVE Store!Change(t)
  <2>1. pc[t] = "read" /\ file.by = t
    BY <1>3 DEF Save
  <2>2. doc = saved /\ buf[t] = saved
    BY <2>1 DEF BufFresh, NothingLost, Standing, TornLock
  <2> QED BY <1>3, <2>1, <2>2 DEF Save, Store!Change
<1>4. ASSUME NEW t \in Thread, Release(t) PROVE Store!Drop(t)
  BY <1>4 DEF Release, NoFile, Store!Drop
<1>5. ASSUME NEW t \in Thread, Hold(t) PROVE Same
  BY <1>5 DEF Hold
<1>6. ASSUME NEW t \in Thread,
             PayloadRaises(t) \/ Nest(t) \/ Unnest(t) \/ ReadDoc(t) \/ Truncate(t)
             \/ SaveRaises(t) \/ Leave(t)
      PROVE Same
  BY <1>6 DEF PayloadRaises, Nest, Unnest, ReadDoc, Truncate, SaveRaises, Leave
<1>7. ASSUME Age \/ (\E p \in Proc : Crash(p)) \/ UNCHANGED vars PROVE Same
  BY <1>7 DEF Age, Crash, vars
<1> QED BY <1>1, <1>2, <1>3, <1>4, <1>5, <1>6, <1>7
          DEF Next, Holding, Store!Next, Store!storeVars

(* Types hold in every reachable state.                                     *)
THEOREM TypeCorrect == Spec => []TypeOK
<1>1. Init => TypeOK
  BY InitInv DEF IInv, LInv
<1> QED BY <1>1, TypeStep, PTL DEF Spec

(* The lock file belongs to the thread inside (lock.py:126, git_repo.py:800)*)
(* as long as no recovery can be under way, through nesting, failures,      *)
(* timeouts and crashes.                                                    *)
THEOREM FileBacksHolder == Spec => []LockBacksHolder
<1>1. Init => LInv
  BY InitInv DEF IInv
<1>2. LInv => LockBacksHolder
  BY DEF LInv
<1> QED BY <1>1, <1>2, LockStep, PTL DEF Spec

(* Read-modify-write under the lock loses no update to another writer as    *)
(* long as no recovery can be under way: what a failed or killed write      *)
(* truncates aside, every save builds on what stands.                       *)
THEOREM NoUpdateLost == Spec => []NothingLost
<1>1. Init => IInv
  BY InitInv
<1>2. IInv => NothingLost
  BY DEF IInv
<1> QED BY <1>1, <1>2, DataStep, PTL DEF Spec

(* WorkspaceWriteLock.acquire counts exactly the nesting of the thread that *)
(* is inside, for every interleaving, as long as no lock file has aged.     *)
THEOREM ReentrancyCounts == Spec => []ReentrancyExact
<1>1. Init => RInv
  BY InitInv
<1>2. RInv => ReentrancyExact
  BY DEF RInv
<1> QED BY <1>1, <1>2, ReentrancyStep, PTL DEF Spec

(* GitRepo.write_lock implements the exclusive store: one owner at a time,  *)
(* changes by the owner alone, each on top of the last, and an owner that   *)
(* is killed keeps it.                                                      *)
THEOREM GitLockImplementsStore == ASSUME ~Workspace PROVE Spec => ImplementsStore
<1>1. Init => Store!Init
  BY WriteLockAssumption DEF Init, NoFile, Store!Init
<1>2. Init => IInv
  BY InitInv
<1>3. IInv /\ [Next]_vars => [Store!Next]_Store!storeVars
  BY StoreStep DEF IInv
<1> QED BY <1>1, <1>2, <1>3, DataStep, PTL DEF Spec, ImplementsStore, Store!Spec
(* What holds of a write lock in every state, as one statement. *)
THEOREM LockIsSound == Spec => []LockSound
<1>1. TypeOK /\ LockBacksHolder /\ NothingLost /\ ReentrancyExact => LockSound
  BY DEF LockSound
<1> QED
  BY <1>1, TypeCorrect, FileBacksHolder, NoUpdateLost, ReentrancyCounts, PTL
=============================================================================

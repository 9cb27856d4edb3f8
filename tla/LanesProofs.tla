----------------------------- MODULE LanesProofs -----------------------------
(***************************************************************************)
(* TLAPS proofs about Lanes: for every call tree and every cap, permits    *)
(* are conserved, the gauge is exact and stays below the cap at every      *)
(* lane_acquire event, and the lanes implement the bounded pool.           *)
(***************************************************************************)
EXTENDS Lanes, FiniteSetTheorems, TLAPS

(* A bypassing child never touches a semaphore.                             *)
BypassOffLane ==
  \A r \in Run : Bypasses(r) => pc[r] \notin {"waiting", "acquired", "releasing"}

(* The inductive invariant: PermitsConserved and GaugeExact are inductive   *)
(* only together with the types and with the bypassing runs being off the   *)
(* lanes, for Acquire, CountIn and Release do not test Bypasses.            *)
IInv == TypeOK /\ PermitsConserved /\ GaugeExact /\ BypassOffLane

LEMMA HoldersFinite ==
  ASSUME NEW l \in Lane
  PROVE  /\ IsFiniteSet(Holders(l)) /\ Cardinality(Holders(l)) \in Nat
         /\ IsFiniteSet(Counted(l)) /\ Cardinality(Counted(l)) \in Nat
<1>1. Holders(l) \in SUBSET Run /\ Counted(l) \in SUBSET Run
  BY DEF Holders, Counted
<1>2. QED
  BY <1>1, LanesAssumption, FS_Subset, FS_CardinalityType

LEMMA CapType == /\ Cap \in [Lane -> Nat \ {0}]
                 /\ \A r \in Run : LaneOf(r) \in Lane
BY LanesAssumption DEF Cap, Lane, LaneOf

(* Init establishes the inductive invariant: nobody holds anything.         *)
LEMMA InitIInv == Init => IInv
<1> SUFFICES ASSUME Init PROVE IInv
  OBVIOUS
<1>1. TypeOK
  BY CapType, LanesAssumption DEF Init, TypeOK, PC, Outcome
<1>2. \A l \in Lane : Holders(l) = {} /\ Counted(l) = {}
  BY DEF Init, Holders, Counted
<1>3. PermitsConserved /\ GaugeExact
  BY <1>2, CapType, FS_EmptySet DEF Init, PermitsConserved, GaugeExact
<1>4. BypassOffLane
  BY DEF Init, BypassOffLane
<1> QED BY <1>1, <1>3, <1>4 DEF IInv

(* Every step keeps the types; the gauge stays a natural number because a   *)
(* run that finishes is itself counted.                                     *)
LEMMA TypeStep ==
  ASSUME IInv, [Next]_vars
  PROVE  TypeOK'
<1> USE DEF TypeOK, PC, Outcome, Goto
<1>0. TypeOK
  BY DEF IInv
<1>1. ASSUME NEW r \in Run, StartTurn(r) PROVE TypeOK'
  BY <1>0, <1>1 DEF StartTurn
<1>2. ASSUME NEW p \in Run, NEW ff \in BOOLEAN, Dispatch(p, ff) PROVE TypeOK'
  BY <1>0, <1>2 DEF Dispatch
<1>3. ASSUME NEW r \in Run, SkipCancelled(r) PROVE TypeOK'
  BY <1>0, <1>3 DEF SkipCancelled
<1>4. ASSUME NEW r \in Run, LaunchChild(r) PROVE TypeOK'
  BY <1>0, <1>4 DEF LaunchChild
<1>5. ASSUME NEW r \in Run, Acquire(r) PROVE TypeOK'
  BY <1>0, <1>5, CapType DEF Acquire
<1>6. ASSUME NEW r \in Run, CountIn(r) PROVE TypeOK'
  BY <1>0, <1>6, CapType DEF CountIn
<1>7. ASSUME NEW r \in Run, NEW how \in {"ok", "error"}, Finish(r, how)
      PROVE TypeOK'
  <2>1. pc' \in [Run -> PC] /\ outcome' \in [Run -> Outcome]
    BY <1>0, <1>7 DEF Finish
  <2>2. ~Bypasses(r) => in_flight[LaneOf(r)] \in Nat \ {0}
    <3>1. SUFFICES ASSUME ~Bypasses(r) PROVE in_flight[LaneOf(r)] # 0
      BY <1>0, CapType
    <3>2. r \in Counted(LaneOf(r))
      BY <3>1, <1>7 DEF Counted, Finish
    <3>3. Cardinality(Counted(LaneOf(r))) # 0
      BY <3>2, CapType, HoldersFinite, FS_EmptySet
    <3>4. QED BY <3>3, CapType DEF IInv, GaugeExact
  <2>3. in_flight' \in [Lane -> Nat]
    BY <1>0, <1>7, <2>2, CapType DEF Finish
  <2>4. QED BY <1>0, <1>7, <2>1, <2>3 DEF Finish
<1>8. ASSUME NEW r \in Run, Release(r) PROVE TypeOK'
  BY <1>0, <1>8, CapType DEF Release
<1>9. ASSUME NEW r \in Run, Record(r) PROVE TypeOK'
  <2>1. outcome[r] = "error" /\ Parent[r] \in fail_fast => Parent[r] \in Run
    BY <1>0
  <2>2. QED BY <1>0, <1>9, <2>1 DEF Record
<1>10. CASE UNCHANGED vars
  BY <1>0, <1>10 DEF vars
<1> QED
  BY <1>1, <1>2, <1>3, <1>4, <1>5, <1>6, <1>7, <1>8, <1>9, <1>10
  DEF Next, Progress, Finished

(* A step that moves one run between two program points outside the set of  *)
(* holders and outside the counted ones leaves both sets alone.             *)
LEMMA OffLaneMove ==
  ASSUME TypeOK, NEW r \in Run, NEW to \in PC, Goto(r, to),
         Bypasses(r) \/ (/\ pc[r] \notin {"acquired", "running", "releasing"}
                         /\ to \notin {"acquired", "running", "releasing"})
  PROVE  \A l \in Lane : Holders(l)' = Holders(l) /\ Counted(l)' = Counted(l)
BY DEF TypeOK, Goto, Holders, Counted, Bypasses, LaneOf

(* The sets of holders and of counted runs are what a step that changes     *)
(* neither semaphore nor gauge must keep.                                   *)
LEMMA SameSets ==
  ASSUME IInv, UNCHANGED <<sem, in_flight>>,
         \A l \in Lane : Holders(l)' = Holders(l) /\ Counted(l)' = Counted(l)
  PROVE  PermitsConserved' /\ GaugeExact'
BY DEF IInv, PermitsConserved, GaugeExact, Cap

(* Acquire moves one permit from the semaphore to the run.                  *)
LEMMA AcquireStep ==
  ASSUME IInv, NEW r \in Run, Acquire(r)
  PROVE  PermitsConserved' /\ GaugeExact'
<1> DEFINE m == LaneOf(r)
<1>0. TypeOK /\ m \in Lane /\ ~Bypasses(r)
  BY CapType DEF IInv, BypassOffLane, Acquire
<1>1. r \notin Holders(m) /\ r \notin Counted(m)
  BY DEF Acquire, Holders, Counted
<1>2. \A l \in Lane : /\ Holders(l)' = IF l = m THEN Holders(l) \cup {r} ELSE Holders(l)
                      /\ Counted(l)' = Counted(l)
  BY <1>0 DEF Acquire, Goto, TypeOK, Holders, Counted, Bypasses, LaneOf
<1>3. \A l \in Lane : Cardinality(Holders(l)') =
                        IF l = m THEN Cardinality(Holders(l)) + 1 ELSE Cardinality(Holders(l))
  BY <1>0, <1>1, <1>2, HoldersFinite, FS_AddElement
<1>4. \A l \in Lane : sem'[l] = IF l = m THEN sem[l] - 1 ELSE sem[l]
  BY <1>0 DEF Acquire, TypeOK
<1>5. PermitsConserved'
  <2> SUFFICES ASSUME NEW l \in Lane
               PROVE  sem'[l] + Cardinality(Holders(l)') = Cap[l]
    BY DEF PermitsConserved, Cap
  <2>1. sem[l] + Cardinality(Holders(l)) = Cap[l] /\ sem[l] \in Nat
    BY <1>0 DEF IInv, PermitsConserved, TypeOK
  <2>2. Cardinality(Holders(l)) \in Nat
    BY HoldersFinite
  <2> QED BY <1>3, <1>4, <2>1, <2>2
<1>6. GaugeExact'
  BY <1>2 DEF IInv, GaugeExact, Acquire
<1> QED BY <1>5, <1>6

(* CountIn adds the run to the gauge's set and keeps the holders.           *)
LEMMA CountInStep ==
  ASSUME IInv, NEW r \in Run, CountIn(r)
  PROVE  PermitsConserved' /\ GaugeExact'
<1> DEFINE m == LaneOf(r)
<1>0. TypeOK /\ m \in Lane /\ ~Bypasses(r)
  BY CapType DEF IInv, BypassOffLane, CountIn
<1>1. r \notin Counted(m)
  BY DEF CountIn, Counted
<1>2. \A l \in Lane : /\ Holders(l)' = Holders(l)
                      /\ Counted(l)' = IF l = m THEN Counted(l) \cup {r} ELSE Counted(l)
  BY <1>0 DEF CountIn, Goto, TypeOK, Holders, Counted, Bypasses, LaneOf
<1>3. \A l \in Lane : Cardinality(Counted(l)') =
                        IF l = m THEN Cardinality(Counted(l)) + 1 ELSE Cardinality(Counted(l))
  BY <1>0, <1>1, <1>2, HoldersFinite, FS_AddElement
<1>4. \A l \in Lane : in_flight'[l] = IF l = m THEN in_flight[l] + 1 ELSE in_flight[l]
  BY <1>0 DEF CountIn, TypeOK
<1>5. GaugeExact'
  BY <1>3, <1>4 DEF IInv, GaugeExact
<1>6. PermitsConserved'
  BY <1>2 DEF IInv, PermitsConserved, CountIn, Cap
<1> QED BY <1>5, <1>6

(* Finish takes the run out of the gauge; it still holds its permit.        *)
LEMMA FinishStep ==
  ASSUME IInv, NEW r \in Run, NEW how \in {"ok", "error"}, Finish(r, how)
  PROVE  PermitsConserved' /\ GaugeExact'
<1> DEFINE m == LaneOf(r)
<1>0. TypeOK /\ m \in Lane
  BY CapType DEF IInv
<1>1. CASE Bypasses(r)
  <2>1. Goto(r, "returned") /\ UNCHANGED <<sem, in_flight>>
    BY <1>1 DEF Finish
  <2>2. "returned" \in PC
    BY DEF PC
  <2> QED BY <1>0, <1>1, <2>1, <2>2, OffLaneMove, SameSets
<1>2. CASE ~Bypasses(r)
  <2>1. r \in Counted(m)
    BY <1>2 DEF Finish, Counted
  <2>2. \A l \in Lane : /\ Holders(l)' = Holders(l)
                        /\ Counted(l)' = IF l = m THEN Counted(l) \ {r} ELSE Counted(l)
    BY <1>0, <1>2 DEF Finish, Goto, TypeOK, Holders, Counted, Bypasses, LaneOf
  <2>3. \A l \in Lane : Cardinality(Counted(l)') =
                          IF l = m THEN Cardinality(Counted(l)) - 1 ELSE Cardinality(Counted(l))
    BY <1>0, <2>1, <2>2, HoldersFinite, FS_RemoveElement
  <2>4. \A l \in Lane : in_flight'[l] = IF l = m THEN in_flight[l] - 1 ELSE in_flight[l]
    BY <1>0, <1>2 DEF Finish, TypeOK
  <2>5. GaugeExact'
    BY <2>3, <2>4 DEF IInv, GaugeExact
  <2>6. PermitsConserved'
    BY <2>2 DEF IInv, PermitsConserved, Finish, Cap
  <2> QED BY <2>5, <2>6
<1> QED BY <1>1, <1>2

(* Release moves the permit back to the semaphore.                          *)
LEMMA ReleaseStep ==
  ASSUME IInv, NEW r \in Run, Release(r)
  PROVE  PermitsConserved' /\ GaugeExact'
<1> DEFINE m == LaneOf(r)
<1>0. TypeOK /\ m \in Lane /\ ~Bypasses(r)
  BY CapType DEF IInv, BypassOffLane, Release
<1>1. r \in Holders(m)
  BY <1>0 DEF Release, Holders
<1>2. \A l \in Lane : /\ Holders(l)' = IF l = m THEN Holders(l) \ {r} ELSE Holders(l)
                      /\ Counted(l)' = Counted(l)
  BY <1>0 DEF Release, Goto, TypeOK, Holders, Counted, Bypasses, LaneOf
<1>3. \A l \in Lane : Cardinality(Holders(l)') =
                        IF l = m THEN Cardinality(Holders(l)) - 1 ELSE Cardinality(Holders(l))
  BY <1>0, <1>1, <1>2, HoldersFinite, FS_RemoveElement
<1>4. \A l \in Lane : sem'[l] = IF l = m THEN sem[l] + 1 ELSE sem[l]
  BY <1>0 DEF Release, TypeOK
<1>5. PermitsConserved'
  <2> SUFFICES ASSUME NEW l \in Lane
               PROVE  sem'[l] + Cardinality(Holders(l)') = Cap[l]
    BY DEF PermitsConserved, Cap
  <2>1. sem[l] + Cardinality(Holders(l)) = Cap[l] /\ sem[l] \in Nat
    BY <1>0 DEF IInv, PermitsConserved, TypeOK
  <2>2. Cardinality(Holders(l)) \in Nat
    BY HoldersFinite
  <2> QED BY <1>3, <1>4, <2>1, <2>2
<1>6. GaugeExact'
  BY <1>2 DEF IInv, GaugeExact, Release
<1> QED BY <1>5, <1>6

(* The inductive step, one case per action.                                 *)
LEMMA NextIInv == IInv /\ [Next]_vars => IInv'
<1> SUFFICES ASSUME IInv, [Next]_vars PROVE IInv'
  OBVIOUS
<1>0. TypeOK /\ BypassOffLane
  BY DEF IInv
<1>t. TypeOK'
  BY TypeStep
<1>1. BypassOffLane'
  <2> USE <1>0, LanesAssumption DEF BypassOffLane, Bypasses, TypeOK, Goto
  <2>1. ASSUME NEW r \in Run, StartTurn(r) PROVE BypassOffLane'
    BY <2>1 DEF StartTurn
  <2>2. ASSUME NEW p \in Run, NEW ff \in BOOLEAN, Dispatch(p, ff) PROVE BypassOffLane'
    BY <2>2 DEF Dispatch
  <2>3. ASSUME NEW r \in Run, Progress(r) PROVE BypassOffLane'
    BY <2>3 DEF Progress, SkipCancelled, LaunchChild, Acquire, CountIn, Finished,
                Finish, Release, Record
  <2>4. CASE UNCHANGED vars
    BY <2>4 DEF vars
  <2> QED BY <2>1, <2>2, <2>3, <2>4 DEF Next
<1>2. PermitsConserved' /\ GaugeExact'
  <2>1. ASSUME NEW r \in Run, StartTurn(r) PROVE PermitsConserved' /\ GaugeExact'
    <3>1. Goto(r, "waiting") /\ pc[r] = "idle" /\ UNCHANGED <<sem, in_flight>>
      BY <2>1 DEF StartTurn
    <3> QED BY <1>0, <3>1, OffLaneMove, SameSets DEF PC
  <2>2. ASSUME NEW p \in Run, NEW ff \in BOOLEAN, Dispatch(p, ff)
        PROVE  PermitsConserved' /\ GaugeExact'
    <3>1. \A r \in Run : pc'[r] = pc[r] \/ (pc[r] = "idle" /\ pc'[r] = "new")
      BY <2>2 DEF Dispatch
    <3>2. \A l \in Lane : Holders(l)' = Holders(l) /\ Counted(l)' = Counted(l)
      BY <3>1 DEF Holders, Counted, Bypasses, LaneOf
    <3> QED BY <2>2, <3>2, SameSets DEF Dispatch
  <2>3. ASSUME NEW r \in Run, SkipCancelled(r) PROVE PermitsConserved' /\ GaugeExact'
    <3>1. Goto(r, "ended") /\ pc[r] = "new" /\ UNCHANGED <<sem, in_flight>>
      BY <2>3 DEF SkipCancelled
    <3> QED BY <1>0, <3>1, OffLaneMove, SameSets DEF PC
  <2>4. ASSUME NEW r \in Run, LaunchChild(r) PROVE PermitsConserved' /\ GaugeExact'
    <3>1. pc[r] = "new" /\ UNCHANGED <<sem, in_flight>>
      BY <2>4 DEF LaunchChild
    <3>2. CASE Bypasses(r)
      <4>1. Goto(r, "running")
        BY <2>4, <3>2 DEF LaunchChild
      <4> QED BY <1>0, <3>1, <3>2, <4>1, OffLaneMove, SameSets DEF PC
    <3>3. CASE ~Bypasses(r)
      <4>1. Goto(r, "waiting")
        BY <2>4, <3>3 DEF LaunchChild
      <4> QED BY <1>0, <3>1, <4>1, OffLaneMove, SameSets DEF PC
    <3> QED BY <3>2, <3>3
  <2>5. ASSUME NEW r \in Run, Record(r) PROVE PermitsConserved' /\ GaugeExact'
    <3>1. Goto(r, "ended") /\ pc[r] = "returned" /\ UNCHANGED <<sem, in_flight>>
      BY <2>5 DEF Record
    <3> QED BY <1>0, <3>1, OffLaneMove, SameSets DEF PC
  <2>6. CASE UNCHANGED vars
    BY <2>6 DEF vars, IInv, PermitsConserved, GaugeExact, Holders, Counted, Bypasses,
                LaneOf, Cap
  <2> QED
    BY <2>1, <2>2, <2>3, <2>4, <2>5, <2>6, AcquireStep, CountInStep, FinishStep, ReleaseStep
    DEF Next, Progress, Finished
<1> QED BY <1>1, <1>2, <1>t DEF IInv

LEMMA InductiveInvariant == Spec => []IInv
BY InitIInv, NextIInv, PTL DEF Spec

(* Type correctness of the lanes, for every call tree and every cap.        *)
THEOREM TypeCorrect == Spec => []TypeOK
<1>1. IInv => TypeOK
  BY DEF IInv
<1> QED BY <1>1, InductiveInvariant, PTL

(* No lane ever gains or loses a slot.                                      *)
THEOREM PermitsAreConserved == Spec => []PermitsConserved
<1>1. IInv => PermitsConserved
  BY DEF IInv
<1> QED BY <1>1, InductiveInvariant, PTL

(* slots_in_use() counts the executing runs exactly.                        *)
THEOREM GaugeIsExact == Spec => []GaugeExact
<1>1. IInv => GaugeExact
  BY DEF IInv
<1> QED BY <1>1, InductiveInvariant, PTL

(* The slots_in_use_before of every lane_acquire event is below the cap: an *)
(* acquiring run holds a permit that the gauge does not count yet, so the   *)
(* counted runs are a proper subset of the holders.                         *)
THEOREM AcquireSeesFreeSlot == Spec => []GaugeBelowCap
<1>1. IInv => GaugeBelowCap
  <2> SUFFICES ASSUME IInv, NEW r \in Run, pc[r] = "acquired"
               PROVE  in_flight[LaneOf(r)] < Cap[LaneOf(r)]
    BY DEF GaugeBelowCap
  <2> DEFINE m == LaneOf(r)
  <2>0. m \in Lane /\ ~Bypasses(r) /\ TypeOK
    BY CapType DEF IInv, BypassOffLane
  <2>1. r \in Holders(m) /\ r \notin Counted(m) /\ Counted(m) \in SUBSET Holders(m)
    BY <2>0 DEF Holders, Counted
  <2>2. /\ Cardinality(Counted(m)) <= Cardinality(Holders(m))
        /\ Cardinality(Counted(m)) # Cardinality(Holders(m))
    BY <2>0, <2>1, HoldersFinite, FS_Subset
  <2>3. /\ in_flight[m] = Cardinality(Counted(m))
        /\ sem[m] + Cardinality(Holders(m)) = Cap[m]
        /\ sem[m] \in Nat
    BY <2>0 DEF IInv, GaugeExact, PermitsConserved, TypeOK
  <2>4. Cardinality(Counted(m)) \in Nat /\ Cardinality(Holders(m)) \in Nat
    BY <2>0, HoldersFinite
  <2> QED BY <2>2, <2>3, <2>4
<1> QED BY <1>1, InductiveInvariant, PTL

-----------------------------------------------------------------------------
(* A skipped child never had a slot: it is over as soon as it is cancelled. *)
CancelledIsOver == \A r \in Run : outcome[r] = "cancelled" => pc[r] = "ended"

LEMMA CancelledInvariant == Spec => []CancelledIsOver
<1>1. Init => CancelledIsOver
  BY DEF Init, CancelledIsOver
<1>2. TypeOK /\ CancelledIsOver /\ [Next]_vars => CancelledIsOver'
  <2> SUFFICES ASSUME TypeOK, CancelledIsOver, [Next]_vars PROVE CancelledIsOver'
    OBVIOUS
  <2> USE DEF CancelledIsOver, TypeOK, Goto
  <2>1. ASSUME NEW r \in Run, StartTurn(r) PROVE CancelledIsOver'
    BY <2>1 DEF StartTurn
  <2>2. ASSUME NEW p \in Run, NEW ff \in BOOLEAN, Dispatch(p, ff) PROVE CancelledIsOver'
    BY <2>2 DEF Dispatch
  <2>3. ASSUME NEW r \in Run, Progress(r) PROVE CancelledIsOver'
    BY <2>3 DEF Progress, SkipCancelled, LaunchChild, Acquire, CountIn, Finished,
                Finish, Release, Record
  <2>4. CASE UNCHANGED vars
    BY <2>4 DEF vars
  <2> QED BY <2>1, <2>2, <2>3, <2>4 DEF Next
<1> QED BY <1>1, <1>2, TypeCorrect, PTL DEF Spec

(* The refinement mapping: the runs inside a lane, and those that left it.  *)
Inside == [l \in Lane |-> Holders(l)]
Gone == {r \in Run : ~Bypasses(r) /\ outcome[r] # "cancelled"
                      /\ pc[r] \in {"returned", "ended"}}

(* A step that keeps both sets is a stuttering step of the pool.            *)
LEMMA PoolStutter ==
  ASSUME \A l \in Lane : Holders(l)' = Holders(l), Gone' = Gone
  PROVE  UNCHANGED Pool!poolVars
<1>1. Inside' = Inside
  BY DEF Inside, Lane
<1> QED BY <1>1 DEF Pool!poolVars, Inside, Gone

(* The lanes implement the bounded pool: Acquire enters it, Release leaves  *)
(* it, and every other step stutters.                                       *)
THEOREM LanesImplementPool == Spec => ImplementsPool
<1>1. Init => Pool!Init
  BY DEF Init, Pool!Init, Holders
<1>2. IInv /\ CancelledIsOver /\ [Next]_vars => [Pool!Next]_(Pool!poolVars)
  <2> SUFFICES ASSUME IInv, CancelledIsOver, [Next]_vars
               PROVE  Pool!Next \/ UNCHANGED Pool!poolVars
    OBVIOUS
  <2>0. TypeOK /\ BypassOffLane
    BY DEF IInv
  <2>1. ASSUME NEW r \in Run, StartTurn(r) PROVE UNCHANGED Pool!poolVars
    <3>1. \A l \in Lane : Holders(l)' = Holders(l)
      BY <2>0, <2>1, OffLaneMove DEF StartTurn, PC
    <3>2. Gone' = Gone
      BY <2>0, <2>1 DEF StartTurn, Gone, Goto, TypeOK, Bypasses
    <3> QED BY <3>1, <3>2, PoolStutter
  <2>2. ASSUME NEW p \in Run, NEW ff \in BOOLEAN, Dispatch(p, ff)
        PROVE  UNCHANGED Pool!poolVars
    <3>1. \A r \in Run : pc'[r] = pc[r] \/ (pc[r] = "idle" /\ pc'[r] = "new")
      BY <2>2 DEF Dispatch
    <3>2. \A l \in Lane : Holders(l)' = Holders(l)
      BY <3>1 DEF Holders, Bypasses, LaneOf
    <3>3. Gone' = Gone
      BY <2>2, <3>1 DEF Dispatch, Gone, Bypasses
    <3> QED BY <3>2, <3>3, PoolStutter
  <2>3. ASSUME NEW r \in Run, SkipCancelled(r) PROVE UNCHANGED Pool!poolVars
    <3>1. \A l \in Lane : Holders(l)' = Holders(l)
      BY <2>0, <2>3, OffLaneMove DEF SkipCancelled, PC
    <3>2. Gone' = Gone
      BY <2>0, <2>3 DEF SkipCancelled, Gone, Goto, TypeOK, Bypasses
    <3> QED BY <3>1, <3>2, PoolStutter
  <2>4. ASSUME NEW r \in Run, LaunchChild(r) PROVE UNCHANGED Pool!poolVars
    <3>1. pc' = [pc EXCEPT ![r] = IF Bypasses(r) THEN "running" ELSE "waiting"]
          /\ pc[r] = "new"
      BY <2>4 DEF LaunchChild, Goto
    <3>2. \A l \in Lane : Holders(l)' = Holders(l)
      BY <2>0, <3>1 DEF Holders, Bypasses, LaneOf, TypeOK
    <3>3. Gone' = Gone
      BY <2>0, <2>4, <3>1 DEF LaunchChild, Gone, TypeOK, Bypasses
    <3> QED BY <3>2, <3>3, PoolStutter
  <2>5. ASSUME NEW r \in Run, Acquire(r) PROVE Pool!Next
    <3> DEFINE m == LaneOf(r)
    <3>1. m \in Lane /\ ~Bypasses(r)
      BY <2>0, <2>5, CapType DEF BypassOffLane, Acquire
    <3>2. Cardinality(Holders(m)) < Cap[m]
      <4>1. sem[m] > 0 /\ sem[m] \in Nat /\ sem[m] + Cardinality(Holders(m)) = Cap[m]
        BY <2>0, <2>5, <3>1 DEF Acquire, IInv, PermitsConserved, TypeOK
      <4>2. Cardinality(Holders(m)) \in Nat
        BY <3>1, HoldersFinite
      <4> QED BY <4>1, <4>2
    <3>3. r \notin Gone /\ \A k \in Lane : r \notin Holders(k)
      BY <2>5 DEF Acquire, Gone, Holders
    <3>4. \A l \in Lane : Holders(l)' = IF l = m THEN Holders(l) \cup {r} ELSE Holders(l)
      BY <2>0, <2>5, <3>1 DEF Acquire, Goto, TypeOK, Holders, Bypasses, LaneOf
    <3>5. Inside' = [Inside EXCEPT ![m] = @ \cup {r}]
      BY <3>1, <3>4 DEF Inside, Lane
    <3>6. Gone' = Gone
      BY <2>0, <2>5 DEF Acquire, Gone, Goto, TypeOK, Bypasses
    <3>7. Pool!Cardinality(Holders(m)) < Cap[m]
      BY <3>2, Zenon DEF Pool!Cardinality, Cardinality
    <3>8. Pool!Enter(m, r)
      BY <3>1, <3>7, <3>3, <3>5, <3>6 DEF Pool!Enter, Inside, Gone
    <3> QED BY <3>1, <3>8 DEF Pool!Next
  <2>6. ASSUME NEW r \in Run, CountIn(r) PROVE UNCHANGED Pool!poolVars
    <3>1. \A l \in Lane : Holders(l)' = Holders(l)
      BY <2>0, <2>6 DEF CountIn, Goto, TypeOK, Holders, Bypasses, LaneOf
    <3>2. Gone' = Gone
      BY <2>0, <2>6 DEF CountIn, Gone, Goto, TypeOK, Bypasses
    <3> QED BY <3>1, <3>2, PoolStutter
  <2>7. ASSUME NEW r \in Run, NEW how \in {"ok", "error"}, Finish(r, how)
        PROVE  UNCHANGED Pool!poolVars
    <3>1. /\ pc[r] = "running"
          /\ pc' = [pc EXCEPT ![r] = IF Bypasses(r) THEN "returned" ELSE "releasing"]
          /\ outcome' = [outcome EXCEPT ![r] = how]
      BY <2>7 DEF Finish, Goto
    <3>2. \A l \in Lane : Holders(l)' = Holders(l)
      BY <2>0, <3>1 DEF TypeOK, Holders, Bypasses, LaneOf
    <3>3. Gone' = Gone
      BY <2>0, <3>1 DEF Gone, TypeOK, Bypasses
    <3> QED BY <3>2, <3>3, PoolStutter
  <2>8. ASSUME NEW r \in Run, Release(r) PROVE Pool!Next
    <3> DEFINE m == LaneOf(r)
    <3>1. m \in Lane /\ ~Bypasses(r) /\ r \in Holders(m)
      BY <2>0, <2>8, CapType DEF BypassOffLane, Release, Holders
    <3>2. \A l \in Lane : Holders(l)' = IF l = m THEN Holders(l) \ {r} ELSE Holders(l)
      BY <2>0, <2>8, <3>1 DEF Release, Goto, TypeOK, Holders, Bypasses, LaneOf
    <3>3. Inside' = [Inside EXCEPT ![m] = @ \ {r}]
      BY <3>1, <3>2 DEF Inside, Lane
    <3>4. Gone' = Gone \cup {r}
      BY <2>0, <2>8, <3>1 DEF Release, Gone, Goto, TypeOK, Bypasses, CancelledIsOver
    <3>5. Pool!Leave(m, r)
      BY <3>1, <3>3, <3>4 DEF Pool!Leave, Inside, Gone
    <3> QED BY <3>1, <3>5 DEF Pool!Next
  <2>9. ASSUME NEW r \in Run, Record(r) PROVE UNCHANGED Pool!poolVars
    <3>1. \A l \in Lane : Holders(l)' = Holders(l)
      BY <2>0, <2>9, OffLaneMove DEF Record, PC
    <3>2. Gone' = Gone
      BY <2>0, <2>9 DEF Record, Gone, Goto, TypeOK, Bypasses
    <3> QED BY <3>1, <3>2, PoolStutter
  <2>10. CASE UNCHANGED vars
    BY <2>10, PoolStutter DEF vars, Holders, Gone, Bypasses, LaneOf
  <2> QED
    BY <2>1, <2>2, <2>3, <2>4, <2>5, <2>6, <2>7, <2>8, <2>9, <2>10
    DEF Next, Progress, Finished
<1> QED
  BY <1>1, <1>2, InductiveInvariant, CancelledInvariant, PTL
  DEF Spec, ImplementsPool, Pool!Spec
-----------------------------------------------------------------------------
(* Call trees. *)

(* A run has an outcome only once its run_fn is over, so no outcome is ever  *)
(* replaced by another.                                                     *)
OutcomeIsFinal ==
  \A r \in Run : outcome[r] # "none" => pc[r] \in {"releasing", "returned", "ended"}

(* A batch is cancelled only after one of its children failed.              *)
CancelHasCause ==
  \A p \in cancel : p \in fail_fast /\ \E s \in Children(p) : outcome[s] = "error"

(* What is inductive about call trees: CancelledOnlyAfterFailure needs the   *)
(* cause of every flag that is set, and that the cause stays.               *)
TreeInv ==
  TypeOK /\ NoOrphans /\ OutcomeIsFinal /\ CancelHasCause /\ CancelledOnlyAfterFailure

(* No run is its own parent: a child is one level deeper.                   *)
LEMMA NotOwnParent == \A r \in Run : Parent[r] # r
BY LanesAssumption

LEMMA InitTree == Init => TreeInv
<1> SUFFICES ASSUME Init PROVE TreeInv
  OBVIOUS
<1>1. TypeOK
  BY InitIInv DEF IInv
<1>2. NoOrphans
  BY LanesAssumption DEF Init, NoOrphans
<1>3. OutcomeIsFinal /\ CancelHasCause /\ CancelledOnlyAfterFailure
  BY DEF Init, OutcomeIsFinal, CancelHasCause, CancelledOnlyAfterFailure
<1> QED BY <1>1, <1>2, <1>3 DEF TreeInv

(* A tree stays joined: what starts below a run starts while it runs, and it *)
(* stops running only when nothing is at work below it.                     *)
LEMMA NoOrphansStep == TypeOK /\ NoOrphans /\ [Next]_vars => NoOrphans'
<1> SUFFICES ASSUME TypeOK, NoOrphans, [Next]_vars, NEW c \in Run, Parent[c] # NoRun,
                    pc'[c] \notin {"idle", "ended"}
             PROVE  pc'[Parent[c]] = "running"
  BY DEF NoOrphans
<1>0. Parent[c] \in Run /\ Parent[c] # c /\ Depth[c] # 0
  BY LanesAssumption, NotOwnParent
<1> USE <1>0 DEF TypeOK, NoOrphans, Goto
<1>1. ASSUME NEW r \in Run, StartTurn(r) PROVE pc'[Parent[c]] = "running"
  BY <1>1 DEF StartTurn
<1>2. ASSUME NEW p \in Run, NEW ff \in BOOLEAN, Dispatch(p, ff) PROVE pc'[Parent[c]] = "running"
  <2>1. CASE c \in Children(p)
    <3>1. Parent[c] = p /\ p \notin Children(p)
      BY <2>1, NotOwnParent DEF Children
    <3> QED BY <1>2, <3>1 DEF Dispatch
  <2>2. CASE c \notin Children(p)
    <3>1. pc[Parent[c]] = "running"
      BY <1>2, <2>2 DEF Dispatch
    <3>2. Parent[c] \notin Children(p)
      BY <1>2, <3>1 DEF Dispatch
    <3> QED BY <1>2, <3>1, <3>2 DEF Dispatch
  <2> QED BY <2>1, <2>2
<1>3. ASSUME NEW r \in Run, Progress(r) PROVE pc'[Parent[c]] = "running"
  <2>1. CASE SkipCancelled(r)
    BY <2>1 DEF SkipCancelled
  <2>2. CASE LaunchChild(r)
    BY <2>2 DEF LaunchChild
  <2>3. CASE Acquire(r)
    BY <2>3 DEF Acquire
  <2>4. CASE CountIn(r)
    BY <2>4 DEF CountIn
  <2>5. ASSUME NEW how \in {"ok", "error"}, Finish(r, how) PROVE pc'[Parent[c]] = "running"
    <3>1. pc[r] = "running" /\ Joined(r) /\ pc' = [pc EXCEPT ![r] = IF Bypasses(r) THEN "returned" ELSE "releasing"]
      BY <2>5 DEF Finish
    <3>2. CASE c = r
      BY <3>1, <3>2
    <3>3. CASE c # r
      <4>1. pc[c] \notin {"idle", "ended"}
        BY <3>1, <3>3
      <4>2. Parent[c] # r
        BY <3>1, <4>1 DEF Joined, Children
      <4> QED BY <3>1, <4>1, <4>2
    <3> QED BY <3>2, <3>3
  <2>6. CASE Release(r)
    BY <2>6 DEF Release
  <2>7. CASE Record(r)
    BY <2>7 DEF Record
  <2> QED BY <1>3, <2>1, <2>2, <2>3, <2>4, <2>5, <2>6, <2>7 DEF Progress, Finished
<1>4. CASE UNCHANGED vars
  BY <1>4 DEF vars
<1> QED BY <1>1, <1>2, <1>3, <1>4 DEF Next

LEMMA OutcomeStep == TypeOK /\ OutcomeIsFinal /\ [Next]_vars => OutcomeIsFinal'
<1> SUFFICES ASSUME TypeOK, OutcomeIsFinal, [Next]_vars PROVE OutcomeIsFinal'
  OBVIOUS
<1> USE DEF TypeOK, OutcomeIsFinal, Goto
<1>1. ASSUME NEW r \in Run, StartTurn(r) PROVE OutcomeIsFinal'
  BY <1>1 DEF StartTurn
<1>2. ASSUME NEW p \in Run, NEW ff \in BOOLEAN, Dispatch(p, ff) PROVE OutcomeIsFinal'
  BY <1>2 DEF Dispatch
<1>3. ASSUME NEW r \in Run, SkipCancelled(r) PROVE OutcomeIsFinal'
  BY <1>3 DEF SkipCancelled
<1>4. ASSUME NEW r \in Run, LaunchChild(r) \/ Acquire(r) \/ CountIn(r) PROVE OutcomeIsFinal'
  BY <1>4 DEF LaunchChild, Acquire, CountIn
<1>5. ASSUME NEW r \in Run, Finished(r) PROVE OutcomeIsFinal'
  BY <1>5 DEF Finished, Finish
<1>6. ASSUME NEW r \in Run, Release(r) \/ Record(r) PROVE OutcomeIsFinal'
  BY <1>6 DEF Release, Record
<1>7. CASE UNCHANGED vars
  BY <1>7 DEF vars
<1> QED BY <1>1, <1>2, <1>3, <1>4, <1>5, <1>6, <1>7 DEF Next, Progress

(* A failure is never taken back, and neither is a flag.                    *)
LEMMA FailureStays ==
  TypeOK /\ OutcomeIsFinal /\ [Next]_vars =>
    /\ \A r \in Run : outcome[r] = "error" => outcome'[r] = "error"
    /\ fail_fast \subseteq fail_fast'
<1> SUFFICES ASSUME TypeOK, OutcomeIsFinal, [Next]_vars
             PROVE  /\ \A r \in Run : outcome[r] = "error" => outcome'[r] = "error"
                    /\ fail_fast \subseteq fail_fast'
  OBVIOUS
<1> USE DEF TypeOK, OutcomeIsFinal
<1>1. ASSUME NEW r \in Run, Progress(r)
      PROVE  /\ \A s \in Run : outcome[s] = "error" => outcome'[s] = "error"
             /\ fail_fast \subseteq fail_fast'
  BY <1>1 DEF Progress, SkipCancelled, LaunchChild, Acquire, CountIn, Finished, Finish, Release, Record
<1> QED BY <1>1 DEF Next, StartTurn, Dispatch, vars

LEMMA CauseStep == TreeInv /\ [Next]_vars => CancelHasCause' /\ CancelledOnlyAfterFailure'
<1> SUFFICES ASSUME TreeInv, [Next]_vars PROVE CancelHasCause' /\ CancelledOnlyAfterFailure'
  OBVIOUS
<1>0. TypeOK /\ OutcomeIsFinal /\ CancelHasCause /\ CancelledOnlyAfterFailure
  BY DEF TreeInv
<1>1. /\ \A r \in Run : outcome[r] = "error" => outcome'[r] = "error"
      /\ fail_fast \subseteq fail_fast'
  BY <1>0, FailureStays
<1>2. \A p \in cancel' : p \in cancel \/ (/\ p \in fail_fast
                                           /\ \E s \in Children(p) : outcome[s] = "error")
  <2>1. ASSUME NEW r \in Run, Record(r), NEW p \in cancel', p \notin cancel
        PROVE  p \in fail_fast /\ \E s \in Children(p) : outcome[s] = "error"
    <3>1. p = Parent[r] /\ outcome[r] = "error" /\ p \in fail_fast
      BY <2>1 DEF Record
    <3>2. r \in Children(p)
      BY <3>1 DEF Children
    <3> QED BY <3>1, <3>2
  <2>2. (\E r \in Run : Record(r)) \/ cancel' = cancel
    BY DEF Next, Progress, StartTurn, Dispatch, SkipCancelled, LaunchChild, Acquire, CountIn,
           Finished, Finish, Release, vars
  <2> QED BY <2>1, <2>2
<1>3. CancelHasCause'
  BY <1>0, <1>1, <1>2 DEF CancelHasCause, Children
<1>4. \A r \in Run : outcome'[r] = "cancelled" =>
         outcome[r] = "cancelled" \/ (Parent[r] \in fail_fast /\ Parent[r] \in cancel)
  <2>1. ASSUME NEW r \in Run, SkipCancelled(r), NEW s \in Run, outcome'[s] = "cancelled"
        PROVE  outcome[s] = "cancelled" \/ (Parent[s] \in fail_fast /\ Parent[s] \in cancel)
    BY <1>0, <2>1 DEF SkipCancelled, TypeOK
  <2>2. ASSUME NEW r \in Run, NEW how \in {"ok", "error"}, Finish(r, how),
               NEW s \in Run, outcome'[s] = "cancelled"
        PROVE  outcome[s] = "cancelled"
    BY <1>0, <2>2 DEF Finish, TypeOK
  <2>3. \/ \E r \in Run : SkipCancelled(r)
        \/ \E r \in Run, how \in {"ok", "error"} : Finish(r, how)
        \/ outcome' = outcome
    BY DEF Next, Progress, StartTurn, Dispatch, LaunchChild, Acquire, CountIn,
           Finished, Release, Record, vars
  <2> QED BY <2>1, <2>2, <2>3
<1>5. CancelledOnlyAfterFailure'
  BY <1>0, <1>1, <1>4 DEF CancelledOnlyAfterFailure, CancelHasCause, Children
<1> QED BY <1>3, <1>5

LEMMA TreeInvariant == Spec => []TreeInv
<1>1. IInv /\ TreeInv /\ [Next]_vars => TreeInv'
  BY TypeStep, NoOrphansStep, OutcomeStep, CauseStep DEF TreeInv
<1> QED BY <1>1, InitTree, InductiveInvariant, PTL DEF Spec

(* No child is at work below a run that has given its slot back.            *)
THEOREM TreesAreJoined == Spec => []NoOrphans
<1>1. TreeInv => NoOrphans
  BY DEF TreeInv
<1> QED BY <1>1, TreeInvariant, PTL

(* A cancelled child has a failed sibling in a batch that asked for it.     *)
THEOREM CancelledForAReason == Spec => []CancelledOnlyAfterFailure
<1>1. TreeInv => CancelledOnlyAfterFailure
  BY DEF TreeInv
<1> QED BY <1>1, TreeInvariant, PTL

(* All of LanesSound, for every call tree and every cap.                    *)
THEOREM LanesAreSound == Spec => []LanesSound
<1>1. TypeOK /\ PermitsConserved /\ GaugeExact /\ GaugeBelowCap /\ NoOrphans
        /\ CancelledOnlyAfterFailure => LanesSound
  BY DEF LanesSound
<1> QED
  BY <1>1, TypeCorrect, PermitsAreConserved, GaugeIsExact, AcquireSeesFreeSlot, TreesAreJoined,
     CancelledForAReason, PTL
=============================================================================

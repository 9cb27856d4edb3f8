---- MODULE WorkProofs ----
(***************************************************************************)
(* Proofs about the components of MCHarness, for every value of their       *)
(* constants.  Each section is about one component: the variables are        *)
(* called by the names its module gives them, after the name of its           *)
(* instance; the inductive invariant IInv is defined in that module.          *)
(***************************************************************************)
EXTENDS MCWork, FiniteSetTheorems, WellFoundedInduction, TLAPS

(* Some number of a set of numbers is the lowest.                              *)
LEMMA HasLowest ==
  ASSUME NEW D \in SUBSET Nat, D # {}
  PROVE  \E d \in D : \A e \in D : d <= e
<1> DEFINE R == {ss \in Nat \X Nat : ss[1] < ss[2]}
<1>1. IsWellFoundedOn(R, Nat)
  BY Zenon, NatLessThanWellFounded DEF OpToRel
<1>2. PICK d \in D : \A e \in D : ~(<<e, d>> \in R)
  <2> HIDE DEF R
  <2> QED BY <1>1, WFMin
<1>3. \A x, y \in Nat : x < y => <<x, y>> \in R
  OBVIOUS
<1>4. ASSUME NEW e \in D PROVE d <= e
  <2>1. d \in Nat /\ e \in Nat /\ ~(e < d)
    BY <1>2, <1>3
  <2> QED BY <2>1
<1> QED BY <1>4

-----------------------------------------------------------------------------
(* PlanRunState. *)
Plan_plan == x1
Plan_state == x2
Plan_lock == x3
Plan_pc == x4
Plan_view == x5
Plan_requests == x6
Plan_named == x7
Plan_acted == x8
USE DEF Plan_plan, Plan_state, Plan_lock, Plan_pc, Plan_view, Plan_requests, Plan_named, Plan_acted

(* Run states as values.                                                    *)

LEMMA PlanRequestType ==
  /\ Plan!NoRequest \in Plan!Request
  /\ \A i \in 0 .. PlanMaxRequests, k \in 0 .. PlanPhases - 1, g \in BOOLEAN :
       [id |-> i, phase |-> k, granted |-> g] \in Plan!Request
BY PlanAssumption DEF Plan!NoRequest, Plan!Request

LEMMA PlanFreshType == Plan!Fresh \in Plan!RunState
BY PlanRequestType, PlanAssumption DEF Plan!Fresh, Plan!RunState

LEMMA PlanFields ==
  ASSUME NEW v \in Plan!RunState
  PROVE  /\ v.status \in {"active", "awaiting_approval", "completed"}
         /\ v.phase \in 0 .. PlanPhases /\ v.done \in SUBSET (0 .. PlanPhases - 1)
         /\ v.pending \in Plan!Request /\ v.approvals \in SUBSET Plan!Request
         /\ v.touched \in SUBSET PlanSession
         /\ v.pending.id \in 0 .. PlanMaxRequests /\ v.pending.phase \in 0 .. PlanPhases - 1
         /\ v.pending.granted \in BOOLEAN
BY DEF Plan!RunState, Plan!Request

LEMMA PlanChangedType ==
  ASSUME NEW v \in Plan!RunState, NEW r \in Plan!Request, NEW t \in SUBSET PlanSession,
         NEW st \in {"active", "awaiting_approval", "completed"}
  PROVE  Plan!Changed(v, st, r, t) \in Plan!RunState
BY PlanFields DEF Plan!Changed, Plan!RunState

LEMMA PlanAdvancedType ==
  ASSUME NEW v \in Plan!RunState, NEW s \in PlanSession, v.phase < PlanPhases
  PROVE  Plan!Advanced(v, s) \in Plan!RunState
<1>1. /\ v.phase + 1 \in 0 .. PlanPhases
      /\ v.done \union {v.phase} \in SUBSET (0 .. PlanPhases - 1)
  BY PlanFields, PlanAssumption
<1>2. (IF v.phase \in PlanNeedsApproval THEN Plan!NoRequest ELSE v.pending) \in Plan!Request
  BY PlanFields, PlanRequestType
<1>3. v.approvals \union (IF v.phase \in PlanNeedsApproval THEN {v.pending} ELSE {})
        \in SUBSET Plan!Request
  BY PlanFields
<1>4. v.touched \union {s} \in SUBSET PlanSession
  BY PlanFields
<1> QED BY <1>1, <1>2, <1>3, <1>4 DEF Plan!Advanced, Plan!RunState

(* What each change keeps true of a run state.                              *)

LEMMA PlanGoodFresh ==
  ASSUME NEW made, NEW given
  PROVE  Plan!Good(Plan!Fresh, made, given)
BY PlanAssumption
   DEF Plan!Good, Plan!Progress, Plan!PendingIsReal, Plan!DoneWereGranted, Plan!Pending, Plan!Fresh,
   Plan!NoRequest

LEMMA PlanGoodGrows ==
  ASSUME NEW v \in Plan!RunState, NEW made \in Seq(0 .. PlanPhases - 1), NEW k \in 0 .. PlanPhases - 1,
         NEW given, NEW more, given \subseteq more, Plan!Good(v, made, given)
  PROVE  Plan!Good(v, made, more) /\ Plan!Good(v, Append(made, k), more)
<1>1. \A i \in 1 .. Len(made) : /\ i \in 1 .. Len(Append(made, k))
                                /\ Append(made, k)[i] = made[i]
  OBVIOUS
<1>2. Plan!PendingIsReal(v, made, more) /\ Plan!PendingIsReal(v, Append(made, k), more)
  BY <1>1 DEF Plan!Good, Plan!PendingIsReal
<1>3. Plan!DoneWereGranted(v, made, more) /\ Plan!DoneWereGranted(v, Append(made, k), more)
  BY <1>1 DEF Plan!Good, Plan!DoneWereGranted
<1> QED BY <1>2, <1>3 DEF Plan!Good

(* A change that keeps phase and approvals needs to look at the request     *)
(* only.                                                                    *)
LEMMA PlanGoodChanged ==
  ASSUME NEW v \in Plan!RunState, NEW made, NEW given, NEW st, NEW r, NEW t,
         Plan!Good(v, made, given),
         st = "completed" <=> v.phase = PlanPhases,
         st = "awaiting_approval" <=> r.id # 0 /\ r.phase = v.phase,
         ~(r.id # 0 /\ r.phase = v.phase) => r = Plan!NoRequest,
         r.id # 0 /\ r.phase = v.phase =>
           /\ v.phase \in PlanNeedsApproval
           /\ r.id \in 1 .. Len(made) /\ made[r.id] = v.phase
           /\ r.granted => r.id \in given
  PROVE  Plan!Good(Plan!Changed(v, st, r, t), made, given)
<1> DEFINE w == Plan!Changed(v, st, r, t)
<1>1. /\ w.status = st /\ w.phase = v.phase /\ w.done = v.done
      /\ w.pending = r /\ w.approvals = v.approvals
  BY DEF Plan!Changed
<1>2. Plan!Progress(w)
  BY <1>1 DEF Plan!Good, Plan!Progress, Plan!Pending
<1>3. Plan!PendingIsReal(w, made, given)
  BY <1>1 DEF Plan!PendingIsReal, Plan!Pending
<1>4. Plan!DoneWereGranted(w, made, given)
  BY <1>1 DEF Plan!Good, Plan!DoneWereGranted
<1> QED BY <1>2, <1>3, <1>4 DEF Plan!Good

LEMMA PlanGoodFailed ==
  ASSUME NEW v \in Plan!RunState, NEW made, NEW given, NEW s, Plan!Good(v, made, given)
  PROVE  Plan!Good(Plan!Failed(v, s), made, given)
BY PlanGoodChanged DEF Plan!Failed, Plan!Good, Plan!Progress, Plan!PendingIsReal, Plan!Pending

LEMMA PlanGoodAsked ==
  ASSUME NEW v \in Plan!RunState, NEW made, NEW given, NEW s, NEW r,
         Plan!Good(v, made, given), v.phase \in PlanNeedsApproval, r.id # 0, r.phase = v.phase,
         r.id \in 1 .. Len(made), made[r.id] = v.phase, r.granted => r.id \in given
  PROVE  Plan!Good(Plan!Asked(v, s, r), made, given)
<1>1. v.phase # PlanPhases
  BY PlanFields, PlanAssumption
<1> QED BY PlanGoodChanged, <1>1 DEF Plan!Asked

LEMMA PlanGoodGranted ==
  ASSUME NEW v \in Plan!RunState, NEW made, NEW given,
         Plan!Good(v, made, given), Plan!Pending(v), v.phase \in PlanNeedsApproval,
         v.pending.id \in given
  PROVE  Plan!Good(Plan!GrantedNow(v), made, given)
<1> DEFINE r == [id |-> v.pending.id, phase |-> v.pending.phase, granted |-> TRUE]
<1>1. r.id # 0 /\ r.phase = v.phase
  BY DEF Plan!Pending
<1>2. r.id \in 1 .. Len(made) /\ made[r.id] = v.phase
  BY DEF Plan!Good, Plan!PendingIsReal
<1>3. v.phase # PlanPhases
  BY PlanFields, PlanAssumption
<1> QED BY PlanGoodChanged, <1>1, <1>2, <1>3 DEF Plan!GrantedNow

LEMMA PlanGoodAdvanced ==
  ASSUME NEW v \in Plan!RunState, NEW made, NEW given, NEW s,
         Plan!Good(v, made, given), v.phase < PlanPhases, Plan!Approved(v)
  PROVE  Plan!Good(Plan!Advanced(v, s), made, given)
<1> DEFINE w == Plan!Advanced(v, s)
<1>1. /\ w.status = IF v.phase + 1 = PlanPhases THEN "completed" ELSE "active"
      /\ w.phase = v.phase + 1 /\ w.done = v.done \union {v.phase}
      /\ w.pending = IF v.phase \in PlanNeedsApproval THEN Plan!NoRequest ELSE v.pending
      /\ w.approvals = v.approvals
                       \union (IF v.phase \in PlanNeedsApproval THEN {v.pending} ELSE {})
  BY DEF Plan!Advanced
<1>2. v.phase \in 0 .. PlanPhases /\ v.phase \in Nat /\ PlanPhases \in Nat /\ 0 \notin {PlanPhases}
  BY PlanFields, PlanAssumption
<1>3. v.phase \notin PlanNeedsApproval => v.pending = Plan!NoRequest
  BY DEF Plan!Good, Plan!Progress, Plan!PendingIsReal
<1>4. w.pending = Plan!NoRequest
  BY <1>1, <1>3
<1>5. ~Plan!Pending(w)
  BY <1>4 DEF Plan!Pending, Plan!NoRequest
<1>6. w.done = 0 .. w.phase - 1
  <2>1. v.done = 0 .. v.phase - 1
    BY DEF Plan!Good, Plan!Progress
  <2> QED BY <1>1, <1>2, <2>1
<1>7. Plan!Progress(w)
  BY <1>1, <1>2, <1>4, <1>5, <1>6 DEF Plan!Progress
<1>8. Plan!DoneWereGranted(w, made, given)
  <2> SUFFICES ASSUME NEW k \in w.done \intersect PlanNeedsApproval
               PROVE  \E r \in w.approvals :
                        /\ r.phase = k /\ r.id \in given
                        /\ r.id \in 1 .. Len(made) /\ made[r.id] = k
    BY DEF Plan!DoneWereGranted
  <2>1. CASE k = v.phase
    <3>1. v.pending \in w.approvals
      BY <1>1, <2>1
    <3>2. Plan!Pending(v) /\ v.pending.granted
      BY <2>1 DEF Plan!Approved, Plan!Granted
    <3>3. /\ v.pending.phase = k /\ v.pending.id \in given
          /\ v.pending.id \in 1 .. Len(made) /\ made[v.pending.id] = k
      BY <2>1, <3>2 DEF Plan!Pending, Plan!Good, Plan!PendingIsReal
    <3> QED BY <3>1, <3>3
  <2>2. CASE k # v.phase
    BY <1>1, <2>2 DEF Plan!Good, Plan!DoneWereGranted
  <2> QED BY <2>1, <2>2
<1> QED BY <1>5, <1>7, <1>8 DEF Plan!Good, Plan!PendingIsReal

(* The initial states.                                                      *)
LEMMA PlanInitIInv == Plan!Init => Plan!IInv
<1> SUFFICES ASSUME Plan!Init PROVE Plan!IInv
  OBVIOUS
<1>1. Plan!TypeOK
  BY PlanFreshType, PlanAssumption DEF Plan!Init, Plan!TypeOK
<1>2. Plan!Owner /\ Plan!Empty
  BY PlanAssumption DEF Plan!Init, Plan!Owner, Plan!Empty
<1>3. Plan!Sound
  BY PlanGoodFresh DEF Plan!Init, Plan!Sound, Plan!Saving
<1>4. Plan!Sessions
  BY DEF Plan!Init, Plan!Sessions, Plan!Saving, Plan!Fresh
<1>5. Plan!Grants
  BY DEF Plan!Init, Plan!Grants, Plan!Saving, Plan!RememberedAll
<1> QED BY <1>1, <1>2, <1>3, <1>4, <1>5 DEF Plan!IInv

(* The new request fits the bound and extends the history.                  *)
LEMMA PlanNewRequest ==
  ASSUME Plan!TypeOK, NEW s \in PlanSession, Plan_pc[s] = "loaded", Len(Plan_requests) < PlanMaxRequests,
         Plan_view[s].phase \in PlanNeedsApproval,
         NEW r, r = [id |-> Len(Plan_requests) + 1, phase |-> Plan_view[s].phase, granted |-> FALSE],
         NEW made, made = Append(Plan_requests, Plan_view[s].phase)
  PROVE  /\ r \in Plan!Request /\ made \in Seq(0 .. PlanPhases - 1)
         /\ Len(made) = Len(Plan_requests) + 1 /\ Len(made) <= PlanMaxRequests
         /\ r.id \in 1 .. Len(made) /\ made[r.id] = Plan_view[s].phase
         /\ r.phase = Plan_view[s].phase /\ ~r.granted /\ r.id # 0
<1>1. Plan_view[s].phase \in 0 .. PlanPhases - 1 /\ Plan_requests \in Seq(0 .. PlanPhases - 1)
  BY PlanAssumption DEF Plan!TypeOK
<1>2. Len(Plan_requests) \in Nat /\ Len(Plan_requests) + 1 \in 0 .. PlanMaxRequests
  BY <1>1, PlanAssumption
<1>3. r \in Plan!Request
  BY <1>1, <1>2, PlanRequestType
<1>4. /\ made \in Seq(0 .. PlanPhases - 1) /\ Len(made) = Len(Plan_requests) + 1
      /\ made[Len(Plan_requests) + 1] = Plan_view[s].phase
  BY <1>1
<1> QED BY <1>2, <1>3, <1>4

LEMMA PlanTypeStep == Plan!TypeOK /\ Plan!Owner /\ [Plan!Next]_Plan!vars => Plan!TypeOK'
<1> SUFFICES ASSUME Plan!TypeOK, Plan!Owner, [Plan!Next]_Plan!vars PROVE Plan!TypeOK'
  OBVIOUS
<1> USE DEF Plan!TypeOK
<1>1. ASSUME NEW s \in PlanSession, Plan!Create(s) PROVE Plan!TypeOK'
  BY <1>1, PlanFreshType DEF Plan!Create, Plan!Enter
<1>2. ASSUME NEW s \in PlanSession, Plan!Load(s) PROVE Plan!TypeOK'
  BY <1>2 DEF Plan!Load, Plan!Enter
<1>3. ASSUME NEW s \in PlanSession, Plan!VerifyFails(s) PROVE Plan!TypeOK'
  BY <1>3 DEF Plan!VerifyFails
<1>4. ASSUME NEW s \in PlanSession, Plan!Fail(s) PROVE Plan!TypeOK'
  <2>1. Plan_view[s].touched \union {s} \in SUBSET PlanSession
    BY PlanFields
  <2>2. Plan!Failed(Plan_view[s], s) \in Plan!RunState
    BY <2>1, PlanFields, PlanChangedType DEF Plan!Failed
  <2> QED BY <1>4, <2>2 DEF Plan!Fail, Plan!Change
<1>5. ASSUME NEW s \in PlanSession, Plan!AskApproval(s) PROVE Plan!TypeOK'
  <2>1. Plan_view[s].touched \union {s} \in SUBSET PlanSession /\ Plan_view[s].phase \in PlanNeedsApproval
    BY <1>5, PlanFields DEF Plan!AskApproval, Plan!Approved
  <2>2. ASSUME NEW r \in Plan!Request PROVE Plan!Asked(Plan_view[s], s, r) \in Plan!RunState
    BY <2>1, <2>2, PlanChangedType DEF Plan!Asked
  <2>3. CASE Plan!Change(s, Plan!Asked(Plan_view[s], s, Plan_view[s].pending)) /\ Plan_requests' = Plan_requests
    <3>1. Plan!Asked(Plan_view[s], s, Plan_view[s].pending) \in Plan!RunState
      BY <2>2, PlanFields
    <3> QED BY <1>5, <2>3, <3>1 DEF Plan!AskApproval, Plan!Change
  <2> DEFINE new == [id |-> Len(Plan_requests) + 1, phase |-> Plan_view[s].phase, granted |-> FALSE]
  <2>4. CASE /\ Len(Plan_requests) < PlanMaxRequests
             /\ Plan!Change(s, Plan!Asked(Plan_view[s], s, new))
             /\ Plan_requests' = Append(Plan_requests, Plan_view[s].phase)
    <3>1. /\ new \in Plan!Request /\ Plan_requests' \in Seq(0 .. PlanPhases - 1)
          /\ Len(Plan_requests') = Len(Plan_requests) + 1 /\ Len(Plan_requests') <= PlanMaxRequests
      BY <1>5, <2>1, <2>4, PlanNewRequest DEF Plan!AskApproval
    <3>2. Plan!Asked(Plan_view[s], s, new) \in Plan!RunState
      BY <2>2, <3>1
    <3>3. 1 .. Len(Plan_requests) \subseteq 1 .. Len(Plan_requests')
      BY <3>1
    <3> HIDE DEF new
    <3> QED BY <1>5, <2>4, <3>1, <3>2, <3>3 DEF Plan!AskApproval, Plan!Change
  <2> QED BY <1>5, <2>3, <2>4 DEF Plan!AskApproval
<1>6. ASSUME NEW s \in PlanSession, Plan!Complete(s) PROVE Plan!TypeOK'
  <2>1. Plan_view[s].phase < PlanPhases
    BY <1>6 DEF Plan!Complete, Plan!Owner, Plan!Open
  <2>2. Plan!Advanced(Plan_view[s], s) \in Plan!RunState
    BY <2>1, PlanAdvancedType
  <2> QED BY <1>6, <2>2 DEF Plan!Complete, Plan!Change
<1>7. ASSUME NEW s \in PlanSession, NEW i \in 1 .. Len(Plan_requests), Plan!Grant(s, i) PROVE Plan!TypeOK'
  <2>1. [id |-> Plan_state.pending.id, phase |-> Plan_state.pending.phase, granted |-> TRUE] \in Plan!Request
    BY PlanFields, PlanRequestType
  <2>2. Plan!GrantedNow(Plan_state) \in Plan!RunState
    BY <2>1, PlanFields, PlanChangedType DEF Plan!GrantedNow
  <2> QED BY <1>7, <2>2 DEF Plan!Grant, Plan!Enter
<1>8. ASSUME NEW s \in PlanSession, Plan!Truncate(s) PROVE Plan!TypeOK'
  BY <1>8 DEF Plan!Truncate
<1>9. ASSUME NEW s \in PlanSession, Plan!Write(s) PROVE Plan!TypeOK'
  BY <1>9 DEF Plan!Write
<1>10. ASSUME NEW s \in PlanSession, Plan!Crash(s) PROVE Plan!TypeOK'
  BY <1>10 DEF Plan!Crash
<1>11. CASE UNCHANGED Plan!vars
  BY <1>11 DEF Plan!vars
<1> QED BY <1>1, <1>2, <1>3, <1>4, <1>5, <1>6, <1>7, <1>8, <1>9, <1>10, <1>11 DEF Plan!Next

(* One thread at a time is under the lock, with what was saved last.        *)
LEMMA PlanOwnerStep == Plan!TypeOK /\ Plan!Owner /\ Plan!Empty /\ [Plan!Next]_Plan!vars => Plan!Owner' /\ Plan!Empty'
<1> SUFFICES ASSUME Plan!TypeOK, Plan!Owner, Plan!Empty, [Plan!Next]_Plan!vars PROVE Plan!Owner' /\ Plan!Empty'
  OBVIOUS
<1> USE PlanAssumption DEF Plan!TypeOK, Plan!Owner, Plan!Empty
<1>1. ASSUME NEW s \in PlanSession, Plan!Create(s) PROVE Plan!Owner' /\ Plan!Empty'
  BY <1>1 DEF Plan!Create, Plan!Enter
<1>2. ASSUME NEW s \in PlanSession, Plan!Load(s) PROVE Plan!Owner' /\ Plan!Empty'
  BY <1>2 DEF Plan!Load, Plan!Enter
<1>3. ASSUME NEW s \in PlanSession, Plan!VerifyFails(s) PROVE Plan!Owner' /\ Plan!Empty'
  BY <1>3 DEF Plan!VerifyFails
<1>4. ASSUME NEW s \in PlanSession, Plan!Fail(s) PROVE Plan!Owner' /\ Plan!Empty'
  BY <1>4 DEF Plan!Fail, Plan!Change
<1>5. ASSUME NEW s \in PlanSession, Plan!AskApproval(s) PROVE Plan!Owner' /\ Plan!Empty'
  BY <1>5 DEF Plan!AskApproval, Plan!Change
<1>6. ASSUME NEW s \in PlanSession, Plan!Complete(s) PROVE Plan!Owner' /\ Plan!Empty'
  BY <1>6 DEF Plan!Complete, Plan!Change
<1>7. ASSUME NEW s \in PlanSession, NEW i \in 1 .. Len(Plan_requests), Plan!Grant(s, i) PROVE Plan!Owner' /\ Plan!Empty'
  BY <1>7 DEF Plan!Grant, Plan!Enter
<1>8. ASSUME NEW s \in PlanSession, Plan!Truncate(s) PROVE Plan!Owner' /\ Plan!Empty'
  BY <1>8 DEF Plan!Truncate
<1>9. ASSUME NEW s \in PlanSession, Plan!Write(s) PROVE Plan!Owner' /\ Plan!Empty'
  BY <1>9 DEF Plan!Write
<1>10. ASSUME NEW s \in PlanSession, Plan!Crash(s) PROVE Plan!Owner' /\ Plan!Empty'
  BY <1>10 DEF Plan!Crash
<1>11. CASE UNCHANGED Plan!vars
  BY <1>11 DEF Plan!vars
<1> QED BY <1>1, <1>2, <1>3, <1>4, <1>5, <1>6, <1>7, <1>8, <1>9, <1>10, <1>11 DEF Plan!Next

(* What is on disk, and what is about to be, is a good run state.           *)
LEMMA PlanSoundStep == Plan!TypeOK /\ Plan!Owner /\ Plan!Empty /\ Plan!Sound /\ [Plan!Next]_Plan!vars => Plan!Sound'
<1> SUFFICES ASSUME Plan!TypeOK, Plan!Owner, Plan!Empty, Plan!Sound, [Plan!Next]_Plan!vars PROVE Plan!Sound'
  OBVIOUS
<1> USE PlanAssumption DEF Plan!TypeOK, Plan!Owner, Plan!Sound, Plan!Saving
<1>A. ASSUME NEW s \in PlanSession, NEW v, Plan!Good(v, Plan_requests, Plan_named), Plan_state' = Plan_state,
             Plan_requests' = Plan_requests, Plan_named' = Plan_named,
             Plan_view' = [Plan_view EXCEPT ![s] = v], Plan_pc' = [Plan_pc EXCEPT ![s] = "saving"]
      PROVE  Plan!Sound'
  BY <1>A
<1>1. ASSUME NEW s \in PlanSession, Plan!Create(s) PROVE Plan!Sound'
  BY <1>A, <1>1, PlanGoodFresh DEF Plan!Create, Plan!Enter
<1>2. ASSUME NEW s \in PlanSession, Plan!Load(s) PROVE Plan!Sound'
  BY <1>2 DEF Plan!Load, Plan!Enter
<1>3. ASSUME NEW s \in PlanSession, Plan!VerifyFails(s) PROVE Plan!Sound'
  BY <1>3 DEF Plan!VerifyFails
<1>4. ASSUME NEW s \in PlanSession, Plan!Fail(s) PROVE Plan!Sound'
  <2>1. Plan!Good(Plan!Failed(Plan_view[s], s), Plan_requests, Plan_named)
    BY <1>4, PlanGoodFailed DEF Plan!Fail
  <2> QED BY <1>A, <1>4, <2>1 DEF Plan!Fail, Plan!Change
<1>5. ASSUME NEW s \in PlanSession, Plan!AskApproval(s) PROVE Plan!Sound'
  <2>1. /\ Plan_view[s] \in Plan!RunState /\ Plan!Good(Plan_view[s], Plan_requests, Plan_named)
        /\ Plan_view[s].phase \in PlanNeedsApproval
    BY <1>5 DEF Plan!AskApproval, Plan!Approved
  <2>2. CASE /\ Plan!Pending(Plan_view[s])
             /\ Plan!Change(s, Plan!Asked(Plan_view[s], s, Plan_view[s].pending)) /\ Plan_requests' = Plan_requests
    <3>1. Plan!Good(Plan!Asked(Plan_view[s], s, Plan_view[s].pending), Plan_requests, Plan_named)
      BY <2>1, <2>2, PlanGoodAsked DEF Plan!Good, Plan!PendingIsReal, Plan!Pending
    <3> QED BY <1>A, <1>5, <2>2, <3>1 DEF Plan!AskApproval, Plan!Change
  <2> DEFINE new == [id |-> Len(Plan_requests) + 1, phase |-> Plan_view[s].phase, granted |-> FALSE]
  <2>3. CASE /\ Len(Plan_requests) < PlanMaxRequests
             /\ Plan!Change(s, Plan!Asked(Plan_view[s], s, new))
             /\ Plan_requests' = Append(Plan_requests, Plan_view[s].phase)
    <3>1. /\ new.id \in 1 .. Len(Plan_requests') /\ Plan_requests'[new.id] = Plan_view[s].phase
          /\ new.phase = Plan_view[s].phase /\ ~new.granted /\ new.id # 0
      BY <1>5, <2>1, <2>3, PlanNewRequest DEF Plan!AskApproval
    <3>2. Plan_view[s].phase \in 0 .. PlanPhases - 1
      BY <2>1
    <3>3. \A v \in Plan!RunState : Plan!Good(v, Plan_requests, Plan_named) => Plan!Good(v, Plan_requests', Plan_named)
      BY <2>3, <3>2, PlanGoodGrows
    <3>4. Plan!Good(Plan!Asked(Plan_view[s], s, new), Plan_requests', Plan_named)
      BY <2>1, <3>1, <3>3, PlanGoodAsked
    <3> HIDE DEF new
    <3> QED BY <1>5, <2>3, <3>3, <3>4 DEF Plan!AskApproval, Plan!Change
  <2> QED BY <1>5, <2>2, <2>3 DEF Plan!AskApproval
<1>6. ASSUME NEW s \in PlanSession, Plan!Complete(s) PROVE Plan!Sound'
  <2>1. Plan_view[s].phase < PlanPhases /\ Plan!Good(Plan_view[s], Plan_requests, Plan_named) /\ Plan!Approved(Plan_view[s])
    BY <1>6 DEF Plan!Complete, Plan!Open
  <2>2. Plan!Good(Plan!Advanced(Plan_view[s], s), Plan_requests, Plan_named)
    BY <2>1, PlanGoodAdvanced
  <2> QED BY <1>A, <1>6, <2>2 DEF Plan!Complete, Plan!Change
<1>7. ASSUME NEW s \in PlanSession, NEW i \in 1 .. Len(Plan_requests), Plan!Grant(s, i) PROVE Plan!Sound'
  <2>1. \A v \in Plan!RunState : Plan!Good(v, Plan_requests, Plan_named) => Plan!Good(v, Plan_requests, Plan_named')
    <3>1. Plan_named \subseteq Plan_named'
      BY <1>7 DEF Plan!Grant
    <3>2. 0 \in 0 .. PlanPhases - 1 /\ Plan_requests \in Seq(0 .. PlanPhases - 1)
      OBVIOUS
    <3> QED BY <3>1, <3>2, PlanGoodGrows
  <2>2. Plan!Good(Plan!GrantedNow(Plan_state), Plan_requests, Plan_named')
    BY <1>7, <2>1, PlanGoodGranted DEF Plan!Grant
  <2> QED BY <1>7, <2>1, <2>2 DEF Plan!Grant, Plan!Enter
<1>8. ASSUME NEW s \in PlanSession, Plan!Truncate(s) PROVE Plan!Sound'
  BY <1>8 DEF Plan!Truncate
<1>9. ASSUME NEW s \in PlanSession, Plan!Write(s) PROVE Plan!Sound'
  BY <1>9 DEF Plan!Write
<1>10. ASSUME NEW s \in PlanSession, Plan!Crash(s) PROVE Plan!Sound'
  BY <1>10 DEF Plan!Crash
<1>11. CASE UNCHANGED Plan!vars
  BY <1>11 DEF Plan!vars
<1> QED BY <1>1, <1>2, <1>3, <1>4, <1>5, <1>6, <1>7, <1>8, <1>9, <1>10, <1>11 DEF Plan!Next

(* A session's touch is kept, and no session is said to be used that did    *)
(* nothing.                                                                 *)
LEMMA PlanTouched ==
  /\ \A v, st, r, t : Plan!Changed(v, st, r, t).touched = t
  /\ \A v, s : Plan!Advanced(v, s).touched = v.touched \union {s}
  /\ \A v, s, r : Plan!Asked(v, s, r).touched = v.touched \union {s}
  /\ \A v, s : Plan!Failed(v, s).touched = v.touched \union {s}
  /\ \A v : Plan!GrantedNow(v).touched = v.touched
BY DEF Plan!Changed, Plan!Advanced, Plan!Asked, Plan!Failed, Plan!GrantedNow

LEMMA PlanSessionsStep == Plan!TypeOK /\ Plan!Owner /\ Plan!Empty /\ Plan!Sessions /\ [Plan!Next]_Plan!vars => Plan!Sessions'
<1> SUFFICES ASSUME Plan!TypeOK, Plan!Owner, Plan!Empty, Plan!Sessions, [Plan!Next]_Plan!vars PROVE Plan!Sessions'
  OBVIOUS
<1> USE PlanAssumption DEF Plan!TypeOK, Plan!Owner, Plan!Sessions, Plan!Saving
(* A session acts: it was the only one under the lock.                      *)
<1>A. ASSUME NEW s \in PlanSession, NEW v, Plan_pc[s] = "loaded", v.touched = Plan_view[s].touched \union {s},
             Plan!Change(s, v), Plan_state' = Plan_state
      PROVE  Plan!Sessions'
  <2>1. \A t \in PlanSession : ~Plan!Saving(t)
    BY <1>A
  <2>2. Plan_state.touched \subseteq v.touched /\ v.touched \subseteq Plan_acted' /\ s \in v.touched
    BY <1>A DEF Plan!Change
  <2>3. Plan_view'[s] = v /\ \A t \in PlanSession : Plan!Saving(t)' => t = s
    BY <1>A, <2>1 DEF Plan!Change
  <2>4. \A t \in Plan_acted' \ Plan_state'.touched : Plan_pc'[t] \in {"saving", "writing", "dead"}
    BY <1>A DEF Plan!Change
  <2>5. Plan_state'.touched \subseteq Plan_acted'
    BY <1>A DEF Plan!Change
  <2> QED BY <1>A, <2>2, <2>3, <2>4, <2>5
<1>1. ASSUME NEW s \in PlanSession, Plan!Create(s) PROVE Plan!Sessions'
  BY <1>1 DEF Plan!Create, Plan!Enter, Plan!Empty, Plan!Fresh
<1>2. ASSUME NEW s \in PlanSession, Plan!Load(s) PROVE Plan!Sessions'
  BY <1>2 DEF Plan!Load, Plan!Enter
<1>3. ASSUME NEW s \in PlanSession, Plan!VerifyFails(s) PROVE Plan!Sessions'
  BY <1>3 DEF Plan!VerifyFails
<1>4. ASSUME NEW s \in PlanSession, Plan!Fail(s) PROVE Plan!Sessions'
  BY <1>A, <1>4, PlanTouched DEF Plan!Fail
<1>5. ASSUME NEW s \in PlanSession, Plan!AskApproval(s) PROVE Plan!Sessions'
  <2>1. Plan_pc[s] = "loaded" /\ UNCHANGED Plan_state
    BY <1>5 DEF Plan!AskApproval
  <2>2. \A q : Plan!Asked(Plan_view[s], s, q).touched = Plan_view[s].touched \cup {s}
    BY Zenon, PlanTouched
  <2> DEFINE again == Plan!Asked(Plan_view[s], s, Plan_view[s].pending)
             first == Plan!Asked(Plan_view[s], s, [id |-> Len(Plan_requests) + 1, phase |-> Plan_view[s].phase, granted |-> FALSE])
  <2>3. Plan!Change(s, again) \/ Plan!Change(s, first)
    BY <1>5 DEF Plan!AskApproval
  <2>4. again.touched = Plan_view[s].touched \cup {s} /\ first.touched = Plan_view[s].touched \cup {s}
    BY Zenon, <2>2
  <2> HIDE DEF again, first
  <2> QED BY <1>A, <2>1, <2>3, <2>4
<1>6. ASSUME NEW s \in PlanSession, Plan!Complete(s) PROVE Plan!Sessions'
  BY <1>A, <1>6, PlanTouched DEF Plan!Complete
<1>7. ASSUME NEW s \in PlanSession, NEW i \in 1 .. Len(Plan_requests), Plan!Grant(s, i) PROVE Plan!Sessions'
  <2>1. \A t \in PlanSession : ~Plan!Saving(t)
    BY <1>7 DEF Plan!Grant, Plan!Enter
  <2>2. \A t \in Plan_acted \ Plan_state.touched : Plan_pc[t] = "dead" /\ t # s
    BY <1>7, <2>1 DEF Plan!Grant, Plan!Enter
  <2>3. Plan_view'[s].touched = Plan_state.touched
    BY <1>7, PlanTouched DEF Plan!Grant, Plan!Enter
  <2> QED BY <1>7, <2>1, <2>2, <2>3 DEF Plan!Grant, Plan!Enter
<1>8. ASSUME NEW s \in PlanSession, Plan!Truncate(s) PROVE Plan!Sessions'
  BY <1>8 DEF Plan!Truncate
<1>9. ASSUME NEW s \in PlanSession, Plan!Write(s) PROVE Plan!Sessions'
  BY <1>9 DEF Plan!Write
<1>10. ASSUME NEW s \in PlanSession, Plan!Crash(s) PROVE Plan!Sessions'
  BY <1>10 DEF Plan!Crash
<1>11. CASE UNCHANGED Plan!vars
  BY <1>11 DEF Plan!vars
<1> QED BY <1>1, <1>2, <1>3, <1>4, <1>5, <1>6, <1>7, <1>8, <1>9, <1>10, <1>11 DEF Plan!Next

(* No change forgets a grant.                                               *)
LEMMA PlanChangeRemembers ==
  ASSUME NEW v \in Plan!RunState, NEW made, NEW given, Plan!Good(v, made, given),
         NEW i \in Nat, i # 0, Plan!Remembered(v, i), NEW s
  PROVE  /\ Plan!Remembered(Plan!Failed(v, s), i)
         /\ Plan!Remembered(Plan!GrantedNow(v), i)
         /\ Plan!Approved(v) => Plan!Remembered(Plan!Advanced(v, s), i)
         /\ Plan!Pending(v) => Plan!Remembered(Plan!Asked(v, s, v.pending), i)
         /\ ~Plan!Pending(v) => \A r : Plan!Remembered(Plan!Asked(v, s, r), i)
<1> DEFINE InHistory(w) == \E r \in w.approvals : r.id = i
<1>1. Plan!Remembered(Plan!Failed(v, s), i) /\ Plan!Remembered(Plan!Asked(v, s, v.pending), i)
  BY DEF Plan!Remembered, Plan!Failed, Plan!Asked, Plan!Changed
<1>2. Plan!Remembered(Plan!GrantedNow(v), i)
  BY DEF Plan!Remembered, Plan!GrantedNow, Plan!Changed
<1>3. ASSUME ~Plan!Pending(v) PROVE \A r : Plan!Remembered(Plan!Asked(v, s, r), i)
  <2>1. v.pending.id = 0
    BY <1>3 DEF Plan!Good, Plan!Progress, Plan!NoRequest
  <2> QED BY <2>1 DEF Plan!Remembered, Plan!Asked, Plan!Changed
<1>4. ASSUME Plan!Approved(v) PROVE Plan!Remembered(Plan!Advanced(v, s), i)
  <2>1. /\ Plan!Advanced(v, s).pending = IF v.phase \in PlanNeedsApproval THEN Plan!NoRequest ELSE v.pending
        /\ Plan!Advanced(v, s).approvals = v.approvals
                       \union (IF v.phase \in PlanNeedsApproval THEN {v.pending} ELSE {})
    BY DEF Plan!Advanced
  <2> QED BY <2>1 DEF Plan!Remembered
<1> QED BY <1>1, <1>2, <1>3, <1>4

LEMMA PlanGrantsStep == Plan!TypeOK /\ Plan!Owner /\ Plan!Empty /\ Plan!Sound /\ Plan!Grants /\ [Plan!Next]_Plan!vars => Plan!Grants'
<1> SUFFICES ASSUME Plan!TypeOK, Plan!Owner, Plan!Empty, Plan!Sound, Plan!Grants, [Plan!Next]_Plan!vars,
                    \A s \in PlanSession : Plan_pc'[s] # "dead"
             PROVE  /\ (\A s \in PlanSession : ~Plan!Saving(s)') => Plan!RememberedAll(Plan_state, Plan_named)'
                    /\ \A s \in PlanSession : Plan!Saving(s)' => Plan!RememberedAll(Plan_view[s], Plan_named)'
  BY DEF Plan!Grants
<1> USE PlanAssumption DEF Plan!TypeOK, Plan!Owner, Plan!Sound, Plan!Saving
<1> DEFINE Goal == /\ (\A s \in PlanSession : ~Plan!Saving(s)') => Plan!RememberedAll(Plan_state, Plan_named)'
                   /\ \A s \in PlanSession : Plan!Saving(s)' => Plan!RememberedAll(Plan_view[s], Plan_named)'
<1>0. ASSUME \A s \in PlanSession : Plan_pc[s] # "dead"
      PROVE  /\ (\A s \in PlanSession : ~Plan!Saving(s)) => Plan!RememberedAll(Plan_state, Plan_named)
             /\ \A s \in PlanSession : Plan!Saving(s) => Plan!RememberedAll(Plan_view[s], Plan_named)
  BY <1>0 DEF Plan!Grants
<1>n. \A i \in Plan_named : i \in Nat /\ i # 0
  OBVIOUS
(* A session saves what remembers all, and was the only one under the lock. *)
<1>A. ASSUME NEW s \in PlanSession, NEW v, Plan!RememberedAll(v, Plan_named'),
             \A t \in PlanSession : ~Plan!Saving(t),
             Plan_view' = [Plan_view EXCEPT ![s] = v], Plan_pc' = [Plan_pc EXCEPT ![s] = "saving"]
      PROVE  Goal
  BY <1>A DEF Plan!RememberedAll
<1>1. ASSUME NEW s \in PlanSession, Plan!Create(s) PROVE Goal
  <2>1. Plan_named' = {} /\ \A t \in PlanSession : ~Plan!Saving(t)
    BY <1>1 DEF Plan!Create, Plan!Empty
  <2> QED BY <1>A, <1>1, <2>1 DEF Plan!Create, Plan!Enter, Plan!RememberedAll
<1>2. ASSUME NEW s \in PlanSession, Plan!Load(s) PROVE Goal
  BY <1>0, <1>2 DEF Plan!Load, Plan!Enter
<1>3. ASSUME NEW s \in PlanSession, Plan!VerifyFails(s) PROVE Goal
  BY <1>0, <1>3 DEF Plan!VerifyFails
<1>L. ASSUME NEW s \in PlanSession, Plan_pc[s] = "loaded", \A t \in PlanSession : Plan_pc[t] # "dead"
      PROVE  /\ \A t \in PlanSession : ~Plan!Saving(t)
             /\ Plan_view[s] \in Plan!RunState /\ Plan!Good(Plan_view[s], Plan_requests, Plan_named)
             /\ Plan!RememberedAll(Plan_view[s], Plan_named)
  BY <1>0, <1>L
<1>4. ASSUME NEW s \in PlanSession, Plan!Fail(s) PROVE Goal
  <2>0. Plan_pc[s] = "loaded" /\ \A t \in PlanSession : Plan_pc[t] # "dead"
    BY <1>4 DEF Plan!Fail, Plan!Change
  <2>1. Plan!RememberedAll(Plan!Failed(Plan_view[s], s), Plan_named)
    BY <1>L, <1>n, <2>0, PlanChangeRemembers DEF Plan!RememberedAll
  <2> QED BY <1>A, <1>L, <1>4, <2>0, <2>1 DEF Plan!Fail, Plan!Change
<1>5. ASSUME NEW s \in PlanSession, Plan!AskApproval(s) PROVE Goal
  <2>0. Plan_pc[s] = "loaded" /\ \A t \in PlanSession : Plan_pc[t] # "dead"
    BY <1>5 DEF Plan!AskApproval, Plan!Change
  <2>1. ASSUME NEW r, Plan!Pending(Plan_view[s]) => r = Plan_view[s].pending
        PROVE  Plan!RememberedAll(Plan!Asked(Plan_view[s], s, r), Plan_named)
    BY <1>L, <1>n, <2>0, <2>1, PlanChangeRemembers DEF Plan!RememberedAll
  <2>2. ASSUME NEW r, Plan!Pending(Plan_view[s]) => r = Plan_view[s].pending, Plan!Change(s, Plan!Asked(Plan_view[s], s, r))
        PROVE  Goal
    <3>1. Plan_named' = Plan_named /\ Plan!RememberedAll(Plan!Asked(Plan_view[s], s, r), Plan_named)
      BY <1>5, <2>1, <2>2 DEF Plan!AskApproval
    <3> QED BY <1>A, <1>L, <2>0, <2>2, <3>1 DEF Plan!Change
  <2> QED BY <1>5, <2>2 DEF Plan!AskApproval
<1>6. ASSUME NEW s \in PlanSession, Plan!Complete(s) PROVE Goal
  <2>0. Plan_pc[s] = "loaded" /\ \A t \in PlanSession : Plan_pc[t] # "dead"
    BY <1>6 DEF Plan!Complete, Plan!Change
  <2>1. Plan!RememberedAll(Plan!Advanced(Plan_view[s], s), Plan_named)
    BY <1>L, <1>6, <1>n, <2>0, PlanChangeRemembers DEF Plan!RememberedAll, Plan!Complete
  <2> QED BY <1>A, <1>L, <1>6, <2>0, <2>1 DEF Plan!Complete, Plan!Change
<1>7. ASSUME NEW s \in PlanSession, NEW i \in 1 .. Len(Plan_requests), Plan!Grant(s, i) PROVE Goal
  <2>1. \A t \in PlanSession : ~Plan!Saving(t) /\ Plan_pc[t] # "dead"
    BY <1>7 DEF Plan!Grant, Plan!Enter
  <2>2. Plan!RememberedAll(Plan_state, Plan_named) /\ Plan!Good(Plan_state, Plan_requests, Plan_named) /\ Plan_state \in Plan!RunState
    BY <1>0, <2>1
  <2>3. \A j \in Plan_named : Plan!Remembered(Plan!GrantedNow(Plan_state), j)
    BY <1>n, <2>2, PlanChangeRemembers DEF Plan!RememberedAll
  <2>4. Plan!Remembered(Plan!GrantedNow(Plan_state), i)
    BY <1>7 DEF Plan!Grant, Plan!GrantedNow, Plan!Changed, Plan!Remembered
  <2>5. Plan!RememberedAll(Plan!GrantedNow(Plan_state), Plan_named')
    BY <1>7, <2>3, <2>4 DEF Plan!Grant, Plan!RememberedAll
  <2> QED BY <1>A, <1>7, <2>1, <2>5 DEF Plan!Grant, Plan!Enter
<1>8. ASSUME NEW s \in PlanSession, Plan!Truncate(s) PROVE Goal
  BY <1>0, <1>8 DEF Plan!Truncate
<1>9. ASSUME NEW s \in PlanSession, Plan!Write(s) PROVE Goal
  BY <1>0, <1>9 DEF Plan!Write
<1>10. ASSUME NEW s \in PlanSession, Plan!Crash(s) PROVE Goal
  BY <1>10 DEF Plan!Crash
<1>11. CASE UNCHANGED Plan!vars
  BY <1>0, <1>11 DEF Plan!vars
<1> QED BY <1>1, <1>2, <1>3, <1>4, <1>5, <1>6, <1>7, <1>8, <1>9, <1>10, <1>11 DEF Plan!Next

(* Every step keeps it.                                                     *)
LEMMA PlanNextIInv == Plan!IInv /\ [Plan!Next]_Plan!vars => Plan!IInv'
BY PlanTypeStep, PlanOwnerStep, PlanSoundStep, PlanSessionsStep, PlanGrantsStep DEF Plan!IInv

(* What it promises.                                                        *)
LEMMA PlanHolds == Plan!IInv => Plan!TypeOK /\ Plan!PlanSound
<1>1. Plan!IInv => Plan!TypeOK
  BY DEF Plan!IInv
<1>2. Plan!IInv => Plan!CompletedWithGrant
  BY DEF Plan!IInv, Plan!Sound, Plan!Good, Plan!DoneWereGranted, Plan!CompletedWithGrant
<1>3. Plan!IInv => Plan!RecordAgrees
  BY DEF Plan!IInv, Plan!Sound, Plan!Good, Plan!Progress, Plan!Sessions, Plan!RecordAgrees
<1>4. Plan!IInv => Plan!GrantSticks
  BY PlanAssumption DEF Plan!IInv, Plan!Owner, Plan!Grants, Plan!Saving, Plan!RememberedAll, Plan!GrantSticks
<1> QED
  BY <1>1, <1>2, <1>3, <1>4 DEF Plan!PlanSound

(* workspace.py: no phase that needs approval is completed without a grant of the request  *)
(* made for it, the saved run state agrees with itself and with the sessions that acted, and *)
(* no grant is lost unless a process is killed, for any sessions and phases.                  *)
THEOREM PlanIsSound == Spec => []PlanSound
<1> DEFINE Inv == part = "plan" => Plan!IInv
<1>1. Init => Inv
  BY PlanInitIInv DEF Init
<1>2. Inv /\ [Next]_vars => Inv'
  <2>1. ASSUME part = "plan", Plan!IInv, [Next]_vars PROVE Plan!IInv'
    BY <2>1, PlanNextIInv DEF Next, vars, Plan!vars
  <2>2. [Next]_vars => part' = part
    BY DEF Next, vars
  <2> QED BY <2>1, <2>2
<1>3. Inv => PlanSound
  BY PlanHolds DEF PlanSound
<1> QED
  BY <1>1, <1>2, <1>3, PTL DEF Spec

HIDE DEF Plan_plan, Plan_state, Plan_lock, Plan_pc, Plan_view, Plan_requests, Plan_named, Plan_acted

-----------------------------------------------------------------------------
(* Workspace. *)
Space_today == x1
Space_current == x2
Space_archive == x3
Space_live == x4
Space_shelved == x5
Space_questions == x6
Space_lock == x7
Space_pc == x8
Space_doc == x9
Space_late == x10
Space_copy == x11
Space_ops == x12
Space_written == x13
Space_torn == x14
Space_kills == x15
USE DEF Space_today, Space_current, Space_archive, Space_live, Space_shelved, Space_questions,
  Space_lock, Space_pc, Space_doc, Space_late, Space_copy, Space_ops, Space_written, Space_torn,
  Space_kills

SpaceThreadRecord == [name : Space!Names, project : BOOLEAN]
SpaceNoteRecord == [n : 1 .. SpaceMaxOps, tail : BOOLEAN]

(* A document is its threads, its closed threads and its notes.                *)
LEMMA SpaceDocParts ==
  ASSUME NEW d \in Space!CurrentDoc
  PROVE  d.threads \in SUBSET SpaceThreadRecord /\ d.closed \in SUBSET Space!ClosedThread /\ d.notes \in SUBSET SpaceNoteRecord
BY DEF Space!CurrentDoc, SpaceThreadRecord, SpaceNoteRecord

(* A new list of threads.                                                      *)
LEMMA SpaceThreadsEdit ==
  ASSUME NEW d \in Space!CurrentDoc, NEW x
  PROVE  [d EXCEPT !.threads = x] = [threads |-> x, closed |-> d.closed, notes |-> d.notes]
BY DEF Space!CurrentDoc

(* A new list of closed threads.                                               *)
LEMMA SpaceClosedEdit ==
  ASSUME NEW d \in Space!CurrentDoc, NEW x
  PROVE  [d EXCEPT !.closed = x] = [threads |-> d.threads, closed |-> x, notes |-> d.notes]
BY DEF Space!CurrentDoc

(* New notes.                                                                  *)
LEMMA SpaceNotesEdit ==
  ASSUME NEW d \in Space!CurrentDoc, NEW x
  PROVE  [d EXCEPT !.notes = x] = [threads |-> d.threads, closed |-> d.closed, notes |-> x]
BY DEF Space!CurrentDoc

(* Threads that are closed.                                                    *)
LEMMA SpaceBothEdit ==
  ASSUME NEW d \in Space!CurrentDoc, NEW x \in SUBSET SpaceThreadRecord, NEW y
  PROVE  [d EXCEPT !.threads = x, !.closed = y] = [threads |-> x, closed |-> y, notes |-> d.notes]
<1>1. [d EXCEPT !.threads = x] \in Space!CurrentDoc
  BY DEF Space!CurrentDoc, SpaceThreadRecord
<1>2. PICK e \in Space!CurrentDoc : e = [d EXCEPT !.threads = x]
  BY <1>1
<1>3. e.threads = x /\ e.notes = d.notes
  BY <1>2, SpaceThreadsEdit
<1>4. [e EXCEPT !.closed = y] = [threads |-> e.threads, closed |-> y, notes |-> e.notes]
  BY SpaceClosedEdit
<1>5. [d EXCEPT !.threads = x, !.closed = y] = [[d EXCEPT !.threads = x] EXCEPT !.closed = y]
  OBVIOUS
<1> QED BY <1>2, <1>3, <1>4, <1>5

(* What is put together from threads, closed threads and notes is a document.  *)
LEMMA SpaceDocWhole ==
  ASSUME NEW t \in SUBSET SpaceThreadRecord, NEW c \in SUBSET Space!ClosedThread, NEW n \in SUBSET SpaceNoteRecord
  PROVE  [threads |-> t, closed |-> c, notes |-> n] \in Space!CurrentDoc
BY DEF Space!CurrentDoc, SpaceThreadRecord, SpaceNoteRecord

(* Reading CURRENT.md loses no thread and no line.                             *)
LEMMA SpaceParsedDoc ==
  ASSUME NEW d \in Space!CurrentDoc
  PROVE  Space!Parsed(d) \in Space!CurrentDoc /\ Space!Parsed(d).threads = d.threads /\ Space!Parsed(d).closed = Space!Lines(d)
<1>1. {c \in d.closed : ~c.long} \in SUBSET Space!ClosedThread /\ d.threads \in SUBSET SpaceThreadRecord
  BY SpaceDocParts
<1>2. {Space!Note(n.n, FALSE) : n \in d.notes} \in SUBSET SpaceNoteRecord
  <2>1. ASSUME NEW n \in d.notes PROVE Space!Note(n.n, FALSE) \in SpaceNoteRecord
    <3>1. n \in SpaceNoteRecord
      BY SpaceDocParts
    <3> QED BY <3>1 DEF Space!Note, SpaceNoteRecord
  <2> QED BY <2>1
<1> QED
  BY <1>1, <1>2, SpaceDocWhole DEF Space!Parsed, Space!Lines

(* Rotation parts the closed threads of a document, and touches nothing else.   *)
LEMMA SpaceKeptDoc ==
  ASSUME NEW d \in Space!CurrentDoc
  PROVE  /\ Space!Kept(d) \in Space!CurrentDoc /\ Space!Kept(d).threads = d.threads
         /\ Space!Expired(d) \in SUBSET Space!ClosedThread /\ Space!Kept(d).closed \cup Space!Expired(d) = d.closed
<1>1. Space!Expired(d) \subseteq d.closed
  BY DEF Space!Expired
<1>2. Space!Kept(d) = [threads |-> d.threads, closed |-> d.closed \ Space!Expired(d), notes |-> d.notes]
  BY SpaceClosedEdit DEF Space!Kept
<1>3. Space!Kept(d) \in Space!CurrentDoc
  <2>1. d.threads \in SUBSET SpaceThreadRecord /\ d.closed \ Space!Expired(d) \in SUBSET Space!ClosedThread /\ d.notes \in SUBSET SpaceNoteRecord
    BY SpaceDocParts
  <2> QED BY <1>2, <2>1, SpaceDocWhole
<1> QED
  <2>1. d.closed \in SUBSET Space!ClosedThread
    BY SpaceDocParts
  <2> QED BY <1>1, <1>2, <1>3, <2>1

(* An empty list holds nothing.                                                *)
LEMMA SpaceEmptyDoc == Space!Empty \in Space!CurrentDoc /\ Space!Lines(Space!Empty) = {} /\ Space!Linked(Space!Empty) = {} /\ Space!Empty.closed = {}
BY SpaceDocWhole DEF Space!Empty, Space!Lines, Space!Linked

(* A workspace begins without a line.                                          *)
LEMMA SpaceInitIInv == Space!Init => Space!IInv
<1> SUFFICES ASSUME Space!Init PROVE Space!IInv
  OBVIOUS
<1>1. Space!TypeOK /\ Space!Types
  <2>1. Space!TypeOK
    BY SpaceEmptyDoc DEF Space!Init, Space!TypeOK
  <2>2. Space_late \in [SpaceSession -> SUBSET Space!ClosedThread] /\ Space_doc \in [SpaceSession -> Space!CurrentDoc]
    BY SpaceEmptyDoc DEF Space!Init
  <2>3. Space_pc \in [SpaceSession -> {"idle", "archive", "save", "create", "link", "goal", "questions", "move", "unlink"}]
    BY DEF Space!Init
  <2>4. Space_ops \in 0 .. SpaceMaxOps /\ Space_today \in 0 .. SpaceMaxDay /\ Space_live \in BOOLEAN /\ Space_archive \subseteq Space!ClosedThread
    <3>1. Space_ops = 0 /\ Space_today = 0 /\ Space_live = FALSE /\ Space_archive = {}
      BY DEF Space!Init
    <3>2. Space_ops \in 0 .. SpaceMaxOps /\ Space_today \in 0 .. SpaceMaxDay
      BY <3>1, SpaceAssumption
    <3>3. Space_live \in BOOLEAN
      BY <3>1
    <3> QED BY <3>1, <3>2, <3>3
  <2> QED BY <2>1, <2>2, <2>3, <2>4 DEF Space!Types
<1>2. Space!Numbered
  BY DEF Space!Init, Space!Numbered, Space!Empty
<1>3. Space!Carried /\ Space!Unlinking
  BY SpaceEmptyDoc DEF Space!Init, Space!Carried, Space!Unlinking
<1> QED BY <1>1, <1>2, <1>3 DEF Space!IInv

(* Numbers that were given out stay below the counter.                         *)
LEMMA SpaceStillNumbered ==
  ASSUME NEW a \in Nat, NEW b \in Nat, a <= b, NEW n \in (1 .. a) \X Space!Names
  PROVE  n \in (1 .. b) \X Space!Names
OBVIOUS

(* An operation on CURRENT.md takes the lock with a document that has every line *)
(* of the file, and a project's thread only if there is the project.            *)
LEMMA SpaceSaveStep ==
  ASSUME Space!IInv, NEW s \in SpaceSession, NEW d \in Space!CurrentDoc, Space!Save(s, d),
         Space_ops' \in Space_ops .. SpaceMaxOps, Space_ops' >= 1, UNCHANGED <<Space_today, Space_written, Space_torn>>,
         Space!Lines(Space_current) \subseteq d.closed,
         \A c \in d.closed : c.n \in (1 .. Space_ops') \X Space!Names,
         Space!Linked(d) = {} \/ Space!Excused
  PROVE  Space!IInv'
<1>1. /\ Space_lock = Space!Nobody /\ Space_lock' = s /\ UNCHANGED <<Space_current, Space_archive, Space_live>>
      /\ Space_late' = [Space_late EXCEPT ![s] = Space!Expired(d)] /\ Space_doc' = [Space_doc EXCEPT ![s] = Space!Kept(d)]
      /\ Space_pc' = [Space_pc EXCEPT ![s] = IF Space!Expired(d) = {} THEN "save" ELSE "archive"]
  BY DEF Space!Save, Space!Locking, Space!To, Space!files, Space!projectFiles
<1>2. \A t \in SpaceSession : Space_pc[t] \notin {"archive", "save", "unlink"}
  BY <1>1, SpaceAssumption DEF Space!IInv, Space!TypeOK, Space!Nobody
<1>3. Space_ops \in Nat /\ Space_ops' \in Nat /\ Space_ops <= Space_ops' /\ Space_ops' \in 0 .. SpaceMaxOps
  BY SpaceAssumption DEF Space!IInv, Space!Types
<1>4. Space!Kept(d).closed \cup Space!Expired(d) = d.closed /\ Space!Linked(Space!Kept(d)) = Space!Linked(d)
  BY SpaceKeptDoc DEF Space!Linked
<1>5. Space_doc'[s] = Space!Kept(d) /\ Space_late'[s] = Space!Expired(d) /\ \A t \in SpaceSession \ {s} : Space_doc'[t] = Space_doc[t] /\ Space_late'[t] = Space_late[t] /\ Space_pc'[t] = Space_pc[t]
  BY <1>1 DEF Space!IInv, Space!Types
<1>6. Space!TypeOK'
  <2>1. \A c \in Space_current.closed \cup Space_archive : c.n \in (1 .. Space_ops') \X Space!Names
    BY <1>3, SpaceStillNumbered DEF Space!IInv, Space!TypeOK
  <2> QED BY <1>1, <1>2, <1>5, <2>1 DEF Space!IInv, Space!TypeOK, Space!Types
<1>7. Space!Types'
  BY <1>1, <1>3, SpaceKeptDoc DEF Space!IInv, Space!Types
<1>8. Space!Numbered'
  <2>1. ASSUME NEW t \in SpaceSession PROVE \A c \in Space_doc'[t].closed \cup Space_late'[t] : c.n \in (1 .. Space_ops') \X Space!Names
    <3>1. CASE t = s
      BY <1>4, <1>5, <3>1
    <3>2. CASE t # s
      BY <1>3, <1>5, <3>2, SpaceStillNumbered DEF Space!IInv, Space!Numbered
    <3> QED BY <3>1, <3>2
  <2> QED BY <2>1 DEF Space!Numbered
<1>9. Space!Carried'
  <2>1. Space!Lines(Space_current) \subseteq Space_doc'[s].closed \cup Space_late'[s]
    BY <1>4, <1>5
  <2>2. Space_pc'[s] = "save" => Space_late'[s] = {}
    BY <1>1 DEF Space!IInv, Space!Types
  <2>3. Space!Lines(Space_current)' = Space!Lines(Space_current)
    BY <1>1 DEF Space!Lines
  <2> QED BY <1>1, <1>2, <1>5, <2>1, <2>2, <2>3 DEF Space!IInv, Space!Carried
<1>10. Space!Unlinking'
  <2>1. Space!Linked(Space_current) # {} => Space!Excused
    BY <1>1, <1>2 DEF Space!IInv, Space!Unlinking
  <2>2. Space!Excused' = Space!Excused /\ Space!Linked(Space_current)' = Space!Linked(Space_current)
    BY <1>1 DEF Space!Excused, Space!Linked
  <2>3. \A t \in SpaceSession : Space_pc'[t] \in {"archive", "save"} => t = s
    BY <1>2, <1>5
  <2>4. Space!Linked(Space_doc'[s]) = {} \/ Space!Excused
    BY <1>4, <1>5
  <2> QED BY <2>1, <2>2, <2>3, <2>4 DEF Space!Unlinking, Space!Linked
<1> QED BY <1>6, <1>7, <1>8, <1>9, <1>10 DEF Space!IInv

(* The lines of the file are numbered, and carry their project's name only if    *)
(* the session that may write next knows of it.                                *)
LEMMA SpaceCurrentLines ==
  ASSUME Space!IInv
  PROVE  /\ Space_current \in Space!CurrentDoc /\ Space!Parsed(Space_current) \in Space!CurrentDoc
         /\ Space!Parsed(Space_current).threads = Space_current.threads /\ Space!Parsed(Space_current).closed = Space!Lines(Space_current)
         /\ \A c \in Space!Lines(Space_current) : c.n \in (1 .. Space_ops) \X Space!Names
         /\ Space_current.threads \in SUBSET SpaceThreadRecord /\ Space!Lines(Space_current) \in SUBSET Space!ClosedThread
         /\ Space!Parsed(Space_current).notes \in SUBSET SpaceNoteRecord
         /\ Space_lock = Space!Nobody => Space!Linked(Space_current) = {} \/ Space!Excused
<1>1. Space_current \in Space!CurrentDoc /\ \A c \in Space!Lines(Space_current) : c.n \in (1 .. Space_ops) \X Space!Names
  BY DEF Space!IInv, Space!TypeOK, Space!Lines
<1>2. Space_lock = Space!Nobody => Space!Linked(Space_current) = {} \/ Space!Excused
  BY SpaceAssumption DEF Space!IInv, Space!Unlinking, Space!Nobody
<1>3. /\ Space!Parsed(Space_current) \in Space!CurrentDoc /\ Space!Parsed(Space_current).threads = Space_current.threads
      /\ Space!Parsed(Space_current).closed = Space!Lines(Space_current)
  BY <1>1, SpaceParsedDoc
<1>4. /\ Space_current.threads \in SUBSET SpaceThreadRecord /\ Space!Lines(Space_current) \in SUBSET Space!ClosedThread
      /\ Space!Parsed(Space_current).notes \in SUBSET SpaceNoteRecord
  BY <1>3, SpaceDocParts
<1> QED BY <1>1, <1>2, <1>3, <1>4

(* The operations on CURRENT.md.                                               *)
LEMMA SpaceThreadSteps ==
  ASSUME Space!IInv, NEW s \in SpaceSession, Space!WorkThread(s) \/ Space!Jot(s) \/ Space!Link(s)
  PROVE  Space!IInv'
<1> USE DEF Space!Excused
<1>1. Space!Idle(s) => Space_ops' = Space_ops + 1 /\ Space_ops' \in Space_ops .. SpaceMaxOps /\ Space_ops' >= 1 /\ UNCHANGED <<Space_today, Space_written, Space_torn, Space_kills>>
  BY SpaceAssumption DEF Space!Idle, Space!Begin, Space!IInv, Space!Types
<1>2. Space_ops \in Nat
  BY DEF Space!IInv, Space!Types
<1>3. CASE Space!OpenThread(s)
  <2>1. PICK name \in SpaceThreadName, project \in BOOLEAN :
          /\ project => Space_live
          /\ Space!Save(s, [Space!Parsed(Space_current) EXCEPT !.threads = @ \cup {Space!Thread(name, project)}])
    BY <1>3 DEF Space!OpenThread
  <2> DEFINE d == [Space!Parsed(Space_current) EXCEPT !.threads = @ \cup {Space!Thread(name, project)}]
  <2>2. Space!Thread(name, project) \in SpaceThreadRecord
    BY DEF Space!Thread, SpaceThreadRecord, Space!Names
  <2>3. d = [threads |-> Space_current.threads \cup {Space!Thread(name, project)}, closed |-> Space!Lines(Space_current), notes |-> Space!Parsed(Space_current).notes]
    BY SpaceCurrentLines, SpaceThreadsEdit
  <2>4. d \in Space!CurrentDoc
    BY <2>2, <2>3, SpaceCurrentLines, SpaceDocWhole
  <2>5. Space!Linked(d) = {} \/ Space!Excused
    <3>1. Space_lock = Space!Nobody
      BY <2>1 DEF Space!Save, Space!Locking
    <3>2. Space!Linked(d) \subseteq Space!Linked(Space_current) \cup {t \in {Space!Thread(name, project)} : t.project}
      BY <2>3 DEF Space!Linked
    <3>3. ~Space_live => {t \in {Space!Thread(name, project)} : t.project} = {}
      BY <2>1 DEF Space!Thread
    <3> QED BY <3>1, <3>2, <3>3, SpaceCurrentLines
  <2>6. \A c \in d.closed : c.n \in (1 .. Space_ops') \X Space!Names
    BY <1>1, <1>2, <1>3, <2>3, SpaceCurrentLines, SpaceStillNumbered DEF Space!OpenThread
  <2>7. Space!Lines(Space_current) \subseteq d.closed
    BY <2>3
  <2> HIDE DEF d
  <2> QED BY <1>1, <1>3, <2>1, <2>4, <2>5, <2>6, <2>7, SpaceSaveStep DEF Space!OpenThread, d
<1>4. CASE Space!UpdateThread(s)
  <2>1. Space!Save(s, Space!Parsed(Space_current)) /\ Space!Idle(s)
    BY <1>4 DEF Space!UpdateThread
  <2>2. Space_lock = Space!Nobody
    BY <2>1 DEF Space!Save, Space!Locking
  <2>3. Space!Linked(Space!Parsed(Space_current)) = {} \/ Space!Excused
    BY <2>2, SpaceCurrentLines DEF Space!Linked
  <2>4. \A c \in Space!Parsed(Space_current).closed : c.n \in (1 .. Space_ops') \X Space!Names
    BY <1>1, <1>2, <2>1, SpaceCurrentLines, SpaceStillNumbered
  <2> QED BY <1>1, <2>1, <2>3, <2>4, SpaceCurrentLines, SpaceSaveStep
<1>5. CASE Space!CloseThread(s)
  <2>1. PICK t \in Space_current.threads, long \in BOOLEAN :
          Space!Save(s, [Space!Parsed(Space_current) EXCEPT !.threads = @ \ {t}, !.closed = @ \cup {Space!Closed(<<Space_ops + 1, t.name>>, long)}])
    BY <1>5, SpaceCurrentLines DEF Space!CloseThread
  <2> DEFINE new == Space!Closed(<<Space_ops + 1, t.name>>, long)
  <2> DEFINE d == [Space!Parsed(Space_current) EXCEPT !.threads = @ \ {t}, !.closed = @ \cup {new}]
  <2>2. Space!Idle(s)
    BY <1>5 DEF Space!CloseThread
  <2>3. new \in Space!ClosedThread /\ new.n \in (1 .. Space_ops') \X Space!Names
    <3>1. t.name \in Space!Names
      BY SpaceCurrentLines, SpaceDocParts DEF SpaceThreadRecord
    <3>2. Space_today \in 0 .. SpaceMaxDay
      BY DEF Space!IInv, Space!Types
    <3> QED BY <1>1, <1>2, <2>2, <3>1, <3>2, SpaceAssumption DEF Space!Closed, Space!ClosedThread
  <2>4. d = [threads |-> Space_current.threads \ {t}, closed |-> Space!Lines(Space_current) \cup {new}, notes |-> Space!Parsed(Space_current).notes]
    <3>1. Space_current.threads \ {t} \in SUBSET SpaceThreadRecord
      BY SpaceCurrentLines
    <3> HIDE DEF new
    <3> QED BY <3>1, SpaceCurrentLines, SpaceBothEdit
  <2>5. d \in Space!CurrentDoc
    BY <2>3, <2>4, SpaceCurrentLines, SpaceDocWhole
  <2>6. Space!Linked(d) = {} \/ Space!Excused
    <3>1. Space_lock = Space!Nobody
      BY <2>1 DEF Space!Save, Space!Locking
    <3>2. Space!Linked(d) \subseteq Space!Linked(Space_current)
      BY <2>4 DEF Space!Linked
    <3> QED BY <3>1, <3>2, SpaceCurrentLines
  <2>7. \A c \in d.closed : c.n \in (1 .. Space_ops') \X Space!Names
    BY <1>1, <1>2, <2>2, <2>3, <2>4, SpaceCurrentLines, SpaceStillNumbered
  <2>8. Space!Lines(Space_current) \subseteq d.closed
    BY <2>4
  <2>9. Space!Save(s, d)
    BY <2>1
  <2> HIDE DEF d, new
  <2> QED BY <1>1, <2>2, <2>5, <2>6, <2>7, <2>8, <2>9, SpaceSaveStep
<1>6. CASE Space!Jot(s)
  <2>1. PICK tail \in BOOLEAN :
          Space!Save(s, [Space!Parsed(Space_current) EXCEPT !.notes = @ \cup {Space!Note(Space_ops + 1, tail)}])
    BY <1>6 DEF Space!Jot
  <2> DEFINE new == Space!Note(Space_ops + 1, tail)
  <2> DEFINE d == [Space!Parsed(Space_current) EXCEPT !.notes = @ \cup {new}]
  <2>2. Space!Idle(s)
    BY <1>6 DEF Space!Jot
  <2>3. new \in SpaceNoteRecord
    BY <1>1, <1>2, <2>2, SpaceAssumption DEF Space!Note, SpaceNoteRecord
  <2>4. d = [threads |-> Space_current.threads, closed |-> Space!Lines(Space_current), notes |-> Space!Parsed(Space_current).notes \cup {new}]
    <3> HIDE DEF new
    <3> QED BY SpaceCurrentLines, SpaceNotesEdit
  <2>5. d \in Space!CurrentDoc
    BY <2>3, <2>4, SpaceCurrentLines, SpaceDocWhole
  <2>6. Space!Linked(d) = {} \/ Space!Excused
    <3>1. Space_lock = Space!Nobody
      BY <2>1 DEF Space!Save, Space!Locking
    <3>2. Space!Linked(d) = Space!Linked(Space_current)
      BY <2>4 DEF Space!Linked
    <3> QED BY <3>1, <3>2, SpaceCurrentLines
  <2>7. \A c \in d.closed : c.n \in (1 .. Space_ops') \X Space!Names
    BY <1>1, <1>2, <2>2, <2>4, SpaceCurrentLines, SpaceStillNumbered
  <2>8. Space!Lines(Space_current) \subseteq d.closed
    BY <2>4
  <2>9. Space!Save(s, d)
    BY <2>1
  <2> HIDE DEF d, new
  <2> QED BY <1>1, <2>2, <2>5, <2>6, <2>7, <2>8, <2>9, SpaceSaveStep
<1>7. CASE Space!Link(s) /\ Space!Named(Space!Parsed(Space_current), Space!Project) = {} /\ Space_live
  <2> DEFINE d == [Space!Parsed(Space_current) EXCEPT !.threads = @ \cup {Space!Thread(Space!Project, TRUE)}]
  <2>1. Space!Save(s, d) /\ UNCHANGED <<Space_today, Space_written, Space_torn, Space_ops>>
    BY <1>7 DEF Space!Link
  <2>2. Space!Thread(Space!Project, TRUE) \in SpaceThreadRecord
    BY DEF Space!Thread, SpaceThreadRecord, Space!Names
  <2>3. d = [threads |-> Space_current.threads \cup {Space!Thread(Space!Project, TRUE)}, closed |-> Space!Lines(Space_current), notes |-> Space!Parsed(Space_current).notes]
    BY SpaceCurrentLines, SpaceThreadsEdit
  <2>4. d \in Space!CurrentDoc
    <3> DEFINE now == Space_current.threads \cup {Space!Thread(Space!Project, TRUE)}
    <3>1. now \in SUBSET SpaceThreadRecord
      BY <2>2, SpaceCurrentLines
    <3>2. d = [threads |-> now, closed |-> Space!Lines(Space_current), notes |-> Space!Parsed(Space_current).notes]
      BY <2>3
    <3> HIDE DEF now, d
    <3> QED BY <3>1, <3>2, SpaceCurrentLines, SpaceDocWhole
  <2>5. Space_ops' \in Space_ops .. SpaceMaxOps /\ Space_ops' >= 1
    BY <1>7, <2>1, SpaceAssumption DEF Space!IInv, Space!Types, Space!Numbered, Space!Link
  <2>6. Space!Linked(d) = {} \/ Space!Excused
    BY <1>7
  <2>7. \A c \in d.closed : c.n \in (1 .. Space_ops') \X Space!Names
    BY <2>1, <2>3, SpaceCurrentLines
  <2>8. Space!Lines(Space_current) \subseteq d.closed
    BY <2>3
  <2> HIDE DEF d
  <2> QED BY <2>1, <2>4, <2>5, <2>6, <2>7, <2>8, SpaceSaveStep
<1>8. CASE Space!Link(s) /\ ~(Space!Named(Space!Parsed(Space_current), Space!Project) = {} /\ Space_live)
  <2>1. /\ Space_pc' = [Space_pc EXCEPT ![s] = "idle"] /\ Space_pc[s] = "link"
        /\ UNCHANGED <<Space_today, Space_current, Space_archive, Space_live, Space_lock, Space_doc, Space_late, Space_written, Space_torn, Space_ops>>
    BY <1>8 DEF Space!Link, Space!To, Space!files, Space!projectFiles
  <2> QED BY <2>1 DEF Space!IInv, Space!TypeOK, Space!Types, Space!Numbered, Space!Carried, Space!Unlinking
<1> QED BY <1>3, <1>4, <1>5, <1>6, <1>7, <1>8 DEF Space!WorkThread

(* The archive and CURRENT.md are written by who holds the lock.               *)
LEMMA SpaceWriteSteps ==
  ASSUME Space!IInv, NEW s \in SpaceSession, Space!AppendToArchive(s) \/ Space!WriteCurrent(s)
  PROVE  Space!IInv'
<1>1. Space_pc[s] \in {"archive", "save"} /\ Space_lock = s /\ \A t \in SpaceSession : Space_pc[t] \in {"archive", "save", "unlink"} => t = s
  BY DEF Space!AppendToArchive, Space!WriteCurrent, Space!IInv, Space!TypeOK
<1>2. CASE Space!AppendToArchive(s)
  <2>1. /\ Space_pc[s] = "archive" /\ Space_pc' = [Space_pc EXCEPT ![s] = "save"] /\ Space_archive' = Space_archive \cup Space_late[s]
        /\ Space_late' = [Space_late EXCEPT ![s] = {}] /\ UNCHANGED <<Space_today, Space_current, Space_live, Space_lock, Space_doc, Space_ops, Space_written, Space_torn>>
    BY <1>2 DEF Space!AppendToArchive, Space!To
  <2>2. Space!TypeOK' /\ Space!Types' /\ Space!Numbered'
    BY <1>1, <2>1 DEF Space!IInv, Space!TypeOK, Space!Types, Space!Numbered
  <2>3. Space!Carried'
    <3>1. Space!Lines(Space_current)' = Space!Lines(Space_current)
      BY <2>1 DEF Space!Lines
    <3> QED BY <1>1, <2>1, <3>1 DEF Space!IInv, Space!Types, Space!Carried
  <2>4. Space!Unlinking'
    BY <1>1, <2>1 DEF Space!IInv, Space!Types, Space!Unlinking, Space!Linked, Space!Excused
  <2> QED BY <2>2, <2>3, <2>4 DEF Space!IInv
<1>3. CASE Space!WriteCurrent(s)
  <2>1. /\ Space_pc[s] = "save" /\ Space_pc' = [Space_pc EXCEPT ![s] = "idle"] /\ Space_current' = Space_doc[s]
        /\ Space_doc' = [Space_doc EXCEPT ![s] = Space!Empty] /\ Space_lock' = Space!Nobody
        /\ Space_written' = Space_written \cup {c.n : c \in Space!Lines(Space_doc[s])}
        /\ UNCHANGED <<Space_today, Space_archive, Space_live, Space_late, Space_ops, Space_torn>>
    BY <1>3 DEF Space!WriteCurrent, Space!To, Space!Lines
  <2>2. Space!TypeOK' /\ Space!Types'
    BY <1>1, <2>1, SpaceEmptyDoc DEF Space!IInv, Space!TypeOK, Space!Types, Space!Numbered
  <2>3. Space!Numbered'
    BY <1>1, <2>1, SpaceEmptyDoc DEF Space!IInv, Space!Types, Space!Numbered
  <2>4. Space!Carried'
    <3>1. Space!Lines(Space_current) \subseteq Space_doc[s].closed \cup Space_archive
      BY <2>1 DEF Space!IInv, Space!Carried
    <3>2. Space!Lines(Space_current)' = Space!Lines(Space_doc[s])
      BY <2>1 DEF Space!Lines
    <3>3. \A c \in Space!Lines(Space_current) : c \in Space!Lines(Space_doc[s]) \/ c \in Space_archive
      BY <3>1 DEF Space!Lines
    <3>4. \A n \in Space_written' \ Space_torn' : \E c \in Space!Lines(Space_doc[s]) \cup Space_archive : c.n = n
      BY <2>1, <3>3 DEF Space!IInv, Space!Carried
    <3>5. \A t \in SpaceSession : Space_pc'[t] \notin {"archive", "save"}
      BY <1>1, <2>1 DEF Space!IInv, Space!Types
    <3> QED BY <2>1, <3>2, <3>4, <3>5 DEF Space!Carried
  <2>5. Space!Unlinking'
    BY <1>1, <2>1 DEF Space!IInv, Space!Types, Space!Unlinking, Space!Linked, Space!Excused
  <2> QED BY <2>2, <2>3, <2>4, <2>5 DEF Space!IInv
<1> QED BY <1>2, <1>3

(* The project moves while nobody holds the lock, and its threads are closed by  *)
(* who moved it.                                                               *)
LEMMA SpaceMoveSteps ==
  ASSUME Space!IInv, NEW s \in SpaceSession, Space!Move(s) \/ Space!Unlink(s)
  PROVE  Space!IInv'
<1>1. CASE Space!Move(s) /\ Space_live /\ ~Space_shelved
  <2>1. /\ Space_pc[s] = "move" /\ Space_lock = Space!Nobody /\ Space_live' = FALSE /\ Space_pc' = [Space_pc EXCEPT ![s] = "unlink"] /\ Space_lock' = s
        /\ UNCHANGED <<Space_today, Space_current, Space_archive, Space_doc, Space_late, Space_ops, Space_written, Space_torn>>
    BY <1>1 DEF Space!Move, Space!To
  <2>2. \A t \in SpaceSession : Space_pc[t] \notin {"archive", "save", "unlink"}
    BY <2>1, SpaceAssumption DEF Space!IInv, Space!TypeOK, Space!Nobody
  <2>3. Space!TypeOK' /\ Space!Types' /\ Space!Numbered'
    BY <2>1, <2>2 DEF Space!IInv, Space!TypeOK, Space!Types, Space!Numbered
  <2>4. Space!Carried'
    BY <2>1, <2>2 DEF Space!IInv, Space!Types, Space!Carried, Space!Lines
  <2>5. Space!Unlinking'
    BY <2>1, <2>2 DEF Space!IInv, Space!Types, Space!Unlinking, Space!Linked, Space!Excused
  <2> QED BY <2>3, <2>4, <2>5 DEF Space!IInv
<1>2. CASE Space!Move(s) /\ ~(Space_live /\ ~Space_shelved)
  <2>1. /\ Space_pc[s] = "move" /\ Space_pc' = [Space_pc EXCEPT ![s] = "idle"]
        /\ UNCHANGED <<Space_today, Space_current, Space_archive, Space_live, Space_lock, Space_doc, Space_late, Space_ops, Space_written, Space_torn>>
    BY <1>2 DEF Space!Move, Space!To
  <2> QED BY <2>1 DEF Space!IInv, Space!TypeOK, Space!Types, Space!Numbered, Space!Carried, Space!Unlinking,
       Space!Lines, Space!Linked, Space!Excused
<1>3. CASE Space!Unlink(s)
  <2>1. Space_pc[s] = "unlink" /\ Space_lock = s /\ \A t \in SpaceSession : Space_pc[t] \in {"archive", "save", "unlink"} => t = s
    BY <1>3 DEF Space!Unlink, Space!IInv, Space!TypeOK
  <2>2. Space!Linked(Space!Parsed(Space_current)) = Space!Linked(Space_current)
    BY SpaceCurrentLines DEF Space!Linked
  <2>3. UNCHANGED <<Space_today, Space_current, Space_archive, Space_live, Space_late, Space_ops, Space_written, Space_torn>>
    BY <1>3 DEF Space!Unlink, Space!files, Space!projectFiles
  <2>4. CASE Space!Linked(Space_current) = {}
    <3>1. Space_pc' = [Space_pc EXCEPT ![s] = "idle"] /\ Space_lock' = Space!Nobody /\ Space_doc' = Space_doc
      BY <1>3, <2>2, <2>4 DEF Space!Unlink, Space!To
    <3>2. Space!TypeOK' /\ Space!Types' /\ Space!Numbered'
      BY <2>1, <2>3, <3>1 DEF Space!IInv, Space!TypeOK, Space!Types, Space!Numbered
    <3>3. Space!Carried'
      BY <2>1, <2>3, <3>1 DEF Space!IInv, Space!Types, Space!Carried, Space!Lines
    <3>4. Space!Unlinking'
      BY <2>1, <2>3, <2>4, <3>1 DEF Space!IInv, Space!Types, Space!Unlinking, Space!Linked, Space!Excused
    <3> QED BY <3>2, <3>3, <3>4 DEF Space!IInv
  <2>5. CASE Space!Linked(Space_current) # {}
    <3> DEFINE gone == {Space!Closed(<<Space_ops, t.name>>, FALSE) : t \in Space!Linked(Space_current)}
    <3> DEFINE d == [Space!Parsed(Space_current) EXCEPT !.threads = @ \ Space!Linked(Space_current), !.closed = @ \cup gone]
    <3>1. Space_pc' = [Space_pc EXCEPT ![s] = "save"] /\ Space_lock' = Space_lock /\ Space_doc' = [Space_doc EXCEPT ![s] = d]
      BY <1>3, <2>2, <2>5 DEF Space!Unlink, Space!To
    <3>2. ASSUME NEW c \in gone PROVE c \in Space!ClosedThread /\ c.n \in (1 .. Space_ops) \X Space!Names
      <4>1. PICK t \in Space_current.threads : c = Space!Closed(<<Space_ops, t.name>>, FALSE)
        BY DEF Space!Linked
      <4>2. t.name \in Space!Names
        BY SpaceCurrentLines, SpaceDocParts DEF SpaceThreadRecord
      <4>3. Space_ops \in 1 .. SpaceMaxOps /\ Space_today \in 0 .. SpaceMaxDay
        BY <2>1, SpaceAssumption DEF Space!IInv, Space!Types, Space!Numbered
      <4> QED BY <4>1, <4>2, <4>3, SpaceAssumption DEF Space!Closed, Space!ClosedThread
    <3>3. d = [threads |-> Space_current.threads \ Space!Linked(Space_current), closed |-> Space!Lines(Space_current) \cup gone, notes |-> Space!Parsed(Space_current).notes]
      <4>1. Space_current.threads \ Space!Linked(Space_current) \in SUBSET SpaceThreadRecord
        BY SpaceCurrentLines
      <4> HIDE DEF gone
      <4> QED BY <4>1, SpaceCurrentLines, SpaceBothEdit
    <3> HIDE DEF gone
    <3>4. d \in Space!CurrentDoc
      BY <3>2, <3>3, SpaceCurrentLines, SpaceDocWhole
    <3>5. Space!Linked(d) = {} /\ Space!Lines(Space_current) \subseteq d.closed
      BY <3>3 DEF Space!Linked
    <3>6. \A c \in d.closed : c.n \in (1 .. Space_ops) \X Space!Names
      BY <3>2, <3>3, SpaceCurrentLines
    <3> HIDE DEF d
    <3>7. Space_doc'[s] = d /\ \A t \in SpaceSession \ {s} : Space_doc'[t] = Space_doc[t] /\ Space_pc'[t] = Space_pc[t]
      BY <3>1 DEF Space!IInv, Space!Types
    <3>8. Space!TypeOK' /\ Space!Types'
      BY <2>1, <2>3, <3>1, <3>4 DEF Space!IInv, Space!TypeOK, Space!Types
    <3>9. Space!Numbered'
      BY <2>1, <2>3, <3>1, <3>6, <3>7 DEF Space!IInv, Space!Types, Space!Numbered
    <3>10. Space!Carried'
      BY <2>1, <2>3, <3>1, <3>5, <3>7 DEF Space!IInv, Space!Types, Space!Carried, Space!Lines
    <3>11. Space!Unlinking'
      BY <2>1, <2>3, <3>1, <3>5, <3>7 DEF Space!IInv, Space!Types, Space!Unlinking, Space!Linked, Space!Excused
    <3> QED BY <3>8, <3>9, <3>10, <3>11 DEF Space!IInv
  <2> QED BY <2>4, <2>5
<1> QED BY <1>1, <1>2, <1>3

(* The operations that take no lock write neither CURRENT.md nor the archive,   *)
(* and remove no project.                                                      *)
LEMMA SpaceFreeStep ==
  ASSUME Space!IInv, NEW s \in SpaceSession, Space_pc[s] \notin {"archive", "save", "unlink"},
         NEW st \in {"idle", "create", "link", "goal", "questions", "move"}, Space_pc' = [Space_pc EXCEPT ![s] = st],
         Space_ops' \in Space_ops .. SpaceMaxOps, Space_ops' >= 1, Space_live' \in {Space_live, TRUE},
         UNCHANGED <<Space_today, Space_current, Space_archive, Space_lock, Space_doc, Space_late, Space_written, Space_torn>>
  PROVE  Space!IInv'
<1>1. Space_ops \in Nat /\ Space_ops' \in Nat /\ Space_ops <= Space_ops' /\ Space_ops' \in 0 .. SpaceMaxOps
  BY SpaceAssumption DEF Space!IInv, Space!Types
<1>2. Space!TypeOK'
  BY <1>1, SpaceStillNumbered DEF Space!IInv, Space!TypeOK, Space!Types
<1>3. Space!Types'
  BY <1>1 DEF Space!IInv, Space!Types
<1>4. Space!Numbered'
  BY <1>1, SpaceStillNumbered DEF Space!IInv, Space!Types, Space!Numbered
<1>5. Space!Carried'
  BY DEF Space!IInv, Space!Types, Space!Carried, Space!Lines
<1>6. Space!Unlinking'
  BY DEF Space!IInv, Space!Types, Space!Unlinking, Space!Linked, Space!Excused
<1> QED BY <1>2, <1>3, <1>4, <1>5, <1>6 DEF Space!IInv

(* The operations of the project.                                              *)
LEMMA SpaceProjectSteps ==
  ASSUME Space!IInv, NEW s \in SpaceSession,
         Space!CreateProject(s) \/ Space!UpdateGoal(s) \/ Space!CheckArchive(s) \/ Space!Ask(s) \/ Space!Resolve(s) \/ Space!WriteQuestions(s)
  PROVE  Space!IInv'
<1>1. /\ Space_pc[s] \in {"idle", "create", "goal", "questions"}
      /\ \E st \in {"idle", "create", "link", "goal", "questions", "move"} : Space_pc' = [Space_pc EXCEPT ![s] = st]
      /\ UNCHANGED <<Space_today, Space_current, Space_archive, Space_lock, Space_doc, Space_late, Space_written, Space_torn>>
      /\ \/ Space_pc[s] = "idle" /\ Space_ops < SpaceMaxOps /\ Space_ops' = Space_ops + 1
         \/ Space_pc[s] # "idle" /\ Space_ops' = Space_ops
  BY DEF Space!CreateProject, Space!UpdateGoal, Space!CheckArchive, Space!Ask, Space!Resolve,
       Space!WriteQuestions, Space!First, Space!Then, Space!Begin, Space!To, Space!NoLock
<1>2. Space_live' \in {Space_live, TRUE}
  BY DEF Space!CreateProject, Space!UpdateGoal, Space!CheckArchive, Space!Ask, Space!Resolve,
       Space!WriteQuestions
<1>3. Space_ops' \in Space_ops .. SpaceMaxOps /\ Space_ops' >= 1
  BY <1>1, SpaceAssumption DEF Space!IInv, Space!Types, Space!Numbered
<1> QED BY <1>1, <1>2, <1>3, SpaceFreeStep

(* A killed session loses no line that it does not account for.                *)
LEMMA SpaceKillStep ==
  ASSUME Space!IInv, NEW s \in SpaceSession, Space!Kill(s)
  PROVE  Space!IInv'
<1>1. /\ Space_pc[s] # "idle" /\ Space_pc' = [Space_pc EXCEPT ![s] = "idle"] /\ Space_lock' = IF Space_lock = s THEN Space!Nobody ELSE Space_lock
      /\ Space_doc' = [Space_doc EXCEPT ![s] = Space!Empty] /\ Space_late' = [Space_late EXCEPT ![s] = {}]
      /\ UNCHANGED <<Space_today, Space_live, Space_ops, Space_written>>
  BY DEF Space!Kill, Space!To
<1>2. \/ UNCHANGED <<Space_current, Space_archive>> /\ Space_torn \subseteq Space_torn' /\ (Space!Dangling => Space!HalfMoved \in Space_torn')
      \/ Space_pc[s] = "archive" /\ Space_archive' = {} /\ UNCHANGED Space_current /\ Space_torn' = Space_torn \cup {c.n : c \in Space_archive}
      \/ Space_pc[s] = "save" /\ Space_current' = Space!Empty /\ UNCHANGED Space_archive /\ Space_torn' = Space_torn \cup {c.n : c \in Space_current.closed}
  BY DEF Space!Kill
<1>3. Space!Dangling <=> ~Space_live /\ Space!Linked(Space_current) # {}
  BY DEF Space!Dangling, Space!Linked
<1>4. \A t \in SpaceSession : Space_pc[t] \in {"archive", "save", "unlink"} => Space_lock = t
  BY DEF Space!IInv, Space!TypeOK
<1>5. Space!TypeOK' /\ Space!Types'
  BY <1>1, <1>2, SpaceEmptyDoc DEF Space!IInv, Space!TypeOK, Space!Types
<1>6. Space!Numbered'
  BY <1>1, SpaceEmptyDoc DEF Space!IInv, Space!Types, Space!Numbered
<1>7. ASSUME NEW t \in SpaceSession, Space_pc'[t] \in {"archive", "save", "unlink"}
      PROVE  /\ t # s /\ Space_pc'[t] = Space_pc[t] /\ Space_doc'[t] = Space_doc[t] /\ Space_late'[t] = Space_late[t]
             /\ UNCHANGED <<Space_current, Space_archive>> /\ Space_torn \subseteq Space_torn'
  <2>1. t # s /\ Space_pc'[t] = Space_pc[t] /\ Space_doc'[t] = Space_doc[t] /\ Space_late'[t] = Space_late[t]
    BY <1>1, <1>7 DEF Space!IInv, Space!Types
  <2>2. Space_pc[s] \notin {"archive", "save"}
    BY <1>4, <1>7, <2>1
  <2> QED BY <1>2, <2>1, <2>2
<1>8. Space!Carried'
  <2>1. ASSUME NEW n \in Space_written' \ Space_torn' PROVE \E c \in Space!Lines(Space_current)' \cup Space_archive' : c.n = n
    <3>1. n \in Space_written \ Space_torn
      BY <1>1, <1>2
    <3>2. PICK c \in Space!Lines(Space_current) \cup Space_archive : c.n = n
      BY <3>1 DEF Space!IInv, Space!Carried
    <3>3. CASE UNCHANGED <<Space_current, Space_archive>>
      BY <3>2, <3>3 DEF Space!Lines
    <3>4. CASE Space_pc[s] = "archive" /\ UNCHANGED Space_current /\ Space_torn' = Space_torn \cup {x.n : x \in Space_archive}
      BY <3>2, <3>4 DEF Space!Lines
    <3>5. CASE Space_pc[s] = "save" /\ UNCHANGED Space_archive /\ Space_torn' = Space_torn \cup {x.n : x \in Space_current.closed}
      BY <3>2, <3>5 DEF Space!Lines
    <3> QED BY <1>2, <3>3, <3>4, <3>5
  <2>2. ASSUME NEW t \in SpaceSession, Space_pc'[t] \in {"archive", "save"}
        PROVE  /\ Space_pc'[t] = "archive" => Space!Lines(Space_current)' \subseteq Space_doc'[t].closed \cup Space_late'[t]
               /\ Space_pc'[t] = "save" => Space!Lines(Space_current)' \subseteq Space_doc'[t].closed \cup Space_archive'
    BY <1>7, <2>2 DEF Space!IInv, Space!Carried, Space!Lines
  <2> QED BY <2>1, <2>2 DEF Space!Carried
<1>9. Space!Unlinking'
  <2>1. Space!Excused => Space!Excused'
    BY <1>1, <1>2 DEF Space!Excused
  <2>2. ASSUME NEW t \in SpaceSession, Space_pc'[t] \in {"archive", "save"} PROVE Space!Linked(Space_doc'[t]) = {} \/ Space!Excused'
    BY <1>7, <2>1, <2>2 DEF Space!IInv, Space!Unlinking
  <2>3. Space!Linked(Space_current') = {} \/ Space!Excused'
    <3>1. CASE Space_current' = Space_current /\ (Space!Dangling => Space!HalfMoved \in Space_torn')
      BY <1>1, <1>3, <3>1 DEF Space!Excused
    <3>2. CASE Space_pc[s] = "archive" /\ Space_current' = Space_current
      BY <1>3, <1>4, <2>1, <3>2 DEF Space!IInv, Space!Unlinking
    <3>3. CASE Space_current' = Space!Empty
      BY <3>3, SpaceEmptyDoc
    <3> QED BY <1>2, <3>1, <3>2, <3>3
  <2> QED BY <2>2, <2>3 DEF Space!Unlinking, Space!Linked
<1> QED BY <1>5, <1>6, <1>8, <1>9 DEF Space!IInv

(* No step of any session loses a line or strands a thread.                    *)
LEMMA SpaceNextIInv == Space!IInv /\ [Space!Next]_Space!vars => Space!IInv'
<1> SUFFICES ASSUME Space!IInv, [Space!Next]_Space!vars PROVE Space!IInv'
  OBVIOUS
<1>1. ASSUME NEW s \in SpaceSession, Space!WorkThread(s) \/ Space!Jot(s) \/ Space!Link(s) PROVE Space!IInv'
  BY <1>1, SpaceThreadSteps
<1>2. ASSUME NEW s \in SpaceSession, Space!AppendToArchive(s) \/ Space!WriteCurrent(s) PROVE Space!IInv'
  BY <1>2, SpaceWriteSteps
<1>3. ASSUME NEW s \in SpaceSession, Space!ArchiveProject(s) PROVE Space!IInv'
  BY <1>3, SpaceMoveSteps, SpaceProjectSteps DEF Space!ArchiveProject
<1>4. ASSUME NEW s \in SpaceSession, Space!CreateProject(s) \/ Space!UpdateGoal(s) \/ Space!Ask(s) \/ Space!Resolve(s) \/ Space!WriteQuestions(s)
      PROVE  Space!IInv'
  BY <1>4, SpaceProjectSteps
<1>5. ASSUME NEW s \in SpaceSession, Space!Kill(s) PROVE Space!IInv'
  BY <1>5, SpaceKillStep
<1>6. CASE Space!NewDay \/ UNCHANGED Space!vars
  <2>1. /\ UNCHANGED <<Space_current, Space_archive, Space_live, Space_lock, Space_pc, Space_doc, Space_late, Space_ops, Space_written, Space_torn>>
        /\ (Space_today' = Space_today \/ (Space_today' = Space_today + 1 /\ Space_today < SpaceMaxDay))
    BY <1>6 DEF Space!NewDay, Space!vars, Space!files, Space!projectFiles
  <2>2. Space!TypeOK' /\ Space!Types' /\ Space!Numbered'
    BY <2>1, SpaceAssumption DEF Space!IInv, Space!TypeOK, Space!Types, Space!Numbered
  <2>3. Space!Carried' /\ Space!Unlinking'
    BY <2>1 DEF Space!IInv, Space!Carried, Space!Unlinking, Space!Lines, Space!Linked, Space!Excused
  <2> QED BY <2>2, <2>3 DEF Space!IInv
<1> QED BY <1>1, <1>2, <1>3, <1>4, <1>5, <1>6 DEF Space!Next

(* What the invariant says of the threads.                                     *)
LEMMA SpaceHolds == Space!IInv => Space!TypeOK /\ Space!ThreadsStand
<1> SUFFICES ASSUME Space!IInv PROVE Space!ThreadsStand
  BY DEF Space!IInv
<1>1. Space!ClosedKept
  BY DEF Space!IInv, Space!Carried, Space!ClosedKept, Space!Lines
<1>2. Space!LinkedAlive
  BY SpaceCurrentLines DEF Space!LinkedAlive, Space!Dangling, Space!Linked, Space!Excused
<1> QED BY <1>1, <1>2 DEF Space!ThreadsStand

(* workspace.py: a thread listed as closed stays in CURRENT.md or goes to the archive,   *)
(* and no open thread is left with a project that is gone, for any sessions and kills.   *)
THEOREM ThreadsAlwaysStand == Spec => []ThreadsStand
<1> DEFINE Inv == part = "workspace" => Space!IInv
<1>1. Init => Inv
  BY SpaceInitIInv DEF Init
<1>2. Inv /\ [Next]_vars => Inv'
  <2>1. ASSUME part = "workspace", Space!IInv, [Next]_vars PROVE Space!IInv'
    BY <2>1, SpaceNextIInv DEF Next, vars, Space!vars, Space!files, Space!projectFiles
  <2>2. [Next]_vars => part' = part
    BY DEF Next, vars
  <2> QED BY <2>1, <2>2
<1>3. Inv => ThreadsStand
  BY SpaceHolds DEF ThreadsStand
<1> QED
  BY <1>1, <1>2, <1>3, PTL DEF Spec

HIDE DEF Space_today, Space_current, Space_archive, Space_live, Space_shelved, Space_questions,
  Space_lock, Space_pc, Space_doc, Space_late, Space_copy, Space_ops, Space_written, Space_torn,
  Space_kills

-----------------------------------------------------------------------------
(* Todos. *)
Todo_file == x1
Todo_tmp == x2
Todo_holder == x3
Todo_pc == x4
Todo_mine == x5
Todo_events == x6
USE DEF Todo_file, Todo_tmp, Todo_holder, Todo_pc, Todo_mine, Todo_events

(* Sets have one cardinality, inside and outside of Todos. *)
LEMMA TodoCardinality == \A S : Todo!Cardinality(S) = Cardinality(S)
BY DEF Todo!Cardinality, Cardinality
USE TodoCardinality

(* No call has begun.                                                          *)
LEMMA TodoInitIInv == Todo!Init => Todo!IInv
BY DEF Todo!Init, Todo!IInv, Todo!Types, Todo!Filled

(* A call moves its own temporary file, and puts there only what it will save. *)
LEMMA TodoNextIInv == Todo!IInv /\ [Todo!Next]_Todo!vars => Todo!IInv'
<1> SUFFICES ASSUME Todo!IInv, [Todo!Next]_Todo!vars PROVE Todo!IInv'
  OBVIOUS
<1> USE DEF Todo!IInv, Todo!Types, Todo!Filled, Todo!TmpOf, Todo!Step
<1>1. CASE Todo!HandEdit
  BY <1>1 DEF Todo!HandEdit
<1>2. CASE Todo!Kill
  BY <1>2 DEF Todo!Kill
<1>3. ASSUME NEW c \in TodoCaller, Todo!WriteTodos(c) \/ Todo!UpdateTodo(c) PROVE Todo!IInv'
  <2>1. /\ \E list : Todo_mine' = [Todo_mine EXCEPT ![c] = list]
        /\ Todo_pc' = [Todo_pc EXCEPT ![c] = "open"] /\ Todo_tmp' = Todo_tmp
    BY <1>3 DEF Todo!WriteTodos, Todo!UpdateTodo, Todo!Save
  <2> QED BY <2>1
<1>4. ASSUME NEW c \in TodoCaller, Todo!OpenTmp(c) PROVE Todo!IInv'
  BY <1>4 DEF Todo!OpenTmp
<1>5. ASSUME NEW c \in TodoCaller, Todo!FillTmp(c) PROVE Todo!IInv'
  BY <1>5 DEF Todo!FillTmp
<1>6. ASSUME NEW c \in TodoCaller, Todo!Lock(c) PROVE Todo!IInv'
  BY <1>6 DEF Todo!Lock
<1>7. ASSUME NEW c \in TodoCaller, Todo!Replace(c) PROVE Todo!IInv'
  BY <1>7 DEF Todo!Replace
<1>8. ASSUME NEW c \in TodoCaller, Todo!Return(c) PROVE Todo!IInv'
  BY <1>8 DEF Todo!Return
<1>9. CASE UNCHANGED Todo!vars
  BY <1>9 DEF Todo!vars
<1> QED
  BY <1>1, <1>2, <1>3, <1>4, <1>5, <1>6, <1>7, <1>8, <1>9 DEF Todo!Next

(* Only the move saves, and what it moves is the call's own list.              *)
LEMMA TodoHolds == Todo!IInv /\ [Todo!Next]_Todo!vars => Todo!SaveStep
<1> SUFFICES ASSUME Todo!IInv, [Todo!Next]_Todo!vars, NEW c \in TodoCaller, Todo_pc[c] = "replace", Todo_pc'[c] = "saved"
             PROVE  Todo_file' = Todo_mine[c]
  BY DEF Todo!SaveStep
<1>1. ASSUME NEW d \in TodoCaller, Todo!Replace(d) PROVE Todo_file' = Todo_mine[c]
  <2>1. Todo_pc'[c] = "saved" /\ Todo_pc[c] # "saved"
    OBVIOUS
  <2>2. d = c
    BY <1>1, <2>1 DEF Todo!Replace, Todo!Step, Todo!IInv, Todo!Types
  <2>3. Todo_file' = Todo_tmp[Todo!TmpOf(c)] \/ Todo_pc'[c] = "idle"
    BY <1>1, <2>2 DEF Todo!Replace, Todo!Step, Todo!IInv, Todo!Types
  <2> QED BY <2>1, <2>3 DEF Todo!IInv, Todo!Filled
<1>2. CASE UNCHANGED Todo_pc
  BY <1>2
<1>3. ASSUME NEW d \in TodoCaller, NEW st \in {"open", "fill", "lock", "replace", "idle"}, Todo_pc' = [Todo_pc EXCEPT ![d] = st]
      PROVE  FALSE
  BY <1>3 DEF Todo!IInv, Todo!Types
<1>4. CASE Todo!Kill
  BY <1>4 DEF Todo!Kill
<1> QED
  BY <1>1, <1>2, <1>3, <1>4 DEF Todo!Next, Todo!vars, Todo!HandEdit, Todo!WriteTodos, Todo!UpdateTodo,
       Todo!Save, Todo!OpenTmp, Todo!FillTmp, Todo!Lock, Todo!Return, Todo!Step

(* todos.py: whoever else saves, and whatever a killed process left, what a call puts in *)
(* todos.json is exactly its own list.                                                  *)
THEOREM ListsAreSavedWhole == Spec => SavedWhole
<1> DEFINE Inv == part = "todos" => Todo!IInv
<1>1. Init => Inv
  BY TodoInitIInv DEF Init
<1>2. [Next]_vars => part' = part
  BY DEF Next, vars
<1>3. ASSUME part = "todos", [Next]_vars PROVE [Todo!Next]_Todo!vars
  BY <1>3 DEF Next, vars, Todo!vars
<1>4. Inv /\ [Next]_vars => Inv'
  BY <1>2, <1>3, TodoNextIInv
<1>5. Inv /\ [Next]_vars => [part = "todos" => Todo!SaveStep]_vars
  BY <1>3, TodoHolds
<1> QED
  BY <1>1, <1>4, <1>5, PTL DEF Spec, SavedWhole

HIDE TodoCardinality
HIDE DEF Todo_file, Todo_tmp, Todo_holder, Todo_pc, Todo_mine, Todo_events

-----------------------------------------------------------------------------
(* FileTools. *)
Files_tree == x1
Files_mounted == x2
Files_first == x3
Files_batch == x4
Files_granted == x5
Files_seen == x6
Files_answers == x7
USE DEF Files_tree, Files_mounted, Files_first, Files_batch, Files_granted, Files_seen,
  Files_answers

(* Sets have one cardinality, inside and outside of FileTools. *)
LEMMA FilesCardinality == \A S : Files!Cardinality(S) = Cardinality(S)
BY DEF Files!Cardinality, Cardinality
USE FilesCardinality

(* A tool leaves a tree.                                                       *)
LEMMA FilesPuts == ASSUME NEW t, DOMAIN t = Files!Path, NEW p, NEW text PROVE DOMAIN Files!Put(t, p, text).tree = Files!Path
BY DEF Files!Put
LEMMA FilesParents == ASSUME NEW t, NEW p PROVE DOMAIN Files!MakeParents(t, p) = Files!Path
BY DEF Files!MakeParents
LEMMA FilesFails == ASSUME NEW t PROVE Files!Failed(t).tree = t
BY DEF Files!Failed
LEMMA FilesEditKeeps == ASSUME NEW t, DOMAIN t = Files!Path, NEW c, NEW s PROVE DOMAIN Files!EditFile(t, c, s).tree = Files!Path
BY FilesPuts, FilesFails DEF Files!EditFile
LEMMA FilesWriteKeeps == ASSUME NEW t, DOMAIN t = Files!Path, NEW c, NEW s PROVE DOMAIN Files!WriteFile(t, c, s).tree = Files!Path
BY FilesPuts, FilesParents, FilesFails DEF Files!WriteFile
LEMMA FilesAppendKeeps == ASSUME NEW t, DOMAIN t = Files!Path, NEW c, NEW s PROVE DOMAIN Files!AppendFile(t, c, s).tree = Files!Path
BY FilesPuts, FilesParents, FilesFails DEF Files!AppendFile
LEMMA FilesMkdirKeeps == ASSUME NEW t, DOMAIN t = Files!Path, NEW c, NEW s PROVE DOMAIN Files!Mkdir(t, c, s).tree = Files!Path
BY FilesParents, FilesFails DEF Files!Mkdir
LEMMA FilesDeleteKeeps == ASSUME NEW t, DOMAIN t = Files!Path, NEW c, NEW s PROVE DOMAIN Files!DeletePath(t, c, s).tree = Files!Path
BY FilesFails DEF Files!DeletePath
LEMMA FilesMoveKeeps == ASSUME NEW t, DOMAIN t = Files!Path, NEW c, NEW s PROVE DOMAIN Files!MovePath(t, c, s).tree = Files!Path
BY FilesFails DEF Files!MovePath
LEMMA FilesCopyKeeps == ASSUME NEW t, DOMAIN t = Files!Path, NEW c, NEW s PROVE DOMAIN Files!CopyPath(t, c, s).tree = Files!Path
BY FilesFails DEF Files!CopyPath, Files!Graft
LEMMA FilesActKeeps ==
  ASSUME NEW t, DOMAIN t = Files!Path, NEW c, Files!Mutates(c), NEW s
  PROVE  DOMAIN Files!Act(t, c, s).tree = Files!Path
<1>1. CASE ~s.ok
  BY <1>1, FilesFails DEF Files!Act
<1>2. CASE s.ok
  BY <1>2, FilesEditKeeps, FilesWriteKeeps, FilesAppendKeeps, FilesMkdirKeeps, FilesDeleteKeeps, FilesMoveKeeps,
       FilesCopyKeeps DEF Files!Act, Files!Mutates
<1> QED BY <1>1, <1>2

-----------------------------------------------------------------------------
(* f gives the trees after each of the first n calls.                          *)
FilesSteps(m, b, t, n, f) == f = [k \in 0 .. n |-> IF k = 0 THEN t ELSE Files!Whole(m, f[k - 1], b[k].call).tree]

(* One call more.                                                              *)
LEMMA FilesOneMore ==
  ASSUME NEW m, NEW b, NEW t, NEW n \in Nat, NEW f, FilesSteps(m, b, t, n, f)
  PROVE  \E g : FilesSteps(m, b, t, n + 1, g)
<1> DEFINE g == [k \in 0 .. n + 1 |-> IF k = n + 1 THEN Files!Whole(m, f[n], b[n + 1].call).tree ELSE f[k]]
<1>1. \A k \in 0 .. n : f[k] = IF k = 0 THEN t ELSE Files!Whole(m, f[k - 1], b[k].call).tree
  BY DEF FilesSteps
<1>2. ASSUME NEW k \in 0 .. n + 1 PROVE g[k] = IF k = 0 THEN t ELSE Files!Whole(m, g[k - 1], b[k].call).tree
  <2>1. CASE k = n + 1
    <3>1. k # 0 /\ k - 1 = n /\ n # n + 1 /\ n \in 0 .. n + 1
      BY <2>1
    <3> QED BY <2>1, <3>1
  <2>2. CASE k \in 0 .. n /\ k # 0
    <3>1. k # n + 1 /\ k - 1 # n + 1 /\ k - 1 \in 0 .. n + 1
      BY <2>2
    <3> QED BY <1>1, <2>2, <3>1
  <2>3. CASE k = 0
    BY <1>1, <2>3
  <2> QED BY <2>1, <2>2, <2>3
<1>3. g = [k \in 0 .. n + 1 |-> g[k]]
  OBVIOUS
<1> HIDE DEF g
<1>4. g = [k \in 0 .. n + 1 |-> IF k = 0 THEN t ELSE Files!Whole(m, g[k - 1], b[k].call).tree]
  BY <1>2, <1>3
<1> QED BY <1>4 DEF FilesSteps

(* A turn's calls leave trees, one after the other.                            *)
LEMMA FilesHasSteps ==
  ASSUME NEW m, NEW b, NEW t, NEW l \in Nat
  PROVE  \E f : FilesSteps(m, b, t, l, f)
<1> DEFINE D == {n \in 0 .. l : ~ \E f : FilesSteps(m, b, t, n, f)}
<1>1. D \in SUBSET Nat
  OBVIOUS
<1>2. D = {}
  <2> SUFFICES ASSUME D # {} PROVE FALSE
    OBVIOUS
  <2>1. PICK d \in D : \A e \in D : d <= e
    <3> HIDE DEF D
    <3> QED BY <1>1, HasLowest
  <2>2. d \in 0 .. l /\ ~ \E f : FilesSteps(m, b, t, d, f)
    BY <2>1
  <2>3. CASE d = 0
    <3> DEFINE f == [k \in 0 .. 0 |-> t]
    <3>1. f = [k \in 0 .. 0 |-> IF k = 0 THEN t ELSE Files!Whole(m, f[k - 1], b[k].call).tree]
      OBVIOUS
    <3>2. FilesSteps(m, b, t, 0, f)
      BY <3>1 DEF FilesSteps
    <3> QED BY <2>2, <2>3, <3>2
  <2>4. CASE d # 0
    <3>1. d - 1 \in 0 .. l /\ ~(d <= d - 1) /\ (d - 1) + 1 = d /\ d - 1 \in Nat
      BY <2>2, <2>4
    <3>2. d - 1 \notin D
      BY <2>1, <3>1
    <3>3. PICK f : FilesSteps(m, b, t, d - 1, f)
      BY <3>1, <3>2
    <3>4. \E g : FilesSteps(m, b, t, (d - 1) + 1, g)
      <4> DEFINE n == d - 1
      <4>1. n \in Nat /\ FilesSteps(m, b, t, n, f)
        BY <3>1, <3>3
      <4> HIDE DEF n
      <4>2. \E g : FilesSteps(m, b, t, n + 1, g)
        BY <4>1, FilesOneMore
      <4> QED BY <4>2 DEF n
    <3> QED BY <2>2, <3>1, <3>4
  <2> QED BY <2>3, <2>4
<1> QED BY <1>2

(* The trees after the calls, in their order.                                  *)
LEMMA FilesInOrderIs ==
  ASSUME NEW m, NEW b, NEW t, Len(b) \in Nat
  PROVE  /\ Files!InOrder(m, b, t)[0] = t
         /\ \A n \in 1 .. Len(b) : Files!InOrder(m, b, t)[n] = Files!Whole(m, Files!InOrder(m, b, t)[n - 1], b[n].call).tree
<1> DEFINE g == Files!InOrder(m, b, t)
<1>0. Files!InOrder(m, b, t) = [n \in 0 .. Len(b) |-> IF n = 0 THEN t ELSE Files!Whole(m, Files!InOrder(m, b, t)[n - 1], b[n].call).tree]
  <2>1. PICK f : FilesSteps(m, b, t, Len(b), f)
    BY FilesHasSteps
  <2>2. f = [n \in 0 .. Len(b) |-> IF n = 0 THEN t ELSE Files!Whole(m, f[n - 1], b[n].call).tree]
    BY <2>1 DEF FilesSteps
  <2> HIDE DEF g
  <2> QED BY Zenon, <2>2 DEF Files!InOrder
<1> HIDE DEF g
<1>1. g = [n \in 0 .. Len(b) |-> IF n = 0 THEN t ELSE Files!Whole(m, g[n - 1], b[n].call).tree]
  BY <1>0 DEF g
<1>2. \A n \in 0 .. Len(b) : g[n] = IF n = 0 THEN t ELSE Files!Whole(m, g[n - 1], b[n].call).tree
  BY <1>1
<1>3. g[0] = t /\ \A n \in 1 .. Len(b) : g[n] = Files!Whole(m, g[n - 1], b[n].call).tree
  BY <1>2
<1> QED BY <1>3 DEF g

(* Calls that change nothing leave the tree that was there.                    *)
LEMMA FilesUnchanged ==
  ASSUME NEW m, NEW b, NEW t, Len(b) \in Nat, \A i \in 1 .. Len(b) : ~Files!Mutates(b[i].call)
  PROVE  \A n \in 0 .. Len(b) : Files!InOrder(m, b, t)[n] = t
<1> DEFINE D == {n \in 0 .. Len(b) : Files!InOrder(m, b, t)[n] # t}
<1> SUFFICES ASSUME D # {} PROVE FALSE
  OBVIOUS
<1>1. D \in SUBSET Nat
  OBVIOUS
<1>2. PICK d \in D : \A e \in D : d <= e
  <2> HIDE DEF D
  <2> QED BY <1>1, HasLowest
<1>3. d \in 0 .. Len(b) /\ Files!InOrder(m, b, t)[d] # t
  BY <1>2
<1>4. d # 0
  BY <1>3, FilesInOrderIs
<1>5. d - 1 \in 0 .. Len(b) /\ ~(d <= d - 1) /\ d \in 1 .. Len(b)
  BY <1>3, <1>4
<1>6. d - 1 \notin D
  BY <1>2, <1>5
<1>7. Files!InOrder(m, b, t)[d - 1] = t /\ ~Files!Mutates(b[d].call)
  BY <1>5, <1>6
<1>8. Files!InOrder(m, b, t)[d] = Files!Whole(m, t, b[d].call).tree
  BY <1>5, <1>7, FilesInOrderIs
<1> QED BY <1>3, <1>7, <1>8 DEF Files!Whole

-----------------------------------------------------------------------------
(* The calls of the turn have numbers.                                         *)
LEMMA FilesNumbers == ASSUME Files!TypeOK PROVE Len(Files_batch) \in Nat /\ DOMAIN Files_batch = 1 .. Len(Files_batch)
BY DEF Files!TypeOK

(* The turn has not begun.                                                     *)
LEMMA FilesInitIInv == Files!Init => Files!IInv
<1> SUFFICES ASSUME Files!Init PROVE Files!IInv
  OBVIOUS
<1>1. /\ Files_tree = Files_first /\ Files_batch = <<>> /\ Files_seen = <<>> /\ Files_answers = <<>> /\ DOMAIN Files_tree = Files!Path
      /\ DOMAIN Files_batch = {}
  BY FilesAssumption DEF Files!Init
<1>2. Files!TypeOK /\ Files!Looked
  BY <1>1 DEF Files!TypeOK, Files!Looked
<1> QED BY <1>1, <1>2 DEF Files!IInv, Files!OneByOne, Files!AtOnce, Files!Answered, Files!HasMutation

(* The turn begins with the tree as it is, and with nothing looked up or answered. *)
LEMMA FilesBegins == ASSUME Files!IInv, Files!Turn PROVE Files!IInv'
<1>1. PICK n \in 1 .. FilesMaxBatch, b \in UNION {[1 .. m -> Files!Entry] : m \in 1 .. FilesMaxBatch} :
        /\ b \in [1 .. n -> Files!Entry] /\ Files_batch' = b
        /\ Files_answers' = [i \in DOMAIN b |-> Files!Pending] /\ Files_seen' = [i \in DOMAIN b |-> Files!Nothing]
  BY DEF Files!Turn
<1>2. /\ n \in Nat /\ Files_batch' \in Seq(Files!Entry) /\ Len(Files_batch') = n /\ DOMAIN Files_batch' = 1 .. n /\ Files_batch = <<>>
      /\ UNCHANGED <<Files_tree, Files_mounted, Files_first, Files_granted>>
  BY <1>1, FilesAssumption DEF Files!Turn
<1>3. Files!TypeOK'
  BY <1>1, <1>2 DEF Files!IInv, Files!TypeOK, Files!Entry
<1>9. Files!Looked'
  BY <1>1, <1>2 DEF Files!Looked
<1>4. \A i \in 1 .. n : Files_answers'[i] = Files!Pending /\ Files_seen'[i] = Files!Nothing
  BY <1>1
<1>5. ASSUME ~Files_granted PROVE Files_tree = Files_first
  <2>1. ~Files!HasMutation(Files_batch)
    BY <1>2 DEF Files!HasMutation
  <2> QED BY <1>5, <2>1 DEF Files!IInv, Files!AtOnce
<1>6. ASSUME ~Files_granted, NEW i \in 1 .. n, Files_batch'[i].spawn PROVE ~Files!Mutates(Files_batch'[i].call)
  <2>1. Files_batch'[i] \in Files!Entry
    BY <1>1, <1>6
  <2> QED BY <1>6, <2>1 DEF Files!Entry
<1>7. ASSUME ~Files_granted PROVE Files!OneByOne'
  <2>1. Files!InOrder(Files_mounted', Files_batch', Files_first')[0] = Files_first'
    BY <1>2, FilesInOrderIs
  <2>2. ASSUME NEW m \in 0 .. Len(Files_batch'), Files!Until(m + 1)' PROVE m = 0
    <3>1. CASE m \in 1 .. n
      <4>1. (m + 1) - 1 = m
        BY <1>2
      <4>2. Files!Ended(m)'
        BY <2>2, <3>1, <4>1 DEF Files!Until
      <4> QED BY <1>4, <3>1, <4>2 DEF Files!Ended
    <3> QED BY <1>2, <3>1
  <2> QED BY <1>2, <1>4, <1>5, <1>7, <2>1, <2>2 DEF Files!OneByOne, Files!Ended
<1>8. ASSUME ~Files_granted PROVE Files!AtOnce' /\ Files!Answered'
  BY <1>2, <1>4, <1>5, <1>8 DEF Files!AtOnce, Files!Answered, Files!Ended
<1> QED BY <1>2, <1>3, <1>6, <1>7, <1>8, <1>9 DEF Files!IInv

(* A call that changes the tree takes its turn.                                *)
LEMMA FilesWholeIs ==
  ASSUME NEW m, NEW t, NEW c
  PROVE  /\ ~Files!Mutates(c) => Files!Whole(m, t, c).tree = t /\ Files!Whole(m, t, c).answer = Files!Answer(m, t, c)
         /\ Files!Mutates(c) => /\ Files!Whole(m, t, c).tree = Files!Act(t, c, Files!Look(m, t, c)).tree
                          /\ Files!Whole(m, t, c).answer = [ok |-> Files!Act(t, c, Files!Look(m, t, c)).ok, answer |-> {}]
BY DEF Files!Whole

(* With sub-agents that only read, a turn without a mutating call has no call that mutates. *)
LEMMA FilesReads ==
  ASSUME Files!IInv, ~Files_granted, ~Files!HasMutation(Files_batch)
  PROVE  \A i \in DOMAIN Files_batch : ~Files!Mutates(Files_batch[i].call)
BY DEF Files!IInv, Files!HasMutation, Files!EntryMutates

(* One by one, a call that may run is the next of the turn.                    *)
LEMMA FilesNextOf ==
  ASSUME Files!IInv, ~Files_granted, Files!HasMutation(Files_batch), NEW i \in DOMAIN Files_batch, Files!Runs(i)
  PROVE  /\ Files!Until(i) /\ ~Files!Ended(i) /\ \A j \in i .. Len(Files_batch) : ~Files!Ended(j)
         /\ Files_tree = Files!InOrder(Files_mounted, Files_batch, Files_first)[i - 1]
         /\ \A j \in DOMAIN Files_batch : j # i => Files_seen[j] = Files!Nothing
<1>1. i \in 1 .. Len(Files_batch) /\ Len(Files_batch) \in Nat /\ DOMAIN Files_batch = 1 .. Len(Files_batch)
  BY FilesNumbers DEF Files!IInv
<1>2. Files!Until(i) /\ ~Files!Ended(i)
  BY DEF Files!Runs, Files!Until
<1>3. ASSUME NEW j \in 1 .. Len(Files_batch), j > i PROVE ~Files!Until(j)
  <2>1. i \in 1 .. j - 1
    BY <1>1, <1>3
  <2> QED BY <1>2, <2>1 DEF Files!Until
<1>4. \A j \in i .. Len(Files_batch) : ~Files!Ended(j)
  <2> SUFFICES ASSUME NEW j \in i .. Len(Files_batch), Files!Ended(j) PROVE FALSE
    OBVIOUS
  <2>1. j \in 1 .. Len(Files_batch) /\ j # i
    BY <1>1, <1>2
  <2>2. Files!Until(j)
    BY <1>1, <2>1 DEF Files!IInv, Files!OneByOne
  <2> QED BY <1>1, <1>3, <2>1, <2>2
<1>5. Files_tree = Files!InOrder(Files_mounted, Files_batch, Files_first)[i - 1]
  <2>1. i - 1 \in 0 .. Len(Files_batch) /\ (i - 1) + 1 = i
    BY <1>1
  <2>2. Files!Until((i - 1) + 1) /\ \A j \in (i - 1) + 1 .. Len(Files_batch) : ~Files!Ended(j)
    BY <1>2, <1>4, <2>1
  <2> QED BY <2>1, <2>2 DEF Files!IInv, Files!OneByOne
<1>6. ASSUME NEW j \in DOMAIN Files_batch, j # i, Files_seen[j] # Files!Nothing PROVE FALSE
  <2>1. Files!Until(j) /\ ~Files!Ended(j)
    BY <1>6 DEF Files!IInv, Files!OneByOne
  <2>2. j < i
    BY <1>1, <1>3, <1>6, <2>1
  <2>3. j \in 1 .. i - 1
    BY <1>1, <1>6, <2>2
  <2> QED BY <1>2, <2>1, <2>3 DEF Files!Until
<1> QED BY <1>2, <1>4, <1>5, <1>6

(* One by one, a call that is done leaves and answers what it does when it is whole. *)
LEMMA FilesFinishes ==
  ASSUME Files!IInv, ~Files_granted, Files!HasMutation(Files_batch), NEW i \in DOMAIN Files_batch, Files!Runs(i), Files!TypeOK', Files!Looked',
         UNCHANGED <<Files_mounted, Files_first, Files_batch, Files_granted>>,
         NEW w, w = Files!Whole(Files_mounted, Files_tree, Files_batch[i].call),
         Files_tree' = w.tree, Files_answers' = [Files_answers EXCEPT ![i] = w.answer],
         w.answer = Files!Pending => w.tree = Files_tree,
         \A j \in DOMAIN Files_batch : Files_seen'[j] = IF j = i THEN Files!Nothing ELSE Files_seen[j]
  PROVE  Files!IInv'
<1>1. i \in 1 .. Len(Files_batch) /\ Len(Files_batch) \in Nat /\ DOMAIN Files_batch = 1 .. Len(Files_batch) /\ DOMAIN Files_answers = DOMAIN Files_batch
  BY FilesNumbers DEF Files!IInv, Files!TypeOK
<1>2. /\ Files!Until(i) /\ ~Files!Ended(i) /\ (\A j \in i .. Len(Files_batch) : ~Files!Ended(j))
      /\ Files_tree = Files!InOrder(Files_mounted, Files_batch, Files_first)[i - 1] /\ \A j \in DOMAIN Files_batch : j # i => Files_seen[j] = Files!Nothing
  BY FilesNextOf
<1>3. \A j \in DOMAIN Files_batch : Files_seen'[j] = Files!Nothing
  BY <1>2
<1>4. Files_answers'[i] = w.answer /\ \A j \in DOMAIN Files_batch : j # i => Files_answers'[j] = Files_answers[j]
  BY <1>1
<1>5. \A j \in DOMAIN Files_batch : j # i => (Files!Ended(j)' <=> Files!Ended(j))
  BY <1>4 DEF Files!Ended
<1>6. Files!HasMutation(Files_batch)' /\ Files!InOrder(Files_mounted, Files_batch, Files_first)' = Files!InOrder(Files_mounted, Files_batch, Files_first)
  BY DEF Files!HasMutation
<1>7. \A j \in 1 .. i : Files!Until(j)'
  <2> SUFFICES ASSUME NEW j \in 1 .. i, NEW k \in 1 .. j - 1 PROVE Files!Ended(k)'
    BY DEF Files!Until
  <2>1. k \in 1 .. i - 1 /\ k \in DOMAIN Files_batch /\ k # i
    BY <1>1
  <2> QED BY <1>2, <1>5, <2>1 DEF Files!Until
<1>8. \A j \in DOMAIN Files_batch : Files!Ended(j)' => Files!Until(j)'
  <2> SUFFICES ASSUME NEW j \in DOMAIN Files_batch, Files!Ended(j)' PROVE Files!Until(j)'
    OBVIOUS
  <2>1. j \in 1 .. i
    BY <1>1, <1>2, <1>5
  <2> QED BY <1>7, <2>1
<1>9. ASSUME NEW n \in 0 .. Len(Files_batch), Files!Until(n + 1)', \A j \in n + 1 .. Len(Files_batch) : ~Files!Ended(j)'
      PROVE  Files_tree' = Files!InOrder(Files_mounted, Files_batch, Files_first)[n]
  <2>1. (n + 1) - 1 = n /\ \A j \in 1 .. n : Files!Ended(j)'
    <3>1. (n + 1) - 1 = n
      BY <1>1
    <3> QED BY <1>9, <3>1 DEF Files!Until
  <2>2. CASE w.answer = Files!Pending
    <3>1. ~Files!Ended(i)'
      BY <1>4, <2>2 DEF Files!Ended
    <3>2. n < i
      BY <1>1, <2>1, <3>1
    <3>3. ~(n < i - 1)
      <4> SUFFICES ASSUME n < i - 1 PROVE FALSE
        OBVIOUS
      <4>1. n + 1 \in 1 .. i - 1 /\ n + 1 \in n + 1 .. Len(Files_batch) /\ n + 1 # i /\ n + 1 \in DOMAIN Files_batch
        BY <1>1
      <4>2. Files!Ended(n + 1)
        BY <1>2, <4>1 DEF Files!Until
      <4> QED BY <1>5, <1>9, <4>1, <4>2
    <3>4. n = i - 1
      BY <1>1, <3>2, <3>3
    <3> QED BY <1>2, <2>2, <3>4
  <2>3. CASE w.answer # Files!Pending
    <3>1. Files!Ended(i)'
      BY <1>4, <2>3 DEF Files!Ended
    <3>2. ~(n < i)
      BY <1>1, <1>9, <3>1
    <3>3. ~(n > i)
      <4> SUFFICES ASSUME n > i PROVE FALSE
        OBVIOUS
      <4>1. n \in 1 .. n /\ n \in i .. Len(Files_batch) /\ n \in DOMAIN Files_batch /\ n # i
        BY <1>1
      <4> QED BY <1>2, <1>5, <2>1, <4>1
    <3>4. n = i
      BY <1>1, <3>2, <3>3
    <3>5. Files!InOrder(Files_mounted, Files_batch, Files_first)[i] = Files!Whole(Files_mounted, Files!InOrder(Files_mounted, Files_batch, Files_first)[i - 1], Files_batch[i].call).tree
      BY <1>1, FilesInOrderIs
    <3> QED BY <1>2, <3>4, <3>5
  <2> QED BY <2>2, <2>3
<1>10. Files!OneByOne'
  BY <1>3, <1>6, <1>8, <1>9 DEF Files!OneByOne
<1>11. Files!Answered'
  <2> SUFFICES ASSUME NEW j \in DOMAIN Files_batch, Files!Ended(j)'
               PROVE  Files_answers'[j] = Files!Whole(Files_mounted, Files!InOrder(Files_mounted, Files_batch, Files_first)[j - 1], Files_batch[j].call).answer
    BY <1>6 DEF Files!Answered
  <2>1. CASE j = i
    BY <1>2, <1>4, <2>1
  <2>2. CASE j # i
    BY <1>4, <1>5, <2>2 DEF Files!IInv, Files!Answered
  <2> QED BY <2>1, <2>2
<1>12. Files!AtOnce'
  BY <1>6 DEF Files!AtOnce
<1> QED BY <1>10, <1>11, <1>12 DEF Files!IInv

(* A call that reads answers what it finds.                                    *)
LEMMA FilesAnswers == ASSUME Files!IInv, NEW i \in DOMAIN Files_batch, Files!Reading(i) PROVE Files!IInv'
<1> DEFINE c == Files_batch[i].call
           w == Files!Whole(Files_mounted, Files_tree, c)
<1>1. /\ Files!Runs(i) /\ ~Files!Mutates(c) /\ Files_answers' = [Files_answers EXCEPT ![i] = Files!Answer(Files_mounted, Files_tree, c)]
      /\ UNCHANGED <<Files_tree, Files_mounted, Files_first, Files_batch, Files_granted, Files_seen>>
  BY DEF Files!Reading
<1>2. w.tree = Files_tree /\ w.answer = Files!Answer(Files_mounted, Files_tree, c)
  BY <1>1 DEF Files!Whole
<1>3. Files!TypeOK' /\ Files!Looked'
  BY <1>1 DEF Files!IInv, Files!TypeOK, Files!Looked, Files!Entry
<1>4. CASE Files_granted
  BY <1>1, <1>3, <1>4 DEF Files!IInv
<1>5. CASE ~Files_granted /\ Files!HasMutation(Files_batch)
  <2>1. Files_seen[i] = Files!Nothing
    BY <1>1 DEF Files!IInv, Files!Looked
  <2>2. Files_tree' = w.tree /\ Files_answers' = [Files_answers EXCEPT ![i] = w.answer] /\ (w.answer = Files!Pending => w.tree = Files_tree)
    BY <1>1, <1>2
  <2>3. \A j \in DOMAIN Files_batch : Files_seen'[j] = IF j = i THEN Files!Nothing ELSE Files_seen[j]
    BY <1>1, <2>1
  <2> HIDE DEF w
  <2>4. w = Files!Whole(Files_mounted, Files_tree, Files_batch[i].call)
    BY DEF w
  <2> QED BY <1>1, <1>3, <1>5, <2>2, <2>3, <2>4, FilesFinishes
<1>6. CASE ~Files_granted /\ ~Files!HasMutation(Files_batch)
  <2>1. ~Files!HasMutation(Files_batch)' /\ Files!AtOnce'
    BY <1>1, <1>6 DEF Files!IInv, Files!AtOnce, Files!HasMutation
  <2>2. Files!OneByOne'
    BY <2>1 DEF Files!OneByOne
  <2>3. Files!Answered'
    <3> SUFFICES ASSUME NEW j \in DOMAIN Files_batch, Files!Ended(j)'
                 PROVE  Files_answers'[j] = Files!Whole(Files_mounted, Files!InOrder(Files_mounted, Files_batch, Files_first)[j - 1], Files_batch[j].call).answer
      BY <1>1 DEF Files!Answered
    <3>1. Len(Files_batch) \in Nat /\ DOMAIN Files_batch = 1 .. Len(Files_batch) /\ DOMAIN Files_answers = DOMAIN Files_batch
      BY FilesNumbers DEF Files!IInv, Files!TypeOK
    <3>2. Files_tree = Files_first /\ \A k \in 1 .. Len(Files_batch) : ~Files!Mutates(Files_batch[k].call)
      BY <1>6, <3>1, FilesReads DEF Files!IInv, Files!AtOnce
    <3>3. CASE j = i
      <4>1. Files!InOrder(Files_mounted, Files_batch, Files_first)[i - 1] = Files_tree
        <5>1. i - 1 \in 0 .. Len(Files_batch)
          BY <3>1
        <5> QED BY <3>1, <3>2, <5>1, FilesUnchanged
      <4>2. Files_answers'[i] = w.answer
        BY <1>1, <1>2, <3>1
      <4> QED BY <3>3, <4>1, <4>2
    <3>4. CASE j # i
      <4>1. Files_answers'[j] = Files_answers[j] /\ Files!Ended(j)
        BY <1>1, <3>1, <3>4 DEF Files!Ended
      <4> QED BY <1>6, <4>1 DEF Files!IInv, Files!Answered
    <3> QED BY <3>3, <3>4
  <2> QED BY <1>1, <1>3, <2>1, <2>2, <2>3 DEF Files!IInv
<1> QED BY <1>4, <1>5, <1>6

(* What the next call looks up it finds unchanged when it acts.                *)
LEMMA FilesLooks == ASSUME Files!IInv, NEW i \in DOMAIN Files_batch, Files!Looking(i) PROVE Files!IInv'
<1> DEFINE c == Files_batch[i].call
<1>1. /\ Files!Runs(i) /\ Files!Mutates(c) /\ Files_seen' = [Files_seen EXCEPT ![i] = Files!Look(Files_mounted, Files_tree, c)]
      /\ UNCHANGED <<Files_tree, Files_mounted, Files_first, Files_batch, Files_granted, Files_answers>>
  BY DEF Files!Looking
<1>2. Files!TypeOK' /\ Files!Looked'
  <2>1. Files!TypeOK'
    BY <1>1 DEF Files!IInv, Files!TypeOK, Files!Entry
  <2>2. \A j \in DOMAIN Files_batch : j = i \/ Files_seen'[j] = Files_seen[j]
    BY <1>1 DEF Files!IInv, Files!TypeOK
  <2> QED BY <1>1, <2>1, <2>2 DEF Files!IInv, Files!Looked
<1>3. CASE Files_granted
  BY <1>1, <1>2, <1>3 DEF Files!IInv
<1>4. CASE ~Files_granted
  <2>1. Files!HasMutation(Files_batch)
    BY <1>1, <1>4, FilesReads
  <2>2. Files!Until(i) /\ ~Files!Ended(i)
    BY <1>1, <1>4, <2>1, FilesNextOf
  <2>3. \A j \in DOMAIN Files_batch : Files_seen'[j] = IF j = i THEN Files!Look(Files_mounted, Files_tree, c) ELSE Files_seen[j]
    BY <1>1 DEF Files!IInv, Files!TypeOK
  <2>4. /\ (\A j : Files!Until(j)' <=> Files!Until(j)) /\ (\A j : Files!Ended(j)' <=> Files!Ended(j))
        /\ Files!InOrder(Files_mounted, Files_batch, Files_first)' = Files!InOrder(Files_mounted, Files_batch, Files_first) /\ Files!HasMutation(Files_batch)'
    BY <1>1, <2>1 DEF Files!Until, Files!Ended, Files!HasMutation
  <2>5. Files!OneByOne'
    BY <1>1, <1>4, <2>1, <2>2, <2>3, <2>4 DEF Files!IInv, Files!OneByOne
  <2>6. Files!AtOnce' /\ Files!Answered'
    BY <1>1, <1>4, <2>4 DEF Files!IInv, Files!AtOnce, Files!Answered, Files!Ended
  <2> QED BY <1>1, <1>2, <1>4, <2>5, <2>6 DEF Files!IInv
<1> QED BY <1>3, <1>4

(* A call that acts does so on what it looked at.                              *)
LEMMA FilesActs == ASSUME Files!IInv, NEW i \in DOMAIN Files_batch, Files!Acting(i) PROVE Files!IInv'
<1> DEFINE c == Files_batch[i].call
           w == Files!Whole(Files_mounted, Files_tree, c)
           done == Files!Act(Files_tree, c, Files_seen[i])
<1>1. /\ Files!Runs(i) /\ Files_seen[i] # Files!Nothing /\ Files_tree' = done.tree
      /\ Files_answers' = [Files_answers EXCEPT ![i] = [ok |-> done.ok, answer |-> {}]] /\ Files_seen' = [Files_seen EXCEPT ![i] = Files!Nothing]
      /\ UNCHANGED <<Files_mounted, Files_first, Files_batch, Files_granted>>
  BY DEF Files!Acting
<1>2. Files!Mutates(c)
  BY <1>1 DEF Files!IInv, Files!Looked
<1>3. Files!TypeOK' /\ Files!Looked'
  <2>1. DOMAIN Files_tree' = Files!Path
    BY <1>1, <1>2, FilesActKeeps DEF Files!IInv, Files!TypeOK
  <2>2. Files!TypeOK'
    BY <1>1, <2>1 DEF Files!IInv, Files!TypeOK, Files!Entry
  <2>3. \A j \in DOMAIN Files_batch : Files_seen'[j] = Files!Nothing \/ Files_seen'[j] = Files_seen[j]
    BY <1>1 DEF Files!IInv, Files!TypeOK
  <2> QED BY <1>1, <2>2, <2>3 DEF Files!IInv, Files!Looked
<1>4. CASE Files_granted
  BY <1>1, <1>3, <1>4 DEF Files!IInv
<1>5. CASE ~Files_granted
  <2>1. Files!HasMutation(Files_batch)
    BY <1>1, <1>5 DEF Files!IInv, Files!AtOnce
  <2>2. Files!Mutates(c) /\ Files_seen[i] = Files!Look(Files_mounted, Files_tree, c)
    BY <1>1, <1>2, <1>5, <2>1 DEF Files!IInv, Files!OneByOne
  <2>3. w.tree = done.tree /\ w.answer = [ok |-> done.ok, answer |-> {}]
    BY <2>2, FilesWholeIs
  <2>4. w.answer # Files!Pending
    BY <2>3 DEF Files!Pending
  <2>5. \A j \in DOMAIN Files_batch : Files_seen'[j] = IF j = i THEN Files!Nothing ELSE Files_seen[j]
    BY <1>1 DEF Files!IInv, Files!TypeOK
  <2>6. Files_tree' = w.tree /\ Files_answers' = [Files_answers EXCEPT ![i] = w.answer]
    BY <1>1, <2>3
  <2> HIDE DEF w
  <2>7. w = Files!Whole(Files_mounted, Files_tree, Files_batch[i].call)
    BY DEF w
  <2> QED BY <1>1, <1>3, <1>5, <2>1, <2>2, <2>4, <2>5, <2>6, <2>7, FilesFinishes
<1> QED BY <1>4, <1>5

(* Every call keeps the order.                                                 *)
LEMMA FilesNextIInv == Files!IInv /\ [Files!Next]_Files!vars => Files!IInv'
<1> SUFFICES ASSUME Files!IInv, [Files!Next]_Files!vars PROVE Files!IInv'
  OBVIOUS
<1>1. CASE UNCHANGED Files!vars
  BY <1>1 DEF Files!vars, Files!IInv, Files!TypeOK, Files!Looked, Files!Entry, Files!OneByOne, Files!AtOnce,
       Files!Answered, Files!Until, Files!Ended, Files!HasMutation
<1> QED BY <1>1, FilesBegins, FilesAnswers, FilesLooks, FilesActs DEF Files!Next, Files!Execute

(* When all calls have answered, they have done so in their order.             *)
LEMMA FilesHolds == Files!IInv => Files!TypeOK /\ Files!TurnsAreDeterministic
<1> SUFFICES ASSUME Files!IInv, Files!Over, ~Files_granted PROVE Files!AsInOrder
  BY DEF Files!IInv, Files!TurnsAreDeterministic
<1>1. Len(Files_batch) \in Nat /\ DOMAIN Files_batch = 1 .. Len(Files_batch)
  BY FilesNumbers DEF Files!IInv
<1>2. \A i \in DOMAIN Files_batch : Files_answers[i] = Files!Whole(Files_mounted, Files!InOrder(Files_mounted, Files_batch, Files_first)[i - 1], Files_batch[i].call).answer
  BY DEF Files!IInv, Files!Answered, Files!Over
<1>3. CASE Files!HasMutation(Files_batch)
  <2>1. Len(Files_batch) \in 0 .. Len(Files_batch) /\ (Len(Files_batch) + 1) - 1 = Len(Files_batch)
    BY <1>1
  <2>2. Files!Until(Len(Files_batch) + 1) /\ \A j \in Len(Files_batch) + 1 .. Len(Files_batch) : ~Files!Ended(j)
    BY <1>1, <2>1 DEF Files!Until, Files!Over
  <2>3. Files_tree = Files!InOrder(Files_mounted, Files_batch, Files_first)[Len(Files_batch)]
    BY <1>3, <2>1, <2>2 DEF Files!IInv, Files!OneByOne
  <2> QED BY <1>2, <2>3 DEF Files!AsInOrder
<1>4. CASE ~Files!HasMutation(Files_batch)
  <2>1. Files_tree = Files_first /\ \A k \in 1 .. Len(Files_batch) : ~Files!Mutates(Files_batch[k].call)
    BY <1>1, <1>4, FilesReads DEF Files!IInv, Files!AtOnce
  <2>2. Files!InOrder(Files_mounted, Files_batch, Files_first)[Len(Files_batch)] = Files_tree
    <3>1. Len(Files_batch) \in 0 .. Len(Files_batch)
      BY <1>1
    <3> QED BY <1>1, <2>1, <3>1, FilesUnchanged
  <2> QED BY <1>2, <2>2 DEF Files!AsInOrder
<1> QED BY <1>3, <1>4

(* loop.py, tools/fs: what a turn leaves in the tree and answers is what its calls give in   *)
(* the order the model wrote them, with sub-agents that only read, for any calls, any trees  *)
(* and batches of any length.                                                                *)
THEOREM TurnsAreAlwaysDeterministic == Spec => []TurnsAreDeterministic
<1> DEFINE Inv == part = "files" => Files!IInv
<1>1. Init => Inv
  BY FilesInitIInv DEF Init
<1>2. Inv /\ [Next]_vars => Inv'
  <2>1. ASSUME part = "files", Files!IInv, [Next]_vars PROVE Files!IInv'
    BY <2>1, FilesNextIInv DEF Next, vars, Files!vars
  <2>2. [Next]_vars => part' = part
    BY DEF Next, vars
  <2> QED BY <2>1, <2>2
<1>3. Inv => TurnsAreDeterministic
  BY FilesHolds DEF TurnsAreDeterministic
<1> QED
  BY <1>1, <1>2, <1>3, PTL DEF Spec

HIDE FilesCardinality
HIDE DEF Files_tree, Files_mounted, Files_first, Files_batch, Files_granted, Files_seen,
  Files_answers

-----------------------------------------------------------------------------
(* ToolRuns. *)
Prog_python == x1
Prog_clock == x2
Prog_disk == x3
Prog_scripts == x4
Prog_temps == x5
Prog_orphans == x6
Prog_pc == x7
Prog_call == x8
Prog_serial == x9
Prog_stamp == x10
Prog_pre == x11
Prog_wrote == x12
Prog_alone == x13
Prog_ran == x14
Prog_report == x15
Prog_runs == x16
Prog_events == x17
USE DEF Prog_python, Prog_clock, Prog_disk, Prog_scripts, Prog_temps, Prog_orphans, Prog_pc,
  Prog_call, Prog_serial, Prog_stamp, Prog_pre, Prog_wrote, Prog_alone, Prog_ran, Prog_report,
  Prog_runs, Prog_events

(* Sets have one cardinality, inside and outside of ToolRuns. *)
LEMMA ProgCardinality == \A S : Prog!Cardinality(S) = Cardinality(S)
BY DEF Prog!Cardinality, Cardinality
USE ProgCardinality

(* Sets are finite inside and outside of ToolRuns alike. *)
LEMMA ProgFinite == \A S : Prog!IsFiniteSet(S) <=> IsFiniteSet(S)
BY DEF Prog!IsFiniteSet, IsFiniteSet
USE ProgFinite

(* No program has run.                                                         *)
LEMMA ProgInitIInv == Prog!Init => Prog!IInv
<1> SUFFICES ASSUME Prog!Init PROVE Prog!IInv
  OBVIOUS
<1> USE DEF Prog!Init
<1>1. Prog!Types
  <2>1. DOMAIN Prog_disk = {}
    OBVIOUS
  <2>2. Prog!NoOutput \in Prog!Output /\ Prog!NoReport \in Prog!Report
    <3>1. Prog!NoOutput \in Prog!Output
      BY DEF Prog!NoOutput, Prog!Output
    <3>2. Prog!NoReport \in Prog!Report
      BY DEF Prog!NoReport, Prog!Report
    <3> QED BY <3>1, <3>2
  <2> QED BY <2>1, <2>2, FS_EmptySet DEF Prog!Types
<1>2. ASSUME NEW c \in ProgCaller PROVE Prog!Holding(c) /\ Prog!Standing(Prog_report[c])
  <2>1. Prog!Holding(c)
    BY DEF Prog!Holding, Prog!NoOutput, Prog!Live
  <2>2. 0 \in 0 .. Prog_clock /\ 0 < Prog_clock
    OBVIOUS
  <2>3. Prog!Standing(Prog_report[c])
    BY <2>2, FS_EmptySet DEF Prog!Standing, Prog!NoReport
  <2> QED BY <2>1, <2>3
<1>3. Prog!TempsHeld /\ Prog!FilesReported
  BY DEF Prog!TempsHeld, Prog!FilesReported
<1>4. Prog!Numbered
  BY DEF Prog!Numbered
<1> QED BY <1>1, <1>2, <1>3, <1>4 DEF Prog!IInv, Prog!Running

(* What is put into a directory is there, and the rest stays as it was.         *)
LEMMA ProgPutIs ==
  ASSUME NEW f, NEW x, NEW y
  PROVE  /\ DOMAIN Prog!Put(f, x, y) = DOMAIN f \cup {x} /\ Prog!Put(f, x, y)[x] = y
         /\ \A z \in DOMAIN f : z # x => Prog!Put(f, x, y)[z] = f[z]
BY DEF Prog!Put

(* Files that are stamped in the past stay as they are, and so do the scripts.   *)
ProgKept ==
  /\ Prog_clock <= Prog_clock'
  /\ \A x \in DOMAIN Prog_scripts : x < Prog_clock => x \in DOMAIN Prog_scripts' /\ Prog_scripts'[x] = Prog_scripts[x]
  /\ \A f \in DOMAIN Prog_disk : f[2] # 0 /\ f[2] < Prog_clock => f \in DOMAIN Prog_disk' /\ Prog_disk'[f] = Prog_disk[f]

(* What stays leaves the answers true that were given.                          *)
LEMMA ProgStandingStays ==
  ASSUME Prog!Types, Prog!Types', ProgKept, NEW c \in ProgCaller, Prog!Standing(Prog_report[c]), Prog_report'[c] = Prog_report[c]
  PROVE  Prog!Standing(Prog_report[c])'
<1> DEFINE r == Prog_report[c]
<1>1. r \in Prog!Report /\ Prog_clock \in Nat /\ Prog_clock > 0 /\ Prog_clock' \in Nat /\ Prog_clock' > 0 /\ Prog_clock <= Prog_clock'
  BY DEF Prog!Types, ProgKept
<1>2. /\ r.run # 0 => r.tool \in Prog!Tool
      /\ IsFiniteSet(r.files) /\ (r.alone => r.foreign = {}) /\ (r.reached => r.result = "own")
      /\ r.kept # {} => r.tool # "bash"
  BY DEF Prog!Standing
<1>3. r.script # 0 => r.script < Prog_clock' /\ r.script \in DOMAIN Prog_scripts' /\ Prog_scripts'[r.script] = r.run
  <2>1. r.script # 0 => r.script < Prog_clock /\ r.script \in DOMAIN Prog_scripts /\ Prog_scripts[r.script] = r.run
    BY DEF Prog!Standing
  <2>2. r.script \in Nat
    BY <1>1 DEF Prog!Report
  <2> HIDE DEF r
  <2> QED BY <1>1, <2>1, <2>2 DEF ProgKept
<1>4. PICK k \in 0 .. Prog_clock : k < Prog_clock /\ r.kept \subseteq {<<"stdout", k>>, <<"stderr", k>>} /\ (k = 0 => r.kept = {})
  BY DEF Prog!Standing
<1>5. k \in 0 .. Prog_clock' /\ k < Prog_clock'
  BY <1>1, <1>4
<1>6. ASSUME NEW f \in r.kept PROVE f \in DOMAIN Prog_disk' /\ Prog_disk'[f] = <<r.run, f[1]>>
  <2>1. f[2] = k /\ k # 0 /\ k < Prog_clock
    BY <1>1, <1>4, <1>6
  <2>2. f \in DOMAIN Prog_disk /\ Prog_disk[f] = <<r.run, f[1]>>
    BY <1>6 DEF Prog!Standing
  <2> QED BY <2>1, <2>2 DEF ProgKept
<1> HIDE DEF r
<1>7. Prog!Standing(r)' <=> Prog!Standing(Prog_report[c])'
  BY DEF r
<1>8. r' = r
  BY DEF r
<1>9. Prog!Standing(r)'
  BY <1>2, <1>3, <1>4, <1>5, <1>6, <1>8 DEF Prog!Standing
<1> QED BY <1>7, <1>9

(* A step that leaves the directory and the answers alone.                      *)
LEMMA ProgQuietly ==
  ASSUME Prog!Running, Prog!Types', UNCHANGED <<Prog_clock, Prog_disk, Prog_scripts, Prog_report>>
  PROVE  \A c \in ProgCaller : Prog!Standing(Prog_report[c])'
<1> SUFFICES ASSUME NEW c \in ProgCaller PROVE Prog!Standing(Prog_report[c])'
  OBVIOUS
<1>1. Prog!Types /\ Prog!Standing(Prog_report[c])
  BY DEF Prog!Running
<1>2. ProgKept
  BY <1>1 DEF ProgKept, Prog!Types
<1> QED BY <1>1, <1>2, ProgStandingStays

(* A run that begins has a number, a script and a temporary file of its own.     *)
LEMMA ProgCallStep ==
  ASSUME Prog!Running, NEW c \in ProgCaller, Prog!Call(c)
  PROVE  Prog!Running'
<1>1. PICK source \in ProgSources :
        /\ Prog_call' = [Prog_call EXCEPT ![c] = source] /\ Prog!Save(c, source)
        /\ Prog_stamp' = [Prog_stamp EXCEPT ![c] = IF source.tool = "run_script" THEN Prog_clock ELSE 0]
  BY DEF Prog!Call, Prog!Stamp
<1>2. /\ Prog_pc[c] = "idle" /\ Prog_runs' = Prog_runs + 1 /\ Prog_serial' = [Prog_serial EXCEPT ![c] = Prog_runs']
      /\ Prog_report' = [Prog_report EXCEPT ![c] = Prog!NoReport] /\ Prog_pc' = [Prog_pc EXCEPT ![c] = "saved"]
      /\ UNCHANGED <<Prog_python, Prog_disk, Prog_orphans, Prog_pre, Prog_wrote, Prog_alone, Prog_ran, Prog_events>>
  BY DEF Prog!Call
<1>3. Prog!Types /\ Prog!TempsHeld /\ Prog!FilesReported /\ (\A d \in ProgCaller : Prog!Holding(d) /\ Prog!Standing(Prog_report[d]))
  BY DEF Prog!Running
<1>4. Prog_serial'[c] = Prog_runs' /\ Prog_runs' \in Nat /\ source.tool \in Prog!Tool
  BY <1>1, <1>2, <1>3, ProgAssumption DEF Prog!Types
<1>5. \/ /\ source.tool = "run_script" /\ Prog_scripts' = Prog!Put(Prog_scripts, Prog_clock, Prog_runs')
         /\ Prog_clock' = Prog_clock + 1 /\ Prog_temps' = Prog_temps
      \/ /\ source.tool \in Prog!Composed /\ Prog_temps' = Prog_temps \cup {Prog_runs'} /\ Prog_scripts' = Prog_scripts /\ Prog_clock' = Prog_clock
      \/ /\ source.tool # "run_script" /\ Prog_temps' = Prog_temps /\ Prog_scripts' = Prog_scripts /\ Prog_clock' = Prog_clock
  BY <1>1, <1>4 DEF Prog!Save, Prog!Stamp
<1>6. /\ Prog_clock \in Nat /\ Prog_clock > 0 /\ Prog_clock' \in Nat /\ Prog_clock' > 0 /\ Prog_clock <= Prog_clock'
      /\ source.tool = "run_script" => Prog_clock < Prog_clock' /\ Prog_scripts' = Prog!Put(Prog_scripts, Prog_clock, Prog_runs')
      /\ source.tool # "run_script" => Prog_clock' = Prog_clock /\ Prog_scripts' = Prog_scripts
  BY <1>3, <1>5 DEF Prog!Types, Prog!Composed
<1>7. Prog!NoReport \in Prog!Report
  BY DEF Prog!NoReport, Prog!Report
<1>8. Prog!Types'
  BY <1>1, <1>2, <1>3, <1>4, <1>6, <1>7 DEF Prog!Types
<1>9. \A x \in DOMAIN Prog_scripts : x < Prog_clock => x \in DOMAIN Prog_scripts' /\ Prog_scripts'[x] = Prog_scripts[x]
  <2>1. CASE source.tool = "run_script"
    <3>1. /\ DOMAIN Prog_scripts' = DOMAIN Prog_scripts \cup {Prog_clock}
          /\ \A z \in DOMAIN Prog_scripts : z # Prog_clock => Prog_scripts'[z] = Prog_scripts[z]
      BY <1>6, <2>1 DEF Prog!Put
    <3> QED BY <1>6, <3>1
  <2>2. CASE source.tool # "run_script"
    BY <1>6, <2>2
  <2> QED BY <2>1, <2>2
<1>10. ProgKept
  BY <1>2, <1>6, <1>9 DEF ProgKept
<1>11. ASSUME NEW d \in ProgCaller PROVE Prog!Holding(d)'
  <2>1. Prog!Holding(d) /\ Prog_stamp[d] \in Nat
    BY <1>3 DEF Prog!Types
  <2>2. CASE d = c
    <3>1. /\ Prog_pc'[c] = "saved" /\ Prog_call'[c] = source /\ Prog_ran'[c].value = 0 /\ Prog_wrote'[c] \subseteq DOMAIN Prog_disk'
          /\ Prog_stamp'[c] = IF source.tool = "run_script" THEN Prog_clock ELSE 0
      BY <1>1, <1>2, <1>3, <2>1, <2>2 DEF Prog!Types, Prog!Holding
    <3>2. Prog_stamp'[c] # 0 => Prog_stamp'[c] < Prog_clock' /\ Prog_stamp'[c] \in DOMAIN Prog_scripts' /\ Prog_scripts'[Prog_stamp'[c]] = Prog_serial'[c]
      <4>1. CASE source.tool = "run_script"
        <5>1. Prog_clock \in DOMAIN Prog_scripts' /\ Prog_scripts'[Prog_clock] = Prog_runs'
          BY <1>6, <4>1 DEF Prog!Put
        <5> QED BY <1>4, <1>6, <3>1, <4>1, <5>1
      <4> QED BY <3>1, <4>1
    <3> QED BY <2>2, <3>1, <3>2 DEF Prog!Holding, Prog!Live
  <2>3. CASE d # c
    <3>1. /\ Prog_pc'[d] = Prog_pc[d] /\ Prog_call'[d] = Prog_call[d] /\ Prog_serial'[d] = Prog_serial[d] /\ Prog_stamp'[d] = Prog_stamp[d]
          /\ Prog_report'[d] = Prog_report[d]
      BY <1>1, <1>2, <1>3, <2>3 DEF Prog!Types
    <3> QED BY <1>2, <1>6, <1>9, <2>1, <3>1 DEF Prog!Holding, Prog!Live
  <2> QED BY <2>2, <2>3
<1>12. ASSUME NEW d \in ProgCaller PROVE Prog!Standing(Prog_report[d])'
  <2>1. CASE d = c
    <3>1. Prog_report'[d] = Prog!NoReport
      BY <1>2, <1>3, <2>1 DEF Prog!Types
    <3>2. 0 \in 0 .. Prog_clock' /\ 0 < Prog_clock'
      BY <1>6
    <3> QED BY <3>1, <3>2, FS_EmptySet DEF Prog!Standing, Prog!NoReport
  <2>2. CASE d # c
    <3>1. Prog_report'[d] = Prog_report[d]
      BY <1>2, <1>3, <2>2 DEF Prog!Types
    <3> QED BY <1>3, <1>8, <1>10, <3>1, ProgStandingStays
  <2> QED BY <2>1, <2>2
<1>13. Prog!TempsHeld'
  <2> SUFFICES ASSUME Prog_python, NEW t \in Prog_temps'
               PROVE  \E d \in ProgCaller : /\ Prog_serial'[d] = t /\ Prog_pc'[d] \in {"saved", "running", "ended", "dead"}
                                        /\ Prog_call'[d].tool \in Prog!Composed
    BY <1>2 DEF Prog!TempsHeld
  <2>1. CASE t \in Prog_temps
    <3>1. PICK d \in ProgCaller : /\ Prog_serial[d] = t /\ Prog_pc[d] \in {"saved", "running", "ended", "dead"}
                              /\ Prog_call[d].tool \in Prog!Composed
      BY <1>3, <2>1 DEF Prog!TempsHeld
    <3>2. d # c
      BY <1>2, <3>1
    <3> QED BY <1>1, <1>2, <1>3, <3>1, <3>2 DEF Prog!Types
  <2>2. CASE t \notin Prog_temps
    <3>1. t = Prog_runs' /\ source.tool \in Prog!Composed
      BY <1>5, <2>2
    <3>2. Prog_serial'[c] = t /\ Prog_pc'[c] = "saved" /\ Prog_call'[c].tool \in Prog!Composed
      BY <1>1, <1>2, <1>3, <1>4, <3>1 DEF Prog!Types
    <3> QED BY <3>2
  <2> QED BY <2>1, <2>2
<1>14. Prog!FilesReported'
  BY <1>2, <1>3 DEF Prog!FilesReported, Prog!Types
<1> QED BY <1>8, <1>11, <1>12, <1>13, <1>14 DEF Prog!Running

(* A call that is over holds nothing, and the others hold what they did.         *)
LEMMA ProgForgotten ==
  ASSUME Prog!Types, NEW c \in ProgCaller, Prog!Forget(c)
  PROVE  /\ Prog_pc' \in [ProgCaller -> {"idle", "saved", "running", "ended", "compared", "dead"}]
         /\ Prog_call' \in [ProgCaller -> ProgSources \cup {Prog!NoRun}] /\ Prog_serial' \in [ProgCaller -> Nat] /\ Prog_stamp' \in [ProgCaller -> Nat]
         /\ Prog_pre' \in [ProgCaller -> SUBSET Prog!File] /\ Prog_wrote' \in [ProgCaller -> SUBSET Prog!File] /\ Prog_ran' \in [ProgCaller -> Prog!Output]
         /\ Prog_pc'[c] = "idle" /\ Prog_stamp'[c] = 0 /\ Prog_wrote'[c] = {} /\ Prog_ran'[c].value = 0
         /\ \A d \in ProgCaller : d # c =>
              /\ Prog_pc'[d] = Prog_pc[d] /\ Prog_call'[d] = Prog_call[d] /\ Prog_serial'[d] = Prog_serial[d] /\ Prog_stamp'[d] = Prog_stamp[d]
              /\ Prog_pre'[d] = Prog_pre[d] /\ Prog_wrote'[d] = Prog_wrote[d] /\ Prog_ran'[d] = Prog_ran[d]
<1>1. Prog!NoOutput \in Prog!Output /\ Prog!NoOutput.value = 0
  BY DEF Prog!NoOutput, Prog!Output
<1> QED BY <1>1 DEF Prog!Types, Prog!Forget

(* A call that ends without an answer.                                          *)
LEMMA ProgLeaveStep ==
  ASSUME Prog!Running, NEW c \in ProgCaller, Prog!Forget(c), Prog_pc[c] \in {"saved", "running"},
         Prog_python => Prog_call[c].tool \notin Prog!Composed,
         UNCHANGED <<Prog_python, Prog_clock, Prog_disk, Prog_scripts, Prog_temps, Prog_alone, Prog_report>>, Prog_runs' = Prog_runs
  PROVE  Prog!Running'
<1>1. Prog!Types /\ Prog!TempsHeld /\ Prog!FilesReported /\ (\A d \in ProgCaller : Prog!Holding(d) /\ Prog!Standing(Prog_report[d]))
  BY DEF Prog!Running
<1>2. Prog!Types'
  BY <1>1, ProgForgotten DEF Prog!Types
<1>3. \A d \in ProgCaller : Prog!Standing(Prog_report[d])'
  BY <1>2, ProgQuietly
<1>4. ASSUME NEW d \in ProgCaller PROVE Prog!Holding(d)'
  <2>1. CASE d = c
    BY <1>1, <2>1, ProgForgotten DEF Prog!Holding, Prog!Live
  <2>2. CASE d # c
    BY <1>1, <2>2, ProgForgotten DEF Prog!Holding, Prog!Live
  <2> QED BY <2>1, <2>2
<1>5. Prog!TempsHeld'
  <2> SUFFICES ASSUME Prog_python, NEW t \in Prog_temps
               PROVE  \E d \in ProgCaller : /\ Prog_serial'[d] = t /\ Prog_pc'[d] \in {"saved", "running", "ended", "dead"}
                                        /\ Prog_call'[d].tool \in Prog!Composed
    BY DEF Prog!TempsHeld
  <2>1. PICK d \in ProgCaller : /\ Prog_serial[d] = t /\ Prog_pc[d] \in {"saved", "running", "ended", "dead"}
                            /\ Prog_call[d].tool \in Prog!Composed
    BY <1>1 DEF Prog!TempsHeld
  <2>2. d # c
    BY <2>1
  <2> QED BY <1>1, <2>1, <2>2, ProgForgotten
<1>6. Prog!FilesReported'
  <2> SUFFICES ASSUME NEW d \in ProgCaller, Prog_pc'[d] = "compared", Prog_report[d].tool # "bash"
               PROVE  Prog_wrote'[d] \ Prog_pre'[d] \subseteq Prog_report[d].files
    BY DEF Prog!FilesReported
  <2>1. d # c
    BY <1>1, ProgForgotten
  <2> QED BY <1>1, <2>1, ProgForgotten DEF Prog!FilesReported
<1> QED BY <1>2, <1>3, <1>4, <1>5, <1>6 DEF Prog!Running

(* A program that starts has written nothing yet.                               *)
LEMMA ProgStartStep ==
  ASSUME Prog!Running, NEW c \in ProgCaller, Prog!Start(c)
  PROVE  Prog!Running'
<1>1. Prog!Types /\ Prog!TempsHeld /\ Prog!FilesReported /\ (\A d \in ProgCaller : Prog!Holding(d) /\ Prog!Standing(Prog_report[d]))
  BY DEF Prog!Running
<1>2. /\ Prog_pc[c] = "saved" /\ Prog_pre' = [Prog_pre EXCEPT ![c] = DOMAIN Prog_disk] /\ Prog_wrote' = [Prog_wrote EXCEPT ![c] = {}]
      /\ Prog_alone' = [Prog_alone EXCEPT ![c] = TRUE] /\ Prog_pc' = [Prog_pc EXCEPT ![c] = "running"]
      /\ UNCHANGED <<Prog_python, Prog_clock, Prog_disk, Prog_scripts, Prog_temps, Prog_orphans, Prog_call, Prog_serial, Prog_stamp, Prog_ran, Prog_report, Prog_runs, Prog_events>>
  BY DEF Prog!Start, Prog!SnapshotDir, Prog!request
<1>3. Prog!Types'
  BY <1>1, <1>2 DEF Prog!Types
<1>4. \A d \in ProgCaller : Prog!Standing(Prog_report[d])'
  BY <1>2, <1>3, ProgQuietly
<1>5. ASSUME NEW d \in ProgCaller PROVE Prog!Holding(d)'
  BY <1>1, <1>2 DEF Prog!Holding, Prog!Live, Prog!Types
<1>6. Prog!TempsHeld'
  BY <1>1, <1>2 DEF Prog!TempsHeld, Prog!Types
<1>7. Prog!FilesReported'
  BY <1>1, <1>2 DEF Prog!FilesReported, Prog!Types
<1> QED BY <1>3, <1>4, <1>5, <1>6, <1>7 DEF Prog!Running

(* A killed session holds what it held.                                         *)
LEMMA ProgKillStep ==
  ASSUME Prog!Running, NEW c \in ProgCaller, Prog!Kill(c)
  PROVE  Prog!Running'
<1>1. Prog!Types /\ Prog!TempsHeld /\ Prog!FilesReported /\ (\A d \in ProgCaller : Prog!Holding(d) /\ Prog!Standing(Prog_report[d]))
  BY DEF Prog!Running
<1>2. /\ Prog_pc[c] # "idle" /\ Prog_pc' = [Prog_pc EXCEPT ![c] = "dead"]
      /\ UNCHANGED <<Prog_python, Prog_clock, Prog_disk, Prog_scripts, Prog_temps, Prog_call, Prog_serial, Prog_stamp, Prog_pre, Prog_wrote, Prog_alone, Prog_ran, Prog_report, Prog_runs>>
  BY DEF Prog!Kill, Prog!request
<1>3. Prog!Types'
  BY <1>1, <1>2 DEF Prog!Types
<1>4. \A d \in ProgCaller : Prog!Standing(Prog_report[d])'
  BY <1>2, <1>3, ProgQuietly
<1>5. ASSUME NEW d \in ProgCaller PROVE Prog!Holding(d)'
  BY <1>1, <1>2 DEF Prog!Holding, Prog!Live, Prog!Types
<1>6. Prog!TempsHeld'
  BY <1>1, <1>2 DEF Prog!TempsHeld, Prog!Types
<1>7. Prog!FilesReported'
  BY <1>1, <1>2 DEF Prog!FilesReported, Prog!Types
<1> QED BY <1>3, <1>4, <1>5, <1>6, <1>7 DEF Prog!Running

(* A value is only ever printed where the program is rewritten to print it.     *)
LEMMA ProgRewritten ==
  ASSUME NEW source \in ProgSources, NEW o \in Prog!Output
  PROVE  /\ Prog!RewriteForLastExpr(source, o) \in Prog!Output
         /\ Prog!RewriteForLastExpr(source, o).value > 0 => source.tool \in Prog!Composed
<1>1. CASE ~Prog!Compiles(source)
  <2>1. Prog!RewriteForLastExpr(source, o) = [out |-> 0, err |-> 1, marks |-> FALSE, value |-> 0]
    BY <1>1 DEF Prog!RewriteForLastExpr, Prog!NoOutput
  <2>2. [out |-> 0, err |-> 1, marks |-> FALSE, value |-> 0] \in Prog!Output
    BY DEF Prog!Output
  <2>3. Prog!RewriteForLastExpr(source, o).value = 0
    BY <2>1
  <2> QED BY <2>1, <2>2, <2>3
<1>2. CASE Prog!Compiles(source) /\ Prog!Captures(source)
  BY <1>2 DEF Prog!Captures, Prog!RewriteForLastExpr
<1>3. CASE Prog!Compiles(source) /\ ~Prog!Captures(source)
  BY <1>3 DEF Prog!RewriteForLastExpr, Prog!Output
<1> QED BY <1>1, <1>2, <1>3

(* A program that ends leaves what it printed.                                  *)
LEMMA ProgEndStep ==
  ASSUME Prog!Running, NEW c \in ProgCaller, Prog_pc[c] = "running", NEW o \in Prog!Output, o.value > 0 => Prog_call[c].tool \in Prog!Composed,
         Prog_ran' = [Prog_ran EXCEPT ![c] = o], Prog_pc' = [Prog_pc EXCEPT ![c] = "ended"],
         UNCHANGED <<Prog_python, Prog_clock, Prog_disk, Prog_scripts, Prog_temps, Prog_call, Prog_serial, Prog_stamp, Prog_pre, Prog_wrote, Prog_alone, Prog_report, Prog_runs>>
  PROVE  Prog!Running'
<1>1. Prog!Types /\ Prog!TempsHeld /\ Prog!FilesReported /\ (\A d \in ProgCaller : Prog!Holding(d) /\ Prog!Standing(Prog_report[d]))
  BY DEF Prog!Running
<1>3. Prog!Types'
  BY <1>1 DEF Prog!Types
<1>4. \A d \in ProgCaller : Prog!Standing(Prog_report[d])'
  BY <1>3, ProgQuietly
<1>5. ASSUME NEW d \in ProgCaller PROVE Prog!Holding(d)'
  BY <1>1 DEF Prog!Holding, Prog!Live, Prog!Types
<1>6. Prog!TempsHeld'
  BY <1>1 DEF Prog!TempsHeld, Prog!Types
<1>7. Prog!FilesReported'
  BY <1>1 DEF Prog!FilesReported, Prog!Types
<1> QED BY <1>3, <1>4, <1>5, <1>6, <1>7 DEF Prog!Running

(* Files of a program come and go by no stamp, and the directory stays finite.   *)
LEMMA ProgUnstamped ==
  ASSUME Prog!Types, NEW n \in ProgName, NEW y, Prog_disk' = Prog!Put(Prog_disk, <<n, 0>>, y), Prog_clock' = Prog_clock, Prog_scripts' = Prog_scripts
  PROVE  /\ ProgKept /\ DOMAIN Prog_disk' = DOMAIN Prog_disk \cup {<<n, 0>>}
         /\ DOMAIN Prog_disk' \subseteq Prog!File /\ IsFiniteSet(DOMAIN Prog_disk')
<1>1. DOMAIN Prog_disk' = DOMAIN Prog_disk \cup {<<n, 0>>} /\ \A z \in DOMAIN Prog_disk : z # <<n, 0>> => Prog_disk'[z] = Prog_disk[z]
  BY DEF Prog!Put
<1>2. <<n, 0>> \in Prog!File
  BY DEF Prog!File
<1>3. \A z \in DOMAIN Prog_disk : z[2] # 0 => z # <<n, 0>>
  OBVIOUS
<1>4. ProgKept
  BY <1>1, <1>3 DEF ProgKept, Prog!Types
<1>5. IsFiniteSet(DOMAIN Prog_disk \cup {<<n, 0>>})
  BY FS_AddElement DEF Prog!Types
<1>6. DOMAIN Prog_disk' \subseteq Prog!File
  BY <1>1, <1>2 DEF Prog!Types
<1> QED BY <1>1, <1>4, <1>5, <1>6

(* A program writes a file: its own if it is new, and others are not alone then. *)
LEMMA ProgWriteStep ==
  ASSUME Prog!Running, NEW c \in ProgCaller, Prog!Write(c)
  PROVE  Prog!Running'
<1>1. Prog!Types /\ Prog!TempsHeld /\ Prog!FilesReported /\ (\A d \in ProgCaller : Prog!Holding(d) /\ Prog!Standing(Prog_report[d]))
  BY DEF Prog!Running
<1>2. PICK n \in ProgName :
        /\ Prog_disk' = Prog!Put(Prog_disk, <<n, 0>>, <<Prog_serial[c], "file">>)
        /\ Prog_wrote' = [Prog_wrote EXCEPT ![c] = IF <<n, 0>> \in DOMAIN Prog_disk THEN @ ELSE @ \cup {<<n, 0>>}]
        /\ Prog_alone' = Prog!Disturbed(c, <<n, 0>>)
  BY DEF Prog!Write
<1>3. Prog_pc[c] = "running" /\ UNCHANGED <<Prog_python, Prog_clock, Prog_scripts, Prog_temps, Prog_pc, Prog_call, Prog_serial, Prog_stamp, Prog_pre, Prog_ran, Prog_report, Prog_runs>>
  BY DEF Prog!Write, Prog!request
<1>4. /\ ProgKept /\ DOMAIN Prog_disk' = DOMAIN Prog_disk \cup {<<n, 0>>}
      /\ DOMAIN Prog_disk' \subseteq Prog!File /\ IsFiniteSet(DOMAIN Prog_disk')
  BY <1>1, <1>2, <1>3, ProgUnstamped
<1>5. Prog_alone' \in [ProgCaller -> BOOLEAN]
  BY <1>1, <1>2 DEF Prog!Types, Prog!Disturbed, Prog!Live
<1>6. Prog_wrote' \in [ProgCaller -> SUBSET Prog!File]
  BY <1>1, <1>2, <1>4 DEF Prog!Types
<1>7. Prog!Types'
  BY <1>1, <1>3, <1>4, <1>5, <1>6 DEF Prog!Types
<1>8. \A d \in ProgCaller : Prog!Standing(Prog_report[d])'
  BY <1>1, <1>3, <1>4, <1>7, ProgStandingStays
<1>9. ASSUME NEW d \in ProgCaller PROVE Prog!Holding(d)'
  <2>1. /\ Prog_wrote'[d] \subseteq DOMAIN Prog_disk'
        /\ Prog!Live(d) /\ Prog_alone'[d] => DOMAIN Prog_disk' \ Prog_pre[d] \subseteq Prog_wrote'[d]
    <3>1. Prog_wrote[d] \subseteq DOMAIN Prog_disk /\ (Prog!Live(d) /\ Prog_alone[d] => DOMAIN Prog_disk \ Prog_pre[d] \subseteq Prog_wrote[d])
      BY <1>1 DEF Prog!Holding
    <3>2. CASE <<n, 0>> \in DOMAIN Prog_disk
      <4>1. DOMAIN Prog_disk' = DOMAIN Prog_disk /\ Prog_wrote' = Prog_wrote /\ Prog_alone' = Prog_alone
        BY <1>1, <1>2, <1>4, <3>2 DEF Prog!Disturbed, Prog!Types
      <4> QED BY <3>1, <4>1
    <3>3. CASE <<n, 0>> \notin DOMAIN Prog_disk
      <4>1. Prog_alone'[d] => Prog_alone[d] /\ (d = c \/ ~Prog!Live(d))
        BY <1>1, <1>2, <3>3 DEF Prog!Disturbed, Prog!Types
      <4>2. Prog_wrote'[d] = IF d = c THEN Prog_wrote[d] \cup {<<n, 0>>} ELSE Prog_wrote[d]
        BY <1>1, <1>2, <3>3 DEF Prog!Types
      <4> QED BY <1>4, <3>1, <4>1, <4>2
    <3> QED BY <3>2, <3>3
  <2> QED BY <1>1, <1>3, <2>1 DEF Prog!Holding, Prog!Live
<1>10. Prog!TempsHeld'
  BY <1>1, <1>3 DEF Prog!TempsHeld
<1>11. Prog!FilesReported'
  BY <1>1, <1>2, <1>3 DEF Prog!FilesReported, Prog!Types
<1> QED BY <1>7, <1>8, <1>9, <1>10, <1>11 DEF Prog!Running

(* A program removes a file, whoever wrote it.                                  *)
LEMMA ProgRemoveStep ==
  ASSUME Prog!Running, NEW c \in ProgCaller, Prog!Remove(c)
  PROVE  Prog!Running'
<1>1. Prog!Types /\ Prog!TempsHeld /\ Prog!FilesReported /\ (\A d \in ProgCaller : Prog!Holding(d) /\ Prog!Standing(Prog_report[d]))
  BY DEF Prog!Running
<1>2. PICK file \in DOMAIN Prog_disk :
        /\ file[2] = 0 /\ Prog_disk' = [f \in DOMAIN Prog_disk \ {file} |-> Prog_disk[f]]
        /\ Prog_wrote' = [d \in ProgCaller |-> Prog_wrote[d] \ {file}]
  BY DEF Prog!Remove
<1>3. UNCHANGED <<Prog_python, Prog_clock, Prog_scripts, Prog_temps, Prog_pc, Prog_call, Prog_serial, Prog_stamp, Prog_pre, Prog_alone, Prog_ran, Prog_report, Prog_runs>>
  BY DEF Prog!Remove, Prog!request
<1>4. DOMAIN Prog_disk' = DOMAIN Prog_disk \ {file} /\ \A f \in DOMAIN Prog_disk : f # file => Prog_disk'[f] = Prog_disk[f]
  BY <1>2
<1>5. ProgKept
  BY <1>1, <1>2, <1>3, <1>4 DEF ProgKept, Prog!Types
<1>6. IsFiniteSet(DOMAIN Prog_disk')
  BY <1>1, <1>4, FS_Subset DEF Prog!Types
<1>7. Prog_wrote' \in [ProgCaller -> SUBSET Prog!File] /\ \A d \in ProgCaller : Prog_wrote'[d] = Prog_wrote[d] \ {file}
  BY <1>1, <1>2 DEF Prog!Types
<1>8. Prog!Types'
  BY <1>1, <1>3, <1>4, <1>6, <1>7 DEF Prog!Types
<1>9. \A d \in ProgCaller : Prog!Standing(Prog_report[d])'
  BY <1>1, <1>3, <1>5, <1>8, ProgStandingStays
<1>10. ASSUME NEW d \in ProgCaller PROVE Prog!Holding(d)'
  <2>1. Prog_wrote[d] \subseteq DOMAIN Prog_disk /\ (Prog!Live(d) /\ Prog_alone[d] => DOMAIN Prog_disk \ Prog_pre[d] \subseteq Prog_wrote[d])
    BY <1>1 DEF Prog!Holding
  <2>2. Prog_wrote'[d] \subseteq DOMAIN Prog_disk' /\ (Prog!Live(d) /\ Prog_alone[d] => DOMAIN Prog_disk' \ Prog_pre[d] \subseteq Prog_wrote'[d])
    BY <1>4, <1>7, <2>1
  <2> QED BY <1>1, <1>3, <2>2 DEF Prog!Holding, Prog!Live
<1>11. Prog!TempsHeld'
  BY <1>1, <1>3 DEF Prog!TempsHeld
<1>12. Prog!FilesReported'
  BY <1>1, <1>3, <1>7 DEF Prog!FilesReported
<1> QED BY <1>8, <1>9, <1>10, <1>11, <1>12 DEF Prog!Running

(* A process that outlived its program writes: no run is alone with that.        *)
LEMMA ProgLingerStep ==
  ASSUME Prog!Running, NEW run, Prog!Linger(run)
  PROVE  Prog!Running'
<1>1. Prog!Types /\ Prog!TempsHeld /\ Prog!FilesReported /\ (\A d \in ProgCaller : Prog!Holding(d) /\ Prog!Standing(Prog_report[d]))
  BY DEF Prog!Running
<1>2. PICK n \in ProgName :
        /\ Prog_disk' = Prog!Put(Prog_disk, <<n, 0>>, <<run, "file">>)
        /\ Prog_alone' = IF <<n, 0>> \in DOMAIN Prog_disk THEN Prog_alone ELSE [d \in ProgCaller |-> Prog_alone[d] /\ ~Prog!Live(d)]
  BY DEF Prog!Linger
<1>3. UNCHANGED <<Prog_python, Prog_clock, Prog_scripts, Prog_temps, Prog_pc, Prog_call, Prog_serial, Prog_stamp, Prog_pre, Prog_wrote, Prog_ran, Prog_report, Prog_runs>>
  BY DEF Prog!Linger, Prog!request
<1>4. /\ ProgKept /\ DOMAIN Prog_disk' = DOMAIN Prog_disk \cup {<<n, 0>>}
      /\ DOMAIN Prog_disk' \subseteq Prog!File /\ IsFiniteSet(DOMAIN Prog_disk')
  BY <1>1, <1>2, <1>3, ProgUnstamped
<1>5. Prog_alone' \in [ProgCaller -> BOOLEAN]
  BY <1>1, <1>2 DEF Prog!Types, Prog!Live
<1>7. Prog!Types'
  BY <1>1, <1>3, <1>4, <1>5 DEF Prog!Types
<1>8. \A d \in ProgCaller : Prog!Standing(Prog_report[d])'
  BY <1>1, <1>3, <1>4, <1>7, ProgStandingStays
<1>9. ASSUME NEW d \in ProgCaller PROVE Prog!Holding(d)'
  <2>1. Prog_wrote[d] \subseteq DOMAIN Prog_disk /\ (Prog!Live(d) /\ Prog_alone[d] => DOMAIN Prog_disk \ Prog_pre[d] \subseteq Prog_wrote[d])
    BY <1>1 DEF Prog!Holding
  <2>2. Prog!Live(d) /\ Prog_alone'[d] => Prog_alone[d] /\ DOMAIN Prog_disk' = DOMAIN Prog_disk
    <3>1. CASE <<n, 0>> \in DOMAIN Prog_disk
      BY <1>2, <1>4, <3>1
    <3>2. CASE <<n, 0>> \notin DOMAIN Prog_disk
      <4>1. Prog_alone' = [e \in ProgCaller |-> Prog_alone[e] /\ ~Prog!Live(e)]
        BY <1>2, <3>2
      <4> QED BY <4>1
    <3> QED BY <3>1, <3>2
  <2> QED BY <1>1, <1>3, <1>4, <2>1, <2>2 DEF Prog!Holding, Prog!Live
<1>10. Prog!TempsHeld'
  BY <1>1, <1>3 DEF Prog!TempsHeld
<1>11. Prog!FilesReported'
  BY <1>1, <1>3 DEF Prog!FilesReported
<1> QED BY <1>7, <1>8, <1>9, <1>10, <1>11 DEF Prog!Running

(* What a run reports when its program is over.                                 *)
ProgCompared(c) ==
  [run |-> Prog_serial[c], tool |-> Prog_call[c].tool, out |-> Prog_ran[c].out, err |-> Prog_ran[c].err,
   result |-> Prog!ExtractResult(Prog_call[c], Prog_ran[c]), value |-> Prog_ran[c].value,
   files |-> Prog!FilesCreated(c), foreign |-> Prog!FilesCreated(c) \ Prog_wrote[c], kept |-> {}, script |-> Prog_stamp[c],
   reached |-> Prog_ran[c].value > 0, alone |-> Prog_alone[c]]

(* That is a report, and nothing in it is another's.                            *)
LEMMA ProgComparedIs ==
  ASSUME Prog!Types, NEW c \in ProgCaller, Prog!Holding(c), Prog_pc[c] = "ended"
  PROVE  /\ ProgCompared(c) \in Prog!Report
         /\ ProgCompared(c).tool \in Prog!Tool /\ IsFiniteSet(ProgCompared(c).files)
         /\ ProgCompared(c).alone => ProgCompared(c).foreign = {}
         /\ ProgCompared(c).reached => ProgCompared(c).result = "own"
<1>1. Prog_call[c].tool \in Prog!Tool
  BY ProgAssumption DEF Prog!Holding
<1>2. Prog!FilesCreated(c) \subseteq DOMAIN Prog_disk /\ Prog!FilesCreated(c) \subseteq DOMAIN Prog_disk \ Prog_pre[c]
  BY DEF Prog!FilesCreated
<1>3. IsFiniteSet(Prog!FilesCreated(c))
  BY <1>2, FS_Subset DEF Prog!Types
<1>4. Prog!FilesCreated(c) \subseteq Prog!File
  BY <1>2 DEF Prog!Types
<1>5. /\ Prog_serial[c] \in Nat /\ Prog_stamp[c] \in Nat /\ Prog_alone[c] \in BOOLEAN
      /\ Prog_ran[c].out \in Nat /\ Prog_ran[c].err \in Nat /\ Prog_ran[c].value \in Nat
  BY DEF Prog!Types, Prog!Output
<1>6. Prog!ExtractResult(Prog_call[c], Prog_ran[c]) \in {"none", "own", "printed"}
  BY DEF Prog!ExtractResult
<1>7. Prog_alone[c] => Prog!FilesCreated(c) \ Prog_wrote[c] = {}
  BY <1>2 DEF Prog!Holding, Prog!Live
<1>8. Prog_ran[c].value > 0 => Prog!ExtractResult(Prog_call[c], Prog_ran[c]) = "own"
  BY DEF Prog!ExtractResult, Prog!Holding
<1>9. ProgCompared(c) \in Prog!Report
  BY <1>1, <1>4, <1>5, <1>6 DEF ProgCompared, Prog!Report
<1> QED BY <1>1, <1>3, <1>7, <1>8, <1>9 DEF ProgCompared

(* The directory is compared with what it was.                                  *)
LEMMA ProgCompareStep ==
  ASSUME Prog!Running, NEW c \in ProgCaller, Prog!Compare(c)
  PROVE  Prog!Running'
<1>1. Prog!Types /\ Prog!TempsHeld /\ Prog!FilesReported /\ (\A d \in ProgCaller : Prog!Holding(d) /\ Prog!Standing(Prog_report[d]))
  BY DEF Prog!Running
<1>2. /\ Prog_pc[c] = "ended" /\ Prog_temps' = Prog_temps \ {Prog_serial[c]} /\ Prog_report' = [Prog_report EXCEPT ![c] = ProgCompared(c)]
      /\ Prog_pc' = [Prog_pc EXCEPT ![c] = "compared"]
      /\ UNCHANGED <<Prog_python, Prog_clock, Prog_disk, Prog_scripts, Prog_call, Prog_serial, Prog_stamp, Prog_pre, Prog_wrote, Prog_alone, Prog_ran, Prog_runs>>
  BY DEF Prog!Compare, ProgCompared, Prog!request
<1>3. /\ ProgCompared(c) \in Prog!Report
      /\ ProgCompared(c).tool \in Prog!Tool /\ IsFiniteSet(ProgCompared(c).files)
      /\ ProgCompared(c).alone => ProgCompared(c).foreign = {}
      /\ ProgCompared(c).reached => ProgCompared(c).result = "own"
  BY <1>1, <1>2, ProgComparedIs
<1>4. Prog!Types'
  BY <1>1, <1>2, <1>3 DEF Prog!Types
<1>5. ProgKept
  BY <1>1, <1>2 DEF ProgKept, Prog!Types
<1>6. /\ Prog_report'[c] = ProgCompared(c) /\ Prog_pc'[c] = "compared"
      /\ \A d \in ProgCaller : d # c => Prog_report'[d] = Prog_report[d] /\ Prog_pc'[d] = Prog_pc[d]
  BY <1>1, <1>2 DEF Prog!Types
<1>7. /\ ProgCompared(c).run = Prog_serial[c] /\ ProgCompared(c).tool = Prog_call[c].tool /\ ProgCompared(c).files = Prog!FilesCreated(c)
      /\ ProgCompared(c).kept = {} /\ ProgCompared(c).script = Prog_stamp[c]
  BY DEF ProgCompared
<1>8. ASSUME NEW d \in ProgCaller PROVE Prog!Standing(Prog_report[d])'
  <2>1. CASE d = c
    <3>1. 0 \in 0 .. Prog_clock' /\ 0 < Prog_clock'
      BY <1>1, <1>2 DEF Prog!Types
    <3>2. /\ Prog_stamp[c] # 0 => Prog_stamp[c] < Prog_clock' /\ Prog_stamp[c] \in DOMAIN Prog_scripts' /\ Prog_scripts'[Prog_stamp[c]] = Prog_serial[c]
      BY <1>1, <1>2 DEF Prog!Holding
    <3> QED BY <1>3, <1>6, <1>7, <2>1, <3>1, <3>2 DEF Prog!Standing
  <2>2. CASE d # c
    BY <1>1, <1>4, <1>5, <1>6, <2>2, ProgStandingStays
  <2> QED BY <2>1, <2>2
<1>9. ASSUME NEW d \in ProgCaller PROVE Prog!Holding(d)'
  <2>1. CASE d = c
    BY <1>1, <1>2, <1>6, <1>7, <2>1 DEF Prog!Holding, Prog!Live
  <2>2. CASE d # c
    BY <1>1, <1>2, <1>6, <2>2 DEF Prog!Holding, Prog!Live
  <2> QED BY <2>1, <2>2
<1>10. Prog!TempsHeld'
  <2> SUFFICES ASSUME Prog_python, NEW t \in Prog_temps, t # Prog_serial[c]
               PROVE  \E d \in ProgCaller : /\ Prog_serial[d] = t /\ Prog_pc'[d] \in {"saved", "running", "ended", "dead"}
                                        /\ Prog_call[d].tool \in Prog!Composed
    BY <1>2 DEF Prog!TempsHeld
  <2>1. PICK d \in ProgCaller : /\ Prog_serial[d] = t /\ Prog_pc[d] \in {"saved", "running", "ended", "dead"}
                            /\ Prog_call[d].tool \in Prog!Composed
    BY <1>1 DEF Prog!TempsHeld
  <2> QED BY <1>6, <2>1
<1>11. Prog!FilesReported'
  <2> SUFFICES ASSUME NEW d \in ProgCaller, Prog_pc'[d] = "compared", Prog_report'[d].tool # "bash"
               PROVE  Prog_wrote[d] \ Prog_pre[d] \subseteq Prog_report'[d].files
    BY <1>2 DEF Prog!FilesReported
  <2>1. CASE d = c
    <3>1. Prog!FilesCreated(c) = DOMAIN Prog_disk \ Prog_pre[c]
      BY <1>6, <1>7, <2>1 DEF Prog!FilesCreated
    <3> QED BY <1>1, <1>6, <1>7, <2>1, <3>1 DEF Prog!Holding
  <2>2. CASE d # c
    BY <1>1, <1>6, <2>2 DEF Prog!FilesReported
  <2> QED BY <2>1, <2>2
<1> QED BY <1>4, <1>8, <1>9, <1>10, <1>11 DEF Prog!Running

(* Long streams go to files under a stamp that nothing had before.              *)
LEMMA ProgReturnStep ==
  ASSUME Prog!Running, NEW c \in ProgCaller, Prog!Return(c)
  PROVE  Prog!Running'
<1> DEFINE kept == {<<label, Prog_clock>> : label \in Prog!Long(c)}
<1>1. Prog!Types /\ Prog!TempsHeld /\ Prog!FilesReported /\ (\A d \in ProgCaller : Prog!Holding(d) /\ Prog!Standing(Prog_report[d]))
  BY DEF Prog!Running
<1>2. /\ Prog_pc[c] = "compared" /\ Prog!Forget(c)
      /\ Prog_disk' = [f \in DOMAIN Prog_disk \cup kept |-> IF f \in kept THEN <<Prog_serial[c], f[1]>> ELSE Prog_disk[f]]
      /\ Prog_report' = [Prog_report EXCEPT ![c].kept = kept]
      /\ Prog_alone' = IF kept = {} THEN Prog_alone ELSE [d \in ProgCaller |-> Prog_alone[d] /\ ~Prog!Live(d)]
      /\ Prog_clock' = IF kept = {} THEN Prog_clock ELSE Prog_clock + 1
      /\ Prog_python' = Prog_python /\ Prog_scripts' = Prog_scripts /\ Prog_temps' = Prog_temps /\ Prog_runs' = Prog_runs
  BY DEF Prog!Return, Prog!PreviewWithArtifact, Prog!Stamp
<1>3. Prog!Long(c) \subseteq {"stdout", "stderr"} /\ (Prog!Long(c) # {} => Prog_call[c].tool # "bash")
  BY DEF Prog!Long
<1>4. kept \subseteq {<<"stdout", Prog_clock>>, <<"stderr", Prog_clock>>} /\ \A f \in kept : f[2] = Prog_clock
  BY <1>3
<1>5. kept # {} => Prog!Long(c) # {}
  OBVIOUS
<1> HIDE DEF kept
<1>6. Prog_clock \in Nat /\ Prog_clock > 0 /\ Prog_clock' \in Nat /\ Prog_clock' > 0 /\ Prog_clock <= Prog_clock' /\ (kept # {} => Prog_clock < Prog_clock')
  BY <1>1, <1>2 DEF Prog!Types
<1>7. kept \subseteq Prog!File
  BY <1>4, <1>6 DEF Prog!File
<1>8. IsFiniteSet(kept)
  <2>1. IsFiniteSet({<<"stdout", Prog_clock>>, <<"stderr", Prog_clock>>})
    <3>1. IsFiniteSet({<<"stdout", Prog_clock>>})
      BY FS_Singleton
    <3>2. {<<"stdout", Prog_clock>>, <<"stderr", Prog_clock>>} = {<<"stdout", Prog_clock>>} \cup {<<"stderr", Prog_clock>>}
      OBVIOUS
    <3> QED BY <3>1, <3>2, FS_AddElement
  <2> QED BY <1>4, <2>1, FS_Subset
<1>9. /\ DOMAIN Prog_disk' = DOMAIN Prog_disk \cup kept
      /\ \A f \in kept : Prog_disk'[f] = <<Prog_serial[c], f[1]>>
      /\ \A f \in DOMAIN Prog_disk : f \notin kept => Prog_disk'[f] = Prog_disk[f]
  BY <1>2
<1>10. IsFiniteSet(DOMAIN Prog_disk') /\ DOMAIN Prog_disk' \subseteq Prog!File
  <2>1. IsFiniteSet(DOMAIN Prog_disk) /\ DOMAIN Prog_disk \subseteq Prog!File
    BY <1>1 DEF Prog!Types
  <2>2. IsFiniteSet(DOMAIN Prog_disk \cup kept)
    BY <1>8, <2>1, FS_Union
  <2> QED BY <1>7, <1>9, <2>1, <2>2
<1>11. ProgKept
  <2>1. \A f \in DOMAIN Prog_disk : f[2] < Prog_clock => f \notin kept
    BY <1>4, <1>6
  <2> QED BY <1>2, <1>6, <1>9, <2>1 DEF ProgKept
<1>12. /\ Prog_report'[c] = [Prog_report[c] EXCEPT !.kept = kept] /\ \A d \in ProgCaller : d # c => Prog_report'[d] = Prog_report[d]
  BY <1>1, <1>2 DEF Prog!Types
<1>13. /\ Prog_report'[c].kept = kept /\ Prog_report'[c] \in Prog!Report
       /\ Prog_report'[c].run = Prog_report[c].run /\ Prog_report'[c].tool = Prog_report[c].tool /\ Prog_report'[c].files = Prog_report[c].files
       /\ Prog_report'[c].alone = Prog_report[c].alone /\ Prog_report'[c].foreign = Prog_report[c].foreign
       /\ Prog_report'[c].reached = Prog_report[c].reached /\ Prog_report'[c].result = Prog_report[c].result
       /\ Prog_report'[c].script = Prog_report[c].script
  <2> DEFINE r == Prog_report[c]
             x == [r EXCEPT !.kept = kept]
  <2>1. r \in Prog!Report
    BY <1>1 DEF Prog!Types
  <2>2. Prog_report'[c] = x
    BY <1>12
  <2> HIDE DEF r
  <2>3. /\ x.kept = kept /\ x \in Prog!Report /\ x.run = r.run /\ x.tool = r.tool /\ x.files = r.files
        /\ x.alone = r.alone /\ x.foreign = r.foreign /\ x.reached = r.reached /\ x.result = r.result
        /\ x.script = r.script
    BY <1>7, <2>1 DEF Prog!Report
  <2> HIDE DEF x
  <2> QED BY <2>2, <2>3 DEF r
<1>14. Prog_report' \in [ProgCaller -> Prog!Report]
  BY <1>1, <1>2, <1>7, <1>13 DEF Prog!Types
<1>15. Prog_alone' \in [ProgCaller -> BOOLEAN]
  BY <1>1, <1>2 DEF Prog!Types, Prog!Live
<1>16. Prog!Types'
  BY <1>1, <1>2, <1>6, <1>10, <1>14, <1>15, ProgForgotten DEF Prog!Types
<1>17. ASSUME NEW d \in ProgCaller PROVE Prog!Standing(Prog_report[d])'
  <2>1. CASE d = c
    <3>1. Prog_report[c].run = Prog_serial[c] /\ Prog_report[c].tool = Prog_call[c].tool
      BY <1>1, <1>2 DEF Prog!Holding
    <3>2. Prog!Standing(Prog_report[c])
      BY <1>1
    <3>3. PICK k \in 0 .. Prog_clock' : k < Prog_clock' /\ kept \subseteq {<<"stdout", k>>, <<"stderr", k>>} /\ (k = 0 => kept = {})
      <4>1. CASE kept = {}
        <5>1. 0 \in 0 .. Prog_clock' /\ 0 < Prog_clock'
          BY <1>6
        <5> QED BY <4>1, <5>1
      <4>2. CASE kept # {}
        <5>1. Prog_clock \in 0 .. Prog_clock' /\ Prog_clock < Prog_clock' /\ Prog_clock # 0
          BY <1>6, <4>2
        <5> QED BY <1>4, <5>1
      <4> QED BY <4>1, <4>2
    <3>4. \A f \in kept : f \in DOMAIN Prog_disk' /\ Prog_disk'[f] = <<Prog_report[c].run, f[1]>>
      BY <1>9, <3>1
    <3>5. Prog_report[c].script # 0 => Prog_report[c].script < Prog_clock' /\ Prog_report[c].script \in DOMAIN Prog_scripts'
                                  /\ Prog_scripts'[Prog_report[c].script] = Prog_report[c].run
      <4>1. Prog_report[c].script \in Nat
        BY <1>1 DEF Prog!Types, Prog!Report
      <4>2. Prog_report[c].script # 0 => Prog_report[c].script < Prog_clock /\ Prog_report[c].script \in DOMAIN Prog_scripts
                                    /\ Prog_scripts[Prog_report[c].script] = Prog_report[c].run
        BY <3>2 DEF Prog!Standing
      <4> QED BY <1>2, <1>6, <4>1, <4>2
    <3>6. kept # {} => Prog_report[c].tool # "bash"
      BY <1>3, <1>5, <3>1
    <3>7. /\ Prog_report[c].run # 0 => Prog_report[c].tool \in Prog!Tool
          /\ IsFiniteSet(Prog_report[c].files) /\ (Prog_report[c].alone => Prog_report[c].foreign = {})
          /\ Prog_report[c].reached => Prog_report[c].result = "own"
      BY <3>2 DEF Prog!Standing
    <3>8. Prog!Standing(Prog_report[c])'
      BY <1>13, <3>3, <3>4, <3>5, <3>6, <3>7 DEF Prog!Standing
    <3> QED BY <2>1, <3>8
  <2>2. CASE d # c
    BY <1>1, <1>11, <1>12, <1>16, <2>2, ProgStandingStays
  <2> QED BY <2>1, <2>2
<1>18. ASSUME NEW d \in ProgCaller PROVE Prog!Holding(d)'
  <2>1. CASE d = c
    BY <2>1, ProgForgotten, <1>1, <1>2 DEF Prog!Holding, Prog!Live
  <2>2. CASE d # c
    <3>1. /\ Prog_pc'[d] = Prog_pc[d] /\ Prog_call'[d] = Prog_call[d] /\ Prog_serial'[d] = Prog_serial[d] /\ Prog_stamp'[d] = Prog_stamp[d]
          /\ Prog_pre'[d] = Prog_pre[d] /\ Prog_wrote'[d] = Prog_wrote[d] /\ Prog_ran'[d] = Prog_ran[d] /\ Prog_report'[d] = Prog_report[d]
      BY <1>1, <1>2, <1>12, <2>2, ProgForgotten
    <3>2. Prog!Holding(d) /\ Prog_stamp[d] \in Nat
      BY <1>1 DEF Prog!Types
    <3>3. Prog_wrote'[d] \subseteq DOMAIN Prog_disk' /\ (Prog!Live(d)' /\ Prog_alone'[d] => DOMAIN Prog_disk' \ Prog_pre'[d] \subseteq Prog_wrote'[d])
      <4>1. CASE kept = {}
        BY <1>2, <1>9, <3>1, <3>2, <4>1 DEF Prog!Holding, Prog!Live
      <4>2. CASE kept # {}
        <5>1. Prog_alone'[d] => ~Prog!Live(d)
          BY <1>2, <4>2
        <5> QED BY <1>9, <3>1, <3>2, <5>1 DEF Prog!Holding, Prog!Live
      <4> QED BY <4>1, <4>2
    <3>4. Prog_stamp[d] # 0 => Prog_stamp[d] < Prog_clock'
      BY <1>6, <3>2 DEF Prog!Holding
    <3> QED BY <1>2, <3>1, <3>2, <3>3, <3>4 DEF Prog!Holding
  <2> QED BY <2>1, <2>2
<1>19. Prog!TempsHeld'
  <2> SUFFICES ASSUME Prog_python, NEW t \in Prog_temps
               PROVE  \E d \in ProgCaller : /\ Prog_serial'[d] = t /\ Prog_pc'[d] \in {"saved", "running", "ended", "dead"}
                                        /\ Prog_call'[d].tool \in Prog!Composed
    BY <1>2 DEF Prog!TempsHeld
  <2>1. PICK d \in ProgCaller : /\ Prog_serial[d] = t /\ Prog_pc[d] \in {"saved", "running", "ended", "dead"}
                            /\ Prog_call[d].tool \in Prog!Composed
    BY <1>1 DEF Prog!TempsHeld
  <2>2. d # c
    BY <1>2, <2>1
  <2> QED BY <1>1, <1>2, <2>1, <2>2, ProgForgotten
<1>20. Prog!FilesReported'
  <2> SUFFICES ASSUME NEW d \in ProgCaller, Prog_pc'[d] = "compared", Prog_report'[d].tool # "bash"
               PROVE  Prog_wrote'[d] \ Prog_pre'[d] \subseteq Prog_report'[d].files
    BY DEF Prog!FilesReported
  <2>1. d # c
    BY <1>1, <1>2, ProgForgotten
  <2> QED BY <1>1, <1>2, <1>12, <2>1, ProgForgotten DEF Prog!FilesReported
<1> QED BY <1>16, <1>17, <1>18, <1>19, <1>20 DEF Prog!Running

(* Every step leaves the answers true, and each run with what is its own.        *)
LEMMA ProgRunningNext == Prog!Running /\ [Prog!Next]_Prog!vars => Prog!Running'
<1> SUFFICES ASSUME Prog!Running, [Prog!Next]_Prog!vars PROVE Prog!Running'
  OBVIOUS
<1>1. ASSUME NEW c \in ProgCaller, Prog!Call(c) PROVE Prog!Running'
  BY <1>1, ProgCallStep
<1>2. ASSUME NEW c \in ProgCaller, Prog!Raise(c) PROVE Prog!Running'
  <2>1. /\ Prog_pc[c] = "saved" /\ Prog!Forget(c) /\ ~Prog_python
        /\ UNCHANGED <<Prog_python, Prog_clock, Prog_disk, Prog_scripts, Prog_temps, Prog_alone, Prog_report>> /\ Prog_runs' = Prog_runs
    BY <1>2 DEF Prog!Raise, Prog!Missing
  <2> QED BY <2>1, ProgLeaveStep
<1>3. ASSUME NEW c \in ProgCaller, Prog!Start(c) PROVE Prog!Running'
  BY <1>3, ProgStartStep
<1>4. ASSUME NEW c \in ProgCaller, Prog!Write(c) PROVE Prog!Running'
  BY <1>4, ProgWriteStep
<1>5. ASSUME NEW c \in ProgCaller, Prog!Remove(c) PROVE Prog!Running'
  BY <1>5, ProgRemoveStep
<1>6. ASSUME NEW c \in ProgCaller, Prog!Exit(c) PROVE Prog!Running'
  <2>1. PICK o \in ProgOutputs : Prog_ran' = [Prog_ran EXCEPT ![c] = Prog!RewriteForLastExpr(Prog_call[c], o)]
    BY <1>6 DEF Prog!Exit
  <2>2. /\ Prog_pc[c] = "running" /\ Prog_pc' = [Prog_pc EXCEPT ![c] = "ended"]
        /\ UNCHANGED <<Prog_python, Prog_clock, Prog_disk, Prog_scripts, Prog_temps, Prog_call, Prog_serial, Prog_stamp, Prog_pre, Prog_wrote, Prog_alone, Prog_report, Prog_runs>>
    BY <1>6 DEF Prog!Exit, Prog!request
  <2>3. Prog_call[c] \in ProgSources
    BY <2>2 DEF Prog!Running, Prog!Holding
  <2>4. /\ Prog!RewriteForLastExpr(Prog_call[c], o) \in Prog!Output
        /\ Prog!RewriteForLastExpr(Prog_call[c], o).value > 0 => Prog_call[c].tool \in Prog!Composed
    BY <2>3, ProgRewritten, ProgAssumption
  <2> QED BY <2>1, <2>2, <2>4, ProgEndStep
<1>7. ASSUME NEW c \in ProgCaller, Prog!Expire(c) PROVE Prog!Running'
  <2>1. /\ Prog_pc[c] = "running"
        /\ UNCHANGED <<Prog_python, Prog_clock, Prog_disk, Prog_scripts, Prog_temps, Prog_alone, Prog_report, Prog_runs>>
    BY <1>7 DEF Prog!Expire
  <2>2. CASE Prog_call[c].tool = "bash"
    <3>1. Prog!Forget(c) /\ Prog_call[c].tool \notin Prog!Composed
      BY <1>7, <2>2 DEF Prog!Expire, Prog!Composed
    <3> QED BY <2>1, <3>1, ProgLeaveStep
  <2>3. CASE Prog_call[c].tool # "bash"
    <3>1. PICK o \in ProgOutputs \cup {Prog!NoOutput} :
            Prog_ran' = [Prog_ran EXCEPT ![c] = [Prog!RewriteForLastExpr(Prog_call[c], o) EXCEPT !.err = @ + 1]]
      BY <1>7, <2>3 DEF Prog!Expire
    <3>2. Prog_pc' = [Prog_pc EXCEPT ![c] = "ended"] /\ UNCHANGED <<Prog_call, Prog_serial, Prog_stamp, Prog_pre, Prog_wrote>>
      BY <1>7, <2>3 DEF Prog!Expire
    <3>3. Prog_call[c] \in ProgSources
      BY <2>1 DEF Prog!Running, Prog!Holding
    <3>4. o \in Prog!Output
      <4>1. Prog!NoOutput \in Prog!Output
        BY DEF Prog!NoOutput, Prog!Output
      <4> QED BY <3>1, <4>1, ProgAssumption
    <3>5. /\ Prog!RewriteForLastExpr(Prog_call[c], o) \in Prog!Output
          /\ Prog!RewriteForLastExpr(Prog_call[c], o).value > 0 => Prog_call[c].tool \in Prog!Composed
      BY <3>3, <3>4, ProgRewritten
    <3> DEFINE w == Prog!RewriteForLastExpr(Prog_call[c], o)
               x == [w EXCEPT !.err = @ + 1]
    <3> HIDE DEF w
    <3>6. w \in Prog!Output /\ (w.value > 0 => Prog_call[c].tool \in Prog!Composed)
      BY <3>5 DEF w
    <3>7. x \in Prog!Output /\ x.value = w.value
      BY <3>6 DEF Prog!Output
    <3>8. Prog_ran' = [Prog_ran EXCEPT ![c] = x]
      BY <3>1 DEF w
    <3> HIDE DEF x
    <3> QED BY <2>1, <3>2, <3>6, <3>7, <3>8, ProgEndStep
  <2> QED BY <2>2, <2>3
<1>8. ASSUME NEW c \in ProgCaller, Prog!Compare(c) PROVE Prog!Running'
  BY <1>8, ProgCompareStep
<1>9. ASSUME NEW c \in ProgCaller, Prog!Return(c) PROVE Prog!Running'
  BY <1>9, ProgReturnStep
<1>10. ASSUME NEW c \in ProgCaller, Prog!Kill(c) PROVE Prog!Running'
  BY <1>10, ProgKillStep
<1>11. ASSUME NEW run \in Prog_orphans, Prog!Linger(run) PROVE Prog!Running'
  BY <1>11, ProgLingerStep
<1>12. CASE UNCHANGED Prog!vars
  <2>1. UNCHANGED <<Prog_python, Prog_clock, Prog_disk, Prog_scripts, Prog_temps, Prog_pc, Prog_call, Prog_serial, Prog_stamp, Prog_pre, Prog_wrote, Prog_alone, Prog_ran, Prog_report, Prog_runs>>
    BY <1>12 DEF Prog!vars, Prog!request
  <2> QED BY <2>1 DEF Prog!Running, Prog!Types, Prog!Holding, Prog!Live, Prog!Standing, Prog!TempsHeld,
       Prog!FilesReported
<1> QED
  BY <1>1, <1>2, <1>3, <1>4, <1>5, <1>6, <1>7, <1>8, <1>9, <1>10, <1>11, <1>12 DEF Prog!Next

(* Numbers are given to runs in turn, and what a run leaves behind bears its own. *)
LEMMA ProgNumberedNext == Prog!Running /\ Prog!Numbered /\ [Prog!Next]_Prog!vars => Prog!Numbered'
<1> SUFFICES ASSUME Prog!Running, Prog!Numbered, [Prog!Next]_Prog!vars PROVE Prog!Numbered'
  OBVIOUS
<1> USE DEF Prog!Numbered
<1>1. Prog!Types
  BY DEF Prog!Running
<1>2. ASSUME NEW c \in ProgCaller, Prog!Call(c) PROVE Prog!Numbered'
  <2>1. /\ Prog_runs < ProgMaxRuns /\ Prog_runs' = Prog_runs + 1 /\ Prog_runs \in Nat /\ Prog_serial' = [Prog_serial EXCEPT ![c] = Prog_runs']
        /\ Prog_pc' = [Prog_pc EXCEPT ![c] = "saved"] /\ Prog_orphans' = Prog_orphans
    BY <1>1, <1>2 DEF Prog!Call, Prog!Types
  <2>2. Prog_runs' \in 1..ProgMaxRuns
    BY <2>1, ProgAssumption
  <2>3. Prog_serial'[c] = Prog_runs' /\ \A d \in ProgCaller : d # c => Prog_serial'[d] = Prog_serial[d] /\ Prog_pc'[d] = Prog_pc[d]
    BY <1>1, <2>1 DEF Prog!Types
  <2>4. Prog_temps' \subseteq Prog_temps \cup {Prog_runs'}
    BY <1>2, <2>3 DEF Prog!Call, Prog!Save
  <2> QED BY <2>1, <2>2, <2>3, <2>4
<1>3. ASSUME NEW c \in ProgCaller, Prog!Forget(c), Prog_temps' = Prog_temps, Prog_orphans' \subseteq Prog_orphans \cup 1..ProgMaxRuns PROVE Prog!Numbered'
  BY <1>1, <1>3, ProgForgotten
<1>4. ASSUME NEW c \in ProgCaller, NEW st, Prog_pc[c] # "idle", Prog_pc' = [Prog_pc EXCEPT ![c] = st], Prog_serial' = Prog_serial,
             Prog_temps' \subseteq Prog_temps, Prog_orphans' \subseteq Prog_orphans \cup {Prog_serial[c]}
      PROVE  Prog!Numbered'
  BY <1>1, <1>4 DEF Prog!Types
<1>5. ASSUME UNCHANGED <<Prog_pc, Prog_serial, Prog_temps, Prog_orphans>> PROVE Prog!Numbered'
  BY <1>5
<1>6. ASSUME NEW c \in ProgCaller, Prog!Raise(c) \/ Prog!Return(c) PROVE Prog!Numbered'
  BY <1>3, <1>6 DEF Prog!Raise, Prog!Return
<1>7. ASSUME NEW c \in ProgCaller, Prog!Write(c) \/ Prog!Remove(c) PROVE Prog!Numbered'
  BY <1>5, <1>7 DEF Prog!Write, Prog!Remove, Prog!request
<1>8. ASSUME NEW c \in ProgCaller, Prog!Start(c) \/ Prog!Compare(c) PROVE Prog!Numbered'
  <2>1. /\ Prog_pc[c] # "idle" /\ Prog_serial' = Prog_serial /\ Prog_orphans' = Prog_orphans /\ Prog_temps' \subseteq Prog_temps
        /\ Prog_pc' = [Prog_pc EXCEPT ![c] = "running"] \/ Prog_pc' = [Prog_pc EXCEPT ![c] = "compared"]
    BY <1>8 DEF Prog!Start, Prog!Compare, Prog!request
  <2> QED BY <1>4, <2>1
<1>9. ASSUME NEW c \in ProgCaller, Prog!Kill(c) PROVE Prog!Numbered'
  <2>1. /\ Prog_pc[c] # "idle" /\ Prog_serial' = Prog_serial /\ Prog_temps' = Prog_temps /\ Prog_pc' = [Prog_pc EXCEPT ![c] = "dead"]
        /\ Prog_orphans' \subseteq Prog_orphans \cup {Prog_serial[c]}
    BY <1>9 DEF Prog!Kill, Prog!request
  <2> QED BY <1>4, <2>1
<1>10. ASSUME NEW c \in ProgCaller, Prog!Exit(c) \/ Prog!Expire(c) PROVE Prog!Numbered'
  <2>1. Prog_pc[c] = "running" /\ Prog_temps' = Prog_temps /\ Prog_orphans' \subseteq Prog_orphans \cup {Prog_serial[c]}
    BY <1>10 DEF Prog!Exit, Prog!Expire, Prog!Left
  <2>2. Prog_serial[c] \in 1..ProgMaxRuns
    BY <2>1
  <2>3. Prog!Forget(c) \/ (Prog_pc' = [Prog_pc EXCEPT ![c] = "ended"] /\ Prog_serial' = Prog_serial)
    BY <1>10 DEF Prog!Exit, Prog!Expire, Prog!request
  <2>4. CASE Prog!Forget(c)
    <3>1. Prog_orphans' \subseteq Prog_orphans \cup 1..ProgMaxRuns
      BY <2>1, <2>2
    <3> QED BY <1>3, <2>1, <2>4, <3>1
  <2>5. CASE Prog_pc' = [Prog_pc EXCEPT ![c] = "ended"] /\ Prog_serial' = Prog_serial
    BY <1>4, <2>1, <2>5
  <2> QED BY <2>3, <2>4, <2>5
<1>11. ASSUME NEW run \in Prog_orphans, Prog!Linger(run) PROVE Prog!Numbered'
  BY <1>5, <1>11 DEF Prog!Linger, Prog!request
<1>12. CASE UNCHANGED Prog!vars
  BY <1>5, <1>12 DEF Prog!vars, Prog!request
<1> HIDE DEF Prog!Numbered
<1> QED
  BY <1>2, <1>6, <1>7, <1>8, <1>9, <1>10, <1>11, <1>12 DEF Prog!Next

(* Every step leaves the runs numbered and the answers true.                    *)
LEMMA ProgNextIInv == Prog!IInv /\ [Prog!Next]_Prog!vars => Prog!IInv'
BY ProgRunningNext, ProgNumberedNext DEF Prog!IInv

-----------------------------------------------------------------------------
(* f gives the lengths of the first n sections.                                *)
ProgSumTo(s, n, f) == f \in [0 .. n -> Nat] /\ f = [k \in 0 .. n |-> IF k = 0 THEN 0 ELSE f[k - 1] + s[k][2]]

(* One section more.                                                           *)
LEMMA ProgOneMore ==
  ASSUME NEW S, NEW s \in Seq(S \X Nat), NEW n \in Nat, n + 1 \in 1 .. Len(s), NEW f, ProgSumTo(s, n, f)
  PROVE  \E g : ProgSumTo(s, n + 1, g)
<1> DEFINE g == [k \in 0 .. n + 1 |-> IF k = n + 1 THEN f[n] + s[n + 1][2] ELSE f[k]]
<1>1. f \in [0 .. n -> Nat] /\ \A k \in 0 .. n : f[k] = IF k = 0 THEN 0 ELSE f[k - 1] + s[k][2]
  BY DEF ProgSumTo
<1>2. s[n + 1] \in S \X Nat
  OBVIOUS
<1>3. s[n + 1][2] \in Nat
  BY <1>2
<1>4. g \in [0 .. n + 1 -> Nat]
  BY <1>1, <1>3
<1>5. ASSUME NEW k \in 0 .. n + 1 PROVE g[k] = IF k = 0 THEN 0 ELSE g[k - 1] + s[k][2]
  <2>1. CASE k = n + 1
    <3>1. k # 0 /\ k - 1 = n /\ n # n + 1 /\ n \in 0 .. n + 1
      BY <2>1
    <3> QED BY <2>1, <3>1
  <2>2. CASE k \in 0 .. n /\ k # 0
    <3>1. k # n + 1 /\ k - 1 # n + 1 /\ k - 1 \in 0 .. n + 1
      BY <2>2
    <3> QED BY <1>1, <2>2, <3>1
  <2>3. CASE k = 0
    BY <1>1, <2>3
  <2> QED BY <2>1, <2>2, <2>3
<1> HIDE DEF g
<1>6. g = [k \in 0 .. n + 1 |-> IF k = 0 THEN 0 ELSE g[k - 1] + s[k][2]]
  BY <1>4, <1>5
<1> QED BY <1>4, <1>6 DEF ProgSumTo

(* Sections have lengths.                                                      *)
LEMMA ProgHasSum ==
  ASSUME NEW S, NEW s \in Seq(S \X Nat)
  PROVE  \E f : ProgSumTo(s, Len(s), f)
<1> DEFINE D == {n \in 0 .. Len(s) : ~ \E f : ProgSumTo(s, n, f)}
<1>1. Len(s) \in Nat /\ D \in SUBSET Nat
  OBVIOUS
<1>2. D = {}
  <2> SUFFICES ASSUME D # {} PROVE FALSE
    OBVIOUS
  <2>1. PICK d \in D : \A e \in D : d <= e
    <3> HIDE DEF D
    <3> QED BY <1>1, HasLowest
  <2>2. d \in 0 .. Len(s) /\ ~ \E f : ProgSumTo(s, d, f)
    BY <2>1
  <2>3. CASE d = 0
    <3> DEFINE f == [k \in 0 .. 0 |-> 0]
    <3>1. f \in [0 .. 0 -> Nat] /\ f = [k \in 0 .. 0 |-> IF k = 0 THEN 0 ELSE f[k - 1] + s[k][2]]
      OBVIOUS
    <3>2. ProgSumTo(s, 0, f)
      BY <3>1 DEF ProgSumTo
    <3> QED BY <2>2, <2>3, <3>2
  <2>4. CASE d # 0
    <3>1. d - 1 \in 0 .. Len(s) /\ ~(d <= d - 1) /\ (d - 1) + 1 = d /\ d \in 1 .. Len(s) /\ d - 1 \in Nat
      BY <1>1, <2>2, <2>4
    <3>2. d - 1 \notin D
      BY <2>1, <3>1
    <3>3. PICK f : ProgSumTo(s, d - 1, f)
      BY <3>1, <3>2
    <3>4. \E g : ProgSumTo(s, (d - 1) + 1, g)
      <4> DEFINE n == d - 1
      <4>1. n \in Nat /\ n + 1 \in 1 .. Len(s) /\ ProgSumTo(s, n, f)
        BY <3>1, <3>3
      <4> HIDE DEF n
      <4>2. \E g : ProgSumTo(s, n + 1, g)
        BY <4>1, ProgOneMore
      <4> QED BY <4>2 DEF n
    <3> QED BY <2>2, <3>1, <3>4
  <2> QED BY <2>3, <2>4
<1> QED BY <1>1, <1>2

(* What the definition of Before says, if anything is so.                       *)
LEMMA ProgIsSum ==
  ASSUME NEW s, NEW f, f = [i \in 0 .. Len(s) |-> IF i = 0 THEN 0 ELSE f[i - 1] + s[i][2]]
  PROVE  Prog!Before(s) = [i \in 0 .. Len(s) |-> IF i = 0 THEN 0 ELSE Prog!Before(s)[i - 1] + s[i][2]]
BY Zenon DEF Prog!Before

(* The lengths of the first sections, one after the other.                      *)
LEMMA ProgBeforeIs ==
  ASSUME NEW S, NEW s \in Seq(S \X Nat)
  PROVE  /\ Prog!Before(s)[0] = 0
         /\ \A k \in 1 .. Len(s) : Prog!Before(s)[k] = Prog!Before(s)[k - 1] + s[k][2]
         /\ \A k \in 0 .. Len(s) : Prog!Before(s)[k] \in Nat
<1>1. Prog!Before(s) = [i \in 0 .. Len(s) |-> IF i = 0 THEN 0 ELSE Prog!Before(s)[i - 1] + s[i][2]]
  <2>1. PICK f : ProgSumTo(s, Len(s), f)
    BY ProgHasSum
  <2>2. f = [i \in 0 .. Len(s) |-> IF i = 0 THEN 0 ELSE f[i - 1] + s[i][2]]
    BY <2>1 DEF ProgSumTo
  <2> QED BY Zenon, <2>2, ProgIsSum
<1> DEFINE b == Prog!Before(s)
<1> HIDE DEF b
<1>2. b = [i \in 0 .. Len(s) |-> IF i = 0 THEN 0 ELSE b[i - 1] + s[i][2]]
  BY <1>1 DEF b
<1>3. Len(s) \in Nat
  OBVIOUS
<1>4. b[0] = 0 /\ \A k \in 1 .. Len(s) : b[k] = b[k - 1] + s[k][2]
  <2>1. \A k \in 0 .. Len(s) : b[k] = IF k = 0 THEN 0 ELSE b[k - 1] + s[k][2]
    BY <1>2
  <2> QED BY <1>3, <2>1
<1>5. \A k \in 0 .. Len(s) : b[k] \in Nat
  <2> DEFINE D == {k \in 0 .. Len(s) : b[k] \notin Nat}
  <2> SUFFICES ASSUME D # {} PROVE FALSE
    OBVIOUS
  <2>1. D \in SUBSET Nat
    OBVIOUS
  <2>2. PICK d \in D : \A e \in D : d <= e
    <3> HIDE DEF D
    <3> QED BY <2>1, HasLowest
  <2>3. d \in 1 .. Len(s) /\ b[d] \notin Nat
    BY <1>4, <2>2
  <2>4. d - 1 \in 0 .. Len(s) /\ ~(d <= d - 1)
    BY <1>3, <2>3
  <2>5. b[d - 1] \in Nat
    BY <2>2, <2>4
  <2>6. s[d] \in S \X Nat
    BY <2>3
  <2>7. s[d][2] \in Nat
    BY <2>6
  <2> QED BY <1>4, <2>3, <2>5, <2>7
<1> QED BY <1>4, <1>5 DEF b
(* The sections of an answer, by their labels.                                  *)
ProgLabel == {"prefix", "exit", "stdout", "stderr", "result", "artifacts", "files", "script", "suffix"}
ProgSection == ProgLabel \X Nat

(* What is cut keeps both ends, and the section before the last if it is short.  *)
LEMMA ProgEndsStay ==
  ASSUME NEW s \in Seq(ProgSection), NEW N, N = Len(s), N >= 3,
         s[1] = <<"prefix", 1>>, s[2] = <<"exit", 1>>, s[N] = <<"suffix", 1>>
  PROVE  /\ {"prefix", "exit", "suffix"} \subseteq Prog!TruncateToolOutput(s)
         /\ s[N - 1][2] <= 2 => s[N - 1][1] \in Prog!TruncateToolOutput(s)
<1> DEFINE b == Prog!Before(s)
<1>1. N \in Nat /\ DOMAIN s = 1 .. N /\ 1 \in 1 .. N /\ 2 \in 1 .. N /\ N \in 1 .. N /\ N - 1 \in 1 .. N
  OBVIOUS
<1>2. /\ b[0] = 0 /\ (\A k \in 1 .. N : b[k] = b[k - 1] + s[k][2]) /\ (\A k \in 0 .. N : b[k] \in Nat)
  BY ProgBeforeIs DEF ProgSection
<1> DEFINE total == b[N]
           room == ProgBudget - 1
           left == room \div 2
           right == room - left
<1> HIDE DEF b
<1>3. b[1] = 1 /\ b[2] = 2
  <2>1. b[1] = b[0] + s[1][2] /\ b[2] = b[1] + s[2][2]
    BY <1>1, <1>2
  <2> QED BY <1>2, <2>1
<1>4. total \in Nat /\ b[N - 1] \in Nat /\ b[(N - 1) - 1] \in Nat /\ s[N - 1][2] \in Nat
  <2>1. N - 1 \in 0 .. N /\ (N - 1) - 1 \in 0 .. N /\ N \in 0 .. N
    BY <1>1
  <2>2. s[N - 1] \in ProgSection
    BY <1>1
  <2>3. s[N - 1][2] \in Nat
    BY <2>2 DEF ProgSection
  <2> QED BY <1>2, <2>1, <2>3
<1>5. total = b[N - 1] + 1 /\ b[N - 1] = b[(N - 1) - 1] + s[N - 1][2]
  <2>1. b[N] = b[N - 1] + s[N][2] /\ b[N - 1] = b[(N - 1) - 1] + s[N - 1][2]
    BY <1>1, <1>2
  <2>2. s[N][2] = 1
    OBVIOUS
  <2> QED BY <2>1, <2>2
<1>6. room \in Nat /\ left \in Nat /\ left >= 2 /\ right >= 3 /\ right \in Nat
  BY ProgAssumption
<1> HIDE DEF total, room, left, right
<1>7. Prog!TruncateToolOutput(s) =
        {s[i][1] : i \in {j \in 1 .. N : total <= ProgBudget \/ b[j] <= left \/ b[j - 1] >= total - right}}
  BY <1>1 DEF Prog!TruncateToolOutput, Prog!PickMarker, b, total, room, left, right
<1>8. b[1] <= left /\ b[2] <= left
  BY <1>3, <1>6
<1>9. b[N - 1] >= total - right
  BY <1>4, <1>5, <1>6
<1>10. s[N - 1][2] <= 2 => b[(N - 1) - 1] >= total - right
  BY <1>4, <1>5, <1>6
<1>11. s[1][1] = "prefix" /\ s[2][1] = "exit" /\ s[N][1] = "suffix"
  OBVIOUS
<1>12. "prefix" \in Prog!TruncateToolOutput(s)
  BY <1>1, <1>7, <1>8, <1>11
<1>13. "exit" \in Prog!TruncateToolOutput(s)
  BY <1>1, <1>7, <1>8, <1>11
<1>14. "suffix" \in Prog!TruncateToolOutput(s)
  BY <1>1, <1>7, <1>9, <1>11
<1>15. s[N - 1][2] <= 2 => s[N - 1][1] \in Prog!TruncateToolOutput(s)
  BY <1>1, <1>7, <1>10
<1> QED BY <1>12, <1>13, <1>14, <1>15

(* A section that is empty is left out.                                         *)
LEMMA ProgLinesIs ==
  ASSUME NEW label \in ProgLabel, NEW n \in Nat
  PROVE  /\ Prog!Lines(label, n) \in Seq(ProgSection)
         /\ n # 0 => Prog!Lines(label, n) = <<<<label, n>>>>
<1>1. CASE n = 0
  BY <1>1 DEF Prog!Lines
<1>2. CASE n # 0
  <2>1. Prog!Lines(label, n) = <<<<label, n>>>> /\ <<label, n>> \in ProgSection
    BY <1>2 DEF Prog!Lines, ProgSection
  <2> QED BY <2>1
<1> QED BY <1>1, <1>2

(* An answer begins with the exit code.                                         *)
ProgOpened(s) == s \in Seq(ProgSection) /\ Len(s) >= 1 /\ s[1] = <<"exit", 1>>

(* And still does with more sections after it.                                  *)
LEMMA ProgJoined ==
  ASSUME NEW s, ProgOpened(s), NEW t \in Seq(ProgSection)
  PROVE  ProgOpened(s \o t)
BY DEF ProgOpened

(* What is read of an answer, whatever its sections.                            *)
LEMMA ProgReadEnds ==
  ASSUME NEW s, ProgOpened(s)
  PROVE  /\ {"prefix", "exit", "suffix"} \subseteq Prog!TruncateToolOutput(Prog!WrapUntrusted(s))
         /\ s[Len(s)][2] <= 2 => s[Len(s)][1] \in Prog!TruncateToolOutput(Prog!WrapUntrusted(s))
<1> DEFINE w == Prog!WrapUntrusted(s)
           N == Len(s) + 2
<1>1. s \in Seq(ProgSection) /\ Len(s) >= 1 /\ s[1] = <<"exit", 1>> /\ Len(s) \in Nat
  BY DEF ProgOpened
<1>2. <<"prefix", 1>> \in ProgSection /\ <<"suffix", 1>> \in ProgSection
  BY DEF ProgSection, ProgLabel
<1>3. w = <<<<"prefix", 1>>>> \o s \o <<<<"suffix", 1>>>>
  BY DEF Prog!WrapUntrusted
<1>4. /\ w \in Seq(ProgSection) /\ N = Len(w) /\ N >= 3
      /\ w[1] = <<"prefix", 1>> /\ w[2] = s[1] /\ w[N] = <<"suffix", 1>> /\ w[N - 1] = s[Len(s)]
  <2> HIDE DEF w
  <2> QED BY <1>1, <1>2, <1>3
<1> HIDE DEF N
<1>5. /\ {"prefix", "exit", "suffix"} \subseteq Prog!TruncateToolOutput(w)
      /\ w[N - 1][2] <= 2 => w[N - 1][1] \in Prog!TruncateToolOutput(w)
  <2> HIDE DEF w
  <2> QED BY <1>1, <1>4, ProgEndsStay
<1> QED BY <1>4, <1>5
(* The paths of what was left out are the last of an answer's own sections.      *)
LEMMA ProgPathsLast ==
  ASSUME NEW s, ProgOpened(s), NEW n \in Nat, NEW t, t = s \o Prog!Lines("artifacts", n)
  PROVE  /\ ProgOpened(t)
         /\ n # 0 => t[Len(t)] = <<"artifacts", n>>
<1>1. "artifacts" \in ProgLabel
  BY DEF ProgLabel
<1>2. Prog!Lines("artifacts", n) \in Seq(ProgSection) /\ (n # 0 => Prog!Lines("artifacts", n) = <<<<"artifacts", n>>>>)
  BY <1>1, ProgLinesIs
<1>3. ProgOpened(t)
  BY <1>2, ProgJoined
<1>4. n # 0 => t[Len(t)] = <<"artifacts", n>>
  <2> SUFFICES ASSUME n # 0 PROVE t[Len(t)] = <<"artifacts", n>>
    OBVIOUS
  <2>1. t = s \o <<<<"artifacts", n>>>> /\ s \in Seq(ProgSection)
    BY <1>2 DEF ProgOpened
  <2>2. Len(t) = Len(s) + 1
    BY <2>1
  <2> QED BY <2>1, <2>2
<1> QED BY <1>3, <1>4

(* At most two streams are left out, and none of bash.                          *)
LEMMA ProgKeptCount ==
  ASSUME NEW kept, NEW a, NEW b, kept \subseteq {a, b}
  PROVE  IsFiniteSet(kept) /\ Cardinality(kept) \in Nat /\ Cardinality(kept) <= 2 /\ (kept # {} => Cardinality(kept) # 0)
<1>1. IsFiniteSet({a}) /\ Cardinality({a}) = 1
  BY FS_Singleton
<1>2. {a, b} = {a} \cup {b}
  OBVIOUS
<1>3. IsFiniteSet({a, b}) /\ Cardinality({a, b}) <= 2
  <2>1. IsFiniteSet({a} \cup {b}) /\ Cardinality({a} \cup {b}) \in {Cardinality({a}), Cardinality({a}) + 1}
    BY <1>1, FS_AddElement
  <2> QED BY <1>1, <1>2, <2>1
<1>4. IsFiniteSet(kept) /\ Cardinality(kept) <= Cardinality({a, b})
  BY <1>3, FS_Subset
<1>5. Cardinality(kept) \in Nat /\ Cardinality({a, b}) \in Nat
  BY <1>3, <1>4, FS_CardinalityType
<1>6. Cardinality(kept) = 0 <=> kept = {}
  BY <1>4, FS_EmptySet
<1> QED BY <1>3, <1>4, <1>5, <1>6

(* What is read of any answer: both of its ends, and the paths.                 *)
LEMMA ProgAnswerIsRead ==
  ASSUME NEW r \in Prog!Report, r.tool \in Prog!Tool, IsFiniteSet(r.files), r.kept # {} => r.tool # "bash",
         NEW k, r.kept \subseteq {<<"stdout", k>>, <<"stderr", k>>}
  PROVE  /\ {"prefix", "exit", "suffix"} \subseteq Prog!Execute(r)
         /\ r.kept # {} => "artifacts" \in Prog!Execute(r)
<1>1. Cardinality(r.kept) \in Nat /\ Cardinality(r.kept) <= 2 /\ (r.kept # {} => Cardinality(r.kept) # 0)
  BY ProgKeptCount
<1>2. Cardinality(r.files) \in Nat
  BY FS_CardinalityType
<1>3. r.out \in Nat /\ r.err \in Nat /\ r.value \in Nat
  BY DEF Prog!Report
<1>4. Prog!Shown(r.out) \in Nat /\ Prog!Shown(r.err) \in Nat
  BY <1>3, ProgAssumption DEF Prog!Shown
<1>5. Prog!Lines("exit", 1) \in Seq(ProgSection) /\ ProgOpened(Prog!Lines("exit", 1))
  <2>1. "exit" \in ProgLabel /\ <<"exit", 1>> \in ProgSection
    BY DEF ProgLabel, ProgSection
  <2>2. Prog!Lines("exit", 1) = <<<<"exit", 1>>>>
    BY DEF Prog!Lines
  <2> QED BY <2>1, <2>2 DEF ProgOpened
<1>6. \A s : \A label \in ProgLabel, n \in Nat : ProgOpened(s) => ProgOpened(s \o Prog!Lines(label, n))
  BY ProgLinesIs, ProgJoined
<1>7. {"stdout", "stderr", "result", "files", "script"} \subseteq ProgLabel
  BY DEF ProgLabel
<1> DEFINE n == Cardinality(r.kept)
           streams == Prog!Lines("exit", 1) \o Prog!Lines("stdout", Prog!Shown(r.out)) \o Prog!Lines("stderr", Prog!Shown(r.err))
<1> HIDE DEF n
<1>8. ProgOpened(streams)
  BY <1>4, <1>5, <1>6, <1>7
<1> HIDE DEF streams
<1>9. \A s : ProgOpened(s) /\ Prog!Sections(r) = s \o Prog!Lines("artifacts", n) =>
        /\ {"prefix", "exit", "suffix"} \subseteq Prog!Execute(r)
        /\ r.kept # {} => "artifacts" \in Prog!Execute(r)
  <2> SUFFICES ASSUME NEW s, ProgOpened(s), Prog!Sections(r) = s \o Prog!Lines("artifacts", n)
               PROVE  /\ {"prefix", "exit", "suffix"} \subseteq Prog!Execute(r)
                      /\ r.kept # {} => "artifacts" \in Prog!Execute(r)
    OBVIOUS
  <2> DEFINE t == Prog!Sections(r)
  <2> HIDE DEF t
  <2>1. n \in Nat /\ n <= 2 /\ (r.kept # {} => n # 0)
    BY <1>1 DEF n
  <2>2. ProgOpened(t) /\ (n # 0 => t[Len(t)] = <<"artifacts", n>>)
    <3>1. t = s \o Prog!Lines("artifacts", n)
      BY DEF t
    <3> QED BY <2>1, <3>1, ProgPathsLast
  <2>3. /\ {"prefix", "exit", "suffix"} \subseteq Prog!TruncateToolOutput(Prog!WrapUntrusted(t))
        /\ t[Len(t)][2] <= 2 => t[Len(t)][1] \in Prog!TruncateToolOutput(Prog!WrapUntrusted(t))
    BY <2>2, ProgReadEnds
  <2>4. r.kept # {} => t[Len(t)][2] <= 2 /\ t[Len(t)][1] = "artifacts"
    BY <2>1, <2>2
  <2>5. Prog!Execute(r) = Prog!TruncateToolOutput(Prog!WrapUntrusted(t))
    BY DEF Prog!Execute, t
  <2> QED BY <2>3, <2>4, <2>5
<1>10. CASE r.tool \in Prog!Composed
  <2> DEFINE s == streams \o Prog!Lines("result", IF r.result = "none" THEN 0 ELSE r.value + 1)
  <2>1. (IF r.result = "none" THEN 0 ELSE r.value + 1) \in Nat
    BY <1>3
  <2>2. ProgOpened(s)
    BY <1>6, <1>7, <1>8, <2>1
  <2>3. Prog!Sections(r) = s \o Prog!Lines("artifacts", n)
    <3>1. Prog!Sections(r) = Prog!FormatResult(r)
      BY <1>10 DEF Prog!Sections, Prog!Composed
    <3>2. Prog!FormatResult(r) = s \o Prog!Lines("artifacts", n)
      BY DEF Prog!FormatResult, n, streams
    <3> QED BY <3>1, <3>2
  <2> QED BY <1>9, <2>2, <2>3
<1>11. CASE r.tool \in {"run_script", "script"}
  <2> DEFINE s == streams \o Prog!Lines("files", Cardinality(r.files)) \o Prog!Lines("script", 1)
  <2>1. ProgOpened(streams \o Prog!Lines("files", Cardinality(r.files)))
    BY <1>2, <1>6, <1>7, <1>8
  <2>2. ProgOpened(s)
    BY <1>6, <1>7, <2>1
  <2>3. Prog!Sections(r) = s \o Prog!Lines("artifacts", n)
    BY <1>11 DEF Prog!Sections, Prog!FormatScript, n, streams, Prog!Composed
  <2> QED BY <1>9, <2>2, <2>3
<1>12. CASE r.tool = "bash"
  <2> DEFINE out == IF r.out + 1 > ProgMaxBash THEN ProgMaxBash - 1 ELSE r.out
             err == IF r.out + r.err + 1 > ProgMaxBash THEN ProgMaxBash - 1 - out ELSE r.err
  <2>1. out \in Nat /\ err \in Nat
    BY <1>3, ProgAssumption
  <2>2. Prog!Sections(r) = Prog!Lines("exit", 1) \o Prog!Lines("stdout", out) \o Prog!Lines("stderr", err)
    BY <1>12 DEF Prog!Sections, Prog!FormatBash, Prog!Composed
  <2> HIDE DEF out, err
  <2>3. ProgOpened(Prog!Sections(r))
    BY <1>5, <1>6, <1>7, <2>1, <2>2
  <2>4. {"prefix", "exit", "suffix"} \subseteq Prog!TruncateToolOutput(Prog!WrapUntrusted(Prog!Sections(r)))
    BY <2>3, ProgReadEnds
  <2> QED BY <1>12, <2>4 DEF Prog!Execute
<1> QED BY <1>10, <1>11, <1>12 DEF Prog!Tool, Prog!Composed

(* What holds of every state is what an answer promises.                       *)
LEMMA ProgHolds == Prog!IInv => Prog!TypeOK /\ Prog!RunsStand
<1> SUFFICES ASSUME Prog!IInv PROVE Prog!TypeOK /\ Prog!RunsStand
  OBVIOUS
<1>1. Prog!Types /\ Prog!TempsHeld /\ Prog!FilesReported /\ (\A d \in ProgCaller : Prog!Holding(d) /\ Prog!Standing(Prog_report[d]))
  BY DEF Prog!IInv, Prog!Running
<1>5. Prog!TypeOK
  BY <1>1 DEF Prog!IInv, Prog!Numbered, Prog!Types, Prog!Holding, Prog!TypeOK
<1>2. Prog!OnlyItsFiles /\ Prog!PathsLead /\ Prog!ResultIsItsOwn
  BY <1>1 DEF Prog!OnlyItsFiles, Prog!PathsLead, Prog!ResultIsItsOwn, Prog!Standing
<1>3. Prog!TempsRemoved
  <2> SUFFICES ASSUME Prog_python, NEW t \in Prog_temps
               PROVE  t \in {Prog_serial[c] : c \in {d \in ProgCaller : Prog_pc[d] \in {"saved", "running", "ended", "dead"}}}
    BY DEF Prog!TempsRemoved
  <2> QED BY <1>1 DEF Prog!TempsHeld
<1>4. Prog!EndsAreRead
  <2> SUFFICES ASSUME NEW c \in ProgCaller, Prog!Answered(c)
               PROVE  /\ {"prefix", "exit", "suffix"} \subseteq Prog!Execute(Prog_report[c])
                      /\ Prog_report[c].kept # {} => "artifacts" \in Prog!Execute(Prog_report[c])
    BY DEF Prog!EndsAreRead
  <2> DEFINE r == Prog_report[c]
  <2>1. r \in Prog!Report
    BY <1>1 DEF Prog!Types
  <2>2. PICK k \in 0 .. Prog_clock : r.kept \subseteq {<<"stdout", k>>, <<"stderr", k>>}
    BY <1>1 DEF Prog!Standing
  <2>3. r.tool \in Prog!Tool /\ IsFiniteSet(r.files) /\ (r.kept # {} => r.tool # "bash")
    BY <1>1 DEF Prog!Standing, Prog!Answered
  <2> HIDE DEF r
  <2>4. /\ {"prefix", "exit", "suffix"} \subseteq Prog!Execute(r)
        /\ r.kept # {} => "artifacts" \in Prog!Execute(r)
    BY <2>1, <2>2, <2>3, ProgAnswerIsRead
  <2> QED BY <2>4 DEF r
<1> QED BY <1>1, <1>2, <1>3, <1>4, <1>5 DEF Prog!RunsStand

(* tools/_python_runner.py, tools/__init__.py: an answer names the program's own files and  *)
(* value and leads to the whole of what it leaves out, with both ends and the paths read,   *)
(* for any callers, programs, lengths, removals, lingering processes and kills.             *)
THEOREM RunsAlwaysStand == Spec => []RunsStand
<1> DEFINE Inv == part = "programs" => Prog!IInv
<1>1. Init => Inv
  BY ProgInitIInv DEF Init
<1>2. Inv /\ [Next]_vars => Inv'
  <2>1. ASSUME part = "programs", Prog!IInv, [Next]_vars PROVE Prog!IInv'
    BY <2>1, ProgNextIInv DEF Next, vars, Prog!vars, Prog!request
  <2>2. [Next]_vars => part' = part
    BY DEF Next, vars
  <2> QED BY <2>1, <2>2
<1>3. Inv => RunsStand
  BY ProgHolds DEF RunsStand
<1> QED
  BY <1>1, <1>2, <1>3, PTL DEF Spec

HIDE ProgCardinality
HIDE ProgFinite
HIDE DEF Prog_python, Prog_clock, Prog_disk, Prog_scripts, Prog_temps, Prog_orphans, Prog_pc,
  Prog_call, Prog_serial, Prog_stamp, Prog_pre, Prog_wrote, Prog_alone, Prog_ran, Prog_report,
  Prog_runs, Prog_events

-----------------------------------------------------------------------------
(* TraceBridge. *)
Bridge_kind == x1
Bridge_lines == x2
Bridge_inLine == x3
Bridge_trace == x4
Bridge_recalls == x5
Bridge_batch == x6
Bridge_toolSeq == x7
Bridge_place == x8
Bridge_segment == x9
Bridge_rows == x10
Bridge_rollups == x11
Bridge_saved == x12
Bridge_deaths == x13
Bridge_forgot == x14
USE DEF Bridge_kind, Bridge_lines, Bridge_inLine, Bridge_trace, Bridge_recalls, Bridge_batch,
  Bridge_toolSeq, Bridge_place, Bridge_segment, Bridge_rows, Bridge_rollups, Bridge_saved,
  Bridge_deaths, Bridge_forgot

(* Sets have one cardinality, inside and outside of TraceBridge. *)
LEMMA BridgeSetsCount == \A S : Bridge!Cardinality(S) = Cardinality(S)
BY DEF Bridge!Cardinality, Cardinality

(* A function on 0 .. n, each value of which is made from the one before, exists. *)
BridgeUpto(f, m, S, s, step) ==
  f \in [0 .. m -> S] /\ f[0] = s /\ \A i \in 1 .. m : f[i] = step[i][f[i - 1]]
LEMMA BridgeFurther ==
  ASSUME NEW n \in Nat, NEW S, NEW s \in S, NEW step \in [1 .. n -> [S -> S]],
         NEW m \in Nat, m + 1 <= n, NEW f, BridgeUpto(f, m, S, s, step)
  PROVE  \E g : BridgeUpto(g, m + 1, S, s, step)
<1> DEFINE last == step[m + 1][f[m]]
           g == [i \in 0 .. m + 1 |-> IF i = m + 1 THEN last ELSE f[i]]
<1>1. f \in [0 .. m -> S] /\ f[0] = s /\ \A i \in 1 .. m : f[i] = step[i][f[i - 1]]
  BY DEF BridgeUpto
<1>2. last \in S
  <2>1. m + 1 \in 1 .. n /\ m \in 0 .. m
    OBVIOUS
  <2>2. step[m + 1] \in [S -> S] /\ f[m] \in S
    BY <1>1, <2>1
  <2> QED BY <2>2
<1>3. \A i \in 0 .. m : i \in 0 .. m + 1 /\ g[i] = f[i]
  OBVIOUS
<1>4. g[m + 1] = last
  OBVIOUS
<1>5. g \in [0 .. m + 1 -> S]
  <2> HIDE DEF last
  <2> QED BY <1>1, <1>2
<1>6. ASSUME NEW i \in 1 .. m + 1 PROVE g[i] = step[i][g[i - 1]]
  <2>1. CASE i = m + 1
    <3>1. i - 1 = m /\ m \in 0 .. m
      BY <2>1
    <3>2. g[i - 1] = f[m] /\ g[i] = last
      BY Zenon, <2>1, <1>3, <1>4, <3>1
    <3> QED BY Zenon, <2>1, <3>2
  <2>2. CASE i # m + 1
    <3>1. i \in 1 .. m /\ i \in 0 .. m /\ i - 1 \in 0 .. m
      BY <1>6, <2>2
    <3>2. g[i - 1] = f[i - 1] /\ g[i] = f[i]
      BY Zenon, <1>3, <3>1
    <3> QED BY Zenon, <1>1, <3>1, <3>2
  <2> QED BY <2>1, <2>2
<1>7. g[0] = s
  <2>1. 0 \in 0 .. m
    OBVIOUS
  <2> QED BY Zenon, <1>1, <1>3, <2>1
<1> HIDE DEF g
<1> QED BY Zenon, <1>5, <1>6, <1>7 DEF BridgeUpto

LEMMA BridgeIterated ==
  ASSUME NEW n \in Nat, NEW S, NEW s \in S, NEW step \in [1 .. n -> [S -> S]]
  PROVE  \E f : BridgeUpto(f, n, S, s, step)
<1> DEFINE D == {m \in 0 .. n : ~ \E f : BridgeUpto(f, m, S, s, step)}
<1>1. D = {}
  <2> SUFFICES ASSUME D # {} PROVE FALSE
    OBVIOUS
  <2>1. D \in SUBSET Nat
    OBVIOUS
  <2>2. PICK d \in D : \A e \in D : d <= e
    <3> HIDE DEF D
    <3> QED BY <2>1, HasLowest
  <2>3. d \in 0 .. n /\ ~ \E f : BridgeUpto(f, d, S, s, step)
    BY <2>2
  <2>4. CASE d = 0
    <3> DEFINE f == [i \in 0 .. 0 |-> s]
    <3>1. f \in [0 .. 0 -> S] /\ f[0] = s /\ \A i \in 1 .. 0 : FALSE
      OBVIOUS
    <3> HIDE DEF f
    <3>2. BridgeUpto(f, 0, S, s, step)
      BY Zenon, <3>1 DEF BridgeUpto
    <3> QED BY Zenon, <2>3, <2>4, <3>2
  <2>5. CASE d # 0
    <3> DEFINE m == d - 1
    <3>1. m \in 0 .. n /\ ~(d <= m) /\ m + 1 = d /\ m \in Nat /\ m + 1 <= n
      BY <2>3, <2>5
    <3> HIDE DEF m
    <3>2. m \notin D
      BY <2>2, <3>1
    <3>3. PICK f : BridgeUpto(f, m, S, s, step)
      BY Zenon, <3>1, <3>2
    <3>4. \E g : BridgeUpto(g, m + 1, S, s, step)
      BY Zenon, <3>1, <3>3, BridgeFurther
    <3> QED BY Zenon, <2>3, <3>1, <3>4
  <2> QED BY <2>4, <2>5
<1>2. n \in 0 .. n
  OBVIOUS
<1> QED BY Zenon, <1>1, <1>2

(* What an event has.                                                          *)
LEMMA BridgeEventIs ==
  ASSUME NEW e \in Bridge!Event
  PROVE  /\ e.k \in {"start", "end", "search", "call", "result"}
         /\ e.k = "call" => e.tool \in Bridge!Tool /\ e.file \in Bridge!File /\ e.seq \in Nat
         /\ e.k = "result" => e.tool \in Bridge!Tool /\ e.seq \in Nat /\ e.err \in BOOLEAN /\ e.of \in Nat
<1> DEFINE A == [k : {"start", "end", "search"}]
           B == [k : {"call"}, tool : Bridge!Tool, file : Bridge!File, seq : Nat]
           C == [k : {"result"}, tool : Bridge!Tool, seq : Nat, err : BOOLEAN, of : Nat]
<1>1. e \in A \/ e \in B \/ e \in C
  BY DEF Bridge!Event
<1>2. CASE e \in A
  <2>1. e.k \in {"start", "end", "search"}
    BY <1>2
  <2> QED BY <2>1
<1>3. CASE e \in B
  <2>1. e.k = "call" /\ e.tool \in Bridge!Tool /\ e.file \in Bridge!File /\ e.seq \in Nat
    BY <1>3
  <2> QED BY <2>1
<1>4. CASE e \in C
  <2>1. e.k = "result" /\ e.tool \in Bridge!Tool /\ e.seq \in Nat /\ e.err \in BOOLEAN /\ e.of \in Nat
    BY <1>4
  <2> QED BY <2>1
<1> QED BY <1>1, <1>2, <1>3, <1>4

LEMMA BridgeLowestIs ==
  ASSUME NEW D \in SUBSET Nat, D # {}
  PROVE  Bridge!Lowest(D) \in D /\ \A e \in D : Bridge!Lowest(D) <= e
<1>1. \E d \in D : \A e \in D : d <= e
  BY HasLowest
<1> QED BY Zenon, <1>1 DEF Bridge!Lowest

(* The calls of a trace, those that wait for a result, and the next number.    *)
BridgeCall == [own : Nat, tool : Bridge!Tool, file : Bridge!File, time : Nat, err : BOOLEAN]
BridgePairings == [calls : Seq(BridgeCall), waiting : Seq(BridgeCall), own : Nat]

LEMMA BridgeMatchIs ==
  ASSUME NEW w \in Seq(BridgeCall), NEW r
  PROVE  Bridge!Match(w, r) \in 0 .. Len(w)
<1> DEFINE same == {i \in DOMAIN w : w[i].own = r.seq}
           alike == {i \in DOMAIN w : w[i].tool = r.tool}
<1>1. /\ same \subseteq 1 .. Len(w) /\ alike \subseteq 1 .. Len(w) /\ Len(w) \in Nat
      /\ same \in SUBSET Nat /\ alike \in SUBSET Nat
  OBVIOUS
<1>2. Bridge!Match(w, r) = IF same # {} THEN Bridge!Lowest(same) ELSE IF alike # {} THEN Bridge!Lowest(alike) ELSE 0
  BY Zenon DEF Bridge!Match
<1> HIDE DEF same, alike
<1>3. same # {} => Bridge!Lowest(same) \in same
  BY Zenon, <1>1, BridgeLowestIs
<1>4. alike # {} => Bridge!Lowest(alike) \in alike
  BY Zenon, <1>1, BridgeLowestIs
<1> DEFINE n == Len(w)
           m == Bridge!Match(w, r)
<1>5. m \in same \/ m \in alike \/ m = 0
  BY Zenon, <1>2, <1>3, <1>4
<1>6. n \in Nat /\ same \subseteq 1 .. n /\ alike \subseteq 1 .. n
  BY <1>1
<1> HIDE DEF n, m
<1>7. m \in 1 .. n \/ m = 0
  BY Zenon, <1>5, <1>6
<1>8. m \in 0 .. n
  BY <1>6, <1>7
<1> QED BY <1>8 DEF n, m

(* A result finds the first call that waits, if it is its own and no later one *)
(* has its number.                                                             *)
LEMMA BridgeMatchFirst ==
  ASSUME NEW w \in Seq(BridgeCall), NEW r, Len(w) > 0, w[1].tool = r.tool, r.seq \in Nat, r.seq <= w[1].own,
         \A i \in 1 .. Len(w) : i # 1 => w[1].own < w[i].own
  PROVE  Bridge!Match(w, r) = 1
<1> DEFINE same == {i \in DOMAIN w : w[i].own = r.seq}
           alike == {i \in DOMAIN w : w[i].tool = r.tool}
<1>1. /\ same \subseteq 1 .. Len(w) /\ alike \subseteq 1 .. Len(w) /\ Len(w) \in Nat /\ 1 \in alike
      /\ same \in SUBSET Nat /\ alike \in SUBSET Nat
  OBVIOUS
<1>2. Bridge!Match(w, r) = IF same # {} THEN Bridge!Lowest(same) ELSE IF alike # {} THEN Bridge!Lowest(alike) ELSE 0
  BY Zenon DEF Bridge!Match
<1>3. same \subseteq {1}
  <2>1. \A i \in 1 .. Len(w) : w[i].own \in Nat
    <3>1. \A i \in 1 .. Len(w) : w[i] \in BridgeCall
      OBVIOUS
    <3>2. \A x \in BridgeCall : x.own \in Nat
      BY DEF BridgeCall
    <3> QED BY Zenon, <3>1, <3>2
  <2>2. 1 \in 1 .. Len(w)
    BY <1>1
  <2>3. ASSUME NEW i \in 1 .. Len(w), w[i].own = r.seq PROVE i = 1
    BY <2>1, <2>2, <2>3
  <2> QED BY <2>3
<1> HIDE DEF same, alike
<1>4. same # {} => Bridge!Lowest(same) = 1
  <2>1. same # {} => Bridge!Lowest(same) \in same
    BY Zenon, <1>1, BridgeLowestIs
  <2> QED BY <1>3, <2>1
<1>5. Bridge!Lowest(alike) = 1
  <2>1. Bridge!Lowest(alike) \in alike /\ \A e \in alike : Bridge!Lowest(alike) <= e
    BY Zenon, <1>1, BridgeLowestIs
  <2> DEFINE low == Bridge!Lowest(alike)
  <2>2. low \in alike /\ low <= 1
    BY <1>1, <2>1
  <2> HIDE DEF low
  <2>3. low \in 1 .. Len(w) /\ low <= 1
    BY <1>1, <2>2
  <2>4. low = 1
    BY <1>1, <2>3
  <2> QED BY <2>4 DEF low
<1> QED BY <1>1, <1>2, <1>4, <1>5

(* What is left when the call at a place has its result.                       *)
BridgeAnswersTo(g, r, p) ==
  LET h == Bridge!Answered(g, r, p)
  IN /\ h \in BridgePairings /\ h.own = g.own
     /\ Len(h.waiting) = Len(g.waiting) - 1
     /\ \A i \in 1 .. Len(g.waiting) - 1 : h.waiting[i] = IF i < p THEN g.waiting[i] ELSE g.waiting[i + 1]
     /\ Len(h.calls) = Len(g.calls)
     /\ \A j \in 1 .. Len(g.calls) :
          /\ h.calls[j].own = g.calls[j].own /\ h.calls[j].tool = g.calls[j].tool /\ h.calls[j].time = g.calls[j].time
          /\ g.calls[j].own # g.waiting[p].own => h.calls[j] = g.calls[j]
          /\ g.calls[j].own = g.waiting[p].own => h.calls[j].err = r.err
LEMMA BridgeAnsweredIs ==
  ASSUME NEW g \in BridgePairings, NEW r, r.err \in BOOLEAN, NEW p \in 1 .. Len(g.waiting)
  PROVE  BridgeAnswersTo(g, r, p)
<1> DEFINE w == g.waiting
           c == g.calls
           W == [i \in 1 .. Len(w) - 1 |-> IF i < p THEN w[i] ELSE w[i + 1]]
           C == [j \in DOMAIN c |-> IF c[j].own = w[p].own THEN [c[j] EXCEPT !.err = r.err] ELSE c[j]]
           h == Bridge!Answered(g, r, p)
<1>1. w \in Seq(BridgeCall) /\ c \in Seq(BridgeCall) /\ g.own \in Nat
  BY DEF BridgePairings
<1>2. h = [g EXCEPT !.waiting = W, !.calls = C]
  BY Zenon DEF Bridge!Answered
<1>3. /\ Len(w) \in Nat /\ Len(c) \in Nat /\ DOMAIN c = 1 .. Len(c)
      /\ (\A i \in 1 .. Len(w) : w[i] \in BridgeCall) /\ \A j \in 1 .. Len(c) : c[j] \in BridgeCall
  BY <1>1
<1> HIDE DEF w, c, h
<1>4. W \in [1 .. Len(w) - 1 -> BridgeCall]
  <2>1. \A i \in 1 .. Len(w) - 1 : i \in 1 .. Len(w) /\ i + 1 \in 1 .. Len(w)
    BY <1>3
  <2> QED BY <1>3, <2>1
<1>5. W \in Seq(BridgeCall) /\ Len(W) = Len(w) - 1
  <2>1. Len(w) - 1 \in Nat
    BY <1>3 DEF w
  <2> HIDE DEF W
  <2> QED BY <1>4, <2>1
<1>6. \A x \in BridgeCall, b \in BOOLEAN :
        /\ [x EXCEPT !.err = b] \in BridgeCall /\ [x EXCEPT !.err = b].own = x.own /\ [x EXCEPT !.err = b].tool = x.tool
        /\ [x EXCEPT !.err = b].time = x.time /\ [x EXCEPT !.err = b].err = b
  BY DEF BridgeCall
<1>7. C \in [1 .. Len(c) -> BridgeCall]
  BY <1>3, <1>6
<1>8. C \in Seq(BridgeCall) /\ Len(C) = Len(c)
  <2> HIDE DEF C
  <2> QED BY <1>3, <1>7
<1>9. \A i \in 1 .. Len(w) - 1 : W[i] = IF i < p THEN w[i] ELSE w[i + 1]
  OBVIOUS
<1>10. ASSUME NEW j \in 1 .. Len(c)
       PROVE  /\ C[j].own = c[j].own /\ C[j].tool = c[j].tool /\ C[j].time = c[j].time
              /\ c[j].own # w[p].own => C[j] = c[j]
              /\ c[j].own = w[p].own => C[j].err = r.err
  <2>1. C[j] = IF c[j].own = w[p].own THEN [c[j] EXCEPT !.err = r.err] ELSE c[j]
    BY <1>3, <1>10
  <2>2. c[j] \in BridgeCall
    BY <1>3, <1>10
  <2> HIDE DEF C
  <2>3. CASE c[j].own = w[p].own
    <3> DEFINE d == [c[j] EXCEPT !.err = r.err]
    <3>1. C[j] = d
      BY <2>1, <2>3
    <3>2. d.own = c[j].own /\ d.tool = c[j].tool /\ d.time = c[j].time /\ d.err = r.err
      BY <2>2 DEF BridgeCall
    <3> HIDE DEF d
    <3> QED BY <2>3, <3>1, <3>2
  <2>4. CASE c[j].own # w[p].own
    BY Zenon, <2>1, <2>4
  <2> QED BY Zenon, <2>3, <2>4
<1> HIDE DEF W, C
<1>11. h \in BridgePairings /\ h.own = g.own /\ h.waiting = W /\ h.calls = C
  BY <1>1, <1>2, <1>5, <1>8 DEF BridgePairings
<1> QED BY <1>5, <1>8, <1>9, <1>10, <1>11 DEF h, w, c, BridgeAnswersTo

(* One event more.                                                             *)
LEMMA BridgePairedIs ==
  ASSUME NEW g \in BridgePairings, NEW e \in Bridge!Event, NEW i \in Nat
  PROVE  /\ Bridge!Paired(g, e, i) \in BridgePairings
         /\ e.k = "call" =>
              LET new == [own |-> g.own, tool |-> e.tool, file |-> e.file, time |-> i, err |-> FALSE]
              IN /\ new \in BridgeCall /\ Bridge!Paired(g, e, i).calls = Append(g.calls, new)
                 /\ Bridge!Paired(g, e, i).waiting = Append(g.waiting, new) /\ Bridge!Paired(g, e, i).own = g.own + 1
         /\ e.k = "search" =>
              /\ Bridge!Paired(g, e, i).calls = g.calls /\ Bridge!Paired(g, e, i).waiting = g.waiting
              /\ Bridge!Paired(g, e, i).own = g.own + 1
         /\ e.k = "result" /\ Bridge!Match(g.waiting, e) # 0 => Bridge!Paired(g, e, i) = Bridge!Answered(g, e, Bridge!Match(g.waiting, e))
         /\ e.k = "result" /\ Bridge!Match(g.waiting, e) = 0 => Bridge!Paired(g, e, i) = g
         /\ e.k \in {"start", "end"} => Bridge!Paired(g, e, i) = g
<1> DEFINE new == [own |-> g.own, tool |-> e.tool, file |-> e.file, time |-> i, err |-> FALSE]
           n == Bridge!Match(g.waiting, e)
           h == Bridge!Paired(g, e, i)
<1>1. g.calls \in Seq(BridgeCall) /\ g.waiting \in Seq(BridgeCall) /\ g.own \in Nat
  BY DEF BridgePairings
<1>2. e.k \in {"start", "end", "search", "call", "result"}
  BY BridgeEventIs
<1>3. h = CASE e.k = "call" -> [calls |-> Append(g.calls, new), waiting |-> Append(g.waiting, new), own |-> g.own + 1]
            [] e.k = "search" -> [g EXCEPT !.own = g.own + 1]
            [] e.k = "result" /\ n # 0 -> Bridge!Answered(g, e, n)
            [] OTHER -> g
  BY DEF Bridge!Paired, Bridge!AfterSearch
<1>4. n \in 0 .. Len(g.waiting)
  BY <1>1, BridgeMatchIs
<1> HIDE DEF h, n
<1>5. CASE e.k = "call"
  <2>1. new \in BridgeCall
    BY <1>1, <1>5, BridgeEventIs DEF BridgeCall
  <2> HIDE DEF new
  <2>2. h = [calls |-> Append(g.calls, new), waiting |-> Append(g.waiting, new), own |-> g.own + 1]
    BY <1>3, <1>5
  <2>3. Append(g.calls, new) \in Seq(BridgeCall) /\ Append(g.waiting, new) \in Seq(BridgeCall) /\ g.own + 1 \in Nat
    BY <1>1, <2>1
  <2>4. h \in BridgePairings /\ h.calls = Append(g.calls, new) /\ h.waiting = Append(g.waiting, new) /\ h.own = g.own + 1
    BY <2>2, <2>3 DEF BridgePairings
  <2> QED BY <1>5, <2>1, <2>4 DEF h, new
<1>6. CASE e.k = "search"
  <2>1. h = [g EXCEPT !.own = g.own + 1]
    BY <1>3, <1>6
  <2>2. h \in BridgePairings /\ h.calls = g.calls /\ h.waiting = g.waiting /\ h.own = g.own + 1
    BY <1>1, <2>1 DEF BridgePairings
  <2> QED BY <1>6, <2>2 DEF h
<1>7. CASE e.k = "result" /\ n # 0
  <2>1. h = Bridge!Answered(g, e, n)
    BY <1>3, <1>7
  <2>2. n \in 1 .. Len(g.waiting) /\ e.err \in BOOLEAN
    <3>1. n \in 1 .. Len(g.waiting)
      BY <1>1, <1>4, <1>7
    <3> QED BY <1>7, <3>1, BridgeEventIs
  <2>3. h \in BridgePairings
    <3>1. Bridge!Answered(g, e, n) \in BridgePairings
      BY <2>2, BridgeAnsweredIs DEF BridgeAnswersTo
    <3> QED BY <2>1, <3>1
  <2> QED BY <1>7, <2>1, <2>3 DEF h, n
<1>8. CASE (e.k = "result" /\ n = 0) \/ e.k \in {"start", "end"}
  <2>1. h = g
    BY <1>3, <1>8
  <2> QED BY <1>8, <2>1 DEF h, n
<1> QED BY <1>2, <1>5, <1>6, <1>7, <1>8

LEMMA BridgePairedType ==
  ASSUME NEW g \in BridgePairings, NEW e \in Bridge!Event, NEW i \in Nat
  PROVE  Bridge!Paired(g, e, i) \in BridgePairings
BY BridgePairedIs

LEMMA BridgePairingIs ==
  ASSUME NEW evs \in Seq(Bridge!Event)
  PROVE  /\ Bridge!Pairing(evs) \in [0 .. Len(evs) -> BridgePairings]
         /\ Bridge!Pairing(evs)[0] = [calls |-> <<>>, waiting |-> <<>>, own |-> 0]
         /\ \A i \in 1 .. Len(evs) : Bridge!Pairing(evs)[i] = Bridge!Paired(Bridge!Pairing(evs)[i - 1], evs[i], i)
<1> DEFINE none == [calls |-> <<>>, waiting |-> <<>>, own |-> 0]
           n == Len(evs)
           step == [i \in 1 .. n |-> [g \in BridgePairings |-> Bridge!Paired(g, evs[i], i)]]
           P == Bridge!Pairing(evs)
<1>1. n \in Nat /\ \A i \in 1 .. n : evs[i] \in Bridge!Event
  OBVIOUS
<1>2. none \in BridgePairings
  BY DEF BridgePairings
<1> HIDE DEF n
<1>3. step \in [1 .. n -> [BridgePairings -> BridgePairings]]
  <2>1. \A i \in 1 .. n, g \in BridgePairings : Bridge!Paired(g, evs[i], i) \in BridgePairings
    <3>1. \A i \in 1 .. n : i \in Nat
      BY <1>1
    <3> QED BY Zenon, <1>1, <3>1, BridgePairedType
  <2> QED BY <2>1
<1>4. \A i \in 1 .. n, g \in BridgePairings : step[i][g] = Bridge!Paired(g, evs[i], i)
  OBVIOUS
<1> HIDE DEF none, step
<1>5. PICK f : BridgeUpto(f, n, BridgePairings, none, step)
  BY <1>1, <1>2, <1>3, BridgeIterated
<1>6. f \in [0 .. n -> BridgePairings] /\ f[0] = none /\ \A i \in 1 .. n : f[i] = Bridge!Paired(f[i - 1], evs[i], i)
  <2>1. f \in [0 .. n -> BridgePairings] /\ f[0] = none /\ \A i \in 1 .. n : f[i] = step[i][f[i - 1]]
    BY <1>5 DEF BridgeUpto
  <2>2. \A i \in 1 .. n : i - 1 \in 0 .. n
    BY <1>1
  <2> QED BY <1>4, <2>1, <2>2
<1>7. f = [i \in 0 .. n |-> IF i = 0 THEN none ELSE Bridge!Paired(f[i - 1], evs[i], i)]
  <2>1. \A i \in 0 .. n : i = 0 \/ i \in 1 .. n
    BY <1>1
  <2>2. \A i \in 0 .. n : f[i] = IF i = 0 THEN none ELSE Bridge!Paired(f[i - 1], evs[i], i)
    BY <1>6, <2>1
  <2> QED BY <1>6, <2>2
<1>8. P = [i \in 0 .. n |-> IF i = 0 THEN none ELSE Bridge!Paired(P[i - 1], evs[i], i)]
  BY Zenon, <1>7 DEF Bridge!Pairing, none, n
<1> HIDE DEF P
<1>9. P[0] = none /\ \A i \in 1 .. n : i \in 0 .. n /\ i - 1 \in 0 .. n /\ P[i] = Bridge!Paired(P[i - 1], evs[i], i)
  BY <1>1, <1>8
<1>10. \A i \in 0 .. n : P[i] \in BridgePairings
  <2> DEFINE D == {i \in 0 .. n : P[i] \notin BridgePairings}
  <2> SUFFICES ASSUME D # {} PROVE FALSE
    OBVIOUS
  <2>1. D \in SUBSET Nat
    BY <1>1
  <2>2. PICK d \in D : \A e \in D : d <= e
    <3> HIDE DEF D
    <3> QED BY <2>1, HasLowest
  <2>3. d \in 0 .. n /\ P[d] \notin BridgePairings /\ d # 0
    BY <1>2, <1>9, <2>2
  <2>4. d \in 1 .. n /\ d - 1 \in 0 .. n /\ ~(d <= d - 1) /\ d \in Nat
    BY <1>1, <2>3
  <2>5. P[d - 1] \in BridgePairings
    BY <2>2, <2>4
  <2>6. evs[d] \in Bridge!Event /\ P[d] = Bridge!Paired(P[d - 1], evs[d], d)
    BY <1>1, <1>9, <2>4
  <2> QED BY Zenon, <2>3, <2>4, <2>5, <2>6, BridgePairedType
<1>11. P \in [0 .. n -> BridgePairings]
  BY <1>8, <1>10
<1> QED BY <1>9, <1>11 DEF P, n, none

(* The number of calls and searches from one event to another.                 *)
LEMMA BridgeNumberedIs ==
  ASSUME NEW evs, NEW a \in Nat, NEW b \in Nat
  PROVE  IsFiniteSet(Bridge!Numbered(evs, a, b)) /\ Bridge!Cardinality(Bridge!Numbered(evs, a, b)) \in Nat
<1>1. IsFiniteSet(a .. b) /\ Bridge!Numbered(evs, a, b) \subseteq a .. b
  BY FS_Interval DEF Bridge!Numbered
<1>2. IsFiniteSet(Bridge!Numbered(evs, a, b))
  BY Zenon, <1>1, FS_Subset
<1> QED BY Zenon, <1>2, FS_CardinalityType, BridgeSetsCount

LEMMA BridgeNumberedMore ==
  ASSUME NEW evs, NEW a \in Nat, NEW b \in Nat, a <= b + 1
  PROVE  Bridge!Cardinality(Bridge!Numbered(evs, a, b + 1)) =
           IF evs[b + 1].k \in {"call", "search"} THEN Bridge!Cardinality(Bridge!Numbered(evs, a, b)) + 1
           ELSE Bridge!Cardinality(Bridge!Numbered(evs, a, b))
<1> DEFINE A == Bridge!Numbered(evs, a, b)
<1>1. IsFiniteSet(A) /\ b + 1 \notin A
  <2>1. IsFiniteSet(A)
    BY Zenon, BridgeNumberedIs
  <2>2. \A i \in a .. b : i # b + 1
    OBVIOUS
  <2>3. \A i \in A : i \in a .. b
    BY DEF Bridge!Numbered
  <2> HIDE DEF A
  <2> QED BY Zenon, <2>1, <2>2, <2>3
<1>2. \A i \in a .. b + 1 : i \in a .. b \/ i = b + 1
  OBVIOUS
<1>3. a .. b \subseteq a .. b + 1 /\ b + 1 \in a .. b + 1
  OBVIOUS
<1>4. CASE evs[b + 1].k \in {"call", "search"}
  <2>1. Bridge!Numbered(evs, a, b + 1) = A \cup {b + 1}
    BY <1>2, <1>3, <1>4 DEF Bridge!Numbered
  <2> HIDE DEF A
  <2>2. Bridge!Cardinality(A \cup {b + 1}) = Bridge!Cardinality(A) + 1
    BY <1>1, FS_AddElement, BridgeSetsCount
  <2> QED BY <1>4, <2>1, <2>2 DEF A
<1>5. CASE evs[b + 1].k \notin {"call", "search"}
  <2>1. Bridge!Numbered(evs, a, b + 1) = A
    BY <1>2, <1>3, <1>5 DEF Bridge!Numbered
  <2> QED BY <1>5, <2>1
<1> QED BY <1>4, <1>5

(* What the calls of a trace are, as far as it has been read.                  *)
BridgeListed(evs, g, i) ==
  /\ g.own = Bridge!Cardinality(Bridge!Numbered(evs, 1, i))
  /\ \A j \in 1 .. Len(g.calls) :
       /\ g.calls[j].time \in 1 .. i /\ evs[g.calls[j].time].k = "call"
       /\ g.calls[j].tool = evs[g.calls[j].time].tool
       /\ g.calls[j].own = Bridge!Cardinality(Bridge!Numbered(evs, 1, g.calls[j].time - 1))
       /\ g.calls[j].own < g.own
  /\ \A j, l \in 1 .. Len(g.calls) : j < l => g.calls[j].time < g.calls[l].time /\ g.calls[j].own < g.calls[l].own
  /\ \A t \in 1 .. i : evs[t].k = "call" => \E j \in 1 .. Len(g.calls) : g.calls[j].time = t

(* A record that differs in nothing but the results is as good.                *)
LEMMA BridgeListedSame ==
  ASSUME NEW evs, NEW g, NEW h, NEW i \in Nat, BridgeListed(evs, g, i), evs[i + 1].k # "call",
         Len(h.calls) = Len(g.calls), h.own = Bridge!Cardinality(Bridge!Numbered(evs, 1, i + 1)), g.own \in Nat, h.own \in Nat, g.own <= h.own,
         \A j \in 1 .. Len(g.calls) : /\ h.calls[j].own = g.calls[j].own /\ h.calls[j].tool = g.calls[j].tool
                                     /\ h.calls[j].time = g.calls[j].time /\ g.calls[j].own \in Nat
  PROVE  BridgeListed(evs, h, i + 1)
<1> DEFINE n == Len(g.calls)
           G == g.calls
           H == h.calls
<1>1. /\ g.own = Bridge!Cardinality(Bridge!Numbered(evs, 1, i))
      /\ \A j \in 1 .. n :
           /\ G[j].time \in 1 .. i /\ evs[G[j].time].k = "call" /\ G[j].tool = evs[G[j].time].tool
           /\ G[j].own = Bridge!Cardinality(Bridge!Numbered(evs, 1, G[j].time - 1)) /\ G[j].own < g.own
      /\ \A j, l \in 1 .. n : j < l => G[j].time < G[l].time /\ G[j].own < G[l].own
      /\ \A t \in 1 .. i : evs[t].k = "call" => \E j \in 1 .. n : G[j].time = t
  BY Zenon DEF BridgeListed
<1>2. Len(H) = n /\ \A j \in 1 .. n : H[j].own = G[j].own /\ H[j].tool = G[j].tool /\ H[j].time = G[j].time /\ G[j].own \in Nat
  OBVIOUS
<1> HIDE DEF n, G, H
<1>3. \A t \in 1 .. i : t \in 1 .. i + 1
  OBVIOUS
<1>4. \A t \in 1 .. i + 1 : t \in 1 .. i \/ t = i + 1
  OBVIOUS
<1>5. \A j \in 1 .. n : H[j].own < h.own
  <2>1. \A x \in Nat : x < g.own => x < h.own
    OBVIOUS
  <2> QED BY Zenon, <1>1, <1>2, <2>1
<1>6. ASSUME NEW j \in 1 .. n
      PROVE  /\ H[j].time \in 1 .. i + 1 /\ evs[H[j].time].k = "call" /\ H[j].tool = evs[H[j].time].tool
             /\ H[j].own = Bridge!Cardinality(Bridge!Numbered(evs, 1, H[j].time - 1)) /\ H[j].own < h.own
  <2>1. H[j].time = G[j].time /\ H[j].own = G[j].own /\ H[j].tool = G[j].tool
    BY Zenon, <1>2, <1>6
  <2>2. /\ G[j].time \in 1 .. i /\ evs[G[j].time].k = "call" /\ G[j].tool = evs[G[j].time].tool
        /\ G[j].own = Bridge!Cardinality(Bridge!Numbered(evs, 1, G[j].time - 1))
    BY Zenon, <1>1, <1>6
  <2> QED BY Zenon, <1>3, <1>5, <1>6, <2>1, <2>2
<1>7. ASSUME NEW j \in 1 .. n, NEW l \in 1 .. n, j < l PROVE H[j].time < H[l].time /\ H[j].own < H[l].own
  <2>1. H[j].time = G[j].time /\ H[j].own = G[j].own /\ H[l].time = G[l].time /\ H[l].own = G[l].own
    BY Zenon, <1>2, <1>7
  <2>2. G[j].time < G[l].time /\ G[j].own < G[l].own
    BY Zenon, <1>1, <1>7
  <2> QED BY Zenon, <2>1, <2>2
<1>8. ASSUME NEW t \in 1 .. i + 1, evs[t].k = "call" PROVE \E j \in 1 .. n : H[j].time = t
  <2>1. t \in 1 .. i
    BY <1>4, <1>8
  <2>2. PICK j \in 1 .. n : G[j].time = t
    BY Zenon, <1>1, <1>8, <2>1
  <2> QED BY Zenon, <1>2, <2>2
<1> QED BY Zenon, <1>2, <1>6, <1>7, <1>8 DEF BridgeListed, H

LEMMA BridgeListedMore ==
  ASSUME NEW evs \in Seq(Bridge!Event), NEW i \in Nat, i + 1 <= Len(evs), NEW g \in BridgePairings, BridgeListed(evs, g, i)
  PROVE  BridgeListed(evs, Bridge!Paired(g, evs[i + 1], i + 1), i + 1)
<1> DEFINE e == evs[i + 1]
           h == Bridge!Paired(g, e, i + 1)
           c == Bridge!Cardinality(Bridge!Numbered(evs, 1, i))
           d == Bridge!Cardinality(Bridge!Numbered(evs, 1, i + 1))
<1>1. e \in Bridge!Event /\ e.k \in {"start", "end", "search", "call", "result"} /\ i + 1 \in Nat
  <2>1. e \in Bridge!Event
    OBVIOUS
  <2> QED BY <2>1, BridgeEventIs
<1>2. c \in Nat /\ d \in Nat /\ d = IF e.k \in {"call", "search"} THEN c + 1 ELSE c
  <2>1. d = IF e.k \in {"call", "search"} THEN c + 1 ELSE c
    <3>1. 1 \in Nat /\ i \in Nat /\ 1 <= i + 1
      OBVIOUS
    <3> QED BY Zenon, <3>1, BridgeNumberedMore
  <2> QED BY <1>1, <2>1, BridgeNumberedIs
<1>3. g.own = c /\ g.calls \in Seq(BridgeCall) /\ g.waiting \in Seq(BridgeCall) /\ g.own \in Nat
  BY DEF BridgePairings, BridgeListed
<1>4. \A j \in 1 .. Len(g.calls) : g.calls[j].own \in Nat
  <2>1. \A j \in 1 .. Len(g.calls) : g.calls[j] \in BridgeCall
    BY <1>3
  <2>2. \A x \in BridgeCall : x.own \in Nat
    BY DEF BridgeCall
  <2> QED BY Zenon, <2>1, <2>2
<1>5. ASSUME e.k # "call", h.own = d, Len(h.calls) = Len(g.calls),
             \A j \in 1 .. Len(g.calls) : h.calls[j].own = g.calls[j].own /\ h.calls[j].tool = g.calls[j].tool /\ h.calls[j].time = g.calls[j].time
      PROVE  BridgeListed(evs, h, i + 1)
  <2>1. h.own \in Nat /\ g.own <= h.own
    BY <1>2, <1>3, <1>5
  <2> HIDE DEF h
  <2> QED BY Zenon, <1>3, <1>4, <1>5, <2>1, BridgeListedSame
<1> DEFINE p == Bridge!Match(g.waiting, e)
           new == [own |-> g.own, tool |-> e.tool, file |-> e.file, time |-> i + 1, err |-> FALSE]
<1>A. /\ e.k = "call" => h.calls = Append(g.calls, new) /\ h.own = g.own + 1
      /\ e.k = "search" => h.calls = g.calls /\ h.own = g.own + 1
      /\ e.k = "result" /\ p # 0 => h = Bridge!Answered(g, e, p)
      /\ e.k = "result" /\ p = 0 => h = g
      /\ e.k \in {"start", "end"} => h = g
  BY <1>1, BridgePairedIs
<1>B. p \in 0 .. Len(g.waiting) /\ Len(g.waiting) \in Nat
  BY <1>3, BridgeMatchIs
<1>C. new.own = g.own /\ new.tool = e.tool /\ new.time = i + 1 /\ evs[i + 1] = e
  OBVIOUS
<1> SUFFICES BridgeListed(evs, h, i + 1)
  OBVIOUS
<1> HIDE DEF h, new, p, e, d
<1>6. CASE e.k \in {"start", "end"}
  <2>1. h = g /\ d = c
    BY <1>2, <1>6, <1>A
  <2> QED BY <1>3, <1>5, <1>6, <2>1
<1>7. CASE e.k = "search"
  <2>1. h.calls = g.calls /\ h.own = g.own + 1 /\ d = c + 1
    BY <1>2, <1>7, <1>A
  <2> QED BY <1>3, <1>5, <1>7, <2>1
<1>8. CASE e.k = "result"
  <2>1. d = c
    BY <1>2, <1>8
  <2>2. CASE p = 0
    <3>1. h = g
      BY <1>8, <2>2, <1>A
    <3> QED BY <1>3, <1>5, <1>8, <2>1, <3>1
  <2>3. CASE p # 0
    <3>1. h = Bridge!Answered(g, e, p) /\ e.err \in BOOLEAN
      BY <1>1, <1>8, <2>3, <1>A, BridgeEventIs
    <3>2. p \in 1 .. Len(g.waiting)
      BY <1>B, <2>3
    <3>3. /\ h.own = g.own /\ Len(h.calls) = Len(g.calls)
          /\ \A j \in 1 .. Len(g.calls) : h.calls[j].own = g.calls[j].own /\ h.calls[j].tool = g.calls[j].tool /\ h.calls[j].time = g.calls[j].time
      BY <3>1, <3>2, BridgeAnsweredIs DEF BridgeAnswersTo
    <3> QED BY <1>3, <1>5, <1>8, <2>1, <3>3
  <2> QED BY <2>2, <2>3
<1>9. CASE e.k = "call"
  <2> DEFINE n == Len(g.calls)
             G == g.calls
             H == h.calls
  <2>1. H = Append(G, new) /\ h.own = g.own + 1 /\ d = c + 1
    BY <1>2, <1>9, <1>A
  <2>2. new.own = g.own /\ new.tool = e.tool /\ new.time = i + 1
    BY <1>C
  <2>3. n \in Nat /\ Len(H) = n + 1 /\ H[n + 1] = new /\ \A j \in 1 .. n : H[j] = G[j]
    BY <1>3, <2>1
  <2>4. /\ \A j \in 1 .. n :
             /\ G[j].time \in 1 .. i /\ evs[G[j].time].k = "call" /\ G[j].tool = evs[G[j].time].tool
             /\ G[j].own = Bridge!Cardinality(Bridge!Numbered(evs, 1, G[j].time - 1)) /\ G[j].own < g.own /\ G[j].own \in Nat
        /\ \A j, l \in 1 .. n : j < l => G[j].time < G[l].time /\ G[j].own < G[l].own
        /\ \A t \in 1 .. i : evs[t].k = "call" => \E j \in 1 .. n : G[j].time = t
    BY Zenon, <1>4 DEF BridgeListed
  <2> HIDE DEF n, G, H
  <2>5. \A j \in 1 .. n + 1 : j \in 1 .. n \/ j = n + 1
    BY <2>3
  <2>6. h.own = d
    BY <1>2, <1>3, <2>1
  <2>7. ASSUME NEW j \in 1 .. n + 1
        PROVE  /\ H[j].time \in 1 .. i + 1 /\ evs[H[j].time].k = "call" /\ H[j].tool = evs[H[j].time].tool
               /\ H[j].own = Bridge!Cardinality(Bridge!Numbered(evs, 1, H[j].time - 1)) /\ H[j].own < h.own
    <3>1. CASE j \in 1 .. n
      <4>1. H[j] = G[j] /\ G[j].time \in 1 .. i /\ G[j].own < g.own /\ G[j].own \in Nat
        BY Zenon, <2>3, <2>4, <3>1
      <4>2. G[j].time \in 1 .. i + 1 /\ G[j].own < h.own
        BY <1>3, <2>1, <4>1
      <4> QED BY Zenon, <2>4, <3>1, <4>1, <4>2
    <3>2. CASE j = n + 1
      <4>1. H[j] = new /\ evs[i + 1] = e /\ (i + 1) - 1 = i /\ i + 1 \in 1 .. i + 1
        BY <1>C, <2>3, <3>2
      <4>2. g.own < h.own
        BY <1>3, <2>1
      <4>3. evs[i + 1].k = "call" /\ new.tool = evs[i + 1].tool /\ new.own = Bridge!Cardinality(Bridge!Numbered(evs, 1, (i + 1) - 1))
        BY <1>3, <1>9, <2>2, <4>1
      <4> QED BY <2>2, <4>1, <4>2, <4>3
    <3> QED BY <2>5, <3>1, <3>2
  <2>8. ASSUME NEW j \in 1 .. n + 1, NEW l \in 1 .. n + 1, j < l
        PROVE  H[j].time < H[l].time /\ H[j].own < H[l].own
    <3>1. j \in 1 .. n
      BY <2>3, <2>8
    <3>2. CASE l \in 1 .. n
      BY Zenon, <2>3, <2>4, <2>8, <3>1, <3>2
    <3>3. CASE l = n + 1
      <4>1. H[j] = G[j] /\ H[l] = new /\ G[j].time \in 1 .. i /\ G[j].own < g.own
        BY Zenon, <2>3, <2>4, <3>1, <3>3
      <4>2. \A x \in 1 .. i : x < i + 1
        OBVIOUS
      <4> QED BY Zenon, <2>2, <4>1, <4>2
    <3> QED BY <2>5, <3>2, <3>3
  <2>9. ASSUME NEW t \in 1 .. i + 1, evs[t].k = "call" PROVE \E j \in 1 .. n + 1 : H[j].time = t
    <3>1. CASE t = i + 1
      <4>1. n + 1 \in 1 .. n + 1
        BY <2>3
      <4> QED BY Zenon, <2>2, <2>3, <3>1, <4>1
    <3>2. CASE t # i + 1
      <4>1. t \in 1 .. i
        BY <3>2
      <4>2. PICK j \in 1 .. n : G[j].time = t
        BY Zenon, <2>4, <2>9, <4>1
      <4>3. j \in 1 .. n + 1
        BY <2>3
      <4> QED BY Zenon, <2>3, <4>2, <4>3
    <3> QED BY <3>1, <3>2
  <2> QED BY Zenon, <2>3, <2>6, <2>7, <2>8, <2>9 DEF BridgeListed, H, d
<1> QED BY <1>1, <1>6, <1>7, <1>8, <1>9

LEMMA BridgeCallsAre ==
  ASSUME NEW evs \in Seq(Bridge!Event)
  PROVE  \A i \in 0 .. Len(evs) : Bridge!Pairing(evs)[i] \in BridgePairings /\ BridgeListed(evs, Bridge!Pairing(evs)[i], i)
<1> DEFINE n == Len(evs)
           P == Bridge!Pairing(evs)
           D == {i \in 0 .. n : ~BridgeListed(evs, P[i], i)}
<1>1. /\ n \in Nat /\ P \in [0 .. n -> BridgePairings] /\ P[0] = [calls |-> <<>>, waiting |-> <<>>, own |-> 0]
      /\ \A i \in 1 .. n : P[i] = Bridge!Paired(P[i - 1], evs[i], i)
  BY BridgePairingIs
<1> HIDE DEF n, P
<1>2. BridgeListed(evs, P[0], 0)
  <2>1. P[0].own = 0 /\ P[0].calls = <<>> /\ Len(P[0].calls) = 0
    BY <1>1
  <2>2. Bridge!Numbered(evs, 1, 0) = {}
    BY DEF Bridge!Numbered
  <2>3. Bridge!Cardinality(Bridge!Numbered(evs, 1, 0)) = 0
    BY <2>2, FS_EmptySet, BridgeSetsCount
  <2>4. 1 .. 0 = {}
    OBVIOUS
  <2> QED BY <2>1, <2>3, <2>4 DEF BridgeListed
<1>3. D = {}
  <2> SUFFICES ASSUME D # {} PROVE FALSE
    OBVIOUS
  <2>1. D \in SUBSET Nat
    BY <1>1
  <2>2. PICK d \in D : \A e \in D : d <= e
    <3> HIDE DEF D
    <3> QED BY <2>1, HasLowest
  <2>3. d \in 0 .. n /\ ~BridgeListed(evs, P[d], d)
    BY <2>2
  <2>4. d # 0
    BY <1>2, <2>3
  <2> DEFINE m == d - 1
  <2>5. m \in 0 .. n /\ ~(d <= m) /\ m + 1 = d /\ m \in Nat /\ m + 1 <= Len(evs) /\ d \in 1 .. n /\ d - 1 = m
    BY <1>1, <2>3, <2>4 DEF n
  <2> HIDE DEF m
  <2>6. m \notin D
    BY <2>2, <2>5
  <2>7. P[m] \in BridgePairings /\ BridgeListed(evs, P[m], m)
    BY <1>1, <2>5, <2>6
  <2>8. P[m + 1] = Bridge!Paired(P[m], evs[m + 1], m + 1)
    BY <1>1, <2>5
  <2>9. BridgeListed(evs, Bridge!Paired(P[m], evs[m + 1], m + 1), m + 1)
    BY Zenon, <2>5, <2>7, BridgeListedMore
  <2> QED BY Zenon, <2>3, <2>5, <2>8, <2>9
<1> QED BY <1>1, <1>3 DEF n, P

(* Results are behind their calls and in the order of the calls; no call has a *)
(* higher number than there are calls and searches before it.                  *)
BridgeOrdered(evs, off) ==
  /\ \A i \in 1 .. Len(evs) : evs[i].k = "result" =>
       \E t \in 1 .. i - 1 : /\ evs[i].of = t + off /\ evs[t].k = "call"
                            /\ evs[t].tool = evs[i].tool /\ evs[t].seq = evs[i].seq
  /\ \A i, j \in 1 .. Len(evs) : i < j /\ evs[i].k = "result" /\ evs[j].k = "result" => evs[i].of < evs[j].of
  /\ \A t \in 1 .. Len(evs) : evs[t].k = "call" => evs[t].seq <= Bridge!Cardinality(Bridge!Numbered(evs, 1, t - 1))
BridgeComplete(evs, off) ==
  \A t \in 1 .. Len(evs) : evs[t].k = "call" =>
    \E i \in 1 .. Len(evs) : evs[i].k = "result" /\ evs[i].of = t + off

(* The first calls have their own results, and the others wait, in their order. *)
BridgeAheadBy(evs, off, g, i, m) ==
  /\ m \in 0 .. Len(g.calls) /\ Len(g.waiting) = Len(g.calls) - m
  /\ \A j \in 1 .. Len(g.calls) - m : g.waiting[j] = g.calls[m + j]
  /\ \A j \in 1 .. m : \E q \in 1 .. i : /\ evs[q].k = "result" /\ evs[q].of = g.calls[j].time + off
                                       /\ g.calls[j].err = evs[q].err
  /\ \A j \in m + 1 .. Len(g.calls), q \in 1 .. i : evs[q].k = "result" => evs[q].of # g.calls[j].time + off

(* The next result is that of the first call that waits.                       *)
LEMMA BridgeNextWaits ==
  ASSUME NEW evs \in Seq(Bridge!Event), NEW off \in Nat, BridgeOrdered(evs, off), BridgeComplete(evs, off),
         NEW i \in Nat, i + 1 \in 1 .. Len(evs), NEW g \in BridgePairings, BridgeListed(evs, g, i),
         NEW m, BridgeAheadBy(evs, off, g, i, m), evs[i + 1].k = "result"
  PROVE  /\ m + 1 \in 1 .. Len(g.calls) /\ evs[i + 1].of = g.calls[m + 1].time + off
         /\ evs[i + 1].tool = g.calls[m + 1].tool /\ evs[i + 1].seq \in Nat /\ evs[i + 1].seq <= g.calls[m + 1].own
<1> DEFINE n == Len(g.calls)
           G == g.calls
           e == evs[i + 1]
<1>1. G \in Seq(BridgeCall) /\ n \in Nat /\ m \in 0 .. n
  BY DEF BridgePairings, BridgeAheadBy
<1>2. \A q \in 1 .. Len(evs) : evs[q].k = "result" => evs[q].of \in Nat
  <2>1. \A q \in 1 .. Len(evs) : evs[q] \in Bridge!Event
    OBVIOUS
  <2> QED BY Zenon, <2>1, BridgeEventIs
<1>3. PICK t \in 1 .. i : /\ e.of = t + off /\ evs[t].k = "call" /\ evs[t].tool = e.tool /\ evs[t].seq = e.seq
  <2>1. PICK t \in 1 .. (i + 1) - 1 : /\ e.of = t + off /\ evs[t].k = "call" /\ evs[t].tool = e.tool /\ evs[t].seq = e.seq
    BY Zenon DEF BridgeOrdered
  <2>2. (i + 1) - 1 = i
    OBVIOUS
  <2> QED BY <2>1, <2>2
<1>4. /\ \A j \in 1 .. n : G[j].time \in 1 .. i /\ evs[G[j].time].k = "call" /\ G[j].tool = evs[G[j].time].tool
                        /\ G[j].own = Bridge!Cardinality(Bridge!Numbered(evs, 1, G[j].time - 1))
      /\ \A j, l \in 1 .. n : j < l => G[j].time < G[l].time
  BY Zenon DEF BridgeListed
<1>5. PICK j \in 1 .. n : G[j].time = t
  BY Zenon, <1>3 DEF BridgeListed
<1>6. /\ \A l \in 1 .. m : \E q \in 1 .. i : evs[q].k = "result" /\ evs[q].of = G[l].time + off
      /\ \A l \in m + 1 .. n, q \in 1 .. i : evs[q].k = "result" => evs[q].of # G[l].time + off
  BY Zenon DEF BridgeAheadBy
<1> HIDE DEF n, G
<1>7. \A q \in 1 .. i : q \in 1 .. Len(evs) /\ q < i + 1
  OBVIOUS
<1>8. \A q \in 1 .. i : evs[q].k = "result" => evs[q].of # e.of
  <2> SUFFICES ASSUME NEW q \in 1 .. i, evs[q].k = "result", evs[q].of = e.of PROVE FALSE
    OBVIOUS
  <2>1. evs[q].of < e.of
    BY Zenon, <1>7 DEF BridgeOrdered
  <2>2. evs[q].of \in Nat
    BY <1>2, <1>7
  <2> QED BY <2>1, <2>2
<1>9. j \notin 1 .. m
  BY Zenon, <1>3, <1>5, <1>6, <1>8
<1>10. ASSUME j # m + 1 PROVE FALSE
  <2>1. m + 1 \in 1 .. n /\ m + 1 \in m + 1 .. n /\ m + 1 < j
    BY <1>1, <1>9, <1>10
  <2> DEFINE u == G[m + 1].time
  <2>2. u \in 1 .. i /\ evs[u].k = "call" /\ u < t
    BY Zenon, <1>4, <1>5, <2>1
  <2>3. PICK q \in 1 .. Len(evs) : evs[q].k = "result" /\ evs[q].of = u + off
    BY Zenon, <1>7, <2>2 DEF BridgeComplete
  <2>4. q \notin 1 .. i
    BY Zenon, <1>6, <2>1, <2>3
  <2>5. evs[q].of < e.of
    <3> HIDE DEF u
    <3> QED BY <1>3, <2>2, <2>3
  <2>6. CASE q = i + 1
    <3>1. e.of \in Nat
      BY <1>2
    <3> QED BY <2>5, <2>6, <3>1
  <2>7. CASE q # i + 1
    <3>1. i + 1 < q
      BY <2>4, <2>7
    <3>2. e.of < evs[q].of
      BY Zenon, <2>3, <3>1 DEF BridgeOrdered
    <3>3. e.of \in Nat /\ evs[q].of \in Nat
      BY <1>2, <2>3
    <3> QED BY <2>5, <3>2, <3>3
  <2> QED BY <2>6, <2>7
<1>11. j = m + 1
  BY <1>10
<1>12. evs[t].seq <= Bridge!Cardinality(Bridge!Numbered(evs, 1, t - 1))
  BY Zenon, <1>3, <1>7 DEF BridgeOrdered
<1>13. e.seq \in Nat
  <2>1. e \in Bridge!Event
    OBVIOUS
  <2> QED BY <2>1, BridgeEventIs
<1> QED BY Zenon, <1>3, <1>4, <1>5, <1>11, <1>12, <1>13 DEF G, n

LEMMA BridgeAheadMore ==
  ASSUME NEW evs \in Seq(Bridge!Event), NEW off \in Nat, BridgeOrdered(evs, off), BridgeComplete(evs, off),
         NEW i \in Nat, i + 1 \in 1 .. Len(evs), NEW g \in BridgePairings, BridgeListed(evs, g, i),
         NEW m, BridgeAheadBy(evs, off, g, i, m)
  PROVE  \E l : BridgeAheadBy(evs, off, Bridge!Paired(g, evs[i + 1], i + 1), i + 1, l)
<1> DEFINE e == evs[i + 1]
           h == Bridge!Paired(g, e, i + 1)
           w == g.waiting
           G == g.calls
           n == Len(G)
           H == h.calls
           p == Bridge!Match(w, e)
           new == [own |-> g.own, tool |-> e.tool, file |-> e.file, time |-> i + 1, err |-> FALSE]
<1>1. e \in Bridge!Event /\ e.k \in {"start", "end", "search", "call", "result"} /\ i + 1 \in Nat
  <2>1. e \in Bridge!Event
    OBVIOUS
  <2> QED BY <2>1, BridgeEventIs
<1>2. /\ e.k = "call" => H = Append(G, new) /\ h.waiting = Append(w, new) /\ new \in BridgeCall
      /\ e.k = "search" => H = G /\ h.waiting = w
      /\ e.k = "result" /\ p # 0 => h = Bridge!Answered(g, e, p)
      /\ e.k \in {"start", "end"} => h = g
      /\ h \in BridgePairings
  BY <1>1, BridgePairedIs
<1>3. /\ G \in Seq(BridgeCall) /\ w \in Seq(BridgeCall) /\ n \in Nat /\ Len(w) \in Nat /\ m \in 0 .. n /\ Len(w) = n - m
      /\ \A j \in 1 .. n - m : w[j] = G[m + j]
  BY DEF BridgePairings, BridgeAheadBy
<1>4. /\ \A j \in 1 .. m : \E q \in 1 .. i : evs[q].k = "result" /\ evs[q].of = G[j].time + off /\ G[j].err = evs[q].err
      /\ \A j \in m + 1 .. n, q \in 1 .. i : evs[q].k = "result" => evs[q].of # G[j].time + off
  BY Zenon DEF BridgeAheadBy
<1>5. /\ \A j \in 1 .. n : G[j].time \in 1 .. i /\ G[j].own < g.own
      /\ \A j, l \in 1 .. n : j < l => G[j].time < G[l].time /\ G[j].own < G[l].own
  BY Zenon DEF BridgeListed
<1>6. new.time = i + 1 /\ evs[i + 1] = e
  OBVIOUS
<1>7. \A j \in 1 .. n : G[j].own \in Nat /\ G[j].time \in Nat
  <2>1. \A j \in 1 .. n : G[j] \in BridgeCall
    BY <1>3
  <2>2. \A x \in BridgeCall : x.own \in Nat /\ x.time \in Nat
    BY DEF BridgeCall
  <2> QED BY Zenon, <2>1, <2>2
<1>8. \A q \in 1 .. i + 1 : q \in 1 .. i \/ q = i + 1
  OBVIOUS
<1>9. \A q \in 1 .. i : q \in 1 .. i + 1
  OBVIOUS
<1>10. ASSUME e.k # "result", e.k # "call", H = G, h.waiting = w PROVE BridgeAheadBy(evs, off, h, i + 1, m)
  <2>1. \A j \in m + 1 .. n, q \in 1 .. i + 1 : evs[q].k = "result" => evs[q].of # G[j].time + off
    BY Zenon, <1>4, <1>6, <1>8, <1>10
  <2>2. \A j \in 1 .. m : \E q \in 1 .. i + 1 : evs[q].k = "result" /\ evs[q].of = G[j].time + off /\ G[j].err = evs[q].err
    BY Zenon, <1>4, <1>9
  <2> DEFINE v == h.waiting
  <2>3. H = G /\ v = w /\ Len(H) = n
    BY <1>10
  <2> HIDE DEF h, H, v, G, w, n
  <2>4. /\ m \in 0 .. Len(H) /\ Len(v) = Len(H) - m
        /\ \A j \in 1 .. Len(H) - m : v[j] = H[m + j]
        /\ \A j \in 1 .. m : \E q \in 1 .. i + 1 : evs[q].k = "result" /\ evs[q].of = H[j].time + off /\ H[j].err = evs[q].err
        /\ \A j \in m + 1 .. Len(H), q \in 1 .. i + 1 : evs[q].k = "result" => evs[q].of # H[j].time + off
    BY Zenon, <1>3, <2>1, <2>2, <2>3
  <2> QED BY Zenon, <2>4 DEF BridgeAheadBy, H, v
<1> SUFFICES \E l : BridgeAheadBy(evs, off, h, i + 1, l)
  OBVIOUS
<1>11. CASE e.k \in {"start", "end", "search"}
  <2>1. H = G /\ h.waiting = w
    BY <1>2, <1>11
  <2>2. e.k # "result" /\ e.k # "call"
    BY <1>11
  <2> QED BY Zenon, <1>10, <2>1, <2>2
<1>12. CASE e.k = "call"
  <2> DEFINE v == h.waiting
  <2>0. H = Append(G, new) /\ v = Append(w, new) /\ new \in BridgeCall
    BY <1>2, <1>12
  <2> HIDE DEF h, H, G, w, n, new, v
  <2>1. Len(H) = n + 1 /\ H[n + 1] = new /\ \A j \in 1 .. n : H[j] = G[j]
    BY <1>3, <2>0 DEF n
  <2>2. Len(v) = (n + 1) - m /\ v[(n - m) + 1] = new /\ \A j \in 1 .. n - m : v[j] = w[j]
    BY <1>3, <2>0
  <2>3. m \in 0 .. n + 1 /\ Len(v) = Len(H) - m
    BY <1>3, <2>1, <2>2
  <2>4. ASSUME NEW j \in 1 .. (n + 1) - m PROVE v[j] = H[m + j]
    <3>1. CASE j \in 1 .. n - m
      <4>1. m + j \in 1 .. n
        BY <1>3, <3>1
      <4> QED BY Zenon, <1>3, <2>1, <2>2, <3>1, <4>1
    <3>2. CASE j \notin 1 .. n - m
      <4>1. j = (n - m) + 1 /\ m + j = n + 1
        BY <1>3, <2>4, <3>2
      <4> QED BY Zenon, <2>1, <2>2, <4>1
    <3> QED BY <3>1, <3>2
  <2>5. ASSUME NEW j \in 1 .. m
        PROVE  \E q \in 1 .. i + 1 : evs[q].k = "result" /\ evs[q].of = H[j].time + off /\ H[j].err = evs[q].err
    <3>1. j \in 1 .. n
      BY <1>3
    <3>2. H[j] = G[j]
      BY Zenon, <2>1, <3>1
    <3>3. PICK q \in 1 .. i : evs[q].k = "result" /\ evs[q].of = G[j].time + off /\ G[j].err = evs[q].err
      BY Zenon, <1>4
    <3> QED BY Zenon, <1>9, <3>2, <3>3
  <2>6. ASSUME NEW j \in m + 1 .. n + 1, NEW q \in 1 .. i + 1, evs[q].k = "result" PROVE evs[q].of # H[j].time + off
    <3>1. q \in 1 .. i
      BY <1>6, <1>8, <1>12, <2>6
    <3>2. CASE j \in m + 1 .. n
      <4>1. j \in 1 .. n
        BY <1>3, <3>2
      <4>2. H[j] = G[j]
        BY Zenon, <2>1, <4>1
      <4> QED BY Zenon, <1>4, <2>6, <3>1, <3>2, <4>2
    <3>3. CASE j \notin m + 1 .. n
      <4>1. j = n + 1
        BY <1>3, <2>6, <3>3
      <4>2. H[j].time = i + 1
        BY Zenon, <1>6, <2>1, <4>1
      <4>3. q \in 1 .. Len(evs)
        BY <3>1
      <4>4. PICK t \in 1 .. q - 1 : evs[q].of = t + off
        BY Zenon, <2>6, <4>3 DEF BridgeOrdered
      <4>5. t # i + 1 /\ t \in Nat
        BY <3>1
      <4>6. t + off # (i + 1) + off
        BY <4>5
      <4> QED BY Zenon, <4>2, <4>4, <4>6
    <3> QED BY <3>2, <3>3
  <2>7. BridgeAheadBy(evs, off, h, i + 1, m)
    <3>1. Len(H) - m = (n + 1) - m /\ Len(H) = n + 1
      BY <2>1
    <3>2. /\ m \in 0 .. Len(H) /\ Len(v) = Len(H) - m
          /\ \A j \in 1 .. Len(H) - m : v[j] = H[m + j]
          /\ \A j \in 1 .. m : \E q \in 1 .. i + 1 : evs[q].k = "result" /\ evs[q].of = H[j].time + off /\ H[j].err = evs[q].err
          /\ \A j \in m + 1 .. Len(H), q \in 1 .. i + 1 : evs[q].k = "result" => evs[q].of # H[j].time + off
      BY Zenon, <2>3, <2>4, <2>5, <2>6, <3>1
    <3> QED BY Zenon, <3>2 DEF BridgeAheadBy, H, v
  <2> QED BY <2>7
<1>13. CASE e.k = "result"
  <2>1. /\ m + 1 \in 1 .. n /\ e.of = G[m + 1].time + off
        /\ e.tool = G[m + 1].tool /\ e.seq \in Nat /\ e.seq <= G[m + 1].own
    BY Zenon, <1>13, BridgeNextWaits
  <2>2. Len(w) > 0 /\ w[1] = G[m + 1] /\ 1 \in 1 .. n - m
    <3>1. 1 \in 1 .. n - m /\ Len(w) > 0
      BY <1>3, <2>1
    <3> QED BY Zenon, <1>3, <3>1
  <2>3. \A j \in 1 .. Len(w) : j # 1 => w[1].own < w[j].own
    <3> SUFFICES ASSUME NEW j \in 1 .. Len(w), j # 1 PROVE w[1].own < w[j].own
      OBVIOUS
    <3>1. m + j \in 1 .. n /\ m + 1 < m + j /\ j \in 1 .. n - m
      BY <1>3
    <3> QED BY Zenon, <1>3, <1>5, <2>1, <2>2, <3>1
  <2>4. p = 1
    <3> HIDE DEF w, G, e
    <3>1. w[1].tool = e.tool /\ e.seq \in Nat /\ e.seq <= w[1].own
      BY <2>1, <2>2
    <3> QED BY Zenon, <1>3, <2>2, <2>3, <3>1, BridgeMatchFirst
  <2>5. h = Bridge!Answered(g, e, 1) /\ e.err \in BOOLEAN /\ 1 \in 1 .. Len(w)
    BY <1>1, <1>2, <1>3, <1>13, <2>2, <2>4, BridgeEventIs
  <2> DEFINE v == h.waiting
  <2>6. /\ Len(v) = Len(w) - 1
        /\ \A j \in 1 .. Len(w) - 1 : v[j] = IF j < 1 THEN w[j] ELSE w[j + 1]
        /\ Len(H) = n
        /\ \A j \in 1 .. n :
             /\ H[j].time = G[j].time
             /\ G[j].own # w[1].own => H[j] = G[j]
             /\ G[j].own = w[1].own => H[j].err = e.err
    <3> HIDE DEF h, e
    <3>1. w = g.waiting /\ G = g.calls /\ n = Len(g.calls) /\ H = h.calls /\ v = h.waiting
      OBVIOUS
    <3> HIDE DEF w, G, n, H, v, p, new
    <3>2. 1 \in 1 .. Len(g.waiting) /\ h = Bridge!Answered(g, e, 1) /\ g \in BridgePairings /\ e.err \in BOOLEAN
      BY Zenon, <1>1, <1>2, <1>3, <2>5, <3>1
    <3>3. BridgeAnswersTo(g, e, 1)
      BY <3>2, BridgeAnsweredIs
    <3>4. /\ Len(h.waiting) = Len(g.waiting) - 1
          /\ \A j \in 1 .. Len(g.waiting) - 1 : h.waiting[j] = IF j < 1 THEN g.waiting[j] ELSE g.waiting[j + 1]
          /\ Len(h.calls) = Len(g.calls)
          /\ \A j \in 1 .. Len(g.calls) :
               /\ h.calls[j].time = g.calls[j].time
               /\ g.calls[j].own # g.waiting[1].own => h.calls[j] = g.calls[j]
               /\ g.calls[j].own = g.waiting[1].own => h.calls[j].err = e.err
      BY Zenon, <3>2, <3>3 DEF BridgeAnswersTo
    <3> QED BY Zenon, <3>1, <3>4
  <2> HIDE DEF h, H, G, w, n, e, p, v
  <2>7. \A j \in 1 .. n : j # m + 1 => H[j] = G[j]
    <3> SUFFICES ASSUME NEW j \in 1 .. n, j # m + 1 PROVE H[j] = G[j]
      OBVIOUS
    <3>1. j < m + 1 \/ m + 1 < j
      BY <1>3, <2>1
    <3>2. G[j].own # G[m + 1].own
      <4>1. G[j].own < G[m + 1].own \/ G[m + 1].own < G[j].own
        BY Zenon, <1>5, <2>1, <3>1
      <4>2. G[j].own \in Nat /\ G[m + 1].own \in Nat
        BY Zenon, <1>7, <2>1
      <4> QED BY <4>1, <4>2
    <3> QED BY Zenon, <2>2, <2>6, <3>2
  <2>8. \A j \in 1 .. n - (m + 1) : v[j] = H[(m + 1) + j]
    <3> SUFFICES ASSUME NEW j \in 1 .. n - (m + 1) PROVE v[j] = H[(m + 1) + j]
      OBVIOUS
    <3>1. j \in 1 .. Len(w) - 1 /\ ~(j < 1) /\ j + 1 \in 1 .. n - m /\ m + (j + 1) = (m + 1) + j /\ (m + 1) + j \in 1 .. n /\ (m + 1) + j # m + 1
      BY <1>3, <2>1
    <3>2. v[j] = w[j + 1]
      BY <2>6, <3>1
    <3>3. w[j + 1] = G[(m + 1) + j]
      BY Zenon, <1>3, <3>1
    <3> QED BY Zenon, <2>7, <3>1, <3>2, <3>3
  <2>9. \A j \in 1 .. m + 1 : \E q \in 1 .. i + 1 : evs[q].k = "result" /\ evs[q].of = H[j].time + off /\ H[j].err = evs[q].err
    <3> SUFFICES ASSUME NEW j \in 1 .. m + 1
                 PROVE  \E q \in 1 .. i + 1 : evs[q].k = "result" /\ evs[q].of = H[j].time + off /\ H[j].err = evs[q].err
      OBVIOUS
    <3>1. CASE j = m + 1
      <4>1. H[j].time = G[j].time /\ H[j].err = e.err
        BY Zenon, <2>1, <2>2, <2>6, <3>1
      <4>2. i + 1 \in 1 .. i + 1
        OBVIOUS
      <4> QED BY Zenon, <1>6, <1>13, <2>1, <3>1, <4>1, <4>2
    <3>2. CASE j # m + 1
      <4>1. j \in 1 .. m /\ j \in 1 .. n
        BY <1>3, <2>1, <3>2
      <4>2. H[j] = G[j]
        BY Zenon, <2>7, <3>2, <4>1
      <4>3. PICK q \in 1 .. i : evs[q].k = "result" /\ evs[q].of = G[j].time + off /\ G[j].err = evs[q].err
        BY Zenon, <1>4, <4>1
      <4> QED BY Zenon, <1>9, <4>2, <4>3
    <3> QED BY <3>1, <3>2
  <2>10. ASSUME NEW j \in (m + 1) + 1 .. n, NEW q \in 1 .. i + 1, evs[q].k = "result" PROVE evs[q].of # H[j].time + off
    <3>1. j \in m + 1 .. n /\ j \in 1 .. n /\ m + 1 < j /\ j # m + 1
      BY <1>3
    <3>2. H[j] = G[j]
      BY Zenon, <2>7, <3>1
    <3>3. CASE q \in 1 .. i
      BY Zenon, <1>4, <2>10, <3>1, <3>2, <3>3
    <3>4. CASE q = i + 1
      <4>1. G[m + 1].time < G[j].time /\ G[m + 1].time \in Nat /\ G[j].time \in Nat
        BY Zenon, <1>5, <1>7, <2>1, <3>1
      <4>2. G[m + 1].time + off # G[j].time + off
        BY <4>1
      <4> QED BY Zenon, <1>6, <2>1, <3>2, <3>4, <4>2
    <3> QED BY <1>8, <3>3, <3>4
  <2>11. BridgeAheadBy(evs, off, h, i + 1, m + 1)
    <3>1. m + 1 \in 0 .. Len(H) /\ Len(v) = Len(H) - (m + 1) /\ Len(H) = n
      BY <1>3, <2>1, <2>6
    <3>2. /\ m + 1 \in 0 .. Len(H) /\ Len(v) = Len(H) - (m + 1)
          /\ \A j \in 1 .. Len(H) - (m + 1) : v[j] = H[(m + 1) + j]
          /\ \A j \in 1 .. m + 1 : \E q \in 1 .. i + 1 : evs[q].k = "result" /\ evs[q].of = H[j].time + off /\ H[j].err = evs[q].err
          /\ \A j \in (m + 1) + 1 .. Len(H), q \in 1 .. i + 1 : evs[q].k = "result" => evs[q].of # H[j].time + off
      BY Zenon, <2>8, <2>9, <2>10, <3>1
    <3> QED BY Zenon, <3>2 DEF BridgeAheadBy, H, v
  <2> QED BY <2>11
<1> QED BY <1>1, <1>11, <1>12, <1>13

(* What holds at 0 and, at a number, if it holds at the one before, holds up to n. *)
LEMMA BridgeClimb ==
  ASSUME NEW n \in Nat, NEW G, 0 \in G, \A i \in 1 .. n : i - 1 \in G => i \in G
  PROVE  \A i \in 0 .. n : i \in G
<1> DEFINE D == {i \in 0 .. n : i \notin G}
<1> SUFFICES ASSUME D # {} PROVE FALSE
  OBVIOUS
<1>1. D \in SUBSET Nat
  OBVIOUS
<1>2. PICK d \in D : \A e \in D : d <= e
  <2> HIDE DEF D
  <2> QED BY <1>1, HasLowest
<1>3. d \in 1 .. n /\ d \notin G
  BY <1>2
<1>4. d - 1 \in 0 .. n /\ ~(d <= d - 1)
  BY <1>3
<1>5. d - 1 \in G
  BY <1>2, <1>4
<1> QED BY <1>3, <1>5

LEMMA BridgeAheadAlways ==
  ASSUME NEW evs \in Seq(Bridge!Event), NEW off \in Nat, BridgeOrdered(evs, off), BridgeComplete(evs, off)
  PROVE  \A i \in 0 .. Len(evs) : \E m : BridgeAheadBy(evs, off, Bridge!Pairing(evs)[i], i, m)
<1> DEFINE n == Len(evs)
           P == Bridge!Pairing(evs)
           G == {i \in 0 .. n : \E m : BridgeAheadBy(evs, off, P[i], i, m)}
<1>1. /\ n \in Nat /\ P[0] = [calls |-> <<>>, waiting |-> <<>>, own |-> 0]
      /\ \A i \in 1 .. n : P[i] = Bridge!Paired(P[i - 1], evs[i], i)
  BY BridgePairingIs
<1>2. \A i \in 0 .. n : P[i] \in BridgePairings /\ BridgeListed(evs, P[i], i)
  BY BridgeCallsAre
<1> HIDE DEF P
<1>3. 0 \in G
  <2>1. P[0].calls = <<>> /\ P[0].waiting = <<>> /\ Len(P[0].calls) = 0 /\ Len(P[0].waiting) = 0
    BY <1>1
  <2>2. BridgeAheadBy(evs, off, P[0], 0, 0)
    BY <2>1 DEF BridgeAheadBy
  <2>3. 0 \in 0 .. n
    BY <1>1
  <2> QED BY Zenon, <2>2, <2>3
<1>4. ASSUME NEW i \in 1 .. n, i - 1 \in G PROVE i \in G
  <2> DEFINE q == i - 1
  <2>1. q \in Nat /\ q + 1 \in 1 .. Len(evs) /\ q + 1 = i /\ i \in 0 .. n /\ q \in 0 .. n
    BY <1>4
  <2>2. PICK m : BridgeAheadBy(evs, off, P[q], q, m)
    BY <1>4
  <2>3. P[q + 1] = Bridge!Paired(P[q], evs[q + 1], q + 1)
    BY Zenon, <1>1, <2>1
  <2> HIDE DEF q
  <2>4. \E l : BridgeAheadBy(evs, off, Bridge!Paired(P[q], evs[q + 1], q + 1), q + 1, l)
    BY Zenon, <1>2, <2>1, <2>2, BridgeAheadMore
  <2> QED BY Zenon, <2>1, <2>3, <2>4
<1> HIDE DEF G, n
<1>5. \A i \in 0 .. n : i \in G
  BY <1>1, <1>3, <1>4, BridgeClimb
<1> QED BY Zenon, <1>5 DEF G, n, P

(* Every call ends up with its own result.                                     *)
LEMMA BridgeOwnResults ==
  ASSUME NEW evs \in Seq(Bridge!Event), NEW off \in Nat, BridgeOrdered(evs, off), BridgeComplete(evs, off)
  PROVE  /\ Bridge!Extract(evs) \in Seq(BridgeCall)
         /\ \A j \in 1 .. Len(Bridge!Extract(evs)) : \A q \in 1 .. Len(evs) :
              evs[q].k = "result" /\ evs[q].of = Bridge!Extract(evs)[j].time + off => Bridge!Extract(evs)[j].err = evs[q].err
<1> DEFINE n == Len(evs)
           g == Bridge!Pairing(evs)[n]
           G == g.calls
<1>1. n \in Nat /\ n \in 0 .. n /\ g \in BridgePairings
  BY BridgeCallsAre
<1>2. PICK m : BridgeAheadBy(evs, off, g, n, m)
  BY <1>1, BridgeAheadAlways
<1>3. Bridge!Extract(evs) = G
  BY Zenon DEF Bridge!Extract
<1>4. G \in Seq(BridgeCall) /\ m \in 0 .. Len(G)
  BY <1>1, <1>2 DEF BridgePairings, BridgeAheadBy
<1>5. \A q \in 1 .. n : evs[q].k = "result" => evs[q].of \in Nat
  <2>1. \A q \in 1 .. n : evs[q] \in Bridge!Event
    OBVIOUS
  <2> QED BY Zenon, <2>1, BridgeEventIs
<1>6. /\ \A j \in 1 .. m : \E q \in 1 .. n : evs[q].k = "result" /\ evs[q].of = G[j].time + off /\ G[j].err = evs[q].err
      /\ \A j \in m + 1 .. Len(G), q \in 1 .. n : evs[q].k = "result" => evs[q].of # G[j].time + off
  BY Zenon, <1>2 DEF BridgeAheadBy
<1>7. \A i, j \in 1 .. n : i < j /\ evs[i].k = "result" /\ evs[j].k = "result" => evs[i].of < evs[j].of
  BY Zenon DEF BridgeOrdered
<1> HIDE DEF g, G, n
<1>8. ASSUME NEW j \in 1 .. Len(G), NEW q \in 1 .. n, evs[q].k = "result", evs[q].of = G[j].time + off
      PROVE  G[j].err = evs[q].err
  <2>1. j \notin m + 1 .. Len(G)
    BY Zenon, <1>6, <1>8
  <2>2. j \in 1 .. m
    BY <1>4, <2>1
  <2>3. PICK r \in 1 .. n : evs[r].k = "result" /\ evs[r].of = G[j].time + off /\ G[j].err = evs[r].err
    BY Zenon, <1>6, <2>2
  <2>4. evs[r].of = evs[q].of
    BY Zenon, <1>8, <2>3
  <2>5. r = q
    <3>1. ~(r < q) /\ ~(q < r)
      BY <1>5, <1>7, <1>8, <2>3, <2>4
    <3> QED BY <1>1, <3>1
  <2> QED BY Zenon, <2>3, <2>5
<1> QED BY Zenon, <1>3, <1>4, <1>8 DEF n

(* The segments found so far, and the start that waits for its end.            *)
BridgeSplits == [done : Seq(Nat \X Nat), from : Nat]
BridgeSegment(evs, s) ==
  /\ s[1] \in 1 .. Len(evs) /\ s[2] \in 1 .. Len(evs) /\ s[1] < s[2]
  /\ evs[s[1]].k = "start" /\ evs[s[2]].k = "end"
  /\ \A u \in s[1] + 1 .. s[2] - 1 : evs[u].k \notin {"start", "end"}
BridgeFound(evs, g, i) ==
  /\ \A j \in 1 .. Len(g.done) : BridgeSegment(evs, g.done[j])
  /\ g.from # 0 =>
       /\ g.from \in 1 .. i /\ evs[g.from].k = "start"
       /\ \A u \in g.from + 1 .. i : evs[u].k \notin {"start", "end"}
  /\ i >= 1 /\ evs[1].k = "start" /\ (\E u \in 1 .. i : evs[u].k = "end") => g.done # <<>>
  /\ i >= 1 /\ evs[1].k = "start" => g.done # <<>> \/ g.from # 0

LEMMA BridgeMarkedIs ==
  ASSUME NEW g \in BridgeSplits, NEW e \in Bridge!Event, NEW i \in Nat
  PROVE  /\ Bridge!Marked(g, e, i) \in BridgeSplits
         /\ e.k = "start" => Bridge!Marked(g, e, i).done = g.done /\ Bridge!Marked(g, e, i).from = i
         /\ e.k = "end" /\ g.from # 0 => Bridge!Marked(g, e, i).done = Append(g.done, <<g.from, i>>) /\ Bridge!Marked(g, e, i).from = 0
         /\ e.k = "end" /\ g.from = 0 => Bridge!Marked(g, e, i) = g
         /\ e.k \notin {"start", "end"} => Bridge!Marked(g, e, i) = g
<1> DEFINE h == Bridge!Marked(g, e, i)
<1>1. g.done \in Seq(Nat \X Nat) /\ g.from \in Nat
  BY DEF BridgeSplits
<1>2. h = IF e.k = "start" THEN [g EXCEPT !.from = i]
          ELSE IF e.k = "end" /\ g.from # 0 THEN [done |-> Append(g.done, <<g.from, i>>), from |-> 0]
          ELSE g
  BY Zenon DEF Bridge!Marked
<1> HIDE DEF h
<1>3. CASE e.k = "start"
  <2>1. h = [g EXCEPT !.from = i]
    BY <1>2, <1>3
  <2>2. h \in BridgeSplits /\ h.done = g.done /\ h.from = i
    BY <1>1, <2>1 DEF BridgeSplits
  <2> QED BY <1>3, <2>2 DEF h
<1>4. CASE e.k = "end" /\ g.from # 0
  <2> DEFINE D == Append(g.done, <<g.from, i>>)
  <2>1. h = [done |-> D, from |-> 0]
    BY <1>2, <1>4
  <2>2. D \in Seq(Nat \X Nat)
    BY <1>1
  <2> HIDE DEF D
  <2>3. h \in BridgeSplits /\ h.done = D /\ h.from = 0
    BY <2>1, <2>2 DEF BridgeSplits
  <2> QED BY <1>4, <2>3 DEF h, D
<1>5. CASE e.k \notin {"start", "end"} \/ (e.k = "end" /\ g.from = 0)
  <2>1. h = g
    BY <1>2, <1>5
  <2> QED BY <1>5, <2>1 DEF h
<1> QED BY <1>3, <1>4, <1>5

LEMMA BridgeMarkedType ==
  ASSUME NEW g \in BridgeSplits, NEW e \in Bridge!Event, NEW i \in Nat
  PROVE  Bridge!Marked(g, e, i) \in BridgeSplits
BY BridgeMarkedIs

LEMMA BridgeSplitIs ==
  ASSUME NEW evs \in Seq(Bridge!Event)
  PROVE  /\ Bridge!Split(evs) \in [0 .. Len(evs) -> BridgeSplits]
         /\ Bridge!Split(evs)[0] = [done |-> <<>>, from |-> 0]
         /\ \A i \in 1 .. Len(evs) : Bridge!Split(evs)[i] = Bridge!Marked(Bridge!Split(evs)[i - 1], evs[i], i)
<1> DEFINE none == [done |-> <<>>, from |-> 0]
           n == Len(evs)
           step == [i \in 1 .. n |-> [g \in BridgeSplits |-> Bridge!Marked(g, evs[i], i)]]
           P == Bridge!Split(evs)
<1>1. n \in Nat /\ \A i \in 1 .. n : evs[i] \in Bridge!Event
  OBVIOUS
<1>2. none \in BridgeSplits
  BY DEF BridgeSplits
<1> HIDE DEF n
<1>3. step \in [1 .. n -> [BridgeSplits -> BridgeSplits]]
  <2>1. \A i \in 1 .. n, g \in BridgeSplits : Bridge!Marked(g, evs[i], i) \in BridgeSplits
    <3>1. \A i \in 1 .. n : i \in Nat
      BY <1>1
    <3> QED BY Zenon, <1>1, <3>1, BridgeMarkedType
  <2> QED BY <2>1
<1>4. \A i \in 1 .. n, g \in BridgeSplits : step[i][g] = Bridge!Marked(g, evs[i], i)
  OBVIOUS
<1> HIDE DEF none, step
<1>5. PICK f : BridgeUpto(f, n, BridgeSplits, none, step)
  BY <1>1, <1>2, <1>3, BridgeIterated
<1>6. f \in [0 .. n -> BridgeSplits] /\ f[0] = none /\ \A i \in 1 .. n : f[i] = Bridge!Marked(f[i - 1], evs[i], i)
  <2>1. f \in [0 .. n -> BridgeSplits] /\ f[0] = none /\ \A i \in 1 .. n : f[i] = step[i][f[i - 1]]
    BY <1>5 DEF BridgeUpto
  <2>2. \A i \in 1 .. n : i - 1 \in 0 .. n
    BY <1>1
  <2> QED BY <1>4, <2>1, <2>2
<1>7. f = [i \in 0 .. n |-> IF i = 0 THEN none ELSE Bridge!Marked(f[i - 1], evs[i], i)]
  <2>1. \A i \in 0 .. n : i = 0 \/ i \in 1 .. n
    BY <1>1
  <2>2. \A i \in 0 .. n : f[i] = IF i = 0 THEN none ELSE Bridge!Marked(f[i - 1], evs[i], i)
    BY <1>6, <2>1
  <2> QED BY <1>6, <2>2
<1>8. P = [i \in 0 .. n |-> IF i = 0 THEN none ELSE Bridge!Marked(P[i - 1], evs[i], i)]
  BY Zenon, <1>7 DEF Bridge!Split, none, n
<1> HIDE DEF P
<1>9. P[0] = none /\ \A i \in 1 .. n : i \in 0 .. n /\ i - 1 \in 0 .. n /\ P[i] = Bridge!Marked(P[i - 1], evs[i], i)
  BY <1>1, <1>8
<1> DEFINE G == {i \in 0 .. n : P[i] \in BridgeSplits}
<1>10. \A i \in 0 .. n : i \in G
  <2>1. 0 \in G
    BY <1>1, <1>2, <1>9
  <2>2. ASSUME NEW i \in 1 .. n, i - 1 \in G PROVE i \in G
    <3>1. P[i - 1] \in BridgeSplits /\ i \in Nat /\ evs[i] \in Bridge!Event /\ P[i] = Bridge!Marked(P[i - 1], evs[i], i) /\ i \in 0 .. n
      BY <1>1, <1>9, <2>2
    <3>2. P[i] \in BridgeSplits
      BY Zenon, <3>1, BridgeMarkedType
    <3> QED BY <3>1, <3>2
  <2> HIDE DEF G
  <2> QED BY <1>1, <2>1, <2>2, BridgeClimb
<1>11. P \in [0 .. n -> BridgeSplits]
  BY <1>8, <1>10
<1> QED BY <1>9, <1>11 DEF P, n, none

LEMMA BridgeFoundMore ==
  ASSUME NEW evs \in Seq(Bridge!Event), NEW i \in Nat, i + 1 \in 1 .. Len(evs), NEW g \in BridgeSplits, BridgeFound(evs, g, i)
  PROVE  BridgeFound(evs, Bridge!Marked(g, evs[i + 1], i + 1), i + 1)
<1> DEFINE e == evs[i + 1]
           h == Bridge!Marked(g, e, i + 1)
           f == g.from
           D == g.done
<1>1. e \in Bridge!Event /\ i + 1 \in Nat /\ D \in Seq(Nat \X Nat) /\ f \in Nat
  BY DEF BridgeSplits
<1>2. /\ h \in BridgeSplits
      /\ e.k = "start" => h.done = D /\ h.from = i + 1
      /\ e.k = "end" /\ f # 0 => h.done = Append(D, <<f, i + 1>>) /\ h.from = 0
      /\ e.k = "end" /\ f = 0 => h = g
      /\ e.k \notin {"start", "end"} => h = g
  <2> HIDE DEF e
  <2> QED BY <1>1, BridgeMarkedIs
<1>3. /\ \A j \in 1 .. Len(D) : BridgeSegment(evs, D[j])
      /\ f # 0 => /\ f \in 1 .. i /\ evs[f].k = "start" /\ \A u \in f + 1 .. i : evs[u].k \notin {"start", "end"}
      /\ i >= 1 /\ evs[1].k = "start" /\ (\E u \in 1 .. i : evs[u].k = "end") => D # <<>>
      /\ i >= 1 /\ evs[1].k = "start" => D # <<>> \/ f # 0
  BY Zenon DEF BridgeFound
<1>4. \A u \in 1 .. i + 1 : u \in 1 .. i \/ (u = i + 1 /\ evs[u] = e)
  OBVIOUS
<1>5. e = evs[i + 1] /\ i + 1 >= 1
  OBVIOUS
<1> SUFFICES BridgeFound(evs, h, i + 1)
  OBVIOUS
<1> HIDE DEF h, e, f, D
<1>6. CASE e.k = "start"
  <2>1. h.done = D /\ h.from = i + 1
    BY <1>2, <1>6
  <2>2. h.from \in 1 .. i + 1 /\ evs[h.from].k = "start" /\ (i + 1) + 1 .. i + 1 = {}
    BY <1>5, <1>6, <2>1
  <2>3. ASSUME evs[1].k = "start", NEW u \in 1 .. i + 1, evs[u].k = "end" PROVE D # <<>>
    <3>1. u \in 1 .. i
      BY <1>4, <1>6, <2>3
    <3>2. i >= 1
      BY <3>1
    <3> QED BY Zenon, <1>3, <2>3, <3>1, <3>2
  <2>4. h.from # 0
    BY <2>1
  <2> QED BY <1>3, <2>1, <2>2, <2>3, <2>4 DEF BridgeFound
<1>7. CASE e.k = "end" /\ f # 0
  <2> DEFINE s == <<f, i + 1>>
             H == h.done
  <2>1. H = Append(D, s) /\ h.from = 0
    BY <1>2, <1>7
  <2>2. BridgeSegment(evs, s)
    <3>1. f \in 1 .. i /\ evs[f].k = "start" /\ \A u \in f + 1 .. i : evs[u].k \notin {"start", "end"}
      BY <1>3, <1>7
    <3>2. s[1] = f /\ s[2] = i + 1 /\ (i + 1) - 1 = i
      OBVIOUS
    <3>3. f \in 1 .. Len(evs) /\ i + 1 \in 1 .. Len(evs) /\ f < i + 1
      BY <3>1
    <3>4. evs[i + 1].k = "end"
      BY <1>5, <1>7
    <3> HIDE DEF s
    <3> QED BY <3>1, <3>2, <3>3, <3>4 DEF BridgeSegment
  <2>3. s \in Nat \X Nat
    BY <1>1
  <2> HIDE DEF s, H
  <2>4. /\ Len(H) = Len(D) + 1 /\ H[Len(D) + 1] = s /\ Len(D) \in Nat /\ H # <<>>
        /\ \A j \in 1 .. Len(D) : H[j] = D[j]
    BY <1>1, <2>1, <2>3
  <2>5. \A j \in 1 .. Len(H) : BridgeSegment(evs, H[j])
    <3>1. \A j \in 1 .. Len(H) : j \in 1 .. Len(D) \/ j = Len(D) + 1
      BY <2>4
    <3> QED BY Zenon, <1>3, <2>2, <2>4, <3>1
  <2> QED BY <2>1, <2>4, <2>5 DEF BridgeFound, H
<1>8. CASE e.k = "end" /\ f = 0
  <2>1. h = g
    BY <1>2, <1>8
  <2>2. ASSUME evs[1].k = "start" PROVE D # <<>>
    <3>1. i + 1 # 1
      BY <1>5, <1>8, <2>2
    <3>2. i >= 1
      BY <3>1
    <3> QED BY <1>3, <1>8, <2>2, <3>2
  <2>3. h.done = D /\ h.from = f
    BY <2>1 DEF D, f
  <2> QED BY <1>3, <1>8, <2>2, <2>3 DEF BridgeFound
<1>9. CASE e.k \notin {"start", "end"}
  <2>1. h.done = D /\ h.from = f
    BY <1>2, <1>9 DEF D, f
  <2>2. ASSUME f # 0 PROVE f \in 1 .. i + 1 /\ evs[f].k = "start" /\ \A u \in f + 1 .. i + 1 : evs[u].k \notin {"start", "end"}
    <3>1. f \in 1 .. i /\ evs[f].k = "start" /\ \A u \in f + 1 .. i : evs[u].k \notin {"start", "end"}
      BY <1>3, <2>2
    <3>2. \A u \in f + 1 .. i + 1 : u \in f + 1 .. i \/ u = i + 1
      BY <1>1
    <3>3. f \in 1 .. i + 1
      BY <3>1
    <3> QED BY Zenon, <1>5, <1>9, <3>1, <3>2, <3>3
  <2>3. ASSUME evs[1].k = "start" PROVE i >= 1
    BY <1>5, <1>9, <2>3
  <2>4. ASSUME NEW u \in 1 .. i + 1, evs[u].k = "end" PROVE u \in 1 .. i
    BY <1>4, <1>9, <2>4
  <2> QED BY <1>3, <2>1, <2>2, <2>3, <2>4 DEF BridgeFound
<1> QED BY <1>6, <1>7, <1>8, <1>9

(* A segment runs from a start to an end without a marker between them; a trace *)
(* with a start at the beginning and some end has a segment.                   *)
LEMMA BridgeSegmentsAre ==
  ASSUME NEW evs \in Seq(Bridge!Event)
  PROVE  /\ Bridge!SegmentSeq(evs) \in Seq(Nat \X Nat)
         /\ \A j \in 1 .. Len(Bridge!SegmentSeq(evs)) : BridgeSegment(evs, Bridge!SegmentSeq(evs)[j])
         /\ evs # <<>> /\ evs[1].k = "start" /\ (\E u \in 1 .. Len(evs) : evs[u].k = "end") => Bridge!SegmentSeq(evs) # <<>>
<1> DEFINE n == Len(evs)
           P == Bridge!Split(evs)
           G == {i \in 0 .. n : BridgeFound(evs, P[i], i)}
<1>1. /\ n \in Nat /\ P \in [0 .. n -> BridgeSplits] /\ P[0] = [done |-> <<>>, from |-> 0]
      /\ \A i \in 1 .. n : P[i] = Bridge!Marked(P[i - 1], evs[i], i)
  BY BridgeSplitIs
<1>2. evs # <<>> => n >= 1
  OBVIOUS
<1>3. \A i \in 1 .. n : i \in 1 .. Len(evs) /\ i - 1 \in Nat /\ i - 1 \in 0 .. n /\ (i - 1) + 1 = i
  BY <1>1
<1> HIDE DEF P
<1>4. \A i \in 0 .. n : i \in G
  <2>1. 0 \in G
    <3>1. P[0].done = <<>> /\ P[0].from = 0 /\ Len(P[0].done) = 0 /\ 0 \in 0 .. n
      BY <1>1
    <3>2. BridgeFound(evs, P[0], 0)
      BY <3>1 DEF BridgeFound
    <3> QED BY <3>1, <3>2
  <2>2. ASSUME NEW i \in 1 .. n, i - 1 \in G PROVE i \in G
    <3> DEFINE q == i - 1
    <3>1. q \in Nat /\ q + 1 \in 1 .. Len(evs) /\ q + 1 = i /\ i \in 0 .. n /\ q \in 0 .. n
      BY <1>3, <2>2
    <3>2. BridgeFound(evs, P[q], q) /\ P[q] \in BridgeSplits
      BY <1>1, <2>2
    <3>3. P[q + 1] = Bridge!Marked(P[q], evs[q + 1], q + 1)
      BY Zenon, <1>1, <3>1
    <3> HIDE DEF q
    <3>4. BridgeFound(evs, Bridge!Marked(P[q], evs[q + 1], q + 1), q + 1)
      BY Zenon, <3>1, <3>2, BridgeFoundMore
    <3> QED BY Zenon, <3>1, <3>3, <3>4
  <2> HIDE DEF G, n
  <2> QED BY <1>1, <2>1, <2>2, BridgeClimb
<1>5. BridgeFound(evs, P[n], n) /\ P[n] \in BridgeSplits
  BY <1>1, <1>4
<1>6. Bridge!SegmentSeq(evs) = P[n].done
  BY Zenon DEF Bridge!SegmentSeq, P, n
<1>7. P[n].done \in Seq(Nat \X Nat)
  BY <1>5 DEF BridgeSplits
<1> HIDE DEF n
<1> QED BY Zenon, <1>2, <1>5, <1>6, <1>7 DEF BridgeFound, n

(* The part of a trace from one event to another.                              *)
LEMMA BridgeSliceIs ==
  ASSUME NEW t \in Seq(Bridge!Event), NEW a \in 1 .. Len(t), NEW b \in 1 .. Len(t), a < b
  PROVE  /\ SubSeq(t, a, b) \in Seq(Bridge!Event) /\ Len(SubSeq(t, a, b)) = b - (a - 1)
         /\ \A u \in 1 .. b - (a - 1) : SubSeq(t, a, b)[u] = t[u + (a - 1)]
<1>1. SubSeq(t, a, b) \in Seq(Bridge!Event) /\ Len(SubSeq(t, a, b)) = b - (a - 1)
  OBVIOUS
<1>2. \A u \in 1 .. b - (a - 1) : SubSeq(t, a, b)[u] = t[u + (a - 1)]
  OBVIOUS
<1> QED BY <1>1, <1>2

(* Every part is a stretch of the trace, of at least one event if it is not    *)
(* the whole, with a start in front and an end behind.                         *)
LEMMA BridgePartsAre ==
  ASSUME NEW t \in Seq(Bridge!Event)
  PROVE  /\ Bridge!Parts(t) \in Nat /\ Bridge!Parts(t) >= 1 /\ (~Bridge!Segmented(t) => Bridge!Parts(t) = 1)
         /\ \A i \in 1 .. Bridge!Parts(t) :
              LET s == Bridge!Part(t, i)
                  off == Bridge!Offset(t, i)
              IN /\ s \in Seq(Bridge!Event) /\ off \in Nat /\ off + Len(s) <= Len(t)
                 /\ \A u \in 1 .. Len(s) : s[u] = t[u + off]
                 /\ Bridge!Segmented(t) =>
                      /\ Len(s) > 1 /\ t[off + 1].k = "start" /\ t[off + Len(s)].k = "end"
                      /\ \A u \in 2 .. Len(s) - 1 : t[u + off].k \notin {"start", "end"}
                 /\ ~Bridge!Segmented(t) => s = t /\ off = 0
<1> DEFINE S == Bridge!SegmentSeq(t)
<1>1. S \in Seq(Nat \X Nat) /\ \A j \in 1 .. Len(S) : BridgeSegment(t, S[j])
  BY BridgeSegmentsAre
<1>2. Bridge!Segmented(t) <=> S # <<>>
  BY Zenon DEF Bridge!Segmented
<1>3. Bridge!Parts(t) = IF Bridge!Segmented(t) THEN Len(S) ELSE 1
  BY Zenon DEF Bridge!Parts
<1> HIDE DEF S
<1>4. Bridge!Parts(t) \in Nat /\ Bridge!Parts(t) >= 1 /\ (~Bridge!Segmented(t) => Bridge!Parts(t) = 1)
  <2>1. S # <<>> => Len(S) >= 1
    BY <1>1
  <2> QED BY <1>1, <1>2, <1>3, <2>1
<1> DEFINE n == Bridge!Parts(t)
<1> SUFFICES ASSUME NEW i \in 1 .. n
             PROVE  LET s == Bridge!Part(t, i)
                        off == Bridge!Offset(t, i)
                    IN /\ s \in Seq(Bridge!Event) /\ off \in Nat /\ off + Len(s) <= Len(t)
                       /\ \A u \in 1 .. Len(s) : s[u] = t[u + off]
                       /\ Bridge!Segmented(t) =>
                            /\ Len(s) > 1 /\ t[off + 1].k = "start" /\ t[off + Len(s)].k = "end"
                            /\ \A u \in 2 .. Len(s) - 1 : t[u + off].k \notin {"start", "end"}
                       /\ ~Bridge!Segmented(t) => s = t /\ off = 0
  BY <1>4
<1> DEFINE s == Bridge!Part(t, i)
           off == Bridge!Offset(t, i)
<1>5. CASE ~Bridge!Segmented(t)
  <2>1. s = t /\ off = 0
    BY Zenon, <1>5 DEF Bridge!Part, Bridge!Offset
  <2>2. \A u \in 1 .. Len(t) : t[u] = t[u + 0]
    OBVIOUS
  <2> HIDE DEF s, off
  <2>3. s \in Seq(Bridge!Event) /\ off \in Nat /\ off + Len(s) <= Len(t)
    BY <2>1
  <2> QED BY Zenon, <1>5, <2>1, <2>2, <2>3 DEF s, off
<1>6. CASE Bridge!Segmented(t)
  <2> DEFINE a == S[i][1]
             b == S[i][2]
  <2>1. s = SubSeq(t, a, b) /\ off = a - 1
    BY Zenon, <1>6 DEF Bridge!Part, Bridge!Offset, S
  <2>2. i \in 1 .. Len(S)
    BY <1>3, <1>6
  <2>3. /\ a \in 1 .. Len(t) /\ b \in 1 .. Len(t) /\ a < b /\ t[a].k = "start" /\ t[b].k = "end"
        /\ \A u \in a + 1 .. b - 1 : t[u].k \notin {"start", "end"}
    <3>1. BridgeSegment(t, S[i])
      BY Zenon, <1>1, <2>2
    <3> QED BY Zenon, <3>1 DEF BridgeSegment
  <2> HIDE DEF s, off, a, b
  <2>4. /\ SubSeq(t, a, b) \in Seq(Bridge!Event) /\ Len(SubSeq(t, a, b)) = b - (a - 1)
        /\ \A u \in 1 .. b - (a - 1) : SubSeq(t, a, b)[u] = t[u + (a - 1)]
    BY <2>3, BridgeSliceIs
  <2>5. s \in Seq(Bridge!Event) /\ Len(s) = b - off /\ \A u \in 1 .. Len(s) : s[u] = t[u + off]
    BY Zenon, <2>1, <2>4
  <2>6. /\ off \in Nat /\ off + Len(s) <= Len(t) /\ Len(s) > 1 /\ off + 1 = a /\ off + Len(s) = b
        /\ \A u \in 2 .. Len(s) - 1 : u + off \in a + 1 .. b - 1
    BY <2>1, <2>3, <2>5
  <2> QED BY Zenon, <1>6, <2>3, <2>5, <2>6 DEF s, off
<1> QED BY <1>5, <1>6

(* A stretch of a trace has the calls and searches that are there.             *)
BridgeShifted(t, s, off, n) == \A u \in 1 .. n : s[u] = t[u + off]
BridgeAsMany(t, s, off, n) ==
  \A m \in 0 .. n : Bridge!Cardinality(Bridge!Numbered(s, 1, m)) = Bridge!Cardinality(Bridge!Numbered(t, off + 1, off + m))
LEMMA BridgeNumberedShift ==
  ASSUME NEW t, NEW s, NEW off \in Nat, NEW n \in Nat, BridgeShifted(t, s, off, n)
  PROVE  BridgeAsMany(t, s, off, n)
<1> DEFINE G == {m \in 0 .. n : Bridge!Cardinality(Bridge!Numbered(s, 1, m)) = Bridge!Cardinality(Bridge!Numbered(t, off + 1, off + m))}
<1>1. 0 \in G
  <2>1. Bridge!Numbered(s, 1, 0) = {} /\ Bridge!Numbered(t, off + 1, off + 0) = {}
    BY DEF Bridge!Numbered
  <2> QED BY <2>1
<1>2. ASSUME NEW m \in 1 .. n, m - 1 \in G PROVE m \in G
  <2> DEFINE q == m - 1
  <2>1. /\ q \in Nat /\ q + 1 = m /\ off + q \in Nat /\ (off + q) + 1 = off + m /\ off + 1 \in Nat /\ off + 1 <= (off + q) + 1
        /\ 1 <= q + 1 /\ 1 \in Nat /\ m \in 0 .. n /\ m + off = off + m
    BY <1>2
  <2>2. Bridge!Cardinality(Bridge!Numbered(s, 1, q)) = Bridge!Cardinality(Bridge!Numbered(t, off + 1, off + q))
    BY <1>2
  <2>3. s[m] = t[off + m]
    BY Zenon, <2>1, <1>2 DEF BridgeShifted
  <2> HIDE DEF q
  <2>4. Bridge!Cardinality(Bridge!Numbered(s, 1, q + 1)) =
          IF s[q + 1].k \in {"call", "search"} THEN Bridge!Cardinality(Bridge!Numbered(s, 1, q)) + 1 ELSE Bridge!Cardinality(Bridge!Numbered(s, 1, q))
    BY Zenon, <2>1, BridgeNumberedMore
  <2>5. Bridge!Cardinality(Bridge!Numbered(t, off + 1, (off + q) + 1)) =
          IF t[(off + q) + 1].k \in {"call", "search"} THEN Bridge!Cardinality(Bridge!Numbered(t, off + 1, off + q)) + 1
          ELSE Bridge!Cardinality(Bridge!Numbered(t, off + 1, off + q))
    BY Zenon, <2>1, BridgeNumberedMore
  <2>6. Bridge!Cardinality(Bridge!Numbered(s, 1, m)) = Bridge!Cardinality(Bridge!Numbered(t, off + 1, off + m))
    BY Zenon, <2>1, <2>2, <2>3, <2>4, <2>5
  <2> QED BY <2>1, <2>6
<1> HIDE DEF G
<1>3. \A m \in 0 .. n : m \in G
  BY <1>1, <1>2, BridgeClimb
<1> QED BY <1>3 DEF G, BridgeAsMany

(* Where a part is: no further start in it, and results stand with their calls. *)
LEMMA BridgePartIs ==
  ASSUME Bridge_trace \in Seq(Bridge!Event), Bridge_kind \in {"repl", "server"}, Bridge!Traced, Bridge!Markers, NEW i \in 1 .. Bridge!Parts(Bridge_trace),
         NEW n, n = Len(Bridge!Part(Bridge_trace, i)), NEW off, off = Bridge!Offset(Bridge_trace, i)
  PROVE  /\ n \in Nat /\ off \in Nat /\ off + n <= Len(Bridge_trace)
         /\ \A m \in 1 .. n : Bridge!From(Bridge_trace, off + 1, off + m)
         /\ \A q \in 1 .. Len(Bridge_trace) : Bridge_trace[q].k = "result" =>
              (q \in off + 1 .. off + n <=> Bridge_trace[q].of \in off + 1 .. off + n)
<1> DEFINE s == Bridge!Part(Bridge_trace, i)
           T == Len(Bridge_trace)
<1>1. /\ s \in Seq(Bridge!Event) /\ n \in Nat /\ off \in Nat /\ off + n <= T /\ T \in Nat
      /\ Bridge!Segmented(Bridge_trace) =>
           /\ n > 1 /\ Bridge_trace[off + 1].k = "start" /\ Bridge_trace[off + n].k = "end"
           /\ \A u \in 2 .. n - 1 : Bridge_trace[u + off].k \notin {"start", "end"}
      /\ ~Bridge!Segmented(Bridge_trace) => n = T /\ off = 0
  BY BridgePartsAre
<1>2. \A q \in 1 .. T : Bridge_trace[q].k = "result" =>
        /\ Bridge_trace[q].of \in 1 .. q - 1 /\ Bridge_trace[Bridge_trace[q].of].k = "call"
        /\ \A u \in Bridge_trace[q].of .. q : Bridge_trace[u].k \notin {"start", "end"}
  <2>1. DOMAIN Bridge_trace = 1 .. T
    OBVIOUS
  <2> QED BY Zenon, <2>1 DEF Bridge!Traced, Bridge!InOrder
<1> HIDE DEF s
<1>3. CASE Bridge!Segmented(Bridge_trace)
  <2> DEFINE a == off + 1
             b == off + n
  <2>1. a \in 1 .. T /\ b \in 1 .. T /\ a < b /\ Bridge_trace[a].k = "start" /\ Bridge_trace[b].k = "end"
    BY <1>1, <1>3
  <2>2. ASSUME NEW m \in 1 .. n PROVE Bridge!From(Bridge_trace, a, off + m)
    <3>1. a <= off + m
      BY <1>1
    <3>2. ASSUME NEW u \in a + 1 .. off + m PROVE Bridge_trace[u].k # "start"
      <4>1. CASE u = b
        BY <2>1, <4>1
      <4>2. CASE u # b
        <5>1. u - off \in 2 .. n - 1 /\ (u - off) + off = u
          <6>1. off \in Nat /\ n \in Nat /\ m \in 1 .. n /\ u \in (off + 1) + 1 .. off + m /\ u # off + n
            BY <1>1, <2>2, <3>2, <4>2
          <6> QED BY ONLY <6>1
        <5> QED BY <1>1, <1>3, <5>1
      <4> QED BY <4>1, <4>2
    <3> QED BY <2>1, <3>1, <3>2 DEF Bridge!From
  <2>3. ASSUME NEW q \in 1 .. T, Bridge_trace[q].k = "result" PROVE q \in a .. b <=> Bridge_trace[q].of \in a .. b
    <3> DEFINE o == Bridge_trace[q].of
    <3>1. /\ o \in 1 .. q - 1 /\ Bridge_trace[o].k = "call" /\ \A u \in o .. q : Bridge_trace[u].k \notin {"start", "end"}
      BY Zenon, <1>2, <2>3
    <3> HIDE DEF o
    <3>2. a \notin o .. q /\ b \notin o .. q
      BY Zenon, <2>1, <3>1
    <3>3. q \in a .. b <=> o \in a .. b
      <4> HIDE DEF a, b
      <4> QED BY <1>1, <2>1, <3>1, <3>2
    <3> QED BY <3>3 DEF o
  <2> QED BY <1>1, <2>2, <2>3
<1>4. CASE ~Bridge!Segmented(Bridge_trace)
  <2>1. n = T /\ off = 0
    BY <1>1, <1>4
  <2>2. ASSUME NEW u \in 2 .. T, Bridge_trace[u].k = "start" PROVE FALSE
    <3>1. u \in 1 .. T /\ u > 1 /\ u - 1 \in 1 .. T /\ DOMAIN Bridge_trace = 1 .. T /\ Bridge_trace # <<>>
      BY <1>1
    <3>2. Bridge_kind = "repl"
      <4>1. Bridge_kind # "server"
        <5>1. Bridge_trace[u].k \in {"start", "end"}
          BY <2>2
        <5> QED BY Zenon, <3>1, <5>1 DEF Bridge!Markers
      <4> QED BY <4>1
    <3>3. Bridge_trace[u - 1].k = "end" /\ Bridge_trace[1].k = "start"
      BY Zenon, <2>2, <3>1, <3>2 DEF Bridge!Markers
    <3>4. Bridge!SegmentSeq(Bridge_trace) # <<>>
      <4>1. \E v \in 1 .. Len(Bridge_trace) : Bridge_trace[v].k = "end"
        BY <3>1, <3>3
      <4> QED BY Zenon, <3>1, <3>3, <4>1, BridgeSegmentsAre
    <3> QED BY <1>4, <3>4 DEF Bridge!Segmented
  <2>3. ASSUME NEW m \in 1 .. n PROVE Bridge!From(Bridge_trace, off + 1, off + m)
    <3>1. \A u \in (off + 1) + 1 .. off + m : Bridge_trace[u].k # "start"
      BY <1>1, <2>1, <2>2
    <3> QED BY <2>1, <3>1 DEF Bridge!From
  <2>4. ASSUME NEW q \in 1 .. T, Bridge_trace[q].k = "result" PROVE q \in 1 .. T /\ Bridge_trace[q].of \in 1 .. T
    <3> DEFINE o == Bridge_trace[q].of
    <3>1. o \in 1 .. q - 1
      BY Zenon, <1>2, <2>4
    <3> HIDE DEF o
    <3>2. o \in 1 .. T
      BY <1>1, <3>1
    <3> QED BY <3>2 DEF o
  <2>5. off + 1 = 1 /\ off + n = T
    BY <1>1, <2>1
  <2> QED BY <1>1, <2>3, <2>4, <2>5
<1> QED BY <1>3, <1>4

LEMMA BridgePartOrdered ==
  ASSUME Bridge_trace \in Seq(Bridge!Event), Bridge_kind \in {"repl", "server"}, Bridge!Traced, Bridge!Markers, NEW i \in 1 .. Bridge!Parts(Bridge_trace)
  PROVE  BridgeOrdered(Bridge!Part(Bridge_trace, i), Bridge!Offset(Bridge_trace, i))
<1> DEFINE s == Bridge!Part(Bridge_trace, i)
           n == Len(s)
           off == Bridge!Offset(Bridge_trace, i)
           T == Len(Bridge_trace)
<1>1. /\ n \in Nat /\ off \in Nat /\ off + n <= T
      /\ \A m \in 1 .. n : Bridge!From(Bridge_trace, off + 1, off + m)
      /\ \A q \in 1 .. T : Bridge_trace[q].k = "result" => (q \in off + 1 .. off + n <=> Bridge_trace[q].of \in off + 1 .. off + n)
  BY BridgePartIs
<1>2. s \in Seq(Bridge!Event) /\ \A u \in 1 .. n : s[u] = Bridge_trace[u + off]
  BY BridgePartsAre
<1>3. T \in Nat /\ DOMAIN Bridge_trace = 1 .. T
  OBVIOUS
<1>4. /\ \A q \in 1 .. T : Bridge_trace[q].k = "result" =>
           /\ Bridge_trace[q].of \in 1 .. q - 1 /\ Bridge_trace[Bridge_trace[q].of].k = "call"
           /\ Bridge_trace[Bridge_trace[q].of].tool = Bridge_trace[q].tool /\ Bridge_trace[Bridge_trace[q].of].seq = Bridge_trace[q].seq
      /\ \A q, r \in 1 .. T : q < r /\ Bridge_trace[q].k = "result" /\ Bridge_trace[r].k = "result" => Bridge_trace[q].of < Bridge_trace[r].of
      /\ \A u \in 1 .. T : Bridge_trace[u].k = "call" =>
           \A a \in 1 .. u : Bridge!From(Bridge_trace, a, u) => Bridge_trace[u].seq <= Bridge!Cardinality(Bridge!Numbered(Bridge_trace, a, u - 1))
  BY Zenon, <1>3 DEF Bridge!Traced, Bridge!InOrder
<1> HIDE DEF s, n, off, T
<1>5. \A u \in 1 .. n : u + off \in 1 .. T /\ u + off = off + u /\ off + 1 \in 1 .. off + u /\ u - 1 \in 0 .. n /\ (off + u) - 1 = off + (u - 1)
  BY <1>1, <1>3
<1>6. ASSUME NEW q \in 1 .. n, s[q].k = "result"
      PROVE  \E u \in 1 .. q - 1 : s[q].of = u + off /\ s[u].k = "call" /\ s[u].tool = s[q].tool /\ s[u].seq = s[q].seq
  <2> DEFINE p == q + off
             o == Bridge_trace[p].of
             u == o - off
  <2>1. p \in 1 .. T /\ s[q] = Bridge_trace[p] /\ p \in off + 1 .. off + n
    BY <1>1, <1>2, <1>5
  <2>2. /\ o \in 1 .. p - 1 /\ Bridge_trace[o].k = "call" /\ Bridge_trace[o].tool = Bridge_trace[p].tool /\ Bridge_trace[o].seq = Bridge_trace[p].seq
        /\ o \in off + 1 .. off + n
    BY Zenon, <1>1, <1>4, <1>6, <2>1
  <2>3. u \in 1 .. q - 1 /\ u \in 1 .. n /\ o = u + off
    <3> HIDE DEF o
    <3> QED BY <1>1, <2>2
  <2>4. s[u] = Bridge_trace[o]
    BY Zenon, <1>2, <2>3
  <2> HIDE DEF u
  <2>5. s[q].of = u + off
    BY Zenon, <2>1, <2>3
  <2> QED BY Zenon, <2>1, <2>2, <2>3, <2>4, <2>5
<1>7. ASSUME NEW q \in 1 .. n, NEW r \in 1 .. n, q < r, s[q].k = "result", s[r].k = "result" PROVE s[q].of < s[r].of
  <2>1. q + off < r + off
    BY <1>1, <1>7
  <2> QED BY Zenon, <1>2, <1>4, <1>5, <1>7, <2>1
<1>8. ASSUME NEW u \in 1 .. n, s[u].k = "call" PROVE s[u].seq <= Bridge!Cardinality(Bridge!Numbered(s, 1, u - 1))
  <2> DEFINE p == off + u
  <2>1. s[u] = Bridge_trace[p] /\ p \in 1 .. T /\ off + 1 \in 1 .. p /\ Bridge!From(Bridge_trace, off + 1, p)
    BY Zenon, <1>1, <1>2, <1>5
  <2>2. Bridge_trace[p].seq <= Bridge!Cardinality(Bridge!Numbered(Bridge_trace, off + 1, p - 1))
    BY Zenon, <1>4, <1>8, <2>1
  <2>3. Bridge!Cardinality(Bridge!Numbered(s, 1, u - 1)) = Bridge!Cardinality(Bridge!Numbered(Bridge_trace, off + 1, off + (u - 1)))
    <3>1. \A m \in 0 .. n : Bridge!Cardinality(Bridge!Numbered(s, 1, m)) = Bridge!Cardinality(Bridge!Numbered(Bridge_trace, off + 1, off + m))
      <4>1. off \in Nat /\ n \in Nat /\ BridgeShifted(Bridge_trace, s, off, n)
        BY Zenon, <1>1, <1>2 DEF BridgeShifted
      <4>2. BridgeAsMany(Bridge_trace, s, off, n)
        BY Zenon, <4>1, BridgeNumberedShift
      <4> QED BY Zenon, <4>2 DEF BridgeAsMany
    <3> QED BY Zenon, <1>5, <3>1
  <2> QED BY Zenon, <1>5, <2>1, <2>2, <2>3
<1> QED BY Zenon, <1>6, <1>7, <1>8 DEF BridgeOrdered, s, n, off

(* Calls of a part that was answered throughout have their own results.        *)
LEMMA BridgePartPaired ==
  ASSUME Bridge_trace \in Seq(Bridge!Event), Bridge_kind \in {"repl", "server"}, Bridge!Traced, Bridge!Markers, NEW i \in 1 .. Bridge!Parts(Bridge_trace)
  PROVE  Bridge!PairedRight(i)
<1> DEFINE s == Bridge!Part(Bridge_trace, i)
           n == Len(s)
           off == Bridge!Offset(Bridge_trace, i)
           T == Len(Bridge_trace)
           C == Bridge!Extract(s)
<1>1. /\ n \in Nat /\ off \in Nat /\ off + n <= T
      /\ \A q \in 1 .. T : Bridge_trace[q].k = "result" => (q \in off + 1 .. off + n <=> Bridge_trace[q].of \in off + 1 .. off + n)
  BY BridgePartIs
<1>2. s \in Seq(Bridge!Event) /\ \A u \in 1 .. n : s[u] = Bridge_trace[u + off]
  BY BridgePartsAre
<1>3. T \in Nat /\ DOMAIN Bridge_trace = 1 .. T
  OBVIOUS
<1>4. BridgeOrdered(s, off)
  BY BridgePartOrdered
<1> HIDE DEF s, off, T
<1>5. /\ C \in Seq(BridgeCall) /\ DOMAIN C = 1 .. Len(C)
      /\ \A j \in 1 .. Len(C) : C[j].time \in 1 .. n
      /\ \A t \in 1 .. n : s[t].k = "call" => \E j \in 1 .. Len(C) : C[j].time = t
  <2> DEFINE g == Bridge!Pairing(s)[n]
  <2>1. n \in 0 .. n
    BY <1>1
  <2>2. g \in BridgePairings /\ BridgeListed(s, g, n)
    BY Zenon, <1>2, <2>1, BridgeCallsAre
  <2>3. C = g.calls
    BY Zenon DEF Bridge!Extract
  <2>4. C \in Seq(BridgeCall)
    BY <2>2, <2>3 DEF BridgePairings
  <2>5. DOMAIN C = 1 .. Len(C)
    BY <2>4
  <2> HIDE DEF g, C, n
  <2> QED BY Zenon, <2>2, <2>3, <2>4, <2>5 DEF BridgeListed
<1>6. \A t, q : q \in 1 .. T /\ Bridge_trace[q].k = "result" /\ Bridge_trace[q].of = t => Bridge_trace[q] \in Bridge!ResultOf(t)
  BY <1>3 DEF Bridge!ResultOf
<1>7. \A t : \A r \in Bridge!ResultOf(t) : \E q \in 1 .. T : r = Bridge_trace[q] /\ Bridge_trace[q].k = "result" /\ Bridge_trace[q].of = t
  BY <1>3 DEF Bridge!ResultOf
<1> HIDE DEF n, C
<1>8. ASSUME \A t \in {C[j].time + off : j \in DOMAIN C} : Bridge!ResultOf(t) # {},
             NEW j \in DOMAIN C, NEW r \in Bridge!ResultOf(C[j].time + off)
      PROVE  C[j].err = r.err
  <2>1. ASSUME NEW t \in 1 .. n, NEW q \in 1 .. T, Bridge_trace[q].k = "result", Bridge_trace[q].of = t + off
        PROVE  \E u \in 1 .. n : u + off = q /\ s[u] = Bridge_trace[q]
    <3>1. Bridge_trace[q].of \in off + 1 .. off + n
      BY <1>1, <2>1
    <3>2. q \in off + 1 .. off + n
      BY Zenon, <1>1, <2>1, <3>1
    <3> DEFINE u == q - off
    <3>3. u \in 1 .. n /\ u + off = q
      BY <1>1, <3>2
    <3> HIDE DEF u
    <3> QED BY Zenon, <1>2, <3>3
  <2>2. BridgeComplete(s, off)
    <3>1. ASSUME NEW t \in 1 .. n, s[t].k = "call" PROVE \E u \in 1 .. n : s[u].k = "result" /\ s[u].of = t + off
      <4>1. PICK l \in 1 .. Len(C) : C[l].time = t
        BY Zenon, <1>5, <3>1
      <4>2. Bridge!ResultOf(t + off) # {}
        <5>1. l \in DOMAIN C
          BY Zenon, <1>5
        <5>2. C[l].time + off \in {C[x].time + off : x \in DOMAIN C}
          BY <5>1
        <5> QED BY Zenon, <1>8, <4>1, <5>2
      <4>3. PICK q \in 1 .. T : Bridge_trace[q].k = "result" /\ Bridge_trace[q].of = t + off
        BY <1>7, <4>2
      <4>4. PICK u \in 1 .. n : u + off = q /\ s[u] = Bridge_trace[q]
        BY Zenon, <2>1, <4>3
      <4> QED BY Zenon, <4>3, <4>4
    <3> QED BY Zenon, <3>1 DEF BridgeComplete, n
  <2>3. PICK q \in 1 .. T : r = Bridge_trace[q] /\ Bridge_trace[q].k = "result" /\ Bridge_trace[q].of = C[j].time + off
    BY <1>7
  <2>4. C[j].time \in 1 .. n /\ j \in 1 .. Len(C)
    BY Zenon, <1>5, <1>8
  <2>5. PICK u \in 1 .. n : u + off = q /\ s[u] = Bridge_trace[q]
    BY Zenon, <2>1, <2>3, <2>4
  <2>6. s[u].k = "result" /\ s[u].of = C[j].time + off
    BY Zenon, <2>3, <2>5
  <2>7. \A l \in 1 .. Len(C) : \A v \in 1 .. n : s[v].k = "result" /\ s[v].of = C[l].time + off => C[l].err = s[v].err
    BY Zenon, <1>1, <1>2, <1>4, <2>2, BridgeOwnResults DEF C, n
  <2> QED BY Zenon, <2>3, <2>4, <2>5, <2>6, <2>7
<1> QED BY Zenon, <1>8 DEF Bridge!PairedRight, s, off, C

(* The rows made of the reads.                                                 *)
BridgeNextRead(g, calls, i) ==
  IF calls[i].tool = "read_file" /\ ~calls[i].err
    THEN Append(g, [file |-> calls[i].file, score |-> Bridge!ReadScore(calls, i)])
  ELSE g

LEMMA BridgeScoreIs ==
  ASSUME NEW calls, NEW i
  PROVE  Bridge!ReadScore(calls, i) \in Bridge!NeverUsed .. Bridge!Edited
<1> DEFINE later == {j \in DOMAIN calls : j > i /\ calls[j].file = calls[i].file}
<1>1. Bridge!ReadScore(calls, i) = IF \E j \in later : calls[j].tool = "edit_file" THEN Bridge!Edited
                            ELSE IF later # {} THEN Bridge!Cited ELSE Bridge!NeverUsed
  BY Zenon DEF Bridge!ReadScore
<1> HIDE DEF later
<1> QED BY <1>1 DEF Bridge!NeverUsed, Bridge!Edited, Bridge!Cited

LEMMA BridgeNextReadType ==
  ASSUME NEW g \in Seq(Bridge!Row), NEW calls \in Seq(BridgeCall), NEW i \in 1 .. Len(calls)
  PROVE  BridgeNextRead(g, calls, i) \in Seq(Bridge!Row)
<1> DEFINE r == [file |-> calls[i].file, score |-> Bridge!ReadScore(calls, i)]
<1>1. r \in Bridge!Row
  <2>1. calls[i] \in BridgeCall
    OBVIOUS
  <2>2. calls[i].file \in Bridge!File
    BY <2>1 DEF BridgeCall
  <2>3. Bridge!ReadScore(calls, i) \in Bridge!NeverUsed .. Bridge!Edited
    BY BridgeScoreIs
  <2> QED BY <2>2, <2>3 DEF Bridge!Row
<1>2. BridgeNextRead(g, calls, i) = g \/ BridgeNextRead(g, calls, i) = Append(g, r)
  BY Zenon DEF BridgeNextRead
<1> HIDE DEF r
<1>3. Append(g, r) \in Seq(Bridge!Row)
  BY <1>1
<1> QED BY <1>2, <1>3

LEMMA BridgeReadsIs ==
  ASSUME NEW calls \in Seq(BridgeCall)
  PROVE  Bridge!Reads(calls)[Len(calls)] \in Seq(Bridge!Row)
<1> DEFINE n == Len(calls)
           step == [i \in 1 .. n |-> [g \in Seq(Bridge!Row) |-> BridgeNextRead(g, calls, i)]]
           P == Bridge!Reads(calls)
           S == Seq(Bridge!Row)
<1>1. n \in Nat /\ <<>> \in S
  OBVIOUS
<1>2. \A i \in 1 .. n, g \in S : BridgeNextRead(g, calls, i) \in S
  BY Zenon, BridgeNextReadType
<1> HIDE DEF S
<1>3. step \in [1 .. n -> [S -> S]]
  BY <1>2 DEF S
<1>4. \A i \in 1 .. n, g \in S : step[i][g] = BridgeNextRead(g, calls, i)
  BY DEF S
<1> HIDE DEF step, n
<1>5. PICK f : BridgeUpto(f, n, S, <<>>, step)
  BY Zenon, <1>1, <1>3, BridgeIterated
<1>6. f \in [0 .. n -> S] /\ f[0] = <<>> /\ \A i \in 1 .. n : f[i] = BridgeNextRead(f[i - 1], calls, i)
  <2>1. f \in [0 .. n -> S] /\ f[0] = <<>> /\ \A i \in 1 .. n : f[i] = step[i][f[i - 1]]
    BY <1>5 DEF BridgeUpto
  <2>2. \A i \in 1 .. n : i - 1 \in 0 .. n
    BY <1>1
  <2> QED BY <1>4, <2>1, <2>2
<1>7. f = [i \in 0 .. n |-> IF i = 0 THEN <<>> ELSE BridgeNextRead(f[i - 1], calls, i)]
  <2>1. \A i \in 0 .. n : i = 0 \/ i \in 1 .. n
    BY <1>1
  <2>2. \A i \in 0 .. n : f[i] = IF i = 0 THEN <<>> ELSE BridgeNextRead(f[i - 1], calls, i)
    BY <1>6, <2>1
  <2> QED BY <1>6, <2>2
<1>8. P = [i \in 0 .. n |-> IF i = 0 THEN <<>> ELSE BridgeNextRead(P[i - 1], calls, i)]
  <2>1. f = [i \in 0 .. n |->
              IF i = 0 THEN <<>>
              ELSE IF calls[i].tool = "read_file" /\ ~calls[i].err
                THEN Append(f[i - 1], [file |-> calls[i].file, score |-> Bridge!ReadScore(calls, i)])
              ELSE f[i - 1]]
    BY <1>7 DEF BridgeNextRead
  <2>2. P = [i \in 0 .. n |->
              IF i = 0 THEN <<>>
              ELSE IF calls[i].tool = "read_file" /\ ~calls[i].err
                THEN Append(P[i - 1], [file |-> calls[i].file, score |-> Bridge!ReadScore(calls, i)])
              ELSE P[i - 1]]
    BY Zenon, <2>1 DEF Bridge!Reads, n
  <2> HIDE DEF P
  <2> QED BY <2>2 DEF BridgeNextRead
<1> HIDE DEF P
<1> DEFINE G == {i \in 0 .. n : P[i] \in S}
<1>9. \A i \in 0 .. n : i \in G
  <2>1. 0 \in G
    BY <1>1, <1>8
  <2>2. ASSUME NEW i \in 1 .. n, i - 1 \in G PROVE i \in G
    <3>1. i \in 0 .. n /\ i # 0 /\ P[i - 1] \in S
      BY <1>1, <2>2
    <3>2. P[i] = BridgeNextRead(P[i - 1], calls, i)
      BY <1>8, <3>1
    <3>3. P[i] \in S
      BY Zenon, <1>2, <3>1, <3>2, <2>2
    <3> QED BY <3>1, <3>3
  <2> HIDE DEF G
  <2> QED BY <1>1, <2>1, <2>2, BridgeClimb
<1>10. n \in 0 .. n
  BY <1>1
<1> QED BY <1>9, <1>10 DEF P, n, S

BridgeRecalls == Seq([file : BridgeRecalled, time : Nat])
LEMMA BridgeObservationsIs ==
  ASSUME NEW evs \in Seq(Bridge!Event), NEW off, NEW rec \in BridgeRecalls
  PROVE  Bridge!Observations(evs, off, rec) \in Seq(Bridge!Row)
<1> DEFINE calls == Bridge!Extract(evs)
           R == [i \in DOMAIN rec |-> [file |-> rec[i].file, score |-> Bridge!RecallScore(calls, off, rec[i])]]
           A == Bridge!Reads(calls)[Len(calls)]
<1>1. calls \in Seq(BridgeCall)
  <2>1. Len(evs) \in 0 .. Len(evs)
    OBVIOUS
  <2>2. Bridge!Pairing(evs)[Len(evs)] \in BridgePairings
    BY Zenon, <2>1, BridgeCallsAre
  <2>3. calls = Bridge!Pairing(evs)[Len(evs)].calls
    BY Zenon DEF Bridge!Extract
  <2> QED BY <2>2, <2>3 DEF BridgePairings
<1>2. A \in Seq(Bridge!Row)
  <2> HIDE DEF calls
  <2> QED BY <1>1, BridgeReadsIs
<1>3. R \in Seq(Bridge!Row)
  <2>1. Len(rec) \in Nat /\ DOMAIN rec = 1 .. Len(rec) /\ \A i \in 1 .. Len(rec) : rec[i].file \in BridgeRecalled
    <3> DEFINE E == [file : BridgeRecalled, time : Nat]
    <3>1. rec \in Seq(E)
      BY Zenon DEF BridgeRecalls
    <3>2. \A x \in E : x.file \in BridgeRecalled
      OBVIOUS
    <3> HIDE DEF E
    <3>3. Len(rec) \in Nat /\ DOMAIN rec = 1 .. Len(rec) /\ \A i \in 1 .. Len(rec) : rec[i] \in E
      BY <3>1
    <3> QED BY Zenon, <3>2, <3>3
  <2>2. \A x : Bridge!RecallScore(calls, off, x) \in Bridge!NeverUsed .. Bridge!Edited
    BY DEF Bridge!RecallScore, Bridge!RecallUseful, Bridge!RecallUnused, Bridge!NeverUsed, Bridge!Edited
  <2>3. \A i \in 1 .. Len(rec) : [file |-> rec[i].file, score |-> Bridge!RecallScore(calls, off, rec[i])] \in Bridge!Row
    BY <2>1, <2>2 DEF Bridge!Row
  <2>4. R \in [1 .. Len(rec) -> Bridge!Row]
    BY <2>1, <2>3
  <2> QED BY <2>1, <2>4
<1>4. Bridge!Observations(evs, off, rec) = A \o R
  BY Zenon DEF Bridge!Observations
<1> HIDE DEF A, R
<1> QED BY <1>2, <1>3, <1>4

(* The rows that are new: each is the first whose file is not there, and in    *)
(* the end every file is there.                                                *)
BridgeFiles(g, m) == {g[l].file : l \in 1 .. m}
BridgeAmong(g, present, obs, i) ==
  /\ \A p \in 1 .. i : obs[p].file \in present \cup BridgeFiles(g, Len(g))
  /\ \A m \in 1 .. Len(g) : \E p \in 1 .. i :
       /\ g[m] = obs[p] /\ obs[p].file \notin present \cup BridgeFiles(g, m - 1)
       /\ \A q \in 1 .. p - 1 : obs[q].file \in present \cup BridgeFiles(g, m - 1)

BridgeNextRow(g, present, o) == IF o.file \in present \cup Bridge!Known(g) THEN g ELSE Append(g, o)

LEMMA BridgeNextRowType ==
  ASSUME NEW g \in Seq(Bridge!Row), NEW present, NEW o \in Bridge!Row
  PROVE  BridgeNextRow(g, present, o) \in Seq(Bridge!Row)
BY DEF BridgeNextRow

LEMMA BridgeAmongMore ==
  ASSUME NEW obs \in Seq(Bridge!Row), NEW i \in Nat, i + 1 \in 1 .. Len(obs), NEW present, NEW g \in Seq(Bridge!Row),
         BridgeAmong(g, present, obs, i)
  PROVE  BridgeAmong(BridgeNextRow(g, present, obs[i + 1]), present, obs, i + 1)
<1> DEFINE o == obs[i + 1]
           h == BridgeNextRow(g, present, o)
           n == Len(g)
<1>1. n \in Nat /\ o \in Bridge!Row /\ Bridge!Known(g) = BridgeFiles(g, n)
  <2>1. DOMAIN g = 1 .. n
    OBVIOUS
  <2> QED BY <2>1 DEF Bridge!Known, BridgeFiles
<1>2. /\ \A p \in 1 .. i : obs[p].file \in present \cup BridgeFiles(g, n)
      /\ \A m \in 1 .. n : \E p \in 1 .. i :
           /\ g[m] = obs[p] /\ obs[p].file \notin present \cup BridgeFiles(g, m - 1)
           /\ \A q \in 1 .. p - 1 : obs[q].file \in present \cup BridgeFiles(g, m - 1)
  BY Zenon DEF BridgeAmong
<1>3. \A p \in 1 .. i + 1 : p \in 1 .. i \/ p = i + 1
  OBVIOUS
<1>4. \A p \in 1 .. i : p \in 1 .. i + 1
  OBVIOUS
<1>5. o = obs[i + 1]
  OBVIOUS
<1> SUFFICES BridgeAmong(h, present, obs, i + 1)
  OBVIOUS
<1>6. CASE o.file \in present \cup BridgeFiles(g, n)
  <2>1. h = g
    BY Zenon, <1>1, <1>6 DEF BridgeNextRow
  <2> HIDE DEF o, h
  <2>2. \A p \in 1 .. i + 1 : obs[p].file \in present \cup BridgeFiles(g, n)
    BY Zenon, <1>2, <1>3, <1>5, <1>6
  <2>3. BridgeAmong(g, present, obs, i + 1)
    BY Zenon, <1>2, <1>4, <2>2 DEF BridgeAmong, n
  <2> QED BY <2>1, <2>3
<1>7. CASE o.file \notin present \cup BridgeFiles(g, n)
  <2>1. h = Append(g, o)
    BY Zenon, <1>1, <1>7 DEF BridgeNextRow
  <2> HIDE DEF o, h
  <2>2. Len(h) = n + 1 /\ h[n + 1] = o /\ \A l \in 1 .. n : h[l] = g[l]
    BY <1>1, <2>1
  <2>3. \A m \in 0 .. n : BridgeFiles(h, m) = BridgeFiles(g, m)
    <3>1. \A m \in 0 .. n : \A l \in 1 .. m : h[l] = g[l]
      BY <1>1, <2>2
    <3> QED BY <3>1 DEF BridgeFiles
  <2>4. BridgeFiles(h, n + 1) = BridgeFiles(g, n) \cup {o.file}
    <3>1. \A l \in 1 .. n + 1 : l \in 1 .. n \/ l = n + 1
      BY <1>1
    <3>2. n + 1 \in 1 .. n + 1 /\ \A l \in 1 .. n : l \in 1 .. n + 1
      BY <1>1
    <3> QED BY <2>2, <3>1, <3>2 DEF BridgeFiles
  <2>5. \A p \in 1 .. i + 1 : obs[p].file \in present \cup BridgeFiles(h, n + 1)
    BY Zenon, <1>2, <1>3, <1>5, <2>4
  <2>6. ASSUME NEW m \in 1 .. n + 1
        PROVE  \E p \in 1 .. i + 1 :
                 /\ h[m] = obs[p] /\ obs[p].file \notin present \cup BridgeFiles(h, m - 1)
                 /\ \A q \in 1 .. p - 1 : obs[q].file \in present \cup BridgeFiles(h, m - 1)
    <3>1. CASE m = n + 1
      <4>1. m - 1 = n /\ n \in 0 .. n /\ (i + 1) - 1 = i /\ i + 1 \in 1 .. i + 1
        BY <1>1, <3>1
      <4>2. BridgeFiles(h, m - 1) = BridgeFiles(g, n) /\ h[m] = obs[i + 1]
        BY Zenon, <1>5, <2>2, <2>3, <3>1, <4>1
      <4>3. \A q \in 1 .. (i + 1) - 1 : obs[q].file \in present \cup BridgeFiles(h, m - 1)
        BY Zenon, <1>2, <4>1, <4>2
      <4> QED BY Zenon, <1>5, <1>7, <4>1, <4>2, <4>3
    <3>2. CASE m # n + 1
      <4>1. m \in 1 .. n /\ m - 1 \in 0 .. n
        BY <1>1, <3>2
      <4>2. BridgeFiles(h, m - 1) = BridgeFiles(g, m - 1) /\ h[m] = g[m]
        BY Zenon, <2>2, <2>3, <4>1
      <4>3. PICK p \in 1 .. i :
              /\ g[m] = obs[p] /\ obs[p].file \notin present \cup BridgeFiles(g, m - 1)
              /\ \A q \in 1 .. p - 1 : obs[q].file \in present \cup BridgeFiles(g, m - 1)
        BY Zenon, <1>2, <4>1
      <4> QED BY Zenon, <1>4, <4>2, <4>3
    <3> QED BY <3>1, <3>2
  <2> QED BY Zenon, <2>2, <2>5, <2>6 DEF BridgeAmong
<1> QED BY <1>6, <1>7

LEMMA BridgeUnseenIs ==
  ASSUME NEW obs \in Seq(Bridge!Row), NEW present
  PROVE  LET g == Bridge!Unseen(present, obs)[Len(obs)] IN g \in Seq(Bridge!Row) /\ BridgeAmong(g, present, obs, Len(obs))
<1> DEFINE n == Len(obs)
           S == Seq(Bridge!Row)
           step == [i \in 1 .. n |-> [g \in S |-> BridgeNextRow(g, present, obs[i])]]
           P == Bridge!Unseen(present, obs)
<1>1. n \in Nat /\ <<>> \in S /\ \A i \in 1 .. n : obs[i] \in Bridge!Row
  OBVIOUS
<1>2. \A i \in 1 .. n, g \in S : BridgeNextRow(g, present, obs[i]) \in S
  BY Zenon, <1>1, BridgeNextRowType
<1> HIDE DEF S
<1>3. step \in [1 .. n -> [S -> S]]
  BY <1>2
<1>4. \A i \in 1 .. n, g \in S : step[i][g] = BridgeNextRow(g, present, obs[i])
  OBVIOUS
<1> HIDE DEF step, n
<1>5. PICK f : BridgeUpto(f, n, S, <<>>, step)
  BY Zenon, <1>1, <1>3, BridgeIterated
<1>6. f \in [0 .. n -> S] /\ f[0] = <<>> /\ \A i \in 1 .. n : f[i] = BridgeNextRow(f[i - 1], present, obs[i])
  <2>1. f \in [0 .. n -> S] /\ f[0] = <<>> /\ \A i \in 1 .. n : f[i] = step[i][f[i - 1]]
    BY <1>5 DEF BridgeUpto
  <2>2. \A i \in 1 .. n : i - 1 \in 0 .. n
    BY <1>1
  <2> QED BY <1>4, <2>1, <2>2
<1>7. f = [i \in 0 .. n |-> IF i = 0 THEN <<>> ELSE BridgeNextRow(f[i - 1], present, obs[i])]
  <2>1. \A i \in 0 .. n : i = 0 \/ i \in 1 .. n
    BY <1>1
  <2>2. \A i \in 0 .. n : f[i] = IF i = 0 THEN <<>> ELSE BridgeNextRow(f[i - 1], present, obs[i])
    BY <1>6, <2>1
  <2> QED BY <1>6, <2>2
<1>8. P = [i \in 0 .. n |-> IF i = 0 THEN <<>> ELSE BridgeNextRow(P[i - 1], present, obs[i])]
  <2>1. f = [i \in 0 .. n |->
              IF i = 0 THEN <<>>
              ELSE IF obs[i].file \in present \cup Bridge!Known(f[i - 1]) THEN f[i - 1]
              ELSE Append(f[i - 1], obs[i])]
    BY <1>7 DEF BridgeNextRow
  <2>2. P = [i \in 0 .. n |->
              IF i = 0 THEN <<>>
              ELSE IF obs[i].file \in present \cup Bridge!Known(P[i - 1]) THEN P[i - 1]
              ELSE Append(P[i - 1], obs[i])]
    BY Zenon, <2>1 DEF Bridge!Unseen, n
  <2> HIDE DEF P
  <2> QED BY <2>2 DEF BridgeNextRow
<1> HIDE DEF P
<1> DEFINE G == {i \in 0 .. n : P[i] \in S /\ BridgeAmong(P[i], present, obs, i)}
<1>9. \A i \in 0 .. n : i \in G
  <2>1. 0 \in G
    <3>1. P[0] = <<>> /\ 0 \in 0 .. n
      BY <1>1, <1>8
    <3>2. BridgeAmong(<<>>, present, obs, 0)
      <4>1. Len(<<>>) = 0 /\ 1 .. 0 = {}
        OBVIOUS
      <4> QED BY <4>1 DEF BridgeAmong
    <3> QED BY Zenon, <1>1, <3>1, <3>2
  <2>2. ASSUME NEW i \in 1 .. n, i - 1 \in G PROVE i \in G
    <3> DEFINE q == i - 1
    <3>1. i \in 0 .. n /\ i # 0 /\ q \in Nat /\ q + 1 = i /\ q + 1 \in 1 .. Len(obs)
      BY <1>1, <2>2 DEF n
    <3>2. P[q] \in S /\ BridgeAmong(P[q], present, obs, q)
      BY <2>2
    <3>3. P[i] = BridgeNextRow(P[q], present, obs[i])
      BY <1>8, <3>1
    <3> HIDE DEF q
    <3>4. BridgeAmong(BridgeNextRow(P[q], present, obs[q + 1]), present, obs, q + 1)
      <4>1. P[q] \in Seq(Bridge!Row)
        BY <3>2 DEF S
      <4> QED BY Zenon, <3>1, <3>2, <4>1, BridgeAmongMore
    <3>5. P[i] \in S
      BY Zenon, <1>2, <2>2, <3>2, <3>3
    <3> QED BY Zenon, <3>1, <3>3, <3>4, <3>5
  <2> HIDE DEF G
  <2> QED BY <1>1, <2>1, <2>2, BridgeClimb
<1>10. n \in 0 .. n
  BY <1>1
<1> QED BY <1>9, <1>10 DEF P, n, S

LEMMA BridgeFreshIs ==
  ASSUME NEW obs \in Seq(Bridge!Row), NEW R
  PROVE  Bridge!Fresh(R, obs) \in Seq(Bridge!Row) /\ BridgeAmong(Bridge!Fresh(R, obs), Bridge!Known(R), obs, Len(obs))
BY Zenon, BridgeUnseenIs DEF Bridge!Fresh

(* What a file already has of the rows it is to have is not written again: the *)
(* next row is the next of them, and when they are all there none is.          *)
LEMMA BridgeFreshAfter ==
  ASSUME NEW R \in Seq(Bridge!Row), NEW obs \in Seq(Bridge!Row), NEW rs \in Seq(Bridge!Row),
         NEW F, F = Bridge!Fresh(R, obs), Len(R) <= Len(rs),
         \A j \in 1 .. Len(rs) : j <= Len(R) + Len(F) => rs[j] = (R \o F)[j]
  PROVE  /\ Len(rs) < Len(R) + Len(F) =>
              /\ Bridge!Fresh(rs, obs) # <<>> /\ Bridge!Fresh(rs, obs)[1] = (R \o F)[Len(rs) + 1]
         /\ Len(rs) >= Len(R) + Len(F) => Bridge!Fresh(rs, obs) = <<>>
<1> DEFINE H == Bridge!Fresh(rs, obs)
           r == Len(R)
           f == Len(F)
           n == Len(rs)
           N == Len(obs)
           K == Bridge!Known(rs)
<1>1. F \in Seq(Bridge!Row) /\ BridgeAmong(F, Bridge!Known(R), obs, N) /\ H \in Seq(Bridge!Row) /\ BridgeAmong(H, K, obs, N)
  BY BridgeFreshIs
<1>2. r \in Nat /\ f \in Nat /\ n \in Nat /\ N \in Nat /\ r <= n /\ Len(H) \in Nat
  BY <1>1
<1>3. (\A j \in 1 .. r : (R \o F)[j] = R[j]) /\ \A j \in 1 .. f : (R \o F)[r + j] = F[j]
  BY <1>1
<1>4. (Len(H) = 0 <=> H = <<>>) /\ DOMAIN rs = 1 .. n /\ DOMAIN R = 1 .. r
  BY <1>1
<1>5. \A x : x \in K <=> \E j \in 1 .. n : x = rs[j].file
  BY <1>4 DEF Bridge!Known
<1>6. \A x : x \in Bridge!Known(R) <=> \E j \in 1 .. r : x = R[j].file
  BY <1>4 DEF Bridge!Known
<1>7. \A m, x : x \in BridgeFiles(F, m) <=> \E j \in 1 .. m : x = F[j].file
  BY DEF BridgeFiles
<1>8. \A j \in 1 .. n : j <= r + f => rs[j] = (R \o F)[j]
  OBVIOUS
<1>9. /\ \A p \in 1 .. N : obs[p].file \in Bridge!Known(R) \cup BridgeFiles(F, f)
      /\ \A m \in 1 .. f : \E p \in 1 .. N :
           /\ F[m] = obs[p] /\ obs[p].file \notin Bridge!Known(R) \cup BridgeFiles(F, m - 1)
           /\ \A q \in 1 .. p - 1 : obs[q].file \in Bridge!Known(R) \cup BridgeFiles(F, m - 1)
  BY Zenon, <1>1 DEF BridgeAmong
<1>10. /\ \A p \in 1 .. N : obs[p].file \in K \cup BridgeFiles(H, Len(H))
       /\ \A m \in 1 .. Len(H) : \E p \in 1 .. N :
            /\ H[m] = obs[p] /\ obs[p].file \notin K \cup BridgeFiles(H, m - 1)
            /\ \A q \in 1 .. p - 1 : obs[q].file \in K \cup BridgeFiles(H, m - 1)
  BY Zenon, <1>1 DEF BridgeAmong
<1>11. \A m : m \in 1 .. f => Bridge!Known(R) \cup BridgeFiles(F, m) \subseteq Bridge!Known(R) \cup BridgeFiles(F, f)
  <2>1. \A m \in 1 .. f : \A j \in 1 .. m : j \in 1 .. f
    BY <1>2
  <2> QED BY <1>7, <2>1
<1> HIDE DEF H, r, f, n, N, K
<1>12. BridgeFiles(H, 0) = {}
  BY DEF BridgeFiles
<1>13. \A j \in 1 .. r : rs[j] = R[j]
  <2>1. \A j \in 1 .. r : j \in 1 .. n /\ j <= r + f
    BY <1>2
  <2> QED BY Zenon, <1>3, <1>8, <2>1
<1>14. CASE n < r + f
  <2> DEFINE c == n - r
  <2>1. c \in 0 .. f - 1 /\ n = r + c /\ c + 1 \in 1 .. f /\ n + 1 = r + (c + 1) /\ (c + 1) - 1 = c /\ c \in Nat
    BY <1>2, <1>14
  <2> HIDE DEF c
  <2>2. \A j \in 1 .. c : rs[r + j] = F[j]
    <3>1. \A j \in 1 .. c : r + j \in 1 .. n /\ r + j <= r + f /\ j \in 1 .. f
      BY <1>2, <2>1
    <3> QED BY Zenon, <1>3, <1>8, <3>1
  <2>3. K = Bridge!Known(R) \cup BridgeFiles(F, c)
    <3>1. ASSUME NEW x \in K PROVE x \in Bridge!Known(R) \cup BridgeFiles(F, c)
      <4>1. PICK j \in 1 .. n : x = rs[j].file
        BY <1>5, <3>1
      <4>2. CASE j \in 1 .. r
        BY Zenon, <1>6, <1>13, <4>1, <4>2
      <4>3. CASE j \notin 1 .. r
        <5> DEFINE l == j - r
        <5>1. l \in 1 .. c /\ r + l = j
          BY <1>2, <2>1, <4>3
        <5> HIDE DEF l
        <5> QED BY Zenon, <1>7, <2>2, <4>1, <5>1
      <4> QED BY <4>2, <4>3
    <3>2. ASSUME NEW x \in Bridge!Known(R) PROVE x \in K
      <4>1. PICK j \in 1 .. r : x = R[j].file
        BY <1>6, <3>2
      <4>2. j \in 1 .. n
        BY <1>2
      <4> QED BY Zenon, <1>5, <1>13, <4>1, <4>2
    <3>3. ASSUME NEW x \in BridgeFiles(F, c) PROVE x \in K
      <4>1. PICK j \in 1 .. c : x = F[j].file
        BY <3>3 DEF BridgeFiles
      <4>2. r + j \in 1 .. n
        BY <1>2, <2>1
      <4> QED BY Zenon, <1>5, <2>2, <4>1, <4>2
    <3> QED BY <3>1, <3>2, <3>3
  <2>4. PICK p \in 1 .. N : /\ F[c + 1] = obs[p] /\ obs[p].file \notin K
                           /\ \A q \in 1 .. p - 1 : obs[q].file \in K
    BY Zenon, <1>9, <2>1, <2>3
  <2>5. H # <<>> /\ 1 \in 1 .. Len(H)
    <3>1. BridgeFiles(H, Len(H)) # {}
      BY Zenon, <1>10, <2>4
    <3>2. Len(H) # 0
      BY Zenon, <1>12, <3>1
    <3> QED BY <1>2, <1>4, <3>2
  <2>6. PICK u \in 1 .. N : H[1] = obs[u] /\ obs[u].file \notin K /\ \A q \in 1 .. u - 1 : obs[q].file \in K
    <3>1. 1 - 1 = 0
      OBVIOUS
    <3>2. PICK u \in 1 .. N : /\ H[1] = obs[u] /\ obs[u].file \notin K \cup BridgeFiles(H, 1 - 1)
                             /\ \A q \in 1 .. u - 1 : obs[q].file \in K \cup BridgeFiles(H, 1 - 1)
      BY Zenon, <1>10, <2>5
    <3> QED BY Zenon, <1>12, <3>1, <3>2
  <2>7. u = p
    <3>1. ~(u \in 1 .. p - 1) /\ ~(p \in 1 .. u - 1)
      BY Zenon, <2>4, <2>6
    <3> QED BY <1>2, <3>1
  <2>8. (R \o F)[n + 1] = F[c + 1]
    BY Zenon, <1>3, <2>1
  <2>9. ~(n >= r + f)
    BY <1>2, <1>14
  <2> QED BY Zenon, <2>4, <2>5, <2>6, <2>7, <2>8, <2>9 DEF H, n, r, f
<1>15. CASE n >= r + f
  <2>1. \A j \in 1 .. f : rs[r + j] = F[j] /\ r + j \in 1 .. n
    <3>1. \A j \in 1 .. f : r + j \in 1 .. n /\ r + j <= r + f
      BY <1>2, <1>15
    <3> QED BY Zenon, <1>3, <1>8, <3>1
  <2>2. \A j \in 1 .. r : j \in 1 .. n
    BY <1>2
  <2>3. Bridge!Known(R) \cup BridgeFiles(F, f) \subseteq K
    <3>1. ASSUME NEW x \in Bridge!Known(R) PROVE x \in K
      <4>1. PICK j \in 1 .. r : x = R[j].file
        BY <1>6, <3>1
      <4> QED BY Zenon, <1>5, <1>13, <2>2, <4>1
    <3>2. ASSUME NEW x \in BridgeFiles(F, f) PROVE x \in K
      <4>1. PICK j \in 1 .. f : x = F[j].file
        BY <3>2 DEF BridgeFiles
      <4> QED BY Zenon, <1>5, <2>1, <4>1
    <3> QED BY <3>1, <3>2
  <2>4. ASSUME H # <<>> PROVE FALSE
    <3>1. 1 \in 1 .. Len(H)
      BY <1>2, <1>4, <2>4
    <3>2. PICK u \in 1 .. N : obs[u].file \notin K
      BY Zenon, <1>10, <3>1
    <3> QED BY Zenon, <1>9, <2>3, <3>2
  <2>5. ~(n < r + f)
    BY <1>2, <1>15
  <2> QED BY Zenon, <2>4, <2>5 DEF H, n, r, f
<1> QED BY <1>2, <1>14, <1>15

LEMMA BridgeFreshHead ==
  ASSUME NEW obs \in Seq(Bridge!Row), NEW rs \in Seq(Bridge!Row), Bridge!Fresh(rs, obs) # <<>>
  PROVE  /\ Head(Bridge!Fresh(rs, obs)) = Bridge!Fresh(rs, obs)[1] /\ Bridge!Fresh(rs, obs)[1] \in Bridge!Row
         /\ \A j \in 1 .. Len(rs) : rs[j].file # Bridge!Fresh(rs, obs)[1].file
<1> DEFINE H == Bridge!Fresh(rs, obs)
<1>1. H \in Seq(Bridge!Row) /\ BridgeAmong(H, Bridge!Known(rs), obs, Len(obs))
  BY BridgeFreshIs
<1> HIDE DEF H
<1>2. H # <<>>
  BY DEF H
<1>3. Head(H) = H[1] /\ H[1] \in Bridge!Row /\ 1 \in 1 .. Len(H)
  BY <1>1, <1>2
<1>4. \A m \in 1 .. Len(H) : \E p \in 1 .. Len(obs) : H[m] = obs[p] /\ obs[p].file \notin Bridge!Known(rs) \cup BridgeFiles(H, m - 1)
  BY Zenon, <1>1 DEF BridgeAmong
<1>5. H[1].file \notin Bridge!Known(rs)
  <2>1. PICK p \in 1 .. Len(obs) : H[1] = obs[p] /\ obs[p].file \notin Bridge!Known(rs) \cup BridgeFiles(H, 1 - 1)
    BY Zenon, <1>3, <1>4
  <2> QED BY Zenon, <2>1
<1>6. DOMAIN rs = 1 .. Len(rs)
  OBVIOUS
<1>7. \A j \in 1 .. Len(rs) : rs[j].file \in Bridge!Known(rs)
  BY <1>6 DEF Bridge!Known
<1> QED BY Zenon, <1>3, <1>5, <1>7 DEF H

(* The observations of a part.                                                 *)
LEMMA BridgePartObsIs ==
  ASSUME NEW t \in Seq(Bridge!Event), NEW rec \in BridgeRecalls, NEW i \in 1 .. Bridge!Parts(t)
  PROVE  Bridge!PartObs(t, rec, i) \in Seq(Bridge!Row)
<1>1. Bridge!Part(t, i) \in Seq(Bridge!Event)
  BY BridgePartsAre
<1> QED BY Zenon, <1>1, BridgeObservationsIs DEF Bridge!PartObs

(* The rows of a single run, part after part.                                  *)
BridgeMoreRows(g, obs) == g \o Bridge!Fresh(g, obs)
LEMMA BridgeRowsAfterIs ==
  ASSUME NEW t \in Seq(Bridge!Event), NEW rec \in BridgeRecalls
  PROVE  /\ Bridge!RowsAfter(t, rec) \in [0 .. Bridge!Parts(t) -> Seq(Bridge!Row)]
         /\ Bridge!RowsAfter(t, rec)[0] = <<>>
         /\ \A i \in 1 .. Bridge!Parts(t) : Bridge!RowsAfter(t, rec)[i] = BridgeMoreRows(Bridge!RowsAfter(t, rec)[i - 1], Bridge!PartObs(t, rec, i))
<1> DEFINE n == Bridge!Parts(t)
           S == Seq(Bridge!Row)
           step == [i \in 1 .. n |-> [g \in S |-> BridgeMoreRows(g, Bridge!PartObs(t, rec, i))]]
           P == Bridge!RowsAfter(t, rec)
<1>1. n \in Nat /\ <<>> \in S
  BY BridgePartsAre
<1>2. \A i \in 1 .. n, g \in S : BridgeMoreRows(g, Bridge!PartObs(t, rec, i)) \in S
  <2>1. ASSUME NEW i \in 1 .. n, NEW g \in S PROVE BridgeMoreRows(g, Bridge!PartObs(t, rec, i)) \in S
    <3> DEFINE h == Bridge!Fresh(g, Bridge!PartObs(t, rec, i))
    <3>1. Bridge!PartObs(t, rec, i) \in Seq(Bridge!Row)
      BY BridgePartObsIs
    <3>2. h \in Seq(Bridge!Row) /\ g \in Seq(Bridge!Row)
      BY Zenon, <3>1, BridgeFreshIs
    <3> HIDE DEF h
    <3>3. g \o h \in Seq(Bridge!Row)
      BY <3>2
    <3> QED BY <3>3 DEF BridgeMoreRows, h
  <2> QED BY <2>1
<1> HIDE DEF S
<1>3. step \in [1 .. n -> [S -> S]]
  BY <1>2
<1>4. \A i \in 1 .. n, g \in S : step[i][g] = BridgeMoreRows(g, Bridge!PartObs(t, rec, i))
  OBVIOUS
<1> HIDE DEF step, n
<1>5. PICK f : BridgeUpto(f, n, S, <<>>, step)
  BY Zenon, <1>1, <1>3, BridgeIterated
<1>6. f \in [0 .. n -> S] /\ f[0] = <<>> /\ \A i \in 1 .. n : f[i] = BridgeMoreRows(f[i - 1], Bridge!PartObs(t, rec, i))
  <2>1. f \in [0 .. n -> S] /\ f[0] = <<>> /\ \A i \in 1 .. n : f[i] = step[i][f[i - 1]]
    BY <1>5 DEF BridgeUpto
  <2>2. \A i \in 1 .. n : i - 1 \in 0 .. n
    BY <1>1
  <2> QED BY <1>4, <2>1, <2>2
<1>7. f = [i \in 0 .. n |-> IF i = 0 THEN <<>> ELSE BridgeMoreRows(f[i - 1], Bridge!PartObs(t, rec, i))]
  <2>1. \A i \in 0 .. n : i = 0 \/ i \in 1 .. n
    BY <1>1
  <2>2. \A i \in 0 .. n : f[i] = IF i = 0 THEN <<>> ELSE BridgeMoreRows(f[i - 1], Bridge!PartObs(t, rec, i))
    BY <1>6, <2>1
  <2> QED BY <1>6, <2>2
<1>8. P = [i \in 0 .. n |-> IF i = 0 THEN <<>> ELSE BridgeMoreRows(P[i - 1], Bridge!PartObs(t, rec, i))]
  <2>1. f = [i \in 0 .. n |-> IF i = 0 THEN <<>> ELSE f[i - 1] \o Bridge!Fresh(f[i - 1], Bridge!PartObs(t, rec, i))]
    BY <1>7 DEF BridgeMoreRows
  <2>2. P = [i \in 0 .. n |-> IF i = 0 THEN <<>> ELSE P[i - 1] \o Bridge!Fresh(P[i - 1], Bridge!PartObs(t, rec, i))]
    BY Zenon, <2>1 DEF Bridge!RowsAfter, n
  <2> HIDE DEF P
  <2> QED BY <2>2 DEF BridgeMoreRows
<1> HIDE DEF P
<1>9. P[0] = <<>> /\ \A i \in 1 .. n : i \in 0 .. n /\ P[i] = BridgeMoreRows(P[i - 1], Bridge!PartObs(t, rec, i))
  BY <1>1, <1>8
<1> DEFINE G == {i \in 0 .. n : P[i] \in S}
<1>10. \A i \in 0 .. n : i \in G
  <2>1. 0 \in G
    BY <1>1, <1>9
  <2>2. ASSUME NEW i \in 1 .. n, i - 1 \in G PROVE i \in G
    <3>1. i \in 0 .. n /\ P[i - 1] \in S
      BY <1>9, <2>2
    <3>2. P[i] \in S
      BY Zenon, <1>2, <1>9, <3>1, <2>2
    <3> QED BY <3>1, <3>2
  <2> HIDE DEF G
  <2> QED BY <1>1, <2>1, <2>2, BridgeClimb
<1>11. P \in [0 .. n -> S]
  BY <1>8, <1>10
<1> QED BY <1>9, <1>11 DEF P, n, S

(* They only grow.                                                             *)
BridgeFirstRows(a, b) == Len(a) <= Len(b) /\ \A j \in 1 .. Len(a) : a[j] = b[j]
LEMMA BridgeRowsGrow ==
  ASSUME NEW t \in Seq(Bridge!Event), NEW rec \in BridgeRecalls
  PROVE  \A i \in 0 .. Bridge!Parts(t) : BridgeFirstRows(Bridge!RowsAfter(t, rec)[i], Bridge!RowsAfter(t, rec)[Bridge!Parts(t)])
<1> DEFINE n == Bridge!Parts(t)
           A == Bridge!RowsAfter(t, rec)
           G == {l \in 0 .. n : \A i \in 0 .. l : BridgeFirstRows(A[i], A[l])}
<1>1. /\ n \in Nat /\ A \in [0 .. n -> Seq(Bridge!Row)] /\ A[0] = <<>>
      /\ \A i \in 1 .. n : A[i] = BridgeMoreRows(A[i - 1], Bridge!PartObs(t, rec, i))
  BY BridgePartsAre, BridgeRowsAfterIs
<1>2. \A i \in 1 .. n : Bridge!PartObs(t, rec, i) \in Seq(Bridge!Row)
  BY BridgePartObsIs
<1> HIDE DEF n, A
<1>3. ASSUME NEW l \in 0 .. n PROVE BridgeFirstRows(A[l], A[l])
  <2>1. Len(A[l]) \in Nat
    BY <1>1
  <2> QED BY <2>1 DEF BridgeFirstRows
<1>4. \A l \in 0 .. n : l \in G
  <2>1. 0 \in G
    <3>1. 0 \in 0 .. n /\ \A i \in 0 .. 0 : i = 0
      BY <1>1
    <3> QED BY Zenon, <1>3, <3>1
  <2>2. ASSUME NEW l \in 1 .. n, l - 1 \in G PROVE l \in G
    <3> DEFINE q == l - 1
    <3>1. q \in 0 .. n /\ l \in 0 .. n /\ \A i \in 0 .. l : i \in 0 .. q \/ i = l
      BY <1>1, <2>2
    <3>2. \A i \in 0 .. q : BridgeFirstRows(A[i], A[q])
      BY <2>2
    <3> HIDE DEF q
    <3> DEFINE a == A[q]
               h == Bridge!Fresh(a, Bridge!PartObs(t, rec, l))
    <3>3. A[l] = a \o h
      <4>1. A[l] = BridgeMoreRows(a, Bridge!PartObs(t, rec, l))
        BY Zenon, <1>1, <2>2 DEF q
      <4> QED BY <4>1 DEF BridgeMoreRows
    <3>4. a \in Seq(Bridge!Row) /\ h \in Seq(Bridge!Row)
      <4>1. a \in Seq(Bridge!Row)
        BY <1>1, <3>1
      <4> QED BY Zenon, <1>2, <4>1, <2>2, BridgeFreshIs
    <3> HIDE DEF a, h
    <3>5. BridgeFirstRows(a, A[l])
      <4>1. Len(a) <= Len(a \o h) /\ \A j \in 1 .. Len(a) : a[j] = (a \o h)[j]
        BY <3>4
      <4> QED BY Zenon, <3>3, <4>1 DEF BridgeFirstRows
    <3>6. ASSUME NEW i \in 0 .. q PROVE BridgeFirstRows(A[i], A[l])
      <4>1. BridgeFirstRows(A[i], a)
        BY Zenon, <3>2, <3>6 DEF a
      <4> DEFINE x == A[i]
                 y == A[l]
      <4>2. x \in Seq(Bridge!Row) /\ y \in Seq(Bridge!Row)
        <5>1. i \in 0 .. n
          BY <1>1, <3>1
        <5> QED BY <1>1, <3>1, <5>1
      <4> HIDE DEF x, y
      <4>3. Len(x) <= Len(a) /\ Len(a) <= Len(y) /\ Len(x) \in Nat /\ Len(a) \in Nat /\ Len(y) \in Nat
        BY <3>4, <3>5, <4>1, <4>2 DEF BridgeFirstRows, x, y
      <4>4. \A j \in 1 .. Len(x) : x[j] = a[j] /\ j \in 1 .. Len(a)
        <5>1. \A j \in 1 .. Len(x) : x[j] = a[j]
          BY Zenon, <4>1 DEF BridgeFirstRows, x
        <5>2. \A j \in 1 .. Len(x) : j \in 1 .. Len(a)
          BY <4>3
        <5> QED BY Zenon, <5>1, <5>2
      <4>5. \A j \in 1 .. Len(a) : a[j] = y[j]
        BY Zenon, <3>5 DEF BridgeFirstRows, y
      <4>6. Len(x) <= Len(y)
        BY <4>3
      <4> QED BY Zenon, <4>4, <4>5, <4>6 DEF BridgeFirstRows, x, y
    <3> QED BY <1>3, <3>1, <3>6
  <2> HIDE DEF G
  <2> QED BY <1>1, <2>1, <2>2, BridgeClimb
<1>5. n \in 0 .. n
  BY <1>1
<1> QED BY <1>4, <1>5 DEF n, A

(* A file with the first of these rows, and with all of those of the parts     *)
(* before, gets the next of them, or has those of the part.                    *)
BridgeNextIs(t, rs, i, A, H) ==
  /\ Len(rs) < Len(A[i]) => H # <<>> /\ H[1] = A[Bridge!Parts(t)][Len(rs) + 1] /\ Len(rs) + 1 <= Len(A[Bridge!Parts(t)])
  /\ Len(rs) >= Len(A[i]) => H = <<>>
LEMMA BridgeNextOfRun ==
  ASSUME NEW t \in Seq(Bridge!Event), NEW rec \in BridgeRecalls, NEW i \in 1 .. Bridge!Parts(t), NEW rs \in Seq(Bridge!Row),
         BridgeFirstRows(rs, Bridge!RowsAfter(t, rec)[Bridge!Parts(t)]), Len(Bridge!RowsAfter(t, rec)[i - 1]) <= Len(rs)
  PROVE  BridgeNextIs(t, rs, i, Bridge!RowsAfter(t, rec), Bridge!Fresh(rs, Bridge!PartObs(t, rec, i)))
<1> DEFINE A == Bridge!RowsAfter(t, rec)
           H == Bridge!Fresh(rs, Bridge!PartObs(t, rec, i))
           n == Bridge!Parts(t)
           obs == Bridge!PartObs(t, rec, i)
           R == A[i - 1]
           F == Bridge!Fresh(R, obs)
           Z == A[n]
           B == A[i]
<1>1. /\ n \in Nat /\ A \in [0 .. n -> Seq(Bridge!Row)]
      /\ \A l \in 1 .. n : A[l] = BridgeMoreRows(A[l - 1], Bridge!PartObs(t, rec, l))
  BY BridgePartsAre, BridgeRowsAfterIs
<1>2. obs \in Seq(Bridge!Row)
  BY BridgePartObsIs
<1>3. i - 1 \in 0 .. n /\ i \in 0 .. n /\ n \in 0 .. n
  BY <1>1
<1>4. BridgeFirstRows(B, Z)
  BY Zenon, <1>3, BridgeRowsGrow
<1>5. R \in Seq(Bridge!Row) /\ B \in Seq(Bridge!Row) /\ Z \in Seq(Bridge!Row)
  BY <1>1, <1>3
<1>6. B = R \o F
  <2>1. B = BridgeMoreRows(R, obs)
    BY Zenon, <1>1
  <2> QED BY <2>1 DEF BridgeMoreRows
<1>7. F \in Seq(Bridge!Row)
  BY Zenon, <1>2, BridgeFreshIs
<1> HIDE DEF obs, F
<1>8. BridgeFirstRows(rs, Z) /\ H = Bridge!Fresh(rs, obs) /\ Len(R) <= Len(rs)
  BY DEF obs
<1> HIDE DEF R, Z, B, n, A, H
<1>9. Len(B) = Len(R) + Len(F) /\ Len(R) \in Nat /\ Len(F) \in Nat /\ Len(rs) \in Nat /\ Len(Z) \in Nat /\ Len(B) \in Nat
  BY <1>5, <1>6, <1>7
<1>10. \A j \in 1 .. Len(rs) : j <= Len(R) + Len(F) => rs[j] = (R \o F)[j]
  <2> SUFFICES ASSUME NEW j \in 1 .. Len(rs), j <= Len(R) + Len(F) PROVE rs[j] = (R \o F)[j]
    OBVIOUS
  <2>1. j \in 1 .. Len(B)
    BY <1>9
  <2>2. rs[j] = Z[j] /\ B[j] = Z[j]
    BY Zenon, <1>4, <1>8, <2>1 DEF BridgeFirstRows
  <2> QED BY Zenon, <1>6, <2>2
<1>11. /\ Len(rs) < Len(R) + Len(F) => H # <<>> /\ H[1] = (R \o F)[Len(rs) + 1]
       /\ Len(rs) >= Len(R) + Len(F) => H = <<>>
  BY <1>2, <1>5, <1>8, <1>10, BridgeFreshAfter DEF F
<1>12. ASSUME Len(rs) < Len(B) PROVE H # <<>> /\ H[1] = Z[Len(rs) + 1] /\ Len(rs) + 1 <= Len(Z)
  <2>1. Len(rs) + 1 \in 1 .. Len(B)
    BY <1>9, <1>12
  <2>2. B[Len(rs) + 1] = Z[Len(rs) + 1] /\ Len(B) <= Len(Z)
    BY Zenon, <1>4, <2>1 DEF BridgeFirstRows
  <2>3. Len(rs) + 1 <= Len(Z)
    BY <1>9, <2>1, <2>2
  <2>4. H # <<>> /\ H[1] = B[Len(rs) + 1]
    BY Zenon, <1>6, <1>9, <1>11, <1>12
  <2> QED BY Zenon, <2>2, <2>3, <2>4
<1>13. Len(rs) >= Len(B) => H = <<>>
  BY Zenon, <1>9, <1>11
<1> QED BY Zenon, <1>12, <1>13 DEF B, Z, n, A, H, BridgeNextIs

(* A trace that has grown.                                                     *)
BridgeGrown(t, v, n, m) ==
  /\ n \in Nat /\ m \in Nat /\ Len(t) = n /\ Len(v) = n + m /\ t \in Seq(Bridge!Event) /\ v \in Seq(Bridge!Event)
  /\ \A i \in 1 .. n : v[i] = t[i]

LEMMA BridgeJoined ==
  ASSUME NEW t \in Seq(Bridge!Event), NEW u \in Seq(Bridge!Event)
  PROVE  /\ BridgeGrown(t, t \o u, Len(t), Len(u))
         /\ \A j \in 1 .. Len(u) : (t \o u)[Len(t) + j] = u[j]
<1>1. /\ Len(t) \in Nat /\ Len(u) \in Nat /\ Len(t \o u) = Len(t) + Len(u) /\ t \o u \in Seq(Bridge!Event)
      /\ \A i \in 1 .. Len(t) : (t \o u)[i] = t[i]
  OBVIOUS
<1>2. \A j \in 1 .. Len(u) : (t \o u)[Len(t) + j] = u[j]
  OBVIOUS
<1> QED BY Zenon, <1>1, <1>2 DEF BridgeGrown

LEMMA BridgeAppended ==
  ASSUME NEW t \in Seq(Bridge!Event), NEW e \in Bridge!Event
  PROVE  BridgeGrown(t, Append(t, e), Len(t), 1) /\ Append(t, e)[Len(t) + 1] = e
<1>1. /\ Len(t) \in Nat /\ 1 \in Nat /\ Len(Append(t, e)) = Len(t) + 1 /\ Append(t, e) \in Seq(Bridge!Event)
      /\ (\A i \in 1 .. Len(t) : Append(t, e)[i] = t[i]) /\ Append(t, e)[Len(t) + 1] = e
  OBVIOUS
<1> QED BY Zenon, <1>1 DEF BridgeGrown

(* What was counted stays counted; calls and searches count, nothing else does. *)
BridgeSameCount(t, v, a, b) == Bridge!Numbered(v, a, b) = Bridge!Numbered(t, a, b)
LEMMA BridgeGrownNumbers ==
  ASSUME NEW t, NEW v, NEW n, NEW m, BridgeGrown(t, v, n, m), NEW a \in Nat, a >= 1, NEW b \in Nat, b <= n
  PROVE  BridgeSameCount(t, v, a, b)
<1>1. \A i \in a .. b : v[i] = t[i]
  <2>1. n \in Nat
    BY DEF BridgeGrown
  <2>2. \A i \in a .. b : i \in 1 .. n
    BY <2>1
  <2> QED BY Zenon, <2>2 DEF BridgeGrown
<1> QED BY <1>1 DEF Bridge!Numbered, BridgeSameCount

BridgeAllCount(v, n, m) == \A j \in 1 .. m : v[n + j].k \in {"call", "search"}
BridgeCounts(t, v, n, m, a, x) == \A j \in 0 .. m : Bridge!Cardinality(Bridge!Numbered(v, a, n + j)) = x + j
LEMMA BridgeGrownAll ==
  ASSUME NEW t, NEW v, NEW n, NEW m, BridgeGrown(t, v, n, m), NEW a \in Nat, a >= 1, a <= n + 1, BridgeAllCount(v, n, m)
  PROVE  BridgeCounts(t, v, n, m, a, Bridge!Cardinality(Bridge!Numbered(t, a, n)))
<1> DEFINE c == Bridge!Cardinality(Bridge!Numbered(t, a, n))
           G == {j \in 0 .. m : Bridge!Cardinality(Bridge!Numbered(v, a, n + j)) = c + j}
<1>1. n \in Nat /\ m \in Nat
  BY DEF BridgeGrown
<1>2. c \in Nat /\ Bridge!Numbered(v, a, n) = Bridge!Numbered(t, a, n)
  <2>1. n <= n
    BY <1>1
  <2> QED BY <1>1, <2>1, BridgeNumberedIs, BridgeGrownNumbers DEF BridgeSameCount
<1> HIDE DEF c
<1>3. 0 \in G
  <2>1. n + 0 = n /\ c + 0 = c /\ 0 \in 0 .. m
    BY <1>1, <1>2
  <2>2. Bridge!Cardinality(Bridge!Numbered(v, a, n + 0)) = c + 0
    BY Zenon, <1>2, <2>1 DEF c
  <2> QED BY <2>1, <2>2
<1>4. ASSUME NEW j \in 1 .. m, j - 1 \in G PROVE j \in G
  <2> DEFINE q == n + (j - 1)
  <2>1. q \in Nat /\ q + 1 = n + j /\ a <= q + 1 /\ j \in 0 .. m /\ (c + (j - 1)) + 1 = c + j
    BY <1>1, <1>2, <1>4
  <2>2. Bridge!Cardinality(Bridge!Numbered(v, a, q)) = c + (j - 1)
    BY <1>4
  <2> HIDE DEF q
  <2>3. Bridge!Cardinality(Bridge!Numbered(v, a, q + 1)) =
          IF v[q + 1].k \in {"call", "search"} THEN Bridge!Cardinality(Bridge!Numbered(v, a, q)) + 1 ELSE Bridge!Cardinality(Bridge!Numbered(v, a, q))
    BY Zenon, <2>1, BridgeNumberedMore
  <2>4. v[q + 1].k \in {"call", "search"}
    BY Zenon, <1>4, <2>1 DEF BridgeAllCount
  <2>5. Bridge!Cardinality(Bridge!Numbered(v, a, n + j)) = c + j
    BY Zenon, <2>1, <2>2, <2>3, <2>4
  <2> QED BY <2>1, <2>5
<1> HIDE DEF G
<1>5. \A j \in 0 .. m : j \in G
  BY <1>1, <1>3, <1>4, BridgeClimb
<1> QED BY <1>5 DEF G, c, BridgeCounts

BridgeNoneCounts(v, n, m) == \A j \in 1 .. m : v[n + j].k \notin {"call", "search"}
BridgeSameUpTo(t, v, a, n, m) == Bridge!Numbered(v, a, n + m) = Bridge!Numbered(t, a, n)
LEMMA BridgeGrownNone ==
  ASSUME NEW t, NEW v, NEW n, NEW m, BridgeGrown(t, v, n, m), NEW a \in Nat, a >= 1, a <= n + 1, BridgeNoneCounts(v, n, m)
  PROVE  BridgeSameUpTo(t, v, a, n, m)
<1>1. n \in Nat /\ m \in Nat
  BY DEF BridgeGrown
<1>2. Bridge!Numbered(v, a, n) = Bridge!Numbered(t, a, n)
  <2>1. n <= n
    BY <1>1
  <2> QED BY <1>1, <2>1, BridgeGrownNumbers DEF BridgeSameCount
<1>3. \A i \in a .. n + m : i \in a .. n \/ v[i].k \notin {"call", "search"}
  <2> SUFFICES ASSUME NEW i \in a .. n + m, i \notin a .. n PROVE v[i].k \notin {"call", "search"}
    OBVIOUS
  <2> DEFINE j == i - n
  <2>1. j \in 1 .. m /\ n + j = i
    BY <1>1
  <2> HIDE DEF j
  <2> QED BY Zenon, <2>1 DEF BridgeNoneCounts
<1>4. \A i \in a .. n : i \in a .. n + m
  BY <1>1
<1>5. Bridge!Numbered(v, a, n + m) = Bridge!Numbered(v, a, n)
  BY <1>3, <1>4 DEF Bridge!Numbered
<1> QED BY Zenon, <1>2, <1>5 DEF BridgeSameUpTo

(* A line that reaches behind the old end without a new start began before it. *)
LEMMA BridgeGrownFrom ==
  ASSUME NEW t, NEW v, NEW n, NEW m, BridgeGrown(t, v, n, m), NEW a \in Nat, a >= 1, NEW b \in Nat, b <= n + m,
         Bridge!From(v, a, b)
  PROVE  /\ b <= n => Bridge!From(t, a, b)
         /\ b > n /\ (\A i \in n + 1 .. b : v[i].k # "start") => a <= n + 1 /\ Bridge!From(t, a, n)
<1>1. n \in Nat /\ m \in Nat /\ \A i \in 1 .. n : v[i] = t[i]
  BY Zenon DEF BridgeGrown
<1>2. (a = 1 \/ (a <= b /\ v[a].k = "start")) /\ \A i \in a + 1 .. b : v[i].k # "start"
  BY Zenon DEF Bridge!From
<1>3. ASSUME b <= n PROVE Bridge!From(t, a, b)
  <2>1. \A i \in a + 1 .. b : i \in 1 .. n
    BY <1>1, <1>3
  <2>2. a <= b => a \in 1 .. n
    BY <1>1, <1>3
  <2>3. (a = 1 \/ (a <= b /\ t[a].k = "start")) /\ \A i \in a + 1 .. b : t[i].k # "start"
    BY Zenon, <1>1, <1>2, <2>1, <2>2
  <2> QED BY Zenon, <2>3 DEF Bridge!From
<1>4. ASSUME b > n, \A i \in n + 1 .. b : v[i].k # "start" PROVE a <= n + 1 /\ Bridge!From(t, a, n)
  <2>1. a # 1 => a <= n
    <3>1. ASSUME a # 1, ~(a <= n) PROVE FALSE
      <4>1. a \in n + 1 .. b
        BY <1>1, <1>2, <3>1
      <4> QED BY Zenon, <1>2, <1>4, <3>1, <4>1
    <3> QED BY <3>1
  <2>2. a <= n + 1
    BY <1>1, <2>1
  <2>3. \A i \in a + 1 .. n : i \in 1 .. n /\ i \in a + 1 .. b
    BY <1>1, <1>4
  <2>4. a <= n => a \in 1 .. n
    BY <1>1
  <2>5. (a = 1 \/ (a <= n /\ t[a].k = "start")) /\ \A i \in a + 1 .. n : t[i].k # "start"
    BY Zenon, <1>1, <1>2, <2>1, <2>3, <2>4
  <2> QED BY Zenon, <2>2, <2>5 DEF Bridge!From
<1> QED BY <1>3, <1>4

(* What stands in a trace still does when it has grown.                        *)
LEMMA BridgeGrownOrder ==
  ASSUME NEW t, NEW v, NEW n, NEW m, BridgeGrown(t, v, n, m), Bridge!InOrder(t)
  PROVE  /\ DOMAIN v = 1 .. n + m
         /\ \A i \in 1 .. n : v[i].k = "result" =>
              LET o == v[i].of
              IN /\ o \in 1 .. i - 1 /\ v[o].k = "call" /\ v[o].tool = v[i].tool /\ v[o].seq = v[i].seq
                 /\ \A u \in o .. i : v[u].k \notin {"start", "end"}
         /\ \A i, j \in 1 .. n : i < j /\ v[i].k = "result" /\ v[j].k = "result" => v[i].of < v[j].of
         /\ \A c \in 1 .. n : v[c].k = "call" =>
              \A a \in 1 .. c : Bridge!From(v, a, c) => v[c].seq <= Bridge!Cardinality(Bridge!Numbered(v, a, c - 1))
<1>1. /\ n \in Nat /\ m \in Nat /\ Len(t) = n /\ Len(v) = n + m /\ t \in Seq(Bridge!Event) /\ v \in Seq(Bridge!Event)
      /\ \A i \in 1 .. n : v[i] = t[i]
  BY Zenon DEF BridgeGrown
<1>2. DOMAIN v = 1 .. n + m /\ DOMAIN t = 1 .. n
  BY <1>1
<1>3. /\ \A i \in 1 .. n : t[i].k = "result" =>
           /\ t[i].of \in 1 .. i - 1 /\ t[t[i].of].k = "call" /\ t[t[i].of].tool = t[i].tool /\ t[t[i].of].seq = t[i].seq
           /\ \A u \in t[i].of .. i : t[u].k \notin {"start", "end"}
      /\ \A i, j \in 1 .. n : i < j /\ t[i].k = "result" /\ t[j].k = "result" => t[i].of < t[j].of
      /\ \A c \in 1 .. n : t[c].k = "call" =>
           \A a \in 1 .. c : Bridge!From(t, a, c) => t[c].seq <= Bridge!Cardinality(Bridge!Numbered(t, a, c - 1))
  BY Zenon, <1>2 DEF Bridge!InOrder
<1>4. ASSUME NEW i \in 1 .. n, v[i].k = "result"
      PROVE  LET o == v[i].of
             IN /\ o \in 1 .. i - 1 /\ v[o].k = "call" /\ v[o].tool = v[i].tool /\ v[o].seq = v[i].seq
                /\ \A u \in o .. i : v[u].k \notin {"start", "end"}
  <2> DEFINE o == t[i].of
  <2>1. v[i] = t[i]
    BY Zenon, <1>1
  <2>2. /\ o \in 1 .. i - 1 /\ t[o].k = "call" /\ t[o].tool = t[i].tool /\ t[o].seq = t[i].seq
        /\ \A u \in o .. i : t[u].k \notin {"start", "end"}
    BY Zenon, <1>3, <1>4, <2>1
  <2> HIDE DEF o
  <2>3. o \in 1 .. n /\ \A u \in o .. i : u \in 1 .. n
    BY <1>1, <2>2
  <2>4. v[o] = t[o] /\ \A u \in o .. i : v[u] = t[u]
    BY Zenon, <1>1, <2>3
  <2> QED BY Zenon, <2>1, <2>2, <2>4 DEF o
<1>5. ASSUME NEW i \in 1 .. n, NEW j \in 1 .. n, i < j, v[i].k = "result", v[j].k = "result" PROVE v[i].of < v[j].of
  BY Zenon, <1>1, <1>3, <1>5
<1>6. ASSUME NEW c \in 1 .. n, v[c].k = "call", NEW a \in 1 .. c, Bridge!From(v, a, c)
      PROVE  v[c].seq <= Bridge!Cardinality(Bridge!Numbered(v, a, c - 1))
  <2>1. a \in Nat /\ a >= 1 /\ c \in Nat /\ c <= n + m /\ c <= n /\ c - 1 \in Nat /\ c - 1 <= n
    BY <1>1, <1>6
  <2>2. Bridge!From(t, a, c)
    BY Zenon, <1>6, <2>1, BridgeGrownFrom
  <2>3. Bridge!Numbered(v, a, c - 1) = Bridge!Numbered(t, a, c - 1)
    <3>1. BridgeSameCount(t, v, a, c - 1)
      BY Zenon, <2>1, BridgeGrownNumbers
    <3> QED BY <3>1 DEF BridgeSameCount
  <2> QED BY Zenon, <1>1, <1>3, <1>6, <2>2, <2>3
<1> QED BY <1>2, <1>4, <1>5, <1>6

(* Markers do not disturb the order.                                           *)
LEMMA BridgeOrderMarker ==
  ASSUME NEW t \in Seq(Bridge!Event), Bridge!InOrder(t), NEW e \in Bridge!Event, e.k \in {"start", "end"}
  PROVE  Bridge!InOrder(Append(t, e))
<1> DEFINE n == Len(t)
           v == Append(t, e)
<1>1. BridgeGrown(t, v, n, 1) /\ v[n + 1] = e /\ n \in Nat
  BY BridgeAppended
<1> HIDE DEF n, v
<1>2. /\ DOMAIN v = 1 .. n + 1
      /\ \A i \in 1 .. n : v[i].k = "result" =>
           LET o == v[i].of
           IN /\ o \in 1 .. i - 1 /\ v[o].k = "call" /\ v[o].tool = v[i].tool /\ v[o].seq = v[i].seq
              /\ \A u \in o .. i : v[u].k \notin {"start", "end"}
      /\ \A i, j \in 1 .. n : i < j /\ v[i].k = "result" /\ v[j].k = "result" => v[i].of < v[j].of
      /\ \A c \in 1 .. n : v[c].k = "call" =>
           \A a \in 1 .. c : Bridge!From(v, a, c) => v[c].seq <= Bridge!Cardinality(Bridge!Numbered(v, a, c - 1))
  BY Zenon, <1>1, BridgeGrownOrder
<1>3. \A i \in 1 .. n + 1 : v[i].k \in {"result", "call"} => i \in 1 .. n
  BY <1>1
<1>4. \A x : (x = "result" \/ x = "call") => x \in {"result", "call"}
  OBVIOUS
<1> QED BY Zenon, <1>2, <1>3, <1>4 DEF Bridge!InOrder, v

(* Calls and searches carry on the loop's number.                              *)
LEMMA BridgeOrderCalls ==
  ASSUME NEW t \in Seq(Bridge!Event), NEW u \in Seq(Bridge!Event), NEW s \in Nat, Bridge!InOrder(t), Bridge!Counted(t, s),
         \A j \in 1 .. Len(u) : u[j].k \in {"call", "search"},
         \A j \in 1 .. Len(u) : u[j].k = "call" => u[j].seq <= s + (j - 1)
  PROVE  Bridge!InOrder(t \o u) /\ Bridge!Counted(t \o u, s + Len(u))
<1> DEFINE n == Len(t)
           m == Len(u)
           v == t \o u
<1>1. BridgeGrown(t, v, n, m) /\ \A j \in 1 .. m : v[n + j] = u[j]
  BY BridgeJoined
<1>2. n \in Nat /\ m \in Nat /\ Len(v) = n + m /\ \A j \in 1 .. m : u[j] \in Bridge!Event
  OBVIOUS
<1>3. /\ \A j \in 1 .. m : u[j].k \in {"call", "search"}
      /\ \A j \in 1 .. m : u[j].k = "call" => u[j].seq <= s + (j - 1)
      /\ \A a \in 1 .. n + 1 : Bridge!From(t, a, n) => s <= Bridge!Cardinality(Bridge!Numbered(t, a, n))
  BY Zenon DEF Bridge!Counted
<1> HIDE DEF n, v, m
<1>4. /\ DOMAIN v = 1 .. n + m
      /\ \A i \in 1 .. n : v[i].k = "result" =>
           LET o == v[i].of
           IN /\ o \in 1 .. i - 1 /\ v[o].k = "call" /\ v[o].tool = v[i].tool /\ v[o].seq = v[i].seq
              /\ \A w \in o .. i : v[w].k \notin {"start", "end"}
      /\ \A i, j \in 1 .. n : i < j /\ v[i].k = "result" /\ v[j].k = "result" => v[i].of < v[j].of
      /\ \A c \in 1 .. n : v[c].k = "call" =>
           \A a \in 1 .. c : Bridge!From(v, a, c) => v[c].seq <= Bridge!Cardinality(Bridge!Numbered(v, a, c - 1))
  BY Zenon, <1>1, BridgeGrownOrder
<1>5. \A i \in 1 .. n + m : i \in 1 .. n \/ (i - n \in 1 .. m /\ n + (i - n) = i)
  BY <1>2
<1>6. \A i \in n + 1 .. n + m : v[i].k \in {"call", "search"} /\ v[i].k # "start"
  <2> SUFFICES ASSUME NEW i \in n + 1 .. n + m PROVE v[i].k \in {"call", "search"}
    OBVIOUS
  <2>1. i - n \in 1 .. m /\ n + (i - n) = i
    BY <1>2
  <2> QED BY Zenon, <1>1, <1>3, <2>1
<1>7. \A i \in 1 .. n + m : v[i].k = "result" => i \in 1 .. n
  <2>1. \A i \in 1 .. n + m : i \in 1 .. n \/ i \in n + 1 .. n + m
    BY <1>2
  <2> QED BY <1>6, <2>1
<1>8. \A j \in 1 .. m : v[n + j].k \in {"call", "search"}
  BY Zenon, <1>1, <1>3
<1>9. ASSUME NEW a \in Nat, a >= 1, NEW j \in 1 .. m, Bridge!From(v, a, n + j)
      PROVE  a <= n + 1 /\ s <= Bridge!Cardinality(Bridge!Numbered(t, a, n)) /\ Bridge!Cardinality(Bridge!Numbered(t, a, n)) \in Nat
  <2>1. n + j \in Nat /\ n + j <= n + m /\ n + j > n /\ \A i \in n + 1 .. n + j : i \in n + 1 .. n + m
    BY <1>2, <1>9
  <2>2. \A i \in n + 1 .. n + j : v[i].k # "start"
    BY Zenon, <1>6, <2>1
  <2>3. a <= n + 1 /\ Bridge!From(t, a, n)
    BY Zenon, <1>1, <1>9, <2>1, <2>2, BridgeGrownFrom
  <2>4. a \in 1 .. n + 1
    BY <1>2, <1>9, <2>3
  <2>5. Bridge!Cardinality(Bridge!Numbered(t, a, n)) \in Nat
    BY <1>2, BridgeNumberedIs
  <2> QED BY Zenon, <1>3, <2>3, <2>4, <2>5
<1>10. ASSUME NEW c \in 1 .. n + m, v[c].k = "call", NEW a \in 1 .. c, Bridge!From(v, a, c)
       PROVE  v[c].seq <= Bridge!Cardinality(Bridge!Numbered(v, a, c - 1))
  <2>1. CASE c \in 1 .. n
    BY Zenon, <1>4, <1>10, <2>1
  <2>2. CASE c \notin 1 .. n
    <3> DEFINE j == c - n
               x == Bridge!Cardinality(Bridge!Numbered(t, a, n))
    <3>1. j \in 1 .. m /\ n + j = c /\ a \in Nat /\ a >= 1 /\ j - 1 \in 0 .. m /\ n + (j - 1) = c - 1
      BY <1>2, <1>10, <2>2
    <3> HIDE DEF j
    <3>2. a <= n + 1 /\ s <= x /\ x \in Nat
      BY Zenon, <1>9, <1>10, <3>1
    <3>3. Bridge!Cardinality(Bridge!Numbered(v, a, n + (j - 1))) = x + (j - 1)
      <4>1. \A l \in 0 .. m : Bridge!Cardinality(Bridge!Numbered(v, a, n + l)) = x + l
        <5>1. BridgeAllCount(v, n, m)
          BY Zenon, <1>8 DEF BridgeAllCount
        <5>2. BridgeCounts(t, v, n, m, a, x)
          BY Zenon, <1>1, <5>1, <3>1, <3>2, BridgeGrownAll
        <5> HIDE DEF x
        <5> QED BY Zenon, <5>2 DEF BridgeCounts
      <4> QED BY Zenon, <3>1, <4>1
    <3>4. v[c] = u[j]
      BY Zenon, <1>1, <3>1
    <3>5. u[j].seq <= s + (j - 1) /\ u[j].seq \in Nat
      <4>1. u[j] \in Bridge!Event /\ u[j].k = "call"
        BY Zenon, <1>2, <1>10, <3>1, <3>4
      <4>2. u[j].seq \in Nat
        BY Zenon, <4>1, BridgeEventIs
      <4> QED BY Zenon, <1>3, <3>1, <4>1, <4>2
    <3> HIDE DEF x
    <3>6. u[j].seq <= x + (j - 1)
      <4> DEFINE y == u[j].seq
      <4>1. y \in Nat /\ y <= s + (j - 1) /\ j \in 1 .. m
        BY <3>1, <3>5
      <4> HIDE DEF y
      <4>2. y <= x + (j - 1)
        BY <1>2, <3>2, <4>1
      <4> QED BY <4>2 DEF y
    <3> QED BY Zenon, <3>1, <3>3, <3>4, <3>6
  <2> QED BY <2>1, <2>2
<1>11. ASSUME NEW a \in 1 .. (n + m) + 1, Bridge!From(v, a, n + m) PROVE s + m <= Bridge!Cardinality(Bridge!Numbered(v, a, n + m))
  <2>1. a \in Nat /\ a >= 1
    BY <1>2
  <2>2. CASE m = 0
    <3>1. n + m = n /\ s + m = s /\ a \in 1 .. n + 1 /\ n <= n /\ n \in Nat /\ n <= n + m
      BY <1>2, <2>2
    <3>2. Bridge!From(t, a, n)
      <4>1. Bridge!From(v, a, n)
        BY Zenon, <1>11, <3>1
      <4> QED BY <1>1, <2>1, <3>1, <4>1, BridgeGrownFrom
    <3>3. Bridge!Numbered(v, a, n) = Bridge!Numbered(t, a, n)
      <4>1. BridgeSameCount(t, v, a, n)
        BY Zenon, <1>1, <2>1, <3>1, BridgeGrownNumbers
      <4> QED BY <4>1 DEF BridgeSameCount
    <3> QED BY Zenon, <1>3, <3>1, <3>2, <3>3
  <2>3. CASE m # 0
    <3> DEFINE x == Bridge!Cardinality(Bridge!Numbered(t, a, n))
    <3>1. m \in 1 .. m /\ m \in 0 .. m
      BY <1>2, <2>3
    <3>2. a <= n + 1 /\ s <= x /\ x \in Nat
      BY Zenon, <1>9, <1>11, <2>1, <3>1
    <3>3. Bridge!Cardinality(Bridge!Numbered(v, a, n + m)) = x + m
      <4>1. \A l \in 0 .. m : Bridge!Cardinality(Bridge!Numbered(v, a, n + l)) = x + l
        <5>1. BridgeAllCount(v, n, m)
          BY Zenon, <1>8 DEF BridgeAllCount
        <5>2. BridgeCounts(t, v, n, m, a, x)
          BY Zenon, <1>1, <5>1, <2>1, <3>2, BridgeGrownAll
        <5> HIDE DEF x
        <5> QED BY Zenon, <5>2 DEF BridgeCounts
      <4> QED BY Zenon, <3>1, <4>1
    <3> HIDE DEF x
    <3>4. s + m <= x + m
      BY <1>2, <3>2
    <3> QED BY Zenon, <3>3, <3>4
  <2> QED BY <2>2, <2>3
<1>12. Bridge!Counted(v, s + m)
  BY Zenon, <1>2, <1>11 DEF Bridge!Counted
<1>13. Bridge!InOrder(v)
  BY Zenon, <1>4, <1>7, <1>10 DEF Bridge!InOrder
<1> QED BY Zenon, <1>12, <1>13 DEF v, m

(* The results of the batch at the end of the trace come in its order.         *)
LEMMA BridgeOrderResults ==
  ASSUME NEW t \in Seq(Bridge!Event), NEW u \in Seq(Bridge!Event), Bridge!InOrder(t), Len(u) <= Len(t),
         \A i \in 1 .. Len(t) : t[i].k = "result" => t[i].of <= Len(t) - Len(u),
         \A j \in 1 .. Len(u) : LET c == (Len(t) - Len(u)) + j
                                IN /\ t[c].k = "call" /\ u[j].k = "result" /\ u[j].of = c
                                   /\ u[j].tool = t[c].tool /\ u[j].seq = t[c].seq
  PROVE  Bridge!InOrder(t \o u)
<1> DEFINE n == Len(t)
           m == Len(u)
           v == t \o u
<1>1. BridgeGrown(t, v, n, m) /\ \A j \in 1 .. m : v[n + j] = u[j]
  BY BridgeJoined
<1>2. n \in Nat /\ m \in Nat /\ m <= n /\ Len(v) = n + m
  OBVIOUS
<1>3. /\ \A i \in 1 .. n : t[i].k = "result" => t[i].of <= n - m
      /\ \A j \in 1 .. m : /\ t[(n - m) + j].k = "call" /\ u[j].k = "result" /\ u[j].of = (n - m) + j
                          /\ u[j].tool = t[(n - m) + j].tool /\ u[j].seq = t[(n - m) + j].seq
  OBVIOUS
<1>4. \A i \in 1 .. n : t[i].k = "result" => t[i].of \in Nat
  <2>1. \A i \in 1 .. n : t[i] \in Bridge!Event
    OBVIOUS
  <2> QED BY Zenon, <2>1, BridgeEventIs
<1> HIDE DEF n, v, m
<1>5. /\ DOMAIN v = 1 .. n + m
      /\ \A i \in 1 .. n : v[i].k = "result" =>
           LET o == v[i].of
           IN /\ o \in 1 .. i - 1 /\ v[o].k = "call" /\ v[o].tool = v[i].tool /\ v[o].seq = v[i].seq
              /\ \A w \in o .. i : v[w].k \notin {"start", "end"}
      /\ \A i, j \in 1 .. n : i < j /\ v[i].k = "result" /\ v[j].k = "result" => v[i].of < v[j].of
      /\ \A c \in 1 .. n : v[c].k = "call" =>
           \A a \in 1 .. c : Bridge!From(v, a, c) => v[c].seq <= Bridge!Cardinality(Bridge!Numbered(v, a, c - 1))
  BY Zenon, <1>1, BridgeGrownOrder
<1>6. \A i \in 1 .. n : v[i] = t[i]
  BY Zenon, <1>1 DEF BridgeGrown
<1>7. ASSUME NEW j \in 1 .. m
      PROVE  LET i == n + j
                 c == (n - m) + j
             IN /\ c \in 1 .. n /\ v[i].k = "result" /\ v[i].of = c /\ v[c].k = "call" /\ v[c].tool = v[i].tool /\ v[c].seq = v[i].seq
                /\ c \in 1 .. i - 1 /\ \A w \in c .. i : v[w].k \notin {"start", "end"}
  <2> DEFINE i == n + j
             c == (n - m) + j
  <2>1. c \in 1 .. n /\ c \in 1 .. i - 1
    BY <1>2, <1>7
  <2>2. v[i] = u[j] /\ v[c] = t[c]
    BY Zenon, <1>1, <1>6, <1>7, <2>1
  <2>3. v[i].k = "result" /\ v[i].of = c /\ v[c].k = "call" /\ v[c].tool = v[i].tool /\ v[c].seq = v[i].seq
    <3>1. t[c].k = "call" /\ u[j].k = "result" /\ u[j].of = c /\ u[j].tool = t[c].tool /\ u[j].seq = t[c].seq
      BY Zenon, <1>3, <1>7
    <3> HIDE DEF i, c
    <3> QED BY <2>2, <3>1
  <2>4. ASSUME NEW w \in c .. i PROVE v[w].k \in {"call", "result"}
    <3>1. CASE w \in 1 .. n
      <4> DEFINE l == w - (n - m)
      <4>1. l \in 1 .. m /\ (n - m) + l = w
        BY <1>2, <1>7, <2>4, <3>1
      <4> HIDE DEF l
      <4>2. t[w].k = "call" /\ v[w] = t[w]
        BY Zenon, <1>3, <1>6, <3>1, <4>1
      <4> QED BY <4>2
    <3>2. CASE w \notin 1 .. n
      <4> DEFINE l == w - n
      <4>1. l \in 1 .. m /\ n + l = w
        BY <1>2, <1>7, <2>1, <2>4, <3>2
      <4> HIDE DEF l
      <4>2. v[w].k = "result"
        BY Zenon, <1>1, <1>3, <4>1
      <4> QED BY <4>2
    <3> QED BY <3>1, <3>2
  <2>5. \A w \in c .. i : v[w].k \notin {"start", "end"}
    <3>1. \A x \in {"call", "result"} : x \notin {"start", "end"}
      OBVIOUS
    <3> QED BY Zenon, <2>4, <3>1
  <2> QED BY Zenon, <2>1, <2>3, <2>5
<1>8. \A i \in 1 .. n + m : i \in 1 .. n \/ \E j \in 1 .. m : i = n + j
  <2> SUFFICES ASSUME NEW i \in 1 .. n + m, i \notin 1 .. n PROVE \E j \in 1 .. m : i = n + j
    OBVIOUS
  <2>1. i - n \in 1 .. m /\ i = n + (i - n)
    BY <1>2
  <2> QED BY Zenon, <2>1
<1>9. ASSUME NEW i \in 1 .. n + m, v[i].k = "result"
      PROVE  LET o == v[i].of
             IN /\ o \in 1 .. i - 1 /\ v[o].k = "call" /\ v[o].tool = v[i].tool /\ v[o].seq = v[i].seq
                /\ \A w \in o .. i : v[w].k \notin {"start", "end"}
  <2>1. CASE i \in 1 .. n
    BY Zenon, <1>5, <1>9, <2>1
  <2>2. CASE i \notin 1 .. n
    <3>1. PICK j \in 1 .. m : i = n + j
      BY Zenon, <1>8, <2>2
    <3> DEFINE c == (n - m) + j
               o == v[i].of
    <3>2. /\ v[n + j].of = c /\ v[c].k = "call" /\ v[c].tool = v[n + j].tool /\ v[c].seq = v[n + j].seq
          /\ c \in 1 .. (n + j) - 1 /\ \A w \in c .. n + j : v[w].k \notin {"start", "end"}
      BY Zenon, <1>7
    <3> HIDE DEF c
    <3>3. o = c
      BY Zenon, <3>1, <3>2
    <3> HIDE DEF o
    <3>4. /\ o \in 1 .. i - 1 /\ v[o].k = "call" /\ v[o].tool = v[i].tool /\ v[o].seq = v[i].seq
          /\ \A w \in o .. i : v[w].k \notin {"start", "end"}
      BY Zenon, <3>1, <3>2, <3>3
    <3> QED BY Zenon, <3>4 DEF o
  <2> QED BY <2>1, <2>2
<1>10. ASSUME NEW i \in 1 .. n + m, NEW l \in 1 .. n + m, i < l, v[i].k = "result", v[l].k = "result" PROVE v[i].of < v[l].of
  <2>1. CASE l \in 1 .. n
    <3>1. i \in 1 .. n
      BY <1>2, <1>10, <2>1
    <3> QED BY Zenon, <1>5, <1>10, <2>1, <3>1
  <2>2. CASE l \notin 1 .. n
    <3>1. PICK j \in 1 .. m : l = n + j
      BY Zenon, <1>8, <2>2
    <3>2. v[l].of = (n - m) + j
      BY Zenon, <1>7, <3>1
    <3>3. CASE i \in 1 .. n
      <4> DEFINE o == t[i].of
      <4>1. v[i] = t[i] /\ t[i].k = "result"
        BY Zenon, <1>6, <1>10, <3>3
      <4>2. o <= n - m /\ o \in Nat
        BY Zenon, <1>3, <1>4, <3>3, <4>1
      <4> HIDE DEF o
      <4>3. o < (n - m) + j
        BY <1>2, <4>2
      <4> QED BY Zenon, <3>2, <4>1, <4>3 DEF o
    <3>4. CASE i \notin 1 .. n
      <4>1. PICK g \in 1 .. m : i = n + g
        BY Zenon, <1>8, <3>4
      <4>2. v[i].of = (n - m) + g
        BY Zenon, <1>7, <4>1
      <4>3. (n - m) + g < (n - m) + j
        BY <1>2, <1>10, <3>1, <4>1
      <4> QED BY Zenon, <3>2, <4>2, <4>3
    <3> QED BY <3>3, <3>4
  <2> QED BY <2>1, <2>2
<1>11. \A c \in 1 .. n + m : v[c].k = "call" => c \in 1 .. n
  <2> SUFFICES ASSUME NEW c \in 1 .. n + m, v[c].k = "call", c \notin 1 .. n PROVE FALSE
    OBVIOUS
  <2>1. PICK j \in 1 .. m : c = n + j
    BY Zenon, <1>8
  <2>2. v[c].k = "result"
    BY Zenon, <1>7, <2>1
  <2> QED BY <2>2
<1> QED BY Zenon, <1>5, <1>9, <1>10, <1>11 DEF Bridge!InOrder, v

(* Results do not count.                                                       *)
LEMMA BridgeCountedResults ==
  ASSUME NEW t \in Seq(Bridge!Event), NEW u \in Seq(Bridge!Event), NEW s \in Nat, Bridge!Counted(t, s), \A j \in 1 .. Len(u) : u[j].k = "result"
  PROVE  Bridge!Counted(t \o u, s)
<1> DEFINE n == Len(t)
           m == Len(u)
           v == t \o u
<1>1. BridgeGrown(t, v, n, m) /\ \A j \in 1 .. m : v[n + j] = u[j]
  BY BridgeJoined
<1>2. n \in Nat /\ m \in Nat /\ Len(v) = n + m /\ \A j \in 1 .. m : u[j].k = "result"
  OBVIOUS
<1>3. \A a \in 1 .. n + 1 : Bridge!From(t, a, n) => s <= Bridge!Cardinality(Bridge!Numbered(t, a, n))
  BY Zenon DEF Bridge!Counted
<1> HIDE DEF n, v, m
<1>4. \A j \in 1 .. m : v[n + j].k \notin {"call", "search"} /\ v[n + j].k # "start"
  <2>1. \A j \in 1 .. m : v[n + j].k = "result"
    BY Zenon, <1>1, <1>2
  <2> QED BY <2>1
<1>5. ASSUME NEW a \in 1 .. (n + m) + 1, Bridge!From(v, a, n + m) PROVE s <= Bridge!Cardinality(Bridge!Numbered(v, a, n + m))
  <2>1. a \in Nat /\ a >= 1 /\ n + m \in Nat /\ n + m <= n + m
    BY <1>2
  <2>2. a <= n + 1 /\ Bridge!From(t, a, n)
    <3>1. CASE m = 0
      <4>1. n + m = n /\ a <= n + 1 /\ n + m <= n
        BY <1>2, <3>1
      <4>2. Bridge!From(t, a, n + m)
        BY Zenon, <1>1, <1>5, <2>1, <4>1, BridgeGrownFrom
      <4> QED BY Zenon, <4>1, <4>2
    <3>2. CASE m # 0
      <4>1. n + m > n
        BY <1>2, <3>2
      <4>2. \A i \in n + 1 .. n + m : v[i].k # "start"
        <5> SUFFICES ASSUME NEW i \in n + 1 .. n + m PROVE v[i].k # "start"
          OBVIOUS
        <5>1. i - n \in 1 .. m /\ n + (i - n) = i
          BY <1>2
        <5> QED BY Zenon, <1>4, <5>1
      <4> QED BY Zenon, <1>1, <1>5, <2>1, <4>1, <4>2, BridgeGrownFrom
    <3> QED BY <3>1, <3>2
  <2>3. Bridge!Numbered(v, a, n + m) = Bridge!Numbered(t, a, n)
    <3>1. BridgeNoneCounts(v, n, m)
      BY Zenon, <1>4 DEF BridgeNoneCounts
    <3>2. BridgeSameUpTo(t, v, a, n, m)
      BY Zenon, <1>1, <2>1, <2>2, <3>1, BridgeGrownNone
    <3> QED BY Zenon, <3>2 DEF BridgeSameUpTo
  <2>4. a \in 1 .. n + 1
    BY <1>2, <2>2
  <2> QED BY Zenon, <1>3, <2>2, <2>3, <2>4
<1> QED BY Zenon, <1>2, <1>5 DEF Bridge!Counted, v

LEMMA BridgeMarkerKeeps ==
  ASSUME NEW t \in Seq(Bridge!Event), Bridge!InOrder(t), NEW e \in {Bridge!Start, Bridge!End}
  PROVE  LET v == Append(t, e)
         IN /\ v \in Seq(Bridge!Event) /\ Bridge!InOrder(v) /\ Len(v) = Len(t) + 1 /\ Len(t) \in Nat
            /\ Bridge!Numbered(v, 1, Len(v)) = Bridge!Numbered(t, 1, Len(t))
            /\ v[Len(t) + 1] = e /\ \A i \in 1 .. Len(t) : v[i] = t[i]
<1> DEFINE v == Append(t, e)
           n == Len(t)
<1>1. e \in Bridge!Event /\ e.k \in {"start", "end"}
  <2>1. Bridge!Start \in Bridge!Event /\ Bridge!End \in Bridge!Event /\ Bridge!Start.k = "start" /\ Bridge!End.k = "end"
    BY DEF Bridge!Start, Bridge!End, Bridge!Event
  <2> QED BY <2>1
<1>2. BridgeGrown(t, v, n, 1) /\ v[n + 1] = e
  BY <1>1, BridgeAppended
<1>3. Bridge!InOrder(v)
  BY Zenon, <1>1, BridgeOrderMarker
<1> HIDE DEF v, n
<1>4. v \in Seq(Bridge!Event) /\ Len(v) = n + 1 /\ n \in Nat /\ \A i \in 1 .. n : v[i] = t[i]
  BY Zenon, <1>2 DEF BridgeGrown
<1>5. BridgeNoneCounts(v, n, 1)
  <2>1. \A j \in 1 .. 1 : v[n + j] = e
    BY <1>2
  <2> QED BY <1>1, <2>1 DEF BridgeNoneCounts
<1>6. Bridge!Numbered(v, 1, n + 1) = Bridge!Numbered(t, 1, n)
  <2>1. 1 \in Nat /\ 1 >= 1 /\ 1 <= n + 1
    BY <1>4
  <2>2. BridgeSameUpTo(t, v, 1, n, 1)
    BY Zenon, <1>2, <1>5, <2>1, BridgeGrownNone
  <2> QED BY Zenon, <2>2 DEF BridgeSameUpTo
<1> QED BY Zenon, <1>2, <1>3, <1>4, <1>6 DEF v, n

LEMMA BridgeCountedNone ==
  ASSUME NEW t \in Seq(Bridge!Event)
  PROVE  Bridge!Counted(t, 0)
<1>1. ASSUME NEW a \in 1 .. Len(t) + 1 PROVE 0 <= Bridge!Cardinality(Bridge!Numbered(t, a, Len(t)))
  <2>1. Bridge!Cardinality(Bridge!Numbered(t, a, Len(t))) \in Nat
    <3>1. a \in Nat /\ Len(t) \in Nat
      OBVIOUS
    <3> QED BY Zenon, <3>1, BridgeNumberedIs
  <2> QED BY <2>1
<1> QED BY Zenon, <1>1 DEF Bridge!Counted

(* While the session runs there is nothing to compare.                         *)
LEMMA BridgeSessionKeeps ==
  ASSUME Bridge!TypeOK', Bridge_place' = "session", Bridge_rows' = <<>>, Bridge_rollups' = <<>>, Bridge_saved' = <<>>
  PROVE  Bridge!RerunSafe' /\ Bridge!Progress'
<1>1. Len(Bridge!SingleRun') \in Nat
  <2>1. Bridge_trace' \in Seq(Bridge!Event) /\ Bridge_recalls' \in BridgeRecalls
    BY DEF Bridge!TypeOK, BridgeRecalls
  <2>2. Bridge!RowsAfter(Bridge_trace', Bridge_recalls') \in [0 .. Bridge!Parts(Bridge_trace') -> Seq(Bridge!Row)] /\ Bridge!Parts(Bridge_trace') \in Nat
    BY Zenon, <2>1, BridgeRowsAfterIs, BridgePartsAre
  <2>3. Bridge!Parts(Bridge_trace') \in 0 .. Bridge!Parts(Bridge_trace')
    BY <2>2
  <2>4. Bridge!RowsAfter(Bridge_trace', Bridge_recalls')[Bridge!Parts(Bridge_trace')] \in Seq(Bridge!Row)
    BY <2>2, <2>3
  <2>5. Bridge!SingleRun' \in Seq(Bridge!Row)
    BY <2>4 DEF Bridge!SingleRun
  <2> QED BY <2>5
<1>2. Len(Bridge_rows') = 0 /\ DOMAIN Bridge_rows' = {}
  OBVIOUS
<1>3. Bridge!RerunSafe'
  BY <1>2 DEF Bridge!RerunSafe
<1>4. Bridge!Progress'
  BY <1>1, <1>2 DEF Bridge!Progress
<1> QED BY <1>3, <1>4

LEMMA BridgeInitIInv == Bridge!Init => Bridge!IInv
<1> SUFFICES ASSUME Bridge!Init PROVE Bridge!IInv
  OBVIOUS
<1>1. Bridge!TypeOK
  <2>1. Bridge!Numbered(<<>>, 1, 0) = {}
    BY DEF Bridge!Numbered
  <2>2. Bridge!Cardinality({}) = 0
    BY FS_EmptySet, BridgeSetsCount
  <2>3. Bridge!Work = 0
    <3>1. Bridge_trace = <<>> /\ Bridge_recalls = <<>> /\ Len(<<>>) = 0
      BY DEF Bridge!Init
    <3>2. Bridge!Cardinality(Bridge!Numbered(<<>>, 1, 0)) = 0
      BY Zenon, <2>1, <2>2
    <3>3. Bridge!Work = 0 + 0
      BY Zenon, <3>1, <3>2 DEF Bridge!Work
    <3> QED BY <3>3
  <2>4. BridgeMaxWork \in Nat /\ BridgeMaxLines \in Nat /\ BridgeMaxDeaths \in Nat /\ Bridge_kind \in {"repl", "server"}
    BY BridgeAssumption DEF Bridge!Init
  <2>5. Bridge_lines \in 0 .. BridgeMaxLines /\ Bridge_toolSeq \in Nat /\ Bridge_segment \in Nat /\ Bridge_deaths \in 0 .. BridgeMaxDeaths
    BY <2>4 DEF Bridge!Init
  <2>8. Bridge_inLine \in BOOLEAN /\ Bridge_forgot \in BOOLEAN
    BY Zenon DEF Bridge!Init
  <2>9. Bridge!Work <= BridgeMaxWork
    BY <2>3, <2>4
  <2>10. Len(Bridge_rollups) <= 1
    BY DEF Bridge!Init
  <2>6. /\ Bridge_trace \in Seq(Bridge!Event) /\ Bridge_recalls \in Seq([file : BridgeRecalled, time : Nat]) /\ Bridge_batch \in Seq(Bridge!Event)
        /\ Bridge_rows \in Seq(Bridge!Row) /\ Bridge_saved \in Seq(Bridge!Row) /\ Bridge_rollups \in Seq(Nat)
    BY DEF Bridge!Init
  <2>7. Bridge_place \in {"session", "rows", "rollup", "artifacts", "commit", "done", "dead"}
    BY DEF Bridge!Init
  <2> QED BY Zenon, <2>4, <2>5, <2>6, <2>7, <2>8, <2>9, <2>10 DEF Bridge!TypeOK
<1>2. Bridge_trace = <<>> /\ DOMAIN Bridge_trace = {} /\ Bridge_batch = <<>> /\ DOMAIN Bridge_batch = {} /\ Len(Bridge_trace) = 0 /\ Len(Bridge_batch) = 0 /\ Bridge_rows = <<>> /\ DOMAIN Bridge_rows = {} /\ Len(Bridge_rows) = 0
  BY DEF Bridge!Init
<1>3. Bridge!Traced
  BY <1>2 DEF Bridge!Traced, Bridge!InOrder
<1>4. Bridge!Waiting
  <2>1. Bridge_inLine = FALSE
    BY DEF Bridge!Init
  <2> QED BY <1>2, <2>1 DEF Bridge!Waiting
<1>5. Bridge!Markers
  BY <1>2 DEF Bridge!Markers, Bridge!Init
<1>6. Bridge!RerunSafe
  BY <1>2 DEF Bridge!RerunSafe, Bridge!Init
<1>7. Bridge!Progress
  <2>1. Bridge_trace \in Seq(Bridge!Event) /\ Bridge_recalls \in BridgeRecalls
    BY <1>1 DEF Bridge!TypeOK, BridgeRecalls
  <2>2. Bridge!RowsAfter(Bridge_trace, Bridge_recalls) \in [0 .. Bridge!Parts(Bridge_trace) -> Seq(Bridge!Row)] /\ Bridge!Parts(Bridge_trace) \in Nat
    BY Zenon, <2>1, BridgeRowsAfterIs, BridgePartsAre
  <2>3. Bridge!SingleRun \in Seq(Bridge!Row)
    <3>1. Bridge!Parts(Bridge_trace) \in 0 .. Bridge!Parts(Bridge_trace)
      BY <2>2
    <3>2. Bridge!RowsAfter(Bridge_trace, Bridge_recalls)[Bridge!Parts(Bridge_trace)] \in Seq(Bridge!Row)
      BY <2>2, <3>1
    <3> QED BY <3>2 DEF Bridge!SingleRun
  <2>4. Len(Bridge!SingleRun) \in Nat
    BY <2>3
  <2> QED BY <1>2, <2>4 DEF Bridge!Progress, Bridge!Init
<1> QED BY Zenon, <1>1, <1>3, <1>4, <1>5, <1>6, <1>7 DEF Bridge!IInv

(* What the comparison with a single run speaks of.                            *)
LEMMA BridgeRunIs ==
  ASSUME Bridge!TypeOK, NEW A, A = Bridge!RowsAfter(Bridge_trace, Bridge_recalls), NEW n, n = Bridge!Parts(Bridge_trace)
  PROVE  /\ Bridge_trace \in Seq(Bridge!Event) /\ Bridge_recalls \in BridgeRecalls /\ n \in Nat /\ n >= 1 /\ (~Bridge!Segmented(Bridge_trace) => n = 1)
         /\ \A i \in 0 .. n : A[i] \in Seq(Bridge!Row) /\ Len(A[i]) \in Nat
         /\ A[0] = <<>> /\ Len(A[0]) = 0 /\ A[n] = Bridge!SingleRun
         /\ \A i \in 1 .. n : Bridge!PartObs(Bridge_trace, Bridge_recalls, i) \in Seq(Bridge!Row)
<1>1. Bridge_trace \in Seq(Bridge!Event) /\ Bridge_recalls \in BridgeRecalls
  BY DEF Bridge!TypeOK, BridgeRecalls
<1>2. n \in Nat /\ n >= 1 /\ (~Bridge!Segmented(Bridge_trace) => n = 1)
  BY Zenon, <1>1, BridgePartsAre
<1>3. A \in [0 .. n -> Seq(Bridge!Row)] /\ A[0] = <<>>
  BY Zenon, <1>1, BridgeRowsAfterIs
<1>4. \A i \in 0 .. n : A[i] \in Seq(Bridge!Row) /\ Len(A[i]) \in Nat
  BY <1>3
<1>5. Len(A[0]) = 0
  BY <1>3
<1>6. A[n] = Bridge!SingleRun
  BY Zenon DEF Bridge!SingleRun
<1>7. \A i \in 1 .. n : Bridge!PartObs(Bridge_trace, Bridge_recalls, i) \in Seq(Bridge!Row)
  BY Zenon, <1>1, BridgePartObsIs
<1> QED BY Zenon, <1>1, <1>2, <1>3, <1>4, <1>5, <1>6, <1>7

(* The bridge leaves the session as it found it.                               *)
LEMMA BridgeSessionStays ==
  ASSUME Bridge!IInv, UNCHANGED Bridge!session
  PROVE  /\ Bridge!Traced' /\ Bridge!Waiting' /\ Bridge!Markers' /\ Bridge!Work' <= BridgeMaxWork
         /\ Bridge_kind' = Bridge_kind /\ Bridge_lines' = Bridge_lines /\ Bridge_inLine' = Bridge_inLine /\ Bridge_trace' = Bridge_trace /\ Bridge_recalls' = Bridge_recalls
         /\ Bridge_batch' = Bridge_batch /\ Bridge_toolSeq' = Bridge_toolSeq
         /\ Bridge!RowsAfter(Bridge_trace', Bridge_recalls') = Bridge!RowsAfter(Bridge_trace, Bridge_recalls) /\ Bridge!SingleRun' = Bridge!SingleRun
<1>1. /\ Bridge_kind' = Bridge_kind /\ Bridge_lines' = Bridge_lines /\ Bridge_inLine' = Bridge_inLine /\ Bridge_trace' = Bridge_trace /\ Bridge_recalls' = Bridge_recalls
      /\ Bridge_batch' = Bridge_batch /\ Bridge_toolSeq' = Bridge_toolSeq
  BY Zenon DEF Bridge!session
<1>2. Bridge!Traced'
  BY Zenon, <1>1 DEF Bridge!IInv, Bridge!Traced
<1>3. Bridge!Waiting'
  BY <1>1 DEF Bridge!IInv, Bridge!Waiting
<1>4. Bridge!Markers'
  BY <1>1 DEF Bridge!IInv, Bridge!Markers
<1>5. Bridge!Work' <= BridgeMaxWork
  <2>1. Bridge!Work' = Bridge!Work
    BY Zenon, <1>1 DEF Bridge!Work
  <2> QED BY Zenon, <2>1 DEF Bridge!IInv, Bridge!TypeOK
<1>6. Bridge!RowsAfter(Bridge_trace', Bridge_recalls') = Bridge!RowsAfter(Bridge_trace, Bridge_recalls)
  BY Zenon, <1>1
<1>7. Bridge!SingleRun' = Bridge!SingleRun
  BY Zenon, <1>1 DEF Bridge!SingleRun
<1> QED BY Zenon, <1>1, <1>2, <1>3, <1>4, <1>5, <1>6, <1>7

(* A step of the bridge keeps the types when it keeps those of what it changes. *)
LEMMA BridgeBridgeTypes ==
  ASSUME Bridge!IInv, UNCHANGED Bridge!session,
         Bridge_place' \in {"rows", "rollup", "artifacts", "commit", "done", "dead"}, Bridge_segment' \in Nat,
         Bridge_rows' \in Seq(Bridge!Row), Bridge_saved' \in Seq(Bridge!Row), Bridge_rollups' \in Seq(Nat), Len(Bridge_rollups') <= 1,
         Bridge_deaths' \in 0 .. BridgeMaxDeaths, Bridge_forgot' = Bridge_forgot
  PROVE  Bridge!TypeOK'
<1>1. Bridge!TypeOK
  BY Zenon DEF Bridge!IInv
<1>2. /\ Bridge_kind' = Bridge_kind /\ Bridge_lines' = Bridge_lines /\ Bridge_inLine' = Bridge_inLine /\ Bridge_trace' = Bridge_trace /\ Bridge_recalls' = Bridge_recalls
      /\ Bridge_batch' = Bridge_batch /\ Bridge_toolSeq' = Bridge_toolSeq /\ Bridge!Work' <= BridgeMaxWork
  BY Zenon, BridgeSessionStays
<1>3. Bridge_place' \in {"session", "rows", "rollup", "artifacts", "commit", "done", "dead"}
  OBVIOUS
<1> QED BY Zenon, <1>1, <1>2, <1>3 DEF Bridge!TypeOK

LEMMA BridgeDieKeeps ==
  ASSUME Bridge!IInv, Bridge!Die
  PROVE  Bridge!IInv'
<1>1. UNCHANGED Bridge!session /\ Bridge_place' = "dead" /\ Bridge_segment' = Bridge_segment /\ Bridge_rows' = Bridge_rows /\ Bridge_rollups' = Bridge_rollups
      /\ Bridge_saved' = Bridge_saved /\ Bridge_forgot' = Bridge_forgot /\ Bridge_deaths' = Bridge_deaths + 1 /\ Bridge_deaths < BridgeMaxDeaths
      /\ Bridge_place # "session" /\ Bridge_place # "done"
  BY DEF Bridge!Die, Bridge!files
<1>2. Bridge!TypeOK
  BY Zenon DEF Bridge!IInv
<1>3. Bridge!TypeOK'
  <2>1. Bridge_deaths' \in 0 .. BridgeMaxDeaths
    BY <1>1, <1>2, BridgeAssumption DEF Bridge!TypeOK
  <2>2. Bridge_segment' \in Nat /\ Bridge_rows' \in Seq(Bridge!Row) /\ Bridge_saved' \in Seq(Bridge!Row) /\ Bridge_rollups' \in Seq(Nat) /\ Len(Bridge_rollups') <= 1
    BY Zenon, <1>1, <1>2 DEF Bridge!TypeOK
  <2>3. Bridge_place' \in {"rows", "rollup", "artifacts", "commit", "done", "dead"}
    BY <1>1
  <2> QED BY Zenon, <1>1, <2>1, <2>2, <2>3, BridgeBridgeTypes
<1>4. /\ Bridge!Traced' /\ Bridge!Waiting' /\ Bridge!Markers' /\ Bridge_trace' = Bridge_trace /\ Bridge_inLine' = Bridge_inLine /\ Bridge!SingleRun' = Bridge!SingleRun
  BY Zenon, <1>1, BridgeSessionStays
<1>5. Bridge!RerunSafe'
  BY <1>1 DEF Bridge!IInv, Bridge!RerunSafe
<1>6. Bridge!Progress'
  BY <1>1, <1>4 DEF Bridge!IInv, Bridge!Progress
<1> QED BY Zenon, <1>3, <1>4, <1>5, <1>6 DEF Bridge!IInv

(* Progress, with the run that is never killed by its own name.                *)
LEMMA BridgeProgressIs ==
  ASSUME Bridge!IInv, NEW A, A = Bridge!RowsAfter(Bridge_trace, Bridge_recalls), NEW n, n = Bridge!Parts(Bridge_trace), ~Bridge_forgot
  PROVE  /\ BridgeFirstRows(Bridge_rows, A[n])
         /\ Bridge_place = "rows" => Len(A[Bridge_segment - 1]) <= Len(Bridge_rows)
         /\ Bridge_place = "rollup" => Len(A[Bridge_segment]) <= Len(Bridge_rows)
         /\ Bridge_place = "artifacts" /\ Bridge!Segmented(Bridge_trace) => Len(A[n]) <= Len(Bridge_rows)
         /\ Bridge_place \in {"commit", "done"} => Len(A[n]) <= Len(Bridge_rows)
<1>1. Bridge!TypeOK /\ Bridge!Progress
  BY Zenon DEF Bridge!IInv
<1>2. A[n] = Bridge!SingleRun
  BY Zenon DEF Bridge!SingleRun
<1>3. DOMAIN Bridge_rows = 1 .. Len(Bridge_rows)
  BY <1>1 DEF Bridge!TypeOK
<1>4. /\ Len(Bridge_rows) <= Len(Bridge!SingleRun) /\ \A i \in DOMAIN Bridge_rows : Bridge_rows[i] = Bridge!SingleRun[i]
      /\ Bridge_place = "rows" => Bridge!Begun(Bridge_segment - 1)
      /\ Bridge_place = "rollup" => Bridge!Begun(Bridge_segment)
      /\ (Bridge_place = "artifacts" /\ Bridge!Segmented(Bridge_trace)) \/ Bridge_place \in {"commit", "done"} => Bridge!Begun(n)
  BY Zenon, <1>1 DEF Bridge!Progress
<1>5. BridgeFirstRows(Bridge_rows, A[n])
  BY Zenon, <1>2, <1>3, <1>4 DEF BridgeFirstRows
<1>6. \A i : Bridge!Begun(i) => Len(A[i]) <= Len(Bridge_rows)
  BY Zenon DEF Bridge!Begun
<1> QED BY Zenon, <1>4, <1>5, <1>6

(* And the other way round, for the state after a step.                        *)
LEMMA BridgeProgressAfter ==
  ASSUME Bridge!TypeOK', Bridge_place' # "session", Bridge_place' # "done" => Bridge_saved' = <<>>, ~Bridge_inLine', Bridge_segment' \in 1 .. Bridge!Parts(Bridge_trace'),
         NEW A, A = Bridge!RowsAfter(Bridge_trace', Bridge_recalls'), NEW n, n = Bridge!Parts(Bridge_trace'),
         ~Bridge_forgot' =>
           /\ BridgeFirstRows(Bridge_rows', A[n])
           /\ Bridge_place' = "rows" => Len(A[Bridge_segment' - 1]) <= Len(Bridge_rows')
           /\ Bridge_place' = "rollup" => Len(A[Bridge_segment']) <= Len(Bridge_rows')
           /\ Bridge_place' = "artifacts" /\ Bridge!Segmented(Bridge_trace') => Len(A[n]) <= Len(Bridge_rows')
           /\ Bridge_place' \in {"commit", "done"} => Len(A[n]) <= Len(Bridge_rows')
  PROVE  Bridge!Progress'
<1>1. A[n] = Bridge!SingleRun'
  BY Zenon DEF Bridge!SingleRun
<1>2. DOMAIN Bridge_rows' = 1 .. Len(Bridge_rows')
  BY DEF Bridge!TypeOK
<1>3. /\ Bridge!Begun(Bridge_segment - 1)' <=> Len(A[Bridge_segment' - 1]) <= Len(Bridge_rows')
      /\ Bridge!Begun(Bridge_segment)' <=> Len(A[Bridge_segment']) <= Len(Bridge_rows')
      /\ Bridge!Begun(Bridge!Parts(Bridge_trace))' <=> Len(A[n]) <= Len(Bridge_rows')
  BY DEF Bridge!Begun
<1>4. ~Bridge_forgot' => Len(Bridge_rows') <= Len(Bridge!SingleRun') /\ \A i \in DOMAIN Bridge_rows' : Bridge_rows'[i] = Bridge!SingleRun'[i]
  BY Zenon, <1>1, <1>2 DEF BridgeFirstRows
<1> QED BY <1>3, <1>4 DEF Bridge!Progress

LEMMA BridgeBeginKeeps ==
  ASSUME Bridge!IInv, Bridge!Begin, ~Bridge_inLine, Bridge_place # "done", UNCHANGED <<Bridge_recalls, Bridge_forgot>>
  PROVE  Bridge!IInv'
<1> DEFINE A == Bridge!RowsAfter(Bridge_trace, Bridge_recalls)
           n == Bridge!Parts(Bridge_trace)
<1>1. Bridge!TypeOK /\ Bridge!Progress /\ Bridge!RerunSafe
  BY Zenon DEF Bridge!IInv
<1>2. UNCHANGED Bridge!session /\ Bridge_segment' = 1 /\ Bridge_rows' = Bridge_rows /\ Bridge_rollups' = Bridge_rollups
      /\ Bridge_saved' = Bridge_saved /\ Bridge_forgot' = Bridge_forgot /\ Bridge_deaths' = Bridge_deaths
  BY DEF Bridge!Begin, Bridge!files, Bridge!session
<1>3. Bridge_place' = IF Bridge!Segmented(Bridge_trace) THEN "rows" ELSE "artifacts"
  BY DEF Bridge!Begin
<1>4. Bridge!TypeOK'
  <2>1. Bridge_place' \in {"rows", "rollup", "artifacts", "commit", "done", "dead"}
    BY <1>3
  <2>2. 1 \in Nat
    OBVIOUS
  <2>3. /\ Bridge_segment' \in Nat /\ Bridge_rows' \in Seq(Bridge!Row) /\ Bridge_saved' \in Seq(Bridge!Row) /\ Bridge_rollups' \in Seq(Nat) /\ Len(Bridge_rollups') <= 1
        /\ Bridge_deaths' \in 0 .. BridgeMaxDeaths
    BY Zenon, <1>1, <1>2, <2>2 DEF Bridge!TypeOK
  <2> QED BY Zenon, <1>2, <2>1, <2>3, BridgeBridgeTypes
<1>5. /\ Bridge!Traced' /\ Bridge!Waiting' /\ Bridge!Markers' /\ Bridge_trace' = Bridge_trace /\ Bridge_inLine' = Bridge_inLine /\ Bridge!SingleRun' = Bridge!SingleRun
      /\ A = Bridge!RowsAfter(Bridge_trace', Bridge_recalls')
  BY Zenon, <1>2, BridgeSessionStays
<1>6. Bridge!RerunSafe'
  BY <1>1, <1>2, <1>3 DEF Bridge!RerunSafe
<1>7. Bridge!Progress'
  <2>1. n \in Nat /\ n >= 1 /\ Len(A[0]) = 0
    BY Zenon, <1>1, BridgeRunIs
  <2>2. Len(Bridge_rows') \in Nat
    BY <1>4 DEF Bridge!TypeOK
  <2>3. ~Bridge_forgot => BridgeFirstRows(Bridge_rows, A[n])
    BY Zenon, BridgeProgressIs
  <2>4. n = Bridge!Parts(Bridge_trace') /\ Bridge!Segmented(Bridge_trace') = Bridge!Segmented(Bridge_trace)
    BY Zenon, <1>5
  <2>5. Bridge_saved' = <<>>
    BY <1>1, <1>2 DEF Bridge!Progress
  <2>6. Bridge_segment' \in 1 .. n /\ Bridge_segment' - 1 = 0
    BY <1>2, <2>1
  <2> HIDE DEF A, n
  <2>7. ~Bridge_forgot' =>
          /\ BridgeFirstRows(Bridge_rows', A[n])
          /\ Bridge_place' = "rows" => Len(A[Bridge_segment' - 1]) <= Len(Bridge_rows')
          /\ Bridge_place' = "rollup" => Len(A[Bridge_segment']) <= Len(Bridge_rows')
          /\ Bridge_place' = "artifacts" /\ Bridge!Segmented(Bridge_trace') => Len(A[n]) <= Len(Bridge_rows')
          /\ Bridge_place' \in {"commit", "done"} => Len(A[n]) <= Len(Bridge_rows')
    <3>1. Len(A[Bridge_segment' - 1]) <= Len(Bridge_rows')
      BY <2>1, <2>2, <2>6
    <3>2. ~Bridge_forgot' => BridgeFirstRows(Bridge_rows', A[n])
      <4>1. Bridge_rows' = Bridge_rows /\ Bridge_forgot' = Bridge_forgot
        BY Zenon, <1>2
      <4> QED BY <2>3, <4>1
    <3> QED BY <1>3, <2>4, <3>1, <3>2
  <2>8. Bridge_place' # "session" /\ Bridge_place' # "done" /\ ~Bridge_inLine' /\ Bridge_segment' \in 1 .. Bridge!Parts(Bridge_trace')
    BY <1>3, <1>5, <2>4, <2>6
  <2> QED BY Zenon, <1>4, <1>5, <2>4, <2>5, <2>7, <2>8, BridgeProgressAfter
<1> QED BY Zenon, <1>4, <1>5, <1>6, <1>7 DEF Bridge!IInv

LEMMA BridgeRunBridgeKeeps ==
  ASSUME Bridge!IInv, Bridge!RunBridge
  PROVE  Bridge!IInv'
<1>1. Bridge!Begin /\ ~Bridge_inLine /\ UNCHANGED <<Bridge_recalls, Bridge_forgot>> /\ Bridge_place = "session"
  BY Zenon DEF Bridge!RunBridge
<1>2. Bridge_place # "done"
  BY <1>1
<1> QED BY Zenon, <1>1, <1>2, BridgeBeginKeeps

(* The recall events are gone: nothing is said of the rows any more.           *)
LEMMA BridgeRerunForgets ==
  ASSUME Bridge!IInv, Bridge!Begin, Bridge_place = "dead", Bridge_recalls' = <<>>, Bridge_forgot' = TRUE
  PROVE  Bridge!IInv'
<1>1. Bridge!TypeOK /\ Bridge!Progress /\ Bridge!RerunSafe /\ Bridge!Waiting /\ Bridge!Markers /\ Bridge!Traced
  BY Zenon DEF Bridge!IInv
<1>2. /\ Bridge_kind' = Bridge_kind /\ Bridge_lines' = Bridge_lines /\ Bridge_inLine' = Bridge_inLine /\ Bridge_trace' = Bridge_trace /\ Bridge_batch' = Bridge_batch /\ Bridge_toolSeq' = Bridge_toolSeq
      /\ Bridge_segment' = 1 /\ Bridge_rows' = Bridge_rows /\ Bridge_rollups' = Bridge_rollups /\ Bridge_saved' = Bridge_saved /\ Bridge_deaths' = Bridge_deaths
  BY Zenon DEF Bridge!Begin, Bridge!files
<1>3. Bridge_place' \in {"rows", "artifacts"}
  BY DEF Bridge!Begin
<1>4. Bridge!TypeOK'
  <2>1. Bridge!Work' <= BridgeMaxWork
    <3> DEFINE c == Bridge!Cardinality(Bridge!Numbered(Bridge_trace, 1, Len(Bridge_trace)))
    <3>1. c \in Nat
      <4>1. Len(Bridge_trace) \in Nat /\ 1 \in Nat
        BY <1>1 DEF Bridge!TypeOK
      <4> QED BY Zenon, <4>1, BridgeNumberedIs
    <3>2. c + Len(Bridge_recalls) <= BridgeMaxWork
      BY Zenon, <1>1 DEF Bridge!TypeOK, Bridge!Work
    <3>3. Bridge!Work' = c + Len(<<>>)
      BY Zenon, <1>2 DEF Bridge!Work
    <3>4. Len(Bridge_recalls) \in Nat /\ Len(<<>>) = 0 /\ BridgeMaxWork \in Nat
      BY <1>1, BridgeAssumption DEF Bridge!TypeOK
    <3> HIDE DEF c
    <3> QED BY <3>1, <3>2, <3>3, <3>4
  <2>2. Bridge_place' \in {"session", "rows", "rollup", "artifacts", "commit", "done", "dead"} /\ Bridge_segment' \in Nat
    BY <1>2, <1>3
  <2>3. Bridge_recalls' \in Seq([file : BridgeRecalled, time : Nat])
    OBVIOUS
  <2>4. Bridge_forgot' \in BOOLEAN
    BY Zenon
  <2> QED BY Zenon, <1>1, <1>2, <2>1, <2>2, <2>3, <2>4 DEF Bridge!TypeOK
<1>5. Bridge!Traced'
  BY Zenon, <1>1, <1>2 DEF Bridge!Traced
<1>6. Bridge!Waiting'
  BY <1>1, <1>2 DEF Bridge!Waiting
<1>7. Bridge!Markers'
  BY <1>1, <1>2 DEF Bridge!Markers
<1>8. Bridge!RerunSafe'
  BY <1>1, <1>2, <1>3 DEF Bridge!RerunSafe
<1>9. Bridge!Progress'
  <2>1. Bridge!Parts(Bridge_trace) \in Nat /\ Bridge!Parts(Bridge_trace) >= 1
    BY Zenon, <1>1, BridgeRunIs
  <2>2. Bridge!Parts(Bridge_trace') = Bridge!Parts(Bridge_trace)
    BY Zenon, <1>2
  <2> QED BY <1>1, <1>2, <1>3, <2>1, <2>2 DEF Bridge!Progress
<1> QED BY Zenon, <1>4, <1>5, <1>6, <1>7, <1>8, <1>9 DEF Bridge!IInv

LEMMA BridgeRerunKeeps ==
  ASSUME Bridge!IInv, Bridge!Rerun
  PROVE  Bridge!IInv'
<1>1. Bridge_place = "dead" /\ Bridge!Begin /\ (UNCHANGED <<Bridge_recalls, Bridge_forgot>> \/ (Bridge_recalls' = <<>> /\ Bridge_forgot' = (Bridge_forgot \/ Bridge_recalls # <<>>)))
  BY Zenon DEF Bridge!Rerun
<1>2. ~Bridge_inLine /\ Bridge_place # "done" /\ Bridge_forgot \in BOOLEAN
  BY <1>1 DEF Bridge!IInv, Bridge!Progress, Bridge!TypeOK
<1>3. CASE UNCHANGED <<Bridge_recalls, Bridge_forgot>>
  BY Zenon, <1>1, <1>2, <1>3, BridgeBeginKeeps
<1>4. CASE Bridge_recalls' = <<>> /\ Bridge_forgot' = (Bridge_forgot \/ Bridge_recalls # <<>>)
  <2>1. CASE Bridge_recalls = <<>> /\ ~Bridge_forgot
    <3>1. Bridge_forgot' = FALSE
      BY Zenon, <1>4, <2>1
    <3>2. Bridge_forgot = FALSE
      BY Zenon, <1>2, <2>1
    <3>3. Bridge_recalls' = Bridge_recalls /\ Bridge_forgot' = Bridge_forgot
      BY Zenon, <1>4, <2>1, <3>1, <3>2
    <3> QED BY Zenon, <1>1, <1>2, <3>3, BridgeBeginKeeps
  <2>2. CASE Bridge_recalls # <<>> \/ Bridge_forgot
    <3>1. Bridge_forgot' = TRUE
      BY Zenon, <1>4, <2>2
    <3> QED BY Zenon, <1>1, <1>4, <3>1, BridgeRerunForgets
  <2> QED BY Zenon, <2>1, <2>2
<1> QED BY Zenon, <1>1, <1>3, <1>4

(* A step of the bridge behind its beginning: what the place says of the rows  *)
(* is all there is to show.                                                    *)
LEMMA BridgeBridgeStep ==
  ASSUME Bridge!IInv, UNCHANGED Bridge!session, Bridge_forgot' = Bridge_forgot, Bridge!TypeOK', Bridge_place # "session", Bridge!RerunSafe',
         Bridge_place' # "session", Bridge_place' # "done" => Bridge_saved' = <<>>,
         Bridge_segment' \in 1 .. Bridge!Parts(Bridge_trace),
         NEW A, A = Bridge!RowsAfter(Bridge_trace, Bridge_recalls), NEW n, n = Bridge!Parts(Bridge_trace),
         ~Bridge_forgot =>
           /\ BridgeFirstRows(Bridge_rows', A[n])
           /\ Bridge_place' = "rows" => Len(A[Bridge_segment' - 1]) <= Len(Bridge_rows')
           /\ Bridge_place' = "rollup" => Len(A[Bridge_segment']) <= Len(Bridge_rows')
           /\ Bridge_place' = "artifacts" /\ Bridge!Segmented(Bridge_trace) => Len(A[n]) <= Len(Bridge_rows')
           /\ Bridge_place' \in {"commit", "done"} => Len(A[n]) <= Len(Bridge_rows')
  PROVE  Bridge!IInv'
<1>1. /\ Bridge!Traced' /\ Bridge!Waiting' /\ Bridge!Markers' /\ Bridge_trace' = Bridge_trace /\ Bridge_inLine' = Bridge_inLine
      /\ Bridge!RowsAfter(Bridge_trace', Bridge_recalls') = Bridge!RowsAfter(Bridge_trace, Bridge_recalls)
  BY Zenon, BridgeSessionStays
<1>2. ~Bridge_inLine
  BY Zenon DEF Bridge!IInv, Bridge!Progress
<1>3. n = Bridge!Parts(Bridge_trace') /\ A = Bridge!RowsAfter(Bridge_trace', Bridge_recalls') /\ Bridge!Segmented(Bridge_trace') = Bridge!Segmented(Bridge_trace) /\ ~Bridge_inLine'
  BY Zenon, <1>1, <1>2
<1>4. Bridge!Progress'
  BY Zenon, <1>3, BridgeProgressAfter
<1> QED BY Zenon, <1>1, <1>4 DEF Bridge!IInv

LEMMA BridgeAppendRowKeeps ==
  ASSUME Bridge!IInv, Bridge!AppendRow
  PROVE  Bridge!IInv'
<1> DEFINE A == Bridge!RowsAfter(Bridge_trace, Bridge_recalls)
           n == Bridge!Parts(Bridge_trace)
           obs == Bridge!PartObs(Bridge_trace, Bridge_recalls, Bridge_segment)
           H == Bridge!Fresh(Bridge_rows, obs)
<1>1. Bridge!TypeOK /\ Bridge!Progress /\ Bridge!RerunSafe
  BY Zenon DEF Bridge!IInv
<1>2. /\ UNCHANGED Bridge!session /\ Bridge_place' = Bridge_place /\ Bridge_segment' = Bridge_segment /\ Bridge_rollups' = Bridge_rollups /\ Bridge_saved' = Bridge_saved /\ Bridge_deaths' = Bridge_deaths
      /\ Bridge_forgot' = Bridge_forgot /\ Bridge_place = "rows" /\ H # <<>> /\ Bridge_rows' = Append(Bridge_rows, Head(H))
  BY Zenon DEF Bridge!AppendRow
<1>3. Bridge_place # "session" /\ Bridge_place # "done" /\ Bridge_place' # "session" /\ Bridge_place' = "rows"
  BY <1>2
<1>4. Bridge_segment \in 1 .. n /\ Bridge_saved' = <<>>
  BY <1>1, <1>2, <1>3 DEF Bridge!Progress
<1>5. /\ Bridge_trace \in Seq(Bridge!Event) /\ Bridge_recalls \in BridgeRecalls /\ n \in Nat
      /\ \A i \in 0 .. n : A[i] \in Seq(Bridge!Row) /\ Len(A[i]) \in Nat
      /\ \A i \in 1 .. n : Bridge!PartObs(Bridge_trace, Bridge_recalls, i) \in Seq(Bridge!Row)
  BY Zenon, <1>1, BridgeRunIs
<1>6. Bridge_rows \in Seq(Bridge!Row) /\ obs \in Seq(Bridge!Row)
  BY Zenon, <1>1, <1>4, <1>5 DEF Bridge!TypeOK
<1>7. /\ Head(H) = H[1] /\ H[1] \in Bridge!Row /\ \A j \in 1 .. Len(Bridge_rows) : Bridge_rows[j].file # H[1].file
  BY Zenon, <1>2, <1>6, BridgeFreshHead
<1>8. ~Bridge_forgot => BridgeFirstRows(Bridge_rows, A[n]) /\ Len(A[Bridge_segment - 1]) <= Len(Bridge_rows)
  BY Zenon, <1>2, BridgeProgressIs
<1>9. ASSUME ~Bridge_forgot PROVE H[1] = A[n][Len(Bridge_rows) + 1] /\ Len(Bridge_rows) + 1 <= Len(A[n])
  <2>0. /\ Bridge_trace \in Seq(Bridge!Event) /\ Bridge_recalls \in BridgeRecalls /\ Bridge_segment \in 1 .. Bridge!Parts(Bridge_trace) /\ Bridge_rows \in Seq(Bridge!Row)
        /\ BridgeFirstRows(Bridge_rows, A[Bridge!Parts(Bridge_trace)]) /\ Len(A[Bridge_segment - 1]) <= Len(Bridge_rows)
    BY Zenon, <1>4, <1>5, <1>6, <1>8, <1>9
  <2>1. BridgeNextIs(Bridge_trace, Bridge_rows, Bridge_segment, A, H)
    BY Zenon, <2>0, BridgeNextOfRun
  <2>3. /\ Len(Bridge_rows) < Len(A[Bridge_segment]) => H[1] = A[n][Len(Bridge_rows) + 1] /\ Len(Bridge_rows) + 1 <= Len(A[n])
        /\ Len(Bridge_rows) >= Len(A[Bridge_segment]) => H = <<>>
    BY Zenon, <2>1 DEF BridgeNextIs
  <2>2. Len(Bridge_rows) < Len(A[Bridge_segment]) \/ Len(Bridge_rows) >= Len(A[Bridge_segment])
    <3>1. Len(A[Bridge_segment]) \in Nat
      BY <1>4, <1>5
    <3>2. Len(Bridge_rows) \in Nat
      BY <1>6
    <3> QED BY <3>1, <3>2
  <2> QED BY Zenon, <1>2, <2>2, <2>3
<1> HIDE DEF A, n, obs, H
<1>10. /\ Bridge_rows' \in Seq(Bridge!Row) /\ Len(Bridge_rows') = Len(Bridge_rows) + 1 /\ Len(Bridge_rows) \in Nat
       /\ (\A i \in 1 .. Len(Bridge_rows) : Bridge_rows'[i] = Bridge_rows[i]) /\ Bridge_rows'[Len(Bridge_rows) + 1] = H[1]
  BY <1>2, <1>6, <1>7
<1>11. Bridge!RerunSafe'
  <2>1. ASSUME NEW i \in DOMAIN Bridge_rows', NEW j \in DOMAIN Bridge_rows', Bridge_rows'[i].file = Bridge_rows'[j].file PROVE i = j
    <3> DEFINE m == Len(Bridge_rows)
    <3>1. i \in 1 .. m + 1 /\ j \in 1 .. m + 1 /\ m \in Nat
      BY <1>10
    <3>2. \A a, b \in 1 .. m : Bridge_rows[a].file = Bridge_rows[b].file => a = b
      <4>1. DOMAIN Bridge_rows = 1 .. m
        BY <1>6
      <4> QED BY Zenon, <1>1, <4>1 DEF Bridge!RerunSafe
    <3> HIDE DEF m
    <3>3. (\A a \in 1 .. m : Bridge_rows'[a] = Bridge_rows[a] /\ Bridge_rows[a].file # H[1].file) /\ Bridge_rows'[m + 1] = H[1]
      BY Zenon, <1>7, <1>10 DEF m
    <3>4. (i \in 1 .. m \/ i = m + 1) /\ (j \in 1 .. m \/ j = m + 1)
      BY <3>1
    <3> QED BY Zenon, <2>1, <3>2, <3>3, <3>4
  <2> QED BY <1>3, <2>1 DEF Bridge!RerunSafe
<1>12. Bridge!TypeOK'
  <2>1. Bridge_place' \in {"rows", "rollup", "artifacts", "commit", "done", "dead"}
    BY <1>3
  <2>2. Bridge_segment' \in Nat /\ Bridge_saved' \in Seq(Bridge!Row) /\ Bridge_rollups' \in Seq(Nat) /\ Len(Bridge_rollups') <= 1 /\ Bridge_deaths' \in 0 .. BridgeMaxDeaths
    BY Zenon, <1>1, <1>2 DEF Bridge!TypeOK
  <2> QED BY Zenon, <1>2, <1>10, <2>1, <2>2, BridgeBridgeTypes
<1>13. ASSUME ~Bridge_forgot PROVE BridgeFirstRows(Bridge_rows', A[n]) /\ Len(A[Bridge_segment' - 1]) <= Len(Bridge_rows')
  <2>1. /\ H[1] = A[n][Len(Bridge_rows) + 1] /\ Len(Bridge_rows) + 1 <= Len(A[n])
        /\ \A j \in 1 .. Len(Bridge_rows) : Bridge_rows[j] = A[n][j]
    BY Zenon, <1>8, <1>9, <1>13 DEF BridgeFirstRows
  <2>2. BridgeFirstRows(Bridge_rows', A[n])
    BY <1>10, <2>1 DEF BridgeFirstRows
  <2>3. Bridge_segment - 1 \in 0 .. n
    BY <1>4, <1>5
  <2>4. Len(A[Bridge_segment - 1]) \in Nat
    BY Zenon, <1>5, <2>3
  <2>5. Len(A[Bridge_segment - 1]) <= Len(Bridge_rows) + 1
    BY <1>8, <1>10, <1>13, <2>4
  <2> QED BY Zenon, <1>2, <1>10, <2>2, <2>5
<1>14. Bridge_segment' \in 1 .. n /\ A = Bridge!RowsAfter(Bridge_trace, Bridge_recalls) /\ n = Bridge!Parts(Bridge_trace)
  BY Zenon, <1>2, <1>4 DEF A, n
<1>15. /\ Bridge_place' # "done" => Bridge_saved' = <<>>
       /\ ~Bridge_forgot =>
            /\ BridgeFirstRows(Bridge_rows', A[n])
            /\ Bridge_place' = "rows" => Len(A[Bridge_segment' - 1]) <= Len(Bridge_rows')
            /\ Bridge_place' = "rollup" => Len(A[Bridge_segment']) <= Len(Bridge_rows')
            /\ Bridge_place' = "artifacts" /\ Bridge!Segmented(Bridge_trace) => Len(A[n]) <= Len(Bridge_rows')
            /\ Bridge_place' \in {"commit", "done"} => Len(A[n]) <= Len(Bridge_rows')
  BY <1>3, <1>4, <1>13
<1> QED BY Zenon, <1>2, <1>3, <1>11, <1>12, <1>14, <1>15, BridgeBridgeStep

LEMMA BridgeRowsWrittenKeeps ==
  ASSUME Bridge!IInv, Bridge!RowsWritten
  PROVE  Bridge!IInv'
<1> DEFINE A == Bridge!RowsAfter(Bridge_trace, Bridge_recalls)
           n == Bridge!Parts(Bridge_trace)
           obs == Bridge!PartObs(Bridge_trace, Bridge_recalls, Bridge_segment)
           H == Bridge!Fresh(Bridge_rows, obs)
<1>1. Bridge!TypeOK /\ Bridge!Progress /\ Bridge!RerunSafe
  BY Zenon DEF Bridge!IInv
<1>2. /\ UNCHANGED Bridge!session /\ Bridge_place' = "rollup" /\ Bridge_segment' = Bridge_segment /\ Bridge_rollups' = Bridge_rollups /\ Bridge_saved' = Bridge_saved /\ Bridge_deaths' = Bridge_deaths
      /\ Bridge_forgot' = Bridge_forgot /\ Bridge_place = "rows" /\ H = <<>> /\ Bridge_rows' = Bridge_rows
  BY Zenon DEF Bridge!RowsWritten, Bridge!files
<1>3. Bridge_place # "session" /\ Bridge_place # "done" /\ Bridge_place' # "session" /\ Bridge_place' # "done"
  BY <1>2
<1>4. Bridge_segment \in 1 .. n /\ Bridge_saved' = <<>>
  BY <1>1, <1>2, <1>3 DEF Bridge!Progress
<1>5. /\ Bridge_trace \in Seq(Bridge!Event) /\ Bridge_recalls \in BridgeRecalls /\ n \in Nat
      /\ \A i \in 0 .. n : A[i] \in Seq(Bridge!Row) /\ Len(A[i]) \in Nat
  BY Zenon, <1>1, BridgeRunIs
<1>6. Bridge_rows \in Seq(Bridge!Row)
  BY Zenon, <1>1 DEF Bridge!TypeOK
<1>8. ~Bridge_forgot => BridgeFirstRows(Bridge_rows, A[n]) /\ Len(A[Bridge_segment - 1]) <= Len(Bridge_rows)
  BY Zenon, <1>2, BridgeProgressIs
<1>9. ASSUME ~Bridge_forgot PROVE Len(A[Bridge_segment]) <= Len(Bridge_rows)
  <2>0. BridgeNextIs(Bridge_trace, Bridge_rows, Bridge_segment, A, H)
    BY Zenon, <1>4, <1>5, <1>6, <1>8, <1>9, BridgeNextOfRun
  <2>1. Len(Bridge_rows) < Len(A[Bridge_segment]) => H # <<>>
    BY Zenon, <2>0 DEF BridgeNextIs
  <2>2. Len(A[Bridge_segment]) \in Nat
    BY <1>4, <1>5
  <2>3. Len(Bridge_rows) \in Nat
    BY <1>6
  <2>4. ~(Len(Bridge_rows) < Len(A[Bridge_segment]))
    BY Zenon, <1>2, <2>1
  <2> HIDE DEF A
  <2> QED BY <2>2, <2>3, <2>4
<1> HIDE DEF A, n, obs, H
<1>10. Bridge!RerunSafe'
  BY <1>1, <1>2, <1>3 DEF Bridge!RerunSafe
<1>11. Bridge!TypeOK'
  <2>1. Bridge_place' \in {"rows", "rollup", "artifacts", "commit", "done", "dead"}
    BY <1>2
  <2>2. /\ Bridge_segment' \in Nat /\ Bridge_saved' \in Seq(Bridge!Row) /\ Bridge_rollups' \in Seq(Nat) /\ Len(Bridge_rollups') <= 1 /\ Bridge_deaths' \in 0 .. BridgeMaxDeaths
        /\ Bridge_rows' \in Seq(Bridge!Row)
    BY Zenon, <1>1, <1>2 DEF Bridge!TypeOK
  <2> QED BY Zenon, <1>2, <2>1, <2>2, BridgeBridgeTypes
<1>12. Bridge_segment' \in 1 .. n /\ A = Bridge!RowsAfter(Bridge_trace, Bridge_recalls) /\ n = Bridge!Parts(Bridge_trace)
  BY Zenon, <1>2, <1>4 DEF A, n
<1>13. ~Bridge_forgot => BridgeFirstRows(Bridge_rows', A[n]) /\ Len(A[Bridge_segment']) <= Len(Bridge_rows')
  BY Zenon, <1>2, <1>8, <1>9
<1>14. /\ Bridge_place' # "done" => Bridge_saved' = <<>>
       /\ ~Bridge_forgot =>
            /\ BridgeFirstRows(Bridge_rows', A[n])
            /\ Bridge_place' = "rows" => Len(A[Bridge_segment' - 1]) <= Len(Bridge_rows')
            /\ Bridge_place' = "rollup" => Len(A[Bridge_segment']) <= Len(Bridge_rows')
            /\ Bridge_place' = "artifacts" /\ Bridge!Segmented(Bridge_trace) => Len(A[n]) <= Len(Bridge_rows')
            /\ Bridge_place' \in {"commit", "done"} => Len(A[n]) <= Len(Bridge_rows')
  BY <1>2, <1>4, <1>13
<1> QED BY Zenon, <1>2, <1>3, <1>10, <1>11, <1>12, <1>14, BridgeBridgeStep

LEMMA BridgeKnownCount ==
  ASSUME NEW obs \in Seq(Bridge!Row)
  PROVE  Bridge!Cardinality(Bridge!Known(obs)) \in Nat
<1> DEFINE D == 1 .. Len(obs)
<1>1. IsFiniteSet(D)
  <2>1. Len(obs) \in Nat /\ 1 \in Int /\ Len(obs) \in Int
    OBVIOUS
  <2> QED BY Zenon, <2>1, FS_Interval
<1>2. Bridge!Known(obs) = {obs[i].file : i \in D}
  <2>1. DOMAIN obs = 1 .. Len(obs)
    OBVIOUS
  <2> QED BY Zenon, <2>1 DEF Bridge!Known
<1> HIDE DEF D
<1>3. IsFiniteSet({obs[i].file : i \in D})
  <2> DEFINE f == [i \in D |-> obs[i].file]
             T == {obs[i].file : i \in D}
  <2>1. f \in Surjection(D, T)
    BY Zenon DEF Surjection
  <2> HIDE DEF f
  <2>2. IsFiniteSet(T)
    BY Zenon, <1>1, <2>1, FS_Surjection
  <2> QED BY Zenon, <2>2
<1> QED BY Zenon, <1>2, <1>3, FS_CardinalityType, BridgeSetsCount

LEMMA BridgeRollupKeeps ==
  ASSUME Bridge!IInv, Bridge!Rollup
  PROVE  Bridge!IInv'
<1> DEFINE A == Bridge!RowsAfter(Bridge_trace, Bridge_recalls)
           n == Bridge!Parts(Bridge_trace)
           obs == Bridge!PartObs(Bridge_trace, Bridge_recalls, Bridge_segment)
<1>1. Bridge!TypeOK /\ Bridge!Progress /\ Bridge!RerunSafe
  BY Zenon DEF Bridge!IInv
<1>2. /\ UNCHANGED Bridge!session /\ Bridge_saved' = Bridge_saved /\ Bridge_deaths' = Bridge_deaths /\ Bridge_forgot' = Bridge_forgot /\ Bridge_place = "rollup" /\ Bridge_rows' = Bridge_rows
      /\ Bridge_rollups' = (IF Bridge!NeedsRollup(obs) THEN Append(Bridge_rollups, Bridge!Cardinality(Bridge!Known(obs))) ELSE Bridge_rollups)
      /\ Bridge_segment' = (IF Bridge_segment < n THEN Bridge_segment + 1 ELSE Bridge_segment)
      /\ Bridge_place' = IF Bridge_segment < n THEN "rows" ELSE IF Bridge!Segmented(Bridge_trace) THEN "artifacts" ELSE "commit"
  BY Zenon DEF Bridge!Rollup
<1>3. Bridge_place # "session" /\ Bridge_place # "done" /\ Bridge_place' \in {"rows", "artifacts", "commit"}
  BY <1>2
<1>4. Bridge_segment \in 1 .. n /\ Bridge_saved' = <<>>
  BY <1>1, <1>2, <1>3 DEF Bridge!Progress
<1>5. /\ n \in Nat /\ \A i \in 1 .. n : Bridge!PartObs(Bridge_trace, Bridge_recalls, i) \in Seq(Bridge!Row)
  BY Zenon, <1>1, BridgeRunIs
<1>6. ~Bridge_forgot => BridgeFirstRows(Bridge_rows, A[n]) /\ Len(A[Bridge_segment]) <= Len(Bridge_rows)
  BY Zenon, <1>2, BridgeProgressIs
<1>7. Bridge!Cardinality(Bridge!Known(obs)) \in Nat
  BY Zenon, <1>4, <1>5, BridgeKnownCount
<1>8. Bridge_rollups' \in Seq(Nat) /\ Len(Bridge_rollups') <= 1
  <2>1. Bridge_rollups \in Seq(Nat) /\ Len(Bridge_rollups) <= 1
    BY Zenon, <1>1 DEF Bridge!TypeOK
  <2>2. CASE Bridge!NeedsRollup(obs)
    <3>1. Bridge_rollups = <<>> /\ Bridge_rollups' = Append(Bridge_rollups, Bridge!Cardinality(Bridge!Known(obs)))
      BY Zenon, <1>2, <2>2 DEF Bridge!NeedsRollup
    <3> DEFINE c == Bridge!Cardinality(Bridge!Known(obs))
    <3>2. c \in Nat /\ Bridge_rollups = <<>> /\ Bridge_rollups' = Append(Bridge_rollups, c)
      BY Zenon, <1>7, <3>1
    <3> HIDE DEF c
    <3> QED BY <3>2
  <2>3. CASE ~Bridge!NeedsRollup(obs)
    BY Zenon, <1>2, <2>1, <2>3
  <2> QED BY <2>2, <2>3
<1> HIDE DEF A, n, obs
<1>9. Bridge_segment' \in 1 .. n
  BY <1>2, <1>4, <1>5
<1>10. Bridge!TypeOK'
  <2>1. Bridge_place' \in {"rows", "rollup", "artifacts", "commit", "done", "dead"}
    BY <1>3
  <2>2. Bridge_segment' \in Nat
    BY <1>9
  <2>3. Bridge_saved' \in Seq(Bridge!Row) /\ Bridge_deaths' \in 0 .. BridgeMaxDeaths /\ Bridge_rows' \in Seq(Bridge!Row)
    BY Zenon, <1>1, <1>2 DEF Bridge!TypeOK
  <2> QED BY Zenon, <1>2, <1>8, <2>1, <2>2, <2>3, BridgeBridgeTypes
<1>11. Bridge!RerunSafe'
  BY <1>1, <1>2, <1>3 DEF Bridge!RerunSafe
<1>12. ~Bridge_forgot =>
         /\ BridgeFirstRows(Bridge_rows', A[n])
         /\ Bridge_place' = "rows" => Len(A[Bridge_segment' - 1]) <= Len(Bridge_rows')
         /\ Bridge_place' = "artifacts" /\ Bridge!Segmented(Bridge_trace) => Len(A[n]) <= Len(Bridge_rows')
         /\ Bridge_place' = "commit" => Len(A[n]) <= Len(Bridge_rows')
  <2>1. Bridge_place' = "rows" => Bridge_segment' - 1 = Bridge_segment
    BY <1>2, <1>4, <1>5
  <2>2. Bridge_place' \in {"artifacts", "commit"} => Bridge_segment = n
    BY <1>2, <1>4, <1>5
  <2>3. ~Bridge_forgot => BridgeFirstRows(Bridge_rows', A[n]) /\ Len(A[Bridge_segment]) <= Len(Bridge_rows')
    BY Zenon, <1>2, <1>6
  <2>4. \A p : p = "artifacts" \/ p = "commit" => p \in {"artifacts", "commit"}
    OBVIOUS
  <2> QED BY Zenon, <2>1, <2>2, <2>3, <2>4
<1>13. Bridge_segment' \in 1 .. Bridge!Parts(Bridge_trace) /\ A = Bridge!RowsAfter(Bridge_trace, Bridge_recalls) /\ n = Bridge!Parts(Bridge_trace)
  BY Zenon, <1>9 DEF A, n
<1>14. /\ Bridge_place' # "done" => Bridge_saved' = <<>>
       /\ ~Bridge_forgot =>
            /\ BridgeFirstRows(Bridge_rows', A[n])
            /\ Bridge_place' = "rows" => Len(A[Bridge_segment' - 1]) <= Len(Bridge_rows')
            /\ Bridge_place' = "rollup" => Len(A[Bridge_segment']) <= Len(Bridge_rows')
            /\ Bridge_place' = "artifacts" /\ Bridge!Segmented(Bridge_trace) => Len(A[n]) <= Len(Bridge_rows')
            /\ Bridge_place' \in {"commit", "done"} => Len(A[n]) <= Len(Bridge_rows')
  BY <1>3, <1>4, <1>12
<1>15. Bridge_place' # "session"
  BY <1>3
<1> QED BY Zenon, <1>2, <1>3, <1>10, <1>11, <1>13, <1>14, <1>15, BridgeBridgeStep

LEMMA BridgeArtifactsKeeps ==
  ASSUME Bridge!IInv, Bridge!Artifacts
  PROVE  Bridge!IInv'
<1> DEFINE A == Bridge!RowsAfter(Bridge_trace, Bridge_recalls)
           n == Bridge!Parts(Bridge_trace)
<1>1. Bridge!TypeOK /\ Bridge!Progress /\ Bridge!RerunSafe
  BY Zenon DEF Bridge!IInv
<1>2. /\ UNCHANGED Bridge!session /\ Bridge_segment' = Bridge_segment /\ Bridge_rows' = Bridge_rows /\ Bridge_rollups' = Bridge_rollups /\ Bridge_saved' = Bridge_saved /\ Bridge_deaths' = Bridge_deaths
      /\ Bridge_forgot' = Bridge_forgot /\ Bridge_place = "artifacts" /\ Bridge_place' = IF Bridge!Segmented(Bridge_trace) THEN "commit" ELSE "rows"
  BY Zenon DEF Bridge!Artifacts, Bridge!files
<1>3. Bridge_place # "session" /\ Bridge_place # "done" /\ Bridge_place' \in {"rows", "commit"}
  BY <1>2
<1>4. Bridge_segment \in 1 .. n /\ Bridge_saved' = <<>>
  BY <1>1, <1>2, <1>3 DEF Bridge!Progress
<1>5. n \in Nat /\ (~Bridge!Segmented(Bridge_trace) => n = 1) /\ Len(A[0]) = 0
  <2>1. n \in Nat
    BY Zenon, <1>1, BridgeRunIs
  <2>2. ~Bridge!Segmented(Bridge_trace) => n = 1
    <3>1. Bridge_trace \in Seq(Bridge!Event)
      BY Zenon, <1>1 DEF Bridge!TypeOK
    <3> QED BY Zenon, <3>1, BridgePartsAre
  <2>3. Len(A[0]) = 0
    BY Zenon, <1>1, BridgeRunIs
  <2> QED BY Zenon, <2>1, <2>2, <2>3
<1>6. ~Bridge_forgot => BridgeFirstRows(Bridge_rows, A[n]) /\ (Bridge!Segmented(Bridge_trace) => Len(A[n]) <= Len(Bridge_rows))
  BY Zenon, <1>2, BridgeProgressIs
<1>7. Len(Bridge_rows) \in Nat
  BY <1>1 DEF Bridge!TypeOK
<1> HIDE DEF A, n
<1>8. Bridge!TypeOK'
  <2>1. Bridge_place' \in {"rows", "rollup", "artifacts", "commit", "done", "dead"}
    BY <1>3
  <2>2. /\ Bridge_segment' \in Nat /\ Bridge_rows' \in Seq(Bridge!Row) /\ Bridge_saved' \in Seq(Bridge!Row) /\ Bridge_rollups' \in Seq(Nat) /\ Len(Bridge_rollups') <= 1
        /\ Bridge_deaths' \in 0 .. BridgeMaxDeaths
    BY Zenon, <1>1, <1>2 DEF Bridge!TypeOK
  <2> QED BY Zenon, <1>2, <2>1, <2>2, BridgeBridgeTypes
<1>9. Bridge!RerunSafe'
  BY <1>1, <1>2, <1>3 DEF Bridge!RerunSafe
<1>10. ~Bridge_forgot =>
         /\ BridgeFirstRows(Bridge_rows', A[n])
         /\ Bridge_place' = "rows" => Len(A[Bridge_segment' - 1]) <= Len(Bridge_rows')
         /\ Bridge_place' = "commit" => Len(A[n]) <= Len(Bridge_rows')
  <2>1. Bridge_place' = "rows" => ~Bridge!Segmented(Bridge_trace)
    BY <1>2
  <2>2. ~Bridge!Segmented(Bridge_trace) => Bridge_segment - 1 = 0
    BY <1>4, <1>5
  <2>3. 0 <= Len(Bridge_rows)
    BY <1>7
  <2>4. Bridge_place' = "rows" => Len(A[Bridge_segment - 1]) <= Len(Bridge_rows)
    BY Zenon, <1>5, <2>1, <2>2, <2>3
  <2>5. Bridge_place' = "commit" => Bridge!Segmented(Bridge_trace)
    BY <1>2
  <2> QED BY Zenon, <1>2, <1>6, <2>4, <2>5
<1>11. Bridge_segment' \in 1 .. Bridge!Parts(Bridge_trace) /\ A = Bridge!RowsAfter(Bridge_trace, Bridge_recalls) /\ n = Bridge!Parts(Bridge_trace)
  BY Zenon, <1>2, <1>4 DEF A, n
<1>12. /\ Bridge_place' # "done" => Bridge_saved' = <<>>
       /\ ~Bridge_forgot =>
            /\ BridgeFirstRows(Bridge_rows', A[n])
            /\ Bridge_place' = "rows" => Len(A[Bridge_segment' - 1]) <= Len(Bridge_rows')
            /\ Bridge_place' = "rollup" => Len(A[Bridge_segment']) <= Len(Bridge_rows')
            /\ Bridge_place' = "artifacts" /\ Bridge!Segmented(Bridge_trace) => Len(A[n]) <= Len(Bridge_rows')
            /\ Bridge_place' \in {"commit", "done"} => Len(A[n]) <= Len(Bridge_rows')
  BY <1>3, <1>4, <1>10
<1>13. Bridge_place' # "session"
  BY <1>3
<1> QED BY Zenon, <1>2, <1>3, <1>8, <1>9, <1>11, <1>12, <1>13, BridgeBridgeStep

LEMMA BridgeCommitKeeps ==
  ASSUME Bridge!IInv, Bridge!Commit
  PROVE  Bridge!IInv'
<1> DEFINE A == Bridge!RowsAfter(Bridge_trace, Bridge_recalls)
           n == Bridge!Parts(Bridge_trace)
<1>1. Bridge!TypeOK /\ Bridge!Progress /\ Bridge!RerunSafe
  BY Zenon DEF Bridge!IInv
<1>2. /\ UNCHANGED Bridge!session /\ Bridge_segment' = Bridge_segment /\ Bridge_rows' = Bridge_rows /\ Bridge_rollups' = Bridge_rollups /\ Bridge_deaths' = Bridge_deaths
      /\ Bridge_forgot' = Bridge_forgot /\ Bridge_place = "commit" /\ Bridge_place' = "done"
      /\ (Bridge_saved' = (IF Bridge!Touched THEN Bridge_rows ELSE Bridge_saved)) \/ Bridge_saved' = Bridge_saved
  BY Zenon DEF Bridge!Commit
<1>3. Bridge_place # "session" /\ Bridge_place # "done" /\ Bridge_place' # "session" /\ Bridge_place \in {"commit", "done"}
  BY <1>2
<1>4. Bridge_segment \in 1 .. n /\ Bridge_saved = <<>>
  BY <1>1, <1>3 DEF Bridge!Progress
<1>5. Bridge_saved' = Bridge_rows \/ Bridge_saved' = <<>>
  BY Zenon, <1>2, <1>4
<1>6. ~Bridge_forgot => BridgeFirstRows(Bridge_rows, A[n]) /\ Len(A[n]) <= Len(Bridge_rows)
  BY Zenon, <1>3, BridgeProgressIs
<1>7. n \in Nat /\ (\A i \in 0 .. n : A[i] \in Seq(Bridge!Row) /\ Len(A[i]) \in Nat) /\ A[n] = Bridge!SingleRun
  BY Zenon, <1>1, BridgeRunIs
<1>8. Bridge!SingleRun \in Seq(Bridge!Row) /\ Bridge_rows \in Seq(Bridge!Row) /\ Len(Bridge_rows) \in Nat /\ Len(Bridge!SingleRun) \in Nat
  <2>1. n \in 0 .. n
    BY <1>7
  <2>2. A[n] \in Seq(Bridge!Row)
    BY Zenon, <1>7, <2>1
  <2>3. Bridge!SingleRun \in Seq(Bridge!Row) /\ Bridge_rows \in Seq(Bridge!Row)
    BY Zenon, <1>1, <1>7, <2>2 DEF Bridge!TypeOK
  <2> QED BY <2>3
<1>9. ~Bridge_forgot => Bridge_rows = Bridge!SingleRun
  <2> SUFFICES ASSUME ~Bridge_forgot PROVE Bridge_rows = Bridge!SingleRun
    OBVIOUS
  <2>1. Len(Bridge_rows) <= Len(Bridge!SingleRun) /\ Len(Bridge!SingleRun) <= Len(Bridge_rows) /\ \A j \in 1 .. Len(Bridge_rows) : Bridge_rows[j] = Bridge!SingleRun[j]
    BY Zenon, <1>6, <1>7 DEF BridgeFirstRows
  <2> QED BY <1>8, <2>1
<1> HIDE DEF A, n
<1>10. Bridge!TypeOK'
  <2>1. Bridge_place' \in {"rows", "rollup", "artifacts", "commit", "done", "dead"}
    BY <1>2
  <2>2. Bridge_saved' \in Seq(Bridge!Row)
    <3>1. <<>> \in Seq(Bridge!Row)
      OBVIOUS
    <3> QED BY Zenon, <1>5, <1>8, <3>1
  <2>3. /\ Bridge_segment' \in Nat /\ Bridge_rows' \in Seq(Bridge!Row) /\ Bridge_rollups' \in Seq(Nat) /\ Len(Bridge_rollups') <= 1
        /\ Bridge_deaths' \in 0 .. BridgeMaxDeaths
    BY Zenon, <1>1, <1>2 DEF Bridge!TypeOK
  <2> QED BY Zenon, <1>2, <2>1, <2>2, <2>3, BridgeBridgeTypes
<1>11. Bridge!RerunSafe'
  <2>1. Bridge!SingleRun' = Bridge!SingleRun
    BY Zenon, <1>2, BridgeSessionStays
  <2>2. Bridge_saved' \in {<<>>, Bridge_rows}
    BY <1>5
  <2>3. ~Bridge_forgot' => Bridge_rows' = Bridge!SingleRun' /\ Bridge_saved' \in {<<>>, Bridge_rows'}
    BY Zenon, <1>2, <1>9, <2>1, <2>2
  <2>4. \A i, j \in DOMAIN Bridge_rows' : Bridge_rows'[i].file = Bridge_rows'[j].file => i = j
    BY Zenon, <1>1, <1>2 DEF Bridge!RerunSafe
  <2> QED BY Zenon, <2>3, <2>4 DEF Bridge!RerunSafe
<1>12. Bridge_segment' \in 1 .. Bridge!Parts(Bridge_trace) /\ A = Bridge!RowsAfter(Bridge_trace, Bridge_recalls) /\ n = Bridge!Parts(Bridge_trace)
  BY Zenon, <1>2, <1>4 DEF A, n
<1>13. /\ Bridge_place' # "done" => Bridge_saved' = <<>>
       /\ ~Bridge_forgot =>
            /\ BridgeFirstRows(Bridge_rows', A[n])
            /\ Bridge_place' = "rows" => Len(A[Bridge_segment' - 1]) <= Len(Bridge_rows')
            /\ Bridge_place' = "rollup" => Len(A[Bridge_segment']) <= Len(Bridge_rows')
            /\ Bridge_place' = "artifacts" /\ Bridge!Segmented(Bridge_trace) => Len(A[n]) <= Len(Bridge_rows')
            /\ Bridge_place' \in {"commit", "done"} => Len(A[n]) <= Len(Bridge_rows')
  BY <1>2, <1>6
<1> QED BY Zenon, <1>2, <1>3, <1>10, <1>11, <1>12, <1>13, BridgeBridgeStep

LEMMA BridgeBridgeStutter ==
  ASSUME Bridge!IInv, UNCHANGED Bridge!vars
  PROVE  Bridge!IInv'
<1>1. UNCHANGED Bridge!session /\ Bridge_place' = Bridge_place /\ Bridge_segment' = Bridge_segment /\ Bridge_rows' = Bridge_rows /\ Bridge_rollups' = Bridge_rollups /\ Bridge_saved' = Bridge_saved
      /\ Bridge_deaths' = Bridge_deaths /\ Bridge_forgot' = Bridge_forgot /\ Bridge_recalls' = Bridge_recalls /\ Bridge_inLine' = Bridge_inLine
  BY DEF Bridge!vars, Bridge!session
<1>2. Bridge!TypeOK /\ Bridge!Progress /\ Bridge!RerunSafe
  BY Zenon DEF Bridge!IInv
<1>3. /\ Bridge!Traced' /\ Bridge!Waiting' /\ Bridge!Markers' /\ Bridge!Work' <= BridgeMaxWork
      /\ Bridge_kind' = Bridge_kind /\ Bridge_lines' = Bridge_lines /\ Bridge_inLine' = Bridge_inLine /\ Bridge_trace' = Bridge_trace /\ Bridge_recalls' = Bridge_recalls
      /\ Bridge_batch' = Bridge_batch /\ Bridge_toolSeq' = Bridge_toolSeq /\ Bridge!SingleRun' = Bridge!SingleRun
  BY Zenon, <1>1, BridgeSessionStays
<1>4. Bridge!TypeOK'
  BY Zenon, <1>1, <1>2, <1>3 DEF Bridge!TypeOK
<1>5. Bridge!RerunSafe'
  BY Zenon, <1>1, <1>2, <1>3 DEF Bridge!RerunSafe
<1>6. Bridge!Progress'
  <2>1. \A i : Bridge!Begun(i)' <=> Bridge!Begun(i)
    BY Zenon, <1>1, <1>3 DEF Bridge!Begun
  <2>2. Bridge!Begun(Bridge_segment - 1)' = Bridge!Begun(Bridge_segment - 1) /\ Bridge!Begun(Bridge_segment)' = Bridge!Begun(Bridge_segment) /\ Bridge!Begun(Bridge!Parts(Bridge_trace))' = Bridge!Begun(Bridge!Parts(Bridge_trace))
    BY Zenon, <1>1, <1>3 DEF Bridge!Begun
  <2> QED BY <1>1, <1>2, <1>3, <2>2 DEF Bridge!Progress
<1> QED BY Zenon, <1>3, <1>4, <1>5, <1>6 DEF Bridge!IInv

(* While a line runs nothing of the bridge has happened.                       *)
LEMMA BridgeSessionIs ==
  ASSUME Bridge!IInv, Bridge_inLine \/ Bridge_place = "session"
  PROVE  Bridge_place = "session" /\ Bridge_rows = <<>> /\ Bridge_rollups = <<>> /\ Bridge_saved = <<>>
BY DEF Bridge!IInv, Bridge!Progress

LEMMA BridgeSessionStep ==
  ASSUME Bridge!IInv, Bridge_place = "session", UNCHANGED <<Bridge_kind, Bridge_place, Bridge_segment, Bridge!files, Bridge_deaths, Bridge_forgot>>,
         Bridge_lines' \in 0 .. BridgeMaxLines, Bridge_inLine' \in BOOLEAN, Bridge_trace' \in Seq(Bridge!Event),
         Bridge_recalls' \in BridgeRecalls, Bridge!Work' <= BridgeMaxWork, Bridge_batch' \in Seq(Bridge!Event), Bridge_toolSeq' \in Nat,
         Bridge!Traced', Bridge!Waiting', Bridge!Markers'
  PROVE  Bridge!IInv'
<1>1. Bridge_place = "session" /\ Bridge_rows = <<>> /\ Bridge_rollups = <<>> /\ Bridge_saved = <<>>
  BY Zenon, BridgeSessionIs
<1>2. /\ Bridge_kind' = Bridge_kind /\ Bridge_place' = "session" /\ Bridge_segment' = Bridge_segment /\ Bridge_rows' = Bridge_rows /\ Bridge_rollups' = Bridge_rollups /\ Bridge_saved' = Bridge_saved
      /\ Bridge_deaths' = Bridge_deaths /\ Bridge_forgot' = Bridge_forgot
  BY Zenon, <1>1 DEF Bridge!files
<1>3. Bridge!TypeOK'
  <2>1. Bridge!TypeOK
    BY Zenon DEF Bridge!IInv
  <2>2. /\ Bridge_kind \in {"repl", "server"} /\ Bridge_segment \in Nat /\ Bridge_rows \in Seq(Bridge!Row) /\ Bridge_saved \in Seq(Bridge!Row) /\ Bridge_rollups \in Seq(Nat)
        /\ Len(Bridge_rollups) <= 1 /\ Bridge_deaths \in 0 .. BridgeMaxDeaths /\ Bridge_forgot \in BOOLEAN
    BY Zenon, <2>1 DEF Bridge!TypeOK
  <2>3. /\ Bridge_kind' \in {"repl", "server"} /\ Bridge_segment' \in Nat /\ Bridge_rows' \in Seq(Bridge!Row) /\ Bridge_saved' \in Seq(Bridge!Row) /\ Bridge_rollups' \in Seq(Nat)
        /\ Len(Bridge_rollups') <= 1 /\ Bridge_deaths' \in 0 .. BridgeMaxDeaths /\ Bridge_forgot' \in BOOLEAN
    BY Zenon, <1>2, <2>2
  <2>4. Bridge_place' \in {"session", "rows", "rollup", "artifacts", "commit", "done", "dead"}
    BY <1>2
  <2> QED BY Zenon, <2>3, <2>4 DEF Bridge!TypeOK, BridgeRecalls
<1>4. Bridge_rows' = <<>> /\ Bridge_rollups' = <<>> /\ Bridge_saved' = <<>>
  BY Zenon, <1>1, <1>2
<1>5. Bridge!RerunSafe' /\ Bridge!Progress'
  BY Zenon, <1>2, <1>3, <1>4, BridgeSessionKeeps
<1> QED BY Zenon, <1>3, <1>5 DEF Bridge!IInv

(* Without a batch nothing waits.                                              *)
LEMMA BridgeNothingWaits ==
  ASSUME Bridge!Traced', Bridge_trace' \in Seq(Bridge!Event), Bridge_batch' = <<>>, Bridge_inLine' => Bridge!Counted(Bridge_trace', Bridge_toolSeq')
  PROVE  Bridge!Waiting'
<1>1. Len(Bridge_trace') \in Nat /\ DOMAIN Bridge_trace' = 1 .. Len(Bridge_trace') /\ Len(Bridge_batch') = 0 /\ DOMAIN Bridge_batch' = {}
  OBVIOUS
<1>2. \A i \in 1 .. Len(Bridge_trace') : Bridge_trace'[i].k = "result" => Bridge_trace'[i].of \in 1 .. i - 1
  BY Zenon, <1>1 DEF Bridge!Traced, Bridge!InOrder
<1>3. \A i \in DOMAIN Bridge_trace' : Bridge_trace'[i].k = "result" => Bridge_trace'[i].of <= Len(Bridge_trace') - Len(Bridge_batch')
  BY <1>1, <1>2
<1>4. Len(Bridge_batch') <= Len(Bridge_trace') /\ \A i : i \notin DOMAIN Bridge_batch'
  BY <1>1
<1> QED BY Zenon, <1>3, <1>4 DEF Bridge!Waiting

(* Calls and results are no markers.                                           *)
LEMMA BridgeNoMarkers ==
  ASSUME Bridge!Markers, Bridge_inLine, Bridge_inLine', Bridge_kind' = Bridge_kind, NEW n, NEW m, BridgeGrown(Bridge_trace, Bridge_trace', n, m),
         \A j \in 1 .. m : Bridge_trace'[n + j].k \notin {"start", "end"}
  PROVE  Bridge!Markers'
<1>1. /\ n \in Nat /\ m \in Nat /\ Len(Bridge_trace) = n /\ Len(Bridge_trace') = n + m /\ Bridge_trace \in Seq(Bridge!Event) /\ Bridge_trace' \in Seq(Bridge!Event)
      /\ \A i \in 1 .. n : Bridge_trace'[i] = Bridge_trace[i]
  BY Zenon DEF BridgeGrown
<1>2. DOMAIN Bridge_trace' = 1 .. n + m /\ DOMAIN Bridge_trace = 1 .. n
  BY <1>1
<1>3. \A i \in 1 .. n + m : i \in 1 .. n \/ (i - n \in 1 .. m /\ n + (i - n) = i)
  BY <1>1
<1>4. \A i \in 1 .. n + m : Bridge_trace'[i].k \in {"start", "end"} => i \in 1 .. n
  BY Zenon, <1>3
<1>5. ASSUME Bridge_kind = "server", NEW i \in 1 .. n + m PROVE Bridge_trace'[i].k \notin {"start", "end"}
  <2>1. \A a \in 1 .. n : Bridge_trace[a].k \notin {"start", "end"}
    BY Zenon, <1>2, <1>5 DEF Bridge!Markers
  <2> QED BY Zenon, <1>1, <1>4, <2>1
<1>6. ASSUME Bridge_kind = "repl" PROVE Bridge_trace' # <<>> /\ Bridge_trace'[1].k = "start"
  <2>1. Bridge_trace # <<>> /\ Bridge_trace[1].k = "start"
    BY Zenon, <1>6 DEF Bridge!Markers
  <2>2. n # 0
    BY <1>1, <2>1
  <2>3. 1 \in 1 .. n /\ Len(Bridge_trace') # 0
    BY <1>1, <2>2
  <2>4. Bridge_trace' # <<>>
    BY <1>1, <2>3
  <2> QED BY Zenon, <1>1, <2>1, <2>3, <2>4
<1>7. ASSUME Bridge_kind = "repl", NEW i \in 1 .. n + m, i > 1, Bridge_trace'[i].k = "start" PROVE Bridge_trace'[i - 1].k = "end"
  <2>1. \A x : x = "start" => x \in {"start", "end"}
    OBVIOUS
  <2>2. i \in 1 .. n
    BY Zenon, <1>4, <1>7, <2>1
  <2>3. i - 1 \in 1 .. n
    BY <1>1, <1>7, <2>2
  <2>4. Bridge_trace[i - 1].k = "end"
    BY Zenon, <1>1, <1>2, <1>7, <2>2 DEF Bridge!Markers
  <2> QED BY Zenon, <1>1, <2>3, <2>4
<1> QED BY Zenon, <1>2, <1>5, <1>6, <1>7 DEF Bridge!Markers

LEMMA BridgeRecallKeeps ==
  ASSUME Bridge!IInv, Bridge!Recall
  PROVE  Bridge!IInv'
<1>1. Bridge!TypeOK /\ Bridge!Traced /\ Bridge!Waiting /\ Bridge!Markers
  BY Zenon DEF Bridge!IInv
<1>2. PICK f \in BridgeRecalled : Bridge_recalls' = Append(Bridge_recalls, [file |-> f, time |-> Len(Bridge_trace)])
  BY Zenon DEF Bridge!Recall
<1>3. /\ Bridge_kind' = Bridge_kind /\ Bridge_lines' = Bridge_lines /\ Bridge_inLine' = Bridge_inLine /\ Bridge_trace' = Bridge_trace /\ Bridge_batch' = Bridge_batch /\ Bridge_toolSeq' = Bridge_toolSeq
      /\ Bridge_place' = Bridge_place /\ Bridge_segment' = Bridge_segment /\ UNCHANGED Bridge!files /\ Bridge_deaths' = Bridge_deaths /\ Bridge_forgot' = Bridge_forgot
      /\ Bridge_inLine /\ Bridge!Work < BridgeMaxWork
  BY Zenon DEF Bridge!Recall
<1>4. Bridge_place = "session"
  BY Zenon, <1>3, BridgeSessionIs
<1>5. Bridge_trace \in Seq(Bridge!Event) /\ Bridge_recalls \in BridgeRecalls /\ Len(Bridge_trace) \in Nat
  BY <1>1 DEF Bridge!TypeOK, BridgeRecalls
<1>6. Bridge_recalls' \in BridgeRecalls /\ Len(Bridge_recalls') = Len(Bridge_recalls) + 1 /\ Len(Bridge_recalls) \in Nat
  <2> DEFINE r == [file |-> f, time |-> Len(Bridge_trace)]
  <2>1. r \in [file : BridgeRecalled, time : Nat] /\ Bridge_recalls' = Append(Bridge_recalls, r)
    BY <1>2, <1>5
  <2> HIDE DEF r
  <2> QED BY <1>5, <2>1 DEF BridgeRecalls
<1>7. Bridge!Work' <= BridgeMaxWork
  <2> DEFINE c == Bridge!Cardinality(Bridge!Numbered(Bridge_trace, 1, Len(Bridge_trace)))
  <2>1. c \in Nat
    BY <1>5, BridgeNumberedIs
  <2>2. Bridge!Work = c + Len(Bridge_recalls) /\ Bridge!Work' = c + Len(Bridge_recalls')
    BY Zenon, <1>3 DEF Bridge!Work
  <2> HIDE DEF c
  <2> QED BY <1>3, <1>6, <2>1, <2>2, BridgeAssumption
<1>8. Bridge!Traced'
  BY Zenon, <1>1, <1>3 DEF Bridge!Traced
<1>9. Bridge!Waiting'
  BY <1>1, <1>3 DEF Bridge!Waiting
<1>10. Bridge!Markers'
  BY <1>1, <1>3 DEF Bridge!Markers
<1>11. Bridge_lines' \in 0 .. BridgeMaxLines /\ Bridge_inLine' \in BOOLEAN /\ Bridge_trace' \in Seq(Bridge!Event) /\ Bridge_batch' \in Seq(Bridge!Event) /\ Bridge_toolSeq' \in Nat
  BY Zenon, <1>1, <1>3 DEF Bridge!TypeOK
<1>12. UNCHANGED <<Bridge_kind, Bridge_place, Bridge_segment, Bridge!files, Bridge_deaths, Bridge_forgot>>
  BY Zenon, <1>3
<1> QED BY Zenon, <1>4, <1>6, <1>7, <1>8, <1>9, <1>10, <1>11, <1>12, BridgeSessionStep

LEMMA BridgeInterruptKeeps ==
  ASSUME Bridge!IInv, Bridge!Interrupt
  PROVE  Bridge!IInv'
<1>1. Bridge!TypeOK /\ Bridge!Traced /\ Bridge!Waiting /\ Bridge!Markers
  BY Zenon DEF Bridge!IInv
<1>2. /\ Bridge_kind' = Bridge_kind /\ Bridge_lines' = BridgeMaxLines /\ Bridge_inLine' = FALSE /\ Bridge_trace' = Bridge_trace /\ Bridge_recalls' = Bridge_recalls /\ Bridge_batch' = <<>>
      /\ Bridge_toolSeq' = Bridge_toolSeq /\ Bridge_inLine
      /\ Bridge_place' = Bridge_place /\ Bridge_segment' = Bridge_segment /\ UNCHANGED Bridge!files /\ Bridge_deaths' = Bridge_deaths /\ Bridge_forgot' = Bridge_forgot
  BY Zenon DEF Bridge!Interrupt
<1>3. Bridge_place = "session"
  BY Zenon, <1>2, BridgeSessionIs
<1>4. Bridge_trace' \in Seq(Bridge!Event) /\ Bridge_recalls' \in BridgeRecalls /\ Bridge_toolSeq' \in Nat
  BY Zenon, <1>1, <1>2 DEF Bridge!TypeOK, BridgeRecalls
<1>5. Bridge_lines' \in 0 .. BridgeMaxLines /\ Bridge_inLine' \in BOOLEAN /\ Bridge_batch' \in Seq(Bridge!Event)
  <2>1. BridgeMaxLines \in 0 .. BridgeMaxLines /\ FALSE \in BOOLEAN /\ <<>> \in Seq(Bridge!Event)
    BY BridgeAssumption
  <2> QED BY Zenon, <1>2, <2>1
<1>6. Bridge!Work' <= BridgeMaxWork
  <2>1. Bridge!Work' = Bridge!Work
    BY Zenon, <1>2 DEF Bridge!Work
  <2> QED BY Zenon, <1>1, <2>1 DEF Bridge!TypeOK
<1>7. Bridge!Traced'
  BY Zenon, <1>1, <1>2 DEF Bridge!Traced
<1>8. Bridge!Waiting'
  BY Zenon, <1>2, <1>4, <1>7, BridgeNothingWaits
<1>9. Bridge!Markers'
  <2>1. ~(Bridge_lines' < BridgeMaxLines)
    BY <1>2, BridgeAssumption
  <2> QED BY <1>1, <1>2, <2>1 DEF Bridge!Markers
<1>10. UNCHANGED <<Bridge_kind, Bridge_place, Bridge_segment, Bridge!files, Bridge_deaths, Bridge_forgot>>
  BY Zenon, <1>2
<1> QED BY Zenon, <1>3, <1>4, <1>5, <1>6, <1>7, <1>8, <1>9, <1>10, BridgeSessionStep

LEMMA BridgeBeginLineKeeps ==
  ASSUME Bridge!IInv, Bridge!BeginLine
  PROVE  Bridge!IInv'
<1>1. Bridge!TypeOK /\ Bridge!Traced /\ Bridge!Waiting /\ Bridge!Markers
  BY Zenon DEF Bridge!IInv
<1>2. /\ Bridge_kind' = Bridge_kind /\ Bridge_lines' = Bridge_lines + 1 /\ Bridge_inLine' = TRUE /\ Bridge_recalls' = Bridge_recalls /\ Bridge_batch' = Bridge_batch /\ Bridge_toolSeq' = 0
      /\ Bridge_trace' = (IF Bridge_kind = "repl" THEN Append(Bridge_trace, Bridge!Start) ELSE Bridge_trace)
      /\ Bridge_place = "session" /\ Bridge_inLine = FALSE /\ Bridge_lines < BridgeMaxLines
      /\ Bridge_place' = Bridge_place /\ Bridge_segment' = Bridge_segment /\ UNCHANGED Bridge!files /\ Bridge_deaths' = Bridge_deaths /\ Bridge_forgot' = Bridge_forgot
  <2>1. /\ Bridge_kind' = Bridge_kind /\ Bridge_lines' = Bridge_lines + 1 /\ Bridge_inLine' = TRUE /\ Bridge_recalls' = Bridge_recalls /\ Bridge_batch' = Bridge_batch /\ Bridge_toolSeq' = 0
        /\ Bridge_trace' = (IF Bridge_kind = "repl" THEN Append(Bridge_trace, Bridge!Start) ELSE Bridge_trace)
        /\ Bridge_place = "session" /\ ~Bridge_inLine /\ Bridge_lines < BridgeMaxLines
        /\ Bridge_place' = Bridge_place /\ Bridge_segment' = Bridge_segment /\ UNCHANGED Bridge!files /\ Bridge_deaths' = Bridge_deaths /\ Bridge_forgot' = Bridge_forgot
    BY Zenon DEF Bridge!BeginLine
  <2>2. Bridge_inLine \in BOOLEAN
    BY Zenon, <1>1 DEF Bridge!TypeOK
  <2> QED BY Zenon, <2>1, <2>2
<1>3. Bridge_kind \in {"repl", "server"} /\ Bridge_trace \in Seq(Bridge!Event) /\ Bridge!Traced
  BY Zenon, <1>1 DEF Bridge!TypeOK
<1>4. Bridge_batch' = <<>>
  BY Zenon, <1>1, <1>2 DEF Bridge!Waiting
<1>5. /\ Bridge_trace' \in Seq(Bridge!Event) /\ Bridge!InOrder(Bridge_trace') /\ Bridge!Numbered(Bridge_trace', 1, Len(Bridge_trace')) = Bridge!Numbered(Bridge_trace, 1, Len(Bridge_trace))
  <2>1. CASE Bridge_kind = "repl"
    <3>1. Bridge_trace' = Append(Bridge_trace, Bridge!Start)
      BY Zenon, <1>2, <2>1
    <3>2. LET v == Append(Bridge_trace, Bridge!Start)
          IN v \in Seq(Bridge!Event) /\ Bridge!InOrder(v) /\ Bridge!Numbered(v, 1, Len(v)) = Bridge!Numbered(Bridge_trace, 1, Len(Bridge_trace))
      BY Zenon, <1>3, BridgeMarkerKeeps DEF Bridge!Traced
    <3> QED BY Zenon, <3>1, <3>2
  <2>2. CASE Bridge_kind # "repl"
    BY Zenon, <1>2, <1>3, <2>2 DEF Bridge!Traced
  <2> QED BY Zenon, <2>1, <2>2
<1>6. Bridge!Work' <= BridgeMaxWork
  <2>1. Bridge!Work' = Bridge!Work
    BY Zenon, <1>2, <1>5 DEF Bridge!Work
  <2> QED BY Zenon, <1>1, <2>1 DEF Bridge!TypeOK
<1>7. Bridge!Traced'
  BY Zenon, <1>5 DEF Bridge!Traced
<1>8. Bridge!Waiting'
  <2>1. Bridge!Counted(Bridge_trace', Bridge_toolSeq')
    BY Zenon, <1>2, <1>5, BridgeCountedNone
  <2> QED BY Zenon, <1>4, <1>5, <1>7, <2>1, BridgeNothingWaits
<1>9. Bridge!Markers'
  <2>1. CASE Bridge_kind = "server"
    <3>1. Bridge_trace' = Bridge_trace
      BY <1>2, <2>1
    <3>2. \A i \in DOMAIN Bridge_trace : Bridge_trace[i].k \notin {"start", "end"}
      BY Zenon, <1>1, <2>1 DEF Bridge!Markers
    <3>3. Bridge_kind' # "repl"
      BY <1>2, <2>1
    <3> QED BY Zenon, <1>2, <3>1, <3>2, <3>3 DEF Bridge!Markers
  <2>2. CASE Bridge_kind = "repl"
    <3> DEFINE n == Len(Bridge_trace)
    <3>1. Bridge_trace' = Append(Bridge_trace, Bridge!Start)
      BY Zenon, <1>2, <2>2
    <3>2. /\ Len(Bridge_trace') = n + 1 /\ n \in Nat /\ Bridge_trace'[n + 1] = Bridge!Start /\ \A i \in 1 .. n : Bridge_trace'[i] = Bridge_trace[i]
      BY Zenon, <1>3, <3>1, BridgeMarkerKeeps DEF Bridge!Traced
    <3>3. /\ Bridge_trace # <<>> => Bridge_trace[1].k = "start" /\ Bridge_trace[n].k = "end"
          /\ \A i \in 1 .. n : i > 1 /\ Bridge_trace[i].k = "start" => Bridge_trace[i - 1].k = "end"
      <4>1. DOMAIN Bridge_trace = 1 .. n
        BY <1>3
      <4>2. ~Bridge_inLine
        BY Zenon, <1>2
      <4> QED BY Zenon, <1>1, <1>2, <2>2, <4>1, <4>2 DEF Bridge!Markers
    <3>4. n > 0 => Bridge_trace # <<>>
      BY <1>3
    <3> HIDE DEF n
    <3>5. Bridge_trace'[1].k = "start"
      <4>1. CASE n = 0
        <5>1. Bridge_trace'[1] = Bridge!Start
          BY <3>2, <4>1
        <5> QED BY <5>1 DEF Bridge!Start
      <4>2. CASE n > 0
        <5>1. 1 \in 1 .. n
          BY <3>2, <4>2
        <5> QED BY Zenon, <3>2, <3>3, <3>4, <4>2, <5>1
      <4> QED BY <3>2, <4>1, <4>2
    <3>6. ASSUME NEW i \in 1 .. n + 1, i > 1, Bridge_trace'[i].k = "start" PROVE Bridge_trace'[i - 1].k = "end"
      <4>1. CASE i = n + 1
        <5>1. i - 1 = n /\ n \in 1 .. n /\ n > 0
          BY <3>2, <3>6, <4>1
        <5> QED BY Zenon, <3>2, <3>3, <3>4, <5>1
      <4>2. CASE i # n + 1
        <5>1. i \in 1 .. n /\ i - 1 \in 1 .. n
          BY <3>2, <3>6, <4>2
        <5> QED BY Zenon, <3>2, <3>3, <3>6, <5>1
      <4> QED BY <4>1, <4>2
    <3>7. DOMAIN Bridge_trace' = 1 .. n + 1
      BY <1>5, <3>2
    <3>8. Bridge_trace' # <<>> /\ Bridge_kind' # "server" /\ ~(~Bridge_inLine')
      <4>1. Len(Bridge_trace') # 0 /\ Bridge_kind' # "server"
        BY <1>2, <2>2, <3>2
      <4>2. Bridge_trace' # <<>>
        BY <4>1
      <4> QED BY Zenon, <1>2, <4>1, <4>2
    <3> QED BY Zenon, <3>5, <3>6, <3>7, <3>8 DEF Bridge!Markers
  <2> QED BY Zenon, <1>3, <2>1, <2>2
<1>10. Bridge_lines' \in 0 .. BridgeMaxLines
  <2>1. Bridge_lines \in 0 .. BridgeMaxLines /\ BridgeMaxLines \in Nat
    BY Zenon, <1>1, BridgeAssumption DEF Bridge!TypeOK
  <2> QED BY <1>2, <2>1
<1>11. /\ Bridge_inLine' \in BOOLEAN /\ Bridge_recalls' \in BridgeRecalls /\ Bridge_batch' \in Seq(Bridge!Event) /\ Bridge_toolSeq' \in Nat
  <2>1. 0 \in Nat /\ Bridge_recalls \in BridgeRecalls /\ Bridge_batch \in Seq(Bridge!Event)
    BY <1>1 DEF Bridge!TypeOK, BridgeRecalls
  <2> QED BY Zenon, <1>2, <2>1
<1>12. UNCHANGED <<Bridge_kind, Bridge_place, Bridge_segment, Bridge!files, Bridge_deaths, Bridge_forgot>>
  BY Zenon, <1>2
<1> QED BY Zenon, <1>2, <1>5, <1>6, <1>7, <1>8, <1>9, <1>10, <1>11, <1>12, BridgeSessionStep

LEMMA BridgeEndLineKeeps ==
  ASSUME Bridge!IInv, Bridge!EndLine
  PROVE  Bridge!IInv'
<1>1. Bridge!TypeOK /\ Bridge!Traced /\ Bridge!Waiting /\ Bridge!Markers
  BY Zenon DEF Bridge!IInv
<1>2. /\ Bridge_kind' = Bridge_kind /\ Bridge_lines' = Bridge_lines /\ Bridge_inLine' = FALSE /\ Bridge_recalls' = Bridge_recalls /\ Bridge_batch' = <<>> /\ Bridge_toolSeq' = Bridge_toolSeq
      /\ Bridge_trace' = (IF Bridge_kind = "repl" THEN Append(Bridge_trace, Bridge!End) ELSE Bridge_trace) /\ Bridge_inLine
      /\ Bridge_place' = Bridge_place /\ Bridge_segment' = Bridge_segment /\ UNCHANGED Bridge!files /\ Bridge_deaths' = Bridge_deaths /\ Bridge_forgot' = Bridge_forgot
  BY Zenon DEF Bridge!EndLine
<1>3. Bridge_kind \in {"repl", "server"} /\ Bridge_trace \in Seq(Bridge!Event) /\ Bridge!Traced
  BY Zenon, <1>1 DEF Bridge!TypeOK
<1>4. Bridge_place = "session"
  BY Zenon, <1>2, BridgeSessionIs
<1>5. /\ Bridge_trace' \in Seq(Bridge!Event) /\ Bridge!InOrder(Bridge_trace') /\ Bridge!Numbered(Bridge_trace', 1, Len(Bridge_trace')) = Bridge!Numbered(Bridge_trace, 1, Len(Bridge_trace))
  <2>1. CASE Bridge_kind = "repl"
    <3>1. Bridge_trace' = Append(Bridge_trace, Bridge!End)
      BY Zenon, <1>2, <2>1
    <3>2. LET v == Append(Bridge_trace, Bridge!End)
          IN v \in Seq(Bridge!Event) /\ Bridge!InOrder(v) /\ Bridge!Numbered(v, 1, Len(v)) = Bridge!Numbered(Bridge_trace, 1, Len(Bridge_trace))
      BY Zenon, <1>3, BridgeMarkerKeeps DEF Bridge!Traced
    <3> QED BY Zenon, <3>1, <3>2
  <2>2. CASE Bridge_kind # "repl"
    BY Zenon, <1>2, <1>3, <2>2 DEF Bridge!Traced
  <2> QED BY Zenon, <2>1, <2>2
<1>6. Bridge!Work' <= BridgeMaxWork
  <2>1. Bridge!Work' = Bridge!Work
    BY Zenon, <1>2, <1>5 DEF Bridge!Work
  <2> QED BY Zenon, <1>1, <2>1 DEF Bridge!TypeOK
<1>7. Bridge!Traced'
  BY Zenon, <1>5 DEF Bridge!Traced
<1>8. Bridge!Waiting'
  BY Zenon, <1>2, <1>5, <1>7, BridgeNothingWaits
<1>9. Bridge!Markers'
  <2>1. CASE Bridge_kind = "server"
    <3>1. Bridge_trace' = Bridge_trace
      BY <1>2, <2>1
    <3>2. \A i \in DOMAIN Bridge_trace : Bridge_trace[i].k \notin {"start", "end"}
      BY Zenon, <1>1, <2>1 DEF Bridge!Markers
    <3>3. Bridge_kind' # "repl"
      BY <1>2, <2>1
    <3> QED BY Zenon, <1>2, <3>1, <3>2, <3>3 DEF Bridge!Markers
  <2>2. CASE Bridge_kind = "repl"
    <3> DEFINE n == Len(Bridge_trace)
    <3>1. Bridge_trace' = Append(Bridge_trace, Bridge!End)
      BY Zenon, <1>2, <2>2
    <3>2. /\ Len(Bridge_trace') = n + 1 /\ n \in Nat /\ Bridge_trace'[n + 1] = Bridge!End /\ \A i \in 1 .. n : Bridge_trace'[i] = Bridge_trace[i]
      BY Zenon, <1>3, <3>1, BridgeMarkerKeeps DEF Bridge!Traced
    <3>3. /\ Bridge_trace # <<>> /\ Bridge_trace[1].k = "start"
          /\ \A i \in 1 .. n : i > 1 /\ Bridge_trace[i].k = "start" => Bridge_trace[i - 1].k = "end"
      <4>1. DOMAIN Bridge_trace = 1 .. n
        BY <1>3
      <4> QED BY Zenon, <1>1, <1>2, <2>2, <4>1 DEF Bridge!Markers
    <3>4. n > 0
      BY <1>3, <3>3
    <3> HIDE DEF n
    <3>5. Bridge_trace'[1].k = "start"
      <4>1. 1 \in 1 .. n
        BY <3>2, <3>4
      <4> QED BY Zenon, <3>2, <3>3, <4>1
    <3>9. Bridge!End.k = "end"
      BY DEF Bridge!End
    <3>6. ASSUME NEW i \in 1 .. n + 1, i > 1, Bridge_trace'[i].k = "start" PROVE Bridge_trace'[i - 1].k = "end"
      <4>1. i # n + 1
        BY <3>2, <3>6, <3>9
      <4>2. i \in 1 .. n /\ i - 1 \in 1 .. n
        BY <3>2, <3>6, <4>1
      <4> QED BY Zenon, <3>2, <3>3, <3>6, <4>2
    <3>7. DOMAIN Bridge_trace' = 1 .. n + 1
      BY <1>5, <3>2
    <3>8. Bridge_kind' # "server" /\ ~Bridge_inLine' /\ Bridge_trace'[Len(Bridge_trace')].k = "end"
      <4>1. Bridge_kind' # "server"
        BY <1>2, <2>2
      <4> QED BY Zenon, <1>2, <3>2, <3>9, <4>1
    <3> QED BY Zenon, <3>5, <3>6, <3>7, <3>8 DEF Bridge!Markers
  <2> QED BY Zenon, <1>3, <2>1, <2>2
<1>10. /\ Bridge_inLine' \in BOOLEAN /\ Bridge_recalls' \in BridgeRecalls /\ Bridge_batch' \in Seq(Bridge!Event) /\ Bridge_toolSeq' \in Nat /\ Bridge_lines' \in 0 .. BridgeMaxLines
  <2>1. <<>> \in Seq(Bridge!Event)
    OBVIOUS
  <2> QED BY Zenon, <1>1, <1>2, <2>1 DEF Bridge!TypeOK, BridgeRecalls
<1>11. UNCHANGED <<Bridge_kind, Bridge_place, Bridge_segment, Bridge!files, Bridge_deaths, Bridge_forgot>>
  BY Zenon, <1>2
<1> QED BY Zenon, <1>4, <1>5, <1>6, <1>7, <1>8, <1>9, <1>10, <1>11, BridgeSessionStep

LEMMA BridgeResultIs ==
  ASSUME NEW t \in Bridge!Tool, NEW s \in Nat, NEW b \in BOOLEAN, NEW o \in Nat
  PROVE  [k |-> "result", tool |-> t, seq |-> s, err |-> b, of |-> o] \in Bridge!Event
<1>1. [k |-> "result", tool |-> t, seq |-> s, err |-> b, of |-> o] \in
        [k : {"result"}, tool : Bridge!Tool, seq : Nat, err : BOOLEAN, of : Nat]
  <2>1. "result" \in {"result"}
    OBVIOUS
  <2> QED BY Zenon, <2>1
<1> QED BY Zenon, <1>1 DEF Bridge!Event

LEMMA BridgeCallIs ==
  ASSUME NEW t \in Bridge!Tool, NEW f \in Bridge!File, NEW s \in Nat
  PROVE  [k |-> "call", tool |-> t, file |-> f, seq |-> s] \in Bridge!Event
<1>1. [k |-> "call", tool |-> t, file |-> f, seq |-> s] \in [k : {"call"}, tool : Bridge!Tool, file : Bridge!File, seq : Nat]
  <2>1. "call" \in {"call"}
    OBVIOUS
  <2> QED BY Zenon, <2>1
<1> QED BY Zenon, <1>1 DEF Bridge!Event

LEMMA BridgeAnswerKeeps ==
  ASSUME Bridge!IInv, Bridge!Answer
  PROVE  Bridge!IInv'
<1>1. Bridge!TypeOK /\ Bridge!Traced /\ Bridge!Waiting /\ Bridge!Markers
  BY Zenon DEF Bridge!IInv
<1>2. /\ Bridge_kind' = Bridge_kind /\ Bridge_lines' = Bridge_lines /\ Bridge_inLine' = Bridge_inLine /\ Bridge_recalls' = Bridge_recalls /\ Bridge_batch' = <<>> /\ Bridge_toolSeq' = Bridge_toolSeq
      /\ Bridge_place' = Bridge_place /\ Bridge_segment' = Bridge_segment /\ UNCHANGED Bridge!files /\ Bridge_deaths' = Bridge_deaths /\ Bridge_forgot' = Bridge_forgot /\ Bridge_inLine
  BY Zenon DEF Bridge!Answer
<1> DEFINE n == Len(Bridge_trace)
           m == Len(Bridge_batch)
<1>3. /\ Bridge_trace \in Seq(Bridge!Event) /\ Bridge_batch \in Seq(Bridge!Event) /\ Bridge_toolSeq \in Nat /\ n \in Nat /\ m \in Nat
      /\ DOMAIN Bridge_batch = 1 .. m /\ DOMAIN Bridge_trace = 1 .. n /\ \A i \in 1 .. m : Bridge_batch[i] \in Bridge!Event
  BY <1>1 DEF Bridge!TypeOK
<1>4. Bridge_place = "session"
  BY Zenon, <1>2, BridgeSessionIs
<1>5. /\ m <= n /\ \A i \in 1 .. m : Bridge_batch[i].k = "call" /\ Bridge_trace[n - m + i] = Bridge_batch[i]
      /\ \A i \in 1 .. n : Bridge_trace[i].k = "result" => Bridge_trace[i].of <= n - m
      /\ Bridge!Counted(Bridge_trace, Bridge_toolSeq)
  BY Zenon, <1>1, <1>2, <1>3 DEF Bridge!Waiting
<1>6. PICK bad \in [1 .. m -> BOOLEAN] :
        Bridge_trace' = Bridge_trace \o [i \in 1 .. m |-> [k |-> "result", tool |-> Bridge_batch[i].tool, seq |-> Bridge_batch[i].seq,
                                             err |-> bad[i], of |-> n - m + i]]
  BY Zenon, <1>3 DEF Bridge!Answer
<1> DEFINE u == [i \in 1 .. m |-> [k |-> "result", tool |-> Bridge_batch[i].tool, seq |-> Bridge_batch[i].seq,
                                   err |-> bad[i], of |-> n - m + i]]
<1> HIDE DEF n, m
<1>7. ASSUME NEW i \in 1 .. m PROVE u[i] \in Bridge!Event /\ u[i].k = "result" /\ u[i].of = n - m + i /\ u[i].tool = Bridge_batch[i].tool /\ u[i].seq = Bridge_batch[i].seq
  <2>1. n - m + i \in Nat
    BY <1>3, <1>5
  <2>2. Bridge_batch[i].tool \in Bridge!Tool /\ Bridge_batch[i].seq \in Nat
    BY Zenon, <1>3, <1>5, BridgeEventIs
  <2>3. bad[i] \in BOOLEAN
    BY Zenon
  <2>4. u[i] = [k |-> "result", tool |-> Bridge_batch[i].tool, seq |-> Bridge_batch[i].seq, err |-> bad[i], of |-> n - m + i]
    BY Zenon
  <2>5. u[i] \in Bridge!Event
    BY Zenon, <2>1, <2>2, <2>3, <2>4, BridgeResultIs
  <2> HIDE DEF u
  <2>6. u[i].k = "result" /\ u[i].of = n - m + i /\ u[i].tool = Bridge_batch[i].tool /\ u[i].seq = Bridge_batch[i].seq
    BY <2>4
  <2> QED BY Zenon, <2>5, <2>6
<1>8. u \in Seq(Bridge!Event) /\ Len(u) = m
  <2>1. u = [i \in 1 .. m |-> u[i]]
    BY Zenon
  <2>2. \A i \in 1 .. m : u[i] \in Bridge!Event
    BY Zenon, <1>7
  <2> HIDE DEF u
  <2>3. u \in [1 .. m -> Bridge!Event]
    BY Zenon, <2>1, <2>2
  <2> QED BY <1>3, <2>3
<1>9. Bridge_trace' = Bridge_trace \o u
  BY Zenon, <1>6
<1> HIDE DEF u
<1>10. Bridge!InOrder(Bridge_trace')
  <2>1. ASSUME NEW j \in 1 .. m
        PROVE  LET c == (n - m) + j
               IN /\ Bridge_trace[c].k = "call" /\ u[j].k = "result" /\ u[j].of = c
                  /\ u[j].tool = Bridge_trace[c].tool /\ u[j].seq = Bridge_trace[c].seq
    BY Zenon, <1>5, <1>7, <2>1
  <2>2. Len(u) <= Len(Bridge_trace) /\ \A i \in 1 .. Len(Bridge_trace) : Bridge_trace[i].k = "result" => Bridge_trace[i].of <= Len(Bridge_trace) - Len(u)
    BY Zenon, <1>5, <1>8 DEF n
  <2>3. \A j \in 1 .. Len(u) : LET c == (Len(Bridge_trace) - Len(u)) + j
                               IN /\ Bridge_trace[c].k = "call" /\ u[j].k = "result" /\ u[j].of = c
                                  /\ u[j].tool = Bridge_trace[c].tool /\ u[j].seq = Bridge_trace[c].seq
    BY Zenon, <1>8, <2>1 DEF n
  <2>4. Bridge!InOrder(Bridge_trace)
    BY Zenon, <1>1 DEF Bridge!Traced
  <2> QED BY Zenon, <1>3, <1>8, <1>9, <2>2, <2>3, <2>4, BridgeOrderResults
<1>11. Bridge!Counted(Bridge_trace', Bridge_toolSeq')
  <2>1. \A j \in 1 .. Len(u) : u[j].k = "result"
    BY Zenon, <1>7, <1>8
  <2> QED BY Zenon, <1>2, <1>3, <1>5, <1>8, <1>9, <2>1, BridgeCountedResults
<1>12. BridgeGrown(Bridge_trace, Bridge_trace', n, m) /\ \A j \in 1 .. m : Bridge_trace'[n + j] = u[j]
  <2>1. BridgeGrown(Bridge_trace, Bridge_trace \o u, Len(Bridge_trace), Len(u)) /\ \A j \in 1 .. Len(u) : (Bridge_trace \o u)[Len(Bridge_trace) + j] = u[j]
    BY Zenon, <1>3, <1>8, BridgeJoined
  <2> QED BY Zenon, <1>8, <1>9, <2>1 DEF n
<1>13. Bridge_trace' \in Seq(Bridge!Event) /\ Len(Bridge_trace') = n + m
  BY Zenon, <1>12 DEF BridgeGrown
<1>14. \A j \in 1 .. m : Bridge_trace'[n + j].k \notin {"call", "search"} /\ Bridge_trace'[n + j].k \notin {"start", "end"}
  <2>1. \A x : x = "result" => x \notin {"call", "search"} /\ x \notin {"start", "end"}
    OBVIOUS
  <2> QED BY Zenon, <1>7, <1>12, <2>1
<1>15. Bridge!Work' <= BridgeMaxWork
  <2>1. BridgeSameUpTo(Bridge_trace, Bridge_trace', 1, n, m)
    <3>1. 1 \in Nat /\ 1 >= 1 /\ 1 <= n + 1
      BY <1>3
    <3>2. BridgeNoneCounts(Bridge_trace', n, m)
      BY Zenon, <1>14 DEF BridgeNoneCounts
    <3> QED BY Zenon, <1>12, <3>1, <3>2, BridgeGrownNone
  <2>2. Bridge!Numbered(Bridge_trace', 1, Len(Bridge_trace')) = Bridge!Numbered(Bridge_trace, 1, Len(Bridge_trace))
    BY Zenon, <1>13, <2>1 DEF BridgeSameUpTo, n
  <2>3. Bridge!Work' = Bridge!Work
    BY Zenon, <1>2, <2>2 DEF Bridge!Work
  <2> QED BY Zenon, <1>1, <2>3 DEF Bridge!TypeOK
<1>16. Bridge!Traced'
  BY Zenon, <1>10 DEF Bridge!Traced
<1>17. Bridge!Waiting'
  BY Zenon, <1>2, <1>11, <1>13, <1>16, BridgeNothingWaits
<1>18. Bridge!Markers'
  <2>1. Bridge_inLine'
    BY Zenon, <1>2
  <2> QED BY Zenon, <1>1, <1>2, <1>12, <1>14, <2>1, BridgeNoMarkers
<1>19. /\ Bridge_inLine' \in BOOLEAN /\ Bridge_recalls' \in BridgeRecalls /\ Bridge_batch' \in Seq(Bridge!Event) /\ Bridge_toolSeq' \in Nat /\ Bridge_lines' \in 0 .. BridgeMaxLines
  <2>1. <<>> \in Seq(Bridge!Event)
    OBVIOUS
  <2> QED BY Zenon, <1>1, <1>2, <2>1 DEF Bridge!TypeOK, BridgeRecalls
<1>20. UNCHANGED <<Bridge_kind, Bridge_place, Bridge_segment, Bridge!files, Bridge_deaths, Bridge_forgot>>
  BY Zenon, <1>2
<1> QED BY Zenon, <1>4, <1>13, <1>15, <1>16, <1>17, <1>18, <1>19, <1>20, BridgeSessionStep

LEMMA BridgeRespondKeeps ==
  ASSUME Bridge!IInv, Bridge!Respond
  PROVE  Bridge!IInv'
<1>1. Bridge!TypeOK /\ Bridge!Traced /\ Bridge!Waiting /\ Bridge!Markers
  BY Zenon DEF Bridge!IInv
<1>2. /\ Bridge_kind' = Bridge_kind /\ Bridge_lines' = Bridge_lines /\ Bridge_inLine' = Bridge_inLine /\ Bridge_recalls' = Bridge_recalls /\ Bridge_inLine /\ Bridge_batch = <<>>
      /\ Bridge_place' = Bridge_place /\ Bridge_segment' = Bridge_segment /\ UNCHANGED Bridge!files /\ Bridge_deaths' = Bridge_deaths /\ Bridge_forgot' = Bridge_forgot
  BY Zenon DEF Bridge!Respond
<1>3. Bridge_place = "session"
  BY Zenon, <1>2, BridgeSessionIs
<1>4. PICK num \in 1 .. 2, search \in BOOLEAN :
        /\ Bridge!Work + num + (IF search THEN 1 ELSE 0) <= BridgeMaxWork
        /\ \E c \in [1 .. num -> BridgeRequest] :
             \E o \in IF search THEN {0, 1} ELSE {0} :
               LET made == [i \in 1 .. num |-> [k |-> "call", tool |-> c[i][1], file |-> c[i][2],
                                                seq |-> Bridge_toolSeq + o + i - 1]]
               IN /\ Bridge_batch' = made
                  /\ Bridge_trace' = Bridge_trace \o (IF search THEN <<Bridge!Search>> ELSE <<>>) \o made
        /\ Bridge_toolSeq' = Bridge_toolSeq + num + (IF search THEN 1 ELSE 0)
  BY Zenon DEF Bridge!Respond
<1> DEFINE d == IF search THEN 1 ELSE 0
           S == IF search THEN <<Bridge!Search>> ELSE <<>>
<1>5. PICK c \in [1 .. num -> BridgeRequest], o \in (IF search THEN {0, 1} ELSE {0}) :
        LET made == [i \in 1 .. num |-> [k |-> "call", tool |-> c[i][1], file |-> c[i][2], seq |-> Bridge_toolSeq + o + i - 1]]
        IN Bridge_batch' = made /\ Bridge_trace' = Bridge_trace \o S \o made
  BY Zenon, <1>4
<1> DEFINE u == [i \in 1 .. num |-> [k |-> "call", tool |-> c[i][1], file |-> c[i][2], seq |-> Bridge_toolSeq + o + i - 1]]
           t == Bridge_trace \o S
<1>6. Bridge_batch' = u /\ Bridge_trace' = t \o u /\ Bridge!Work + num + d <= BridgeMaxWork /\ Bridge_toolSeq' = Bridge_toolSeq + num + d
  BY Zenon, <1>4, <1>5
<1>7. /\ Bridge_trace \in Seq(Bridge!Event) /\ Bridge_toolSeq \in Nat /\ Bridge!Counted(Bridge_trace, Bridge_toolSeq) /\ Bridge!InOrder(Bridge_trace)
  BY Zenon, <1>1, <1>2 DEF Bridge!TypeOK, Bridge!Waiting, Bridge!Traced
<1>8. d \in Nat /\ o \in Nat /\ o <= d /\ num \in Nat /\ num >= 1
  OBVIOUS
<1>9. S \in Seq(Bridge!Event) /\ Len(S) = d /\ \A j \in 1 .. Len(S) : S[j] = Bridge!Search
  <2>1. Bridge!Search \in Bridge!Event
    BY DEF Bridge!Search, Bridge!Event
  <2>2. CASE search
    BY <2>1, <2>2
  <2>3. CASE ~search
    BY <2>3
  <2> QED BY <2>2, <2>3
<1>10. Bridge!Search.k = "search"
  BY DEF Bridge!Search
<1> HIDE DEF d, S
<1>11. ASSUME NEW i \in 1 .. num
       PROVE  u[i] \in Bridge!Event /\ u[i].k = "call" /\ u[i].seq = Bridge_toolSeq + o + i - 1
  <2>1. c[i] \in BridgeRequest
    BY Zenon
  <2>2. c[i][1] \in Bridge!Tool /\ c[i][2] \in Bridge!File
    BY Zenon, <2>1 DEF Bridge!Tool, Bridge!File
  <2>3. Bridge_toolSeq + o + i - 1 \in Nat
    BY <1>7, <1>8
  <2>4. u[i] = [k |-> "call", tool |-> c[i][1], file |-> c[i][2], seq |-> Bridge_toolSeq + o + i - 1]
    BY Zenon
  <2>5. u[i] \in Bridge!Event
    BY Zenon, <2>2, <2>3, <2>4, BridgeCallIs
  <2> HIDE DEF u
  <2>6. u[i].k = "call" /\ u[i].seq = Bridge_toolSeq + o + i - 1
    BY <2>4
  <2> QED BY Zenon, <2>5, <2>6
<1>12. u \in Seq(Bridge!Event) /\ Len(u) = num
  <2>1. u = [i \in 1 .. num |-> u[i]]
    BY Zenon
  <2>2. \A i \in 1 .. num : u[i] \in Bridge!Event
    BY Zenon, <1>11
  <2> HIDE DEF u
  <2>3. u \in [1 .. num -> Bridge!Event]
    BY Zenon, <2>1, <2>2
  <2> QED BY <1>8, <2>3
<1> HIDE DEF u
<1>13. BridgeGrown(Bridge_trace, t, Len(Bridge_trace), d) /\ \A j \in 1 .. d : t[Len(Bridge_trace) + j] = S[j]
  BY Zenon, <1>7, <1>9, BridgeJoined
<1> DEFINE n == Len(Bridge_trace)
<1>14. t \in Seq(Bridge!Event) /\ Len(t) = n + d /\ n \in Nat /\ \A i \in 1 .. n : t[i] = Bridge_trace[i]
  BY Zenon, <1>13 DEF BridgeGrown
<1>15. Bridge!InOrder(t) /\ Bridge!Counted(t, Bridge_toolSeq + d)
  <2>1. \A j \in 1 .. Len(S) : S[j].k \in {"call", "search"} /\ S[j].k # "call"
    BY <1>9, <1>10
  <2>2. \A j \in 1 .. Len(S) : S[j].k \in {"call", "search"}
    BY Zenon, <2>1
  <2>3. \A j \in 1 .. Len(S) : S[j].k = "call" => S[j].seq <= Bridge_toolSeq + (j - 1)
    BY Zenon, <2>1
  <2>4. Bridge!InOrder(Bridge_trace \o S) /\ Bridge!Counted(Bridge_trace \o S, Bridge_toolSeq + Len(S))
    BY Zenon, <1>7, <1>9, <2>2, <2>3, BridgeOrderCalls
  <2> QED BY Zenon, <1>9, <2>4
<1> HIDE DEF t, n
<1>16. Bridge!InOrder(Bridge_trace') /\ Bridge!Counted(Bridge_trace', Bridge_toolSeq')
  <2> DEFINE s == Bridge_toolSeq + d
  <2>1. s \in Nat /\ s + num = Bridge_toolSeq'
    BY <1>6, <1>7, <1>8
  <2>2. ASSUME NEW j \in 1 .. num PROVE u[j].k \in {"call", "search"} /\ u[j].seq <= s + (j - 1)
    <3>1. Bridge_toolSeq + o + j - 1 <= s + (j - 1)
      BY <1>7, <1>8
    <3>2. u[j].k \in {"call", "search"}
      BY <1>11
    <3> QED BY Zenon, <1>11, <3>1, <3>2
  <2>3. Bridge!Counted(t, s)
    BY Zenon, <1>15
  <2> HIDE DEF s
  <2>4. Bridge!InOrder(t \o u) /\ Bridge!Counted(t \o u, s + Len(u))
    <3>1. /\ \A j \in 1 .. Len(u) : u[j].k \in {"call", "search"}
          /\ \A j \in 1 .. Len(u) : u[j].k = "call" => u[j].seq <= s + (j - 1)
      BY Zenon, <1>12, <2>2
    <3> QED BY Zenon, <1>12, <1>14, <1>15, <2>1, <2>3, <3>1, BridgeOrderCalls
  <2> QED BY Zenon, <1>6, <1>12, <2>1, <2>4
<1>17. BridgeGrown(t, Bridge_trace', n + d, num) /\ \A j \in 1 .. num : Bridge_trace'[(n + d) + j] = u[j]
  <2>1. BridgeGrown(t, t \o u, Len(t), Len(u)) /\ \A j \in 1 .. Len(u) : (t \o u)[Len(t) + j] = u[j]
    BY Zenon, <1>12, <1>14, BridgeJoined
  <2> QED BY Zenon, <1>6, <1>12, <1>14, <2>1
<1>18. Bridge_trace' \in Seq(Bridge!Event) /\ Len(Bridge_trace') = (n + d) + num /\ \A i \in 1 .. n + d : Bridge_trace'[i] = t[i]
  BY Zenon, <1>17 DEF BridgeGrown
<1> DEFINE m == d + num
<1>19. m \in Nat /\ Len(Bridge_trace') = n + m /\ Len(Bridge_trace) = n /\ n \in Nat
  BY <1>8, <1>14, <1>18 DEF n
<1>20. BridgeGrown(Bridge_trace, Bridge_trace', n, m)
  <2>1. \A i \in 1 .. n : i \in 1 .. n + d
    BY <1>8, <1>14
  <2>2. \A i \in 1 .. n : Bridge_trace'[i] = Bridge_trace[i]
    BY Zenon, <1>14, <1>18, <2>1
  <2> HIDE DEF m
  <2> QED BY Zenon, <1>7, <1>18, <1>19, <2>2 DEF BridgeGrown
<1>21. ASSUME NEW j \in 1 .. m PROVE Bridge_trace'[n + j].k \in {"call", "search"} /\ Bridge_trace'[n + j].k \notin {"start", "end"}
  <2>1. CASE j \in 1 .. d
    <3>1. n + j \in 1 .. n + d
      BY <1>8, <1>14, <2>1
    <3>2. t[n + j] = S[j] /\ S[j] = Bridge!Search
      BY Zenon, <1>9, <1>13, <2>1 DEF n
    <3>3. Bridge_trace'[n + j] = Bridge!Search
      BY Zenon, <1>18, <3>1, <3>2
    <3> QED BY <1>10, <3>3
  <2>2. CASE j \notin 1 .. d
    <3> DEFINE i == j - d
    <3>1. i \in 1 .. num /\ (n + d) + i = n + j
      BY <1>8, <1>14, <2>2
    <3> HIDE DEF i
    <3>2. Bridge_trace'[n + j] = u[i] /\ u[i].k = "call"
      BY Zenon, <1>11, <1>17, <3>1
    <3> QED BY <3>2
  <2> QED BY <2>1, <2>2
<1> HIDE DEF m
<1>22. Bridge!Work' <= BridgeMaxWork
  <2> DEFINE x == Bridge!Cardinality(Bridge!Numbered(Bridge_trace, 1, n))
  <2>1. x \in Nat
    <3>1. 1 \in Nat
      OBVIOUS
    <3> QED BY Zenon, <1>14, <3>1, BridgeNumberedIs
  <2>2. BridgeCounts(Bridge_trace, Bridge_trace', n, m, 1, x)
    <3>1. 1 \in Nat /\ 1 >= 1 /\ 1 <= n + 1
      BY <1>14
    <3>2. BridgeAllCount(Bridge_trace', n, m)
      BY Zenon, <1>21 DEF BridgeAllCount
    <3> QED BY Zenon, <1>20, <3>1, <3>2, BridgeGrownAll
  <2>3. m \in 0 .. m
    BY <1>19
  <2>4. Bridge!Cardinality(Bridge!Numbered(Bridge_trace', 1, n + m)) = x + m
    BY Zenon, <2>2, <2>3 DEF BridgeCounts
  <2>5. Bridge!Work = x + Len(Bridge_recalls)
    BY Zenon, <1>19 DEF Bridge!Work
  <2>6. Bridge!Work' = (x + m) + Len(Bridge_recalls)
    BY Zenon, <1>2, <1>19, <2>4 DEF Bridge!Work
  <2>7. Len(Bridge_recalls) \in Nat
    BY <1>1 DEF Bridge!TypeOK
  <2> HIDE DEF x
  <2>8. m = d + num
    BY DEF m
  <2> QED BY <1>6, <1>8, <2>1, <2>5, <2>6, <2>7, <2>8, BridgeAssumption
<1>23. Bridge!Traced'
  BY Zenon, <1>16 DEF Bridge!Traced
<1>24. Bridge!Waiting'
  <2>1. Bridge_inLine' /\ Bridge_batch' = u /\ Len(Bridge_batch') = num
    BY Zenon, <1>2, <1>6, <1>12
  <2>2. Len(Bridge_batch') <= Len(Bridge_trace') /\ Len(Bridge_trace') - Len(Bridge_batch') = n + d /\ DOMAIN Bridge_trace' = 1 .. n + m /\ DOMAIN Bridge_batch' = 1 .. num
    <3>1. Bridge_batch' \in Seq(Bridge!Event) /\ Bridge_trace' \in Seq(Bridge!Event)
      BY Zenon, <1>12, <1>18, <2>1
    <3>2. DOMAIN Bridge_batch' = 1 .. Len(Bridge_batch') /\ DOMAIN Bridge_trace' = 1 .. Len(Bridge_trace')
      BY <3>1
    <3>3. DOMAIN Bridge_trace' = 1 .. n + m /\ DOMAIN Bridge_batch' = 1 .. num
      BY Zenon, <1>19, <2>1, <3>2
    <3>4. num <= (n + d) + num /\ ((n + d) + num) - num = n + d
      BY <1>8, <1>14
    <3> QED BY Zenon, <1>18, <2>1, <3>3, <3>4
  <2>3. \A i \in 1 .. num : Bridge_batch'[i].k = "call" /\ Bridge_trace'[(n + d) + i] = Bridge_batch'[i]
    BY Zenon, <1>11, <1>17, <2>1
  <2>4. ASSUME NEW i \in 1 .. n + m, Bridge_trace'[i].k = "result" PROVE Bridge_trace'[i].of <= n + d
    <3>1. Bridge_trace'[i].of \in 1 .. i - 1
      BY Zenon, <1>23, <2>2, <2>4 DEF Bridge!Traced, Bridge!InOrder
    <3>2. \A x : x \in {"call", "search"} => x # "result"
      OBVIOUS
    <3>3. i \in 1 .. n \/ (i - n \in 1 .. m /\ n + (i - n) = i)
      BY <1>14, <1>19
    <3>4. i \in 1 .. n
      BY Zenon, <1>21, <2>4, <3>2, <3>3
    <3> QED BY <1>8, <1>14, <3>1, <3>4
  <2> QED BY Zenon, <1>16, <2>1, <2>2, <2>3, <2>4 DEF Bridge!Waiting
<1>25. Bridge!Markers'
  <2>1. Bridge_inLine'
    BY Zenon, <1>2
  <2> QED BY Zenon, <1>1, <1>2, <1>20, <1>21, <2>1, BridgeNoMarkers
<1>26. /\ Bridge_inLine' \in BOOLEAN /\ Bridge_recalls' \in BridgeRecalls /\ Bridge_lines' \in 0 .. BridgeMaxLines
  BY Zenon, <1>1, <1>2 DEF Bridge!TypeOK, BridgeRecalls
<1>27. Bridge_batch' \in Seq(Bridge!Event) /\ Bridge_toolSeq' \in Nat
  BY <1>6, <1>7, <1>8, <1>12
<1>28. UNCHANGED <<Bridge_kind, Bridge_place, Bridge_segment, Bridge!files, Bridge_deaths, Bridge_forgot>>
  BY Zenon, <1>2
<1> QED BY Zenon, <1>3, <1>18, <1>22, <1>23, <1>24, <1>25, <1>26, <1>27, <1>28, BridgeSessionStep

LEMMA BridgeNextIInv == Bridge!IInv /\ [Bridge!Next]_Bridge!vars => Bridge!IInv'
<1> SUFFICES ASSUME Bridge!IInv, [Bridge!Next]_Bridge!vars PROVE Bridge!IInv'
  OBVIOUS
<1>1. \/ Bridge!BeginLine \/ Bridge!Respond \/ Bridge!Answer \/ Bridge!Recall \/ Bridge!EndLine \/ Bridge!Interrupt
      \/ Bridge!RunBridge \/ Bridge!Rerun \/ Bridge!AppendRow \/ Bridge!RowsWritten \/ Bridge!Rollup \/ Bridge!Artifacts \/ Bridge!Commit \/ Bridge!Die \/ UNCHANGED Bridge!vars
  BY Zenon DEF Bridge!Next
<1> QED BY Zenon, <1>1, BridgeBeginLineKeeps, BridgeRespondKeeps, BridgeAnswerKeeps, BridgeRecallKeeps,
     BridgeEndLineKeeps, BridgeInterruptKeeps,
        BridgeRunBridgeKeeps, BridgeRerunKeeps, BridgeAppendRowKeeps, BridgeRowsWrittenKeeps, BridgeRollupKeeps,
        BridgeArtifactsKeeps, BridgeCommitKeeps,
        BridgeDieKeeps, BridgeBridgeStutter

LEMMA BridgeHolds == Bridge!IInv => Bridge!TypeOK /\ Bridge!BridgeStands
<1> SUFFICES ASSUME Bridge!IInv PROVE Bridge!TypeOK /\ Bridge!BridgeStands
  OBVIOUS
<1>1. Bridge!TypeOK /\ Bridge!Traced /\ Bridge!Markers /\ Bridge!RerunSafe
  BY Zenon DEF Bridge!IInv
<1>2. Bridge_trace \in Seq(Bridge!Event) /\ Bridge_kind \in {"repl", "server"}
  BY Zenon, <1>1 DEF Bridge!TypeOK
<1>3. \A i \in 1 .. Bridge!Parts(Bridge_trace) : Bridge!PairedRight(i)
  BY Zenon, <1>1, <1>2, BridgePartPaired
<1>4. Bridge!PairingExact
  BY Zenon, <1>3 DEF Bridge!PairingExact
<1> QED BY Zenon, <1>1, <1>4 DEF Bridge!BridgeStands

(* trace_bridge.py: results are credited to the calls they answer, and a bridge killed      *)
(* anywhere and run again leaves the rows and the one rollup of a single run, for any        *)
(* requests, lines, recalls and kills, with markers or without.                              *)
THEOREM BridgesStand == Spec => []BridgeStands
<1> DEFINE Inv == part = "bridge" => Bridge!IInv
<1>1. Init => Inv
  BY BridgeInitIInv DEF Init
<1>2. Inv /\ [Next]_vars => Inv'
  <2>1. ASSUME part = "bridge", Bridge!IInv, [Next]_vars PROVE Bridge!IInv'
    BY <2>1, BridgeNextIInv DEF Next, vars, Bridge!vars
  <2>2. [Next]_vars => part' = part
    BY DEF Next, vars
  <2> QED BY <2>1, <2>2
<1>3. Inv => BridgeStands
  BY BridgeHolds DEF BridgeStands
<1> QED
  BY <1>1, <1>2, <1>3, PTL DEF Spec

HIDE DEF Bridge_kind, Bridge_lines, Bridge_inLine, Bridge_trace, Bridge_recalls, Bridge_batch,
  Bridge_toolSeq, Bridge_place, Bridge_segment, Bridge_rows, Bridge_rollups, Bridge_saved,
  Bridge_deaths, Bridge_forgot

====

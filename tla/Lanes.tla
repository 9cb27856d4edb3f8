-------------------------------- MODULE Lanes --------------------------------
(***************************************************************************)
(* Lane concurrency: LaneRegistry.submit (harness/lanes.py) as it is used  *)
(* by the session runners (main lane) and by the sub-agent tools (subagent *)
(* lane, harness/tools/subagent.py).                                       *)
(*                                                                         *)
(* A run is one call tree node: a session turn at depth 0, a child of      *)
(* spawn_subagent(s) at depth 1, a nested child at depth 2.  Every step of *)
(* submit is an action of its own because threads interleave between them: *)
(* the semaphore and the gauge are two objects with two locks.             *)
(***************************************************************************)
EXTENDS Naturals, FiniteSets

CONSTANTS
  Run,       \* the runs that may happen
  Parent,    \* Parent[r]: the run whose tool call dispatches r, or NoRun
  Depth,     \* Depth[r]: 0 for a session turn, Depth[Parent[r]] + 1 otherwise
  NoRun,     \* no parent
  CapMain,   \* LaneCaps.main
  CapSub,    \* LaneCaps.subagent
  MaxDepth   \* SpawnSubagent.max_depth

ASSUME LanesAssumption ==
  /\ IsFiniteSet(Run)
  /\ NoRun \notin Run
  /\ Parent \in [Run -> Run \union {NoRun}]
  /\ Depth \in [Run -> Nat]
  /\ \A r \in Run : Parent[r] = NoRun <=> Depth[r] = 0
  /\ \A r \in Run : Parent[r] # NoRun => Depth[r] = Depth[Parent[r]] + 1
  /\ CapMain \in Nat \ {0} /\ CapSub \in Nat \ {0} /\ MaxDepth \in Nat

VARIABLES
  pc,         \* where each run's thread is
  sem,        \* permits left in each lane's BoundedSemaphore
  in_flight,  \* the gauge behind slots_in_use()
  fail_fast,  \* the runs whose spawn_subagents call passed fail_fast = true
  cancel,     \* the runs whose batch has cancel_remaining set
  outcome     \* "none", or what results[idx] holds for the run

vars == <<pc, sem, in_flight, fail_fast, cancel, outcome>>

Lane == {"main", "subagent"}
Cap == [l \in Lane |-> IF l = "main" THEN CapMain ELSE CapSub]

PC == {"idle", "new", "waiting", "acquired", "running", "releasing",
       "returned", "ended"}
Outcome == {"none", "ok", "error", "cancelled"}

\* Children at depth 2 and below run on their parent's slot.
Bypasses(r) == Depth[r] > 1
LaneOf(r) == IF Depth[r] = 0 THEN "main" ELSE "subagent"
Children(r) == {c \in Run : Parent[c] = r}
Goto(r, to) == pc' = [pc EXCEPT ![r] = to]

\* Runs that own a permit of lane l, and runs the gauge of l counts.
Holders(l) == {r \in Run : /\ ~Bypasses(r)
                           /\ LaneOf(r) = l
                           /\ pc[r] \in {"acquired", "running", "releasing"}}
Counted(l) == {r \in Run : ~Bypasses(r) /\ LaneOf(r) = l /\ pc[r] = "running"}

Init ==
  /\ pc = [r \in Run |-> "idle"]
  /\ sem = Cap
  /\ in_flight = [l \in Lane |-> 0]
  /\ fail_fast = {}
  /\ cancel = {}
  /\ outcome = [r \in Run |-> "none"]

-----------------------------------------------------------------------------
\* A server or CLI turn calls _submit_main_lane.
StartTurn(r) ==
  /\ Depth[r] = 0
  /\ pc[r] = "idle"
  /\ Goto(r, "waiting")
  /\ UNCHANGED <<sem, in_flight, fail_fast, cancel, outcome>>

\* A running run calls spawn_subagents (or spawn_subagent, the one-child batch
\* without fail_fast): one pool thread per child, all started at once.  A call
\* at the depth limit raises before it starts any thread.
Dispatch(p, ff) ==
  /\ pc[p] = "running"
  /\ Depth[p] < MaxDepth
  /\ ff => Depth[p] = 0         \* nested children only get spawn_subagent
  /\ Children(p) # {}
  /\ \A c \in Children(p) : pc[c] = "idle"
  /\ pc' = [r \in Run |-> IF r \in Children(p) THEN "new" ELSE pc[r]]
  /\ fail_fast' = IF ff THEN fail_fast \union {p} ELSE fail_fast
  /\ UNCHANGED <<sem, in_flight, cancel, outcome>>

\* _run_one: the fail_fast check comes before submit, never after it.
SkipCancelled(r) ==
  /\ pc[r] = "new"
  /\ Parent[r] \in fail_fast /\ Parent[r] \in cancel
  /\ outcome' = [outcome EXCEPT ![r] = "cancelled"]
  /\ Goto(r, "ended")
  /\ UNCHANGED <<sem, in_flight, fail_fast, cancel>>

\* Faulty variant: a nested child queues for the slot its ancestor holds.
NestedNeedsSlot(r) ==
  /\ pc[r] = "new"
  /\ ~(Parent[r] \in fail_fast /\ Parent[r] \in cancel)
  /\ Goto(r, "waiting")
  /\ UNCHANGED <<sem, in_flight, fail_fast, cancel, outcome>>

LaunchChild(r) ==
  /\ pc[r] = "new"
  /\ ~(Parent[r] \in fail_fast /\ Parent[r] \in cancel)
  /\ Goto(r, IF Bypasses(r) THEN "running" ELSE "waiting")
  /\ UNCHANGED <<sem, in_flight, fail_fast, cancel, outcome>>

-----------------------------------------------------------------------------
\* Faulty variant: no wait for a permit.
AcquireUnbounded(r) ==
  /\ pc[r] = "waiting"
  /\ sem' = [sem EXCEPT ![LaneOf(r)] = @ - 1]
  /\ Goto(r, "acquired")
  /\ UNCHANGED <<in_flight, fail_fast, cancel, outcome>>

\* submit: sem.acquire() blocks until a permit is left.
Acquire(r) ==
  /\ pc[r] = "waiting"
  /\ sem[LaneOf(r)] > 0
  /\ sem' = [sem EXCEPT ![LaneOf(r)] = @ - 1]
  /\ Goto(r, "acquired")
  /\ UNCHANGED <<in_flight, fail_fast, cancel, outcome>>

\* submit: the gauge is raised under _gauge_lock, then run_fn starts.
CountIn(r) ==
  /\ pc[r] = "acquired"
  /\ in_flight' = [in_flight EXCEPT ![LaneOf(r)] = @ + 1]
  /\ Goto(r, "running")
  /\ UNCHANGED <<sem, fail_fast, cancel, outcome>>

Joined(r) == \A c \in Children(r) : pc[c] \in {"idle", "ended"}

\* Faulty variant: the batch returns without waiting for its futures.
FinishUnjoined(r, how) ==
  /\ pc[r] = "running"
  /\ outcome' = [outcome EXCEPT ![r] = how]
  /\ in_flight' = IF Bypasses(r) THEN in_flight
                  ELSE [in_flight EXCEPT ![LaneOf(r)] = @ - 1]
  /\ Goto(r, IF Bypasses(r) THEN "returned" ELSE "releasing")
  /\ UNCHANGED <<sem, fail_fast, cancel>>

\* Faulty variant: the gauge only goes down on success.
FinishLeaky(r, how) ==
  /\ pc[r] = "running"
  /\ Joined(r)
  /\ outcome' = [outcome EXCEPT ![r] = how]
  /\ in_flight' = IF Bypasses(r) \/ how = "error" THEN in_flight
                  ELSE [in_flight EXCEPT ![LaneOf(r)] = @ - 1]
  /\ Goto(r, IF Bypasses(r) THEN "returned" ELSE "releasing")
  /\ UNCHANGED <<sem, fail_fast, cancel>>

\* run_fn returns or raises once the threads of its own batch are joined; the
\* finally block lowers the gauge (a bypassing child has no slot to give back).
Finish(r, how) ==
  /\ pc[r] = "running"
  /\ Joined(r)
  /\ outcome' = [outcome EXCEPT ![r] = how]
  /\ in_flight' = IF Bypasses(r) THEN in_flight
                  ELSE [in_flight EXCEPT ![LaneOf(r)] = @ - 1]
  /\ Goto(r, IF Bypasses(r) THEN "returned" ELSE "releasing")
  /\ UNCHANGED <<sem, fail_fast, cancel>>

\* Faulty variant: an exception keeps the permit.
ReleaseOnSuccess(r) ==
  /\ pc[r] = "releasing"
  /\ sem' = [sem EXCEPT ![LaneOf(r)] = IF outcome[r] = "ok" THEN @ + 1 ELSE @]
  /\ Goto(r, "returned")
  /\ UNCHANGED <<in_flight, fail_fast, cancel, outcome>>

\* submit's finally: the permit goes back after the gauge.
Release(r) ==
  /\ pc[r] = "releasing"
  /\ sem' = [sem EXCEPT ![LaneOf(r)] = @ + 1]
  /\ Goto(r, "returned")
  /\ UNCHANGED <<in_flight, fail_fast, cancel, outcome>>

\* Faulty variant: every ending sets the flag.
CancelAlways(r) ==
  /\ pc[r] = "returned"
  /\ cancel' = IF Parent[r] # NoRun THEN cancel \union {Parent[r]} ELSE cancel
  /\ Goto(r, "ended")
  /\ UNCHANGED <<sem, in_flight, fail_fast, outcome>>

\* _run_one's except branch, after submit has already given the slot back.
Record(r) ==
  /\ pc[r] = "returned"
  /\ cancel' = IF outcome[r] = "error" /\ Parent[r] \in fail_fast
               THEN cancel \union {Parent[r]} ELSE cancel
  /\ Goto(r, "ended")
  /\ UNCHANGED <<sem, in_flight, fail_fast, outcome>>

-----------------------------------------------------------------------------
Finished(r) == Finish(r, "ok") \/ Finish(r, "error")

\* One step of a thread that already exists.
Progress(r) ==
  \/ SkipCancelled(r)
  \/ LaunchChild(r)
  \/ Acquire(r)
  \/ CountIn(r)
  \/ Finished(r)
  \/ Release(r)
  \/ Record(r)

Next ==
  \E r \in Run :
    \/ StartTurn(r)
    \/ \E ff \in BOOLEAN : Dispatch(r, ff)
    \/ Progress(r)

Spec == Init /\ [][Next]_vars

\* Threads are scheduled and run_fn returns: the loop has a turn limit and
\* every provider call a timeout.  Nothing forces a run to dispatch children.
FairSpec == Spec /\ \A r \in Run : WF_vars(Progress(r))

-----------------------------------------------------------------------------
TypeOK ==
  /\ pc \in [Run -> PC]
  /\ sem \in [Lane -> Nat]
  /\ in_flight \in [Lane -> Nat]
  /\ fail_fast \in SUBSET Run
  /\ cancel \in SUBSET Run
  /\ outcome \in [Run -> Outcome]

(* Permits are conserved: what the semaphore has left and what runs hold    *)
(* always add up to the cap, on success and on error, so a lane never       *)
(* loses a slot and never runs more than its cap.                           *)
PermitsConserved == \A l \in Lane : sem[l] + Cardinality(Holders(l)) = Cap[l]

(* The gauge behind slots_in_use() and the lane events counts exactly the   *)
(* runs whose run_fn is executing, although it is not under the             *)
(* semaphore's lock.                                                        *)
GaugeExact == \A l \in Lane : in_flight[l] = Cardinality(Counted(l))

(* The slots_in_use_before a lane_acquire event reports is always below the *)
(* cap: the gauge goes down before the permit goes back.                    *)
GaugeBelowCap ==
  \A r \in Run : pc[r] = "acquired" => in_flight[LaneOf(r)] < Cap[LaneOf(r)]

(* A call tree is joined before its root gives the slot back: no child is   *)
(* still at work below a run that has returned.                             *)
NoOrphans ==
  \A c \in Run :
    (Parent[c] # NoRun /\ pc[c] \notin {"idle", "ended"}) => pc[Parent[c]] = "running"

(* A child is reported as cancelled only when its batch asked for fail_fast *)
(* and a sibling really failed.                                             *)
CancelledOnlyAfterFailure ==
  \A r \in Run : outcome[r] = "cancelled" =>
    /\ Parent[r] \in fail_fast
    /\ \E s \in Children(Parent[r]) : outcome[s] = "error"

(* No run waits for ever, whatever the shape of the call tree: a nested     *)
(* child never waits for the slot its own ancestor holds.                   *)
EveryRunEnds == \A r \in Run : pc[r] \in {"new", "waiting"} ~> pc[r] = "ended"

Pool == INSTANCE BoundedPool
  WITH active <- [l \in Lane |-> Holders(l)],
       left <- {r \in Run : ~Bypasses(r) /\ outcome[r] # "cancelled"
                            /\ pc[r] \in {"returned", "ended"}}

(* The lanes implement the bounded pool: at most Cap[l] runs inside, each   *)
(* run enters and leaves once.                                              *)
ImplementsPool == Pool!Spec

(* What holds of the lanes in every state: permits and gauges are exact, and *)
(* call trees are joined and cancelled only for a failure.                  *)
LanesSound ==
  /\ TypeOK /\ PermitsConserved /\ GaugeExact /\ GaugeBelowCap
  /\ NoOrphans /\ CancelledOnlyAfterFailure
=============================================================================

---------------------------- MODULE PlanRunState ----------------------------
(***************************************************************************)
(* The run state of one project plan (harness/workspace.py), advanced by   *)
(* the agents of several sessions and granted approvals by their users.    *)
(* Every change is a read-modify-write of one file under the workspace     *)
(* lock.  The lock is taken to exclude: one thread at a time, and that of  *)
(* a killed owner is cleared away (WriteLock says when its file does not). *)
(* A session that touches the plan has an id.                              *)
(*                                                                         *)
(* The failure history, the last checkpoint and the times are only         *)
(* displayed, and left out.                                                *)
(***************************************************************************)
EXTENDS Naturals, Sequences

CONSTANTS
  Session,       \* the sessions, each with a thread that works on the plan
  Nobody,        \* owner of a free lock
  Phases,        \* number of phases; they are numbered from 0
  NeedsApproval, \* the phases with requires_approval
  MaxRequests    \* bound on the approval requests made

VARIABLES
  plan,     \* what is on disk: no plan, its yaml, also a whole or a torn run state
  state,    \* the run state saved last
  lock,     \* the owner of the workspace lock
  pc,       \* pc[s]: where the thread of s is
  view,     \* view[s]: the run state as s has loaded, or is about to save, it
  requests, \* history: requests[i] is the phase request i was made for
  named,    \* history: the requests the users have granted
  acted     \* history: the sessions that failed, completed or asked for a phase

vars == <<plan, state, lock, pc, view, requests, named, acted>>

NoRequest == [id |-> 0, phase |-> 0, granted |-> FALSE]
Fresh == [status |-> "active", phase |-> 0, done |-> {}, pending |-> NoRequest,
          approvals |-> {}, touched |-> {}]

Init ==
  /\ plan = "none" /\ state = Fresh
  /\ lock = Nobody
  /\ pc = [s \in Session |-> "idle"]
  /\ view = [s \in Session |-> Fresh]
  /\ requests = <<>> /\ named = {} /\ acted = {}

-----------------------------------------------------------------------------
(* The run state as a value.                                                *)

(* Faulty variant: one phase too many.                                      *)
OpenTooLong(v) == v.phase <= Phases

(* The plan has a current phase to advance.                                 *)
Open(v) == v.status # "completed" /\ v.phase < Phases

(* Faulty variant: a request that was granted is asked for again.           *)
PendingUngranted(v) == v.pending.id # 0 /\ v.pending.phase = v.phase /\ ~v.pending.granted

(* There is a request for the current phase.                                *)
Pending(v) == v.pending.id # 0 /\ v.pending.phase = v.phase

Granted(v) == Pending(v) /\ v.pending.granted

(* Faulty variant: the agent's own word is enough.                          *)
ApprovedByFlag(v) == TRUE

(* The gate of the current phase is open.                                   *)
Approved(v) == v.phase \in NeedsApproval => Granted(v)

Changed(v, status, pending, touched) ==
  [status |-> status, phase |-> v.phase, done |-> v.done, pending |-> pending,
   approvals |-> v.approvals, touched |-> touched]

Asked(v, s, request) == Changed(v, "awaiting_approval", request, v.touched \union {s})

Failed(v, s) == Changed(v, v.status, v.pending, v.touched \union {s})

GrantedNow(v) ==
  Changed(v, "awaiting_approval",
          [id |-> v.pending.id, phase |-> v.pending.phase, granted |-> TRUE], v.touched)

(* Faulty variant: a completed phase leaves the status as it was.           *)
AdvancedInPlace(v, s) ==
  [status    |-> IF v.phase + 1 = Phases THEN "completed" ELSE v.status,
   phase     |-> v.phase + 1,
   done      |-> v.done \union {v.phase},
   pending   |-> IF v.phase \in NeedsApproval THEN NoRequest ELSE v.pending,
   approvals |-> v.approvals \union (IF v.phase \in NeedsApproval THEN {v.pending} ELSE {}),
   touched   |-> v.touched \union {s}]

Advanced(v, s) ==
  [status    |-> IF v.phase + 1 = Phases THEN "completed" ELSE "active",
   phase     |-> v.phase + 1,
   done      |-> v.done \union {v.phase},
   pending   |-> IF v.phase \in NeedsApproval THEN NoRequest ELSE v.pending,
   approvals |-> v.approvals \union (IF v.phase \in NeedsApproval THEN {v.pending} ELSE {}),
   touched   |-> v.touched \union {s}]
-----------------------------------------------------------------------------
(* Under the lock.                                                          *)

Enter(s, v, to) ==
  /\ pc[s] = "idle" /\ lock = Nobody
  /\ lock' = s
  /\ view' = [view EXCEPT ![s] = v]
  /\ pc' = [pc EXCEPT ![s] = to]

Change(s, v) ==
  /\ view' = [view EXCEPT ![s] = v]
  /\ pc' = [pc EXCEPT ![s] = "saving"]
  /\ acted' = acted \union {s}

(* plan_create writes the yaml; its run state is saved like any other.      *)
Create(s) ==
  /\ plan = "none"
  /\ Enter(s, Fresh, "saving")
  /\ plan' = "yaml"
  /\ UNCHANGED <<state, requests, named, acted>>

(* plan_advance loads the run state; a torn one cannot be loaded.           *)
Load(s) ==
  /\ plan = "whole" /\ Open(state)
  /\ Enter(s, state, "loaded")
  /\ UNCHANGED <<plan, state, requests, named, acted>>

(* A postcondition does not hold: nothing is saved.                         *)
VerifyFails(s) ==
  /\ pc[s] = "loaded"
  /\ lock' = Nobody
  /\ pc' = [pc EXCEPT ![s] = "idle"]
  /\ UNCHANGED <<plan, state, view, requests, named, acted>>

(* A failed phase stays the current one, with its request.                  *)
Fail(s) ==
  /\ pc[s] = "loaded"
  /\ Change(s, Failed(view[s], s))
  /\ UNCHANGED <<plan, state, lock, requests, named>>

(* The agent reports a phase complete whose gate is closed: the request for *)
(* it is kept, or made.                                                     *)
AskApproval(s) ==
  /\ pc[s] = "loaded" /\ ~Approved(view[s])
  /\ \/ /\ Pending(view[s])
        /\ Change(s, Asked(view[s], s, view[s].pending))
        /\ requests' = requests
     \/ /\ ~Pending(view[s]) /\ Len(requests) < MaxRequests
        /\ Change(s, Asked(view[s], s, [id |-> Len(requests) + 1, phase |-> view[s].phase,
                                        granted |-> FALSE]))
        /\ requests' = Append(requests, view[s].phase)
  /\ UNCHANGED <<plan, state, lock, named>>

Complete(s) ==
  /\ pc[s] = "loaded" /\ Approved(view[s])
  /\ Change(s, Advanced(view[s], s))
  /\ UNCHANGED <<plan, state, lock, requests, named>>

(* plan_grant_approval, for the request the user names.                     *)
Grant(s, i) ==
  /\ plan = "whole"
  /\ state.phase \in NeedsApproval /\ Pending(state) /\ state.pending.id = i
  /\ Enter(s, GrantedNow(state), "saving")
  /\ named' = named \union {i}
  /\ UNCHANGED <<plan, state, requests, acted>>

(* _save_run_state: write_text truncates the file, then fills it.           *)
Truncate(s) ==
  /\ pc[s] = "saving"
  /\ plan' = "torn"
  /\ pc' = [pc EXCEPT ![s] = "writing"]
  /\ UNCHANGED <<state, lock, view, requests, named, acted>>

Write(s) ==
  /\ pc[s] = "writing"
  /\ plan' = "whole" /\ state' = view[s]
  /\ lock' = Nobody
  /\ pc' = [pc EXCEPT ![s] = "idle"]
  /\ UNCHANGED <<view, requests, named, acted>>

(* The process is killed; its lock is reclaimed (WriteLock).                *)
Crash(s) ==
  /\ pc[s] # "dead"
  /\ pc' = [pc EXCEPT ![s] = "dead"]
  /\ lock' = IF lock = s THEN Nobody ELSE lock
  /\ UNCHANGED <<plan, state, view, requests, named, acted>>

Next ==
  \E s \in Session :
    \/ Create(s) \/ Load(s) \/ VerifyFails(s) \/ Fail(s) \/ AskApproval(s)
    \/ Complete(s) \/ Truncate(s) \/ Write(s) \/ Crash(s)
    \/ \E i \in 1 .. Len(requests) : Grant(s, i)

Spec == Init /\ [][Next]_vars
-----------------------------------------------------------------------------
Request == [id : 0 .. MaxRequests, phase : 0 .. Phases - 1, granted : BOOLEAN]
RunState == [status : {"active", "awaiting_approval", "completed"}, phase : 0 .. Phases,
             done : SUBSET (0 .. Phases - 1), pending : Request,
             approvals : SUBSET Request, touched : SUBSET Session]

(* Every variable stays in its type.                                        *)
TypeOK ==
  /\ plan \in {"none", "yaml", "whole", "torn"}
  /\ state \in RunState
  /\ lock \in Session \union {Nobody}
  /\ pc \in [Session -> {"idle", "loaded", "saving", "writing", "dead"}]
  /\ view \in [Session -> RunState]
  /\ requests \in Seq(0 .. Phases - 1) /\ Len(requests) <= MaxRequests
  /\ named \subseteq 1 .. Len(requests)
  /\ acted \subseteq Session

(* A phase that requires approval is completed only after a user has granted *)
(* the request that was made for this very phase, however often the phase   *)
(* failed and whichever sessions asked, were granted and completed.         *)
CompletedWithGrant ==
  \A k \in state.done \intersect NeedsApproval :
    \E r \in state.approvals : r.phase = k /\ r.id \in named /\ requests[r.id] = k

(* The run state is never between two states: the phases done are those     *)
(* before the current one, it is completed when there is no current one, it *)
(* awaits an approval exactly while there is a request for the current      *)
(* phase, and the sessions it has used are those that acted, but for one    *)
(* that is about to save or was killed.                                     *)
RecordAgrees ==
  /\ state.done = 0 .. state.phase - 1
  /\ state.status = "completed" <=> state.phase = Phases
  /\ state.status = "awaiting_approval" <=> Pending(state)
  /\ ~Pending(state) => state.pending = NoRequest
  /\ state.touched \subseteq acted
  /\ \A s \in acted \ state.touched : pc[s] \in {"saving", "writing", "dead"}

(* A grant is not lost: unless a process was killed, the plan remembers     *)
(* every request a user has granted, in its current phase or in the         *)
(* approvals of earlier ones.                                               *)
Remembered(v, i) ==
  \/ v.pending.id = i /\ v.pending.granted
  \/ \E r \in v.approvals : r.id = i

GrantSticks ==
  (lock = Nobody /\ \A s \in Session : pc[s] # "dead") =>
    \A i \in named : Remembered(state, i)

(* Phases are completed only with their grants, and the record of them is   *)
(* whole whoever writes it.                                                 *)
PlanSound == CompletedWithGrant /\ RecordAgrees /\ GrantSticks
-----------------------------------------------------------------------------
(* The inductive invariant: one thread owns the record, and what it is about *)
(* to save is as good as what is saved.                                      *)

Saving(s) == pc[s] \in {"saving", "writing"}

(* What a run state v says of itself, given the requests made and granted.  *)
Progress(v) ==
  /\ v.done = 0 .. v.phase - 1
  /\ v.status = "completed" <=> v.phase = Phases
  /\ v.status = "awaiting_approval" <=> Pending(v)
  /\ ~Pending(v) => v.pending = NoRequest

PendingIsReal(v, made, given) ==
  Pending(v) =>
    /\ v.phase \in NeedsApproval
    /\ v.pending.id \in 1 .. Len(made) /\ made[v.pending.id] = v.phase
    /\ v.pending.granted => v.pending.id \in given

DoneWereGranted(v, made, given) ==
  \A k \in v.done \intersect NeedsApproval :
    \E r \in v.approvals : /\ r.phase = k /\ r.id \in given
                           /\ r.id \in 1 .. Len(made) /\ made[r.id] = k

Good(v, made, given) ==
  Progress(v) /\ PendingIsReal(v, made, given) /\ DoneWereGranted(v, made, given)

RememberedAll(v, given) == \A i \in given : Remembered(v, i)

(* Who is under the lock owns it, and works on what was saved last.         *)
Owner ==
  /\ \A s \in Session : pc[s] \in {"loaded", "saving", "writing"} <=> lock = s
  /\ \A s \in Session : pc[s] = "loaded" => view[s] = state /\ Open(state)

(* Before the plan there is nothing.                                        *)
Empty ==
  plan = "none" =>
    /\ state = Fresh /\ named = {} /\ acted = {}
    /\ \A s \in Session : pc[s] \in {"idle", "dead"}

Sound ==
  /\ Good(state, requests, named)
  /\ \A s \in Session : Saving(s) => Good(view[s], requests, named)

Sessions ==
  /\ state.touched \subseteq acted
  /\ \A s \in acted \ state.touched : pc[s] \in {"saving", "writing", "dead"}
  /\ \A s \in Session : Saving(s) =>
       /\ state.touched \subseteq view[s].touched /\ view[s].touched \subseteq acted
       /\ s \in acted => s \in view[s].touched

Grants ==
  (\A s \in Session : pc[s] # "dead") =>
    /\ (\A s \in Session : ~Saving(s)) => RememberedAll(state, named)
    /\ \A s \in Session : Saving(s) => RememberedAll(view[s], named)

IInv == TypeOK /\ Owner /\ Empty /\ Sound /\ Sessions /\ Grants
=============================================================================

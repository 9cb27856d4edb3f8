----------------------------- MODULE BoundedPool -----------------------------
(***************************************************************************)
(* What a lane promises its callers, without semaphores or gauges: a run   *)
(* enters a lane only while fewer than Cap[l] runs are inside it, enters   *)
(* once, and leaves.  Lanes.tla is shown to implement this specification.  *)
(***************************************************************************)
EXTENDS Naturals, FiniteSets

CONSTANTS
  Run,   \* every run that may ever be submitted
  Lane,  \* the concurrency buckets
  Cap    \* slots of each lane

VARIABLES
  active,  \* active[l]: the runs inside lane l
  left     \* the runs that have left a lane

poolVars == <<active, left>>

Init ==
  /\ active = [l \in Lane |-> {}]
  /\ left = {}

Enter(l, r) ==
  /\ Cardinality(active[l]) < Cap[l]
  /\ r \notin left
  /\ \A k \in Lane : r \notin active[k]
  /\ active' = [active EXCEPT ![l] = @ \union {r}]
  /\ UNCHANGED left

Leave(l, r) ==
  /\ r \in active[l]
  /\ active' = [active EXCEPT ![l] = @ \ {r}]
  /\ left' = left \union {r}

Next == \E l \in Lane, r \in Run : Enter(l, r) \/ Leave(l, r)

Spec == Init /\ [][Next]_poolVars
=============================================================================

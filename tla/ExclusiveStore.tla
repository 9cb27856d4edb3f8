--------------------------- MODULE ExclusiveStore ---------------------------
(***************************************************************************)
(* What a write lock promises, without lock files: one thread at a time    *)
(* owns the store, only the owner changes it, and every change builds on   *)
(* the one before it.  An owner that dies keeps the store for ever.        *)
(***************************************************************************)
EXTENDS Naturals

CONSTANTS
  Thread,
  Nobody  \* not a thread: nobody owns the store

VARIABLES
  owner,  \* the thread that owns the store
  doc     \* how many changes the store has seen

storeVars == <<owner, doc>>

Init == owner = Nobody /\ doc \in Nat

Take(t) == owner = Nobody /\ owner' = t /\ UNCHANGED doc

Change(t) == owner = t /\ doc' = doc + 1 /\ UNCHANGED owner

Drop(t) == owner = t /\ owner' = Nobody /\ UNCHANGED doc

Next == \E t \in Thread : Take(t) \/ Change(t) \/ Drop(t)

Spec == Init /\ [][Next]_storeVars
=============================================================================

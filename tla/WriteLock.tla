------------------------------ MODULE WriteLock ------------------------------
(***************************************************************************)
(* The two lock files of the harness: the workspace write lock of          *)
(* workspace_parts/lock.py (reentrant, with stale-lock recovery), and the  *)
(* worktree write lock of GitRepo.write_lock (neither).  Threads of        *)
(* several processes update one document (CURRENT.md, a branch) under it.  *)
(*                                                                         *)
(* Every system call is a step of its own: the exclusive create, the three *)
(* calls of a recovery (stat, read the PID, unlink), the write of the      *)
(* payload, the two halves of a non-atomic save and the unlink on release. *)
(***************************************************************************)
EXTENDS Integers

CONSTANTS
  Thread,         \* the threads that take the lock
  Proc,           \* the processes they run in
  ProcOf,         \* ProcOf[t]: the process of thread t
  Nobody,         \* no thread, no process, no lock file
  Workspace,      \* TRUE: the workspace lock; FALSE: the git lock
  Mortal,         \* the processes that may be killed
  PayloadMayFail, \* writing the payload may raise OSError (disk full)
  MaxPolls,       \* polls until the 5 s deadline
  MaxNest,        \* bound on nested acquisitions of one thread
  Found,          \* the updates the document holds at first
  MaxSaves        \* bound on the updates saved, those included

ASSUME WriteLockAssumption ==
  /\ ProcOf \in [Thread -> Proc]
  /\ Nobody \notin Thread \union Proc
  /\ {Workspace, PayloadMayFail} \subseteq BOOLEAN
  /\ Mortal \subseteq Proc
  /\ {MaxPolls, MaxNest, Found, MaxSaves} \subseteq Nat

VARIABLES
  file,   \* the lock file: who created it, the PID in it, older than 30 s?
  pc,     \* pc[t]: where thread t is
  polls,  \* polls[t]: failed attempts of this acquisition
  level,  \* level[t]: nested acquisitions of thread t
  owner,  \* owner[p]: _owner_tid of the lock object of process p
  depth,  \* depth[p]: _depth of that object (an integer: it may go negative)
  doc,    \* the document, as the number of updates it holds
  buf,    \* buf[t]: the document as thread t has read it, 0 outside a save
  saved,  \* history: the updates whose save returned
  wiped,  \* history: those that a later save wiped when its write raised
  aged    \* history: some lock file outlived 30 s

vars == <<file, pc, polls, level, owner, depth, doc, buf, saved, wiped, aged>>

NoFile == [by |-> Nobody, pid |-> Nobody, old |-> FALSE]

(* What a crashed or a live thread inside the lock may be doing.            *)
Inside == {"fresh", "hold", "read", "torn"}

Alive(t) == pc[t] # "dead"
Dead(p) == \A t \in Thread : ProcOf[t] = p => pc[t] = "dead"

Init ==
  /\ file = NoFile
  /\ pc = [t \in Thread |-> "idle"]
  /\ polls = [t \in Thread |-> 0]
  /\ level = [t \in Thread |-> 0]
  /\ owner = [p \in Proc |-> Nobody]
  /\ depth = [p \in Proc |-> 0]
  /\ doc = Found
  /\ buf = [t \in Thread |-> 0]
  /\ saved = Found /\ wiped = 0
  /\ aged = FALSE
-----------------------------------------------------------------------------
(* Acquisition.                                                             *)

(* acquire(): the object does not name this thread, so the file decides.    *)
Enter(t) ==
  /\ pc[t] = "idle"
  /\ owner[ProcOf[t]] # t
  /\ saved < MaxSaves
  /\ pc' = [pc EXCEPT ![t] = "try"]
  /\ polls' = [polls EXCEPT ![t] = 0]
  /\ UNCHANGED <<file, level, owner, depth, doc, buf, saved, wiped, aged>>

(* Faulty variant: the create is not exclusive.                             *)
CreateShared(t) ==
  /\ pc[t] = "try"
  /\ file' = [by |-> t, pid |-> Nobody, old |-> FALSE]
  /\ pc' = [pc EXCEPT ![t] = "fresh"]
  /\ UNCHANGED <<polls, level, owner, depth, doc, buf, saved, wiped, aged>>

(* os.open with O_CREAT | O_EXCL succeeds: the file is there, still empty.  *)
Create(t) ==
  /\ pc[t] = "try"
  /\ file = NoFile
  /\ file' = [by |-> t, pid |-> Nobody, old |-> FALSE]
  /\ pc' = [pc EXCEPT ![t] = "fresh"]
  /\ UNCHANGED <<polls, level, owner, depth, doc, buf, saved, wiped, aged>>

(* Faulty variant: the deadline is tested after one more attempt.           *)
PollOneMore(t) ==
  /\ polls' = [polls EXCEPT ![t] = IF @ <= MaxPolls THEN @ + 1 ELSE @]
  /\ pc' = [pc EXCEPT ![t] = IF polls[t] <= MaxPolls THEN "try" ELSE "idle"]
  /\ UNCHANGED <<file, level, owner, depth, doc, buf, saved, wiped, aged>>

(* Faulty variant: every attempt starts a deadline of its own.              *)
PollForever(t) ==
  /\ polls' = [polls EXCEPT ![t] = IF @ < MaxPolls THEN @ + 1 ELSE 0]
  /\ pc' = [pc EXCEPT ![t] = "try"]
  /\ UNCHANGED <<file, level, owner, depth, doc, buf, saved, wiped, aged>>

(* The deadline test and the sleep: poll again, or give up and raise.       *)
PollOrRaise(t) ==
  /\ polls' = [polls EXCEPT ![t] = IF @ < MaxPolls THEN @ + 1 ELSE @]
  /\ pc' = [pc EXCEPT ![t] = IF polls[t] < MaxPolls THEN "try" ELSE "idle"]
  /\ UNCHANGED <<file, level, owner, depth, doc, buf, saved, wiped, aged>>

(* The create fails: the file exists, and it is young or never recovered.   *)
Exists(t) ==
  /\ pc[t] = "try"
  /\ file # NoFile
  /\ Workspace => ~file.old
  /\ PollOrRaise(t)

(* try_remove_stale_lock, its first call: the file is older than 30 s.      *)
StatOld(t) ==
  /\ pc[t] = "try"
  /\ Workspace
  /\ file # NoFile /\ file.old
  /\ pc' = [pc EXCEPT ![t] = "stated"]
  /\ UNCHANGED <<file, polls, level, owner, depth, doc, buf, saved, wiped, aged>>

(* Faulty variant: a lock file without a PID is never taken for stale.      *)
OwnerAliveOrUnknown == file.pid = Nobody \/ ~Dead(file.pid)

(* is_pid_alive(read_lock_pid(...)): no file, no payload and a dead process *)
(* all count as not alive.                                                  *)
OwnerAlive == file.pid # Nobody /\ ~Dead(file.pid)

ReadAlive(t) ==
  /\ pc[t] = "stated"
  /\ OwnerAlive
  /\ PollOrRaise(t)

ReadDead(t) ==
  /\ pc[t] = "stated"
  /\ ~OwnerAlive
  /\ pc' = [pc EXCEPT ![t] = "orphan"]
  /\ UNCHANGED <<file, polls, level, owner, depth, doc, buf, saved, wiped, aged>>

(* The unlink removes whatever file is there by now, and the create is      *)
(* retried at once; without a file it is a poll like any other.             *)
Reclaim(t) ==
  /\ pc[t] = "orphan"
  /\ file # NoFile
  /\ file' = NoFile
  /\ pc' = [pc EXCEPT ![t] = "try"]
  /\ UNCHANGED <<polls, level, owner, depth, doc, buf, saved, wiped, aged>>

ReclaimLate(t) ==
  /\ pc[t] = "orphan"
  /\ file = NoFile
  /\ PollOrRaise(t)

(* The payload is written and the object names its thread.                  *)
Hold(t) ==
  /\ pc[t] = "fresh"
  /\ \E written \in {TRUE, ~(Workspace /\ PayloadMayFail)} :
       file' = IF written /\ file.by = t
                 THEN [by |-> t, pid |-> ProcOf[t], old |-> FALSE]
                 ELSE file
  /\ pc' = [pc EXCEPT ![t] = "hold"]
  /\ owner' = [owner EXCEPT ![ProcOf[t]] = IF Workspace THEN t ELSE @]
  /\ depth' = [depth EXCEPT ![ProcOf[t]] = IF Workspace THEN 1 ELSE @]
  /\ UNCHANGED <<polls, level, doc, buf, saved, wiped, aged>>

(* The git lock lets the OSError of the payload out through its finally.    *)
PayloadRaises(t) ==
  /\ pc[t] = "fresh"
  /\ ~Workspace /\ PayloadMayFail
  /\ pc' = [pc EXCEPT ![t] = "release"]
  /\ UNCHANGED <<file, polls, level, owner, depth, doc, buf, saved, wiped, aged>>
-----------------------------------------------------------------------------
(* Inside the lock.                                                         *)

(* A helper that composes acquires again: the object names this thread.     *)
Nest(t) ==
  /\ Workspace
  /\ pc[t] \in {"hold", "read"}
  /\ level[t] < MaxNest
  /\ owner[ProcOf[t]] = t
  /\ depth' = [depth EXCEPT ![ProcOf[t]] = @ + 1]
  /\ level' = [level EXCEPT ![t] = @ + 1]
  /\ UNCHANGED <<file, pc, polls, owner, doc, buf, saved, wiped, aged>>

(* Faulty variant: a nested block that ends releases the file.              *)
UnnestReleases(t) ==
  /\ pc[t] \in {"hold", "read"}
  /\ level[t] > 0
  /\ file' = NoFile
  /\ level' = [level EXCEPT ![t] = @ - 1]
  /\ UNCHANGED <<pc, polls, owner, depth, doc, buf, saved, wiped, aged>>

Unnest(t) ==
  /\ pc[t] \in {"hold", "read"}
  /\ level[t] > 0
  /\ depth' = [depth EXCEPT ![ProcOf[t]] = @ - 1]
  /\ level' = [level EXCEPT ![t] = @ - 1]
  /\ UNCHANGED <<file, pc, polls, owner, doc, buf, saved, wiped, aged>>

ReadDoc(t) ==
  /\ pc[t] = "hold"
  /\ saved < MaxSaves
  /\ buf' = [buf EXCEPT ![t] = doc]
  /\ pc' = [pc EXCEPT ![t] = "read"]
  /\ UNCHANGED <<file, polls, level, owner, depth, doc, saved, wiped, aged>>

(* write_text truncates CURRENT.md before it writes; a ref moves at once.   *)
Truncate(t) ==
  /\ pc[t] = "read"
  /\ Workspace
  /\ doc' = 0
  /\ pc' = [pc EXCEPT ![t] = "torn"]
  /\ UNCHANGED <<file, polls, level, owner, depth, buf, saved, wiped, aged>>

Save(t) ==
  /\ pc[t] = IF Workspace THEN "torn" ELSE "read"
  /\ doc' = buf[t] + 1
  /\ saved' = saved + 1
  /\ buf' = [buf EXCEPT ![t] = 0]
  /\ pc' = [pc EXCEPT ![t] = "hold"]
  /\ UNCHANGED <<file, polls, level, owner, depth, wiped, aged>>

(* write_text raises after it truncated (a full disk, a text that cannot be *)
(* encoded): the document stays empty, and the exception leaves every block *)
(* and releases the lock like any other end.                                *)
SaveRaises(t) ==
  /\ pc[t] = "torn"
  /\ wiped' = saved
  /\ buf' = [buf EXCEPT ![t] = 0]
  /\ pc' = [pc EXCEPT ![t] = "hold"]
  /\ UNCHANGED <<file, polls, level, owner, depth, doc, saved, aged>>

(* Faulty variant: the object still names the thread after it has left.     *)
LeaveKeepsOwner(t) ==
  /\ pc[t] \in {"hold", "read"}
  /\ level[t] = 0
  /\ pc' = [pc EXCEPT ![t] = "release"]
  /\ UNCHANGED <<file, polls, level, owner, depth, doc, buf, saved, wiped, aged>>

(* The outermost block ends, by its last statement or by an exception, a    *)
(* save in progress included; only a depth of zero releases the file.       *)
Leave(t) ==
  /\ pc[t] \in {"hold", "read"}
  /\ level[t] = 0
  /\ LET p == ProcOf[t]
         left == IF Workspace THEN depth[p] - 1 ELSE 0 IN
     /\ depth' = [depth EXCEPT ![p] = left]
     /\ owner' = [owner EXCEPT ![p] = IF left = 0 THEN Nobody ELSE @]
     /\ pc' = [pc EXCEPT ![t] = IF left = 0 THEN "release" ELSE "idle"]
  /\ buf' = [buf EXCEPT ![t] = 0]
  /\ UNCHANGED <<file, polls, level, doc, saved, wiped, aged>>

(* _release_file_lock: the unlink does not look whose file it removes.      *)
Release(t) ==
  /\ pc[t] = "release"
  /\ file' = NoFile
  /\ pc' = [pc EXCEPT ![t] = "idle"]
  /\ UNCHANGED <<polls, level, owner, depth, doc, buf, saved, wiped, aged>>
-----------------------------------------------------------------------------
(* The environment: 30 seconds pass, though not between the create and the  *)
(* write of the payload in a live process, or a process is killed.          *)

Age ==
  /\ file # NoFile /\ ~file.old
  /\ \A t \in Thread : file.by = t => pc[t] # "fresh"
  /\ file' = [by |-> file.by, pid |-> file.pid, old |-> TRUE]
  /\ aged' = TRUE
  /\ UNCHANGED <<pc, polls, level, owner, depth, doc, buf, saved, wiped>>

Crash(p) ==
  /\ p \in Mortal
  /\ \E t \in Thread : ProcOf[t] = p /\ Alive(t)
  /\ pc' = [t \in Thread |-> IF ProcOf[t] = p THEN "dead" ELSE pc[t]]
  /\ buf' = [t \in Thread |-> IF ProcOf[t] = p THEN 0 ELSE buf[t]]
  /\ UNCHANGED <<file, polls, level, owner, depth, doc, saved, wiped, aged>>

Acquiring(t) ==
  \/ Create(t) \/ Exists(t) \/ StatOld(t) \/ ReadAlive(t) \/ ReadDead(t)
  \/ Reclaim(t) \/ ReclaimLate(t)

Holding(t) ==
  \/ Hold(t) \/ PayloadRaises(t) \/ Nest(t) \/ Unnest(t)
  \/ ReadDoc(t) \/ Truncate(t) \/ Save(t) \/ SaveRaises(t)
  \/ Leave(t) \/ Release(t)

Next ==
  \/ \E t \in Thread : Enter(t) \/ Acquiring(t) \/ Holding(t)
  \/ Age
  \/ \E p \in Proc : Crash(p)

Spec == Init /\ [][Next]_vars

(* The loop of an acquisition runs until it returns; nobody has to come,    *)
(* and a block may be held for any time.                                    *)
FairSpec == Spec /\ \A t \in Thread : WF_vars(Acquiring(t))
-----------------------------------------------------------------------------
(* Properties.                                                              *)

PC == {"idle", "try", "stated", "orphan", "release", "dead"} \union Inside

(* Every variable stays in its type; the depth of a lock object may be      *)
(* negative, which is what two holders in one process do to it.             *)
TypeOK ==
  /\ file \in [by : Thread \union {Nobody}, pid : Proc \union {Nobody},
               old : BOOLEAN]
  /\ pc \in [Thread -> PC]
  /\ polls \in [Thread -> 0 .. MaxPolls]
  /\ level \in [Thread -> 0 .. MaxNest]
  /\ owner \in [Proc -> Thread \union {Nobody}]
  /\ depth \in [Proc -> Int]
  /\ doc \in Nat /\ saved \in Nat /\ wiped \in Nat
  /\ buf \in [Thread -> Nat]
  /\ aged \in BOOLEAN

(* No recovery can be under way: the git lock has none, and no lock file of *)
(* the workspace has outlived 30 seconds yet.                               *)
NoRecovery == ~Workspace \/ ~aged

(* Without a recovery the file on disk belongs to the thread that is in its *)
(* critical section or about to unlink, whatever was nested, timed out,     *)
(* failed or was killed: so at most one thread is there, and Release never  *)
(* removes another's lock.                                                  *)
LockBacksHolder ==
  NoRecovery =>
    \A t \in Thread : pc[t] \in Inside \union {"release"} => file.by = t

(* Without a recovery no update is lost to another writer: the document     *)
(* holds every update saved since a write last raised, which wipes it; but  *)
(* for the save in progress, or the one its killed writer left truncated    *)
(* under its lock.                                                          *)
Standing == saved - wiped
NothingLost ==
  NoRecovery =>
    \/ doc = Standing
    \/ Workspace /\ \E t \in Thread : file.by = t /\ pc[t] \in {"torn", "dead"}

(* The reentrancy counter is exact: a lock object names the live thread     *)
(* that is inside, at the depth of its nesting, and nobody otherwise.       *)
ReentrancyExact ==
  Workspace /\ ~aged =>
    \A t \in Thread : Alive(t) =>
      /\ owner[ProcOf[t]] = t <=> pc[t] \in Inside \ {"fresh"}
      /\ owner[ProcOf[t]] = t => depth[ProcOf[t]] = level[t] + 1

(* acquire() takes the lock or raises: it never polls for ever.             *)
AcquireReturns ==
  \A t \in Thread : pc[t] = "try" ~> pc[t] \notin {"try", "stated", "orphan"}

(* A lock file of a killed process, older than 30 s, does not survive an    *)
(* acquisition that is not itself killed, whether its payload was written   *)
(* or not.                                                                  *)
DeadLock == file.old /\ \E t \in Thread : file.by = t /\ ~Alive(t)
DeadLockReclaimed ==
  \A t \in Thread : (DeadLock /\ pc[t] = "try") ~> (~DeadLock \/ ~Alive(t))

(* The promise of lock.py: two invocations cannot silently stomp on each    *)
(* other's update.  A save builds on every update that stands before it.    *)
NoStomp == \A t \in Thread : pc[t] = "torn" => buf[t] = Standing

(* The git lock, without recovery, implements the exclusive store; its      *)
(* owner is the thread that created the file.                               *)
Store == INSTANCE ExclusiveStore WITH owner <- file.by
ImplementsStore == Store!Spec

(* The lock excludes, nests exactly and loses no update to another writer,  *)
(* up to recoveries.                                                        *)
LockSound == TypeOK /\ LockBacksHolder /\ NothingLost /\ ReentrancyExact
=============================================================================

------------------------------ MODULE GitCommit ------------------------------
(***************************************************************************)
(* Publication of the memory repository (git_repo.py).  Sessions of several *)
(* processes share one worktree: a session writes its files, stages them,  *)
(* asks whether anything is staged and commits its own paths.  Staging is  *)
(* outside the worktree's write lock, the commit is under it: first as     *)
(* `git commit --only`, and when git's own lock files are in the way by    *)
(* plumbing on a temporary index, whose last resort is to write the ref    *)
(* file itself.  Another branch can be fast-forwarded to the session       *)
(* branch in the same way.  Git processes outside the harness lock the     *)
(* index and the refs, commit, and die leaving their lock files behind.    *)
(*                                                                         *)
(* The content of a file is its version.  A commit is a record of its      *)
(* parent, its tree and its author; a ref is the number of a commit.       *)
(***************************************************************************)
EXTENDS Naturals, Sequences, FiniteSets

CONSTANTS
  Writer,        \* sessions that publish
  Path,          \* files
  PathsOf,       \* PathsOf[w]: the files session w writes and commits
  Stranger,      \* name of the git processes outside the harness
  MaxOps,        \* MaxOps[w]: publications of session w
  MaxStrange     \* commits and lock files of strangers

Nobody == "nobody"
Genesis == [parent |-> 0, tree |-> [p \in Path |-> 0], by |-> Stranger]

VARIABLES
  work, index,     \* version of each file in the worktree and in the index
  commits,         \* every commit object, in the order of creation
  refs,            \* refs.session and refs.main: numbers of commits
  guard,           \* who holds the worktree's write lock
  idxLock, refLock,\* git's lock files: "none", "young" or "old"
  pc,              \* where each publication is
  goal,            \* "commit" or "forward"
  base,            \* the commit its update starts from
  made,            \* the commit its update leads to
  kept,            \* staged paths of others that `git commit --only` is to keep
  ops, strange,    \* publications started, deeds of strangers
  published,       \* branch and commit of each publication that was reported
  pending,         \* base of a stranger that holds the ref lock, 0 if none
  overrode,        \* a ref was judged free while a living stranger held its lock
  linked,          \* the worktree is a linked one, with a git directory of its own
  aside            \* the ref files in that directory: numbers of commits, 0 if absent

vars == <<work, index, commits, refs, guard, idxLock, refLock, pc, goal, base,
          made, kept, ops, strange, published, pending, overrode, linked, aside>>
locks == <<idxLock, refLock>>
ofOp == <<goal, base, made, kept>>
side == <<linked, aside>>

Target(g) == IF g = "commit" THEN "session" ELSE "main"
Tree(r) == commits[refs[r]].tree
StagedPaths == {p \in Path : index[p] # Tree("session")[p]}

Ancestors == LET Chain[n \in DOMAIN commits] ==
                   {n} \cup IF commits[n].parent = 0 THEN {} ELSE Chain[commits[n].parent]
             IN Chain

NoOp(w) == /\ goal[w] = "none" /\ base[w] = 0 /\ made[w] = 0 /\ kept[w] = {}

Init ==
  /\ work = [p \in Path |-> 0] /\ index = work
  /\ commits = <<Genesis>> /\ refs = [session |-> 1, main |-> 1]
  /\ guard = Nobody /\ idxLock = "none" /\ refLock = "none"
  /\ pc = [w \in Writer |-> "idle"]
  /\ goal = [w \in Writer |-> "none"] /\ base = [w \in Writer |-> 0]
  /\ made = base /\ kept = [w \in Writer |-> {}]
  /\ ops = [w \in Writer |-> 0] /\ strange = 0 /\ published = {} /\ pending = 0
  /\ overrode = FALSE /\ linked \in BOOLEAN /\ aside = [session |-> 0, main |-> 0]

Goto(w, place) == pc' = [pc EXCEPT ![w] = place]

\* The caller gets a result or an exception, which it logs; the lock is released.
End(w) ==
  /\ Goto(w, "idle")
  /\ guard' = IF guard = w THEN Nobody ELSE guard
  /\ goal' = [goal EXCEPT ![w] = "none"] /\ base' = [base EXCEPT ![w] = 0]
  /\ made' = [made EXCEPT ![w] = 0] /\ kept' = [kept EXCEPT ![w] = {}]

\* _try_cleanup_stale_lock: a lock file older than 30 s without a living owner.
Cleaned(file) == IF file = "old" THEN "none" ELSE file

Write(w) ==
  /\ pc[w] = "idle" /\ ops[w] < MaxOps[w]
  /\ \E p \in PathsOf[w] : work' = [work EXCEPT ![p] = @ + 1]
  /\ ops' = [ops EXCEPT ![w] = @ + 1]
  /\ Goto(w, "written") /\ goal' = [goal EXCEPT ![w] = "commit"]
  /\ UNCHANGED <<index, commits, refs, guard, locks, base, made, kept, strange, published, pending, overrode, side>>

\* `git add -A` of the session's paths, not under the write lock.
Stage(w) ==
  /\ pc[w] = "written" /\ Cleaned(idxLock) = "none"
  /\ idxLock' = "none"
  /\ index' = [p \in Path |-> IF p \in PathsOf[w] THEN work[p] ELSE index[p]]
  /\ Goto(w, "staged")
  /\ UNCHANGED <<work, commits, refs, guard, refLock, ofOp, ops, strange, published, pending, overrode, side>>

StageFails(w) ==
  /\ pc[w] = "written" /\ idxLock = "young" /\ End(w)
  /\ UNCHANGED <<work, index, commits, refs, locks, ops, strange, published, pending, overrode, side>>

NothingStaged(w) ==
  /\ pc[w] = "staged" /\ StagedPaths \cap PathsOf[w] = {} /\ End(w)
  /\ UNCHANGED <<work, index, commits, refs, locks, ops, strange, published, pending, overrode, side>>

SomethingStaged(w) ==
  /\ pc[w] = "staged" /\ StagedPaths \cap PathsOf[w] # {} /\ Goto(w, "waiting")
  /\ UNCHANGED <<work, index, commits, refs, guard, locks, ofOp, ops, strange, published, pending, overrode, side>>

AskForward(w) ==
  /\ pc[w] = "idle" /\ ops[w] < MaxOps[w] /\ ops' = [ops EXCEPT ![w] = @ + 1]
  /\ Goto(w, "waiting") /\ goal' = [goal EXCEPT ![w] = "forward"]
  /\ UNCHANGED <<work, index, commits, refs, guard, locks, base, made, kept, strange, published, pending, overrode, side>>

\* Under the write lock both kinds first clean up after dead git processes.
Enter(w) ==
  /\ pc[w] = "waiting" /\ guard = Nobody /\ guard' = w
  /\ idxLock' = Cleaned(idxLock) /\ refLock' = Cleaned(refLock)
  /\ Goto(w, IF goal[w] = "commit" THEN "porcelain" ELSE "resolve")
  /\ UNCHANGED <<work, index, commits, refs, ofOp, ops, strange, published, pending, overrode, side>>

Busy(w) ==
  /\ pc[w] = "waiting" /\ guard # Nobody /\ End(w)
  /\ UNCHANGED <<work, index, commits, refs, locks, ops, strange, published, pending, overrode, side>>

\* _commit_porcelain: the staged paths of others are listed before the commit.
ListOthers(w) ==
  /\ pc[w] = "porcelain" /\ kept' = [kept EXCEPT ![w] = StagedPaths \ PathsOf[w]]
  /\ Goto(w, "only")
  /\ UNCHANGED <<work, index, commits, refs, guard, locks, goal, base, made, ops, strange, published, pending, overrode, side>>

\* `git commit --only` takes the worktree's version of the paths.
CommitOnly(w) ==
  LET new == [p \in Path |-> IF p \in PathsOf[w] THEN work[p] ELSE Tree("session")[p]]
  IN /\ pc[w] = "only" /\ idxLock = "none" /\ refLock = "none" /\ new # Tree("session")
     /\ commits' = Append(commits, [parent |-> refs.session, tree |-> new, by |-> w])
     /\ refs' = [refs EXCEPT !.session = Len(commits) + 1]
     /\ index' = [p \in Path |-> IF p \in PathsOf[w] THEN work[p] ELSE index[p]]
     /\ made' = [made EXCEPT ![w] = Len(commits) + 1]
     /\ Goto(w, IF kept[w] = {} THEN "report" ELSE "restage")
     /\ UNCHANGED <<work, guard, locks, goal, base, kept, ops, strange, published, pending, overrode, side>>

CommitOnlyEmpty(w) ==
  /\ pc[w] = "only" /\ idxLock = "none" /\ refLock = "none"
  /\ \A p \in PathsOf[w] : work[p] = Tree("session")[p]
  /\ End(w)
  /\ UNCHANGED <<work, index, commits, refs, locks, ops, strange, published, pending, overrode, side>>

\* The paths of others are added again, from the worktree.
Restage(w) ==
  /\ pc[w] = "restage" /\ idxLock = "none"
  /\ index' = [p \in Path |-> IF p \in kept[w] THEN work[p] ELSE index[p]]
  /\ Goto(w, "report")
  /\ UNCHANGED <<work, commits, refs, guard, locks, ofOp, ops, strange, published, pending, overrode, side>>

\* The add fails for good: the commit is there and is reported as failed.
RestageRaises(w) ==
  /\ pc[w] = "restage" /\ End(w)
  /\ UNCHANGED <<work, index, commits, refs, locks, ops, strange, published, pending, overrode, side>>

\* A lock file in the way of porcelain, before or after the commit itself.
FallBack(w) ==
  /\ \/ pc[w] = "only" /\ (idxLock # "none" \/ refLock # "none")
     \/ pc[w] = "restage" /\ idxLock # "none"
  /\ refLock' = Cleaned(refLock) /\ Goto(w, "plumbing")
  /\ UNCHANGED <<work, index, commits, refs, guard, idxLock, ofOp, ops, strange, published, pending, overrode, side>>

\* _commit_with_plumbing: the index entries of the paths on top of HEAD's tree.
\* Faulty variant: everything that is staged is published.
SelectedAll(w) == Path
Selected(w) == PathsOf[w]
Plumb(w) ==
  LET new == [p \in Path |-> IF p \in Selected(w) THEN index[p] ELSE Tree("session")[p]]
  IN /\ pc[w] = "plumbing" /\ new # Tree("session")
     /\ base' = [base EXCEPT ![w] = refs.session]
     /\ commits' = Append(commits, [parent |-> refs.session, tree |-> new, by |-> w])
     /\ made' = [made EXCEPT ![w] = Len(commits) + 1]
     /\ Goto(w, "update")
     /\ UNCHANGED <<work, index, refs, guard, locks, goal, kept, ops, strange, published, pending, overrode, side>>

PlumbEmpty(w) ==
  /\ pc[w] = "plumbing" /\ \A p \in Selected(w) : index[p] = Tree("session")[p]
  /\ End(w)
  /\ UNCHANGED <<work, index, commits, refs, locks, ops, strange, published, pending, overrode, side>>

\* A transient failure of plumbing: one more attempt if a stale lock was removed.
PlumbAgain(w) ==
  /\ pc[w] = "plumbing" /\ refLock = "old" /\ refLock' = "none"
  /\ UNCHANGED <<work, index, commits, refs, guard, idxLock, pc, ofOp, ops, strange, published, pending, overrode, side>>

PlumbGivesUp(w) ==
  /\ pc[w] = "plumbing" /\ refLock = "young" /\ End(w)
  /\ UNCHANGED <<work, index, commits, refs, locks, ops, strange, published, pending, overrode, side>>

Forwards(from, to) == from # to /\ from \in Ancestors[to]
Resolve(w) ==
  /\ pc[w] = "resolve" /\ Forwards(refs.main, refs.session)
  /\ base' = [base EXCEPT ![w] = refs.main] /\ made' = [made EXCEPT ![w] = refs.session]
  /\ Goto(w, "update")
  /\ UNCHANGED <<work, index, commits, refs, guard, locks, goal, kept, ops, strange, published, pending, overrode, side>>

\* Already up to date, or diverged.
ResolveEnds(w) ==
  /\ pc[w] = "resolve" /\ ~Forwards(refs.main, refs.session) /\ End(w)
  /\ UNCHANGED <<work, index, commits, refs, locks, ops, strange, published, pending, overrode, side>>

\* Faulty variant: the ref is moved whatever its value is by now.
ExpectedAnything(w) == TRUE
Expected(w) == refs[Target(goal[w])] = base[w]
\* `git update-ref` compares and swaps under git's own ref lock.
UpdateRef(w) ==
  LET r == Target(goal[w])
  IN /\ pc[w] = "update" /\ refLock = "none" /\ Expected(w)
     /\ refs' = [refs EXCEPT ![r] = made[w]] /\ Goto(w, "report")
     /\ UNCHANGED <<work, index, commits, guard, locks, ofOp, ops, strange, published, pending, overrode, side>>

\* _direct_update_ref looks for the ref in the worktree's own git directory: that of
\* a linked one has no branches, only what an earlier direct write has left there.
\* A ref that is not found is not compared.
Found(r) == IF linked THEN aside[r] ELSE refs[r]
Passes(w) == Found(Target(goal[w])) \in {0, base[w]}
CompareRef(w) ==
  /\ pc[w] = "update" /\ refLock # "none" /\ Passes(w)
  /\ Goto(w, "write") /\ overrode' = (overrode \/ (~linked /\ pending # 0))
  /\ UNCHANGED <<work, index, commits, refs, guard, locks, ofOp, ops, strange, published, pending, side>>

UpdateRefused(w) ==
  /\ pc[w] = "update" /\ (IF refLock = "none" THEN ~Expected(w) ELSE ~Passes(w)) /\ End(w)
  /\ UNCHANGED <<work, index, commits, refs, locks, ops, strange, published, pending, overrode, side>>

\* Written where it was looked for: the branches are those of the common directory.
WriteRef(w) ==
  LET r == Target(goal[w])
  IN /\ pc[w] = "write"
     /\ IF linked THEN aside' = [aside EXCEPT ![r] = made[w]] /\ refs' = refs
        ELSE refs' = [refs EXCEPT ![r] = made[w]] /\ aside' = aside
     /\ Goto(w, "report")
     /\ UNCHANGED <<work, index, commits, guard, locks, ofOp, ops, strange, published, pending, overrode, linked>>

Report(w) ==
  /\ pc[w] = "report" /\ published' = published \cup {<<Target(goal[w]), made[w]>>} /\ End(w)
  /\ UNCHANGED <<work, index, commits, refs, locks, ops, strange, pending, overrode, side>>

\* The process is killed; the write lock stays.
Die(w) ==
  /\ pc[w] \notin {"idle", "dead"} /\ Goto(w, "dead")
  /\ UNCHANGED <<work, index, commits, refs, guard, locks, ofOp, ops, strange, published, pending, overrode, side>>

-----------------------------------------------------------------------------
\* Git processes outside the harness.

StrangeDeed == strange < MaxStrange /\ strange' = strange + 1

\* A commit on either branch, which takes git's locks.
StrangerCommits(r) ==
  /\ StrangeDeed /\ refLock = "none" /\ idxLock = "none"
  /\ commits' = Append(commits, [parent |-> refs[r], tree |-> Tree(r), by |-> Stranger])
  /\ refs' = [refs EXCEPT ![r] = Len(commits) + 1]
  /\ published' = published \cup {<<r, Len(commits) + 1>>}
  /\ UNCHANGED <<work, index, guard, locks, pc, ofOp, ops, pending, overrode, side>>

\* A process dies and leaves its lock file, or holds it for a while.
StrangerLocks ==
  /\ StrangeDeed
  /\ \/ idxLock = "none" /\ idxLock' = "young" /\ UNCHANGED refLock
     \/ refLock = "none" /\ refLock' = "young" /\ UNCHANGED idxLock
  /\ UNCHANGED <<work, index, commits, refs, guard, pc, ofOp, ops, published, pending, overrode, side>>

LockAges ==
  /\ pending = 0
  /\ \/ idxLock = "young" /\ idxLock' = "old" /\ UNCHANGED refLock
     \/ refLock = "young" /\ refLock' = "old" /\ UNCHANGED idxLock
  /\ UNCHANGED <<work, index, commits, refs, guard, pc, ofOp, ops, strange, published, pending, overrode, side>>

\* A slow commit: the old value is verified under the lock, the rename comes later.
StrangerBegins ==
  /\ StrangeDeed /\ refLock = "none" /\ idxLock = "none"
  /\ refLock' = "young" /\ pending' = refs.session
  /\ UNCHANGED <<work, index, commits, refs, guard, idxLock, pc, ofOp, ops, published, overrode, side>>

StrangerEnds ==
  /\ pending # 0 /\ pending' = 0 /\ refLock' = "none"
  /\ commits' = Append(commits, [parent |-> pending, tree |-> commits[pending].tree, by |-> Stranger])
  /\ refs' = [refs EXCEPT !.session = Len(commits) + 1]
  /\ published' = published \cup {<<"session", Len(commits) + 1>>}
  /\ UNCHANGED <<work, index, guard, idxLock, pc, ofOp, ops, strange, overrode, side>>

Publish(w) ==
  \/ Write(w) \/ Stage(w) \/ StageFails(w) \/ NothingStaged(w) \/ SomethingStaged(w)
  \/ AskForward(w) \/ Enter(w) \/ Busy(w) \/ ListOthers(w) \/ CommitOnly(w)
  \/ CommitOnlyEmpty(w) \/ Restage(w) \/ RestageRaises(w) \/ FallBack(w) \/ Plumb(w)
  \/ PlumbEmpty(w) \/ PlumbAgain(w) \/ PlumbGivesUp(w) \/ Resolve(w) \/ ResolveEnds(w)
  \/ UpdateRef(w) \/ CompareRef(w) \/ UpdateRefused(w) \/ WriteRef(w) \/ Report(w) \/ Die(w)

Outside == (\E r \in {"session", "main"} : StrangerCommits(r)) \/ StrangerLocks \/ LockAges
           \/ StrangerBegins \/ StrangerEnds

Next == (\E w \in Writer : Publish(w)) \/ Outside
Spec == Init /\ [][Next]_vars

-----------------------------------------------------------------------------
TypeOK ==
  /\ work \in [Path -> Nat] /\ index \in [Path -> Nat]
  /\ refs \in [{"session", "main"} -> DOMAIN commits]
  /\ guard \in Writer \cup {Nobody}
  /\ {idxLock, refLock} \subseteq {"none", "young", "old"}
  /\ \A w \in Writer : kept[w] \subseteq Path /\ made[w] \in {0} \cup DOMAIN commits

\* What a session or another git process was told is published stays on its
\* branch, whatever path the commit took and whoever published since, but for two
\* direct writes: one compared under the lock of a living process, and one into the
\* git directory of a linked worktree, whose last commit may be on no branch
\* (git_repo.py:637-665, 954-1001, 339-420).
Stands(x) == x[2] \in Ancestors[refs[x[1]]] \/ (linked /\ x[2] = aside[x[1]])
PublishedStays == overrode \/ \A x \in published : Stands(x)

\* A session's commit changes its own files only, though all sessions share one
\* index and stage outside the lock (git_repo.py:845-952).
OwnFilesOnly ==
  \A n \in DOMAIN commits : commits[n].by # Stranger =>
    \A p \in Path \ PathsOf[commits[n].by] : commits[n].tree[p] = commits[commits[n].parent].tree[p]

\* No version of a file ever goes back along a branch: an update of one session
\* is not undone by the commit of another, staged earlier (git_repo.py:875-952).
NoFileGoesBack ==
  \A n \in DOMAIN commits : commits[n].parent # 0 =>
    \A p \in Path : commits[n].tree[p] >= commits[commits[n].parent].tree[p]

\* "The compare-and-swap check ensures we don't clobber a concurrent update"
\* (git_repo.py:633-634) would be this, which TLC refutes: under the lock of a living
\* stranger, and in a linked worktree.
NothingClobbered == \A x \in published : x[2] \in Ancestors[refs[x[1]]]

\* Commits of sessions that share files and an index do not disturb each other.
CommitsAreSeparate == OwnFilesOnly /\ NoFileGoesBack

\* What was published stays, and it was published by itself.
PublicationsStand == PublishedStays /\ CommitsAreSeparate
-----------------------------------------------------------------------------
(* What PublicationsStand rests on, for a proof by induction. *)
Branch == {"session", "main"}
Commit == [parent : Nat, tree : [Path -> Nat], by : Writer \cup {Stranger}]
Inside == {"porcelain", "only", "restage", "plumbing", "resolve", "update", "write", "report"}
Place == {"idle", "written", "staged", "waiting", "dead"} \cup Inside
Goal == {"none", "commit", "forward"}
Number == {0} \cup DOMAIN commits
Types ==
  /\ commits \in Seq(Commit) /\ kept \in [Writer -> SUBSET Path] /\ overrode \in BOOLEAN
  /\ pc \in [Writer -> Place] /\ goal \in [Writer -> Goal]
  /\ base \in [Writer -> Number] /\ made \in [Writer -> Number]
  /\ linked \in BOOLEAN /\ aside \in [Branch -> Number]
  /\ pending \in Number /\ published \subseteq Branch \X DOMAIN commits

\* A commit comes after its parent, which a session's commit has, and the
\* ancestors of an ancestor are ancestors.
Linked ==
  /\ \A n \in DOMAIN commits : commits[n].parent \in 0 .. n - 1
  /\ \A n \in DOMAIN commits : commits[n].by # Stranger => commits[n].parent # 0
  /\ Ancestors \in [DOMAIN commits -> SUBSET DOMAIN commits]
  /\ \A n \in DOMAIN commits :
       Ancestors[n] = {n} \cup IF commits[n].parent = 0 THEN {} ELSE Ancestors[commits[n].parent]
  /\ \A n \in DOMAIN commits : \A m \in Ancestors[n] : Ancestors[m] \subseteq Ancestors[n]

\* No commit is ahead of the index, nor the index of the worktree.
Behind == \A p \in Path : index[p] <= work[p] /\ \A n \in DOMAIN commits : commits[n].tree[p] <= index[p]

\* The write lock is held while git is at work, and a stranger's commit by git's own lock.
Guarded == \A w \in Writer : pc[w] \in Inside => guard = w
Held == pending # 0 => refLock = "young" /\ (overrode \/ refs.session = pending)

\* A publication under way leads forward from where its branch is, or was.
UnderWay(w) ==
  /\ pc[w] \in {"written", "staged", "porcelain", "only", "restage", "plumbing"} => goal[w] = "commit"
  /\ pc[w] = "resolve" => goal[w] # "commit"
  /\ pc[w] \in {"update", "write"} =>
       /\ base[w] # 0 /\ made[w] # 0 /\ base[w] \in Ancestors[made[w]]
       /\ overrode \/ base[w] \in Ancestors[refs[Target(goal[w])]]
  /\ pc[w] = "write" /\ linked => aside[Target(goal[w])] \in {0, base[w]}
  /\ pc[w] = "write" /\ ~linked =>
       overrode \/ (refLock # "none" /\ pending = 0 /\ refs[Target(goal[w])] = base[w])
  /\ pc[w] \in {"restage", "report"} =>
       made[w] # 0 /\ (overrode \/ Stands(<<Target(goal[w]), made[w]>>))
IInv ==
  /\ TypeOK /\ Types /\ Linked /\ Behind /\ Guarded /\ Held /\ (\A w \in Writer : UnderWay(w))
  /\ PublicationsStand
=============================================================================

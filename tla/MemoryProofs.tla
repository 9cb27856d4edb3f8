---- MODULE MemoryProofs ----
(***************************************************************************)
(* Proofs about the components of MCHarness, for every value of their       *)
(* constants.  Each section is about one component: the variables are        *)
(* called by the names its module gives them, after the name of its           *)
(* instance; the inductive invariant IInv is defined in that module.          *)
(***************************************************************************)
EXTENDS MCMemory, FiniteSetTheorems, WellFoundedInduction, TLAPS

(* Some number of a set of numbers is the lowest.                              *)
LEMMA HasLowest ==
  ASSUME NEW D \in SUBSET Nat, D # {}
  PROVE  \E d \in D : \A e \in D : d <= e
<1> DEFINE R == {ss \in Nat \X Nat : ss[1] < ss[2]}
<1>1. IsWellFoundedOn(R, Nat)
  BY Zenon, NatLessThanWellFounded DEF OpToRel
<1>2. PICK d \in D : \A e \in D : ~(<<e, d>> \in R)
  <2> HIDE DEF R
  <2> QED BY <1>1, WFMin
<1>3. \A x, y \in Nat : x < y => <<x, y>> \in R
  OBVIOUS
<1>4. ASSUME NEW e \in D PROVE d <= e
  <2>1. d \in Nat /\ e \in Nat /\ ~(e < d)
    BY <1>2, <1>3
  <2> QED BY <2>1
<1> QED BY <1>4

-----------------------------------------------------------------------------
(* GitCommit. *)
Git_work == x1
Git_index == x2
Git_commits == x3
Git_refs == x4
Git_guard == x5
Git_idxLock == x6
Git_refLock == x7
Git_pc == x8
Git_goal == x9
Git_base == x10
Git_made == x11
Git_kept == x12
Git_ops == x13
Git_strange == x14
Git_published == x15
Git_pending == x16
Git_overrode == x17
Git_linked == x18
Git_aside == x19
USE DEF Git_work, Git_index, Git_commits, Git_refs, Git_guard, Git_idxLock, Git_refLock, Git_pc,
  Git_goal, Git_base, Git_made, Git_kept, Git_ops, Git_strange, Git_published, Git_pending,
  Git_overrode, Git_linked, Git_aside

(* A gives the ancestors of the first n commits, whose parents p gives.         *)
GitChainOf(A, p, n) ==
  \A i \in 1 .. n : p[i] \in 0 .. i - 1 /\ A[i] = {i} \cup IF p[i] = 0 THEN {} ELSE A[p[i]]

(* The ancestors of commits are given by their parents alone.                  *)
LEMMA GitOneChain ==
  ASSUME NEW n \in Nat, NEW A, NEW B, NEW p, GitChainOf(A, p, n), GitChainOf(B, p, n)
  PROVE  \A i \in 1 .. n : A[i] = B[i]
<1> USE DEF GitChainOf
<1> DEFINE D == {i \in 1 .. n : A[i] # B[i]}
<1> SUFFICES ASSUME D # {} PROVE FALSE
  OBVIOUS
<1>1. D \in SUBSET Nat
  OBVIOUS
<1>2. PICK d \in D : \A e \in D : d <= e
  <2> HIDE DEF D
  <2> QED BY <1>1, HasLowest
<1>3. /\ d \in 1 .. n /\ A[d] # B[d] /\ p[d] \in 0 .. d - 1
      /\ A[d] = {d} \cup IF p[d] = 0 THEN {} ELSE A[p[d]]
      /\ B[d] = {d} \cup IF p[d] = 0 THEN {} ELSE B[p[d]]
  OBVIOUS
<1>4. p[d] # 0 => p[d] \in 1 .. n /\ ~(d <= p[d])
  BY <1>3
<1>5. p[d] # 0 => A[p[d]] = B[p[d]]
  BY <1>2, <1>4
<1> HIDE DEF D, GitChainOf
<1> QED BY <1>3, <1>5

(* What is appended is at the end, and the rest where it was.                   *)
LEMMA GitLonger ==
  ASSUME NEW S, NEW s \in Seq(S), NEW c \in S, NEW t, t = Append(s, c)
  PROVE  /\ Len(s) \in Nat /\ DOMAIN s = 1 .. Len(s) /\ t \in Seq(S) /\ DOMAIN t = 1 .. Len(s) + 1
         /\ t[Len(s) + 1] = c /\ \A n \in DOMAIN s : t[n] = s[n] /\ s[n] \in S
OBVIOUS

(* The ancestors are as the definition says if anything is.                     *)
LEMMA GitIsChain ==
  ASSUME NEW A, A = [n \in DOMAIN Git_commits |-> {n} \cup IF Git_commits[n].parent = 0 THEN {} ELSE A[Git_commits[n].parent]]
  PROVE  Git!Ancestors = [n \in DOMAIN Git_commits |->
                        {n} \cup IF Git_commits[n].parent = 0 THEN {} ELSE Git!Ancestors[Git_commits[n].parent]]
BY Zenon DEF Git!Ancestors

(* The same, of the ancestors after a step.                                    *)
LEMMA GitIsChainNext ==
  ASSUME NEW A, A = [n \in DOMAIN Git_commits' |-> {n} \cup IF Git_commits'[n].parent = 0 THEN {} ELSE A[Git_commits'[n].parent]]
  PROVE  Git!Ancestors' = [n \in DOMAIN Git_commits' |->
                         {n} \cup IF Git_commits'[n].parent = 0 THEN {} ELSE Git!Ancestors'[Git_commits'[n].parent]]
BY Zenon DEF Git!Ancestors

(* One commit that everything begins with.                                     *)
LEMMA GitInitIInv == Git!Init => Git!IInv
<1> SUFFICES ASSUME Git!Init PROVE Git!IInv
  OBVIOUS
<1>1. /\ Git_work = [p \in GitPath |-> 0] /\ Git_index = Git_work /\ Git_commits = <<Git!Genesis>> /\ Git_refs = [session |-> 1, main |-> 1]
      /\ Git_guard = Git!Nobody /\ Git_idxLock = "none" /\ Git_refLock = "none" /\ Git_pc = [w \in GitWriter |-> "idle"]
      /\ Git_goal = [w \in GitWriter |-> "none"] /\ Git_base = [w \in GitWriter |-> 0] /\ Git_made = Git_base /\ Git_kept = [w \in GitWriter |-> {}]
      /\ Git_published = {} /\ Git_pending = 0 /\ Git_overrode = FALSE
      /\ Git_linked \in BOOLEAN /\ Git_aside = [session |-> 0, main |-> 0]
  BY DEF Git!Init
<1>2. Git!Genesis \in Git!Commit /\ Git!Genesis.parent = 0 /\ Git!Genesis.by = GitStranger /\ \A p \in GitPath : Git!Genesis.tree[p] = 0
  BY DEF Git!Genesis, Git!Commit
<1>3. Git_commits \in Seq(Git!Commit) /\ DOMAIN Git_commits = {1} /\ Git_commits[1] = Git!Genesis
  <2> HIDE DEF Git!Genesis
  <2> QED BY <1>1, <1>2
<1>4. Git_refs \in [Git!Branch -> DOMAIN Git_commits]
  BY <1>1, <1>3 DEF Git!Branch
<1>5. Git!TypeOK
  BY <1>1, <1>3, <1>4 DEF Git!TypeOK, Git!Branch
<1>6. Git!Types
  <2>1. Git_overrode \in BOOLEAN
    BY <1>1
  <2>2. 0 \in Git!Number /\ "idle" \in Git!Place /\ "none" \in Git!Goal
    BY DEF Git!Number, Git!Place, Git!Goal
  <2>3. Git_aside \in [Git!Branch -> Git!Number]
    BY <1>1, <2>2 DEF Git!Branch
  <2> QED BY <1>1, <1>3, <2>1, <2>2, <2>3 DEF Git!Types, Git!Branch
<1>7. Git!Linked
  <2> DEFINE A == [n \in {1} |-> {1}]
  <2>1. A = [n \in DOMAIN Git_commits |-> {n} \cup IF Git_commits[n].parent = 0 THEN {} ELSE A[Git_commits[n].parent]]
    BY <1>2, <1>3
  <2>2. Git!Ancestors = [n \in DOMAIN Git_commits |->
                       {n} \cup IF Git_commits[n].parent = 0 THEN {} ELSE Git!Ancestors[Git_commits[n].parent]]
    BY <2>1, GitIsChain
  <2>3. Git!Ancestors = [n \in {1} |-> {1}]
    BY <1>2, <1>3, <2>2
  <2> QED BY <1>2, <1>3, <2>2, <2>3 DEF Git!Linked
<1>8. Git!Behind
  BY <1>1, <1>2, <1>3 DEF Git!Behind
<1>9. Git!Guarded /\ Git!Held /\ \A w \in GitWriter : Git!UnderWay(w)
  BY <1>1 DEF Git!Guarded, Git!Inside, Git!Held, Git!UnderWay
<1>10. Git!PublicationsStand
  BY <1>1, <1>2, <1>3 DEF Git!PublicationsStand, Git!PublishedStays, Git!CommitsAreSeparate, Git!OwnFilesOnly,
       Git!NoFileGoesBack
<1> QED BY <1>5, <1>6, <1>7, <1>8, <1>9, <1>10 DEF Git!IInv

-----------------------------------------------------------------------------
(* A commit with a parent is added; the ancestors of the others stay.          *)
LEMMA GitAppended ==
  ASSUME Git!IInv, NEW c \in Git!Commit, Git_commits' = Append(Git_commits, c), c.parent \in DOMAIN Git_commits
  PROVE  /\ Len(Git_commits) \in Nat /\ DOMAIN Git_commits = 1 .. Len(Git_commits) /\ Git_commits' \in Seq(Git!Commit)
         /\ DOMAIN Git_commits' = 1 .. Len(Git_commits) + 1 /\ Git_commits'[Len(Git_commits) + 1] = c
         /\ \A n \in DOMAIN Git_commits : Git_commits'[n] = Git_commits[n] /\ Git!Ancestors'[n] = Git!Ancestors[n]
         /\ Git!Ancestors'[Len(Git_commits) + 1] = {Len(Git_commits) + 1} \cup Git!Ancestors[c.parent]
         /\ Git!Linked'
<1> DEFINE N == Len(Git_commits)
<1>1. /\ N \in Nat /\ DOMAIN Git_commits = 1 .. N /\ Git_commits' \in Seq(Git!Commit) /\ DOMAIN Git_commits' = 1 .. N + 1
      /\ Git_commits'[N + 1] = c /\ \A n \in DOMAIN Git_commits : Git_commits'[n] = Git_commits[n]
  BY GitLonger DEF Git!IInv, Git!Types
<1>2. Git!Linked
  BY DEF Git!IInv
<1> DEFINE A == [n \in 1 .. N + 1 |-> IF n = N + 1 THEN {N + 1} \cup Git!Ancestors[c.parent] ELSE Git!Ancestors[n]]
<1> HIDE DEF N
<1>3. \A n \in 1 .. N + 1 : Git_commits'[n].parent \in 0 .. n - 1
  <2>1. \A n \in 1 .. N : Git_commits'[n].parent \in 0 .. n - 1
    BY <1>1, <1>2 DEF Git!Linked
  <2>2. Git_commits'[N + 1].parent \in 0 .. (N + 1) - 1
    BY <1>1
  <2>3. \A n \in 1 .. N + 1 : n \in 1 .. N \/ n = N + 1
    BY <1>1
  <2> QED BY <2>1, <2>2, <2>3
<1>4. \A n \in 1 .. N + 1 : A[n] = {n} \cup IF Git_commits'[n].parent = 0 THEN {} ELSE A[Git_commits'[n].parent]
  <2>1. A[N + 1] = {N + 1} \cup Git!Ancestors[c.parent] /\ \A n \in 1 .. N : A[n] = Git!Ancestors[n]
    BY <1>1
  <2>2. ASSUME NEW n \in 1 .. N PROVE A[n] = {n} \cup IF Git_commits'[n].parent = 0 THEN {} ELSE A[Git_commits'[n].parent]
    <3>1. Git_commits'[n] = Git_commits[n] /\ Git_commits[n].parent \in 0 .. n - 1
      BY <1>1, <1>2 DEF Git!Linked
    <3>2. Git_commits[n].parent # 0 => Git_commits[n].parent \in 1 .. N
      BY <1>1, <3>1
    <3>3. Git!Ancestors[n] = {n} \cup IF Git_commits[n].parent = 0 THEN {} ELSE Git!Ancestors[Git_commits[n].parent]
      BY <1>1, <1>2 DEF Git!Linked
    <3>4. A[n] = Git!Ancestors[n] /\ (Git_commits[n].parent # 0 => A[Git_commits[n].parent] = Git!Ancestors[Git_commits[n].parent])
      BY <2>1, <3>2
    <3> HIDE DEF A
    <3> QED BY <3>1, <3>3, <3>4
  <2>3. A[N + 1] = {N + 1} \cup IF Git_commits'[N + 1].parent = 0 THEN {} ELSE A[Git_commits'[N + 1].parent]
    <3>1. c.parent \in 1 .. N /\ c.parent # 0
      BY <1>1
    <3> HIDE DEF A
    <3> QED BY <1>1, <2>1, <3>1
  <2>4. \A n \in 1 .. N + 1 : n \in 1 .. N \/ n = N + 1
    BY <1>1
  <2> QED BY <2>2, <2>3, <2>4
<1>5. A = [n \in DOMAIN Git_commits' |-> {n} \cup IF Git_commits'[n].parent = 0 THEN {} ELSE A[Git_commits'[n].parent]]
  <2>1. A = [n \in 1 .. N + 1 |-> A[n]]
    OBVIOUS
  <2> HIDE DEF A
  <2> QED BY <1>1, <1>4, <2>1
<1>6. Git!Ancestors' = [n \in DOMAIN Git_commits' |->
                      {n} \cup IF Git_commits'[n].parent = 0 THEN {} ELSE Git!Ancestors'[Git_commits'[n].parent]]
  <2> HIDE DEF A
  <2> QED BY <1>5, GitIsChainNext
<1>7. \A n \in 1 .. N + 1 :
        Git!Ancestors'[n] = {n} \cup IF Git_commits'[n].parent = 0 THEN {} ELSE Git!Ancestors'[Git_commits'[n].parent]
  BY <1>1, <1>6
<1>8. \A n \in 1 .. N + 1 : A[n] = Git!Ancestors'[n]
  <2> DEFINE p == [n \in 1 .. N + 1 |-> Git_commits'[n].parent]
  <2> DEFINE B == Git!Ancestors'
  <2>1. /\ \A n \in 1 .. N + 1 : p[n] \in 0 .. n - 1
        /\ \A n \in 1 .. N + 1 : A[n] = {n} \cup IF p[n] = 0 THEN {} ELSE A[p[n]]
        /\ \A n \in 1 .. N + 1 : B[n] = {n} \cup IF p[n] = 0 THEN {} ELSE B[p[n]]
    BY <1>3, <1>4, <1>7
  <2>2. N + 1 \in Nat
    BY <1>1
  <2>3. B = Git!Ancestors'
    OBVIOUS
  <2> HIDE DEF p, A, B
  <2>4. GitChainOf(A, p, N + 1) /\ GitChainOf(B, p, N + 1)
    BY <2>1 DEF GitChainOf
  <2>5. \A n \in 1 .. N + 1 : A[n] = B[n]
    BY <2>2, <2>4, GitOneChain
  <2> QED BY <2>3, <2>5
<1>9. Git!Ancestors'[N + 1] = {N + 1} \cup Git!Ancestors[c.parent] /\ \A n \in 1 .. N : Git!Ancestors'[n] = Git!Ancestors[n]
  BY <1>1, <1>8
<1> HIDE DEF A
<1>10. Git!Linked'
  <2>1. \A n \in 1 .. N : Git!Ancestors[n] \subseteq 1 .. N /\ \A m \in Git!Ancestors[n] : Git!Ancestors[m] \subseteq Git!Ancestors[n]
    BY <1>1, <1>2 DEF Git!Linked
  <2>2. c.parent \in 1 .. N /\ N + 1 \in 1 .. N + 1 /\ \A n \in 1 .. N : n \in 1 .. N + 1
    BY <1>1
  <2>3. \A n \in 1 .. N + 1 : n \in 1 .. N \/ n = N + 1
    BY <1>1
  <2>4. \A n \in 1 .. N + 1 : Git!Ancestors'[n] \in SUBSET (1 .. N + 1)
    BY <1>9, <2>1, <2>2, <2>3
  <2>5. \A n \in 1 .. N + 1 : \A m \in Git!Ancestors'[n] : Git!Ancestors'[m] \subseteq Git!Ancestors'[n]
    <3>1. ASSUME NEW n \in 1 .. N, NEW m \in Git!Ancestors'[n] PROVE Git!Ancestors'[m] \subseteq Git!Ancestors'[n]
      BY <1>9, <2>1, <3>1
    <3>2. ASSUME NEW m \in Git!Ancestors'[N + 1] PROVE Git!Ancestors'[m] \subseteq Git!Ancestors'[N + 1]
      <4>1. CASE m = N + 1
        BY <4>1
      <4>2. CASE m \in Git!Ancestors[c.parent]
        BY <1>9, <2>1, <2>2, <4>2
      <4> QED BY <1>9, <3>2, <4>1, <4>2
    <3> QED BY <2>3, <3>1, <3>2
  <2>6. Git!Ancestors' \in [DOMAIN Git_commits' -> SUBSET DOMAIN Git_commits']
    BY <1>1, <1>6, <2>4
  <2>7. \A n \in DOMAIN Git_commits' : Git_commits'[n].by # GitStranger => Git_commits'[n].parent # 0
    BY <1>1, <1>2, <2>2, <2>3 DEF Git!Linked
  <2>8. /\ \A n \in DOMAIN Git_commits' : Git_commits'[n].parent \in 0 .. n - 1
        /\ \A n \in DOMAIN Git_commits' :
             Git!Ancestors'[n] = {n} \cup IF Git_commits'[n].parent = 0 THEN {} ELSE Git!Ancestors'[Git_commits'[n].parent]
        /\ \A n \in DOMAIN Git_commits' : \A m \in Git!Ancestors'[n] : Git!Ancestors'[m] \subseteq Git!Ancestors'[n]
    BY <1>1, <1>3, <1>7, <2>5
  <2> QED BY Zenon, <2>6, <2>7, <2>8 DEF Git!Linked
<1> QED BY <1>1, <1>9, <1>10 DEF N

(* Commits that are there stay as separate as they were.                       *)
LEMMA GitSeparate ==
  ASSUME Git!IInv, NEW c \in Git!Commit, Git_commits' = Append(Git_commits, c), c.parent \in DOMAIN Git_commits,
         c.by # GitStranger => \A p \in GitPath \ GitPathsOf[c.by] : c.tree[p] = Git_commits[c.parent].tree[p],
         \A p \in GitPath : c.tree[p] >= Git_commits[c.parent].tree[p]
  PROVE  Git!CommitsAreSeparate'
<1> DEFINE N == Len(Git_commits)
<1>1. /\ N \in Nat /\ DOMAIN Git_commits = 1 .. N /\ DOMAIN Git_commits' = 1 .. N + 1 /\ Git_commits'[N + 1] = c
      /\ \A n \in DOMAIN Git_commits : Git_commits'[n] = Git_commits[n]
  BY GitAppended
<1> HIDE DEF N
<1>2. \A n \in DOMAIN Git_commits : Git_commits[n].parent \in 0 .. n - 1 /\ (Git_commits[n].parent # 0 => Git_commits[n].parent \in DOMAIN Git_commits)
  <2>1. \A n \in DOMAIN Git_commits : Git_commits[n].parent \in 0 .. n - 1
    BY DEF Git!IInv, Git!Linked
  <2> QED BY <1>1, <2>1
<1>3. \A n \in DOMAIN Git_commits' : n \in DOMAIN Git_commits \/ n = N + 1
  BY <1>1
<1>4. Git!OwnFilesOnly'
  <2>1. Git!OwnFilesOnly
    BY DEF Git!IInv, Git!PublicationsStand, Git!CommitsAreSeparate
  <2>2. \A n \in DOMAIN Git_commits : Git_commits[n].by # GitStranger => Git_commits[n].parent # 0
    BY DEF Git!IInv, Git!Linked
  <2>3. \A n \in DOMAIN Git_commits : Git_commits[n].by # GitStranger => Git_commits'[Git_commits[n].parent] = Git_commits[Git_commits[n].parent]
    BY <1>1, <1>2, <2>2
  <2>4. c.by # GitStranger => Git_commits'[c.parent] = Git_commits[c.parent]
    BY <1>1
  <2>5. ASSUME NEW n \in DOMAIN Git_commits, Git_commits[n].by # GitStranger, NEW p \in GitPath \ GitPathsOf[Git_commits[n].by]
        PROVE  Git_commits'[n].tree[p] = Git_commits'[Git_commits'[n].parent].tree[p]
    <3>1. Git_commits'[n] = Git_commits[n] /\ Git_commits'[Git_commits[n].parent] = Git_commits[Git_commits[n].parent]
      BY <1>1, <2>3, <2>5
    <3>2. Git_commits[n].tree[p] = Git_commits[Git_commits[n].parent].tree[p]
      BY <2>1, <2>5 DEF Git!OwnFilesOnly
    <3> QED BY <3>1, <3>2
  <2>6. ASSUME c.by # GitStranger, NEW p \in GitPath \ GitPathsOf[c.by] PROVE c.tree[p] = Git_commits'[c.parent].tree[p]
    BY <2>4, <2>6
  <2>7. ASSUME NEW n \in DOMAIN Git_commits', Git_commits'[n].by # GitStranger, NEW p \in GitPath \ GitPathsOf[Git_commits'[n].by]
        PROVE  Git_commits'[n].tree[p] = Git_commits'[Git_commits'[n].parent].tree[p]
    <3>1. CASE n \in DOMAIN Git_commits
      BY <1>1, <2>5, <2>7, <3>1
    <3>2. CASE n = N + 1
      BY <1>1, <2>6, <2>7, <3>2
    <3> QED BY <1>3, <3>1, <3>2
  <2> QED BY <2>7 DEF Git!OwnFilesOnly
<1>5. Git!NoFileGoesBack'
  <2>1. Git!NoFileGoesBack
    BY DEF Git!IInv, Git!PublicationsStand, Git!CommitsAreSeparate
  <2> QED BY <1>1, <1>2, <1>3, <2>1 DEF Git!NoFileGoesBack
<1> QED BY <1>4, <1>5 DEF Git!CommitsAreSeparate

-----------------------------------------------------------------------------
(* What a commit is.                                                           *)
LEMMA GitTyped ==
  ASSUME Git!Types
  PROVE  \A n \in DOMAIN Git_commits : Git_commits[n] \in Git!Commit /\ Git_commits[n].tree \in [GitPath -> Nat]
<1>1. Git_commits \in Seq(Git!Commit)
  BY DEF Git!Types
<1>2. \A n \in DOMAIN Git_commits : Git_commits[n] \in Git!Commit
  BY <1>1
<1>3. \A c \in Git!Commit : c.tree \in [GitPath -> Nat]
  BY DEF Git!Commit
<1> QED BY <1>2, <1>3

(* No commit is made by a step.                                                *)
LEMMA GitStill ==
  ASSUME Git!IInv, Git_commits' = Git_commits
  PROVE  Git!Linked' /\ Git!CommitsAreSeparate' /\ Git!Ancestors' = Git!Ancestors
<1>1. Git!Ancestors' = Git!Ancestors
  BY Zenon DEF Git!Ancestors
<1>2. Git!Linked'
  BY <1>1 DEF Git!IInv, Git!Linked
<1>3. Git!CommitsAreSeparate'
  BY DEF Git!IInv, Git!PublicationsStand, Git!CommitsAreSeparate, Git!OwnFilesOnly, Git!NoFileGoesBack
<1> QED BY <1>1, <1>2, <1>3

(* A step of publication w, and of no other.                                   *)
GitAlone(w) ==
  /\ Git_pc' = [Git_pc EXCEPT ![w] = Git_pc'[w]] /\ Git_goal' = [Git_goal EXCEPT ![w] = Git_goal'[w]]
  /\ Git_base' = [Git_base EXCEPT ![w] = Git_base'[w]] /\ Git_made' = [Git_made EXCEPT ![w] = Git_made'[w]]
  /\ Git_kept' = [Git_kept EXCEPT ![w] = Git_kept'[w]]
  /\ Git_pc'[w] \in Git!Place /\ Git_goal'[w] \in Git!Goal /\ Git_base'[w] \in Git!Number' /\ Git_made'[w] \in Git!Number'
  /\ Git_kept'[w] \in SUBSET GitPath

(* The publications stay typed, and those of others stay.                      *)
LEMMA GitFramed ==
  ASSUME Git!Types, NEW w \in GitWriter, GitAlone(w), DOMAIN Git_commits \subseteq DOMAIN Git_commits'
  PROVE  /\ Git_pc' \in [GitWriter -> Git!Place] /\ Git_goal' \in [GitWriter -> Git!Goal] /\ Git_kept' \in [GitWriter -> SUBSET GitPath]
         /\ Git_base' \in [GitWriter -> Git!Number'] /\ Git_made' \in [GitWriter -> Git!Number']
         /\ \A v \in GitWriter \ {w} : Git_pc'[v] = Git_pc[v] /\ Git_goal'[v] = Git_goal[v] /\ Git_base'[v] = Git_base[v] /\ Git_made'[v] = Git_made[v]
<1>1. Git_pc \in [GitWriter -> Git!Place] /\ Git_goal \in [GitWriter -> Git!Goal] /\ Git_kept \in [GitWriter -> SUBSET GitPath]
  BY DEF Git!Types
<1>2. Git_base \in [GitWriter -> Git!Number'] /\ Git_made \in [GitWriter -> Git!Number']
  BY DEF Git!Types, Git!Number
<1>3. Git_pc' \in [GitWriter -> Git!Place] /\ Git_goal' \in [GitWriter -> Git!Goal] /\ Git_kept' \in [GitWriter -> SUBSET GitPath]
  BY <1>1 DEF GitAlone
<1>4. Git_base' \in [GitWriter -> Git!Number'] /\ Git_made' \in [GitWriter -> Git!Number']
  BY <1>2 DEF GitAlone
<1>5. \A v \in GitWriter \ {w} : Git_pc'[v] = Git_pc[v] /\ Git_goal'[v] = Git_goal[v] /\ Git_base'[v] = Git_base[v] /\ Git_made'[v] = Git_made[v]
  BY <1>1, <1>2 DEF GitAlone
<1> QED BY <1>3, <1>4, <1>5

(* When the branches only go forward, what others publish and have published   *)
(* stays on them; a ref that one of them has compared is still as it was, and   *)
(* a ref file of a linked worktree that is written over named a commit of its   *)
(* branch.                                                                     *)
LEMMA GitOthersGoOn ==
  ASSUME Git!IInv, NEW w,
         \A n \in DOMAIN Git_commits : n \in DOMAIN Git_commits' /\ Git!Ancestors'[n] = Git!Ancestors[n],
         Git!Linked', Git_refs' \in [Git!Branch -> DOMAIN Git_commits'],
         \A r \in Git!Branch : Git_overrode' \/ Git_refs[r] \in Git!Ancestors'[Git_refs'[r]],
         Git_overrode' \in BOOLEAN, Git_overrode => Git_overrode', Git_linked' = Git_linked,
         \A r \in Git!Branch : Git_overrode' \/ Git_aside'[r] = Git_aside[r] \/ Git_aside[r] \in {0} \cup Git!Ancestors'[Git_refs'[r]],
         \A v \in GitWriter \ {w} : Git_pc'[v] = Git_pc[v] /\ Git_goal'[v] = Git_goal[v] /\ Git_base'[v] = Git_base[v] /\ Git_made'[v] = Git_made[v],
         \A v \in GitWriter \ {w} : Git_pc[v] = "write" =>
           Git_aside' = Git_aside /\ (Git_overrode' \/ Git_linked \/ (Git_refLock' # "none" /\ Git_pending' = 0 /\ Git_refs' = Git_refs))
  PROVE  /\ \A v \in GitWriter \ {w} : Git!UnderWay(v)'
         /\ \A x \in Git_published : Git_overrode' \/ Git!Stands(x)'
<1>1. /\ Git_refs \in [Git!Branch -> DOMAIN Git_commits] /\ Git_published \subseteq Git!Branch \X DOMAIN Git_commits
      /\ Git_base \in [GitWriter -> Git!Number] /\ Git_made \in [GitWriter -> Git!Number] /\ \A n \in DOMAIN Git_commits : n # 0
  BY DEF Git!IInv, Git!TypeOK, Git!Types, Git!Branch
<1>2. \A r \in Git!Branch : Git_overrode' \/ Git!Ancestors[Git_refs[r]] \subseteq Git!Ancestors'[Git_refs'[r]]
  <2>1. \A n \in DOMAIN Git_commits' : \A m \in Git!Ancestors'[n] : Git!Ancestors'[m] \subseteq Git!Ancestors'[n]
    BY DEF Git!Linked
  <2>2. \A r \in Git!Branch : Git_refs[r] \in DOMAIN Git_commits /\ Git_refs'[r] \in DOMAIN Git_commits'
    BY <1>1
  <2> QED BY <2>1, <2>2
<1>3. ASSUME NEW r \in Git!Branch, NEW m, m # 0, Git_overrode \/ Git!Stands(<<r, m>>)
      PROVE  Git_overrode' \/ m \in Git!Ancestors'[Git_refs'[r]] \/ (Git_linked' /\ m = Git_aside'[r])
  <2>1. CASE m \in Git!Ancestors[Git_refs[r]]
    BY <1>2, <2>1
  <2>2. CASE Git_linked /\ m = Git_aside[r]
    BY <1>3, <2>2
  <2> QED BY <1>3, <2>1, <2>2 DEF Git!Stands
<1>4. \A x \in Git_published : Git_overrode' \/ Git!Stands(x)'
  <2>1. \A x \in Git_published : Git_overrode \/ Git!Stands(x)
    BY DEF Git!IInv, Git!PublicationsStand, Git!PublishedStays
  <2>2. \A x \in Git_published : x[1] \in Git!Branch /\ x[2] # 0 /\ x = <<x[1], x[2]>>
    BY <1>1
  <2>3. \A x \in Git_published : Git_overrode' \/ x[2] \in Git!Ancestors'[Git_refs'[x[1]]] \/ (Git_linked' /\ x[2] = Git_aside'[x[1]])
    BY <1>3, <2>1, <2>2
  <2> QED BY <2>3 DEF Git!Stands
<1>5. ASSUME NEW v \in GitWriter \ {w} PROVE Git!UnderWay(v)'
  <2>1. Git!UnderWay(v)
    BY DEF Git!IInv
  <2>2. Git!Target(Git_goal[v]) \in Git!Branch /\ Git!Target(Git_goal'[v]) = Git!Target(Git_goal[v])
    BY DEF Git!Target, Git!Branch
  <2>3. Git_base[v] \in Git!Number /\ Git_made[v] \in Git!Number
    BY <1>1
  <2>4. Git_pc[v] \in {"update", "write"} =>
          /\ Git_base[v] # 0 /\ Git_made[v] # 0 /\ Git_base[v] \in Git!Ancestors'[Git_made[v]]
          /\ Git_overrode' \/ Git_base[v] \in Git!Ancestors'[Git_refs'[Git!Target(Git_goal[v])]]
    BY <1>2, <2>1, <2>2, <2>3 DEF Git!UnderWay, Git!Number
  <2>5. Git_pc[v] \in {"restage", "report"} => Git_made[v] # 0 /\ (Git_overrode' \/ Git!Stands(<<Git!Target(Git_goal[v]), Git_made[v]>>)')
    <3>1. ASSUME Git_pc[v] \in {"restage", "report"} PROVE Git_made[v] # 0 /\ (Git_overrode \/ Git!Stands(<<Git!Target(Git_goal[v]), Git_made[v]>>))
      BY <2>1, <3>1 DEF Git!UnderWay
    <3>2. Git_pc[v] \in {"restage", "report"} => Git_made[v] # 0 /\
            (Git_overrode' \/ Git_made[v] \in Git!Ancestors'[Git_refs'[Git!Target(Git_goal[v])]] \/ (Git_linked' /\ Git_made[v] = Git_aside'[Git!Target(Git_goal[v])]))
      BY <1>3, <2>2, <3>1
    <3> QED BY <2>2, <3>2 DEF Git!Stands
  <2>6. Git_pc[v] = "write" /\ ~Git_linked' => Git_overrode' \/ (Git_refLock' # "none" /\ Git_pending' = 0 /\ Git_refs'[Git!Target(Git_goal[v])] = Git_base[v])
    BY <2>1 DEF Git!UnderWay
  <2>7. Git_pc[v] = "write" /\ Git_linked' => Git_aside'[Git!Target(Git_goal[v])] \in {0, Git_base[v]}
    BY <2>1 DEF Git!UnderWay
  <2>8. /\ Git_pc[v] \in {"written", "staged", "porcelain", "only", "restage", "plumbing"} => Git_goal[v] = "commit"
        /\ Git_pc[v] = "resolve" => Git_goal[v] # "commit"
    BY <2>1 DEF Git!UnderWay
  <2>9. Git_pc'[v] = Git_pc[v] /\ Git_goal'[v] = Git_goal[v] /\ Git_base'[v] = Git_base[v] /\ Git_made'[v] = Git_made[v]
    OBVIOUS
  <2> HIDE DEF Git!Stands
  <2> QED BY <2>2, <2>4, <2>5, <2>6, <2>7, <2>8, <2>9 DEF Git!UnderWay
<1> QED BY <1>4, <1>5

(* A step that makes no commit and moves no branch.                            *)
LEMMA GitQuiet ==
  ASSUME Git!IInv, NEW w \in GitWriter, GitAlone(w), Git_commits' = Git_commits, Git_refs' = Git_refs, Git_pending' = Git_pending,
         Git_work' \in [GitPath -> Nat], Git_index' \in [GitPath -> Nat],
         \A p \in GitPath : Git_index[p] <= Git_index'[p] /\ Git_index'[p] <= Git_work'[p],
         Git_guard' \in GitWriter \cup {Git!Nobody}, {Git_idxLock', Git_refLock'} \subseteq {"none", "young", "old"},
         Git_refLock' = Git_refLock \/ (Git_refLock # "young" /\ \A v \in GitWriter \ {w} : Git_guard # v),
         \A v \in GitWriter \ {w} : Git_guard = v => Git_guard' = v,
         Git_overrode' \in BOOLEAN, Git_overrode => Git_overrode', Git!side' = Git!side,
         Git_published' \subseteq Git!Branch \X DOMAIN Git_commits,
         \A x \in Git_published' : x \in Git_published \/ Git_overrode' \/ Git!Stands(x),
         Git_pc'[w] \in Git!Inside => Git_guard' = w, Git!UnderWay(w)'
  PROVE  Git!IInv'
<1>1. Git!Linked' /\ Git!CommitsAreSeparate' /\ Git!Ancestors' = Git!Ancestors
  BY GitStill
<1>2. Git!Types /\ Git!TypeOK /\ Git!Guarded /\ Git!Held /\ Git!Behind /\ Git!Linked
  BY DEF Git!IInv
<1>3. /\ Git_pc' \in [GitWriter -> Git!Place] /\ Git_goal' \in [GitWriter -> Git!Goal] /\ Git_kept' \in [GitWriter -> SUBSET GitPath]
      /\ Git_base' \in [GitWriter -> Git!Number'] /\ Git_made' \in [GitWriter -> Git!Number']
      /\ \A v \in GitWriter \ {w} : Git_pc'[v] = Git_pc[v] /\ Git_goal'[v] = Git_goal[v] /\ Git_base'[v] = Git_base[v] /\ Git_made'[v] = Git_made[v]
  BY <1>2, GitFramed
<1>4. Git!Types'
  <2>1. Git_commits' \in Seq(Git!Commit) /\ Git_pending' \in Git!Number' /\ Git_published' \subseteq Git!Branch \X DOMAIN Git_commits'
        /\ Git_linked' \in BOOLEAN /\ Git_aside' \in [Git!Branch -> Git!Number']
    BY <1>2 DEF Git!Types, Git!Number, Git!side
  <2> QED BY <1>3, <2>1 DEF Git!Types
<1>5. Git!TypeOK'
  <2>1. Git_refs' \in [{"session", "main"} -> DOMAIN Git_commits']
    BY <1>2 DEF Git!TypeOK
  <2>2. \A v \in GitWriter : Git_kept'[v] \subseteq GitPath /\ Git_made'[v] \in {0} \cup DOMAIN Git_commits'
    BY <1>3 DEF Git!Number
  <2> QED BY <2>1, <2>2 DEF Git!TypeOK
<1>6. Git!Behind'
  <2>1. /\ Git_index \in [GitPath -> Nat] /\ Git_commits \in Seq(Git!Commit)
        /\ \A p \in GitPath : \A n \in DOMAIN Git_commits : Git_commits[n].tree[p] <= Git_index[p]
    BY <1>2 DEF Git!TypeOK, Git!Types, Git!Behind
  <2>2. \A n \in DOMAIN Git_commits : Git_commits[n].tree \in [GitPath -> Nat]
    BY <1>2, GitTyped
  <2>3. \A p \in GitPath : \A n \in DOMAIN Git_commits : Git_commits[n].tree[p] <= Git_index'[p]
    BY <2>1, <2>2
  <2> QED BY <2>3 DEF Git!Behind
<1>7. Git!Guarded'
  BY <1>2, <1>3 DEF Git!Guarded
<1>8. Git!Held'
  BY <1>2 DEF Git!Held
<1>9. \A v \in GitWriter \ {w} : Git_pc[v] = "write" =>
        Git_aside' = Git_aside /\ (Git_overrode' \/ Git_linked \/ (Git_refLock' # "none" /\ Git_pending' = 0 /\ Git_refs' = Git_refs))
  <2>1. ASSUME NEW v \in GitWriter \ {w}, Git_pc[v] = "write"
        PROVE  Git_overrode' \/ Git_linked \/ (Git_refLock' # "none" /\ Git_pending' = 0 /\ Git_refs' = Git_refs)
    <3>1. Git_guard = v
      BY <1>2, <2>1 DEF Git!Guarded, Git!Inside
    <3>2. Git_overrode \/ Git_linked \/ (Git_refLock # "none" /\ Git_pending = 0)
      BY <2>1 DEF Git!IInv, Git!UnderWay
    <3> QED BY <3>1, <3>2
  <2> QED BY <2>1 DEF Git!side
<1>10. Git_refs' \in [Git!Branch -> DOMAIN Git_commits'] /\ \A r \in Git!Branch : Git_refs[r] \in Git!Ancestors'[Git_refs'[r]]
  <2>1. Git_refs \in [Git!Branch -> DOMAIN Git_commits]
    BY <1>2 DEF Git!TypeOK, Git!Branch
  <2>2. \A n \in DOMAIN Git_commits : n \in Git!Ancestors[n]
    BY <1>2 DEF Git!Linked
  <2> QED BY <1>1, <2>1, <2>2
<1>11. /\ \A v \in GitWriter \ {w} : Git!UnderWay(v)'
       /\ \A x \in Git_published : Git_overrode' \/ Git!Stands(x)'
  <2>1. Git_linked' = Git_linked /\ Git_aside' = Git_aside
    BY DEF Git!side
  <2> QED BY <1>1, <1>3, <1>9, <1>10, <2>1, GitOthersGoOn
<1>12. Git!PublishedStays'
  <2>1. \A x \in Git_published' : Git!Stands(x) => Git!Stands(x)'
    BY <1>1 DEF Git!Stands, Git!side
  <2> QED BY <1>11, <2>1 DEF Git!PublishedStays
<1> QED BY <1>1, <1>4, <1>5, <1>6, <1>7, <1>8, <1>11, <1>12 DEF Git!IInv, Git!PublicationsStand

(* The end of a publication, with whatever it reports.                         *)
LEMMA GitEnds ==
  ASSUME Git!IInv, NEW w \in GitWriter, Git!End(w), UNCHANGED <<Git_work, Git_index, Git_commits, Git_refs, Git!locks, Git_pending, Git_overrode, Git!side>>,
         Git_published' \subseteq Git!Branch \X DOMAIN Git_commits,
         \A x \in Git_published' : x \in Git_published \/ Git_overrode' \/ Git!Stands(x)
  PROVE  Git!IInv'
<1>1. Git!TypeOK /\ Git!Types /\ Git!Behind
  BY DEF Git!IInv
<1>2. Git_pc'[w] = "idle" /\ GitAlone(w)
  BY <1>1 DEF Git!Types, Git!End, Git!Goto, GitAlone, Git!Place, Git!Goal, Git!Number
<1>3. Git!UnderWay(w)' /\ Git_pc'[w] \notin Git!Inside
  BY <1>2 DEF Git!UnderWay, Git!Inside
<1>4. /\ Git_work' \in [GitPath -> Nat] /\ Git_index' \in [GitPath -> Nat]
      /\ \A p \in GitPath : Git_index[p] <= Git_index'[p] /\ Git_index'[p] <= Git_work'[p]
  BY <1>1 DEF Git!TypeOK, Git!Behind
<1>5. /\ Git_guard' \in GitWriter \cup {Git!Nobody} /\ {Git_idxLock', Git_refLock'} \subseteq {"none", "young", "old"}
      /\ Git_refLock' = Git_refLock /\ Git_overrode' = Git_overrode /\ Git_overrode' \in BOOLEAN
      /\ \A v \in GitWriter \ {w} : Git_guard = v => Git_guard' = v
  BY <1>1 DEF Git!TypeOK, Git!Types, Git!End, Git!locks
<1> QED BY <1>2, <1>3, <1>4, <1>5, GitQuiet

(* Publications that end without a report.                                     *)
LEMMA GitEndsQuietly ==
  ASSUME Git!IInv, NEW w \in GitWriter, Git!End(w), UNCHANGED <<Git_work, Git_index, Git_commits, Git_refs, Git!locks, Git_ops, Git_strange, Git_published, Git_pending, Git_overrode, Git!side>>
  PROVE  Git!IInv'
<1>1. Git_published' = Git_published /\ Git_published \subseteq Git!Branch \X DOMAIN Git_commits
  BY DEF Git!IInv, Git!Types
<1>2. UNCHANGED <<Git_work, Git_index, Git_commits, Git_refs, Git!locks, Git_pending, Git_overrode, Git!side>>
  OBVIOUS
<1> QED BY <1>1, <1>2, GitEnds

(* A step that changes neither a file nor a lock.                              *)
LEMMA GitSame ==
  ASSUME Git!IInv, NEW w \in GitWriter, GitAlone(w), UNCHANGED <<Git_work, Git_index, Git_commits, Git_refs, Git_guard, Git!locks, Git_published, Git_pending, Git!side>>,
         Git_overrode' \in BOOLEAN, Git_overrode => Git_overrode', Git_pc'[w] \in Git!Inside => Git_pc[w] \in Git!Inside, Git!UnderWay(w)'
  PROVE  Git!IInv'
<1>1. Git!TypeOK /\ Git!Types /\ Git!Behind /\ Git!Guarded
  BY DEF Git!IInv
<1>2. /\ Git_work' \in [GitPath -> Nat] /\ Git_index' \in [GitPath -> Nat]
      /\ \A p \in GitPath : Git_index[p] <= Git_index'[p] /\ Git_index'[p] <= Git_work'[p]
  BY <1>1 DEF Git!TypeOK, Git!Behind
<1>3. /\ Git_guard' \in GitWriter \cup {Git!Nobody} /\ {Git_idxLock', Git_refLock'} \subseteq {"none", "young", "old"}
      /\ Git_refLock' = Git_refLock /\ Git_guard' = Git_guard
  BY <1>1 DEF Git!TypeOK, Git!locks
<1>4. Git_published' = Git_published /\ Git_published \subseteq Git!Branch \X DOMAIN Git_commits
  BY <1>1 DEF Git!Types
<1>5. Git_pc'[w] \in Git!Inside => Git_guard' = w
  BY <1>1, <1>3 DEF Git!Guarded
<1>6. Git_commits' = Git_commits /\ Git_refs' = Git_refs /\ Git_pending' = Git_pending
  OBVIOUS
<1> QED BY <1>2, <1>3, <1>4, <1>5, <1>6, GitQuiet

(* The branches, their commits, and how these relate to the index.             *)
GitFooting ==
  /\ Git_refs \in [Git!Branch -> DOMAIN Git_commits] /\ DOMAIN Git_commits \subseteq Nat \ {0}
  /\ \A n \in DOMAIN Git_commits : Git_commits[n].tree \in [GitPath -> Nat] /\ n \in Git!Ancestors[n]
  /\ \A n \in DOMAIN Git_commits : \A p \in GitPath : Git_commits[n].tree[p] <= Git_index[p]
  /\ \A p \in GitPath : Git_index[p] <= Git_work[p]
  /\ Git_work \in [GitPath -> Nat] /\ Git_index \in [GitPath -> Nat]
  /\ Git_aside \in [Git!Branch -> Git!Number]

(* The branches stand on commits.                                              *)
LEMMA GitAtBranch == ASSUME Git!IInv PROVE GitFooting
<1>1. Git!TypeOK /\ Git!Types /\ Git!Behind /\ Git!Linked
  BY DEF Git!IInv
<1>2. \A n \in DOMAIN Git_commits : Git_commits[n].tree \in [GitPath -> Nat]
  BY <1>1, GitTyped
<1>3. DOMAIN Git_commits \subseteq Nat \ {0} /\ Git_aside \in [Git!Branch -> Git!Number]
  BY <1>1 DEF Git!Types
<1> HIDE DEF Git!Number
<1> QED BY <1>1, <1>2, <1>3 DEF Git!TypeOK, Git!Behind, Git!Linked, Git!Branch, GitFooting

(* Steps that change neither a file nor a lock.                                *)
LEMMA GitSameSteps ==
  ASSUME Git!IInv, NEW w \in GitWriter,
         Git!SomethingStaged(w) \/ Git!AskForward(w) \/ Git!ListOthers(w) \/ Git!Resolve(w) \/ Git!CompareRef(w) \/ Git!Die(w)
  PROVE  Git!IInv'
<1>1. Git!TypeOK /\ Git!Types /\ Git!Linked /\ Git!UnderWay(w) /\ Git!Held
  BY DEF Git!IInv
<1>2. UNCHANGED <<Git_work, Git_index, Git_commits, Git_refs, Git_guard, Git!locks, Git_published, Git_pending, Git!side>>
  BY DEF Git!SomethingStaged, Git!AskForward, Git!ListOthers, Git!Resolve, Git!CompareRef, Git!Die
<1>3. Git_overrode' \in BOOLEAN /\ (Git_overrode => Git_overrode')
  BY <1>1 DEF Git!Types, Git!SomethingStaged, Git!AskForward, Git!ListOthers, Git!Resolve, Git!CompareRef,
       Git!Die
<1>4. \A r \in Git!Branch : Git_refs[r] \in Git!Number /\ Git_refs[r] # 0
  <2>1. Git_refs \in [Git!Branch -> DOMAIN Git_commits]
    BY <1>1 DEF Git!TypeOK, Git!Branch
  <2>2. \A n \in DOMAIN Git_commits : n # 0
    BY <1>1 DEF Git!Types
  <2> QED BY <2>1, <2>2 DEF Git!Number
<1>5. GitAlone(w)
  <2>1. CASE Git!SomethingStaged(w)
    BY <1>1, <2>1 DEF Git!Types, Git!SomethingStaged, Git!Goto, GitAlone, Git!Place, Git!ofOp, Git!Number
  <2>2. CASE Git!AskForward(w)
    BY <1>1, <2>2 DEF Git!Types, Git!AskForward, Git!Goto, GitAlone, Git!Place, Git!Goal, Git!Number
  <2>3. CASE Git!ListOthers(w)
    BY <1>1, <2>3 DEF Git!Types, Git!ListOthers, Git!Goto, GitAlone, Git!Place, Git!Inside, Git!Number,
         Git!StagedPaths
  <2>4. CASE Git!Resolve(w)
    BY <1>1, <1>4, <2>4 DEF Git!Types, Git!Resolve, Git!Goto, GitAlone, Git!Place, Git!Inside, Git!Number,
         Git!Branch
  <2>5. CASE Git!CompareRef(w)
    BY <1>1, <2>5 DEF Git!Types, Git!CompareRef, Git!Goto, GitAlone, Git!Place, Git!Inside, Git!Number, Git!ofOp
  <2>6. CASE Git!Die(w)
    BY <1>1, <2>6 DEF Git!Types, Git!Die, Git!Goto, GitAlone, Git!Place, Git!Number, Git!ofOp
  <2> QED BY <2>1, <2>2, <2>3, <2>4, <2>5, <2>6
<1>6. Git_pc'[w] \in Git!Inside => Git_pc[w] \in Git!Inside
  BY <1>1 DEF Git!Types, Git!SomethingStaged, Git!AskForward, Git!ListOthers, Git!Resolve, Git!CompareRef,
       Git!Die, Git!Goto, Git!Inside
<1>7. Git!UnderWay(w)'
  <2>1. CASE Git!SomethingStaged(w)
    BY <1>1, <2>1 DEF Git!Types, Git!SomethingStaged, Git!Goto, Git!UnderWay
  <2>2. CASE Git!AskForward(w)
    BY <1>1, <2>2 DEF Git!Types, Git!AskForward, Git!Goto, Git!UnderWay
  <2>3. CASE Git!ListOthers(w)
    BY <1>1, <2>3 DEF Git!Types, Git!ListOthers, Git!Goto, Git!UnderWay
  <2>4. CASE Git!Resolve(w)
    <3>1. Git_pc'[w] = "update" /\ Git_base'[w] = Git_refs.main /\ Git_made'[w] = Git_refs.session /\ Git_refs.main \in Git!Ancestors[Git_refs.session]
      BY <1>1, <2>4 DEF Git!Types, Git!Resolve, Git!Goto, Git!Forwards
    <3>2. Git_base'[w] # 0 /\ Git_made'[w] # 0
      BY <1>4, <3>1 DEF Git!Branch
    <3>3. Git!Ancestors' = Git!Ancestors
      BY <1>2, GitStill
    <3>4. Git_goal'[w] # "commit" /\ Git_base'[w] \in Git!Ancestors[Git_refs.main] /\ Git_refs' = Git_refs
      BY <1>1, <2>4, <3>1, GitAtBranch DEF Git!UnderWay, Git!Resolve, GitFooting, Git!Branch
    <3>5. Git!Target(Git_goal[w])' = "main"
      BY <3>4 DEF Git!Target
    <3> QED BY <3>1, <3>2, <3>3, <3>4, <3>5 DEF Git!UnderWay
  <2>5. CASE Git!CompareRef(w)
    <3>1. /\ Git_pc[w] = "update" /\ Git_pc'[w] = "write" /\ Git_goal' = Git_goal /\ Git_base' = Git_base /\ Git_made' = Git_made /\ Git_refs' = Git_refs
          /\ Git_refLock # "none" /\ Git_refLock' = Git_refLock /\ Git_pending' = Git_pending
          /\ Git_linked' = Git_linked /\ Git_aside' = Git_aside /\ Git!Found(Git!Target(Git_goal[w])) \in {0, Git_base[w]}
      BY <1>1, <2>5 DEF Git!Types, Git!CompareRef, Git!Goto, Git!Passes, Git!ofOp, Git!locks, Git!side
    <3>2. /\ (Git_overrode => Git_overrode') /\ (Git_linked \/ Git_overrode' \/ Git_pending' = 0)
          /\ ~Git_linked => Git_refs[Git!Target(Git_goal[w])] = Git_base[w]
          /\ Git_linked => Git_aside[Git!Target(Git_goal[w])] \in {0, Git_base[w]}
      <4>1. Git_refs[Git!Target(Git_goal[w])] # 0
        BY <1>4 DEF Git!Target, Git!Branch
      <4> QED BY <1>3, <2>5, <3>1, <4>1 DEF Git!CompareRef, Git!Found
    <3>3. Git!Ancestors' = Git!Ancestors
      BY <1>2, GitStill
    <3>4. Git!Target(Git_goal[w])' = Git!Target(Git_goal[w])
      BY <3>1 DEF Git!Target
    <3> QED BY <1>1, <3>1, <3>2, <3>3, <3>4 DEF Git!UnderWay
  <2>6. CASE Git!Die(w)
    BY <1>1, <2>6 DEF Git!Types, Git!Die, Git!Goto, Git!UnderWay
  <2> QED BY <2>1, <2>2, <2>3, <2>4, <2>5, <2>6
<1> QED BY <1>2, <1>3, <1>5, <1>6, <1>7, GitSame

(* Steps that change files, or remove lock files of the dead.                  *)
LEMMA GitQuietSteps ==
  ASSUME Git!IInv, NEW w \in GitWriter, Git!Write(w) \/ Git!Stage(w) \/ Git!Enter(w) \/ Git!Restage(w) \/ Git!FallBack(w) \/ Git!PlumbAgain(w)
  PROVE  Git!IInv'
<1>1. Git!TypeOK /\ Git!Types /\ Git!UnderWay(w) /\ Git!Behind /\ Git!Guarded /\ (\A v \in GitWriter : v # Git!Nobody)
  BY GitAssumption DEF Git!IInv
<1>8. Git!side' = Git!side
  BY DEF Git!Write, Git!Stage, Git!Enter, Git!Restage, Git!FallBack, Git!PlumbAgain
<1>2. Git_commits' = Git_commits /\ Git_refs' = Git_refs /\ Git_pending' = Git_pending /\ Git_published' = Git_published /\ Git_overrode' = Git_overrode
  BY DEF Git!Write, Git!Stage, Git!Enter, Git!Restage, Git!FallBack, Git!PlumbAgain
<1>3. Git_overrode' \in BOOLEAN /\ Git_published' \subseteq Git!Branch \X DOMAIN Git_commits
  BY <1>1, <1>2 DEF Git!Types
<1>4. GitAlone(w)
  <2>1. CASE Git!Write(w)
    BY <1>1, <2>1 DEF Git!Types, Git!Write, Git!Goto, GitAlone, Git!Place, Git!Goal, Git!Number
  <2>2. CASE Git!Stage(w)
    BY <1>1, <2>2 DEF Git!Types, Git!Stage, Git!Goto, GitAlone, Git!Place, Git!ofOp, Git!Number
  <2>3. CASE Git!Enter(w)
    BY <1>1, <2>3 DEF Git!Types, Git!Enter, Git!Goto, GitAlone, Git!Place, Git!Inside, Git!ofOp, Git!Number
  <2>4. CASE Git!Restage(w)
    BY <1>1, <2>4 DEF Git!Types, Git!Restage, Git!Goto, GitAlone, Git!Place, Git!Inside, Git!ofOp, Git!Number
  <2>5. CASE Git!FallBack(w)
    BY <1>1, <2>5 DEF Git!Types, Git!FallBack, Git!Goto, GitAlone, Git!Place, Git!Inside, Git!ofOp, Git!Number
  <2>6. CASE Git!PlumbAgain(w)
    BY <1>1, <2>6 DEF Git!Types, Git!PlumbAgain, GitAlone, Git!ofOp, Git!Number
  <2> QED BY <2>1, <2>2, <2>3, <2>4, <2>5, <2>6
<1>5. Git!UnderWay(w)'
  <2>1. CASE Git!Write(w)
    BY <1>1, <2>1 DEF Git!Types, Git!Write, Git!Goto, Git!UnderWay
  <2>2. CASE Git!Stage(w)
    BY <1>1, <2>2 DEF Git!Types, Git!Stage, Git!Goto, Git!UnderWay, Git!ofOp
  <2>3. CASE Git!Enter(w)
    BY <1>1, <2>3 DEF Git!Types, Git!Enter, Git!Goto, Git!UnderWay, Git!ofOp, Git!Goal
  <2>4. CASE Git!Restage(w)
    <3>1. /\ Git_pc[w] = "restage" /\ Git_pc'[w] = "report" /\ Git_goal' = Git_goal /\ Git_made' = Git_made /\ Git_refs' = Git_refs
          /\ Git_overrode' = Git_overrode
      BY <1>1, <2>4 DEF Git!Types, Git!Restage, Git!Goto, Git!ofOp
    <3>2. Git!Ancestors' = Git!Ancestors
      BY <1>2, GitStill
    <3>3. Git!Target(Git_goal[w])' = Git!Target(Git_goal[w])
      BY <3>1 DEF Git!Target
    <3>4. Git!Stands(<<Git!Target(Git_goal[w]), Git_made[w]>>) <=> Git!Stands(<<Git!Target(Git_goal[w]), Git_made[w]>>)'
      BY <1>8, <3>1, <3>2, <3>3 DEF Git!Stands, Git!side
    <3> HIDE DEF Git!Stands
    <3> QED BY <1>1, <3>1, <3>4 DEF Git!UnderWay
  <2>5. CASE Git!FallBack(w)
    BY <1>1, <2>5 DEF Git!Types, Git!FallBack, Git!Goto, Git!UnderWay, Git!ofOp
  <2>6. CASE Git!PlumbAgain(w)
    BY <1>1, <2>6 DEF Git!Types, Git!PlumbAgain, Git!UnderWay, Git!ofOp
  <2> QED BY <2>1, <2>2, <2>3, <2>4, <2>5, <2>6
<1>6. Git_work' \in [GitPath -> Nat] /\ Git_index' \in [GitPath -> Nat] /\ \A p \in GitPath : Git_index[p] <= Git_index'[p] /\ Git_index'[p] <= Git_work'[p]
  <2>1. CASE Git!Write(w)
    BY <1>1, <2>1, GitAssumption DEF Git!TypeOK, Git!Behind, Git!Write
  <2>2. CASE Git!Stage(w) \/ Git!Restage(w)
    BY <1>1, <2>2 DEF Git!TypeOK, Git!Behind, Git!Stage, Git!Restage
  <2>3. CASE Git!Enter(w) \/ Git!FallBack(w) \/ Git!PlumbAgain(w)
    BY <1>1, <2>3 DEF Git!TypeOK, Git!Behind, Git!Enter, Git!FallBack, Git!PlumbAgain
  <2> QED BY <2>1, <2>2, <2>3
<1>7. /\ Git_guard' \in GitWriter \cup {Git!Nobody} /\ {Git_idxLock', Git_refLock'} \subseteq {"none", "young", "old"}
      /\ Git_refLock' = Git_refLock \/ (Git_refLock # "young" /\ \A v \in GitWriter \ {w} : Git_guard # v)
      /\ \A v \in GitWriter \ {w} : Git_guard = v => Git_guard' = v
      /\ Git_pc'[w] \in Git!Inside => Git_guard' = w
  <2>1. CASE Git!Write(w) \/ Git!Stage(w) \/ Git!Restage(w)
    BY <1>1, <2>1 DEF Git!TypeOK, Git!Types, Git!Write, Git!Stage, Git!Restage, Git!locks, Git!Goto,
         Git!Guarded, Git!Inside
  <2>2. CASE Git!Enter(w)
    BY <1>1, <2>2 DEF Git!TypeOK, Git!Enter, Git!Cleaned
  <2>3. CASE Git!FallBack(w)
    BY <1>1, <2>3 DEF Git!TypeOK, Git!FallBack, Git!Cleaned, Git!Guarded, Git!Inside
  <2>4. CASE Git!PlumbAgain(w)
    BY <1>1, <2>4 DEF Git!TypeOK, Git!PlumbAgain, Git!Guarded, Git!Inside
  <2> QED BY <2>1, <2>2, <2>3, <2>4
<1> QED BY <1>8, <1>2, <1>3, <1>4, <1>5, <1>6, <1>7, GitQuiet

(* The publications that w is none of are typed and as they were.              *)
GitOthersStay(w) ==
  /\ Git_pc' \in [GitWriter -> Git!Place] /\ Git_goal' \in [GitWriter -> Git!Goal] /\ Git_kept' \in [GitWriter -> SUBSET GitPath]
  /\ Git_base' \in [GitWriter -> Git!Number'] /\ Git_made' \in [GitWriter -> Git!Number']
  /\ \A v \in GitWriter \ {w} : Git_pc'[v] = Git_pc[v] /\ Git_goal'[v] = Git_goal[v] /\ Git_base'[v] = Git_base[v] /\ Git_made'[v] = Git_made[v]

(* A step of a session or of a stranger that may make a commit or move a branch. *)
LEMMA GitMoves ==
  ASSUME Git!IInv, NEW w, Git_commits' \in Seq(Git!Commit), Git!Linked', Git!CommitsAreSeparate', Git!Behind', Git!Held',
         \A n \in DOMAIN Git_commits : n \in DOMAIN Git_commits' /\ Git!Ancestors'[n] = Git!Ancestors[n],
         Git_refs' \in [Git!Branch -> DOMAIN Git_commits'], \A r \in Git!Branch : Git_overrode \/ Git_refs[r] \in Git!Ancestors'[Git_refs'[r]],
         Git_work' \in [GitPath -> Nat], Git_index' \in [GitPath -> Nat], Git_guard' = Git_guard,
         {Git_idxLock', Git_refLock'} \subseteq {"none", "young", "old"}, Git_overrode' = Git_overrode, Git_pending' \in Git!Number',
         GitOthersStay(w), Git_published' \subseteq Git!Branch \X DOMAIN Git_commits',
         \A x \in Git_published' : x \in Git_published \/ Git_overrode \/ x[2] \in Git!Ancestors'[Git_refs'[x[1]]],
         Git_linked' = Git_linked, Git_aside' \in [Git!Branch -> Git!Number'],
         \A r \in Git!Branch : Git_overrode \/ Git_aside'[r] = Git_aside[r] \/ Git_aside[r] \in {0} \cup Git!Ancestors'[Git_refs'[r]],
         \A v \in GitWriter \ {w} : Git_pc[v] = "write" =>
           Git_aside' = Git_aside /\ (Git_overrode \/ Git_linked \/ (Git_refLock' # "none" /\ Git_pending' = 0 /\ Git_refs' = Git_refs)),
         w \in GitWriter => Git!UnderWay(w)' /\ (Git_pc'[w] \in Git!Inside => Git_guard = w)
  PROVE  Git!IInv'
<1>1. Git!Types /\ Git!TypeOK /\ Git!Guarded /\ Git_overrode' \in BOOLEAN
  BY DEF Git!IInv, Git!Types
<1>2. Git!Types'
  <2>1. Git_linked' \in BOOLEAN
    BY <1>1 DEF Git!Types
  <2> QED BY <1>1, <2>1, Zenon DEF Git!Types, GitOthersStay
<1>3. Git!TypeOK'
  <2>1. Git_refs' \in [{"session", "main"} -> DOMAIN Git_commits']
    BY DEF Git!Branch
  <2>2. \A v \in GitWriter : Git_kept'[v] \subseteq GitPath /\ Git_made'[v] \in {0} \cup DOMAIN Git_commits'
    BY DEF GitOthersStay, Git!Number
  <2> QED BY <1>1, <2>1, <2>2 DEF Git!TypeOK
<1>4. Git!Guarded'
  BY <1>1 DEF Git!Guarded, GitOthersStay
<1>5. /\ \A v \in GitWriter \ {w} : Git!UnderWay(v)'
      /\ \A x \in Git_published : Git_overrode' \/ Git!Stands(x)'
  <2>1. \A v \in GitWriter \ {w} : Git_pc'[v] = Git_pc[v] /\ Git_goal'[v] = Git_goal[v] /\ Git_base'[v] = Git_base[v] /\ Git_made'[v] = Git_made[v]
    BY DEF GitOthersStay
  <2>2. Git_overrode => Git_overrode'
    OBVIOUS
  <2>3. \A r \in Git!Branch : Git_overrode' \/ Git_refs[r] \in Git!Ancestors'[Git_refs'[r]]
    OBVIOUS
  <2>4. \A v \in GitWriter \ {w} : Git_pc[v] = "write" =>
          Git_aside' = Git_aside /\ (Git_overrode' \/ Git_linked \/ (Git_refLock' # "none" /\ Git_pending' = 0 /\ Git_refs' = Git_refs))
    OBVIOUS
  <2>5. \A r \in Git!Branch : Git_overrode' \/ Git_aside'[r] = Git_aside[r] \/ Git_aside[r] \in {0} \cup Git!Ancestors'[Git_refs'[r]]
    OBVIOUS
  <2> QED BY <1>1, <2>1, <2>2, <2>3, <2>4, <2>5, GitOthersGoOn
<1>6. Git!PublishedStays'
  <2>1. \A x \in Git_published' : x[2] \in Git!Ancestors'[Git_refs'[x[1]]] => Git!Stands(x)'
    BY DEF Git!Stands
  <2> QED BY <1>5, <2>1 DEF Git!PublishedStays
<1>7. \A v \in GitWriter : Git!UnderWay(v)'
  BY <1>5
<1> QED BY <1>2, <1>3, <1>4, <1>6, <1>7 DEF Git!IInv, Git!PublicationsStand

(* Nobody else is about to write a ref while w holds the write lock.           *)
LEMMA GitNoOther ==
  ASSUME Git!IInv, NEW w \in GitWriter, Git_pc[w] \in Git!Inside
  PROVE  Git_guard = w /\ \A v \in GitWriter \ {w} : Git_pc[v] # "write"
BY DEF Git!IInv, Git!Guarded, Git!Inside

(* A branch is moved to the commit that a publication has made or resolved.    *)
LEMMA GitRefStep ==
  ASSUME Git!IInv, NEW w \in GitWriter, Git!UpdateRef(w) \/ (Git!WriteRef(w) /\ ~Git_linked)
  PROVE  Git!IInv'
<1> DEFINE r == Git!Target(Git_goal[w])
<1>1. Git!TypeOK /\ Git!Types /\ Git!Linked /\ Git!UnderWay(w) /\ Git!Held /\ Git!Behind
  BY DEF Git!IInv
<1>2. Git_pc[w] \in Git!Inside /\ Git_guard = w /\ \A v \in GitWriter \ {w} : Git_pc[v] # "write"
  <2>1. Git_pc[w] \in Git!Inside
    BY DEF Git!UpdateRef, Git!WriteRef, Git!Inside
  <2> QED BY <2>1, GitNoOther
<1>3. /\ UNCHANGED <<Git_work, Git_index, Git_commits, Git_guard, Git!locks, Git!ofOp, Git_published, Git_pending, Git_overrode, Git_linked, Git_aside>>
      /\ Git_refs' = [Git_refs EXCEPT ![r] = Git_made[w]] /\ Git_pc' = [Git_pc EXCEPT ![w] = "report"]
  BY DEF Git!UpdateRef, Git!WriteRef, Git!Goto, Git!side
<1>4. r \in Git!Branch /\ Git_refs \in [Git!Branch -> DOMAIN Git_commits] /\ \A n \in DOMAIN Git_commits : n \in Git!Ancestors[n]
  BY GitAtBranch DEF Git!Branch, Git!Target, GitFooting
<1>5. Git_made[w] \in DOMAIN Git_commits /\ Git_base[w] \in Git!Ancestors[Git_made[w]] /\ Git_made[w] # 0
  BY <1>1 DEF Git!UpdateRef, Git!WriteRef, Git!UnderWay, Git!Types, Git!Number
<1>6. Git_overrode \/ Git_refs[r] = Git_base[w]
  BY <1>1 DEF Git!UpdateRef, Git!WriteRef, Git!UnderWay, Git!Expected
<1>7. Git_overrode \/ Git_pending = 0
  BY <1>1 DEF Git!UpdateRef, Git!WriteRef, Git!UnderWay, Git!Held
<1>8. Git!Linked' /\ Git!CommitsAreSeparate' /\ Git!Ancestors' = Git!Ancestors
  BY <1>3, GitStill
<1> HIDE DEF r
<1>9. Git_refs' \in [Git!Branch -> DOMAIN Git_commits'] /\ Git_refs'[r] = Git_made[w] /\ \A b \in Git!Branch : Git_overrode \/ Git_refs[b] \in Git!Ancestors'[Git_refs'[b]]
  BY <1>3, <1>4, <1>5, <1>6, <1>8
<1>10. GitOthersStay(w)
  <2>1. "report" \in Git!Place /\ Git!Number' = Git!Number
    BY <1>3 DEF Git!Place, Git!Inside, Git!Number
  <2> QED BY <1>1, <1>3, <2>1 DEF Git!Types, GitOthersStay, Git!ofOp
<1>11. Git!UnderWay(w)'
  <2>1. Git_pc'[w] = "report" /\ Git_made' = Git_made /\ Git!Target(Git_goal[w])' = r
    BY <1>1, <1>3 DEF Git!Types, Git!ofOp, Git!Target, r
  <2>2. Git_made'[w] # 0 /\ Git_made'[w] \in Git!Ancestors'[Git_refs'[Git!Target(Git_goal[w])']]
    BY <1>4, <1>5, <1>8, <1>9, <2>1
  <2> QED BY <2>1, <2>2 DEF Git!UnderWay, Git!Stands
<1>12. Git!Behind' /\ Git!Held'
  BY <1>1, <1>3, <1>7 DEF Git!Behind, Git!Held, Git!locks
<1>13. /\ Git_work' \in [GitPath -> Nat] /\ Git_index' \in [GitPath -> Nat] /\ {Git_idxLock', Git_refLock'} \subseteq {"none", "young", "old"}
       /\ Git_pending' \in Git!Number' /\ Git_commits' \in Seq(Git!Commit) /\ Git_aside' \in [Git!Branch -> Git!Number']
  BY <1>1, <1>3 DEF Git!TypeOK, Git!Types, Git!locks, Git!Number
<1>14. Git_published' = Git_published /\ Git_published' \subseteq Git!Branch \X DOMAIN Git_commits'
  BY <1>1, <1>3 DEF Git!Types
<1>15. \A n \in DOMAIN Git_commits : n \in DOMAIN Git_commits' /\ Git!Ancestors'[n] = Git!Ancestors[n]
  BY <1>3, <1>8
<1> QED BY <1>2, <1>3, <1>8, <1>9, <1>10, <1>11, <1>12, <1>13, <1>14, <1>15, GitMoves

(* A ref file in the git directory of a linked worktree is written: it named    *)
(* nothing, or a commit of the branch.                                         *)
LEMMA GitAsideStep ==
  ASSUME Git!IInv, NEW w \in GitWriter, Git!WriteRef(w), Git_linked
  PROVE  Git!IInv'
<1> DEFINE r == Git!Target(Git_goal[w])
<1>1. Git!TypeOK /\ Git!Types /\ Git!Linked /\ Git!UnderWay(w) /\ Git!Held /\ Git!Behind
  BY DEF Git!IInv
<1>2. Git_pc[w] \in Git!Inside /\ Git_guard = w /\ \A v \in GitWriter \ {w} : Git_pc[v] # "write"
  <2>1. Git_pc[w] \in Git!Inside
    BY DEF Git!WriteRef, Git!Inside
  <2> QED BY <2>1, GitNoOther
<1>3. /\ UNCHANGED <<Git_work, Git_index, Git_commits, Git_refs, Git_guard, Git!locks, Git!ofOp, Git_published, Git_pending, Git_overrode, Git_linked>>
      /\ Git_aside' = [Git_aside EXCEPT ![r] = Git_made[w]] /\ Git_pc' = [Git_pc EXCEPT ![w] = "report"] /\ Git_pc[w] = "write"
  BY DEF Git!WriteRef, Git!Goto
<1>4. r \in Git!Branch /\ Git_refs \in [Git!Branch -> DOMAIN Git_commits] /\ \A n \in DOMAIN Git_commits : n \in Git!Ancestors[n]
  BY GitAtBranch DEF Git!Branch, Git!Target, GitFooting
<1>5. Git_made[w] \in Git!Number /\ Git_made[w] # 0 /\ Git_aside[r] \in {0, Git_base[w]} /\ (Git_overrode \/ Git_base[w] \in Git!Ancestors[Git_refs[r]])
  BY <1>1, <1>3 DEF Git!UnderWay, Git!Types
<1>8. Git!Linked' /\ Git!CommitsAreSeparate' /\ Git!Ancestors' = Git!Ancestors
  BY <1>3, GitStill
<1> HIDE DEF r
<1>9. Git_refs' \in [Git!Branch -> DOMAIN Git_commits'] /\ \A b \in Git!Branch : Git_refs[b] \in Git!Ancestors'[Git_refs'[b]]
  BY <1>3, <1>4, <1>8
<1>10. GitOthersStay(w)
  <2>1. "report" \in Git!Place /\ Git!Number' = Git!Number
    BY <1>3 DEF Git!Place, Git!Inside, Git!Number
  <2> QED BY <1>1, <1>3, <2>1 DEF Git!Types, GitOthersStay, Git!ofOp
<1>11. Git_aside' \in [Git!Branch -> Git!Number'] /\ Git_aside'[r] = Git_made[w]
       /\ \A b \in Git!Branch : Git_overrode \/ Git_aside'[b] = Git_aside[b] \/ Git_aside[b] \in {0} \cup Git!Ancestors'[Git_refs'[b]]
  <2>1. Git!Number' = Git!Number /\ Git_aside \in [Git!Branch -> Git!Number]
    BY <1>1, <1>3 DEF Git!Types, Git!Number
  <2> HIDE DEF Git!Number
  <2>2. Git_aside' \in [Git!Branch -> Git!Number'] /\ Git_aside'[r] = Git_made[w] /\ \A b \in Git!Branch \ {r} : Git_aside'[b] = Git_aside[b]
    BY <1>3, <1>4, <1>5, <2>1
  <2> QED BY <1>3, <1>5, <1>8, <2>2
<1>12. Git!UnderWay(w)'
  <2>1. Git_pc'[w] = "report" /\ Git_made' = Git_made /\ Git!Target(Git_goal[w])' = r
    BY <1>1, <1>3 DEF Git!Types, Git!ofOp, Git!Target, r
  <2> QED BY <1>3, <1>5, <1>11, <2>1 DEF Git!UnderWay, Git!Stands
<1>13. Git!Behind' /\ Git!Held'
  BY <1>1, <1>3 DEF Git!Behind, Git!Held, Git!locks
<1>14. /\ Git_work' \in [GitPath -> Nat] /\ Git_index' \in [GitPath -> Nat] /\ {Git_idxLock', Git_refLock'} \subseteq {"none", "young", "old"}
       /\ Git_pending' \in Git!Number' /\ Git_commits' \in Seq(Git!Commit)
  BY <1>1, <1>3 DEF Git!TypeOK, Git!Types, Git!locks, Git!Number
<1>15. Git_published' = Git_published /\ Git_published' \subseteq Git!Branch \X DOMAIN Git_commits'
  BY <1>1, <1>3 DEF Git!Types
<1>16. \A n \in DOMAIN Git_commits : n \in DOMAIN Git_commits' /\ Git!Ancestors'[n] = Git!Ancestors[n]
  BY <1>3, <1>8
<1> QED BY <1>2, <1>3, <1>8, <1>9, <1>10, <1>11, <1>12, <1>13, <1>14, <1>15, <1>16, GitMoves

(* `git commit --only` adds a commit to the session branch and moves it there. *)
LEMMA GitOnlyStep ==
  ASSUME Git!IInv, NEW w \in GitWriter, Git!CommitOnly(w)
  PROVE  Git!IInv'
<1> DEFINE new == [p \in GitPath |-> IF p \in GitPathsOf[w] THEN Git_work[p] ELSE Git!Tree("session")[p]]
           c == [parent |-> Git_refs.session, tree |-> new, by |-> w]
           N == Len(Git_commits)
<1>1. Git!TypeOK /\ Git!Types /\ Git!Linked /\ Git!UnderWay(w) /\ Git!Held /\ Git!Behind
  BY DEF Git!IInv
<1>2. Git_guard = w /\ \A v \in GitWriter \ {w} : Git_pc[v] # "write"
  BY GitNoOther DEF Git!CommitOnly, Git!Inside
<1>3. /\ Git_commits' = Append(Git_commits, c) /\ Git_refs' = [Git_refs EXCEPT !.session = N + 1] /\ Git_pc[w] = "only"
      /\ Git_index' = [p \in GitPath |-> IF p \in GitPathsOf[w] THEN Git_work[p] ELSE Git_index[p]]
      /\ Git_made' = [Git_made EXCEPT ![w] = N + 1] /\ Git_refLock = "none"
      /\ UNCHANGED <<Git_work, Git_guard, Git!locks, Git_goal, Git_base, Git_kept, Git_published, Git_pending, Git_overrode, Git_linked, Git_aside>>
      /\ Git_pc' = [Git_pc EXCEPT ![w] = IF Git_kept[w] = {} THEN "report" ELSE "restage"]
  BY DEF Git!CommitOnly, Git!Goto, Git!side
<1>4. GitFooting
  BY GitAtBranch
<1> USE DEF GitFooting
<1>5. Git_refs.session \in DOMAIN Git_commits /\ Git!Tree("session") = Git_commits[Git_refs.session].tree
  BY <1>4 DEF Git!Branch, Git!Tree
<1>6. new \in [GitPath -> Nat] /\ \A p \in GitPath : Git_commits[Git_refs.session].tree[p] <= new[p] /\ new[p] <= Git_index'[p]
  BY <1>3, <1>4, <1>5
<1>7. \A p \in GitPath \ GitPathsOf[w] : new[p] = Git_commits[Git_refs.session].tree[p]
  BY <1>5
<1>8. Git_index' \in [GitPath -> Nat] /\ \A p \in GitPath : Git_index[p] <= Git_index'[p] /\ Git_index'[p] <= Git_work[p]
  BY <1>3, <1>4
<1> HIDE DEF new
<1>9. c \in Git!Commit /\ c.parent = Git_refs.session /\ c.tree = new /\ c.by = w
  BY <1>4, <1>5, <1>6 DEF Git!Commit
<1> HIDE DEF c
<1>10. /\ N \in Nat /\ DOMAIN Git_commits = 1 .. N /\ Git_commits' \in Seq(Git!Commit)
       /\ DOMAIN Git_commits' = 1 .. N + 1 /\ Git_commits'[N + 1] = c
       /\ \A n \in DOMAIN Git_commits : Git_commits'[n] = Git_commits[n] /\ Git!Ancestors'[n] = Git!Ancestors[n]
       /\ Git!Ancestors'[N + 1] = {N + 1} \cup Git!Ancestors[Git_refs.session]
       /\ Git!Linked'
  BY <1>3, <1>5, <1>9, GitAppended
<1>11. Git!CommitsAreSeparate'
  BY <1>3, <1>5, <1>6, <1>7, <1>9, GitSeparate
<1> HIDE DEF N
<1>12. /\ N + 1 \in DOMAIN Git_commits' /\ N + 1 # 0
       /\ \A n \in DOMAIN Git_commits : n \in DOMAIN Git_commits' /\ Git!Ancestors'[n] = Git!Ancestors[n]
       /\ \A n \in DOMAIN Git_commits' : n \in DOMAIN Git_commits \/ n = N + 1
  BY <1>10
<1>13. Git_refs' \in [Git!Branch -> DOMAIN Git_commits'] /\ Git_refs'["session"] = N + 1 /\ \A r \in Git!Branch : Git_refs[r] \in Git!Ancestors'[Git_refs'[r]]
  BY <1>3, <1>4, <1>5, <1>10, <1>12 DEF Git!Branch
<1>14. Git!Behind'
  <2>1. \A p \in GitPath : Git_index'[p] <= Git_work'[p]
    BY <1>3, <1>8
  <2>2. ASSUME NEW p \in GitPath, NEW n \in DOMAIN Git_commits' PROVE Git_commits'[n].tree[p] <= Git_index'[p]
    <3>1. CASE n \in DOMAIN Git_commits
      <4>1. Git_commits'[n] = Git_commits[n] /\ Git_commits[n].tree[p] \in Nat /\ Git_commits[n].tree[p] <= Git_index[p]
        BY <1>4, <1>10, <3>1
      <4> QED BY <1>4, <1>8, <4>1
    <3>2. CASE n = N + 1
      BY <1>6, <1>9, <1>10, <3>2
    <3> QED BY <1>12, <3>1, <3>2
  <2> QED BY <2>1, <2>2 DEF Git!Behind
<1>15. Git_pending = 0 /\ Git!Held'
  BY <1>1, <1>3 DEF Git!Held
<1>16. GitOthersStay(w)
  <2>1. /\ Git_pc' \in [GitWriter -> Git!Place] /\ Git_goal' \in [GitWriter -> Git!Goal] /\ Git_kept' \in [GitWriter -> SUBSET GitPath]
        /\ \A v \in GitWriter \ {w} : Git_pc'[v] = Git_pc[v] /\ Git_goal'[v] = Git_goal[v]
    BY <1>1, <1>3 DEF Git!Types, Git!Place, Git!Inside
  <2>2. Git_base \in [GitWriter -> Git!Number'] /\ Git_made \in [GitWriter -> Git!Number'] /\ N + 1 \in Git!Number'
    BY <1>1, <1>12 DEF Git!Types, Git!Number
  <2> HIDE DEF Git!Number
  <2>3. Git_base' \in [GitWriter -> Git!Number'] /\ Git_made' \in [GitWriter -> Git!Number']
        /\ \A v \in GitWriter \ {w} : Git_base'[v] = Git_base[v] /\ Git_made'[v] = Git_made[v]
    BY <1>3, <2>2
  <2> QED BY <2>1, <2>3 DEF GitOthersStay
<1>17. Git!UnderWay(w)'
  <2>1. Git_pc'[w] \in {"report", "restage"} /\ Git_made'[w] = N + 1 /\ Git_goal'[w] = "commit"
    BY <1>1, <1>3 DEF Git!Types, Git!UnderWay
  <2>2. N + 1 \in Git!Ancestors'[N + 1]
    BY <1>10
  <2> QED BY <1>12, <1>13, <2>1, <2>2 DEF Git!UnderWay, Git!Target, Git!Stands
<1>18. /\ Git_work' \in [GitPath -> Nat] /\ {Git_idxLock', Git_refLock'} \subseteq {"none", "young", "old"} /\ Git_pending' \in Git!Number'
       /\ Git_published' = Git_published /\ Git_published' \subseteq Git!Branch \X DOMAIN Git_commits'
       /\ Git_aside' \in [Git!Branch -> Git!Number']
  BY <1>1, <1>3, <1>12 DEF Git!TypeOK, Git!Types, Git!locks, Git!Number
<1> QED BY <1>2, <1>3, <1>8, <1>10, <1>11, <1>12, <1>13, <1>14, <1>15, <1>16, <1>17, <1>18, GitMoves

(* Plumbing adds a commit that the session branch is moved to later.           *)
LEMMA GitPlumbStep ==
  ASSUME Git!IInv, NEW w \in GitWriter, Git!Plumb(w)
  PROVE  Git!IInv'
<1> DEFINE new == [p \in GitPath |-> IF p \in GitPathsOf[w] THEN Git_index[p] ELSE Git!Tree("session")[p]]
           c == [parent |-> Git_refs.session, tree |-> new, by |-> w]
           N == Len(Git_commits)
<1>1. Git!TypeOK /\ Git!Types /\ Git!Linked /\ Git!UnderWay(w) /\ Git!Held /\ Git!Behind
  BY DEF Git!IInv
<1>2. Git_guard = w /\ \A v \in GitWriter \ {w} : Git_pc[v] # "write"
  BY GitNoOther DEF Git!Plumb, Git!Inside
<1>3. /\ Git_commits' = Append(Git_commits, c) /\ Git_base' = [Git_base EXCEPT ![w] = Git_refs.session]
      /\ Git_made' = [Git_made EXCEPT ![w] = N + 1] /\ Git_pc' = [Git_pc EXCEPT ![w] = "update"]
      /\ UNCHANGED <<Git_work, Git_index, Git_refs, Git_guard, Git!locks, Git_goal, Git_kept, Git_published, Git_pending, Git_overrode, Git_linked, Git_aside>>
  BY DEF Git!Plumb, Git!Goto, Git!Selected, Git!side
<1>4. GitFooting
  BY GitAtBranch
<1> USE DEF GitFooting
<1>5. Git_refs.session \in DOMAIN Git_commits /\ Git!Tree("session") = Git_commits[Git_refs.session].tree
  BY <1>4 DEF Git!Branch, Git!Tree
<1>6. new \in [GitPath -> Nat] /\ \A p \in GitPath : Git_commits[Git_refs.session].tree[p] <= new[p] /\ new[p] <= Git_index[p]
  BY <1>4, <1>5
<1>7. \A p \in GitPath \ GitPathsOf[w] : new[p] = Git_commits[Git_refs.session].tree[p]
  BY <1>5
<1> HIDE DEF new
<1>8. c \in Git!Commit /\ c.parent = Git_refs.session /\ c.tree = new /\ c.by = w
  BY <1>4, <1>5, <1>6 DEF Git!Commit
<1> HIDE DEF c
<1>9. /\ N \in Nat /\ DOMAIN Git_commits = 1 .. N /\ Git_commits' \in Seq(Git!Commit)
      /\ DOMAIN Git_commits' = 1 .. N + 1 /\ Git_commits'[N + 1] = c
      /\ \A n \in DOMAIN Git_commits : Git_commits'[n] = Git_commits[n] /\ Git!Ancestors'[n] = Git!Ancestors[n]
      /\ Git!Ancestors'[N + 1] = {N + 1} \cup Git!Ancestors[Git_refs.session]
      /\ Git!Linked'
  BY <1>3, <1>5, <1>8, GitAppended
<1>10. Git!CommitsAreSeparate'
  BY <1>3, <1>4, <1>5, <1>6, <1>7, <1>8, GitSeparate
<1> HIDE DEF N
<1>11. /\ N + 1 \in DOMAIN Git_commits' /\ N + 1 # 0
       /\ \A n \in DOMAIN Git_commits : n \in DOMAIN Git_commits' /\ Git!Ancestors'[n] = Git!Ancestors[n]
       /\ \A n \in DOMAIN Git_commits' : n \in DOMAIN Git_commits \/ n = N + 1
  BY <1>9
<1>12. Git_refs' \in [Git!Branch -> DOMAIN Git_commits'] /\ \A r \in Git!Branch : Git_refs[r] \in Git!Ancestors'[Git_refs'[r]]
  BY <1>3, <1>4, <1>11
<1>13. Git!Behind'
  <2>1. \A p \in GitPath : Git_index'[p] <= Git_work'[p]
    BY <1>1, <1>3 DEF Git!Behind
  <2>2. ASSUME NEW p \in GitPath, NEW n \in DOMAIN Git_commits' PROVE Git_commits'[n].tree[p] <= Git_index'[p]
    <3>1. CASE n \in DOMAIN Git_commits
      BY <1>3, <1>4, <1>9, <3>1
    <3>2. CASE n = N + 1
      BY <1>3, <1>6, <1>8, <1>9, <3>2
    <3> QED BY <1>11, <3>1, <3>2
  <2> QED BY <2>1, <2>2 DEF Git!Behind
<1>14. Git!Held'
  BY <1>1, <1>3 DEF Git!Held, Git!locks
<1>15. GitOthersStay(w)
  <2>1. /\ Git_pc' \in [GitWriter -> Git!Place] /\ Git_goal' \in [GitWriter -> Git!Goal] /\ Git_kept' \in [GitWriter -> SUBSET GitPath]
        /\ \A v \in GitWriter \ {w} : Git_pc'[v] = Git_pc[v] /\ Git_goal'[v] = Git_goal[v]
    BY <1>1, <1>3 DEF Git!Types, Git!Place, Git!Inside
  <2>2. Git_base \in [GitWriter -> Git!Number'] /\ Git_made \in [GitWriter -> Git!Number'] /\ N + 1 \in Git!Number' /\ Git_refs.session \in Git!Number'
    BY <1>1, <1>5, <1>11 DEF Git!Types, Git!Number
  <2> HIDE DEF Git!Number
  <2>3. Git_base' \in [GitWriter -> Git!Number'] /\ Git_made' \in [GitWriter -> Git!Number']
        /\ \A v \in GitWriter \ {w} : Git_base'[v] = Git_base[v] /\ Git_made'[v] = Git_made[v]
    BY <1>3, <2>2
  <2> QED BY <2>1, <2>3 DEF GitOthersStay
<1>16. Git!UnderWay(w)'
  <2>1. Git_pc'[w] = "update" /\ Git_made'[w] = N + 1 /\ Git_base'[w] = Git_refs.session
    BY <1>1, <1>3 DEF Git!Types
  <2>2. Git_refs.session \in Git!Ancestors'[N + 1] /\ Git_refs.session # 0
    BY <1>4, <1>5, <1>9
  <2>3. Git_goal'[w] = "commit" /\ Git_base'[w] \in Git!Ancestors'[Git_refs'["session"]]
    <3>1. Git_goal'[w] = Git_goal[w] /\ Git_goal[w] = "commit"
      BY <1>1, <1>3 DEF Git!UnderWay, Git!Plumb
    <3>2. Git_refs' = Git_refs /\ Git_refs.session \in Git!Ancestors'[Git_refs["session"]]
      BY <1>3, <1>4, <1>5, <1>11
    <3> QED BY <2>1, <3>1, <3>2
  <2>4. Git!Target(Git_goal[w])' = "session"
    BY <2>3 DEF Git!Target
  <2> QED BY <1>11, <2>1, <2>2, <2>3, <2>4 DEF Git!UnderWay
<1>17. /\ Git_work' \in [GitPath -> Nat] /\ Git_index' \in [GitPath -> Nat] /\ {Git_idxLock', Git_refLock'} \subseteq {"none", "young", "old"}
       /\ Git_pending' \in Git!Number' /\ Git_published' = Git_published /\ Git_published' \subseteq Git!Branch \X DOMAIN Git_commits'
       /\ Git_aside' \in [Git!Branch -> Git!Number']
  BY <1>1, <1>3, <1>11 DEF Git!TypeOK, Git!Types, Git!locks, Git!Number
<1> QED BY <1>2, <1>3, <1>9, <1>10, <1>11, <1>12, <1>13, <1>14, <1>15, <1>16, <1>17, GitMoves

(* A report names the commit that the branch has got.                          *)
LEMMA GitReportStep ==
  ASSUME Git!IInv, NEW w \in GitWriter, Git!Report(w)
  PROVE  Git!IInv'
<1> DEFINE x == <<Git!Target(Git_goal[w]), Git_made[w]>>
<1>1. Git_pc[w] = "report" /\ Git_published' = Git_published \cup {x} /\ Git!End(w) /\ Git_overrode' = Git_overrode
      /\ UNCHANGED <<Git_work, Git_index, Git_commits, Git_refs, Git!locks, Git_pending, Git_overrode, Git!side>>
  BY DEF Git!Report
<1>2. Git_made[w] # 0 /\ (Git_overrode \/ Git!Stands(x)) /\ Git_made[w] \in Git!Number
      /\ Git_published \subseteq Git!Branch \X DOMAIN Git_commits
  BY <1>1 DEF Git!IInv, Git!UnderWay, Git!Types
<1>3. x \in Git!Branch \X DOMAIN Git_commits /\ (Git_overrode \/ Git!Stands(x))
  BY <1>2 DEF Git!Number, Git!Branch, Git!Target
<1> HIDE DEF x
<1> QED BY <1>1, <1>2, <1>3, GitEnds

(* A stranger's step is of no publication.                                     *)
LEMMA GitNotOurs ==
  ASSUME Git!Types, UNCHANGED <<Git_pc, Git_goal, Git_base, Git_made, Git_kept>>, DOMAIN Git_commits \subseteq DOMAIN Git_commits'
  PROVE  GitOthersStay(GitStranger) /\ GitWriter \ {GitStranger} = GitWriter /\ GitStranger \notin GitWriter
<1>1. Git_base \in [GitWriter -> Git!Number'] /\ Git_made \in [GitWriter -> Git!Number']
  BY DEF Git!Types, Git!Number
<1> HIDE DEF Git!Number
<1> QED BY <1>1, GitAssumption DEF Git!Types, GitOthersStay

(* Lock files of strangers come and grow old.                                  *)
LEMMA GitLockStep ==
  ASSUME Git!IInv, Git!StrangerLocks \/ Git!LockAges \/ Git!StrangerBegins
  PROVE  Git!IInv'
<1>1. Git!TypeOK /\ Git!Types /\ Git!Linked /\ Git!Held /\ Git!Behind /\ (\A v \in GitWriter : Git!UnderWay(v))
  BY DEF Git!IInv
<1>2. UNCHANGED <<Git_work, Git_index, Git_commits, Git_refs, Git_guard, Git_pc, Git_goal, Git_base, Git_made, Git_kept, Git_published, Git_overrode, Git_linked, Git_aside>>
  BY DEF Git!StrangerLocks, Git!LockAges, Git!StrangerBegins, Git!ofOp, Git!side
<1>3. Git!Linked' /\ Git!CommitsAreSeparate' /\ Git!Ancestors' = Git!Ancestors
  BY <1>2, GitStill
<1>4. GitOthersStay(GitStranger) /\ GitWriter \ {GitStranger} = GitWriter /\ GitStranger \notin GitWriter
  BY <1>1, <1>2, GitNotOurs
<1>5. Git_refs' \in [Git!Branch -> DOMAIN Git_commits'] /\ \A r \in Git!Branch : Git_refs[r] \in Git!Ancestors'[Git_refs'[r]]
  BY <1>2, <1>3, GitAtBranch DEF GitFooting
<1>6. Git_refs.session \in Git!Number' /\ Git_refs' = Git_refs
  BY <1>2, GitAtBranch DEF Git!Branch, Git!Number, GitFooting
<1>7. Git_pending' \in Git!Number' /\ {Git_idxLock', Git_refLock'} \subseteq {"none", "young", "old"} /\ Git!Held'
  <2>1. Git_pending \in Git!Number'
    BY <1>1, <1>2 DEF Git!Types, Git!Number
  <2> HIDE DEF Git!Number
  <2> QED BY <1>1, <1>2, <1>6, <2>1 DEF Git!TypeOK, Git!Held, Git!StrangerLocks, Git!LockAges,
       Git!StrangerBegins
<1>8. \A v \in GitWriter : Git_pc[v] = "write" => Git_overrode \/ Git_linked \/ (Git_refLock' # "none" /\ Git_pending' = 0 /\ Git_refs' = Git_refs)
  BY <1>1, <1>2 DEF Git!UnderWay, Git!StrangerLocks, Git!LockAges, Git!StrangerBegins
<1>9. Git!Behind' /\ Git_work' \in [GitPath -> Nat] /\ Git_index' \in [GitPath -> Nat] /\ Git_commits' \in Seq(Git!Commit)
      /\ Git_published' \subseteq Git!Branch \X DOMAIN Git_commits' /\ Git_aside' \in [Git!Branch -> Git!Number']
  BY <1>1, <1>2 DEF Git!TypeOK, Git!Types, Git!Behind, Git!Number
<1> QED BY <1>2, <1>3, <1>4, <1>5, <1>7, <1>8, <1>9, GitMoves

(* A stranger adds a commit to a branch that is where he found it.             *)
LEMMA GitStrangeCommit ==
  ASSUME Git!IInv, NEW r \in Git!Branch, NEW b \in DOMAIN Git_commits, Git_overrode \/ Git_refs[r] = b,
         Git_commits' = Append(Git_commits, [parent |-> b, tree |-> Git_commits[b].tree, by |-> GitStranger]),
         Git_refs' = [Git_refs EXCEPT ![r] = Len(Git_commits) + 1], Git_published' = Git_published \cup {<<r, Len(Git_commits) + 1>>},
         Git_refLock' \in {"none", "young", "old"}, Git_pending' = 0,
         UNCHANGED <<Git_work, Git_index, Git_guard, Git_idxLock, Git_pc, Git_goal, Git_base, Git_made, Git_kept, Git_overrode, Git_linked, Git_aside>>,
         \A v \in GitWriter : Git_pc[v] = "write" => Git_overrode \/ Git_linked
  PROVE  Git!IInv'
<1> DEFINE c == [parent |-> b, tree |-> Git_commits[b].tree, by |-> GitStranger]
           N == Len(Git_commits)
<1>1. Git!TypeOK /\ Git!Types /\ Git!Linked /\ Git!Held /\ Git!Behind
  BY DEF Git!IInv
<1>2. GitFooting
  BY GitAtBranch
<1> USE DEF GitFooting
<1>3. c \in Git!Commit /\ c.parent = b /\ c.tree = Git_commits[b].tree /\ c.by = GitStranger
  BY <1>2 DEF Git!Commit
<1>4. \A p \in GitPath : c.tree[p] >= Git_commits[b].tree[p]
  BY <1>2, <1>3
<1> HIDE DEF c
<1>5. /\ N \in Nat /\ DOMAIN Git_commits = 1 .. N /\ Git_commits' \in Seq(Git!Commit)
      /\ DOMAIN Git_commits' = 1 .. N + 1 /\ Git_commits'[N + 1] = c
      /\ \A n \in DOMAIN Git_commits : Git_commits'[n] = Git_commits[n] /\ Git!Ancestors'[n] = Git!Ancestors[n]
      /\ Git!Ancestors'[N + 1] = {N + 1} \cup Git!Ancestors[b]
      /\ Git!Linked'
  BY <1>3, GitAppended DEF c
<1>6. Git!CommitsAreSeparate'
  BY <1>3, <1>4, GitSeparate DEF c
<1>7. Git_refs' = [Git_refs EXCEPT ![r] = N + 1] /\ Git_published' = Git_published \cup {<<r, N + 1>>}
  OBVIOUS
<1> HIDE DEF N
<1>8. /\ N + 1 \in DOMAIN Git_commits'
      /\ \A n \in DOMAIN Git_commits : n \in DOMAIN Git_commits' /\ Git!Ancestors'[n] = Git!Ancestors[n]
      /\ \A n \in DOMAIN Git_commits' : n \in DOMAIN Git_commits \/ n = N + 1
  BY <1>5
<1>9. Git_refs' \in [Git!Branch -> DOMAIN Git_commits'] /\ Git_refs'[r] = N + 1 /\ \A q \in Git!Branch : Git_overrode \/ Git_refs[q] \in Git!Ancestors'[Git_refs'[q]]
  <2>1. Git_refs' \in [Git!Branch -> DOMAIN Git_commits'] /\ Git_refs'[r] = N + 1 /\ \A q \in Git!Branch \ {r} : Git_refs'[q] = Git_refs[q]
    BY <1>2, <1>7, <1>8
  <2>2. Git_overrode \/ Git_refs[r] \in Git!Ancestors'[Git_refs'[r]]
    BY <1>2, <1>5, <2>1
  <2>3. \A q \in Git!Branch \ {r} : Git_refs[q] \in Git!Ancestors'[Git_refs'[q]]
    BY <1>2, <1>8, <2>1
  <2> QED BY <2>1, <2>2, <2>3
<1>10. GitOthersStay(GitStranger) /\ GitWriter \ {GitStranger} = GitWriter /\ GitStranger \notin GitWriter
  BY <1>1, <1>8, GitNotOurs
<1>11. Git!Behind'
  <2>1. \A p \in GitPath : Git_index'[p] <= Git_work'[p]
    BY <1>1 DEF Git!Behind
  <2>2. ASSUME NEW p \in GitPath, NEW n \in DOMAIN Git_commits' PROVE Git_commits'[n].tree[p] <= Git_index'[p]
    <3>1. CASE n \in DOMAIN Git_commits
      BY <1>2, <1>5, <3>1
    <3>2. CASE n = N + 1
      BY <1>2, <1>3, <1>5, <3>2
    <3> QED BY <1>8, <3>1, <3>2
  <2> QED BY <2>1, <2>2 DEF Git!Behind
<1>12. Git!Held' /\ Git_pending' \in Git!Number' /\ {Git_idxLock', Git_refLock'} \subseteq {"none", "young", "old"}
  BY <1>1 DEF Git!Held, Git!Number, Git!TypeOK
<1>13. /\ Git_published' \subseteq Git!Branch \X DOMAIN Git_commits'
       /\ \A x \in Git_published' : x \in Git_published \/ Git_overrode \/ x[2] \in Git!Ancestors'[Git_refs'[x[1]]]
  <2>1. Git_published \subseteq Git!Branch \X DOMAIN Git_commits'
    BY <1>1, <1>8 DEF Git!Types
  <2>2. N + 1 \in Git!Ancestors'[Git_refs'[r]]
    BY <1>5, <1>9
  <2> QED BY <1>7, <1>8, <2>1, <2>2
<1>14. Git_work' \in [GitPath -> Nat] /\ Git_index' \in [GitPath -> Nat] /\ Git_guard' = Git_guard /\ Git_overrode' = Git_overrode
       /\ Git_aside' \in [Git!Branch -> Git!Number']
  BY <1>2, <1>8 DEF Git!Number
<1>15. \A v \in GitWriter : Git_pc[v] = "write" =>
         Git_aside' = Git_aside /\ (Git_overrode \/ Git_linked \/ (Git_refLock' # "none" /\ Git_pending' = 0 /\ Git_refs' = Git_refs))
  OBVIOUS
<1> QED BY <1>5, <1>6, <1>8, <1>9, <1>10, <1>11, <1>12, <1>13, <1>14, <1>15, GitMoves

(* Commits of strangers, at once or slowly.                                    *)
LEMMA GitStrangerStep ==
  ASSUME Git!IInv, (\E r \in {"session", "main"} : Git!StrangerCommits(r)) \/ Git!StrangerEnds
  PROVE  Git!IInv'
<1>1. Git!TypeOK /\ Git!Types /\ Git!Held /\ (\A v \in GitWriter : Git!UnderWay(v)) /\ Git_refs \in [Git!Branch -> DOMAIN Git_commits]
  BY GitAtBranch DEF Git!IInv, GitFooting
<1>2. ASSUME NEW r \in Git!Branch, Git!StrangerCommits(r) PROVE Git!IInv'
  <2>1. /\ Git_commits' = Append(Git_commits, [parent |-> Git_refs[r], tree |-> Git_commits[Git_refs[r]].tree, by |-> GitStranger])
        /\ Git_refs' = [Git_refs EXCEPT ![r] = Len(Git_commits) + 1] /\ Git_published' = Git_published \cup {<<r, Len(Git_commits) + 1>>}
        /\ UNCHANGED <<Git_work, Git_index, Git_guard, Git_idxLock, Git_refLock, Git_pc, Git_goal, Git_base, Git_made, Git_kept, Git_pending, Git_overrode, Git_linked, Git_aside>>
        /\ Git_refLock = "none" /\ Git_refs[r] \in DOMAIN Git_commits
    BY <1>1, <1>2 DEF Git!StrangerCommits, Git!Tree, Git!locks, Git!ofOp, Git!side
  <2>2. Git_pending' = 0 /\ Git_refLock' \in {"none", "young", "old"}
    BY <1>1, <2>1 DEF Git!Held
  <2>3. \A v \in GitWriter : Git_pc[v] = "write" => Git_overrode \/ Git_linked
    BY <1>1, <2>1 DEF Git!UnderWay
  <2> QED BY <2>1, <2>2, <2>3, GitStrangeCommit
<1>3. CASE Git!StrangerEnds
  <2>1. /\ Git_commits' = Append(Git_commits, [parent |-> Git_pending, tree |-> Git_commits[Git_pending].tree, by |-> GitStranger])
        /\ Git_refs' = [Git_refs EXCEPT !["session"] = Len(Git_commits) + 1] /\ Git_published' = Git_published \cup {<<"session", Len(Git_commits) + 1>>}
        /\ UNCHANGED <<Git_work, Git_index, Git_guard, Git_idxLock, Git_pc, Git_goal, Git_base, Git_made, Git_kept, Git_overrode, Git_linked, Git_aside>>
        /\ Git_pending' = 0 /\ Git_refLock' \in {"none", "young", "old"} /\ Git_pending # 0
    BY <1>3 DEF Git!StrangerEnds, Git!ofOp, Git!side
  <2>2. Git_pending \in DOMAIN Git_commits /\ (Git_overrode \/ Git_refs["session"] = Git_pending) /\ "session" \in Git!Branch
    BY <1>1, <2>1 DEF Git!Types, Git!Number, Git!Held, Git!Branch
  <2>3. \A v \in GitWriter : Git_pc[v] = "write" => Git_overrode \/ Git_linked
    BY <1>1, <2>1 DEF Git!UnderWay
  <2> QED BY <2>1, <2>2, <2>3, GitStrangeCommit
<1> QED BY <1>2, <1>3 DEF Git!Branch

(* Every step keeps what is published on its branch.                           *)
LEMMA GitNextIInv == Git!IInv /\ [Git!Next]_Git!vars => Git!IInv'
<1>1. ASSUME Git!IInv, UNCHANGED Git!vars PROVE Git!IInv'
  <2>1. UNCHANGED <<Git_work, Git_index, Git_commits, Git_refs, Git_guard, Git_idxLock, Git_refLock, Git_pc, Git_goal, Git_base, Git_made, Git_kept, Git_published, Git_pending, Git_overrode>>
        /\ Git_linked' = Git_linked /\ Git_aside' = Git_aside
    BY <1>1 DEF Git!vars
  <2>2. Git!Linked' /\ Git!CommitsAreSeparate' /\ Git!Ancestors' = Git!Ancestors
    BY <1>1, <2>1, GitStill
  <2>3. Git!TypeOK' /\ Git!Types'
    BY <1>1, <2>1 DEF Git!IInv, Git!TypeOK, Git!Types, Git!Number
  <2>4. Git!Behind' /\ Git!Guarded' /\ Git!Held'
    BY <1>1, <2>1 DEF Git!IInv, Git!Behind, Git!Guarded, Git!Held
  <2>5. \A w \in GitWriter : Git!UnderWay(w)'
    BY <1>1, <2>1, <2>2 DEF Git!IInv, Git!UnderWay, Git!Target, Git!Stands
  <2>6. Git!PublishedStays'
    BY <1>1, <2>1, <2>2 DEF Git!IInv, Git!PublicationsStand, Git!PublishedStays, Git!Stands
  <2> QED BY <2>2, <2>3, <2>4, <2>5, <2>6 DEF Git!IInv, Git!PublicationsStand
<1>2. ASSUME Git!IInv, NEW w \in GitWriter, Git!Publish(w) PROVE Git!IInv'
  <2>1. CASE Git!StageFails(w) \/ Git!NothingStaged(w) \/ Git!Busy(w) \/ Git!CommitOnlyEmpty(w) \/ Git!RestageRaises(w) \/ Git!PlumbEmpty(w)
             \/ Git!PlumbGivesUp(w) \/ Git!ResolveEnds(w) \/ Git!UpdateRefused(w)
    BY <1>2, <2>1, GitEndsQuietly DEF Git!StageFails, Git!NothingStaged, Git!Busy, Git!CommitOnlyEmpty,
         Git!RestageRaises, Git!PlumbEmpty,
       Git!PlumbGivesUp, Git!ResolveEnds, Git!UpdateRefused
  <2> QED BY <1>2, <2>1, GitSameSteps, GitQuietSteps, GitRefStep, GitAsideStep, GitOnlyStep, GitPlumbStep,
       GitReportStep DEF Git!Publish
<1>3. ASSUME Git!IInv, Git!Outside PROVE Git!IInv'
  BY <1>3, GitLockStep, GitStrangerStep DEF Git!Outside
<1> QED BY <1>1, <1>2, <1>3 DEF Git!Next

(* What the invariant says of publications.                                    *)
LEMMA GitHolds == Git!IInv => Git!TypeOK /\ Git!PublicationsStand
BY DEF Git!IInv

(* git_repo.py: what was published stays on its branch, unless a ref was compared under the *)
(* lock of a living process, and no commit takes a file back or touches another session's,  *)
(* for any sessions that share files, any lock files, kills and strangers' commits.         *)
THEOREM PublicationsAlwaysStand == Spec => []PublicationsStand
<1> DEFINE Inv == part = "git" => Git!IInv
<1>1. Init => Inv
  BY GitInitIInv DEF Init
<1>2. Inv /\ [Next]_vars => Inv'
  <2>1. ASSUME part = "git", Git!IInv, [Next]_vars PROVE Git!IInv'
    BY <2>1, GitNextIInv DEF Next, vars, Git!vars
  <2>2. [Next]_vars => part' = part
    BY DEF Next, vars
  <2> QED BY <2>1, <2>2
<1>3. Inv => PublicationsStand
  BY GitHolds DEF PublicationsStand
<1> QED
  BY <1>1, <1>2, <1>3, PTL DEF Spec

HIDE DEF Git_work, Git_index, Git_commits, Git_refs, Git_guard, Git_idxLock, Git_refLock, Git_pc,
  Git_goal, Git_base, Git_made, Git_kept, Git_ops, Git_strange, Git_published, Git_pending,
  Git_overrode, Git_linked, Git_aside

-----------------------------------------------------------------------------
(* SearchIndex. *)
Search_kind == x1
Search_file == x2
Search_index == x3
Search_writes == x4
Search_builds == x5
Search_at == x6
Search_scopes == x7
Search_todo == x8
Search_seen == x9
Search_held == x10
Search_stale == x11
Search_found == x12
Search_dropped == x13
Search_quiet == x14
Search_alone == x15
USE DEF Search_kind, Search_file, Search_index, Search_writes, Search_builds, Search_at,
  Search_scopes, Search_todo, Search_seen, Search_held, Search_stale, Search_found, Search_dropped,
  Search_quiet, Search_alone

(* No file, no row, no build.                                                  *)
LEMMA SearchInitIInv == Search!Init => Search!IInv
<1> SUFFICES ASSUME Search!Init PROVE Search!IInv
  OBVIOUS
<1>1. /\ Search_kind \in SearchKinds /\ Search_writes = 0 /\ Search_at = [s \in SearchSession |-> "idle"]
      /\ \A f \in SearchFile : /\ Search_file[f] = Search!NoFile /\ Search_file[f].text = 0 /\ Search_file[f].mtime = 0
                         /\ Search_index[f] = Search!NoFile /\ Search_index[f].text = 0 /\ Search_index[f].mtime = 0
  BY DEF Search!Init, Search!NoFile, Search!Blank
<1>2. Search_file \in [SearchFile -> [text : Nat, mtime : Nat]] /\ Search_index \in [SearchFile -> Search!Doc]
  BY SearchAssumption DEF Search!Init, Search!NoFile, Search!Blank, Search!Doc
<1>3. Search!TypeOK
  BY <1>1, <1>2 DEF Search!Init, Search!TypeOK
<1>4. Search!Types
  <2>1. Search_held \in [SearchSession -> Search!Held \cup {Search!NoFile}]
    BY DEF Search!Init
  <2>2. Search_todo \in [SearchSession -> SUBSET SearchFile] /\ Search_seen \in [SearchSession -> SUBSET SearchFile] /\ Search_stale \in [SearchSession -> SUBSET SearchFile]
    BY DEF Search!Init
  <2>3. Search_scopes \in [SearchSession -> SUBSET Search!Scopes] /\ Search_found \in [SearchSession -> SUBSET (SearchFile \X Nat)] /\ Search_dropped \in [SearchSession -> SUBSET SearchFile]
    BY DEF Search!Init
  <2>4. Search_quiet \in [SearchSession -> BOOLEAN] /\ Search_alone \in [SearchSession -> BOOLEAN]
    BY DEF Search!Init
  <2>5. Search_writes \in 0 .. SearchMaxWrites /\ Search_kind \in {"bm25", "vectors"}
    BY <1>1, SearchAssumption
  <2> QED BY <1>1, <1>2, <2>1, <2>2, <2>3, <2>4, <2>5 DEF Search!Types
<1>5. Search!Dated
  BY <1>1 DEF Search!Dated, Search!AsOf, Search!Exists, Search!Blank
<1>6. Search!AloneIsAlone /\ Search!DoneRight
  BY <1>1 DEF Search!AloneIsAlone, Search!DoneRight, Search!Undisturbed, Search!Building
<1>7. Search!SearchSees
  BY <1>1 DEF Search!SearchSees, Search!Blank
<1>8. Search!InScope
  BY <1>1 DEF Search!InScope, Search!Init
<1> QED BY <1>3, <1>4, <1>5, <1>6, <1>7, <1>8 DEF Search!IInv

-----------------------------------------------------------------------------
(* A file that is written or deleted makes nothing of the index newer than it. *)
LEMMA SearchWriterStep ==
  ASSUME Search!IInv, Search!Write \/ Search!Delete
  PROVE  Search!IInv'
<1>1. PICK f \in SearchFile, d \in [text : Nat, mtime : Nat] :
        /\ Search_file' = [Search_file EXCEPT ![f] = d] /\ Search_writes' = Search_writes + 1 /\ Search_writes' \in 0 .. SearchMaxWrites
        /\ d.mtime \in {0, Search_writes'} /\ d.text \in {Search!Blank, d.mtime}
  <2>1. Search_writes \in Nat /\ (Search_writes < SearchMaxWrites => Search_writes + 1 \in 0 .. SearchMaxWrites)
    BY SearchAssumption DEF Search!IInv, Search!Types
  <2>2. CASE Search!Write
    <3>1. PICK f \in SearchFile, blank \in BOOLEAN : 
            /\ Search_writes < SearchMaxWrites /\ Search_writes' = Search_writes + 1
            /\ Search_file' = [Search_file EXCEPT ![f] = [text |-> IF blank THEN Search!Blank ELSE Search_writes', mtime |-> Search_writes']]
      BY <2>2 DEF Search!Write
    <3> DEFINE d == [text |-> IF blank THEN Search!Blank ELSE Search_writes', mtime |-> Search_writes']
    <3>2. d \in [text : Nat, mtime : Nat] /\ d.mtime = Search_writes' /\ d.text \in {Search!Blank, d.mtime}
      BY <2>1, <3>1 DEF Search!Blank
    <3>3. Search_file' = [Search_file EXCEPT ![f] = d]
      BY <3>1
    <3> HIDE DEF d
    <3> QED BY <2>1, <3>1, <3>2, <3>3
  <2>3. CASE Search!Delete
    <3>1. Search!NoFile \in [text : Nat, mtime : Nat] /\ Search!NoFile.mtime = 0 /\ Search!NoFile.text = Search!Blank
      BY DEF Search!NoFile, Search!Blank
    <3> QED BY <2>1, <2>3, <3>1 DEF Search!Delete
  <2> QED BY <2>2, <2>3
<1>2. /\ Search_quiet' = [s \in SearchSession |-> FALSE]
      /\ UNCHANGED <<Search_kind, Search_index, Search_at, Search_scopes, Search_todo, Search_seen, Search_held, Search_stale, Search_found, Search_dropped, Search_alone>>
  BY DEF Search!Write, Search!Delete
<1>3. Search_writes \in Nat /\ Search_writes' \in Nat /\ Search_file' \in [SearchFile -> [text : Nat, mtime : Nat]]
  BY <1>1 DEF Search!IInv, Search!Types
<1>4. \A g \in SearchFile : Search_file'[g] = IF g = f THEN d ELSE Search_file[g]
  BY <1>1 DEF Search!IInv, Search!Types
<1>5. Search!TypeOK' /\ Search!Types'
  BY <1>1, <1>2, <1>3 DEF Search!IInv, Search!TypeOK, Search!Types
<1>6. ASSUME NEW g \in SearchFile, NEW text \in Nat, NEW mtime \in Nat, Search!AsOf(g, text, mtime) PROVE Search!AsOf(g, text, mtime)'
  <2>1. mtime <= Search_writes /\ (text # Search!Blank => text >= mtime)
    BY <1>6 DEF Search!AsOf
  <2>2. CASE g = f
    BY <1>1, <1>3, <1>4, <2>1, <2>2 DEF Search!AsOf, Search!Exists
  <2>3. CASE g # f
    BY <1>1, <1>3, <1>4, <1>6, <2>1, <2>3 DEF Search!AsOf, Search!Exists
  <2> QED BY <2>2, <2>3
<1>7. Search!Dated'
  <2>1. \A g \in SearchFile : Search_file'[g].mtime <= Search_writes' /\ Search_file'[g].text \in {Search!Blank, Search_file'[g].mtime}
    BY <1>1, <1>3, <1>4 DEF Search!IInv, Search!Types, Search!Dated
  <2>2. \A g \in SearchFile : Search!AsOf(g, Search_index[g].text, Search_index[g].mtime)'
    <3>1. ASSUME NEW g \in SearchFile PROVE Search_index[g].text \in Nat /\ Search_index[g].mtime \in Nat /\ Search!AsOf(g, Search_index[g].text, Search_index[g].mtime)
      BY DEF Search!IInv, Search!TypeOK, Search!Dated, Search!Doc
    <3> QED BY <1>2, <1>6, <3>1 DEF Search!AsOf, Search!Exists
  <2>3. ASSUME NEW s \in SearchSession, Search_at'[s] = "read"
        PROVE  Search_held'[s].mtime \in 1 .. Search_writes' /\ (Search!Exists(Search_held[s].file)' => Search_held'[s].mtime <= Search_file'[Search_held'[s].file].mtime)
    <3>1. Search_held[s].mtime \in 1 .. Search_writes /\ (Search!Exists(Search_held[s].file) => Search_held[s].mtime <= Search_file[Search_held[s].file].mtime)
      BY <1>2, <2>3 DEF Search!IInv, Search!Dated
    <3>2. Search_held[s].file \in SearchFile /\ Search_held[s].mtime \in Nat
      BY <1>2, <2>3 DEF Search!IInv, Search!Types, Search!Held
    <3> QED BY <1>1, <1>2, <1>3, <1>4, <3>1, <3>2 DEF Search!Exists
  <2>4. ASSUME NEW s \in SearchSession, Search_at'[s] = "store"
        PROVE  Search_held'[s].mtime >= 1 /\ Search!AsOf(Search_held[s].file, Search_held[s].text, Search_held[s].mtime)'
    <3>1. Search_held[s].mtime >= 1 /\ Search!AsOf(Search_held[s].file, Search_held[s].text, Search_held[s].mtime)
      BY <1>2, <2>4 DEF Search!IInv, Search!Dated
    <3>2. Search_held[s].file \in SearchFile /\ Search_held[s].mtime \in Nat /\ Search_held[s].text \in Nat
      BY <1>2, <2>4 DEF Search!IInv, Search!Types, Search!Held
    <3> QED BY <1>2, <1>6, <3>1, <3>2 DEF Search!AsOf, Search!Exists
  <2> QED BY <1>2, <2>1, <2>2, <2>3, <2>4 DEF Search!Dated, Search!AsOf, Search!Exists
<1>8. Search!AloneIsAlone'
  BY <1>2 DEF Search!IInv, Search!AloneIsAlone, Search!Building
<1>9. Search!DoneRight'
  BY <1>2 DEF Search!DoneRight, Search!Undisturbed
<1>10. Search!SearchSees'
  BY <1>2 DEF Search!IInv, Search!SearchSees
<1>11. Search!InScope'
  BY <1>2 DEF Search!IInv, Search!InScope, Search!Within
<1> QED BY <1>5, <1>7, <1>8, <1>9, <1>10, <1>11 DEF Search!IInv

-----------------------------------------------------------------------------
(* What a search that is over has found is not disturbed by the builds of others. *)
LEMMA SearchFoundStays ==
  ASSUME Search!IInv, UNCHANGED <<Search_kind, Search_file>>, NEW s \in SearchSession,
         \A t \in SearchSession \ {s} : Search_at'[t] = Search_at[t] /\ Search_found'[t] = Search_found[t] /\ Search_scopes'[t] = Search_scopes[t] /\ Search_quiet'[t] = Search_quiet[t]
                                  /\ Search_dropped'[t] = Search_dropped[t] /\ (Search_alone'[t] => Search_alone[t]),
         Search_at'[s] # "found",
         \A f \in SearchFile : Search_index'[f].text # Search!Blank => Search_index'[f].text >= Search_index'[f].mtime
  PROVE  Search!SearchSees'
<1>1. ASSUME NEW t \in SearchSession, Search_at'[t] = "found", Search_quiet'[t], Search_alone'[t]
      PROVE  {h \in Search_found'[t] : h[1] \in Search!Sure(t)'} = Search!AsTheyAre(t)'
  <2>1. t # s
    BY <1>1
  <2>2. {h \in Search_found[t] : h[1] \in Search!Sure(t)} = Search!AsTheyAre(t) /\ Search_found'[t] = Search_found[t]
    BY <1>1, <2>1 DEF Search!IInv, Search!SearchSees
  <2>3. Search!Sure(t)' = Search!Sure(t)
    BY <2>1 DEF Search!Sure, Search!Emptied, Search!Exists
  <2>4. Search!AsTheyAre(t)' = Search!AsTheyAre(t)
    BY <2>1, <2>3 DEF Search!AsTheyAre, Search!Emptied, Search!Exists, Search!Within, Search!Built
  <2> QED BY <2>2, <2>3, <2>4
<1> QED BY <1>1 DEF Search!SearchSees

(* A build begins, with the files that are there.                              *)
LEMMA SearchStartStep ==
  ASSUME Search!IInv, NEW s \in SearchSession, Search!Start(s)
  PROVE  Search!IInv'
<1>1. PICK ss \in SUBSET Search!Scopes :
        /\ Search_scopes' = [Search_scopes EXCEPT ![s] = ss]
        /\ Search_todo' = [Search_todo EXCEPT ![s] = {f \in SearchFile : Search!Exists(f) /\ Search!Within(f, Search!Built(Search_kind, ss))}]
        /\ Search_seen' = [Search_seen EXCEPT ![s] = {f \in SearchFile : Search!Exists(f) /\ Search!Within(f, Search!Built(Search_kind, ss))}]
  BY DEF Search!Start
<1>2. /\ Search_at[s] \in {"idle", "found"} /\ Search_at' = [Search_at EXCEPT ![s] = "walk"] /\ Search_found' = [Search_found EXCEPT ![s] = {}]
      /\ Search_quiet' = [Search_quiet EXCEPT ![s] = TRUE] /\ Search_dropped' = [Search_dropped EXCEPT ![s] = {}]
      /\ Search_alone' = [t \in SearchSession |-> IF t = s THEN \A u \in SearchSession : ~Search!Building(u) ELSE Search_alone[t] /\ ~Search!Building(t)]
      /\ UNCHANGED <<Search_kind, Search_file, Search_index, Search_writes, Search_held, Search_stale>>
  BY DEF Search!Start
<1>3. Search!TypeOK'
  BY <1>2 DEF Search!IInv, Search!TypeOK
<1>4. Search!Types'
  <2>1. Search_todo' \in [SearchSession -> SUBSET SearchFile] /\ Search_seen' \in [SearchSession -> SUBSET SearchFile] /\ Search_scopes' \in [SearchSession -> SUBSET Search!Scopes]
    BY <1>1 DEF Search!IInv, Search!Types
  <2>2. Search_found' \in [SearchSession -> SUBSET (SearchFile \X Nat)]
    BY <1>2 DEF Search!IInv, Search!Types
  <2>3. Search_quiet' \in [SearchSession -> BOOLEAN] /\ Search_dropped' \in [SearchSession -> SUBSET SearchFile]
    BY <1>2 DEF Search!IInv, Search!Types
  <2>4. Search_alone' \in [SearchSession -> BOOLEAN]
    <3>1. \A t \in SearchSession : (IF t = s THEN \A u \in SearchSession : ~Search!Building(u) ELSE Search_alone[t] /\ ~Search!Building(t)) \in BOOLEAN
      OBVIOUS
    <3> QED BY <1>2, <3>1
  <2> QED BY <1>2, <2>1, <2>2, <2>3, <2>4 DEF Search!IInv, Search!TypeOK, Search!Types
<1>5. Search!Dated'
  BY <1>2 DEF Search!IInv, Search!TypeOK, Search!Dated, Search!AsOf, Search!Exists
<1>6. Search!AloneIsAlone'
  BY <1>2 DEF Search!IInv, Search!TypeOK, Search!AloneIsAlone, Search!Building
<1>7. Search!DoneRight'
  <2>1. ASSUME NEW t \in SearchSession, t # s PROVE ~Search!Undisturbed(t)'
    BY <1>2, <2>1 DEF Search!IInv, Search!TypeOK, Search!Undisturbed, Search!Building
  <2>2. Search_at'[s] = "walk" /\ Search_seen'[s] = Search_todo'[s] /\ Search_seen'[s] = {f \in SearchFile : Search!Exists(f)' /\ Search!Within(f, Search!Built(Search_kind', Search_scopes'[s]))}
    BY <1>1, <1>2 DEF Search!IInv, Search!TypeOK, Search!Types, Search!Exists
  <2> QED BY <2>1, <2>2 DEF Search!DoneRight, Search!Within, Search!Built
<1>8. Search!SearchSees'
  <2>1. \A t \in SearchSession \ {s} : Search_at'[t] = Search_at[t] /\ Search_found'[t] = Search_found[t] /\ Search_scopes'[t] = Search_scopes[t] /\ Search_quiet'[t] = Search_quiet[t]
                                 /\ Search_dropped'[t] = Search_dropped[t] /\ (Search_alone'[t] => Search_alone[t])
    BY <1>1, <1>2 DEF Search!IInv, Search!TypeOK, Search!Types
  <2>2. Search_at'[s] # "found" /\ \A f \in SearchFile : Search_index'[f].text # Search!Blank => Search_index'[f].text >= Search_index'[f].mtime
    BY <1>2 DEF Search!IInv, Search!TypeOK, Search!SearchSees
  <2> QED BY <1>2, <2>1, <2>2, SearchFoundStays
<1>9. Search!InScope'
  <2>1. Search_kind = "vectors" => \A f \in Search_todo'[s] : Search!Within(f, SearchVectorScopes)
    BY <1>1 DEF Search!IInv, Search!Types, Search!Built
  <2>2. \A t \in SearchSession \ {s} : Search_todo'[t] = Search_todo[t] /\ Search_at'[t] = Search_at[t]
    BY <1>1, <1>2 DEF Search!IInv, Search!TypeOK, Search!Types
  <2>3. Search_at'[s] = "walk"
    BY <1>2 DEF Search!IInv, Search!TypeOK
  <2> QED BY <1>2, <2>1, <2>2, <2>3 DEF Search!IInv, Search!InScope, Search!Within
<1> QED BY <1>3, <1>4, <1>5, <1>6, <1>7, <1>8, <1>9 DEF Search!IInv

-----------------------------------------------------------------------------
(* The steps of one build: what it may change, and what then must be so.        *)
LEMMA SearchBuildStep ==
  ASSUME Search!IInv, NEW s \in SearchSession, Search!Building(s),
         UNCHANGED <<Search_kind, Search_file, Search_writes, Search_scopes, Search_quiet, Search_alone, Search_found>>,
         Search_at' = [Search_at EXCEPT ![s] = Search_at'[s]] /\ Search_todo' = [Search_todo EXCEPT ![s] = Search_todo'[s]] /\ Search_seen' = [Search_seen EXCEPT ![s] = Search_seen'[s]],
         Search_stale' = [Search_stale EXCEPT ![s] = Search_stale'[s]] /\ Search_held' = [Search_held EXCEPT ![s] = Search_held'[s]],
         Search_dropped' = [Search_dropped EXCEPT ![s] = Search_dropped'[s]] /\ Search_dropped'[s] \in SUBSET SearchFile,
         Search_kind = "vectors" =>
           /\ \A f \in SearchFile : Search_index'[f].mtime > 0 => Search!Within(f, SearchVectorScopes)
           /\ \A f \in Search_todo'[s] : Search!Within(f, SearchVectorScopes)
           /\ Search_at'[s] \in {"read", "store"} => Search!Within(Search_held'[s].file, SearchVectorScopes),
         Search_at'[s] \in {"idle", "walk", "read", "store", "prune"},
         Search_todo'[s] \in SUBSET SearchFile /\ Search_seen'[s] \in SUBSET SearchFile /\ Search_stale'[s] \in SUBSET SearchFile,
         Search_held'[s] \in Search!Held \cup {Search!NoFile}, Search_at'[s] \in {"read", "store"} => Search_held'[s] \in Search!Held,
         Search_index' \in [SearchFile -> Search!Doc] /\ \A f \in SearchFile : Search!AsOf(f, Search_index'[f].text, Search_index'[f].mtime),
         Search_at'[s] = "read" => Search_held'[s].mtime \in 1 .. Search_writes /\ (Search!Exists(Search_held'[s].file) => Search_held'[s].mtime <= Search_file[Search_held'[s].file].mtime),
         Search_at'[s] = "store" => Search_held'[s].mtime >= 1 /\ Search!AsOf(Search_held'[s].file, Search_held'[s].text, Search_held'[s].mtime),
         Search_quiet[s] /\ Search_alone[s] /\ Search_at'[s] # "idle" =>
           /\ Search_seen'[s] = {f \in SearchFile : Search!Exists(f) /\ Search!Within(f, Search!Built(Search_kind, Search_scopes[s]))} /\ Search_todo'[s] \subseteq Search_seen'[s]
           /\ Search_at'[s] \in {"read", "store"} => Search_held'[s].file \in Search_seen'[s] /\ Search_held'[s].mtime = Search_file[Search_held'[s].file].mtime
           /\ \A f \in Search_seen'[s] \ Search_todo'[s] :
                \/ Search_kind = "bm25" \/ Search_file[f].text # Search!Blank => Search_index'[f].mtime > 0 /\ Search_index'[f].text = Search_file[f].text
                \/ f \in Search_dropped'[s]
                \/ (Search_at'[s] \in {"read", "store"} /\ Search_held'[s].file = f)
           /\ Search_at'[s] = "prune" =>
                /\ Search_todo'[s] = {} /\ Search_stale'[s] \cap Search_seen'[s] = {}
                /\ \A f \in SearchFile : Search_index'[f].mtime > 0 /\ Search!Within(f, Search!Built(Search_kind, Search_scopes[s])) => f \in Search_seen'[s] \cup Search_stale'[s]
  PROVE  Search!IInv'
<1>1. \A t \in SearchSession \ {s} : /\ Search_at'[t] = Search_at[t] /\ Search_todo'[t] = Search_todo[t] /\ Search_seen'[t] = Search_seen[t]
                                 /\ Search_stale'[t] = Search_stale[t] /\ Search_held'[t] = Search_held[t] /\ Search_dropped'[t] = Search_dropped[t]
  BY DEF Search!IInv, Search!TypeOK, Search!Types
<1>2. Search!TypeOK'
  BY DEF Search!IInv, Search!TypeOK
<1>3. Search!Types'
  <2>1. /\ Search_todo' \in [SearchSession -> SUBSET SearchFile] /\ Search_seen' \in [SearchSession -> SUBSET SearchFile] /\ Search_stale' \in [SearchSession -> SUBSET SearchFile]
        /\ Search_dropped' \in [SearchSession -> SUBSET SearchFile]
    BY DEF Search!IInv, Search!Types
  <2>2. Search_held' \in [SearchSession -> Search!Held \cup {Search!NoFile}]
    BY DEF Search!IInv, Search!Types
  <2>3. \A t \in SearchSession : Search_at'[t] \in {"read", "store"} => Search_held'[t] \in Search!Held
    BY <1>1 DEF Search!IInv, Search!Types
  <2> QED BY <2>1, <2>2, <2>3 DEF Search!IInv, Search!Types
<1>4. \A f, x, y : Search!AsOf(f, x, y)' <=> Search!AsOf(f, x, y)
  BY DEF Search!AsOf, Search!Exists
<1>5. \A f : Search!Exists(f)' <=> Search!Exists(f)
  BY DEF Search!Exists
<1>6. Search!Dated'
  <2>1. \A f \in SearchFile : Search!AsOf(f, Search_index[f].text, Search_index[f].mtime)'
    BY <1>4 DEF Search!AsOf, Search!Exists
  <2>2. ASSUME NEW t \in SearchSession
        PROVE  /\ Search_at'[t] = "read" => Search_held'[t].mtime \in 1 .. Search_writes /\ (Search!Exists(Search_held'[t].file) => Search_held'[t].mtime <= Search_file[Search_held'[t].file].mtime)
               /\ Search_at'[t] = "store" => Search_held'[t].mtime >= 1 /\ Search!AsOf(Search_held'[t].file, Search_held'[t].text, Search_held'[t].mtime)
    BY <1>1 DEF Search!IInv, Search!Dated
  <2>3. \A f \in SearchFile : Search_file[f].mtime <= Search_writes /\ Search_file[f].text \in {Search!Blank, Search_file[f].mtime}
    BY DEF Search!IInv, Search!Dated
  <2> QED BY <2>1, <2>2, <2>3 DEF Search!Dated, Search!AsOf, Search!Exists
<1>7. Search!AloneIsAlone'
  BY <1>1 DEF Search!IInv, Search!AloneIsAlone, Search!Building
<1>8. Search!DoneRight'
  <2>1. ASSUME NEW t \in SearchSession, t # s PROVE Search!Undisturbed(t)' => FALSE
    BY <1>1, <2>1 DEF Search!IInv, Search!AloneIsAlone, Search!Undisturbed, Search!Building
  <2>2. Search!Undisturbed(s)' => Search_at'[s] # "idle" /\ Search_quiet[s] /\ Search_alone[s]
    BY <1>1 DEF Search!Undisturbed, Search!Building
  <2>3. \A f : Search!RowIsFile(f)' <=> (Search_kind = "bm25" \/ Search_file[f].text # Search!Blank => Search_index'[f].mtime > 0 /\ Search_index'[f].text = Search_file[f].text)
    BY DEF Search!RowIsFile
  <2>4. ASSUME Search!Undisturbed(s)'
        PROVE  /\ Search_seen'[s] = {f \in SearchFile : Search!Exists(f)' /\ Search!Within(f, Search!Built(Search_kind', Search_scopes'[s]))} /\ Search_todo'[s] \subseteq Search_seen'[s]
               /\ Search_at'[s] \in {"read", "store"} => Search_held'[s].file \in Search_seen'[s] /\ Search_held'[s].mtime = Search_file'[Search_held'[s].file].mtime
               /\ \A f \in Search_seen'[s] \ Search_todo'[s] : Search!RowIsFile(f)' \/ f \in Search_dropped'[s] \/ (Search_at'[s] \in {"read", "store"} /\ Search_held'[s].file = f)
               /\ Search_at'[s] = "prune" =>
                    /\ Search_todo'[s] = {} /\ Search_stale'[s] \cap Search_seen'[s] = {}
                    /\ \A f \in SearchFile : Search_index'[f].mtime > 0 /\ Search!Within(f, Search!Built(Search_kind', Search_scopes'[s])) => f \in Search_seen'[s] \cup Search_stale'[s]
    <3>1. Search_at'[s] # "idle" /\ Search_quiet[s] /\ Search_alone[s]
      BY <2>2, <2>4
    <3>2. Search_seen'[s] = {f \in SearchFile : Search!Exists(f)' /\ Search!Within(f, Search!Built(Search_kind', Search_scopes'[s]))} /\ Search_todo'[s] \subseteq Search_seen'[s]
      BY <1>1, <1>5, <3>1
    <3>3. Search_at'[s] \in {"read", "store"} => Search_held'[s].file \in Search_seen'[s] /\ Search_held'[s].mtime = Search_file'[Search_held'[s].file].mtime
      BY <1>1, <3>1
    <3>4. \A f \in Search_seen'[s] \ Search_todo'[s] : Search!RowIsFile(f)' \/ f \in Search_dropped'[s] \/ (Search_at'[s] \in {"read", "store"} /\ Search_held'[s].file = f)
      BY <1>1, <2>3, <3>1
    <3>5. Search_at'[s] = "prune" =>
            /\ Search_todo'[s] = {} /\ Search_stale'[s] \cap Search_seen'[s] = {}
            /\ \A f \in SearchFile : Search_index'[f].mtime > 0 /\ Search!Within(f, Search!Built(Search_kind', Search_scopes'[s])) => f \in Search_seen'[s] \cup Search_stale'[s]
      BY <1>1, <3>1
    <3> QED BY <3>2, <3>3, <3>4, <3>5
  <2> QED BY <2>1, <2>4 DEF Search!DoneRight, Search!Within, Search!Built
<1>9. Search!SearchSees'
  <2>1. \A t \in SearchSession \ {s} : Search_at'[t] = Search_at[t]
    BY <1>1
  <2>2. Search_at'[s] # "found" /\ \A f \in SearchFile : Search_index'[f].text # Search!Blank => Search_index'[f].text >= Search_index'[f].mtime
    BY <1>1 DEF Search!AsOf
  <2> QED BY <1>1, <2>1, <2>2, SearchFoundStays
<1>10. Search!InScope'
  BY <1>1 DEF Search!IInv, Search!InScope, Search!Within
<1> QED BY <1>2, <1>3, <1>6, <1>7, <1>8, <1>9, <1>10 DEF Search!IInv

(* What the invariant says of a build that goes on.                            *)
LEMMA SearchOfBuild ==
  ASSUME Search!IInv, NEW s \in SearchSession, Search!Building(s)
  PROVE  /\ Search_at = [Search_at EXCEPT ![s] = Search_at[s]] /\ Search_todo = [Search_todo EXCEPT ![s] = Search_todo[s]] /\ Search_seen = [Search_seen EXCEPT ![s] = Search_seen[s]]
         /\ Search_stale = [Search_stale EXCEPT ![s] = Search_stale[s]] /\ Search_held = [Search_held EXCEPT ![s] = Search_held[s]]
         /\ Search_dropped = [Search_dropped EXCEPT ![s] = Search_dropped[s]] /\ Search_dropped[s] \in SUBSET SearchFile
         /\ Search_kind = "vectors" =>
              /\ \A f \in SearchFile : Search_index[f].mtime > 0 => Search!Within(f, SearchVectorScopes)
              /\ \A f \in Search_todo[s] : Search!Within(f, SearchVectorScopes)
              /\ Search_at[s] \in {"read", "store"} => Search!Within(Search_held[s].file, SearchVectorScopes)
         /\ Search_todo[s] \in SUBSET SearchFile /\ Search_seen[s] \in SUBSET SearchFile /\ Search_stale[s] \in SUBSET SearchFile /\ Search_held[s] \in Search!Held \cup {Search!NoFile}
         /\ Search_index \in [SearchFile -> Search!Doc] /\ \A f \in SearchFile : Search!AsOf(f, Search_index[f].text, Search_index[f].mtime)
         /\ Search_quiet[s] /\ Search_alone[s] =>
              /\ Search_seen[s] = {f \in SearchFile : Search!Exists(f) /\ Search!Within(f, Search!Built(Search_kind, Search_scopes[s]))} /\ Search_todo[s] \subseteq Search_seen[s]
              /\ Search_at[s] \in {"read", "store"} => Search_held[s].file \in Search_seen[s] /\ Search_held[s].mtime = Search_file[Search_held[s].file].mtime
              /\ \A f \in Search_seen[s] \ Search_todo[s] : Search!RowIsFile(f) \/ f \in Search_dropped[s] \/ (Search_at[s] \in {"read", "store"} /\ Search_held[s].file = f)
              /\ Search_at[s] = "prune" =>
                   /\ Search_todo[s] = {} /\ Search_stale[s] \cap Search_seen[s] = {}
                   /\ \A f \in SearchFile : Search_index[f].mtime > 0 /\ Search!Within(f, Search!Built(Search_kind, Search_scopes[s])) => f \in Search_seen[s] \cup Search_stale[s]
<1>1. /\ Search_at = [Search_at EXCEPT ![s] = Search_at[s]] /\ Search_todo = [Search_todo EXCEPT ![s] = Search_todo[s]] /\ Search_seen = [Search_seen EXCEPT ![s] = Search_seen[s]]
      /\ Search_stale = [Search_stale EXCEPT ![s] = Search_stale[s]] /\ Search_held = [Search_held EXCEPT ![s] = Search_held[s]]
      /\ Search_dropped = [Search_dropped EXCEPT ![s] = Search_dropped[s]] /\ Search_dropped[s] \in SUBSET SearchFile
  BY DEF Search!IInv, Search!TypeOK, Search!Types
<1>2. Search_todo[s] \in SUBSET SearchFile /\ Search_seen[s] \in SUBSET SearchFile /\ Search_stale[s] \in SUBSET SearchFile /\ Search_held[s] \in Search!Held \cup {Search!NoFile}
  BY DEF Search!IInv, Search!Types
<1>3. Search_index \in [SearchFile -> Search!Doc] /\ \A f \in SearchFile : Search!AsOf(f, Search_index[f].text, Search_index[f].mtime)
  BY DEF Search!IInv, Search!TypeOK, Search!Dated
<1>4. Search!DoneRight /\ Search!InScope
  BY DEF Search!IInv
<1>5. Search_kind = "vectors" =>
        /\ \A f \in SearchFile : Search_index[f].mtime > 0 => Search!Within(f, SearchVectorScopes)
        /\ \A f \in Search_todo[s] : Search!Within(f, SearchVectorScopes)
        /\ Search_at[s] \in {"read", "store"} => Search!Within(Search_held[s].file, SearchVectorScopes)
  BY <1>4 DEF Search!InScope
<1> QED BY <1>1, <1>2, <1>3, <1>4, <1>5 DEF Search!DoneRight, Search!Undisturbed

(* A row that is as recent as its file has its text.                           *)
LEMMA SearchRecentRow ==
  ASSUME Search!IInv, NEW f \in SearchFile, Search!Exists(f), ~Search!NeedsReindex(f)
  PROVE  Search!RowIsFile(f)
<1>1. Search_index[f].mtime \in Nat /\ Search_file[f].mtime \in Nat
  BY DEF Search!IInv, Search!TypeOK, Search!Types, Search!Doc
<1>2. Search!AsOf(f, Search_index[f].text, Search_index[f].mtime)
  BY DEF Search!IInv, Search!Dated
<1> QED BY <1>1, <1>2 DEF Search!NeedsReindex, Search!AsOf, Search!RowIsFile

(* A build looks at one file.                                                  *)
LEMMA SearchCheckStep ==
  ASSUME Search!IInv, NEW s \in SearchSession, Search!Check(s)
  PROVE  Search!IInv'
<1>1. PICK f \in Search_todo[s] :
        /\ Search!Exists(f) /\ Search_todo' = [Search_todo EXCEPT ![s] = Search_todo[s] \ {f}]
        /\ IF Search!NeedsReindex(f)
           THEN /\ Search_at' = [Search_at EXCEPT ![s] = "read"]
                /\ Search_held' = [Search_held EXCEPT ![s] = [file |-> f, text |-> Search!Blank, mtime |-> Search_file[f].mtime]]
           ELSE UNCHANGED <<Search_at, Search_held>>
  BY DEF Search!Check
<1>2. Search_at[s] = "walk" /\ Search!Building(s) /\ UNCHANGED <<Search_kind, Search_file, Search_writes, Search_index, Search_scopes, Search_seen, Search_stale, Search_found, Search_dropped, Search_quiet, Search_alone>>
  BY DEF Search!Check, Search!Building, Search!disk
<1>3. f \in SearchFile /\ Search_file[f].mtime \in 1 .. Search_writes /\ Search_writes \in Nat
  BY <1>1, <1>2, SearchOfBuild DEF Search!IInv, Search!Types, Search!Dated, Search!Exists
<1>4. \A g \in SearchFile : Search!RowIsFile(g) <=> (Search_kind = "bm25" \/ Search_file[g].text # Search!Blank => Search_index'[g].mtime > 0 /\ Search_index'[g].text = Search_file[g].text)
  BY <1>2 DEF Search!RowIsFile
<1>5. CASE Search!NeedsReindex(f)
  <2> DEFINE h == [file |-> f, text |-> Search!Blank, mtime |-> Search_file[f].mtime]
  <2>1. h \in Search!Held /\ h.file = f /\ h.mtime = Search_file[f].mtime
    BY <1>3 DEF Search!Held, Search!Blank
  <2>2. Search_held' = [Search_held EXCEPT ![s] = h] /\ Search_at' = [Search_at EXCEPT ![s] = "read"]
    BY <1>1, <1>5
  <2> HIDE DEF h
  <2>3. /\ Search_at' = [Search_at EXCEPT ![s] = Search_at'[s]] /\ Search_todo' = [Search_todo EXCEPT ![s] = Search_todo'[s]] /\ Search_seen' = [Search_seen EXCEPT ![s] = Search_seen'[s]]
       /\ Search_stale' = [Search_stale EXCEPT ![s] = Search_stale'[s]] /\ Search_held' = [Search_held EXCEPT ![s] = Search_held'[s]]
       /\ Search_at'[s] = "read" /\ Search_todo'[s] = Search_todo[s] \ {f} /\ Search_seen'[s] = Search_seen[s] /\ Search_stale'[s] = Search_stale[s] /\ Search_held'[s] = h
    BY <1>1, <1>2, <2>1, <2>2, SearchOfBuild DEF Search!IInv, Search!TypeOK, Search!Types
  <2>4. Search_todo'[s] \in SUBSET SearchFile /\ Search_seen'[s] \in SUBSET SearchFile /\ Search_stale'[s] \in SUBSET SearchFile /\ Search_held'[s] \in Search!Held \cup {Search!NoFile}
    BY <1>2, <2>1, <2>3, SearchOfBuild
  <2>5. Search_index' \in [SearchFile -> Search!Doc] /\ \A g \in SearchFile : Search!AsOf(g, Search_index'[g].text, Search_index'[g].mtime)
    BY <1>2, SearchOfBuild
  <2>6. Search_quiet[s] /\ Search_alone[s] =>
          /\ Search_seen'[s] = {x \in SearchFile : Search!Exists(x) /\ Search!Within(x, Search!Built(Search_kind, Search_scopes[s]))} /\ Search_todo'[s] \subseteq Search_seen'[s]
          /\ Search_held'[s].file \in Search_seen'[s] /\ Search_held'[s].mtime = Search_file[Search_held'[s].file].mtime
          /\ \A g \in Search_seen'[s] \ Search_todo'[s] : Search!RowIsFile(g) \/ g \in Search_dropped[s] \/ Search_held'[s].file = g
    BY <1>1, <1>2, <2>1, <2>3, SearchOfBuild
  <2>7. Search_dropped' = [Search_dropped EXCEPT ![s] = Search_dropped'[s]] /\ Search_dropped'[s] = Search_dropped[s] /\ Search_dropped'[s] \in SUBSET SearchFile
    BY <1>2, SearchOfBuild
  <2>8. Search_kind = "vectors" =>
          /\ \A g \in SearchFile : Search_index'[g].mtime > 0 => Search!Within(g, SearchVectorScopes)
          /\ \A g \in Search_todo'[s] : Search!Within(g, SearchVectorScopes)
          /\ Search_at'[s] \in {"read", "store"} => Search!Within(Search_held'[s].file, SearchVectorScopes)
    BY <1>1, <1>2, <2>1, <2>3, SearchOfBuild
  <2>9. /\ Search_at' = [Search_at EXCEPT ![s] = Search_at'[s]] /\ Search_todo' = [Search_todo EXCEPT ![s] = Search_todo'[s]] /\ Search_seen' = [Search_seen EXCEPT ![s] = Search_seen'[s]]
       /\ Search_stale' = [Search_stale EXCEPT ![s] = Search_stale'[s]] /\ Search_held' = [Search_held EXCEPT ![s] = Search_held'[s]]
       /\ Search_at'[s] = "read" /\ Search_held'[s] = h
    BY <2>3
  <2> QED BY <1>2, <1>3, <1>4, <2>1, <2>4, <2>5, <2>6, <2>7, <2>8, <2>9, SearchBuildStep
<1>6. CASE ~Search!NeedsReindex(f)
  <2>1. UNCHANGED <<Search_at, Search_held>> /\ Search!RowIsFile(f)
    BY <1>1, <1>3, <1>6, SearchRecentRow
  <2>2. /\ Search_at' = [Search_at EXCEPT ![s] = Search_at'[s]] /\ Search_todo' = [Search_todo EXCEPT ![s] = Search_todo'[s]] /\ Search_seen' = [Search_seen EXCEPT ![s] = Search_seen'[s]]
       /\ Search_stale' = [Search_stale EXCEPT ![s] = Search_stale'[s]] /\ Search_held' = [Search_held EXCEPT ![s] = Search_held'[s]]
       /\ Search_at'[s] = "walk" /\ Search_todo'[s] = Search_todo[s] \ {f} /\ Search_seen'[s] = Search_seen[s] /\ Search_stale'[s] = Search_stale[s] /\ Search_held'[s] = Search_held[s]
    BY <1>1, <1>2, <2>1, SearchOfBuild DEF Search!IInv, Search!TypeOK, Search!Types
  <2>3. Search_todo'[s] \in SUBSET SearchFile /\ Search_seen'[s] \in SUBSET SearchFile /\ Search_stale'[s] \in SUBSET SearchFile /\ Search_held'[s] \in Search!Held \cup {Search!NoFile}
    BY <1>2, <2>2, SearchOfBuild
  <2>4. Search_index' \in [SearchFile -> Search!Doc] /\ \A g \in SearchFile : Search!AsOf(g, Search_index'[g].text, Search_index'[g].mtime)
    BY <1>2, SearchOfBuild
  <2>5. Search_quiet[s] /\ Search_alone[s] =>
          /\ Search_seen'[s] = {x \in SearchFile : Search!Exists(x) /\ Search!Within(x, Search!Built(Search_kind, Search_scopes[s]))} /\ Search_todo'[s] \subseteq Search_seen'[s]
          /\ \A g \in Search_seen'[s] \ Search_todo'[s] : Search!RowIsFile(g) \/ g \in Search_dropped[s]
    BY <1>1, <1>2, <2>1, <2>2, SearchOfBuild
  <2>6. Search_dropped' = [Search_dropped EXCEPT ![s] = Search_dropped'[s]] /\ Search_dropped'[s] = Search_dropped[s] /\ Search_dropped'[s] \in SUBSET SearchFile
    BY <1>2, SearchOfBuild
  <2>7. Search_kind = "vectors" =>
          /\ \A g \in SearchFile : Search_index'[g].mtime > 0 => Search!Within(g, SearchVectorScopes)
          /\ \A g \in Search_todo'[s] : Search!Within(g, SearchVectorScopes)
    BY <1>1, <1>2, <2>2, SearchOfBuild
  <2>8. /\ Search_at' = [Search_at EXCEPT ![s] = Search_at'[s]] /\ Search_todo' = [Search_todo EXCEPT ![s] = Search_todo'[s]] /\ Search_seen' = [Search_seen EXCEPT ![s] = Search_seen'[s]]
       /\ Search_stale' = [Search_stale EXCEPT ![s] = Search_stale'[s]] /\ Search_held' = [Search_held EXCEPT ![s] = Search_held'[s]]
       /\ Search_at'[s] = "walk" 
    BY <2>2
  <2> QED BY <1>2, <1>3, <1>4, <2>3, <2>4, <2>5, <2>6, <2>7, <2>8, SearchBuildStep
<1> QED BY <1>5, <1>6

(* A file that is gone is left out, or ends the build; so does a lock.          *)
LEMMA SearchGoneStep ==
  ASSUME Search!IInv, NEW s \in SearchSession, Search!Gone(s) \/ Search!GoneVectors(s) \/ Search!Undecodable(s) \/ Search!Locked(s)
  PROVE  Search!IInv'
<1>1. CASE Search!Gone(s)
  <2>1. PICK f \in Search_todo[s] : ~Search!Exists(f) /\ Search_todo' = [Search_todo EXCEPT ![s] = Search_todo[s] \ {f}]
    BY <1>1 DEF Search!Gone
  <2>2. Search_at[s] = "walk" /\ Search!Building(s) /\ UNCHANGED <<Search_kind, Search_file, Search_writes, Search_index, Search_scopes, Search_at, Search_held, Search_seen, Search_stale, Search_found, Search_dropped, Search_quiet, Search_alone>>
    BY <1>1 DEF Search!Gone, Search!Building, Search!disk
  <2>3. ~(Search_quiet[s] /\ Search_alone[s])
    BY <2>1, <2>2, SearchOfBuild
  <2>4. /\ Search_at' = [Search_at EXCEPT ![s] = Search_at'[s]] /\ Search_todo' = [Search_todo EXCEPT ![s] = Search_todo'[s]] /\ Search_seen' = [Search_seen EXCEPT ![s] = Search_seen'[s]]
       /\ Search_stale' = [Search_stale EXCEPT ![s] = Search_stale'[s]] /\ Search_held' = [Search_held EXCEPT ![s] = Search_held'[s]]
       /\ Search_at'[s] = "walk" /\ Search_todo'[s] = Search_todo[s] \ {f} /\ Search_seen'[s] = Search_seen[s] /\ Search_stale'[s] = Search_stale[s] /\ Search_held'[s] = Search_held[s]
    BY <2>1, <2>2, SearchOfBuild DEF Search!IInv, Search!TypeOK, Search!Types
  <2>5. Search_todo'[s] \in SUBSET SearchFile /\ Search_seen'[s] \in SUBSET SearchFile /\ Search_stale'[s] \in SUBSET SearchFile /\ Search_held'[s] \in Search!Held \cup {Search!NoFile}
    BY <2>2, <2>4, SearchOfBuild
  <2>6. Search_index' \in [SearchFile -> Search!Doc] /\ \A g \in SearchFile : Search!AsOf(g, Search_index'[g].text, Search_index'[g].mtime)
    BY <2>2, SearchOfBuild
  <2>7. Search_dropped' = [Search_dropped EXCEPT ![s] = Search_dropped'[s]] /\ Search_dropped'[s] = Search_dropped[s] /\ Search_dropped'[s] \in SUBSET SearchFile
    BY <2>2, SearchOfBuild
  <2>8. Search_kind = "vectors" =>
          /\ \A g \in SearchFile : Search_index'[g].mtime > 0 => Search!Within(g, SearchVectorScopes)
          /\ \A g \in Search_todo'[s] : Search!Within(g, SearchVectorScopes)
    BY <2>1, <2>2, <2>4, SearchOfBuild
  <2>9. /\ Search_at' = [Search_at EXCEPT ![s] = Search_at'[s]] /\ Search_todo' = [Search_todo EXCEPT ![s] = Search_todo'[s]] /\ Search_seen' = [Search_seen EXCEPT ![s] = Search_seen'[s]]
       /\ Search_stale' = [Search_stale EXCEPT ![s] = Search_stale'[s]] /\ Search_held' = [Search_held EXCEPT ![s] = Search_held'[s]]
       /\ Search_at'[s] = "walk" 
    BY <2>4
  <2> QED BY <2>2, <2>3, <2>5, <2>6, <2>7, <2>8, <2>9, SearchBuildStep
<1>2. CASE Search!GoneVectors(s) \/ Search!Undecodable(s) \/ Search!Locked(s)
  <2>1. /\ Search!Building(s) /\ UNCHANGED <<Search_kind, Search_file, Search_writes, Search_index, Search_scopes, Search_found, Search_dropped, Search_quiet, Search_alone>> /\ Search_at' = [Search_at EXCEPT ![s] = "idle"]
        /\ Search_todo' = [Search_todo EXCEPT ![s] = {}] /\ Search_seen' = [Search_seen EXCEPT ![s] = {}]
        /\ Search_held' = [Search_held EXCEPT ![s] = Search!NoFile] /\ Search_stale' = [Search_stale EXCEPT ![s] = {}]
    BY <1>2 DEF Search!GoneVectors, Search!Undecodable, Search!Locked, Search!Leave, Search!Building,
         Search!disk
  <2>2. /\ Search_at' = [Search_at EXCEPT ![s] = Search_at'[s]] /\ Search_todo' = [Search_todo EXCEPT ![s] = Search_todo'[s]] /\ Search_seen' = [Search_seen EXCEPT ![s] = Search_seen'[s]]
       /\ Search_stale' = [Search_stale EXCEPT ![s] = Search_stale'[s]] /\ Search_held' = [Search_held EXCEPT ![s] = Search_held'[s]]
       /\ Search_at'[s] = "idle" /\ Search_todo'[s] = {} /\ Search_seen'[s] = {} /\ Search_stale'[s] = {} /\ Search_held'[s] = Search!NoFile
    BY <2>1, SearchOfBuild DEF Search!IInv, Search!TypeOK, Search!Types
  <2>3. Search_index' \in [SearchFile -> Search!Doc] /\ \A g \in SearchFile : Search!AsOf(g, Search_index'[g].text, Search_index'[g].mtime)
    BY <1>2, <2>1, SearchOfBuild
  <2>4. Search_dropped' = [Search_dropped EXCEPT ![s] = Search_dropped'[s]] /\ Search_dropped'[s] = Search_dropped[s] /\ Search_dropped'[s] \in SUBSET SearchFile
    BY <2>1, SearchOfBuild
  <2>5. Search_kind = "vectors" =>
          /\ \A g \in SearchFile : Search_index'[g].mtime > 0 => Search!Within(g, SearchVectorScopes)
          /\ \A g \in Search_todo'[s] : Search!Within(g, SearchVectorScopes)
    BY <2>1, <2>2, SearchOfBuild
  <2> QED BY <2>1, <2>2, <2>3, <2>4, <2>5, SearchBuildStep
<1> QED BY <1>1, <1>2

(* The text is read; it is of the time that was compared, or later.             *)
LEMMA SearchReadStep ==
  ASSUME Search!IInv, NEW s \in SearchSession, Search!Read(s)
  PROVE  Search!IInv'
<1>1. Search_at[s] = "read" /\ Search!Building(s) /\ UNCHANGED <<Search_kind, Search_file, Search_writes, Search_index, Search_scopes, Search_todo, Search_seen, Search_stale, Search_found, Search_dropped, Search_quiet, Search_alone>>
  BY DEF Search!Read, Search!Building, Search!disk
<1> DEFINE f == Search_held[s].file
<1>2. Search_held[s] \in Search!Held /\ f \in SearchFile /\ Search_held[s].mtime \in 1 .. Search_writes /\ Search_writes \in Nat
      /\ (Search!Exists(f) => Search_held[s].mtime <= Search_file[f].mtime) /\ Search_file[f].text \in {Search!Blank, Search_file[f].mtime} /\ Search_file[f].text \in Nat
      /\ Search_file[f].mtime \in Nat /\ Search_file[f].mtime <= Search_writes
  BY <1>1 DEF Search!IInv, Search!Types, Search!Dated, Search!Held
<1>3. \A g \in SearchFile : Search!RowIsFile(g) <=> (Search_kind = "bm25" \/ Search_file[g].text # Search!Blank => Search_index'[g].mtime > 0 /\ Search_index'[g].text = Search_file[g].text)
  BY <1>1 DEF Search!RowIsFile
<1>4. Search!Exists(f)
  BY DEF Search!Read
<1>5. Search_held' = [Search_held EXCEPT ![s].text = Search_file[f].text] /\ Search_at' = [Search_at EXCEPT ![s] = "store"]
  BY DEF Search!Read
<1> DEFINE h == [Search_held[s] EXCEPT !.text = Search_file[f].text]
<1>6. h \in Search!Held /\ h.file = f /\ h.mtime = Search_held[s].mtime /\ h.text = Search_file[f].text
  BY <1>2 DEF Search!Held
<1>7. Search_held' = [Search_held EXCEPT ![s] = h]
  BY <1>5
<1>8. Search!AsOf(f, Search_file[f].text, Search_held[s].mtime)
  BY <1>2, <1>4 DEF Search!AsOf, Search!Exists, Search!Blank
<1> HIDE DEF h
<1>9. h.mtime >= 1 /\ Search!AsOf(h.file, h.text, h.mtime)
  BY <1>2, <1>6, <1>8
<1>10. Search_todo' = [Search_todo EXCEPT ![s] = Search_todo[s]] /\ Search_seen' = [Search_seen EXCEPT ![s] = Search_seen[s]] /\ Search_stale' = [Search_stale EXCEPT ![s] = Search_stale[s]]
  BY <1>1, SearchOfBuild
<1>11. Search_quiet[s] /\ Search_alone[s] =>
        /\ Search_seen[s] = {x \in SearchFile : Search!Exists(x) /\ Search!Within(x, Search!Built(Search_kind, Search_scopes[s]))} /\ Search_todo[s] \subseteq Search_seen[s]
        /\ h.file \in Search_seen[s] /\ h.mtime = Search_file[h.file].mtime
        /\ \A x \in Search_seen[s] \ Search_todo[s] : Search!RowIsFile(x) \/ x \in Search_dropped[s] \/ h.file = x
  BY <1>1, <1>6, SearchOfBuild
<1> HIDE DEF f
<1>12. /\ Search_at' = [Search_at EXCEPT ![s] = Search_at'[s]] /\ Search_todo' = [Search_todo EXCEPT ![s] = Search_todo'[s]] /\ Search_seen' = [Search_seen EXCEPT ![s] = Search_seen'[s]]
     /\ Search_stale' = [Search_stale EXCEPT ![s] = Search_stale'[s]] /\ Search_held' = [Search_held EXCEPT ![s] = Search_held'[s]]
     /\ Search_at'[s] = "store" /\ Search_todo'[s] = Search_todo[s] /\ Search_seen'[s] = Search_seen[s] /\ Search_stale'[s] = Search_stale[s] /\ Search_held'[s] = h
  <2>1. Search_at' = [Search_at EXCEPT ![s] = "store"]
    BY <1>5
  <2>2. Search_at' = [Search_at EXCEPT ![s] = Search_at'[s]] /\ Search_at'[s] = "store"
    BY <2>1 DEF Search!IInv, Search!TypeOK
  <2>3. Search_held' = [Search_held EXCEPT ![s] = Search_held'[s]] /\ Search_held'[s] = h
    BY <1>6, <1>7 DEF Search!IInv, Search!Types
  <2> QED BY <1>1, <1>10, <2>2, <2>3
<1>13. Search_todo'[s] \in SUBSET SearchFile /\ Search_seen'[s] \in SUBSET SearchFile /\ Search_stale'[s] \in SUBSET SearchFile /\ Search_held'[s] \in Search!Held \cup {Search!NoFile}
  BY <1>1, <1>6, <1>12, SearchOfBuild
<1>14. Search_index' \in [SearchFile -> Search!Doc] /\ \A g \in SearchFile : Search!AsOf(g, Search_index'[g].text, Search_index'[g].mtime)
  BY <1>1, SearchOfBuild
<1>15. Search_dropped' = [Search_dropped EXCEPT ![s] = Search_dropped'[s]] /\ Search_dropped'[s] = Search_dropped[s] /\ Search_dropped'[s] \in SUBSET SearchFile
  BY <1>1, SearchOfBuild
<1>16. Search_kind = "vectors" =>
         /\ \A g \in SearchFile : Search_index'[g].mtime > 0 => Search!Within(g, SearchVectorScopes)
         /\ \A g \in Search_todo'[s] : Search!Within(g, SearchVectorScopes)
         /\ Search_at'[s] \in {"read", "store"} => Search!Within(Search_held'[s].file, SearchVectorScopes)
  BY <1>1, <1>6, <1>12, SearchOfBuild DEF f
<1> QED BY <1>1, <1>3, <1>6, <1>9, <1>11, <1>12, <1>13, <1>14, <1>15, <1>16, SearchBuildStep

(* A file that cannot be read, or that gives no embedding, is left for later.     *)
LEMMA SearchDropStep ==
  ASSUME Search!IInv, NEW s \in SearchSession, Search!Drop(s)
  PROVE  Search!IInv'
<1> DEFINE f == Search_held[s].file
<1>1. /\ Search_at[s] \in {"read", "store"} /\ Search!Building(s) /\ Search_at' = [Search_at EXCEPT ![s] = "walk"] /\ Search_held' = [Search_held EXCEPT ![s] = Search!NoFile]
      /\ Search_dropped' = [Search_dropped EXCEPT ![s] = Search_dropped[s] \cup {f}]
      /\ UNCHANGED <<Search_kind, Search_file, Search_writes, Search_index, Search_scopes, Search_todo, Search_seen, Search_stale, Search_found, Search_quiet, Search_alone>>
  BY DEF Search!Drop, Search!Building, Search!disk
<1>2. f \in SearchFile
  BY <1>1 DEF Search!IInv, Search!Types, Search!Held
<1>3. \A g \in SearchFile : Search!RowIsFile(g) <=> (Search_kind = "bm25" \/ Search_file[g].text # Search!Blank => Search_index'[g].mtime > 0 /\ Search_index'[g].text = Search_file[g].text)
  BY <1>1 DEF Search!RowIsFile
<1>4. Search_quiet[s] /\ Search_alone[s] =>
        /\ Search_seen[s] = {x \in SearchFile : Search!Exists(x) /\ Search!Within(x, Search!Built(Search_kind, Search_scopes[s]))} /\ Search_todo[s] \subseteq Search_seen[s]
        /\ \A g \in Search_seen[s] \ Search_todo[s] : g \in SearchFile /\ (Search!RowIsFile(g) \/ g \in Search_dropped[s] \cup {f})
  BY <1>1, SearchOfBuild
<1> HIDE DEF f
<1>5. /\ Search_at' = [Search_at EXCEPT ![s] = Search_at'[s]] /\ Search_todo' = [Search_todo EXCEPT ![s] = Search_todo'[s]] /\ Search_seen' = [Search_seen EXCEPT ![s] = Search_seen'[s]]
      /\ Search_stale' = [Search_stale EXCEPT ![s] = Search_stale'[s]] /\ Search_held' = [Search_held EXCEPT ![s] = Search_held'[s]]
      /\ Search_at'[s] = "walk" /\ Search_todo'[s] = Search_todo[s] /\ Search_seen'[s] = Search_seen[s] /\ Search_stale'[s] = Search_stale[s] /\ Search_held'[s] = Search!NoFile
  <2>1. /\ Search_at' = [Search_at EXCEPT ![s] = Search_at'[s]] /\ Search_held' = [Search_held EXCEPT ![s] = Search_held'[s]]
        /\ Search_at'[s] = "walk" /\ Search_held'[s] = Search!NoFile
    BY <1>1 DEF Search!IInv, Search!TypeOK, Search!Types
  <2> QED BY <1>1, <2>1, SearchOfBuild
<1>6. Search_dropped' = [Search_dropped EXCEPT ![s] = Search_dropped'[s]] /\ Search_dropped'[s] = Search_dropped[s] \cup {f} /\ Search_dropped'[s] \in SUBSET SearchFile
  BY <1>1, <1>2 DEF Search!IInv, Search!Types
<1>7. Search_todo'[s] \in SUBSET SearchFile /\ Search_seen'[s] \in SUBSET SearchFile /\ Search_stale'[s] \in SUBSET SearchFile /\ Search_held'[s] \in Search!Held \cup {Search!NoFile}
  BY <1>1, <1>5, SearchOfBuild
<1>8. Search_index' \in [SearchFile -> Search!Doc] /\ \A g \in SearchFile : Search!AsOf(g, Search_index'[g].text, Search_index'[g].mtime)
  BY <1>1, SearchOfBuild
<1>9. Search_kind = "vectors" =>
        /\ \A g \in SearchFile : Search_index'[g].mtime > 0 => Search!Within(g, SearchVectorScopes)
        /\ \A g \in Search_todo'[s] : Search!Within(g, SearchVectorScopes)
  BY <1>1, <1>5, SearchOfBuild
<1> QED BY <1>1, <1>3, <1>4, <1>5, <1>6, <1>7, <1>8, <1>9, SearchBuildStep

(* The row is stored: of an undisturbed build, as the file is.                  *)
LEMMA SearchStoreStep ==
  ASSUME Search!IInv, NEW s \in SearchSession, Search!Store(s) \/ Search!StoreVectors(s)
  PROVE  Search!IInv'
<1> DEFINE f == Search_held[s].file
<1> DEFINE row == [text |-> Search_held[s].text, mtime |-> Search_held[s].mtime]
<1>1. /\ Search_at[s] = "store" /\ Search!Building(s) /\ Search_at' = [Search_at EXCEPT ![s] = "walk"] /\ Search_held' = [Search_held EXCEPT ![s] = Search!NoFile]
      /\ UNCHANGED <<Search_kind, Search_file, Search_writes, Search_scopes, Search_todo, Search_seen, Search_stale, Search_found, Search_dropped, Search_quiet, Search_alone>>
  BY DEF Search!Store, Search!StoreVectors, Search!Stored, Search!Building, Search!disk
<1>2. \/ Search_kind # "bm25" /\ Search_held[s].text = Search!Blank /\ Search_index' = Search_index
      \/ Search_index' = [Search_index EXCEPT ![f] = row]
  BY DEF Search!Store, Search!StoreVectors, Search!Row
<1>3. Search_held[s] \in Search!Held /\ f \in SearchFile /\ Search_held[s].mtime >= 1 /\ Search_held[s].mtime \in Nat /\ Search_held[s].text \in Nat
      /\ Search!AsOf(f, Search_held[s].text, Search_held[s].mtime) /\ Search_writes \in 0 .. SearchMaxWrites
  BY <1>1 DEF Search!IInv, Search!Types, Search!Dated, Search!Held
<1>4. row \in Search!Doc /\ row.text = Search_held[s].text /\ row.mtime = Search_held[s].mtime
  BY <1>3, SearchAssumption DEF Search!Doc, Search!AsOf
<1> HIDE DEF row, f
<1>5. Search_index' \in [SearchFile -> Search!Doc] /\ \A g \in SearchFile : Search!AsOf(g, Search_index'[g].text, Search_index'[g].mtime)
  BY <1>1, <1>2, <1>3, <1>4, SearchOfBuild
<1>6. Search_quiet[s] /\ Search_alone[s] => Search_file[f].mtime = Search_held[s].mtime /\ f \in Search_seen[s] /\ Search_held[s].text = Search_file[f].text
  <2>1. Search_quiet[s] /\ Search_alone[s] => Search_file[f].mtime = Search_held[s].mtime /\ f \in Search_seen[s] /\ Search!Exists(f)
    BY <1>1, SearchOfBuild DEF f
  <2> QED BY <1>3, <2>1 DEF Search!AsOf
<1>7. \A g \in SearchFile : Search!RowIsFile(g) /\ g # f => (Search_kind = "bm25" \/ Search_file[g].text # Search!Blank => Search_index'[g].mtime > 0 /\ Search_index'[g].text = Search_file[g].text)
  BY <1>1, <1>2, SearchOfBuild DEF Search!RowIsFile
<1>8. Search_quiet[s] /\ Search_alone[s] => (Search_kind = "bm25" \/ Search_file[f].text # Search!Blank => Search_index'[f].mtime > 0 /\ Search_index'[f].text = Search_file[f].text)
  <2>1. ASSUME Search_index' = [Search_index EXCEPT ![f] = row] PROVE Search_index'[f] = row
    BY <1>1, <1>3, <2>1, SearchOfBuild
  <2>2. row.mtime > 0
    BY <1>3, <1>4
  <2> QED BY <1>2, <1>4, <1>6, <2>1, <2>2
<1>9. Search_todo' = [Search_todo EXCEPT ![s] = Search_todo[s]] /\ Search_seen' = [Search_seen EXCEPT ![s] = Search_seen[s]] /\ Search_stale' = [Search_stale EXCEPT ![s] = Search_stale[s]]
  BY <1>1, SearchOfBuild
<1>10. Search_quiet[s] /\ Search_alone[s] =>
          /\ Search_seen[s] = {x \in SearchFile : Search!Exists(x) /\ Search!Within(x, Search!Built(Search_kind, Search_scopes[s]))} /\ Search_todo[s] \subseteq Search_seen[s]
          /\ \A g \in Search_seen[s] \ Search_todo[s] : g \in Search_dropped[s] \/ (Search_kind = "bm25" \/ Search_file[g].text # Search!Blank => Search_index'[g].mtime > 0 /\ Search_index'[g].text = Search_file[g].text)
  <2>1. Search_quiet[s] /\ Search_alone[s] => /\ Search_seen[s] = {x \in SearchFile : Search!Exists(x) /\ Search!Within(x, Search!Built(Search_kind, Search_scopes[s]))} /\ Search_todo[s] \subseteq Search_seen[s]
                                /\ \A g \in Search_seen[s] \ Search_todo[s] : g \in SearchFile /\ (Search!RowIsFile(g) \/ g \in Search_dropped[s] \/ f = g)
    BY <1>1, SearchOfBuild DEF f
  <2> QED BY <1>7, <1>8, <2>1
<1>11. /\ Search_at' = [Search_at EXCEPT ![s] = Search_at'[s]] /\ Search_todo' = [Search_todo EXCEPT ![s] = Search_todo'[s]] /\ Search_seen' = [Search_seen EXCEPT ![s] = Search_seen'[s]]
     /\ Search_stale' = [Search_stale EXCEPT ![s] = Search_stale'[s]] /\ Search_held' = [Search_held EXCEPT ![s] = Search_held'[s]]
     /\ Search_at'[s] = "walk" /\ Search_todo'[s] = Search_todo[s] /\ Search_seen'[s] = Search_seen[s] /\ Search_stale'[s] = Search_stale[s] /\ Search_held'[s] = Search!NoFile
  <2>1. Search_at' = [Search_at EXCEPT ![s] = Search_at'[s]] /\ Search_held' = [Search_held EXCEPT ![s] = Search_held'[s]]
           /\ Search_at'[s] = "walk" /\ Search_held'[s] = Search!NoFile
    BY <1>1 DEF Search!IInv, Search!TypeOK, Search!Types
  <2> QED BY <2>1, <1>1, <1>9, SearchOfBuild
<1>12. Search_todo'[s] \in SUBSET SearchFile /\ Search_seen'[s] \in SUBSET SearchFile /\ Search_stale'[s] \in SUBSET SearchFile /\ Search_held'[s] \in Search!Held \cup {Search!NoFile}
  BY <1>1, <1>11, SearchOfBuild
<1>13. Search_dropped' = [Search_dropped EXCEPT ![s] = Search_dropped'[s]] /\ Search_dropped'[s] = Search_dropped[s] /\ Search_dropped'[s] \in SUBSET SearchFile
  BY <1>1, SearchOfBuild
<1>14. Search_kind = "vectors" =>
         /\ \A g \in SearchFile : Search_index'[g].mtime > 0 => Search!Within(g, SearchVectorScopes)
         /\ \A g \in Search_todo'[s] : Search!Within(g, SearchVectorScopes)
  <2>1. Search_kind = "vectors" => Search!Within(f, SearchVectorScopes)
    BY <1>1, SearchOfBuild DEF f
  <2> QED BY <1>1, <1>2, <1>3, <1>11, <2>1, SearchOfBuild
<1> QED BY <1>1, <1>5, <1>10, <1>11, <1>12, <1>13, <1>14, SearchBuildStep

(* Rows of files that are not there any more are dropped.                      *)
LEMMA SearchPruneStep ==
  ASSUME Search!IInv, NEW s \in SearchSession, Search!Listed(s) \/ Search!Prune(s)
  PROVE  Search!IInv'
<1>1. CASE Search!Listed(s)
  <2> DEFINE sl == {f \in SearchFile : Search_index[f].mtime > 0 /\ f \notin Search_seen[s] /\ Search!Within(f, Search!Built(Search_kind, Search_scopes[s]))}
  <2>1. /\ Search_at[s] = "walk" /\ Search!Building(s) /\ Search_todo[s] = {} /\ Search_at' = [Search_at EXCEPT ![s] = "prune"] /\ Search_stale' = [Search_stale EXCEPT ![s] = sl]
        /\ UNCHANGED <<Search_kind, Search_file, Search_writes, Search_index, Search_scopes, Search_todo, Search_seen, Search_held, Search_found, Search_dropped, Search_quiet, Search_alone>>
    BY <1>1 DEF Search!Listed, Search!Building, Search!disk
  <2>2. \A g \in SearchFile : Search!RowIsFile(g) <=> (Search_kind = "bm25" \/ Search_file[g].text # Search!Blank => Search_index'[g].mtime > 0 /\ Search_index'[g].text = Search_file[g].text)
    BY <2>1 DEF Search!RowIsFile
  <2>3. sl \in SUBSET SearchFile /\ sl \cap Search_seen[s] = {} /\ \A g \in SearchFile : Search_index[g].mtime > 0 /\ Search!Within(g, Search!Built(Search_kind, Search_scopes[s])) => g \in Search_seen[s] \cup sl
    OBVIOUS
  <2> HIDE DEF sl
  <2>4. /\ Search_at' = [Search_at EXCEPT ![s] = Search_at'[s]] /\ Search_todo' = [Search_todo EXCEPT ![s] = Search_todo'[s]] /\ Search_seen' = [Search_seen EXCEPT ![s] = Search_seen'[s]]
       /\ Search_stale' = [Search_stale EXCEPT ![s] = Search_stale'[s]] /\ Search_held' = [Search_held EXCEPT ![s] = Search_held'[s]]
       /\ Search_at'[s] = "prune" /\ Search_todo'[s] = {} /\ Search_seen'[s] = Search_seen[s] /\ Search_stale'[s] = sl /\ Search_held'[s] = Search_held[s]
    BY <2>1, <2>3, SearchOfBuild DEF Search!IInv, Search!TypeOK, Search!Types
  <2>5. Search_todo'[s] \in SUBSET SearchFile /\ Search_seen'[s] \in SUBSET SearchFile /\ Search_stale'[s] \in SUBSET SearchFile /\ Search_held'[s] \in Search!Held \cup {Search!NoFile}
    BY <2>1, <2>3, <2>4, SearchOfBuild
  <2>6. Search_index' \in [SearchFile -> Search!Doc] /\ \A g \in SearchFile : Search!AsOf(g, Search_index'[g].text, Search_index'[g].mtime)
    BY <2>1, SearchOfBuild
  <2>7. Search_quiet[s] /\ Search_alone[s] =>
          /\ Search_seen'[s] = {x \in SearchFile : Search!Exists(x) /\ Search!Within(x, Search!Built(Search_kind, Search_scopes[s]))} /\ \A g \in Search_seen'[s] : g \in SearchFile /\ (Search!RowIsFile(g) \/ g \in Search_dropped[s])
          /\ \A g \in SearchFile : Search_index'[g].mtime > 0 /\ Search!Within(g, Search!Built(Search_kind, Search_scopes[s])) => g \in Search_seen'[s] \cup Search_stale'[s]
    BY <2>1, <2>3, <2>4, SearchOfBuild
  <2>8. Search_dropped' = [Search_dropped EXCEPT ![s] = Search_dropped'[s]] /\ Search_dropped'[s] = Search_dropped[s] /\ Search_dropped'[s] \in SUBSET SearchFile
    BY <2>1, SearchOfBuild
  <2>9. Search_kind = "vectors" =>
          /\ \A g \in SearchFile : Search_index'[g].mtime > 0 => Search!Within(g, SearchVectorScopes)
          /\ \A g \in Search_todo'[s] : Search!Within(g, SearchVectorScopes)
    BY <2>1, <2>4, SearchOfBuild
  <2> QED BY <2>1, <2>2, <2>3, <2>4, <2>5, <2>6, <2>7, <2>8, <2>9, SearchBuildStep
<1>2. CASE Search!Prune(s)
  <2>1. PICK f \in Search_stale[s] : Search_index' = [Search_index EXCEPT ![f] = Search!NoFile] /\ Search_stale' = [Search_stale EXCEPT ![s] = Search_stale[s] \ {f}]
    BY <1>2 DEF Search!Prune
  <2>2. /\ Search_at[s] = "prune" /\ Search!Building(s) /\ UNCHANGED <<Search_kind, Search_file, Search_writes, Search_at, Search_scopes, Search_todo, Search_seen, Search_held, Search_found, Search_dropped, Search_quiet, Search_alone>>
    BY <1>2 DEF Search!Prune, Search!Building, Search!disk
  <2>3. Search!NoFile \in Search!Doc /\ Search!NoFile.mtime = 0 /\ Search!NoFile.text = Search!Blank
    BY SearchAssumption DEF Search!NoFile, Search!Doc, Search!Blank
  <2>4. f \in SearchFile /\ \A g \in SearchFile : Search_index'[g] = IF g = f THEN Search!NoFile ELSE Search_index[g]
    BY <2>1, <2>2, SearchOfBuild
  <2>5. Search_index' \in [SearchFile -> Search!Doc]
    BY <2>1, <2>2, <2>3, SearchOfBuild
  <2>6. \A g \in SearchFile : Search!AsOf(g, Search_index'[g].text, Search_index'[g].mtime)
    <3>1. Search!AsOf(f, Search!Blank, 0)
      <4>1. Search_writes \in Nat /\ Search_file[f].mtime \in Nat
        BY <2>4 DEF Search!IInv, Search!Types
      <4> QED BY <4>1 DEF Search!AsOf, Search!Exists
    <3> QED BY <2>2, <2>3, <2>4, <3>1, SearchOfBuild
  <2>7. Search_quiet[s] /\ Search_alone[s] =>
          /\ Search_seen[s] = {x \in SearchFile : Search!Exists(x) /\ Search!Within(x, Search!Built(Search_kind, Search_scopes[s]))} /\ Search_todo[s] = {}
          /\ f \notin Search_seen[s] /\ (Search_stale[s] \ {f}) \cap Search_seen[s] = {}
          /\ \A g \in Search_seen[s] : g \in SearchFile /\ (Search!RowIsFile(g) \/ g \in Search_dropped[s])
          /\ \A g \in SearchFile : Search_index[g].mtime > 0 /\ Search!Within(g, Search!Built(Search_kind, Search_scopes[s])) => g \in Search_seen[s] \cup Search_stale[s]
    BY <2>2, SearchOfBuild
  <2>8. Search_quiet[s] /\ Search_alone[s] =>
          /\ \A g \in Search_seen[s] : g \in Search_dropped[s] \/ (Search_kind = "bm25" \/ Search_file[g].text # Search!Blank => Search_index'[g].mtime > 0 /\ Search_index'[g].text = Search_file[g].text)
          /\ \A g \in SearchFile : Search_index'[g].mtime > 0 /\ Search!Within(g, Search!Built(Search_kind, Search_scopes[s])) => g \in Search_seen[s] \cup (Search_stale[s] \ {f})
    BY <2>3, <2>4, <2>7 DEF Search!RowIsFile
  <2>9. /\ Search_at' = [Search_at EXCEPT ![s] = Search_at'[s]] /\ Search_todo' = [Search_todo EXCEPT ![s] = Search_todo'[s]] /\ Search_seen' = [Search_seen EXCEPT ![s] = Search_seen'[s]]
       /\ Search_stale' = [Search_stale EXCEPT ![s] = Search_stale'[s]] /\ Search_held' = [Search_held EXCEPT ![s] = Search_held'[s]]
       /\ Search_at'[s] = "prune" /\ Search_todo'[s] = Search_todo[s] /\ Search_seen'[s] = Search_seen[s] /\ Search_stale'[s] = Search_stale[s] \ {f} /\ Search_held'[s] = Search_held[s]
    BY <2>1, <2>2, SearchOfBuild DEF Search!IInv, Search!TypeOK, Search!Types
  <2>10. Search_todo'[s] \in SUBSET SearchFile /\ Search_seen'[s] \in SUBSET SearchFile /\ Search_stale'[s] \in SUBSET SearchFile /\ Search_held'[s] \in Search!Held \cup {Search!NoFile}
    BY <2>2, <2>9, SearchOfBuild
  <2>11. Search_dropped' = [Search_dropped EXCEPT ![s] = Search_dropped'[s]] /\ Search_dropped'[s] = Search_dropped[s] /\ Search_dropped'[s] \in SUBSET SearchFile
    BY <2>2, SearchOfBuild
  <2>12. Search_kind = "vectors" =>
           /\ \A g \in SearchFile : Search_index'[g].mtime > 0 => Search!Within(g, SearchVectorScopes)
           /\ \A g \in Search_todo'[s] : Search!Within(g, SearchVectorScopes)
    BY <2>2, <2>3, <2>4, <2>9, SearchOfBuild
  <2> QED BY <2>2, <2>5, <2>6, <2>7, <2>8, <2>9, <2>10, <2>11, <2>12, SearchBuildStep
<1> QED BY <1>1, <1>2

-----------------------------------------------------------------------------
(* A search of an undisturbed build gives the files as they are.               *)
LEMMA SearchSearchStep ==
  ASSUME Search!IInv, NEW s \in SearchSession, Search!Search(s)
  PROVE  Search!IInv'
<1> DEFINE hits == IF Search_kind = "bm25" THEN Search!HitsBm25(Search_scopes[s]) ELSE Search!HitsVectors(Search_scopes[s])
<1>1. /\ Search_at[s] = "prune" /\ Search!Building(s) /\ Search_stale[s] = {} /\ Search_at' = [Search_at EXCEPT ![s] = "found"]
      /\ Search_found' = [Search_found EXCEPT ![s] = {<<f, Search_index[f].text>> : f \in hits}]
      /\ Search_todo' = [Search_todo EXCEPT ![s] = {}] /\ Search_seen' = [Search_seen EXCEPT ![s] = {}]
      /\ Search_held' = [Search_held EXCEPT ![s] = Search!NoFile] /\ Search_stale' = [Search_stale EXCEPT ![s] = {}]
      /\ UNCHANGED <<Search_kind, Search_file, Search_writes, Search_index, Search_scopes, Search_dropped, Search_quiet, Search_alone>>
  BY DEF Search!Search, Search!Leave, Search!Building, Search!disk
<1>2. hits \subseteq {f \in SearchFile : Search_index[f].mtime > 0 /\ Search_index[f].text # Search!Blank /\ Search!Within(f, Search_scopes[s])}
      /\ \A f \in SearchFile : Search_index[f].mtime > 0 /\ Search_index[f].text # Search!Blank /\ Search!Within(f, Search_scopes[s]) /\ Search!Exists(f) => f \in hits
  BY DEF Search!HitsBm25, Search!HitsVectors, Search!Rows
<1>3. Search_kind = "bm25" => \A f \in hits : Search!Exists(f)
  BY DEF Search!HitsBm25
<1> HIDE DEF hits
<1>4. /\ Search_at'[s] = "found" /\ Search_found'[s] = {<<f, Search_index[f].text>> : f \in hits} /\ Search_seen'[s] = {}
      /\ \A t \in SearchSession \ {s} : /\ Search_at'[t] = Search_at[t] /\ Search_todo'[t] = Search_todo[t] /\ Search_seen'[t] = Search_seen[t] /\ Search_found'[t] = Search_found[t]
                                  /\ Search_stale'[t] = Search_stale[t] /\ Search_held'[t] = Search_held[t]
  BY <1>1 DEF Search!IInv, Search!TypeOK, Search!Types
<1>5. Search!TypeOK'
  BY <1>1 DEF Search!IInv, Search!TypeOK
<1>6. Search!Types'
  <2>1. {<<f, Search_index[f].text>> : f \in hits} \in SUBSET (SearchFile \X Nat)
    <3>1. ASSUME NEW f \in hits PROVE <<f, Search_index[f].text>> \in SearchFile \X Nat
      <4>1. f \in SearchFile
        BY <1>2
      <4> QED BY <4>1 DEF Search!IInv, Search!TypeOK, Search!Doc
    <3> QED BY <3>1
  <2>2. Search_found' \in [SearchSession -> SUBSET (SearchFile \X Nat)]
    BY <1>1, <2>1 DEF Search!IInv, Search!Types
  <2>3. Search_held' \in [SearchSession -> Search!Held \cup {Search!NoFile}] /\ \A t \in SearchSession : Search_at'[t] \in {"read", "store"} => Search_held'[t] \in Search!Held
    BY <1>1, <1>4 DEF Search!IInv, Search!Types
  <2>4. Search_todo' \in [SearchSession -> SUBSET SearchFile] /\ Search_seen' \in [SearchSession -> SUBSET SearchFile] /\ Search_stale' \in [SearchSession -> SUBSET SearchFile]
    BY <1>1 DEF Search!IInv, Search!Types
  <2> QED BY <1>1, <2>2, <2>3, <2>4 DEF Search!IInv, Search!Types
<1>7. Search!Dated'
  <2>1. ASSUME NEW t \in SearchSession
        PROVE  /\ Search_at'[t] = "read" => Search_held'[t].mtime \in 1 .. Search_writes /\ (Search!Exists(Search_held'[t].file) => Search_held'[t].mtime <= Search_file[Search_held'[t].file].mtime)
               /\ Search_at'[t] = "store" => Search_held'[t].mtime >= 1 /\ Search!AsOf(Search_held'[t].file, Search_held'[t].text, Search_held'[t].mtime)
    BY <1>4 DEF Search!IInv, Search!Dated
  <2>2. /\ \A f \in SearchFile : Search_file[f].mtime <= Search_writes /\ Search_file[f].text \in {Search!Blank, Search_file[f].mtime}
        /\ \A f \in SearchFile : Search!AsOf(f, Search_index[f].text, Search_index[f].mtime)
    BY DEF Search!IInv, Search!Dated
  <2> QED BY <1>1, <2>1, <2>2 DEF Search!Dated, Search!AsOf, Search!Exists
<1>8. Search!AloneIsAlone'
  BY <1>1, <1>4 DEF Search!IInv, Search!AloneIsAlone, Search!Building
<1>9. Search!DoneRight'
  <2>1. ASSUME NEW t \in SearchSession PROVE ~Search!Undisturbed(t)'
    BY <1>1, <1>4 DEF Search!IInv, Search!AloneIsAlone, Search!Undisturbed, Search!Building
  <2> QED BY <2>1 DEF Search!DoneRight
<1>10. Search!SearchSees'
  <2>1. ASSUME Search_quiet[s], Search_alone[s] PROVE {h \in Search_found'[s] : h[1] \in Search!Sure(s)} = Search!AsTheyAre(s)
    <3>1. /\ Search_seen[s] = {f \in SearchFile : Search!Exists(f) /\ Search!Within(f, Search!Built(Search_kind, Search_scopes[s]))} /\ Search_todo[s] = {}
          /\ \A f \in Search_seen[s] : Search!RowIsFile(f) \/ f \in Search_dropped[s]
          /\ \A f \in SearchFile : Search_index[f].mtime > 0 /\ Search!Within(f, Search!Built(Search_kind, Search_scopes[s])) => f \in Search_seen[s]
      BY <1>1, <2>1, SearchOfBuild
    <3>2. ASSUME NEW f \in SearchFile, Search_index[f].mtime > 0, Search!Within(f, Search_scopes[s]) PROVE Search!Within(f, Search!Built(Search_kind, Search_scopes[s]))
      BY <1>1, <3>2, SearchOfBuild DEF Search!Built
    <3>3. ASSUME NEW f \in hits, f \in Search!Sure(s)
          PROVE  /\ f \in {g \in Search!Sure(s) \ Search!Emptied : Search!Exists(g) /\ Search!Within(g, Search_scopes[s]) /\ Search!Within(g, Search!Built(Search_kind, Search_scopes[s]))}
                 /\ Search_index[f].text = Search_file[f].text
      <4>1. f \in SearchFile /\ Search_index[f].mtime > 0 /\ Search_index[f].text # Search!Blank /\ Search!Within(f, Search_scopes[s]) /\ f \notin Search_dropped[s]
        BY <1>2, <3>3 DEF Search!Sure
      <4>2. Search!Within(f, Search!Built(Search_kind, Search_scopes[s])) /\ f \in Search_seen[s] /\ Search!Exists(f) /\ Search!RowIsFile(f)
        BY <3>1, <3>2, <4>1
      <4>3. Search_index[f].text = Search_file[f].text
        BY <3>3, <4>1, <4>2 DEF Search!RowIsFile, Search!Emptied, Search!Sure
      <4> QED BY <3>3, <4>1, <4>2, <4>3 DEF Search!Emptied
    <3>4. ASSUME NEW f \in {g \in Search!Sure(s) \ Search!Emptied : Search!Exists(g) /\ Search!Within(g, Search_scopes[s]) /\ Search!Within(g, Search!Built(Search_kind, Search_scopes[s]))}
          PROVE  f \in hits /\ f \in Search!Sure(s) /\ Search_index[f].text = Search_file[f].text
      <4>1. f \in SearchFile /\ f \in Search_seen[s] /\ f \notin Search_dropped[s] /\ Search_file[f].text # Search!Blank /\ Search!Exists(f) /\ Search!Within(f, Search_scopes[s])
        BY <3>1 DEF Search!Emptied, Search!Sure
      <4>2. Search_index[f].mtime > 0 /\ Search_index[f].text = Search_file[f].text
        BY <3>1, <4>1 DEF Search!RowIsFile
      <4> QED BY <1>2, <4>1, <4>2
    <3>5. Search_found'[s] = {<<f, Search_index[f].text>> : f \in hits}
      BY <1>4
    <3> QED BY <3>3, <3>4, <3>5 DEF Search!AsTheyAre
  <2>2. ASSUME NEW t \in SearchSession PROVE Search!Sure(t)' = Search!Sure(t) /\ Search!AsTheyAre(t)' = Search!AsTheyAre(t)
    BY <1>1 DEF Search!AsTheyAre, Search!Sure, Search!Emptied, Search!Exists, Search!Within, Search!Built
  <2>3. ASSUME NEW t \in SearchSession, Search_at'[t] = "found", Search_quiet[t], Search_alone[t]
        PROVE  {h \in Search_found'[t] : h[1] \in Search!Sure(t)} = Search!AsTheyAre(t)
    <3>1. CASE t = s
      BY <2>1, <2>3, <3>1
    <3>2. CASE t # s
      BY <1>4, <2>3, <3>2 DEF Search!IInv, Search!SearchSees
    <3> QED BY <3>1, <3>2
  <2>4. \A f \in SearchFile : Search_index[f].text # Search!Blank => Search_index[f].text >= Search_index[f].mtime
    BY DEF Search!IInv, Search!SearchSees
  <2>5. ASSUME NEW t \in SearchSession, Search_at'[t] = "found" /\ Search_quiet'[t] /\ Search_alone'[t]
        PROVE  {h \in Search_found'[t] : h[1] \in Search!Sure(t)'} = Search!AsTheyAre(t)'
    BY <1>1, <2>2, <2>3, <2>5
  <2> QED BY <1>1, <2>4, <2>5 DEF Search!SearchSees
<1>11. Search!InScope'
  BY <1>1, <1>4 DEF Search!IInv, Search!InScope, Search!Within
<1> QED BY <1>5, <1>6, <1>7, <1>8, <1>9, <1>10, <1>11 DEF Search!IInv

(* Neither builds nor writers leave a row that claims to be newer than its text. *)
LEMMA SearchNextIInv == Search!IInv /\ [Search!Next]_Search!vars => Search!IInv'
<1>1. ASSUME Search!IInv, UNCHANGED Search!vars PROVE Search!IInv'
  BY <1>1 DEF Search!vars, Search!IInv, Search!TypeOK, Search!Types, Search!Dated, Search!AsOf,
       Search!AloneIsAlone, Search!DoneRight, Search!Undisturbed, Search!RowIsFile, Search!SearchSees,
     Search!Emptied, Search!Sure, Search!AsTheyAre, Search!Built, Search!InScope, Search!Exists, Search!Within,
     Search!Building
<1> QED
  BY <1>1, SearchWriterStep, SearchStartStep, SearchCheckStep, SearchGoneStep, SearchReadStep, SearchDropStep,
       SearchStoreStep, SearchPruneStep, SearchSearchStep DEF Search!Next

(* What the invariant says of searches.                                        *)
LEMMA SearchHolds == Search!IInv => Search!TypeOK /\ Search!SearchSees
BY DEF Search!IInv

(* bm25_index.py, embedding_index.py: however many sessions build and search one index at *)
(* once, over any files, a search after an undisturbed build of its own sees every file of  *)
(* its scopes as it is, whatever unfinished or overtaken builds left.                       *)
THEOREM SearchesSee == Spec => []SearchSees
<1> DEFINE Inv == part = "search" => Search!IInv
<1>1. Init => Inv
  BY SearchInitIInv DEF Init
<1>2. Inv /\ [Next]_vars => Inv'
  <2>1. ASSUME part = "search", Search!IInv, [Next]_vars PROVE Search!IInv'
    BY <2>1, SearchNextIInv DEF Next, vars, Search!vars, Search!disk
  <2>2. [Next]_vars => part' = part
    BY DEF Next, vars
  <2> QED BY <2>1, <2>2
<1>3. Inv => SearchSees
  BY SearchHolds DEF SearchSees
<1> QED
  BY <1>1, <1>2, <1>3, PTL DEF Spec

HIDE DEF Search_kind, Search_file, Search_index, Search_writes, Search_builds, Search_at,
  Search_scopes, Search_todo, Search_seen, Search_held, Search_stale, Search_found, Search_dropped,
  Search_quiet, Search_alone

-----------------------------------------------------------------------------
(* RecallRanking. *)
Recall_chunks == x1
Recall_ranks == x2
Recall_scan == x3
Recall_dead == x4
Recall_mean == x5
Recall_like == x6
Recall_rows == x7
Recall_k == x8
Recall_keepDead == x9
Recall_weigh == x10
Recall_stage == x11
Recall_pool == x12
Recall_answer == x13
USE DEF Recall_chunks, Recall_ranks, Recall_scan, Recall_dead, Recall_mean, Recall_like,
  Recall_rows, Recall_k, Recall_keepDead, Recall_weigh, Recall_stage, Recall_pool, Recall_answer

(* Sets have one cardinality, inside and outside of RecallRanking. *)
LEMMA RecallCardinality == \A S : Recall!Cardinality(S) = Cardinality(S)
BY DEF Recall!Cardinality, Cardinality
USE RecallCardinality

(* Sequences: the beginning of one, one of its own members, two of them.       *)
LEMMA RecallCutIs ==
  ASSUME NEW S, NEW s \in Seq(S), NEW n \in Nat
  PROVE  /\ Recall!Cut(s, n) \in Seq(S) /\ DOMAIN Recall!Cut(s, n) \subseteq DOMAIN s
         /\ Len(Recall!Cut(s, n)) = IF Len(s) < n THEN Len(s) ELSE n
         /\ DOMAIN Recall!Cut(s, n) = 1 .. Len(Recall!Cut(s, n))
         /\ \A i \in DOMAIN Recall!Cut(s, n) : Recall!Cut(s, n)[i] = s[i]
BY DEF Recall!Cut

LEMMA RecallTwoIs ==
  ASSUME NEW S, NEW s \in Seq(S), NEW t \in Seq(S)
  PROVE  /\ s \o t \in Seq(S) /\ Len(s \o t) = Len(s) + Len(t) /\ Len(s) \in Nat /\ Len(t) \in Nat
         /\ DOMAIN (s \o t) = 1 .. Len(s) + Len(t)
         /\ \A i \in 1 .. Len(s) : (s \o t)[i] = s[i]
         /\ \A i \in 1 .. Len(t) : (s \o t)[Len(s) + i] = t[i]
OBVIOUS

LEMMA RecallBehind ==
  ASSUME NEW l \in Nat, NEW m \in Nat, NEW i \in 1 .. l + m
  PROVE  i \in 1 .. l \/ \E j \in 1 .. m : i = l + j
<1>1. CASE i <= l
  BY <1>1
<1>2. CASE i > l
  <2>1. i - l \in 1 .. m /\ i = l + (i - l)
    BY <1>2
  <2> QED BY Zenon, <2>1
<1> QED BY <1>1, <1>2

(* The files of two sequences, which are apart when the sequences share none.  *)
LEMMA RecallTwoFiles ==
  ASSUME NEW S, NEW s \in Seq(S), NEW t \in Seq(S)
  PROVE  Recall!Files(s \o t) = Recall!Files(s) \cup Recall!Files(t)
<1> DEFINE l == Len(s)
           m == Len(t)
           u == s \o t
<1>1. /\ l \in Nat /\ m \in Nat /\ DOMAIN u = 1 .. l + m /\ DOMAIN s = 1 .. l /\ DOMAIN t = 1 .. m
      /\ \A i \in 1 .. l : u[i] = s[i]
      /\ \A i \in 1 .. m : u[l + i] = t[i]
  BY RecallTwoIs
<1> HIDE DEF l, m, u
<1>2. \A i \in 1 .. m : l + i \in 1 .. l + m
  BY <1>1
<1>3. \A i \in 1 .. l : i \in 1 .. l + m
  BY <1>1
<1>4. ASSUME NEW i \in DOMAIN u PROVE u[i].file \in Recall!Files(s) \cup Recall!Files(t)
  <2>1. i \in 1 .. l \/ \E j \in 1 .. m : i = l + j
    <3>1. i \in 1 .. l + m /\ l \in Nat /\ m \in Nat
      BY <1>1, <1>4
    <3> QED BY Zenon, <3>1, RecallBehind
  <2> QED BY Zenon, <1>1, <2>1 DEF Recall!Files
<1>5. ASSUME NEW i \in DOMAIN s PROVE s[i].file \in Recall!Files(u)
  BY Zenon, <1>1, <1>3 DEF Recall!Files
<1>6. ASSUME NEW i \in DOMAIN t PROVE t[i].file \in Recall!Files(u)
  BY Zenon, <1>1, <1>2 DEF Recall!Files
<1>7. Recall!Files(u) = Recall!Files(s) \cup Recall!Files(t)
  BY <1>4, <1>5, <1>6 DEF Recall!Files
<1> QED BY <1>7 DEF u

LEMMA RecallTwoDistinct ==
  ASSUME NEW S, NEW s \in Seq(S), NEW t \in Seq(S), Recall!Distinct(s), Recall!Distinct(t), Recall!Files(s) \cap Recall!Files(t) = {}
  PROVE  Recall!Distinct(s \o t)
<1> DEFINE l == Len(s)
           m == Len(t)
           u == s \o t
<1>1. /\ l \in Nat /\ m \in Nat /\ DOMAIN u = 1 .. l + m /\ DOMAIN s = 1 .. l /\ DOMAIN t = 1 .. m
      /\ \A i \in 1 .. l : u[i] = s[i]
      /\ \A i \in 1 .. m : u[l + i] = t[i]
  BY RecallTwoIs
<1> HIDE DEF l, m, u
<1>2. \A i \in 1 .. l, j \in 1 .. m : s[i].file # t[j].file
  BY <1>1 DEF Recall!Files
<1>3. ASSUME NEW i \in DOMAIN u, NEW j \in DOMAIN u, u[i].file = u[j].file PROVE i = j
  <2>0. i \in 1 .. l + m /\ j \in 1 .. l + m /\ l \in Nat /\ m \in Nat /\ u[i].file = u[j].file
    BY <1>1, <1>3
  <2>1. i \in 1 .. l \/ \E n \in 1 .. m : i = l + n
    BY Zenon, <2>0, RecallBehind
  <2>2. j \in 1 .. l \/ \E n \in 1 .. m : j = l + n
    BY Zenon, <2>0, RecallBehind
  <2>3. CASE i \in 1 .. l /\ j \in 1 .. l
    BY Zenon, <1>1, <2>0, <2>3 DEF Recall!Distinct
  <2>4. ASSUME i \in 1 .. l, NEW n \in 1 .. m, j = l + n PROVE i = j
    BY Zenon, <1>1, <1>2, <2>0, <2>4
  <2>5. ASSUME j \in 1 .. l, NEW n \in 1 .. m, i = l + n PROVE i = j
    BY Zenon, <1>1, <1>2, <2>0, <2>5
  <2>6. ASSUME NEW n \in 1 .. m, i = l + n, NEW p \in 1 .. m, j = l + p PROVE i = j
    <3>1. u[i] = t[n] /\ u[j] = t[p]
      BY Zenon, <1>1, <2>6
    <3>2. n = p
      BY Zenon, <1>1, <2>0, <2>6, <3>1 DEF Recall!Distinct
    <3> QED BY Zenon, <2>6, <3>2
  <2> QED BY Zenon, <2>1, <2>2, <2>3, <2>4, <2>5, <2>6
<1>4. Recall!Distinct(u)
  BY <1>3 DEF Recall!Distinct
<1> QED BY <1>4 DEF u

(* Hits that only their scores tell from others; hits of which the first are taken. *)
RecallSameFiles(s, t) == DOMAIN s = DOMAIN t /\ \A i \in DOMAIN s : t[i].file = s[i].file
LEMMA RecallSameFilesIs ==
  ASSUME NEW s, NEW t, RecallSameFiles(s, t)
  PROVE  Recall!Files(t) = Recall!Files(s) /\ (Recall!Distinct(s) => Recall!Distinct(t))
BY DEF RecallSameFiles, Recall!Files, Recall!Distinct

LEMMA RecallCutKeeps ==
  ASSUME NEW S, NEW s \in Seq(S), NEW n \in Nat
  PROVE  Recall!Files(Recall!Cut(s, n)) \subseteq Recall!Files(s) /\ (Recall!Distinct(s) => Recall!Distinct(Recall!Cut(s, n)))
<1> DEFINE t == Recall!Cut(s, n)
<1>1. DOMAIN t \subseteq DOMAIN s /\ \A i \in DOMAIN t : t[i] = s[i]
  BY RecallCutIs
<1> HIDE DEF t
<1>2. Recall!Files(t) \subseteq Recall!Files(s) /\ (Recall!Distinct(s) => Recall!Distinct(t))
  BY <1>1 DEF Recall!Files, Recall!Distinct
<1> QED BY <1>2 DEF t

(* As many files as hits, if none comes twice.                                 *)
LEMMA RecallFilesCounted ==
  ASSUME NEW S, NEW s \in Seq(S)
  PROVE  /\ IsFiniteSet(Recall!Files(s))
         /\ Recall!Distinct(s) => Cardinality(Recall!Files(s)) = Len(s)
<1> DEFINE l == Len(s)
           f == [i \in 1 .. l |-> s[i].file]
<1>1. l \in Nat /\ DOMAIN s = 1 .. l
  OBVIOUS
<1> HIDE DEF l
<1>2. IsFiniteSet(1 .. l) /\ Cardinality(1 .. l) = l
  <2>1. 1 \in Int /\ l \in Int /\ (IF 1 > l THEN 0 ELSE l - 1 + 1) = l
    BY <1>1
  <2> QED BY Zenon, <2>1, FS_Interval
<1>3. f \in Surjection(1 .. l, Recall!Files(s))
  BY <1>1 DEF Surjection, Recall!Files
<1>4. /\ IsFiniteSet(Recall!Files(s))
      /\ Cardinality(Recall!Files(s)) = Cardinality(1 .. l) <=> f \in Injection(1 .. l, Recall!Files(s))
  BY Zenon, <1>2, <1>3, FS_Surjection
<1>5. Recall!Distinct(s) => f \in Injection(1 .. l, Recall!Files(s))
  BY <1>1, <1>3 DEF Injection, Surjection, Recall!Distinct, IsInjective
<1> QED BY Zenon, <1>2, <1>4, <1>5 DEF l

(* What a sequence of sequences makes, step by step.                           *)
RecallJoinedBy(parts, n, f) == f = [i \in 0 .. n |-> IF i = 0 THEN <<>> ELSE f[i - 1] \o parts[i]]

LEMMA RecallHasJoined == ASSUME NEW parts, NEW top \in Nat PROVE \E f : RecallJoinedBy(parts, top, f)
<1> DEFINE D == {n \in 0 .. top : ~ \E f : RecallJoinedBy(parts, n, f)}
<1>1. D \in SUBSET Nat
  OBVIOUS
<1>2. D = {}
  <2> SUFFICES ASSUME D # {} PROVE FALSE
    OBVIOUS
  <2>1. PICK d \in D : \A e \in D : d <= e
    <3> HIDE DEF D
    <3> QED BY <1>1, HasLowest
  <2>2. d \in 0 .. top /\ ~ \E f : RecallJoinedBy(parts, d, f)
    BY <2>1
  <2>3. CASE d = 0
    <3> DEFINE f == [m \in 0 .. 0 |-> <<>>]
    <3>1. \A m \in 0 .. 0 : m = 0
      OBVIOUS
    <3>2. f = [m \in 0 .. 0 |-> IF m = 0 THEN <<>> ELSE f[m - 1] \o parts[m]]
      BY Zenon, <3>1
    <3> QED BY Zenon, <2>2, <2>3, <3>2 DEF RecallJoinedBy
  <2>4. CASE d # 0
    <3> DEFINE n == d - 1
    <3>1. n \in Nat /\ n \in 0 .. top /\ ~(d <= n) /\ n + 1 = d
      BY <2>2, <2>4
    <3>2. PICK f : RecallJoinedBy(parts, n, f)
      BY <2>1, <3>1
    <3> HIDE DEF n
    <3> DEFINE g == [m \in 0 .. d |-> IF m = d THEN f[n] \o parts[d] ELSE f[m]]
    <3>3. \A m \in 0 .. n : f[m] = IF m = 0 THEN <<>> ELSE f[m - 1] \o parts[m]
      BY Zenon, <3>2 DEF RecallJoinedBy
    <3>4. ASSUME NEW m \in 0 .. d PROVE g[m] = IF m = 0 THEN <<>> ELSE g[m - 1] \o parts[m]
      <4>1. CASE m = d
        <5>1. m - 1 = n /\ n \in 0 .. d /\ n # d /\ m # 0
          BY <2>2, <2>4, <3>1, <4>1
        <5>2. g[n] = f[n] /\ g[m] = f[n] \o parts[d]
          BY Zenon, <4>1, <5>1
        <5> HIDE DEF g
        <5> QED BY Zenon, <4>1, <5>1, <5>2
      <4>2. CASE m # d /\ m = 0
        <5>1. 0 \in 0 .. n
          BY <3>1
        <5> QED BY Zenon, <3>3, <4>2, <5>1
      <4>3. CASE m # d /\ m # 0
        <5>1. m \in 0 .. n /\ m - 1 \in 0 .. d /\ m - 1 # d
          BY <2>2, <3>1, <4>3
        <5>2. g[m] = f[m] /\ g[m - 1] = f[m - 1]
          BY Zenon, <4>3, <5>1
        <5>3. f[m] = f[m - 1] \o parts[m]
          BY Zenon, <3>3, <4>3, <5>1
        <5> HIDE DEF g
        <5> QED BY Zenon, <4>3, <5>2, <5>3
      <4> QED BY Zenon, <4>1, <4>2, <4>3
    <3>5. DOMAIN g = 0 .. d /\ g = [m \in 0 .. d |-> g[m]]
      OBVIOUS
    <3> HIDE DEF g
    <3>6. g = [m \in 0 .. d |-> IF m = 0 THEN <<>> ELSE g[m - 1] \o parts[m]]
      BY Zenon, <3>4, <3>5
    <3> QED BY Zenon, <2>2, <3>6 DEF RecallJoinedBy
  <2> QED BY <2>3, <2>4
<1>3. top \in 0 .. top
  OBVIOUS
<1> QED BY Zenon, <1>2, <1>3

LEMMA RecallIsJoined == ASSUME NEW parts, NEW f, RecallJoinedBy(parts, Len(parts), f)
                  PROVE  \E g : RecallJoinedBy(parts, Len(parts), g) /\ Recall!Joined(parts) = g[Len(parts)]
BY Zenon DEF Recall!Joined, RecallJoinedBy

(* The files of the first n parts; parts of which no file comes twice.         *)
RecallFilesOf(parts, n) == UNION {Recall!Files(parts[i]) : i \in 1 .. n}
RecallApart(parts) ==
  /\ \A i \in DOMAIN parts : Recall!Distinct(parts[i])
  /\ \A i, j \in DOMAIN parts : i # j => Recall!Files(parts[i]) \cap Recall!Files(parts[j]) = {}
RecallJoinedTo(S, parts, t, n) ==
  t \in Seq(S) /\ Recall!Files(t) = RecallFilesOf(parts, n) /\ (RecallApart(parts) => Recall!Distinct(t))

LEMMA RecallJoinedGrows ==
  ASSUME NEW S, NEW parts \in Seq(Seq(S)), NEW n \in 1 .. Len(parts), NEW t, RecallJoinedTo(S, parts, t, n - 1)
  PROVE  RecallJoinedTo(S, parts, t \o parts[n], n)
<1>1. t \in Seq(S) /\ Recall!Files(t) = RecallFilesOf(parts, n - 1) /\ (RecallApart(parts) => Recall!Distinct(t))
  BY DEF RecallJoinedTo
<1>2. parts[n] \in Seq(S) /\ n \in DOMAIN parts /\ DOMAIN parts = 1 .. Len(parts)
  OBVIOUS
<1>3. 1 .. n = (1 .. n - 1) \cup {n} /\ n \notin 1 .. n - 1 /\ \A i \in 1 .. n - 1 : i \in 1 .. Len(parts)
  OBVIOUS
<1>4. t \o parts[n] \in Seq(S) /\ Recall!Files(t \o parts[n]) = Recall!Files(t) \cup Recall!Files(parts[n])
  BY <1>1, <1>2, RecallTwoFiles, RecallTwoIs
<1>5. RecallFilesOf(parts, n) = RecallFilesOf(parts, n - 1) \cup Recall!Files(parts[n])
  BY Zenon, <1>3 DEF RecallFilesOf
<1>6. ASSUME RecallApart(parts) PROVE Recall!Distinct(t \o parts[n])
  <2>1. Recall!Distinct(parts[n]) /\ \A i \in 1 .. n - 1 : Recall!Files(parts[i]) \cap Recall!Files(parts[n]) = {}
    BY Zenon, <1>2, <1>3, <1>6 DEF RecallApart
  <2>2. Recall!Files(t) \cap Recall!Files(parts[n]) = {}
    BY Zenon, <1>1, <2>1 DEF RecallFilesOf
  <2> QED BY Zenon, <1>1, <1>2, <1>6, <2>1, <2>2, RecallTwoDistinct
<1> QED BY Zenon, <1>1, <1>4, <1>5, <1>6 DEF RecallJoinedTo

LEMMA RecallJoinedIs ==
  ASSUME NEW S, NEW parts \in Seq(Seq(S))
  PROVE  RecallJoinedTo(S, parts, Recall!Joined(parts), Len(parts))
<1> DEFINE top == Len(parts)
<1>1. PICK g : RecallJoinedBy(parts, top, g) /\ Recall!Joined(parts) = g[top]
  <2>1. Len(parts) \in Nat
    OBVIOUS
  <2>2. PICK f : RecallJoinedBy(parts, Len(parts), f)
    BY <2>1, RecallHasJoined
  <2> QED BY <2>2, RecallIsJoined
<1>0. top \in Nat
  OBVIOUS
<1>2. \A n \in 1 .. top : \A t : RecallJoinedTo(S, parts, t, n - 1) => RecallJoinedTo(S, parts, t \o parts[n], n)
  BY RecallJoinedGrows
<1> HIDE DEF top
<1>3. \A m \in 0 .. top : g[m] = IF m = 0 THEN <<>> ELSE g[m - 1] \o parts[m]
  BY Zenon, <1>1 DEF RecallJoinedBy
<1> DEFINE D == {n \in 0 .. top : ~RecallJoinedTo(S, parts, g[n], n)}
<1>4. D \in SUBSET Nat
  OBVIOUS
<1>5. D = {}
  <2> SUFFICES ASSUME D # {} PROVE FALSE
    OBVIOUS
  <2>1. PICK d \in D : \A e \in D : d <= e
    <3> HIDE DEF D
    <3> QED BY <1>4, HasLowest
  <2>2. d \in 0 .. top /\ ~RecallJoinedTo(S, parts, g[d], d)
    BY <2>1
  <2>3. CASE d = 0
    <3>1. g[0] = <<>>
      BY Zenon, <1>3, <2>2, <2>3
    <3>2. <<>> \in Seq(S) /\ DOMAIN <<>> = {} /\ 1 .. 0 = {}
      OBVIOUS
    <3>3. Recall!Files(<<>>) = {} /\ Recall!Distinct(<<>>)
      BY <3>2 DEF Recall!Files, Recall!Distinct
    <3>4. RecallFilesOf(parts, 0) = {}
      BY Zenon, <3>2 DEF RecallFilesOf
    <3> QED BY Zenon, <2>2, <2>3, <3>1, <3>2, <3>3, <3>4 DEF RecallJoinedTo
  <2>4. CASE d # 0
    <3>1. d - 1 \in 0 .. top /\ ~(d <= d - 1) /\ d \in 1 .. top
      BY <1>0, <2>2, <2>4
    <3>2. RecallJoinedTo(S, parts, g[d - 1], d - 1)
      BY <2>1, <3>1
    <3>3. g[d] = g[d - 1] \o parts[d]
      BY Zenon, <1>3, <2>2, <2>4
    <3> QED BY Zenon, <1>2, <2>2, <3>1, <3>2, <3>3
  <2> QED BY <2>3, <2>4
<1>6. top \in 0 .. top
  BY <1>0
<1>7. RecallJoinedTo(S, parts, Recall!Joined(parts), top)
  BY Zenon, <1>1, <1>5, <1>6
<1> QED BY <1>7 DEF top

(* A function on the first numbers is a sequence; a sequence of one.            *)
LEMMA RecallOfLength ==
  ASSUME NEW T, NEW n \in Nat, NEW f, f = [i \in 1 .. n |-> f[i]], \A i \in 1 .. n : f[i] \in T
  PROVE  f \in Seq(T) /\ Len(f) = n /\ DOMAIN f = 1 .. n
<1>1. f \in [1 .. n -> T]
  BY Zenon
<1> QED BY ONLY <1>1, n \in Nat

LEMMA RecallOneFile ==
  ASSUME NEW x, NEW t, DOMAIN t = {1}, t[1] = x
  PROVE  Recall!Files(t) = {x.file} /\ Recall!Distinct(t)
BY DEF Recall!Files, Recall!Distinct

(* The members at some places.                                                 *)
LEMMA RecallPickedIs ==
  ASSUME NEW S, NEW s \in Seq(S), NEW P
  PROVE  /\ Recall!Picked(s, P) \in Seq(S)
         /\ Recall!Files(Recall!Picked(s, P)) = {s[i].file : i \in DOMAIN s \cap P}
         /\ (\A i, j \in DOMAIN s \cap P : s[i].file = s[j].file => i = j) => Recall!Distinct(Recall!Picked(s, P))
<1> DEFINE parts == [i \in DOMAIN s |-> IF i \in P THEN <<s[i]>> ELSE <<>>]
<1>1. parts \in Seq(Seq(S)) /\ DOMAIN parts = DOMAIN s /\ DOMAIN s = 1 .. Len(s) /\ Len(parts) = Len(s)
  <2>1. \A i \in DOMAIN s : (IF i \in P THEN <<s[i]>> ELSE <<>>) \in Seq(S)
    OBVIOUS
  <2>2. Len(s) \in Nat /\ DOMAIN s = 1 .. Len(s)
    OBVIOUS
  <2>3. DOMAIN parts = 1 .. Len(s) /\ parts = [i \in 1 .. Len(s) |-> parts[i]]
    BY <2>2
  <2>4. \A i \in 1 .. Len(s) : parts[i] \in Seq(S)
    BY Zenon, <2>1, <2>2
  <2> HIDE DEF parts
  <2> QED BY Zenon, <2>2, <2>3, <2>4, RecallOfLength
<1>2. Recall!Picked(s, P) = Recall!Joined(parts)
  BY DEF Recall!Picked
<1>3. \A x : Recall!Files(<<x>>) = {x.file} /\ Recall!Distinct(<<x>>)
  <2>1. \A x : DOMAIN <<x>> = {1} /\ <<x>>[1] = x
    OBVIOUS
  <2> QED BY Zenon, <2>1, RecallOneFile
<1>4. Recall!Files(<<>>) = {} /\ Recall!Distinct(<<>>)
  <2>1. DOMAIN <<>> = {}
    OBVIOUS
  <2> QED BY <2>1 DEF Recall!Files, Recall!Distinct
<1>5. \A i \in DOMAIN s :
        /\ Recall!Files(parts[i]) = IF i \in P THEN {s[i].file} ELSE {}
        /\ Recall!Distinct(parts[i])
  BY Zenon, <1>3, <1>4
<1> HIDE DEF parts
<1>6. RecallJoinedTo(S, parts, Recall!Joined(parts), Len(parts))
  BY Zenon, <1>1, RecallJoinedIs
<1>7. RecallFilesOf(parts, Len(parts)) = {s[i].file : i \in DOMAIN s \cap P}
  <2>1. ASSUME NEW f \in RecallFilesOf(parts, Len(parts)) PROVE f \in {s[i].file : i \in DOMAIN s \cap P}
    <3>1. PICK i \in DOMAIN s : f \in Recall!Files(parts[i])
      BY Zenon, <1>1, <2>1 DEF RecallFilesOf
    <3> QED BY <1>5, <3>1
  <2>2. ASSUME NEW i \in DOMAIN s \cap P PROVE s[i].file \in RecallFilesOf(parts, Len(parts))
    <3>1. s[i].file \in Recall!Files(parts[i]) /\ i \in 1 .. Len(parts)
      BY <1>1, <1>5, <2>2
    <3> QED BY Zenon, <3>1 DEF RecallFilesOf
  <2> QED BY <2>1, <2>2
<1>8. ASSUME \A i, j \in DOMAIN s \cap P : s[i].file = s[j].file => i = j
      PROVE  RecallApart(parts)
  <2>1. ASSUME NEW i \in DOMAIN s, NEW j \in DOMAIN s, i # j PROVE Recall!Files(parts[i]) \cap Recall!Files(parts[j]) = {}
    <3>1. CASE i \in P /\ j \in P
      <4>1. s[i].file # s[j].file
        BY <1>8, <2>1, <3>1
      <4>2. Recall!Files(parts[i]) = {s[i].file} /\ Recall!Files(parts[j]) = {s[j].file}
        BY <1>5, <2>1, <3>1
      <4> QED BY <4>1, <4>2
    <3>2. CASE i \notin P
      BY <1>5, <2>1, <3>2
    <3>3. CASE j \notin P
      BY <1>5, <2>1, <3>3
    <3> QED BY <3>1, <3>2, <3>3
  <2> QED BY Zenon, <1>1, <1>5, <2>1 DEF RecallApart
<1> QED BY Zenon, <1>2, <1>6, <1>7, <1>8 DEF RecallJoinedTo

(* The first of each file, and those of files that are not left out.           *)
LEMMA RecallFirstsIs ==
  ASSUME NEW S, NEW s \in Seq(S)
  PROVE  Recall!Firsts(s) \in Seq(S) /\ Recall!Files(Recall!Firsts(s)) \subseteq Recall!Files(s) /\ Recall!Distinct(Recall!Firsts(s))
<1> DEFINE P == {i \in DOMAIN s : \A j \in DOMAIN s : s[j].file = s[i].file => i <= j}
<1>1. Recall!Firsts(s) = Recall!Picked(s, P)
  BY DEF Recall!Firsts
<1>2. \A i \in DOMAIN s : i \in Nat
  OBVIOUS
<1>3. ASSUME NEW i \in DOMAIN s \cap P, NEW j \in DOMAIN s \cap P, s[i].file = s[j].file PROVE i = j
  <2>1. i <= j /\ j <= i /\ i \in Nat /\ j \in Nat
    BY <1>2, <1>3
  <2> QED BY <2>1
<1> HIDE DEF P
<1>4. /\ Recall!Picked(s, P) \in Seq(S) /\ Recall!Distinct(Recall!Picked(s, P))
      /\ Recall!Files(Recall!Picked(s, P)) = {s[i].file : i \in DOMAIN s \cap P}
  BY <1>3, RecallPickedIs
<1>5. {s[i].file : i \in DOMAIN s \cap P} \subseteq Recall!Files(s)
  BY DEF Recall!Files
<1> QED BY Zenon, <1>1, <1>4, <1>5

LEMMA RecallWithoutIs ==
  ASSUME NEW S, NEW s \in Seq(S), NEW F
  PROVE  /\ Recall!Without(s, F) \in Seq(S) /\ Recall!Files(Recall!Without(s, F)) = Recall!Files(s) \ F
         /\ Recall!Distinct(s) => Recall!Distinct(Recall!Without(s, F))
<1> DEFINE P == {i \in DOMAIN s : s[i].file \notin F}
<1>1. Recall!Without(s, F) = Recall!Picked(s, P)
  BY DEF Recall!Without
<1>2. {s[i].file : i \in DOMAIN s \cap P} = Recall!Files(s) \ F
  BY DEF Recall!Files
<1>3. Recall!Distinct(s) => \A i, j \in DOMAIN s \cap P : s[i].file = s[j].file => i = j
  BY DEF Recall!Distinct
<1> HIDE DEF P
<1>4. /\ Recall!Picked(s, P) \in Seq(S) /\ Recall!Files(Recall!Picked(s, P)) = {s[i].file : i \in DOMAIN s \cap P}
      /\ (\A i, j \in DOMAIN s \cap P : s[i].file = s[j].file => i = j) => Recall!Distinct(Recall!Picked(s, P))
  BY Zenon, RecallPickedIs
<1> QED BY Zenon, <1>1, <1>2, <1>3, <1>4

(* Sorting: the numbers of members ahead are the places, each once.            *)
RecallBefore(key, i) == {j \in DOMAIN key : Recall!Ahead(key, j, i)}

LEMMA RecallAheadIs ==
  ASSUME NEW n \in Nat, NEW key \in [1 .. n -> Int], NEW i \in 1 .. n, NEW j \in 1 .. n
  PROVE  /\ ~Recall!Ahead(key, i, i)
         /\ i # j => Recall!Ahead(key, i, j) \/ Recall!Ahead(key, j, i)
         /\ Recall!Ahead(key, i, j) => \A m \in 1 .. n : Recall!Ahead(key, m, i) => Recall!Ahead(key, m, j)
<1>1. \A m \in 1 .. n : key[m] \in Int
  OBVIOUS
<1> QED BY <1>1 DEF Recall!Ahead

LEMMA RecallPlaceIs ==
  ASSUME NEW n \in Nat, NEW key \in [1 .. n -> Int]
  PROVE  /\ \A i \in 1 .. n : Recall!Place(key, i) \in 1 .. n
         /\ \A i, j \in 1 .. n : Recall!Place(key, i) = Recall!Place(key, j) => i = j
<1>1. IsFiniteSet(1 .. n) /\ Cardinality(1 .. n) = n
  <2>1. 1 \in Int /\ n \in Int /\ (IF 1 > n THEN 0 ELSE n - 1 + 1) = n
    OBVIOUS
  <2> QED BY Zenon, <2>1, FS_Interval
<1>2. \A i \in 1 .. n : RecallBefore(key, i) \in SUBSET (1 .. n) /\ Recall!Place(key, i) = Cardinality(RecallBefore(key, i)) + 1
  BY DEF RecallBefore, Recall!Place
<1>3. \A i \in 1 .. n : i \notin RecallBefore(key, i)
  BY RecallAheadIs DEF RecallBefore
<1>4. ASSUME NEW i \in 1 .. n
      PROVE  /\ IsFiniteSet(RecallBefore(key, i)) /\ Cardinality(RecallBefore(key, i)) \in Nat
             /\ Cardinality(RecallBefore(key, i)) <= n /\ Cardinality(RecallBefore(key, i)) # n
  <2>1. /\ IsFiniteSet(RecallBefore(key, i)) /\ Cardinality(RecallBefore(key, i)) <= Cardinality(1 .. n)
        /\ Cardinality(1 .. n) = Cardinality(RecallBefore(key, i)) => 1 .. n = RecallBefore(key, i)
    BY Zenon, <1>1, <1>2, <1>4, FS_Subset
  <2>2. Cardinality(RecallBefore(key, i)) \in Nat
    BY Zenon, <2>1, FS_CardinalityType
  <2>3. 1 .. n # RecallBefore(key, i)
    BY Zenon, <1>3, <1>4
  <2> QED BY Zenon, <1>1, <2>1, <2>2, <2>3
<1>5. ASSUME NEW i \in 1 .. n, NEW j \in 1 .. n, Recall!Ahead(key, i, j)
      PROVE  Cardinality(RecallBefore(key, i)) # Cardinality(RecallBefore(key, j))
  <2>1. RecallBefore(key, i) \in SUBSET RecallBefore(key, j)
    <3>1. DOMAIN key = 1 .. n
      OBVIOUS
    <3> QED BY <1>5, <3>1, RecallAheadIs DEF RecallBefore
  <2>2. i \in RecallBefore(key, j) /\ i \notin RecallBefore(key, i)
    BY <1>3, <1>5 DEF RecallBefore
  <2>3. IsFiniteSet(RecallBefore(key, j))
    BY <1>4
  <2>4. Cardinality(RecallBefore(key, j)) = Cardinality(RecallBefore(key, i)) => RecallBefore(key, j) = RecallBefore(key, i)
    BY Zenon, <2>1, <2>3, FS_Subset
  <2> QED BY Zenon, <2>2, <2>4
<1>6. ASSUME NEW i \in 1 .. n PROVE Recall!Place(key, i) \in 1 .. n
  <2> DEFINE c == Cardinality(RecallBefore(key, i))
  <2>1. c \in Nat /\ c <= n /\ c # n /\ Recall!Place(key, i) = c + 1
    BY <1>2, <1>4
  <2> HIDE DEF c
  <2> QED BY <2>1
<1>7. ASSUME NEW i \in 1 .. n, NEW j \in 1 .. n, Recall!Place(key, i) = Recall!Place(key, j) PROVE i = j
  <2> DEFINE c == Cardinality(RecallBefore(key, i))
             d == Cardinality(RecallBefore(key, j))
  <2>1. c \in Nat /\ d \in Nat /\ c + 1 = d + 1
    BY <1>2, <1>4, <1>7
  <2> HIDE DEF c, d
  <2>2. c = d
    BY <2>1
  <2>3. ~Recall!Ahead(key, i, j) /\ ~Recall!Ahead(key, j, i)
    BY Zenon, <1>5, <1>7, <2>2 DEF c, d
  <2> QED BY <1>7, <2>3, RecallAheadIs
<1> QED BY <1>6, <1>7

LEMMA RecallPlacesTaken ==
  ASSUME NEW n \in Nat, NEW key \in [1 .. n -> Int]
  PROVE  \A m \in 1 .. n : \E i \in 1 .. n : Recall!Place(key, i) = m
<1> DEFINE p == [i \in 1 .. n |-> Recall!Place(key, i)]
<1>1. /\ \A i \in 1 .. n : Recall!Place(key, i) \in 1 .. n
      /\ \A i, j \in 1 .. n : Recall!Place(key, i) = Recall!Place(key, j) => i = j
  BY RecallPlaceIs
<1>2. p \in Injection(1 .. n, 1 .. n)
  BY <1>1 DEF Injection, IsInjective
<1>3. IsFiniteSet(1 .. n)
  <2>1. 1 \in Int /\ n \in Int
    OBVIOUS
  <2> QED BY Zenon, <2>1, FS_Interval
<1> HIDE DEF p
<1>4. p \in Surjection(1 .. n, 1 .. n)
  BY Zenon, <1>2, <1>3, FS_Injection
<1>5. \A m \in 1 .. n : \E i \in 1 .. n : p[i] = m
  BY Zenon, <1>4 DEF Surjection
<1> QED BY Zenon, <1>5 DEF p

LEMMA RecallSortedIs ==
  ASSUME NEW S, NEW s \in Seq(S), NEW key \in [DOMAIN s -> Int]
  PROVE  /\ Recall!Sorted(s, key) \in Seq(S) /\ Len(Recall!Sorted(s, key)) = Len(s)
         /\ DOMAIN Recall!Sorted(s, key) = DOMAIN s
         /\ Recall!Files(Recall!Sorted(s, key)) = Recall!Files(s)
         /\ Recall!Distinct(s) => Recall!Distinct(Recall!Sorted(s, key))
<1> DEFINE n == Len(s)
           t == Recall!Sorted(s, key)
<1>1. n \in Nat /\ DOMAIN s = 1 .. n /\ \A i \in 1 .. n : s[i] \in S
  OBVIOUS
<1> HIDE DEF n
<1>2. key \in [1 .. n -> Int]
  BY Zenon, <1>1
<1>3. /\ \A i \in 1 .. n : Recall!Place(key, i) \in 1 .. n
      /\ \A i, j \in 1 .. n : Recall!Place(key, i) = Recall!Place(key, j) => i = j
  BY Zenon, <1>1, <1>2, RecallPlaceIs
<1>4. \A m \in 1 .. n : \E i \in 1 .. n : Recall!Place(key, i) = m
  BY Zenon, <1>1, <1>2, RecallPlacesTaken
<1>5. t = [m \in DOMAIN s |-> s[CHOOSE i \in DOMAIN s : Recall!Place(key, i) = m]]
  BY Zenon DEF Recall!Sorted
<1> HIDE DEF t
<1>6. \A m \in 1 .. n : \E i \in 1 .. n : Recall!Place(key, i) = m /\ t[m] = s[i]
  <2>1. \A m \in DOMAIN s : \E i \in DOMAIN s : Recall!Place(key, i) = m
    BY <1>1, <1>4
  <2>2. \A m \in DOMAIN s : \E i \in DOMAIN s : Recall!Place(key, i) = m /\ t[m] = s[i]
    BY Zenon, <1>5, <2>1
  <2> QED BY <1>1, <2>2
<1>7. t = [m \in 1 .. n |-> t[m]] /\ \A m \in 1 .. n : t[m] \in S
  <2>1. t = [m \in DOMAIN s |-> t[m]]
    BY <1>5
  <2>2. \A m \in 1 .. n : t[m] \in S
    BY Zenon, <1>1, <1>6
  <2> QED BY <1>1, <2>1, <2>2
<1>8. t \in Seq(S) /\ Len(t) = n /\ DOMAIN t = 1 .. n
  BY Zenon, <1>1, <1>7, RecallOfLength
<1>9. \A i \in 1 .. n : t[Recall!Place(key, i)] = s[i]
  BY Zenon, <1>3, <1>6
<1>10. Recall!Files(t) \subseteq Recall!Files(s)
  <2>1. ASSUME NEW m \in 1 .. n PROVE t[m].file \in Recall!Files(s)
    <3>1. PICK i \in 1 .. n : t[m] = s[i]
      BY Zenon, <1>6, <2>1
    <3> QED BY <1>1, <3>1 DEF Recall!Files
  <2> QED BY <1>8, <2>1 DEF Recall!Files
<1>11. Recall!Files(s) \subseteq Recall!Files(t)
  <2>1. ASSUME NEW i \in 1 .. n PROVE s[i].file \in Recall!Files(t)
    <3>1. Recall!Place(key, i) \in DOMAIN t /\ t[Recall!Place(key, i)] = s[i]
      BY Zenon, <1>3, <1>8, <1>9, <2>1
    <3> QED BY <3>1 DEF Recall!Files
  <2> QED BY <1>1, <2>1 DEF Recall!Files
<1>12. ASSUME Recall!Distinct(s), NEW a \in 1 .. n, NEW b \in 1 .. n, t[a].file = t[b].file PROVE a = b
  <2>1. PICK i \in 1 .. n : Recall!Place(key, i) = a /\ t[a] = s[i]
    BY Zenon, <1>6, <1>12
  <2>2. PICK j \in 1 .. n : Recall!Place(key, j) = b /\ t[b] = s[j]
    BY Zenon, <1>6, <1>12
  <2>3. i = j
    BY Zenon, <1>1, <1>12, <2>1, <2>2 DEF Recall!Distinct
  <2> QED BY Zenon, <2>1, <2>2, <2>3
<1>13. Recall!Distinct(s) => Recall!Distinct(t)
  BY Zenon, <1>8, <1>12 DEF Recall!Distinct
<1>14. Recall!Files(t) = Recall!Files(s)
  BY Zenon, <1>10, <1>11
<1> QED BY Zenon, <1>1, <1>8, <1>13, <1>14 DEF n, t

LEMMA RecallByScoreIs ==
  ASSUME NEW S, NEW s \in Seq(S), \A i \in DOMAIN s : s[i].score \in Int
  PROVE  /\ Recall!ByScore(s) \in Seq(S) /\ Len(Recall!ByScore(s)) = Len(s)
         /\ Recall!Files(Recall!ByScore(s)) = Recall!Files(s) /\ (Recall!Distinct(s) => Recall!Distinct(Recall!ByScore(s)))
<1> DEFINE key == [i \in DOMAIN s |-> s[i].score]
<1>1. key \in [DOMAIN s -> Int]
  OBVIOUS
<1>2. Recall!ByScore(s) = Recall!Sorted(s, key)
  BY DEF Recall!ByScore
<1> HIDE DEF key
<1> QED BY <1>1, <1>2, RecallSortedIs

(* What the back ends find, as hits.                                           *)
RecallIsHits(h, l) ==
  h = [i \in DOMAIN l |-> h[i]] /\ \A i \in DOMAIN l : \E x \in Int : h[i] = Recall!Hit(l[i], x)

LEMMA RecallHitIs == ASSUME NEW f \in RecallFile, NEW x \in Int PROVE Recall!Hit(f, x) \in Recall!HitType /\ Recall!Hit(f, x).file = f
BY DEF Recall!Hit, Recall!HitType

LEMMA RecallHitsIs ==
  ASSUME NEW l \in Seq(RecallFile), NEW h, RecallIsHits(h, l)
  PROVE  /\ h \in Seq(Recall!HitType) /\ Len(h) = Len(l) /\ Recall!Files(h) = {l[i] : i \in DOMAIN l}
         /\ (\A i, j \in DOMAIN l : l[i] = l[j] => i = j) => Recall!Distinct(h)
<1> DEFINE n == Len(l)
<1>1. n \in Nat /\ DOMAIN l = 1 .. n /\ \A i \in 1 .. n : l[i] \in RecallFile
  OBVIOUS
<1> HIDE DEF n
<1>2. \A i \in 1 .. n : h[i] \in Recall!HitType /\ h[i].file = l[i]
  <2>1. ASSUME NEW i \in 1 .. n PROVE h[i] \in Recall!HitType /\ h[i].file = l[i]
    <3>1. PICK x \in Int : h[i] = Recall!Hit(l[i], x)
      BY <1>1, <2>1 DEF RecallIsHits
    <3>2. l[i] \in RecallFile
      BY <1>1, <2>1
    <3>3. x \in Int
      BY <3>1
    <3>4. Recall!Hit(l[i], x) \in Recall!HitType /\ Recall!Hit(l[i], x).file = l[i]
      BY <3>2, <3>3, RecallHitIs
    <3> QED BY Zenon, <3>1, <3>4
  <2> QED BY Zenon, <2>1
<1>3. h = [i \in 1 .. n |-> h[i]]
  BY <1>1 DEF RecallIsHits
<1>4. h \in Seq(Recall!HitType) /\ Len(h) = n /\ DOMAIN h = 1 .. n
  BY Zenon, <1>1, <1>2, <1>3, RecallOfLength
<1>5. Recall!Files(h) = {l[i] : i \in DOMAIN l}
  BY <1>1, <1>2, <1>4 DEF Recall!Files
<1>6. (\A i, j \in DOMAIN l : l[i] = l[j] => i = j) => Recall!Distinct(h)
  BY <1>1, <1>2, <1>4 DEF Recall!Distinct
<1> QED BY <1>4, <1>5, <1>6 DEF n

LEMMA RecallSemanticIs ==
  Recall!Given => /\ Recall!Semantic \in Seq(Recall!HitType) /\ Recall!Distinct(Recall!Semantic)
           /\ Recall!Files(Recall!Semantic) \subseteq {Recall_chunks[i] : i \in DOMAIN Recall_chunks}
<1> SUFFICES ASSUME Recall!Given
             PROVE  /\ Recall!Semantic \in Seq(Recall!HitType) /\ Recall!Distinct(Recall!Semantic)
                    /\ Recall!Files(Recall!Semantic) \subseteq {Recall_chunks[i] : i \in DOMAIN Recall_chunks}
  OBVIOUS
<1>1. Recall_chunks \in Seq(RecallFile) /\ Recall_k \in Nat /\ 9 * Recall_k \in Nat /\ 3 * Recall_k \in Nat
  BY RecallAssumption DEF Recall!Given
<1> DEFINE near == Recall!Cut(Recall_chunks, 9 * Recall_k)
           h == [i \in DOMAIN near |-> Recall!Hit(near[i], Recall!SemScore(i))]
           t == Recall!Firsts(h)
<1>2. Recall!Semantic = Recall!Cut(t, 3 * Recall_k)
  BY DEF Recall!Semantic
<1>3. near \in Seq(RecallFile) /\ DOMAIN near \subseteq DOMAIN Recall_chunks /\ \A i \in DOMAIN near : near[i] = Recall_chunks[i]
  BY <1>1, RecallCutIs
<1> HIDE DEF near
<1>4. \A i \in DOMAIN near : Recall!SemScore(i) \in Int
  <2>1. \A i \in DOMAIN near : i \in Nat
    BY <1>3
  <2> QED BY <2>1 DEF Recall!SemScore
<1>5. RecallIsHits(h, near)
  BY <1>4 DEF RecallIsHits
<1> HIDE DEF h
<1>6. h \in Seq(Recall!HitType) /\ Recall!Files(h) = {near[i] : i \in DOMAIN near}
  BY <1>3, <1>5, RecallHitsIs
<1>7. t \in Seq(Recall!HitType) /\ Recall!Files(t) \subseteq Recall!Files(h) /\ Recall!Distinct(t)
  BY <1>6, RecallFirstsIs
<1> HIDE DEF t
<1>8. Recall!Cut(t, 3 * Recall_k) \in Seq(Recall!HitType) /\ Recall!Files(Recall!Cut(t, 3 * Recall_k)) \subseteq Recall!Files(t) /\ Recall!Distinct(Recall!Cut(t, 3 * Recall_k))
  BY Zenon, <1>1, <1>7, RecallCutIs, RecallCutKeeps
<1>9. {near[i] : i \in DOMAIN near} \subseteq {Recall_chunks[i] : i \in DOMAIN Recall_chunks}
  BY <1>3
<1> QED BY Zenon, <1>2, <1>6, <1>7, <1>8, <1>9

LEMMA RecallRankedIs ==
  ASSUME NEW l, l \in RecallRanks \cup {<<>>}, NEW n \in Nat
  PROVE  LET h == Recall!Cut([i \in DOMAIN l |-> Recall!Hit(l[i], Recall!BmScore(i))], n)
         IN h \in Seq(Recall!HitType) /\ Recall!Distinct(h) /\ Recall!Files(h) \subseteq {l[i] : i \in DOMAIN l}
<1> DEFINE h == [i \in DOMAIN l |-> Recall!Hit(l[i], Recall!BmScore(i))]
<1>1. l \in Seq(RecallFile) /\ \A i, j \in DOMAIN l : l[i] = l[j] => i = j
  <2>1. CASE l \in RecallRanks
    BY Zenon, <2>1, RecallAssumption
  <2>2. CASE l = <<>>
    BY <2>2
  <2> QED BY <2>1, <2>2
<1>2. \A i \in DOMAIN l : Recall!BmScore(i) \in Int
  <2>1. \A i \in DOMAIN l : i \in Nat
    BY <1>1
  <2> QED BY <2>1 DEF Recall!BmScore
<1>3. RecallIsHits(h, l)
  BY <1>2 DEF RecallIsHits
<1> HIDE DEF h
<1>4. h \in Seq(Recall!HitType) /\ Recall!Distinct(h) /\ Recall!Files(h) = {l[i] : i \in DOMAIN l}
  BY <1>1, <1>3, RecallHitsIs
<1>5. Recall!Cut(h, n) \in Seq(Recall!HitType) /\ Recall!Files(Recall!Cut(h, n)) \subseteq Recall!Files(h) /\ Recall!Distinct(Recall!Cut(h, n))
  BY Zenon, <1>4, RecallCutIs, RecallCutKeeps
<1>6. /\ Recall!Cut(h, n) \in Seq(Recall!HitType) /\ Recall!Distinct(Recall!Cut(h, n))
      /\ Recall!Files(Recall!Cut(h, n)) \subseteq {l[i] : i \in DOMAIN l}
  BY Zenon, <1>4, <1>5
<1> QED BY Zenon, <1>6 DEF h

LEMMA RecallBm25Is ==
  Recall!Given => Recall!Bm25 \in Seq(Recall!HitType) /\ Recall!Distinct(Recall!Bm25) /\ Recall!Files(Recall!Bm25) \subseteq {Recall_ranks[i] : i \in DOMAIN Recall_ranks}
<1> SUFFICES ASSUME Recall!Given
             PROVE  /\ Recall!Bm25 \in Seq(Recall!HitType) /\ Recall!Distinct(Recall!Bm25)
                    /\ Recall!Files(Recall!Bm25) \subseteq {Recall_ranks[i] : i \in DOMAIN Recall_ranks}
  OBVIOUS
<1>1. Recall_ranks \in RecallRanks \cup {<<>>} /\ 3 * Recall_k \in Nat
  BY RecallAssumption DEF Recall!Given
<1> QED BY Zenon, <1>1, RecallRankedIs DEF Recall!Bm25

LEMMA RecallKeywordIs == Recall!Given => Recall!Keyword \in Seq(Recall!HitType)
<1> SUFFICES ASSUME Recall!Given PROVE Recall!Keyword \in Seq(Recall!HitType)
  OBVIOUS
<1>1. Recall_scan \in RecallRanks \cup {<<>>} /\ Recall_k \in Nat
  BY RecallAssumption DEF Recall!Given
<1>2. Recall!Cut([i \in DOMAIN Recall_scan |-> Recall!Hit(Recall_scan[i], Recall!BmScore(i))], Recall_k) \in Seq(Recall!HitType)
  BY Zenon, <1>1, RecallRankedIs
<1>3. <<>> \in Seq(Recall!HitType)
  OBVIOUS
<1> QED BY Zenon, <1>2, <1>3 DEF Recall!Keyword

(* The fusion of two lists has the files of both, once each.                   *)
LEMMA RecallRankScoreIs ==
  ASSUME NEW s \in Seq(Recall!HitType), NEW f
  PROVE  Recall!RankScore(s, f) \in Int
<1> DEFINE at == {i \in DOMAIN s : s[i].file = f}
           c == CHOOSE i \in at : TRUE
<1>1. Recall!RankScore(s, f) = IF at = {} THEN 0 ELSE Recall!Million \div (60 + c)
  BY DEF Recall!RankScore
<1>2. at # {} => c \in at
  BY Zenon
<1>3. at \subseteq Nat
  OBVIOUS
<1> HIDE DEF at, c
<1>4. CASE at = {}
  BY <1>1, <1>4
<1>5. CASE at # {}
  <2>1. c \in Nat
    BY <1>2, <1>3, <1>5
  <2>2. Recall!Million \div (60 + c) \in Int
    BY <2>1 DEF Recall!Million
  <2> QED BY <1>1, <1>5, <2>2
<1> QED BY <1>4, <1>5

LEMMA RecallFuseIs ==
  ASSUME NEW s \in Seq(Recall!HitType), NEW b \in Seq(Recall!HitType), Recall!Distinct(s), Recall!Distinct(b)
  PROVE  Recall!Fuse(s, b) \in Seq(Recall!HitType) /\ Recall!Distinct(Recall!Fuse(s, b)) /\ Recall!Files(Recall!Fuse(s, b)) = Recall!Files(s) \cup Recall!Files(b)
<1> DEFINE new == Recall!Without(b, Recall!Files(s))
           all == s \o new
           rrf == [i \in DOMAIN all |-> Recall!RankScore(s, all[i].file) + Recall!RankScore(b, all[i].file)]
           h == [i \in DOMAIN all |-> [all[i] EXCEPT !.rrf = rrf[i]]]
<1>1. Recall!Fuse(s, b) = Recall!Sorted(h, rrf)
  BY DEF Recall!Fuse
<1>2. new \in Seq(Recall!HitType) /\ Recall!Files(new) = Recall!Files(b) \ Recall!Files(s) /\ Recall!Distinct(new)
  BY RecallWithoutIs
<1> HIDE DEF new
<1>3. all \in Seq(Recall!HitType) /\ Recall!Files(all) = Recall!Files(s) \cup Recall!Files(new) /\ Recall!Distinct(all)
  BY <1>2, RecallTwoFiles, RecallTwoDistinct
<1> HIDE DEF all
<1>4. \A i \in DOMAIN all : Recall!RankScore(s, all[i].file) + Recall!RankScore(b, all[i].file) \in Int
  <2>1. \A f : Recall!RankScore(s, f) \in Int /\ Recall!RankScore(b, f) \in Int
    BY RecallRankScoreIs
  <2> QED BY <2>1
<1>5. rrf \in [DOMAIN all -> Int]
  BY <1>4
<1> HIDE DEF rrf
<1> DEFINE n == Len(all)
<1>6. n \in Nat /\ DOMAIN all = 1 .. n /\ \A i \in 1 .. n : all[i] \in Recall!HitType
  BY <1>3
<1>7. \A i \in 1 .. n : h[i] \in Recall!HitType /\ h[i].file = all[i].file
  BY <1>5, <1>6 DEF Recall!HitType
<1>8. DOMAIN h = 1 .. n /\ h = [i \in 1 .. n |-> h[i]]
  BY <1>6
<1> HIDE DEF h, n
<1>9. h \in Seq(Recall!HitType)
  BY Zenon, <1>6, <1>7, <1>8, RecallOfLength
<1>10. RecallSameFiles(all, h)
  BY Zenon, <1>6, <1>7, <1>8 DEF RecallSameFiles
<1>11. Recall!Files(h) = Recall!Files(all) /\ Recall!Distinct(h)
  BY <1>3, <1>10, RecallSameFilesIs
<1>12. rrf \in [DOMAIN h -> Int]
  BY <1>5, <1>6, <1>8
<1>13. Recall!Sorted(h, rrf) \in Seq(Recall!HitType) /\ Recall!Files(Recall!Sorted(h, rrf)) = Recall!Files(h) /\ Recall!Distinct(Recall!Sorted(h, rrf))
  BY <1>9, <1>11, <1>12, RecallSortedIs
<1> QED BY <1>1, <1>2, <1>3, <1>11, <1>13

LEMMA RecallSourceIs ==
  Recall!Given => Recall!Source \in Seq(Recall!HitType) /\ Recall!Distinct(Recall!Source) /\ Recall!Files(Recall!Source) = Recall!Files(Recall!Semantic) \cup Recall!Files(Recall!Bm25)
<1> SUFFICES ASSUME Recall!Given
             PROVE  /\ Recall!Source \in Seq(Recall!HitType) /\ Recall!Distinct(Recall!Source)
                    /\ Recall!Files(Recall!Source) = Recall!Files(Recall!Semantic) \cup Recall!Files(Recall!Bm25)
  OBVIOUS
<1>1. Recall!Semantic \in Seq(Recall!HitType) /\ Recall!Distinct(Recall!Semantic) /\ Recall!Bm25 \in Seq(Recall!HitType) /\ Recall!Distinct(Recall!Bm25)
  BY RecallSemanticIs, RecallBm25Is
<1>2. CASE Recall!Hybrid
  BY <1>1, <1>2, RecallFuseIs DEF Recall!Source
<1>3. CASE ~Recall!Hybrid
  <2>1. Recall!Source = Recall!Semantic \o Recall!Bm25 /\ (Recall!Semantic = <<>> \/ Recall!Bm25 = <<>>)
    BY <1>3 DEF Recall!Source, Recall!Hybrid
  <2>2. Recall!Files(<<>>) = {}
    <3>1. DOMAIN <<>> = {}
      OBVIOUS
    <3> QED BY <3>1 DEF Recall!Files
  <2>3. Recall!Files(Recall!Semantic) \cap Recall!Files(Recall!Bm25) = {}
    BY Zenon, <2>1, <2>2
  <2> QED BY <1>1, <2>1, <2>3, RecallTwoFiles, RecallTwoDistinct, RecallTwoIs
<1> QED BY <1>2, <1>3

LEMMA RecallNoFiles == ASSUME NEW S, NEW s \in Seq(S), Recall!Files(s) = {} PROVE s = <<>>
<1>1. \A i \in DOMAIN s : s[i].file \in Recall!Files(s)
  BY DEF Recall!Files
<1>2. DOMAIN s = {}
  BY <1>1
<1> QED BY <1>2

(* No file is looked for by keyword when an index gives any.                   *)
LEMMA RecallKeywordNone == Recall!Given /\ Recall!Source # <<>> => Recall!Keyword = <<>>
<1> SUFFICES ASSUME Recall!Given, Recall!Source # <<>>, Recall!Keyword # <<>> PROVE FALSE
  OBVIOUS
<1>1. Recall_chunks = <<>> /\ Recall_ranks = <<>>
  BY DEF Recall!Keyword
<1>2. {Recall_chunks[i] : i \in DOMAIN Recall_chunks} = {} /\ {Recall_ranks[i] : i \in DOMAIN Recall_ranks} = {}
  BY <1>1
<1>3. Recall!Source \in Seq(Recall!HitType) /\ Recall!Files(Recall!Source) = {}
  BY Zenon, <1>2, RecallSourceIs, RecallSemanticIs, RecallBm25Is
<1> QED BY Zenon, <1>3, RecallNoFiles

(* A step of the scores leaves the files as they are.                          *)
LEMMA RecallRescoredIs ==
  ASSUME NEW s \in Seq(Recall!HitType), NEW h, h = [i \in DOMAIN s |-> h[i]],
         \A i \in DOMAIN s : h[i] \in Recall!HitType /\ h[i].file = s[i].file
  PROVE  h \in Seq(Recall!HitType) /\ Len(h) = Len(s) /\ RecallSameFiles(s, h) /\ \A i \in DOMAIN h : h[i].score \in Int
<1> DEFINE n == Len(s)
<1>1. n \in Nat /\ DOMAIN s = 1 .. n
  OBVIOUS
<1> HIDE DEF n
<1>2. h = [i \in 1 .. n |-> h[i]] /\ \A i \in 1 .. n : h[i] \in Recall!HitType /\ h[i].file = s[i].file
  BY <1>1
<1>3. h \in Seq(Recall!HitType) /\ Len(h) = n /\ DOMAIN h = 1 .. n
  BY Zenon, <1>1, <1>2, RecallOfLength
<1>4. \A m \in Recall!HitType : m.score \in Int
  BY DEF Recall!HitType
<1>5. \A i \in DOMAIN h : h[i].score \in Int
  BY Zenon, <1>2, <1>3, <1>4
<1>6. RecallSameFiles(s, h)
  BY Zenon, <1>1, <1>2, <1>3 DEF RecallSameFiles
<1> QED BY Zenon, <1>3, <1>5, <1>6 DEF n

(* The hits are those of s, in another order and with other scores.            *)
RecallReordered(t, s) ==
  /\ t \in Seq(Recall!HitType) /\ Len(t) = Len(s) /\ Recall!Files(t) = Recall!Files(s)
  /\ Recall!Distinct(s) => Recall!Distinct(t)

LEMMA RecallResortedIs ==
  ASSUME NEW s \in Seq(Recall!HitType), NEW h, h = [i \in DOMAIN s |-> h[i]],
         \A i \in DOMAIN s : h[i] \in Recall!HitType /\ h[i].file = s[i].file
  PROVE  RecallReordered(Recall!ByScore(h), s)
<1>1. h \in Seq(Recall!HitType) /\ Len(h) = Len(s) /\ RecallSameFiles(s, h) /\ \A i \in DOMAIN h : h[i].score \in Int
  BY RecallRescoredIs
<1>2. /\ Recall!ByScore(h) \in Seq(Recall!HitType) /\ Len(Recall!ByScore(h)) = Len(h)
      /\ Recall!Files(Recall!ByScore(h)) = Recall!Files(h) /\ (Recall!Distinct(h) => Recall!Distinct(Recall!ByScore(h)))
  BY <1>1, RecallByScoreIs
<1> QED BY <1>1, <1>2, RecallSameFilesIs DEF RecallReordered

LEMMA RecallReweightIs ==
  ASSUME Recall!Given, NEW x \in Int, NEW f \in RecallFile
  PROVE  Recall!Reweight(x, f) \in Int
<1>1. Recall_mean[f] \in Int
  BY RecallAssumption DEF Recall!Given
<1>2. x * (50 + Recall_mean[f]) \in Int
  BY <1>1
<1> DEFINE y == x * (50 + Recall_mean[f])
<1>3. Recall!Reweight(x, f) = y \div 100
  BY DEF Recall!Reweight
<1> HIDE DEF y
<1> QED BY <1>2, <1>3 DEF y

LEMMA RecallRerankIs ==
  ASSUME Recall!Given, NEW s \in Seq(Recall!HitType)
  PROVE  RecallReordered(Recall!Rerank(s), s)
<1> DEFINE h == [i \in DOMAIN s |-> Recall!Weighed(s[i])]
<1>1. ASSUME NEW m \in Recall!HitType PROVE Recall!Weighed(m) \in Recall!HitType /\ Recall!Weighed(m).file = m.file
  <2> DEFINE base == IF Recall!Hybrid THEN m.rrf ELSE m.score
             x == Recall!Reweight(base, m.file)
  <2>1. base \in Int /\ m.file \in RecallFile
    BY <1>1 DEF Recall!HitType
  <2>2. x \in Int
    BY <2>1, RecallReweightIs
  <2>3. Recall!Weighed(m) = [m EXCEPT !.score = x, !.done = TRUE]
    BY DEF Recall!Weighed
  <2> HIDE DEF x
  <2> QED BY <1>1, <2>2, <2>3 DEF Recall!HitType
<1>2. \A i \in DOMAIN s : h[i] \in Recall!HitType /\ h[i].file = s[i].file
  <2>1. \A i \in DOMAIN s : s[i] \in Recall!HitType
    OBVIOUS
  <2> QED BY Zenon, <1>1, <2>1
<1>3. Recall!Rerank(s) = Recall!ByScore(h)
  BY DEF Recall!Rerank
<1>4. h = [i \in DOMAIN s |-> h[i]]
  OBVIOUS
<1> HIDE DEF h
<1> QED BY Zenon, <1>2, <1>3, <1>4, RecallResortedIs

LEMMA RecallBoostIs ==
  ASSUME Recall!Given, NEW s \in Seq(Recall!HitType)
  PROVE  RecallReordered(Recall!Boost(s), s)
<1> DEFINE Boosted(m) == [m EXCEPT !.score = @ + 1500 * Recall_like[m.file]]
           h == [i \in DOMAIN s |-> Boosted(s[i])]
<1>1. ASSUME NEW m \in Recall!HitType PROVE Boosted(m) \in Recall!HitType /\ Boosted(m).file = m.file
  <2> DEFINE x == m.score + 1500 * Recall_like[m.file]
  <2>1. m.score \in Int /\ Recall_like[m.file] \in Int
    BY <1>1, RecallAssumption DEF Recall!HitType, Recall!Given
  <2>2. x \in Int
    BY <2>1
  <2>3. Boosted(m) = [m EXCEPT !.score = x]
    OBVIOUS
  <2> HIDE DEF x, Boosted
  <2> QED BY <1>1, <2>2, <2>3 DEF Recall!HitType
<1>2. \A i \in DOMAIN s : h[i] \in Recall!HitType /\ h[i].file = s[i].file
  <2>1. \A i \in DOMAIN s : s[i] \in Recall!HitType /\ h[i] = Boosted(s[i])
    OBVIOUS
  <2> HIDE DEF Boosted, h
  <2> QED BY Zenon, <1>1, <2>1
<1>3. Recall!Boost(s) = Recall!ByScore(h)
  BY DEF Recall!Boost
<1>4. h = [i \in DOMAIN s |-> h[i]]
  OBVIOUS
<1> HIDE DEF h
<1> QED BY Zenon, <1>2, <1>3, <1>4, RecallResortedIs

LEMMA RecallResortIs ==
  ASSUME Recall!Given, NEW s \in Seq(Recall!HitType)
  PROVE  RecallReordered(Recall!Resort(s), s)
<1> DEFINE Again(m) == IF m.done THEN m ELSE [m EXCEPT !.score = Recall!Reweight(@, m.file), !.done = TRUE]
           h == [i \in DOMAIN s |-> Again(s[i])]
<1>1. ASSUME NEW m \in Recall!HitType PROVE Again(m) \in Recall!HitType /\ Again(m).file = m.file
  <2> DEFINE x == Recall!Reweight(m.score, m.file)
  <2>1. m.score \in Int /\ m.file \in RecallFile
    BY <1>1 DEF Recall!HitType
  <2>2. x \in Int
    BY <2>1, RecallReweightIs
  <2>3. Again(m) = IF m.done THEN m ELSE [m EXCEPT !.score = x, !.done = TRUE]
    OBVIOUS
  <2> HIDE DEF x, Again
  <2> QED BY <1>1, <2>2, <2>3 DEF Recall!HitType
<1>2. \A i \in DOMAIN s : h[i] \in Recall!HitType /\ h[i].file = s[i].file
  <2>1. \A i \in DOMAIN s : s[i] \in Recall!HitType /\ h[i] = Again(s[i])
    OBVIOUS
  <2> HIDE DEF Again, h
  <2> QED BY Zenon, <1>1, <2>1
<1>3. Recall!Resort(s) = Recall!ByScore(h)
  BY DEF Recall!Resort
<1>4. h = [i \in DOMAIN s |-> h[i]]
  OBVIOUS
<1> HIDE DEF h
<1> QED BY Zenon, <1>2, <1>3, <1>4, RecallResortedIs

(* A cut of hits that are all there are, or at least n, is complete.           *)
LEMMA RecallCutComplete ==
  ASSUME NEW s \in Seq(Recall!HitType), Recall!Distinct(s), NEW known, IsFiniteSet(known), Recall!Files(s) \subseteq known,
         NEW n \in Nat, Len(s) >= n \/ Recall!Files(s) = known
  PROVE  Recall!Complete(Recall!Cut(s, n), known, n)
<1> DEFINE c == Recall!Cut(s, n)
           l == Len(s)
           m == Cardinality(known)
<1>1. c \in Seq(Recall!HitType) /\ Len(c) = (IF l < n THEN l ELSE n) /\ Recall!Files(c) \subseteq Recall!Files(s) /\ Recall!Distinct(c)
  BY Zenon, RecallCutIs, RecallCutKeeps
<1>2. Cardinality(Recall!Files(s)) = l
  BY Zenon, RecallFilesCounted
<1>3. Cardinality(Recall!Files(s)) <= m
  <2>1. Recall!Files(s) \in SUBSET known
    OBVIOUS
  <2> QED BY Zenon, <2>1, FS_Subset
<1>4. l \in Nat /\ m \in Nat
  <2>1. m \in Nat
    BY Zenon, FS_CardinalityType
  <2> QED BY <2>1
<1>5. l >= n \/ l = m
  BY Zenon, <1>2
<1> HIDE DEF c, l
<1>6. Len(c) = IF m < n THEN m ELSE n
  <2> HIDE DEF m
  <2>1. l <= m
    BY Zenon, <1>2, <1>3
  <2> QED BY <1>1, <1>4, <1>5, <2>1
<1>7. Recall!Files(c) \subseteq known
  BY Zenon, <1>1
<1>8. Recall!Complete(c, known, n)
  BY Zenon, <1>1, <1>6, <1>7 DEF Recall!Complete, m
<1> QED BY <1>8 DEF c

LEMMA RecallCutAll ==
  ASSUME NEW S, NEW s \in Seq(S), NEW n \in Nat, Len(s) <= n
  PROVE  Recall!Files(Recall!Cut(s, n)) = Recall!Files(s)
<1> DEFINE c == Recall!Cut(s, n)
<1>1. DOMAIN c = DOMAIN s /\ \A i \in DOMAIN s : c[i] = s[i]
  <2>1. Len(s) \in Nat /\ DOMAIN s = 1 .. Len(s)
    OBVIOUS
  <2>2. Len(c) = Len(s) /\ DOMAIN c = 1 .. Len(c) /\ \A i \in DOMAIN c : c[i] = s[i]
    BY <2>1, RecallCutIs
  <2> QED BY <2>1, <2>2
<1> HIDE DEF c
<1>2. Recall!Files(c) = Recall!Files(s)
  BY <1>1 DEF Recall!Files
<1> QED BY <1>2 DEF c

LEMMA RecallCutAgain ==
  ASSUME NEW s, NEW known, IsFiniteSet(known), NEW n \in Nat, Recall!Complete(s, known, n)
  PROVE  Recall!Complete(Recall!Cut(s, n), known, n)
<1>1. s \in Seq(Recall!HitType) /\ Recall!Distinct(s) /\ Recall!Files(s) \subseteq known
      /\ Len(s) = IF Cardinality(known) < n THEN Cardinality(known) ELSE n
  BY DEF Recall!Complete
<1>2. Cardinality(known) \in Nat
  BY FS_CardinalityType
<1>3. Len(Recall!Cut(s, n)) = Len(s)
  BY <1>1, <1>2, RecallCutIs
<1>4. Recall!Cut(s, n) \in Seq(Recall!HitType) /\ Recall!Distinct(Recall!Cut(s, n)) /\ Recall!Files(Recall!Cut(s, n)) \subseteq Recall!Files(s)
  BY <1>1, RecallCutIs, RecallCutKeeps
<1> QED BY Zenon, <1>1, <1>3, <1>4 DEF Recall!Complete

(* The selection: what is not superseded, and more of it from below.           *)
LEMMA RecallActiveIs ==
  ASSUME NEW s \in Seq(Recall!HitType)
  PROVE  /\ Recall!Active(s) \in Seq(Recall!HitType) /\ Recall!Files(Recall!Active(s)) = Recall!Files(s) \ Recall_dead
         /\ Recall!Distinct(s) => Recall!Distinct(Recall!Active(s))
BY Zenon, RecallWithoutIs DEF Recall!Active

LEMMA RecallRefillIs ==
  ASSUME Recall!Given, NEW s \in Seq(Recall!HitType)
  PROVE  Recall!Refill(s) \in Seq(Recall!HitType)
<1>1. Recall!Active(Recall!Source) \in Seq(Recall!HitType)
  BY RecallSourceIs, RecallActiveIs
<1>2. Recall!Without(Recall!Active(Recall!Source), Recall!Files(s)) \in Seq(Recall!HitType)
  BY <1>1, RecallWithoutIs
<1>3. CASE Recall!Keyword # <<>> \/ Len(s) >= Recall_k
  BY <1>3 DEF Recall!Refill
<1>4. CASE ~(Recall!Keyword # <<>> \/ Len(s) >= Recall_k)
  <2>1. Recall_k - Len(s) \in Nat
    BY <1>4, RecallAssumption DEF Recall!Given
  <2>2. Recall!Cut(Recall!Without(Recall!Active(Recall!Source), Recall!Files(s)), Recall_k - Len(s)) \in Seq(Recall!HitType)
    BY Zenon, <1>2, <2>1, RecallCutIs
  <2>3. Recall!Refill(s) = s \o Recall!Cut(Recall!Without(Recall!Active(Recall!Source), Recall!Files(s)), Recall_k - Len(s))
    BY Zenon, <1>4 DEF Recall!Refill
  <2> QED BY Zenon, <2>2, <2>3, RecallTwoIs
<1> QED BY <1>3, <1>4

LEMMA RecallRefillFills ==
  ASSUME Recall!Given, Recall!Source # <<>>, NEW s \in Seq(Recall!HitType), Recall!Distinct(s), Recall!Files(s) \subseteq Recall!Files(Recall!Source) \ Recall_dead
  PROVE  /\ Recall!Distinct(Recall!Refill(s)) /\ Recall!Files(Recall!Refill(s)) \subseteq Recall!Files(Recall!Source) \ Recall_dead
         /\ Len(Recall!Refill(s)) >= Recall_k \/ Recall!Files(Recall!Refill(s)) = Recall!Files(Recall!Source) \ Recall_dead
<1> DEFINE known == Recall!Files(Recall!Source) \ Recall_dead
           rest == Recall!Without(Recall!Active(Recall!Source), Recall!Files(s))
<1>1. Recall!Keyword = <<>> /\ Recall_k \in Nat /\ Len(s) \in Nat
  BY RecallKeywordNone, RecallAssumption DEF Recall!Given
<1>2. rest \in Seq(Recall!HitType) /\ Recall!Files(rest) = known \ Recall!Files(s) /\ Recall!Distinct(rest)
  <2>1. Recall!Active(Recall!Source) \in Seq(Recall!HitType) /\ Recall!Files(Recall!Active(Recall!Source)) = known /\ Recall!Distinct(Recall!Active(Recall!Source))
    BY RecallSourceIs, RecallActiveIs
  <2> QED BY <2>1, RecallWithoutIs
<1>3. CASE Len(s) >= Recall_k
  <2>1. Recall!Refill(s) = s
    BY Zenon, <1>3 DEF Recall!Refill
  <2> QED BY <1>3, <2>1
<1>4. CASE ~(Len(s) >= Recall_k)
  <2> DEFINE n == Recall_k - Len(s)
             c == Recall!Cut(rest, n)
             t == s \o c
  <2>1. Recall!Refill(s) = t
    BY Zenon, <1>1, <1>4 DEF Recall!Refill
  <2>2. n \in Nat /\ Len(s) + n = Recall_k
    BY <1>1, <1>4
  <2> HIDE DEF n, rest
  <2>3. /\ c \in Seq(Recall!HitType) /\ Len(c) = (IF Len(rest) < n THEN Len(rest) ELSE n)
        /\ Recall!Files(c) \subseteq Recall!Files(rest) /\ Recall!Distinct(c)
    BY Zenon, <1>2, <2>2, RecallCutIs, RecallCutKeeps
  <2>4. Len(rest) <= n => Recall!Files(c) = Recall!Files(rest)
    BY Zenon, <1>2, <2>2, RecallCutAll
  <2> HIDE DEF c
  <2>5. Recall!Files(s) \cap Recall!Files(c) = {}
    BY Zenon, <1>2, <2>3
  <2>6. Recall!Files(t) = Recall!Files(s) \cup Recall!Files(c) /\ Recall!Distinct(t) /\ Len(t) = Len(s) + Len(c)
    <3>1. Recall!Files(t) = Recall!Files(s) \cup Recall!Files(c)
      BY <2>3, RecallTwoFiles
    <3>2. Recall!Distinct(t)
      BY <2>3, <2>5, RecallTwoDistinct
    <3>3. Len(t) = Len(s) + Len(c)
      BY <2>3, RecallTwoIs
    <3> QED BY <3>1, <3>2, <3>3
  <2>7. Recall!Files(t) \subseteq known
    BY <1>2, <2>3, <2>6
  <2>8. CASE Len(rest) <= n
    <3>1. Recall!Files(t) = known
      BY <1>2, <2>4, <2>6, <2>8
    <3> QED BY Zenon, <2>1, <2>6, <2>7, <3>1
  <2>9. CASE ~(Len(rest) <= n)
    <3>1. Len(rest) \in Nat
      BY <1>2
    <3>2. Len(c) = n
      BY <2>2, <2>3, <2>9, <3>1
    <3>3. Len(t) >= Recall_k
      BY <1>1, <2>2, <2>6, <3>2
    <3> QED BY Zenon, <2>1, <2>6, <2>7, <3>3
  <2> QED BY <2>8, <2>9
<1> QED BY <1>3, <1>4

LEMMA RecallSelectedIs ==
  ASSUME Recall!Given, Recall!Source # <<>>, NEW s \in Seq(Recall!HitType), Recall!Distinct(s), Recall!Files(s) \subseteq Recall!Files(Recall!Source)
  PROVE  /\ Recall!Complete(Recall!Cut(Recall!Refill(Recall!Active(s)), Recall_k), Recall!Files(Recall!Source) \ Recall_dead, Recall_k)
         /\ Recall!Complete(Recall!Cut(Recall!Resort(Recall!Refill(Recall!Active(s))), Recall_k), Recall!Files(Recall!Source) \ Recall_dead, Recall_k)
<1> DEFINE known == Recall!Files(Recall!Source) \ Recall_dead
           t == Recall!Refill(Recall!Active(s))
           u == Recall!Resort(t)
<1>1. IsFiniteSet(known) /\ Recall_k \in Nat
  <2>1. IsFiniteSet(Recall!Files(Recall!Source)) /\ known \in SUBSET Recall!Files(Recall!Source)
    BY RecallSourceIs, RecallFilesCounted
  <2>2. Recall_k \in Nat
    BY RecallAssumption DEF Recall!Given
  <2> QED BY Zenon, <2>1, <2>2, FS_Subset
<1>2. Recall!Active(s) \in Seq(Recall!HitType) /\ Recall!Distinct(Recall!Active(s)) /\ Recall!Files(Recall!Active(s)) \subseteq known
  BY RecallActiveIs
<1>3. t \in Seq(Recall!HitType) /\ Recall!Distinct(t) /\ Recall!Files(t) \subseteq known /\ (Len(t) >= Recall_k \/ Recall!Files(t) = known)
  BY Zenon, <1>2, RecallRefillIs, RecallRefillFills
<1> HIDE DEF t, known
<1>4. RecallReordered(u, t)
  BY <1>3, RecallResortIs
<1>5. u \in Seq(Recall!HitType) /\ Recall!Distinct(u) /\ Recall!Files(u) \subseteq known /\ (Len(u) >= Recall_k \/ Recall!Files(u) = known)
  BY <1>3, <1>4 DEF RecallReordered
<1> HIDE DEF u
<1>6. Recall!Complete(Recall!Cut(t, Recall_k), known, Recall_k) /\ Recall!Complete(Recall!Cut(u, Recall_k), known, Recall_k)
  BY <1>1, <1>3, <1>5, RecallCutComplete
<1> QED BY Zenon, <1>6 DEF t, u, known

(* Neighbours may lie outside the corpus, but hits they are.                   *)
RecallEnd == RecallFile \cup {Recall_rows[i].a : i \in DOMAIN Recall_rows} \cup {Recall_rows[i].b : i \in DOMAIN Recall_rows}
RecallWideType == [file : RecallEnd, score : Int, rrf : Int, done : BOOLEAN]

LEMMA RecallMemberIs == ASSUME NEW S, NEW s \in Seq(S) PROVE \A i \in DOMAIN s : s[i] \in S
OBVIOUS

LEMMA RecallNeighborsIs ==
  ASSUME Recall!Given, NEW seed
  PROVE  Recall!Neighbors(seed) \in Seq([file : RecallEnd, score : Int])
<1> DEFINE P == {i \in DOMAIN Recall_rows : seed \in {Recall_rows[i].a, Recall_rows[i].b}}
           ends == [i \in DOMAIN Recall_rows |-> [file |-> IF Recall_rows[i].a = seed THEN Recall_rows[i].b ELSE Recall_rows[i].a,
                                           score |-> Recall_rows[i].score]]
           E == [file : RecallEnd, score : Int]
<1>1. Recall_rows \in Seq({Recall_rows[i] : i \in DOMAIN Recall_rows}) /\ \A i \in DOMAIN Recall_rows : Recall_rows[i].score \in Int
  BY RecallAssumption DEF Recall!Given
<1>2. Recall!Neighbors(seed) = Recall!Cut(Recall!ByScore(Recall!Picked(ends, P)), 3)
  BY DEF Recall!Neighbors
<1> DEFINE n == Len(Recall_rows)
<1>3. n \in Nat /\ DOMAIN Recall_rows = 1 .. n
  BY <1>1
<1>4. \A i \in 1 .. n : ends[i] \in E
  BY <1>1, <1>3 DEF RecallEnd
<1>5. ends = [i \in 1 .. n |-> ends[i]]
  BY <1>3
<1> HIDE DEF ends, n, P
<1>6. ends \in Seq(E)
  BY Zenon, <1>3, <1>4, <1>5, RecallOfLength
<1>7. Recall!Picked(ends, P) \in Seq(E)
  BY Zenon, <1>6, RecallPickedIs
<1> DEFINE q == Recall!Picked(ends, P)
<1>8. \A i \in DOMAIN q : q[i].score \in Int
  <2>1. \A x \in E : x.score \in Int
    OBVIOUS
  <2> HIDE DEF q, E
  <2> QED BY Zenon, <1>7, <2>1, RecallMemberIs DEF q
<1> HIDE DEF q, E
<1>9. Recall!ByScore(q) \in Seq(E)
  BY <1>7, <1>8, RecallByScoreIs DEF q
<1>10. 3 \in Nat
  OBVIOUS
<1>11. Recall!Cut(Recall!ByScore(q), 3) \in Seq(E)
  BY Zenon, <1>9, <1>10, RecallCutIs
<1> QED BY Zenon, <1>2, <1>11 DEF q, E

LEMMA RecallWidenIs ==
  ASSUME Recall!Given, NEW s \in Seq(Recall!HitType)
  PROVE  Recall!Widen(s) \in Seq(RecallWideType)
<1> DEFINE near(i) == Recall!Neighbors(s[i].file)
           piece(i) == [n \in DOMAIN near(i) |-> Recall!Hit(near(i)[n].file, (near(i)[n].score * 55) \div 100)]
           parts == [i \in DOMAIN s |-> piece(i)]
<1>1. ASSUME NEW i \in DOMAIN s PROVE piece(i) \in Seq(RecallWideType)
  <2> DEFINE q == near(i)
             m == Len(q)
             h == [n \in DOMAIN q |-> Recall!Hit(q[n].file, (q[n].score * 55) \div 100)]
  <2>1. q \in Seq([file : RecallEnd, score : Int])
    BY Zenon, RecallNeighborsIs
  <2>2. piece(i) = h
    OBVIOUS
  <2> HIDE DEF q, piece, near
  <2>3. m \in Nat /\ DOMAIN q = 1 .. m /\ \A n \in 1 .. m : q[n].file \in RecallEnd /\ q[n].score \in Int
    <3>1. m \in Nat /\ DOMAIN q = 1 .. m
      BY <2>1
    <3>2. \A n \in DOMAIN q : q[n] \in [file : RecallEnd, score : Int]
      BY Zenon, <2>1, RecallMemberIs
    <3>3. \A x \in [file : RecallEnd, score : Int] : x.file \in RecallEnd /\ x.score \in Int
      OBVIOUS
    <3> HIDE DEF m
    <3> QED BY Zenon, <3>1, <3>2, <3>3
  <2>4. \A n \in 1 .. m : h[n] \in RecallWideType
    BY <2>3 DEF RecallWideType, Recall!Hit
  <2>5. h = [n \in 1 .. m |-> h[n]]
    BY <2>3
  <2> HIDE DEF m, h
  <2>6. h \in Seq(RecallWideType)
    BY Zenon, <2>3, <2>4, <2>5, RecallOfLength
  <2> QED BY Zenon, <2>2, <2>6
<1>2. Recall!AllNeighbors(s) = Recall!Joined(parts)
  BY Zenon DEF Recall!AllNeighbors
<1> DEFINE l == Len(s)
<1>3. l \in Nat /\ DOMAIN s = 1 .. l
  OBVIOUS
<1>4. parts = [i \in 1 .. l |-> parts[i]] /\ \A i \in 1 .. l : parts[i] \in Seq(RecallWideType)
  <2> HIDE DEF l, piece
  <2> QED BY <1>1, <1>3
<1> HIDE DEF parts, l
<1>5. parts \in Seq(Seq(RecallWideType))
  BY Zenon, <1>3, <1>4, RecallOfLength
<1>6. Recall!Joined(parts) \in Seq(RecallWideType)
  BY Zenon, <1>5, RecallJoinedIs DEF RecallJoinedTo
<1>7. s \in Seq(RecallWideType)
  <2>1. Recall!HitType \subseteq RecallWideType
    BY DEF Recall!HitType, RecallWideType, RecallEnd
  <2> QED BY <2>1
<1> DEFINE all == s \o Recall!AllNeighbors(s)
           f == Recall!Firsts(all)
<1>8. all \in Seq(RecallWideType)
  BY Zenon, <1>2, <1>6, <1>7, RecallTwoIs
<1> HIDE DEF all
<1>9. f \in Seq(RecallWideType)
  BY Zenon, <1>8, RecallFirstsIs
<1> HIDE DEF f
<1>10. \A i \in DOMAIN f : f[i].score \in Int
  <2>1. \A x \in RecallWideType : x.score \in Int
    BY DEF RecallWideType
  <2> QED BY Zenon, <1>9, <2>1, RecallMemberIs
<1>11. Recall!ByScore(f) \in Seq(RecallWideType)
  BY Zenon, <1>9, <1>10, RecallByScoreIs
<1> QED BY Zenon, <1>11 DEF Recall!Widen, f, all

(* The steps.                                                                  *)
LEMMA RecallInitIInv == Recall!Init => Recall!IInv
<1> SUFFICES ASSUME Recall!Init PROVE Recall!IInv
  OBVIOUS
<1>1. Recall_scan \in RecallRanks \cup {<<>>}
  BY DEF Recall!Init
<1>2. Recall!Given
  BY <1>1 DEF Recall!Init, Recall!Given
<1>3. Recall_stage = "retrieve" /\ Recall_pool = <<>> /\ Recall_answer = <<>>
  BY DEF Recall!Init
<1>4. Recall_k \in Nat /\ <<>> \in Seq(Recall!HitType) /\ Len(<<>>) = 0
  BY <1>2, RecallAssumption DEF Recall!Given
<1>5. Recall!TypeOK
  BY <1>3, <1>4 DEF Recall!TypeOK
<1>6. Recall!Staged
  BY <1>3 DEF Recall!Staged
<1> QED BY <1>2, <1>5, <1>6 DEF Recall!IInv

LEMMA RecallInputsStay ==
  ASSUME UNCHANGED Recall!inputs, Recall!Given
  PROVE  /\ Recall!Given' /\ Recall!Source' = Recall!Source /\ Recall_dead' = Recall_dead /\ Recall_k' = Recall_k /\ Recall_keepDead' = Recall_keepDead /\ Recall_rows' = Recall_rows
<1>1. /\ Recall_chunks' = Recall_chunks /\ Recall_ranks' = Recall_ranks /\ Recall_scan' = Recall_scan /\ Recall_dead' = Recall_dead /\ Recall_mean' = Recall_mean /\ Recall_like' = Recall_like
      /\ Recall_rows' = Recall_rows /\ Recall_k' = Recall_k /\ Recall_keepDead' = Recall_keepDead /\ Recall_weigh' = Recall_weigh
  BY DEF Recall!inputs
<1>2. Recall!Given'
  BY <1>1 DEF Recall!Given
<1>3. Recall!Semantic' = Recall!Semantic /\ Recall!Bm25' = Recall!Bm25
  BY <1>1 DEF Recall!Semantic, Recall!Bm25
<1>4. Recall!Source' = Recall!Source
  BY <1>3 DEF Recall!Source, Recall!Hybrid
<1> QED BY <1>1, <1>2, <1>4

LEMMA RecallRetrieveIInv ==
  ASSUME Recall!IInv, Recall!Retrieve
  PROVE  Recall!IInv'
<1>1. Recall!Given /\ Recall!TypeOK /\ UNCHANGED Recall!inputs /\ Recall_stage' = "weigh" /\ Recall_answer' = Recall_answer
      /\ Recall_pool' = IF Recall!Source = <<>> THEN Recall!Keyword ELSE Recall!Cut(Recall!Source, 2 * Recall_k)
  BY DEF Recall!IInv, Recall!Retrieve
<1>2. Recall!Given' /\ Recall!Source' = Recall!Source /\ Recall_dead' = Recall_dead /\ Recall_k' = Recall_k /\ Recall_keepDead' = Recall_keepDead /\ Recall_rows' = Recall_rows
  BY Zenon, <1>1, RecallInputsStay
<1>3. Recall!Source \in Seq(Recall!HitType) /\ Recall!Distinct(Recall!Source) /\ Recall!Keyword \in Seq(Recall!HitType)
  BY <1>1, RecallSourceIs, RecallKeywordIs
<1>4. Recall_k \in Nat /\ Recall_k >= 1 /\ 2 * Recall_k \in Nat /\ 2 * Recall_k >= 1
  BY <1>1, RecallAssumption DEF Recall!Given
<1> DEFINE c == Recall!Cut(Recall!Source, 2 * Recall_k)
<1>5. c \in Seq(Recall!HitType) /\ Recall!Files(c) \subseteq Recall!Files(Recall!Source) /\ Recall!Distinct(c)
      /\ Len(c) = IF Len(Recall!Source) < 2 * Recall_k THEN Len(Recall!Source) ELSE 2 * Recall_k
  BY Zenon, <1>3, <1>4, RecallCutIs, RecallCutKeeps
<1> HIDE DEF c
<1>6. Recall!Source # <<>> => c # <<>>
  <2>1. Recall!Source # <<>> => Len(Recall!Source) \in Nat /\ Len(Recall!Source) # 0
    BY <1>3
  <2>2. Recall!Source # <<>> => Len(c) # 0
    BY <1>4, <1>5, <2>1
  <2> QED BY <2>2
<1>7. Recall_pool' = IF Recall!Source = <<>> THEN Recall!Keyword ELSE c
  BY <1>1 DEF c
<1>8. Recall!TypeOK'
  BY <1>1, <1>2, <1>3, <1>5, <1>7 DEF Recall!TypeOK
<1>9. Recall!Staged'
  BY <1>1, <1>2, <1>5, <1>6, <1>7 DEF Recall!Staged
<1> QED BY <1>2, <1>8, <1>9 DEF Recall!IInv

LEMMA RecallWeighIInv ==
  ASSUME Recall!IInv, Recall!Weigh
  PROVE  Recall!IInv'
<1>1. /\ Recall!Given /\ Recall!TypeOK /\ Recall!Staged /\ UNCHANGED Recall!inputs /\ Recall_stage = "weigh" /\ Recall_stage' = "select" /\ Recall_answer' = Recall_answer
      /\ Recall_pool' = Recall!Boost(IF Recall_weigh THEN Recall!Rerank(Recall_pool) ELSE Recall_pool)
  BY DEF Recall!IInv, Recall!Weigh
<1>2. Recall!Given' /\ Recall!Source' = Recall!Source /\ Recall_dead' = Recall_dead /\ Recall_k' = Recall_k /\ Recall_keepDead' = Recall_keepDead /\ Recall_rows' = Recall_rows
  BY Zenon, <1>1, RecallInputsStay
<1> DEFINE t == IF Recall_weigh THEN Recall!Rerank(Recall_pool) ELSE Recall_pool
<1>3. Recall_pool \in Seq(Recall!HitType)
  BY <1>1 DEF Recall!TypeOK
<1>4. RecallReordered(Recall!Rerank(Recall_pool), Recall_pool) /\ RecallReordered(Recall_pool, Recall_pool)
  BY <1>1, <1>3, RecallRerankIs DEF RecallReordered
<1>5. RecallReordered(t, Recall_pool)
  BY Zenon, <1>4
<1> HIDE DEF t
<1>6. RecallReordered(Recall!Boost(t), t)
  BY <1>1, <1>5, RecallBoostIs DEF RecallReordered
<1> DEFINE u == Recall!Boost(t)
<1>7. u \in Seq(Recall!HitType) /\ Len(u) = Len(Recall_pool) /\ Recall!Files(u) = Recall!Files(Recall_pool) /\ (Recall!Distinct(Recall_pool) => Recall!Distinct(u))
  BY <1>5, <1>6 DEF RecallReordered
<1>8. Recall_pool' = u
  BY <1>1 DEF t
<1> HIDE DEF u
<1>9. Recall_pool # <<>> => u # <<>>
  BY <1>3, <1>7
<1>10. Recall!TypeOK'
  BY <1>1, <1>2, <1>7, <1>8 DEF Recall!TypeOK
<1>11. Recall!Staged'
  BY <1>1, <1>2, <1>7, <1>8, <1>9 DEF Recall!Staged
<1> QED BY <1>2, <1>10, <1>11 DEF Recall!IInv

LEMMA RecallSelectIInv ==
  ASSUME Recall!IInv, Recall!Select
  PROVE  Recall!IInv'
<1> DEFINE r == Recall!Refill(Recall!Active(Recall_pool))
           t == IF Recall_keepDead \/ Recall_pool = <<>> THEN Recall_pool ELSE IF Recall_weigh THEN Recall!Resort(r) ELSE r
<1>1. /\ Recall!Given /\ Recall!TypeOK /\ Recall!Staged /\ UNCHANGED Recall!inputs /\ Recall_stage = "select" /\ Recall_stage' = "answer" /\ Recall_answer' = Recall_answer
      /\ Recall_pool' = Recall!Cut(t, Recall_k)
  BY DEF Recall!IInv, Recall!Select
<1>2. Recall!Given' /\ Recall!Source' = Recall!Source /\ Recall_dead' = Recall_dead /\ Recall_k' = Recall_k /\ Recall_keepDead' = Recall_keepDead /\ Recall_rows' = Recall_rows
  BY Zenon, <1>1, RecallInputsStay
<1>3. Recall_pool \in Seq(Recall!HitType) /\ Recall_k \in Nat
  BY <1>1, RecallAssumption DEF Recall!TypeOK, Recall!Given
<1>4. r \in Seq(Recall!HitType) /\ Recall!Resort(r) \in Seq(Recall!HitType)
  <2>1. r \in Seq(Recall!HitType)
    BY <1>1, <1>3, RecallActiveIs, RecallRefillIs
  <2> HIDE DEF r
  <2>2. RecallReordered(Recall!Resort(r), r)
    BY <1>1, <2>1, RecallResortIs
  <2> QED BY <2>1, <2>2 DEF RecallReordered
<1>5. ~Recall_keepDead /\ Recall!Source # <<>> => Recall!Complete(Recall!Cut(t, Recall_k), Recall!Files(Recall!Source) \ Recall_dead, Recall_k)
  <2> SUFFICES ASSUME ~Recall_keepDead, Recall!Source # <<>> PROVE Recall!Complete(Recall!Cut(t, Recall_k), Recall!Files(Recall!Source) \ Recall_dead, Recall_k)
    OBVIOUS
  <2>1. Recall_pool # <<>> /\ Recall!Distinct(Recall_pool) /\ Recall!Files(Recall_pool) \subseteq Recall!Files(Recall!Source)
    BY <1>1 DEF Recall!Staged
  <2>2. Recall!Complete(Recall!Cut(r, Recall_k), Recall!Files(Recall!Source) \ Recall_dead, Recall_k) /\ Recall!Complete(Recall!Cut(Recall!Resort(r), Recall_k), Recall!Files(Recall!Source) \ Recall_dead, Recall_k)
    BY <1>1, <1>3, <2>1, RecallSelectedIs
  <2> HIDE DEF r
  <2> QED BY Zenon, <2>1, <2>2
<1>6. t \in Seq(Recall!HitType)
  <2> HIDE DEF r
  <2> QED BY Zenon, <1>3, <1>4
<1> HIDE DEF t, r
<1>7. Recall!Cut(t, Recall_k) \in Seq(Recall!HitType)
  BY Zenon, <1>3, <1>6, RecallCutIs
<1>8. Recall!TypeOK'
  BY <1>1, <1>2, <1>7 DEF Recall!TypeOK
<1>9. Recall!Staged'
  BY <1>1, <1>2, <1>5 DEF Recall!Staged
<1> QED BY <1>2, <1>8, <1>9 DEF Recall!IInv

LEMMA RecallAnswerIInv ==
  ASSUME Recall!IInv, Recall!Answer
  PROVE  Recall!IInv'
<1> DEFINE t == IF Recall_rows # <<>> THEN Recall!Widen(Recall_pool) ELSE Recall_pool
<1>1. /\ Recall!Given /\ Recall!TypeOK /\ Recall!Staged /\ UNCHANGED Recall!inputs /\ Recall_stage = "answer" /\ Recall_stage' = "done" /\ Recall_pool' = Recall_pool
      /\ Recall_answer' = Recall!Cut(t, Recall_k)
  BY DEF Recall!IInv, Recall!Answer
<1>2. Recall!Given' /\ Recall!Source' = Recall!Source /\ Recall_dead' = Recall_dead /\ Recall_k' = Recall_k /\ Recall_keepDead' = Recall_keepDead /\ Recall_rows' = Recall_rows
  BY Zenon, <1>1, RecallInputsStay
<1>3. Recall_pool \in Seq(Recall!HitType) /\ Recall_k \in Nat
  BY <1>1, RecallAssumption DEF Recall!TypeOK, Recall!Given
<1>4. Len(Recall!Cut(t, Recall_k)) <= Recall_k
  <2>1. CASE Recall_rows # <<>>
    <3>1. t \in Seq(RecallWideType)
      BY <1>1, <1>3, <2>1, RecallWidenIs
    <3> HIDE DEF t
    <3>2. Len(Recall!Cut(t, Recall_k)) = (IF Len(t) < Recall_k THEN Len(t) ELSE Recall_k) /\ Len(t) \in Nat
      BY <1>3, <3>1, RecallCutIs
    <3> QED BY <1>3, <3>2
  <2>2. CASE Recall_rows = <<>>
    <3>1. t \in Seq(Recall!HitType)
      BY <1>3, <2>2
    <3> HIDE DEF t
    <3>2. Len(Recall!Cut(t, Recall_k)) = (IF Len(t) < Recall_k THEN Len(t) ELSE Recall_k) /\ Len(t) \in Nat
      BY <1>3, <3>1, RecallCutIs
    <3> QED BY <1>3, <3>2
  <2> QED BY <2>1, <2>2
<1>5. Recall!Source # <<>> /\ ~Recall_keepDead /\ Recall_rows = <<>> => Recall!Complete(Recall!Cut(t, Recall_k), Recall!Files(Recall!Source) \ Recall_dead, Recall_k)
  <2> SUFFICES ASSUME Recall!Source # <<>>, ~Recall_keepDead, Recall_rows = <<>> PROVE Recall!Complete(Recall!Cut(t, Recall_k), Recall!Files(Recall!Source) \ Recall_dead, Recall_k)
    OBVIOUS
  <2>1. t = Recall_pool /\ Recall!Complete(Recall_pool, Recall!Files(Recall!Source) \ Recall_dead, Recall_k)
    BY <1>1 DEF Recall!Staged
  <2>2. IsFiniteSet(Recall!Files(Recall!Source) \ Recall_dead)
    <3>1. IsFiniteSet(Recall!Files(Recall!Source)) /\ Recall!Files(Recall!Source) \ Recall_dead \in SUBSET Recall!Files(Recall!Source)
      BY <1>1, RecallSourceIs, RecallFilesCounted
    <3> QED BY Zenon, <3>1, FS_Subset
  <2> HIDE DEF t
  <2> QED BY Zenon, <1>3, <2>1, <2>2, RecallCutAgain
<1> HIDE DEF t
<1>6. Recall!TypeOK'
  BY <1>1, <1>2, <1>3, <1>4 DEF Recall!TypeOK
<1>7. Recall!Staged'
  BY <1>1, <1>2, <1>5 DEF Recall!Staged
<1> QED BY <1>2, <1>6, <1>7 DEF Recall!IInv

LEMMA RecallNextIInv == Recall!IInv /\ [Recall!Next]_Recall!vars => Recall!IInv'
<1> SUFFICES ASSUME Recall!IInv, [Recall!Next]_Recall!vars PROVE Recall!IInv'
  OBVIOUS
<1>1. CASE UNCHANGED Recall!vars
  <2>1. UNCHANGED Recall!inputs /\ Recall_stage' = Recall_stage /\ Recall_pool' = Recall_pool /\ Recall_answer' = Recall_answer
    BY <1>1 DEF Recall!vars
  <2>2. Recall!Given /\ Recall!TypeOK /\ Recall!Staged
    BY DEF Recall!IInv
  <2>3. Recall!Given' /\ Recall!Source' = Recall!Source /\ Recall_dead' = Recall_dead /\ Recall_k' = Recall_k /\ Recall_keepDead' = Recall_keepDead /\ Recall_rows' = Recall_rows
    BY Zenon, <2>1, <2>2, RecallInputsStay
  <2>4. Recall!TypeOK'
    BY <2>1, <2>2, <2>3 DEF Recall!TypeOK
  <2>5. Recall!Staged'
    BY <2>1, <2>2, <2>3 DEF Recall!Staged
  <2> QED BY <2>3, <2>4, <2>5 DEF Recall!IInv
<1> QED BY <1>1, RecallRetrieveIInv, RecallWeighIInv, RecallSelectIInv, RecallAnswerIInv DEF Recall!Next

LEMMA RecallHolds == Recall!IInv => Recall!TypeOK /\ Recall!RefillComplete
<1> SUFFICES ASSUME Recall!IInv PROVE Recall!RefillComplete
  BY DEF Recall!IInv
<1> SUFFICES ASSUME Recall_stage = "done", Recall_rows = <<>>, ~Recall_keepDead, Recall!Source # <<>>
             PROVE  /\ Recall!Files(Recall_answer) \cap Recall_dead = {}
                    /\ Cardinality(Recall!Files(Recall_answer)) = Len(Recall_answer)
                    /\ LET known == Recall!Files(Recall!Source) \ Recall_dead
                       IN Len(Recall_answer) = IF Cardinality(known) < Recall_k THEN Cardinality(known) ELSE Recall_k
  BY DEF Recall!RefillComplete
<1>1. Recall!Complete(Recall_answer, Recall!Files(Recall!Source) \ Recall_dead, Recall_k)
  BY DEF Recall!IInv, Recall!Staged
<1>2. /\ Recall_answer \in Seq(Recall!HitType) /\ Recall!Distinct(Recall_answer) /\ Recall!Files(Recall_answer) \subseteq Recall!Files(Recall!Source) \ Recall_dead
      /\ Len(Recall_answer) = IF Cardinality(Recall!Files(Recall!Source) \ Recall_dead) < Recall_k THEN Cardinality(Recall!Files(Recall!Source) \ Recall_dead) ELSE Recall_k
  BY <1>1 DEF Recall!Complete
<1>3. Cardinality(Recall!Files(Recall_answer)) = Len(Recall_answer)
  BY Zenon, <1>2, RecallFilesCounted
<1> QED BY <1>2, <1>3

(* engram_memory.py: an answer that no links widen has k files, or all that are not         *)
(* superseded of those the back ends know, none of them twice and none superseded, whatever  *)
(* the two lists, the history of the files, and the arguments.                               *)
THEOREM RefillsAreComplete == Spec => []RefillComplete
<1> DEFINE Inv == part = "recall" => Recall!IInv
<1>1. Init => Inv
  BY RecallInitIInv DEF Init
<1>2. Inv /\ [Next]_vars => Inv'
  <2>1. ASSUME part = "recall", Recall!IInv, [Next]_vars PROVE Recall!IInv'
    BY <2>1, RecallNextIInv DEF Next, vars, Recall!vars, Recall!inputs
  <2>2. [Next]_vars => part' = part
    BY DEF Next, vars
  <2> QED BY <2>1, <2>2
<1>3. Inv => RefillComplete
  BY RecallHolds DEF RefillComplete
<1> QED
  BY <1>1, <1>2, <1>3, PTL DEF Spec

HIDE RecallCardinality
HIDE DEF Recall_chunks, Recall_ranks, Recall_scan, Recall_dead, Recall_mean, Recall_like,
  Recall_rows, Recall_k, Recall_keepDead, Recall_weigh, Recall_stage, Recall_pool, Recall_answer

-----------------------------------------------------------------------------
(* MemorySession. *)
Record_today == x1
Record_dirs == x2
Record_at == x3
Record_number == x4
Record_home == x5
Record_trace == x6
Record_owners == x7
Record_file == x8
Record_saved == x9
Record_job == x10
Record_events == x11
Record_raced == x12
Record_torn == x13
Record_cache == x14
USE DEF Record_today, Record_dirs, Record_at, Record_number, Record_home, Record_trace,
  Record_owners, Record_file, Record_saved, Record_job, Record_events, Record_raced, Record_torn,
  Record_cache

(* No directory, no job, and what is there hides nothing.                      *)
LEMMA RecordInitIInv == Record!Init => Record!IInv
<1> SUFFICES ASSUME Record!Init PROVE Record!IInv
  OBVIOUS
<1>1. /\ Record_today = 1 /\ Record_dirs = {} /\ Record_owners = {} /\ Record_events = 0 /\ Record_at = [s \in RecordSession |-> "new"]
      /\ Record_job = [s \in RecordSession |-> Record!NoJob] /\ Record_raced = FALSE /\ Record_torn = FALSE /\ Record_saved = Record_file
  BY DEF Record!Init
<1>2. \A f \in RecordFile : [Record!NoFile EXCEPT !.there = f \in RecordInitial] = [there |-> f \in RecordInitial, by |-> Record!None, was |-> Record!None]
  BY DEF Record!NoFile
<1>3. Record_file = [f \in RecordFile |-> [there |-> f \in RecordInitial, by |-> Record!None, was |-> Record!None]]
  BY <1>2 DEF Record!Init
<1>4. Record_file \in [RecordFile -> Record!Data] /\ \A f \in RecordFile : Record_file[f].by = Record!None /\ Record_file[f].was = Record!None
  BY <1>3 DEF Record!Data
<1>5. \A s \in RecordSession : ~Record!Busy(s) /\ Record_job[s] = Record!NoJob /\ Record_job[s].next # "old"
  BY <1>1 DEF Record!Busy, Record!NoJob, Record!None
<1>6. Record!TypeOK
  <2>1. \A f \in RecordFile : Record_saved[f].there \in BOOLEAN
    BY <1>1, <1>4 DEF Record!Data
  <2>2. Record_at \in [RecordSession -> {"new", "listed", "open", "paused", "ended", "dead"}]
    BY <1>1
  <2>3. Record_raced \in BOOLEAN /\ Record_torn \in BOOLEAN
    BY <1>1
  <2>4. Record_events <= RecordMaxEvents
    BY <1>1, RecordAssumption
  <2> QED BY <1>4, <2>1, <2>2, <2>3, <2>4 DEF Record!TypeOK
<1>7. Record!Types
  BY <1>1, <1>4, <1>5, RecordAssumption DEF Record!Types
<1>8. Record!Owned /\ Record!OwnDirectory
  BY <1>1 DEF Record!Owned, Record!OwnDirectory
<1>9. Record!InOrder
  BY <1>1, <1>4, <1>5 DEF Record!InOrder, Record!Apart, Record!Hidden, Record!Known, Record!Pair
<1> QED BY <1>6, <1>7, <1>8, <1>9 DEF Record!IInv

-----------------------------------------------------------------------------
(* What a session takes is new, or was its own.                                *)
LEMMA RecordTaken ==
  ASSUME Record!IInv, NEW s \in RecordSession, NEW d, Record_dirs' = Record_dirs \cup {d}, Record_owners' = Record_owners \cup {<<s, d>>},
         d[3] \in {s, "act"}, d \in Record_dirs => d[3] = s
  PROVE  Record!Owned' /\ Record!OwnDirectory'
<1>1. Record_owners \subseteq RecordSession \X Record_dirs /\ \A t \in RecordSession, e \in Record_dirs : <<t, e>> \in Record_owners => e[3] \in {t, "act"}
  BY DEF Record!IInv, Record!Owned
<1>2. Record!Owned'
  BY <1>1 DEF Record!Owned
<1>3. ASSUME NEW t \in RecordSession, <<t, d>> \in Record_owners PROVE t = s
  <2>1. d \in Record_dirs
    BY <1>1, <1>3
  <2>2. d[3] = s /\ s \in {t, "act"}
    BY <1>1, <1>3, <2>1
  <2> QED BY <2>2, RecordAssumption
<1>4. ASSUME NEW t \in RecordSession, NEW u \in RecordSession, NEW e \in Record_dirs', <<t, e>> \in Record_owners', <<u, e>> \in Record_owners' PROVE t = u
  <2>1. CASE e = d
    BY <1>3, <1>4, <2>1
  <2>2. CASE e # d
    BY <1>4, <2>2 DEF Record!IInv, Record!OwnDirectory
  <2> QED BY <2>1, <2>2
<1> QED BY <1>2, <1>4 DEF Record!OwnDirectory

(* Days, directories, caches: no job and no file changes.                      *)
LEMMA RecordPlaceStep ==
  ASSUME Record!IInv, NEW s \in RecordSession,
         \/ Record!Midnight \/ Record!List(s) \/ Record!Reserve(s) \/ Record!Pause(s) \/ Record!Resume(s) \/ Record!EndSession(s) \/ Record!Context(s) \/ Record!Remember(s)
  PROVE  Record!IInv'
<1>1. UNCHANGED Record!contents
  BY DEF Record!Midnight, Record!List, Record!Reserve, Record!Pause, Record!Resume, Record!EndSession,
       Record!Context, Record!Remember, Record!contents
<1>2. Record_events' \in 0 .. RecordMaxEvents
  BY RecordAssumption DEF Record!IInv, Record!Types, Record!Event, Record!Midnight, Record!List, Record!Reserve,
       Record!Pause, Record!Resume, Record!EndSession, Record!Context, Record!Remember
<1>3. Record_at' \in [RecordSession -> {"new", "listed", "open", "paused", "ended", "dead"}]
  BY DEF Record!IInv, Record!TypeOK, Record!Midnight, Record!List, Record!Reserve, Record!Pause, Record!Resume,
       Record!EndSession, Record!Context, Record!Remember, Record!Take
<1>4. Record!TypeOK' /\ Record!Types'
  BY <1>1, <1>2, <1>3, RecordAssumption DEF Record!IInv, Record!TypeOK, Record!Types, Record!contents
<1>5. Record!InOrder'
  BY <1>1 DEF Record!IInv, Record!InOrder, Record!Apart, Record!Busy, Record!Paths, Record!InHand,
       Record!Hidden, Record!Known, Record!Pair, Record!Waits, Record!contents
<1>6. Record!Owned' /\ Record!OwnDirectory'
  <2>1. CASE Record!Reserve(s)
    <3> DEFINE d == <<Record_home[s][1], Record_number[s], "act">>
    <3>1. CASE d \in Record_dirs
      BY <2>1, <3>1 DEF Record!IInv, Record!Owned, Record!OwnDirectory, Record!Reserve
    <3>2. CASE d \notin Record_dirs
      <4>1. Record_dirs' = Record_dirs \cup {d} /\ Record_owners' = Record_owners \cup {<<s, d>>} /\ d[3] = "act"
        BY <2>1, <3>2 DEF Record!Reserve, Record!Take
      <4> QED BY <3>2, <4>1, RecordTaken
    <3> QED BY <3>1, <3>2
  <2>2. CASE Record!Resume(s)
    <3>1. PICK d \in IF Record!Adopted(s) # {} THEN Record!Adopted(s) ELSE {<<Record_today, 0, s>>} : Record!Take(s, d)
      BY <2>2 DEF Record!Resume
    <3>2. d[3] = s
      BY <3>1 DEF Record!Adopted
    <3> QED BY <3>1, <3>2, RecordTaken DEF Record!Take
  <2>3. CASE UNCHANGED <<Record_dirs, Record_owners>>
    BY <2>3 DEF Record!IInv, Record!Owned, Record!OwnDirectory
  <2>4. ~Record!Reserve(s) /\ ~Record!Resume(s) => UNCHANGED <<Record_dirs, Record_owners>>
    BY DEF Record!Midnight, Record!List, Record!Pause, Record!EndSession, Record!Context, Record!Remember,
         Record!places
  <2> QED BY <2>1, <2>2, <2>3, <2>4
<1> QED BY <1>4, <1>5, <1>6 DEF Record!IInv

-----------------------------------------------------------------------------
(* Jobs that never overlapped have no file in common.                          *)
LEMMA RecordNothingShared ==
  ASSUME Record!IInv, ~Record_raced, NEW s \in RecordSession, NEW t \in RecordSession, s # t, Record!Busy(s), Record!Busy(t)
  PROVE  /\ Record_job[s].new # Record_job[t].new /\ Record_job[s].new # Record_job[t].old
         /\ Record_job[s].old # Record!None => Record_job[s].old # Record_job[t].new /\ Record_job[s].old # Record_job[t].old
<1>1. Record_job[s].new \in RecordFile /\ Record_job[t].new \in RecordFile
  BY DEF Record!IInv, Record!Types, Record!Jobs, Record!Busy
<1>2. Record!Paths(Record_job[s]) \cap Record!Paths(Record_job[t]) = {}
  BY DEF Record!IInv, Record!InOrder, Record!Apart
<1> QED BY <1>1, <1>2, RecordAssumption DEF Record!Paths

(* A job of a session that has none begins.                                    *)
LEMMA RecordBeginStep ==
  ASSUME Record!IInv, NEW s \in RecordSession, Record!Supersede(s) \/ Record!Promote(s)
  PROVE  Record!IInv'
<1>1. PICK j \in Record!Jobs :
        /\ Record!Begin(s, j) /\ ~Record_file[j.new].there /\ j.next # "commit" /\ (j.next = "old" => j.old # Record!None)
        /\ j.old # j.new /\ (j.old # Record!None => j.do = "supersede" /\ Record_file[j.old].there /\ j.next = "old")
  <2>1. CASE Record!Supersede(s)
    <3>1. PICK old \in RecordFile, new \in RecordFile :
            /\ Record_file[old].there /\ ~Record_file[new].there /\ old # new
            /\ Record!Begin(s, [do |-> "supersede", old |-> old, new |-> new, next |-> "old"])
      BY <2>1 DEF Record!Supersede
    <3> DEFINE j == [do |-> "supersede", old |-> old, new |-> new, next |-> "old"]
    <3>2. j \in Record!Jobs /\ j.do = "supersede" /\ j.old = old /\ j.new = new /\ j.next = "old"
      BY DEF Record!Jobs
    <3>3. old # Record!None
      BY RecordAssumption
    <3>4. Record!Begin(s, j)
      BY <3>1
    <3> HIDE DEF j
    <3> QED BY <3>1, <3>2, <3>3, <3>4
  <2>2. CASE Record!Promote(s)
    <3>1. PICK new \in RecordFile : ~Record_file[new].there /\ Record!Begin(s, [do |-> "promote", old |-> Record!None, new |-> new, next |-> "new"])
      BY <2>2 DEF Record!Promote
    <3> DEFINE j == [do |-> "promote", old |-> Record!None, new |-> new, next |-> "new"]
    <3>2. j \in Record!Jobs /\ j.old = Record!None /\ j.new = new /\ j.next = "new"
      BY DEF Record!Jobs
    <3>3. new # Record!None
      BY RecordAssumption
    <3>4. Record!Begin(s, j)
      BY <3>1
    <3> HIDE DEF j
    <3> QED BY <3>1, <3>2, <3>3, <3>4
  <2> QED BY <2>1, <2>2
<1>2. /\ ~Record!Busy(s) /\ Record_job' = [Record_job EXCEPT ![s] = j] /\ UNCHANGED <<Record_at, Record_dirs, Record_owners, Record_file, Record_saved, Record_torn>>
      /\ Record_raced' = (Record_raced \/ \E t \in RecordSession : Record!Busy(t) /\ Record!Paths(Record_job[t]) \cap Record!Paths(j) # {}) /\ Record_events' \in 0 .. RecordMaxEvents
  BY <1>1, RecordAssumption DEF Record!Begin, Record!Event, Record!places, Record!IInv, Record!Types
<1>3. \A t \in RecordSession : Record_job'[t] = IF t = s THEN j ELSE Record_job[t]
  BY <1>2 DEF Record!IInv, Record!Types
<1>4. Record_raced' \in BOOLEAN /\ (~Record_raced' => ~Record_raced /\ \A t \in RecordSession : Record!Busy(t) => Record!Paths(Record_job[t]) \cap Record!Paths(j) = {})
  BY <1>2 DEF Record!IInv, Record!TypeOK
<1>5. Record!TypeOK' /\ Record!Types'
  <2>1. Record_job' \in [RecordSession -> Record!Jobs \cup {Record!NoJob}]
    BY <1>2 DEF Record!IInv, Record!Types
  <2>2. \A t \in RecordSession : Record_job'[t].next = "old" => Record_job'[t].old # Record!None
    BY <1>1, <1>3 DEF Record!IInv, Record!Types
  <2> QED BY <1>2, <1>4, <2>1, <2>2, RecordAssumption DEF Record!IInv, Record!TypeOK, Record!Types
<1>6. Record!Owned' /\ Record!OwnDirectory'
  BY <1>2 DEF Record!IInv, Record!Owned, Record!OwnDirectory
<1>7. Record!InOrder'
  <2> SUFFICES ASSUME ~Record_raced'
               PROVE  Record!Apart' /\ (\A t \in RecordSession : Record!Busy(t)' => Record!InHand(Record_job[t])') /\ (\A f \in RecordFile : Record!Hidden(f)')
    BY DEF Record!InOrder
  <2>1. Record!Apart /\ (\A t \in RecordSession : Record!Busy(t) => Record!InHand(Record_job[t])) /\ (\A f \in RecordFile : Record!Hidden(f))
    BY <1>4 DEF Record!IInv, Record!InOrder
  <2>2. Record!Apart'
    BY <1>3, <1>4, <2>1 DEF Record!Apart, Record!Busy, Record!Paths
  <2>3. Record!InHand(j)'
    BY <1>1, <1>2 DEF Record!InHand
  <2>4. \A t \in RecordSession : Record!Busy(t)' => Record!InHand(Record_job[t])'
    BY <1>2, <1>3, <2>1, <2>3 DEF Record!InHand, Record!Busy
  <2>5. \A f \in RecordFile : Record!Waits(f) => Record!Waits(f)'
    BY <1>2, <1>3 DEF Record!Waits, Record!Busy
  <2>6. \A f \in RecordFile : Record!Hidden(f)'
    BY <1>2, <2>1, <2>5 DEF Record!Hidden, Record!Known, Record!Pair
  <2> QED BY <2>2, <2>4, <2>6
<1> QED BY <1>5, <1>6, <1>7 DEF Record!IInv

(* A session that is killed leaves its job where it is.                        *)
LEMMA RecordDieStep ==
  ASSUME Record!IInv, NEW s \in RecordSession, Record!Die(s)
  PROVE  Record!IInv'
<1>1. /\ Record_job' = [Record_job EXCEPT ![s] = Record!NoJob] /\ Record_at' = [Record_at EXCEPT ![s] = "dead"] /\ UNCHANGED <<Record_dirs, Record_owners, Record_file, Record_saved, Record_raced>>
      /\ Record_torn' = (Record_torn \/ (Record_job[s].do = "supersede" /\ Record_job[s].next = "new")) /\ Record_events' \in 0 .. RecordMaxEvents
  BY RecordAssumption DEF Record!Die, Record!Event, Record!places, Record!IInv, Record!Types
<1>2. \A t \in RecordSession : Record_job'[t] = IF t = s THEN Record!NoJob ELSE Record_job[t]
  BY <1>1 DEF Record!IInv, Record!Types
<1>3. Record!TypeOK' /\ Record!Types'
  <2>1. Record_job' \in [RecordSession -> Record!Jobs \cup {Record!NoJob}] /\ Record_at' \in [RecordSession -> {"new", "listed", "open", "paused", "ended", "dead"}]
    BY <1>1 DEF Record!IInv, Record!Types, Record!TypeOK
  <2>2. \A t \in RecordSession : Record_job'[t].next = "old" => Record_job'[t].old # Record!None
    BY <1>2 DEF Record!IInv, Record!Types, Record!NoJob, Record!None
  <2>3. Record_torn' \in BOOLEAN
    BY <1>1 DEF Record!IInv, Record!TypeOK
  <2> QED BY <1>1, <2>1, <2>2, <2>3, RecordAssumption DEF Record!IInv, Record!TypeOK, Record!Types
<1>4. Record!Owned' /\ Record!OwnDirectory'
  BY <1>1 DEF Record!IInv, Record!Owned, Record!OwnDirectory
<1>5. Record!InOrder'
  <2> SUFFICES ASSUME ~Record_raced'
               PROVE  Record!Apart' /\ (\A t \in RecordSession : Record!Busy(t)' => Record!InHand(Record_job[t])') /\ (\A f \in RecordFile : Record!Hidden(f)')
    BY DEF Record!InOrder
  <2>1. Record!Apart /\ (\A t \in RecordSession : Record!Busy(t) => Record!InHand(Record_job[t])) /\ (\A f \in RecordFile : Record!Hidden(f))
    BY <1>1 DEF Record!IInv, Record!InOrder
  <2>2. Record!Apart' /\ \A t \in RecordSession : Record!Busy(t)' => Record!InHand(Record_job[t])'
    BY <1>1, <1>2, <2>1 DEF Record!Apart, Record!Busy, Record!Paths, Record!InHand
  <2>3. ASSUME NEW f \in RecordFile, Record!Waits(f) PROVE Record!Waits(f)' \/ Record_torn'
    <3>1. PICK t \in RecordSession : Record!Busy(t) /\ Record_job[t].next = "new" /\ Record_job[t].old = f
      BY <2>3 DEF Record!Waits
    <3>2. CASE t = s
      BY <1>1, <2>1, <3>1, <3>2, RecordAssumption DEF Record!InHand
    <3>3. CASE t # s
      BY <1>2, <3>1, <3>3 DEF Record!Waits, Record!Busy
    <3> QED BY <3>2, <3>3
  <2>4. Record_torn => Record_torn'
    BY <1>1
  <2>5. \A f \in RecordFile : Record!Hidden(f)'
    BY <1>1, <2>1, <2>3, <2>4 DEF Record!Hidden, Record!Known, Record!Pair
  <2> QED BY <2>2, <2>5
<1> QED BY <1>3, <1>4, <1>5 DEF Record!IInv

-----------------------------------------------------------------------------
(* What a step of the job of s does to the job.                                *)
LEMMA RecordJobMoves ==
  ASSUME Record!IInv, NEW s \in RecordSession, Record_job[s] \in Record!Jobs, NEW n \in {"new", "commit"}, Record_job' = [Record_job EXCEPT ![s].next = n]
  PROVE  /\ Record_job' \in [RecordSession -> Record!Jobs \cup {Record!NoJob}] /\ \A t \in RecordSession \ {s} : Record_job'[t] = Record_job[t]
         /\ Record_job'[s] \in Record!Jobs /\ Record_job'[s].next = n /\ Record_job'[s].old = Record_job[s].old /\ Record_job'[s].new = Record_job[s].new
         /\ Record_job'[s].do = Record_job[s].do /\ \A t \in RecordSession : Record!Busy(t)' <=> Record!Busy(t)
<1> DEFINE j == [Record_job[s] EXCEPT !.next = n]
<1>1. j \in Record!Jobs
  BY DEF Record!Jobs
<1>2. j.next = n /\ j.old = Record_job[s].old
  BY DEF Record!Jobs
<1>3. j.new = Record_job[s].new /\ j.do = Record_job[s].do
  BY DEF Record!Jobs
<1>4. Record_job' = [Record_job EXCEPT ![s] = j]
  OBVIOUS
<1> HIDE DEF j
<1>5. Record_job' \in [RecordSession -> Record!Jobs \cup {Record!NoJob}] /\ \A t \in RecordSession : Record_job'[t] = IF t = s THEN j ELSE Record_job[t]
  BY <1>1, <1>4 DEF Record!IInv, Record!Types
<1>6. j # Record!NoJob /\ Record_job[s] # Record!NoJob
  BY <1>1 DEF Record!Jobs, Record!NoJob, Record!None
<1> QED BY <1>1, <1>2, <1>3, <1>5, <1>6 DEF Record!Busy

(* Jobs keep their files while each goes on.                                   *)
LEMMA RecordApartStays ==
  ASSUME Record!Apart, NEW s \in RecordSession, \A t \in RecordSession : Record!Busy(t)' => Record!Busy(t), \A t \in RecordSession \ {s} : Record_job'[t] = Record_job[t],
         Record!Busy(s)' => Record_job'[s].old = Record_job[s].old /\ Record_job'[s].new = Record_job[s].new
  PROVE  Record!Apart'
BY DEF Record!Apart, Record!Paths

(* The old file is told what replaces it.                                      *)
LEMMA RecordWriteOldStep ==
  ASSUME Record!IInv, NEW s \in RecordSession, Record!WriteOld(s)
  PROVE  Record!IInv'
<1> DEFINE old == Record_job[s].old
<1> DEFINE new == Record_job[s].new
<1>1. /\ Record_job[s].next = "old" /\ Record_job' = [Record_job EXCEPT ![s].next = "new"] /\ Record_file' = [Record_file EXCEPT ![old].by = new]
      /\ UNCHANGED <<Record_at, Record_dirs, Record_owners, Record_saved, Record_raced, Record_torn, Record_events>>
  BY DEF Record!WriteOld, Record!places
<1>2. Record_job[s] \in Record!Jobs /\ Record!Busy(s) /\ old \in RecordFile /\ new \in RecordFile /\ old # Record!None
  BY <1>1, RecordAssumption DEF Record!IInv, Record!Types, Record!Jobs, Record!NoJob, Record!None, Record!Busy
<1>3. /\ Record_job' \in [RecordSession -> Record!Jobs \cup {Record!NoJob}] /\ \A t \in RecordSession \ {s} : Record_job'[t] = Record_job[t]
      /\ Record_job'[s] \in Record!Jobs /\ Record_job'[s].next = "new" /\ Record_job'[s].old = old /\ Record_job'[s].new = new
      /\ Record_job'[s].do = Record_job[s].do /\ \A t \in RecordSession : Record!Busy(t)' <=> Record!Busy(t)
  BY <1>1, <1>2, RecordJobMoves
<1> DEFINE d == [Record_file[old] EXCEPT !.by = new]
<1>4. Record_file[old] \in Record!Data
  BY <1>2 DEF Record!IInv, Record!Types
<1>5. d \in Record!Data
  BY <1>2, <1>4 DEF Record!Data
<1>6. d.by = new
  BY <1>4 DEF Record!Data
<1>7. d.there = Record_file[old].there
  BY <1>4 DEF Record!Data
<1>8. d.was = Record_file[old].was
  BY <1>4 DEF Record!Data
<1>9. Record_file' = [Record_file EXCEPT ![old] = d]
  BY <1>1
<1> HIDE DEF d
<1>10. Record_file' \in [RecordFile -> Record!Data] /\ \A f \in RecordFile : Record_file'[f] = IF f = old THEN d ELSE Record_file[f]
  BY <1>2, <1>5, <1>9 DEF Record!IInv, Record!Types
<1>11. Record!TypeOK' /\ Record!Types'
  <2>1. \A f \in RecordFile : Record_file'[f].by \in RecordFile \cup {Record!None}
    BY <1>2, <1>6, <1>10 DEF Record!IInv, Record!TypeOK
  <2>2. \A t \in RecordSession : Record_job'[t].next = "old" => Record_job'[t].old # Record!None
    BY <1>3 DEF Record!IInv, Record!Types
  <2> QED BY <1>1, <1>3, <1>10, <2>1, <2>2 DEF Record!IInv, Record!TypeOK, Record!Types
<1>12. Record!Owned' /\ Record!OwnDirectory'
  BY <1>1 DEF Record!IInv, Record!Owned, Record!OwnDirectory
<1>13. Record!InOrder'
  <2> SUFFICES ASSUME ~Record_raced
               PROVE  Record!Apart' /\ (\A t \in RecordSession : Record!Busy(t)' => Record!InHand(Record_job[t])') /\ (\A f \in RecordFile : Record!Hidden(f)')
    BY <1>1 DEF Record!InOrder
  <2>1. Record!Apart /\ (\A t \in RecordSession : Record!Busy(t) => Record!InHand(Record_job[t])) /\ (\A f \in RecordFile : Record!Hidden(f))
    BY DEF Record!IInv, Record!InOrder
  <2>2. old # new /\ Record_job[s].do = "supersede" /\ ~Record_file[new].there /\ Record_file[old].there
    BY <1>1, <1>2, <2>1 DEF Record!InHand
  <2>3. \A f \in RecordFile : (Record_file'[f].there <=> Record_file[f].there) /\ Record_file'[f].was = Record_file[f].was
                        /\ (f = old => Record_file'[f].by = new) /\ (f # old => Record_file'[f].by = Record_file[f].by)
    BY <1>6, <1>7, <1>8, <1>10
  <2>4. Record!Apart'
    BY <1>3, <2>1, RecordApartStays
  <2>5. ASSUME NEW t \in RecordSession, Record!Busy(t) PROVE Record!InHand(Record_job[t])'
    <3>1. CASE t = s
      BY <1>2, <1>3, <2>2, <2>3, <3>1 DEF Record!InHand
    <3>2. CASE t # s
      <4>1. Record_job[t].new # old /\ (Record_job[t].old # Record!None => Record_job[t].old # old) /\ Record!InHand(Record_job[t])
        BY <1>2, <2>1, <2>5, <3>2, RecordNothingShared
      <4>2. Record_job[t].new \in RecordFile /\ Record_job[t].old \in RecordFile \cup {Record!None}
        BY <2>5 DEF Record!IInv, Record!Types, Record!Jobs, Record!Busy
      <4> QED BY <1>3, <2>3, <3>2, <4>1, <4>2 DEF Record!InHand
    <3> QED BY <3>1, <3>2
  <2>6. \A f \in RecordFile : Record!Waits(f) \/ f = old => Record!Waits(f)'
    <3>1. ASSUME NEW f \in RecordFile, Record!Waits(f) PROVE Record!Waits(f)'
      <4>1. PICK t \in RecordSession : Record!Busy(t) /\ Record_job[t].next = "new" /\ Record_job[t].old = f
        BY <3>1 DEF Record!Waits
      <4> QED BY <1>1, <1>3, <4>1 DEF Record!Waits
    <3>2. ASSUME NEW f \in RecordFile, f = old PROVE Record!Waits(f)'
      BY <1>2, <1>3, <3>2 DEF Record!Waits
    <3> QED BY <3>1, <3>2
  <2>7. ASSUME NEW f \in RecordFile PROVE Record!Hidden(f)'
    <3>1. Record!Hidden(f) /\ Record_file[f].by \in RecordFile \cup {Record!None} /\ Record_file[f].was \in RecordFile \cup {Record!None}
      BY <2>1 DEF Record!IInv, Record!Types, Record!Data
    <3>2. (~Record_file'[f].there => Record_file'[f].by = Record!None) /\ (Record_saved'[f].there => Record_file'[f].there)
      BY <1>1, <2>2, <2>3, <3>1 DEF Record!Hidden
    <3>3. Record!Known(Record_file, f)'
      BY <1>2, <2>3, <3>1, RecordAssumption DEF Record!Hidden, Record!Known
    <3>4. Record!Pair(Record_saved, f)'
      BY <1>1, <3>1 DEF Record!Hidden, Record!Pair
    <3>5. Record!Pair(Record_file, f)' \/ Record_torn' \/ Record!Waits(f)'
      BY <1>1, <2>3, <2>6, <3>1 DEF Record!Hidden, Record!Pair
    <3> QED BY <3>2, <3>3, <3>4, <3>5 DEF Record!Hidden
  <2> QED BY <1>3, <2>4, <2>5, <2>7
<1> QED BY <1>11, <1>12, <1>13 DEF Record!IInv

(* The new file is written; what waited for it waits no more.                  *)
LEMMA RecordWriteNewStep ==
  ASSUME Record!IInv, NEW s \in RecordSession, Record!WriteNew(s)
  PROVE  Record!IInv'
<1> DEFINE old == Record_job[s].old
<1> DEFINE new == Record_job[s].new
<1> DEFINE d == [there |-> TRUE, by |-> Record!None, was |-> old]
<1>1. /\ Record_job[s].next = "new" /\ Record_job' = [Record_job EXCEPT ![s].next = "commit"] /\ Record_file' = [Record_file EXCEPT ![new] = d]
      /\ UNCHANGED <<Record_at, Record_dirs, Record_owners, Record_saved, Record_raced, Record_torn, Record_events>>
  BY DEF Record!WriteNew, Record!places
<1>2. Record_job[s] \in Record!Jobs /\ Record!Busy(s) /\ old \in RecordFile \cup {Record!None} /\ new \in RecordFile /\ new # Record!None
  BY <1>1, RecordAssumption DEF Record!IInv, Record!Types, Record!Jobs, Record!NoJob, Record!None, Record!Busy
<1>3. /\ Record_job' \in [RecordSession -> Record!Jobs \cup {Record!NoJob}] /\ \A t \in RecordSession \ {s} : Record_job'[t] = Record_job[t]
      /\ Record_job'[s] \in Record!Jobs /\ Record_job'[s].next = "commit" /\ Record_job'[s].old = old /\ Record_job'[s].new = new
      /\ Record_job'[s].do = Record_job[s].do /\ \A t \in RecordSession : Record!Busy(t)' <=> Record!Busy(t)
  BY <1>1, <1>2, RecordJobMoves
<1>4. d \in Record!Data /\ d.there /\ d.by = Record!None /\ d.was = old
  BY <1>2 DEF Record!Data
<1> HIDE DEF d
<1>5. Record_file' \in [RecordFile -> Record!Data] /\ \A f \in RecordFile : Record_file'[f] = IF f = new THEN d ELSE Record_file[f]
  BY <1>1, <1>2, <1>4 DEF Record!IInv, Record!Types
<1>6. Record!TypeOK' /\ Record!Types'
  <2>1. \A f \in RecordFile : Record_file'[f].by \in RecordFile \cup {Record!None}
    BY <1>2, <1>4, <1>5 DEF Record!IInv, Record!TypeOK
  <2>2. \A t \in RecordSession : Record_job'[t].next = "old" => Record_job'[t].old # Record!None
    BY <1>3 DEF Record!IInv, Record!Types
  <2> QED BY <1>1, <1>3, <1>5, <2>1, <2>2 DEF Record!IInv, Record!TypeOK, Record!Types
<1>7. Record!Owned' /\ Record!OwnDirectory'
  BY <1>1 DEF Record!IInv, Record!Owned, Record!OwnDirectory
<1>8. Record!InOrder'
  <2> SUFFICES ASSUME ~Record_raced
               PROVE  Record!Apart' /\ (\A t \in RecordSession : Record!Busy(t)' => Record!InHand(Record_job[t])') /\ (\A f \in RecordFile : Record!Hidden(f)')
    BY <1>1 DEF Record!InOrder
  <2>1. Record!Apart /\ (\A t \in RecordSession : Record!Busy(t) => Record!InHand(Record_job[t])) /\ (\A f \in RecordFile : Record!Hidden(f))
    BY DEF Record!IInv, Record!InOrder
  <2>2. old # new /\ ~Record_file[new].there /\ Record_file[new].by = Record!None /\ (old # Record!None => old \in RecordFile /\ Record_file[old].there /\ Record_file[old].by = new)
    BY <1>1, <1>2, <2>1 DEF Record!InHand, Record!Hidden
  <2>3. \A f \in RecordFile : (f # new => Record_file'[f] = Record_file[f]) /\ (f = new => Record_file'[f].there /\ Record_file'[f].by = Record!None /\ Record_file'[f].was = old)
    BY <1>4, <1>5
  <2>4. Record!Apart'
    BY <1>3, <2>1, RecordApartStays
  <2>5. ASSUME NEW t \in RecordSession, Record!Busy(t) PROVE Record!InHand(Record_job[t])'
    <3>1. CASE t = s
      BY <1>2, <1>3, <2>1, <2>2, <2>3, <3>1 DEF Record!InHand
    <3>2. CASE t # s
      <4>1. Record_job[t].new # new /\ Record_job[t].old # new /\ Record!InHand(Record_job[t])
        BY <1>2, <2>1, <2>5, <3>2, RecordNothingShared
      <4>2. Record_job[t].new \in RecordFile /\ Record_job[t].old \in RecordFile \cup {Record!None}
        BY <2>5 DEF Record!IInv, Record!Types, Record!Jobs, Record!Busy
      <4> QED BY <1>3, <2>3, <3>2, <4>1, <4>2 DEF Record!InHand
    <3> QED BY <3>1, <3>2
  <2>6. ASSUME NEW f \in RecordFile PROVE Record!Hidden(f)'
    <3>1. Record!Hidden(f) /\ Record_file[f].by \in RecordFile \cup {Record!None} /\ Record_file[f].was \in RecordFile \cup {Record!None}
      BY <2>1 DEF Record!IInv, Record!Types, Record!Data
    <3>2. (~Record_file'[f].there => Record_file'[f].by = Record!None) /\ (Record_saved'[f].there => Record_file'[f].there)
      BY <1>1, <2>3, <3>1 DEF Record!Hidden
    <3>3. Record!Known(Record_file, f)'
      <4>1. CASE f = new
        BY <1>2, <2>2, <2>3, <4>1, RecordAssumption DEF Record!Known
      <4>2. CASE f # new
        BY <1>2, <2>2, <2>3, <3>1, <4>2, RecordAssumption DEF Record!Known, Record!Hidden
      <4> QED BY <4>1, <4>2
    <3>4. Record!Pair(Record_saved, f)'
      BY <1>1, <3>1 DEF Record!Hidden, Record!Pair
    <3>5. Record!Pair(Record_file, f)' \/ Record_torn' \/ Record!Waits(f)'
      <4>1. Record!Pair(Record_file, f) => Record!Pair(Record_file, f)'
        BY <2>3, <3>1 DEF Record!Pair
      <4>2. ASSUME Record!Waits(f) PROVE Record!Waits(f)' \/ Record!Pair(Record_file, f)'
        <5>1. PICK t \in RecordSession : Record!Busy(t) /\ Record_job[t].next = "new" /\ Record_job[t].old = f
          BY <4>2 DEF Record!Waits
        <5>2. CASE t = s
          <6>1. Record_file'[f].by = new /\ Record_file'[new].there
            BY <1>2, <2>2, <2>3, <5>1, <5>2, RecordAssumption
          <6> QED BY <6>1 DEF Record!Pair
        <5>3. CASE t # s
          BY <1>3, <5>1, <5>3 DEF Record!Waits
        <5> QED BY <5>2, <5>3
      <4> QED BY <1>1, <3>1, <4>1, <4>2 DEF Record!Hidden
    <3> QED BY <3>2, <3>3, <3>4, <3>5 DEF Record!Hidden
  <2> QED BY <1>3, <2>4, <2>5, <2>6
<1> QED BY <1>6, <1>7, <1>8 DEF Record!IInv

(* The files of the job are committed together, or git fails.                  *)
LEMMA RecordCommitStep ==
  ASSUME Record!IInv, NEW s \in RecordSession, Record!Commit(s)
  PROVE  Record!IInv'
<1> DEFINE old == Record_job[s].old
<1> DEFINE new == Record_job[s].new
<1>1. /\ Record_job[s].next = "commit" /\ Record_job' = [Record_job EXCEPT ![s] = Record!NoJob]
      /\ \/ Record_saved' = [f \in RecordFile |-> IF f \in {old, new} \ {Record!None} THEN Record_file[f] ELSE Record_saved[f]]
         \/ UNCHANGED Record_saved
      /\ UNCHANGED <<Record_at, Record_dirs, Record_owners, Record_file, Record_raced, Record_torn, Record_events>>
  BY DEF Record!Commit, Record!Committed, Record!Paths, Record!places
<1>2. Record_job[s] \in Record!Jobs /\ Record!Busy(s) /\ old \in RecordFile \cup {Record!None} /\ new \in RecordFile /\ new # Record!None
  BY <1>1, RecordAssumption DEF Record!IInv, Record!Types, Record!Jobs, Record!NoJob, Record!None, Record!Busy
<1>3. Record_job' \in [RecordSession -> Record!Jobs \cup {Record!NoJob}] /\ \A t \in RecordSession : Record_job'[t] = IF t = s THEN Record!NoJob ELSE Record_job[t]
  BY <1>1 DEF Record!IInv, Record!Types
<1>4. Record_saved' \in [RecordFile -> Record!Data]
  BY <1>1 DEF Record!IInv, Record!Types
<1>5. Record!TypeOK' /\ Record!Types'
  <2>1. \A f \in RecordFile : Record_saved'[f].there \in BOOLEAN
    BY <1>4 DEF Record!Data
  <2>2. \A t \in RecordSession : Record_job'[t].next = "old" => Record_job'[t].old # Record!None
    BY <1>3 DEF Record!IInv, Record!Types, Record!NoJob, Record!None
  <2> QED BY <1>1, <1>3, <1>4, <2>1, <2>2 DEF Record!IInv, Record!TypeOK, Record!Types
<1>6. Record!Owned' /\ Record!OwnDirectory'
  BY <1>1 DEF Record!IInv, Record!Owned, Record!OwnDirectory
<1>7. Record!InOrder'
  <2> SUFFICES ASSUME ~Record_raced
               PROVE  Record!Apart' /\ (\A t \in RecordSession : Record!Busy(t)' => Record!InHand(Record_job[t])') /\ (\A f \in RecordFile : Record!Hidden(f)')
    BY <1>1 DEF Record!InOrder
  <2>1. Record!Apart /\ (\A t \in RecordSession : Record!Busy(t) => Record!InHand(Record_job[t])) /\ (\A f \in RecordFile : Record!Hidden(f))
    BY DEF Record!IInv, Record!InOrder
  <2>2. Record_file[new].there /\ Record_file[new].by = Record!None /\ (old # Record!None => Record_file[old].by = new)
    BY <1>1, <1>2, <2>1 DEF Record!InHand
  <2>3. Record!Apart' /\ \A t \in RecordSession : Record!Busy(t)' => Record!InHand(Record_job[t])'
    BY <1>1, <1>3, <2>1 DEF Record!Apart, Record!Busy, Record!Paths, Record!InHand
  <2>4. \A f \in RecordFile : Record_saved'[f] = Record_saved[f] \/ (Record_saved'[f] = Record_file[f] /\ f \in {old, new})
    BY <1>1 DEF Record!IInv, Record!Types
  <2>5. Record_saved' = Record_saved \/ Record_saved'[new] = Record_file[new]
    BY <1>1, <1>2
  <2>6. ASSUME NEW f \in RecordFile PROVE Record!Hidden(f)'
    <3>1. Record!Hidden(f) /\ Record_saved[f].by \in RecordFile \cup {Record!None}
      BY <2>1 DEF Record!IInv, Record!Types, Record!Data
    <3>2. (~Record_file'[f].there => Record_file'[f].by = Record!None) /\ (Record_saved'[f].there => Record_file'[f].there) /\ Record!Known(Record_file, f)'
      BY <1>1, <2>4, <3>1 DEF Record!Hidden, Record!Known
    <3>3. Record!Pair(Record_saved, f)'
      <4>1. CASE Record_saved' = Record_saved
        BY <3>1, <4>1 DEF Record!Hidden, Record!Pair
      <4>2. CASE Record_saved' # Record_saved /\ Record_saved'[f] = Record_saved[f]
        <5>1. ASSUME NEW g \in RecordFile, Record_saved[g].there PROVE Record_saved'[g].there
          BY <2>1, <2>4, <5>1 DEF Record!Hidden
        <5> QED BY <3>1, <4>2, <5>1 DEF Record!Hidden, Record!Pair
      <4>3. CASE Record_saved' # Record_saved /\ Record_saved'[f] = Record_file[f] /\ f \in {old, new}
        BY <1>2, <2>2, <2>5, <4>3, RecordAssumption DEF Record!Pair
      <4> QED BY <2>4, <4>1, <4>2, <4>3
    <3>4. Record!Pair(Record_file, f)' \/ Record_torn' \/ Record!Waits(f)'
      <4>1. Record!Waits(f) => Record!Waits(f)'
        BY <1>1, <1>3 DEF Record!Waits, Record!Busy
      <4> QED BY <1>1, <3>1, <4>1 DEF Record!Hidden, Record!Pair
    <3> QED BY <3>2, <3>3, <3>4 DEF Record!Hidden
  <2> QED BY <2>3, <2>6
<1> QED BY <1>5, <1>6, <1>7 DEF Record!IInv

-----------------------------------------------------------------------------
(* Every step keeps the invariant.                                             *)
LEMMA RecordNextIInv == Record!IInv /\ [Record!Next]_Record!vars => Record!IInv'
<1>1. ASSUME Record!IInv, UNCHANGED <<Record_at, Record_dirs, Record_owners, Record_file, Record_saved, Record_job, Record_raced, Record_torn>>, Record_events' \in 0 .. RecordMaxEvents PROVE Record!IInv'
  <2>1. Record!TypeOK' /\ Record!Types'
    BY <1>1, RecordAssumption DEF Record!IInv, Record!TypeOK, Record!Types
  <2>2. Record!Owned' /\ Record!OwnDirectory'
    BY <1>1 DEF Record!IInv, Record!Owned, Record!OwnDirectory
  <2>3. Record!InOrder'
    BY <1>1 DEF Record!IInv, Record!InOrder, Record!Apart, Record!Busy, Record!Paths, Record!InHand,
         Record!Hidden, Record!Known, Record!Pair, Record!Waits
  <2> QED BY <2>1, <2>2, <2>3 DEF Record!IInv
<1>2. ASSUME Record!IInv, Record!Midnight \/ UNCHANGED Record!vars PROVE Record!IInv'
  <2>1. Record_events' \in 0 .. RecordMaxEvents
    BY <1>2, RecordAssumption DEF Record!Midnight, Record!Event, Record!IInv, Record!Types, Record!vars
  <2>2. UNCHANGED <<Record_at, Record_dirs, Record_owners, Record_file, Record_saved, Record_job, Record_raced, Record_torn>>
    BY <1>2 DEF Record!Midnight, Record!places, Record!contents, Record!vars
  <2> QED BY <1>1, <1>2, <2>1, <2>2
<1>3. ASSUME Record!IInv, Record!Next PROVE Record!IInv'
  BY <1>2, <1>3, RecordPlaceStep, RecordBeginStep, RecordDieStep, RecordWriteOldStep, RecordWriteNewStep,
       RecordCommitStep DEF Record!Next
<1> QED BY <1>2, <1>3

(* What the invariant says of directories and replacements.                    *)
LEMMA RecordHolds == Record!IInv => Record!TypeOK /\ Record!RecordsStand
<1> SUFFICES ASSUME Record!IInv PROVE Record!RecordsStand
  BY DEF Record!IInv
<1>1. ASSUME ~Record_raced, NEW f \in RecordFile
      PROVE  Record!Pair(Record_saved, f) /\ ((\A s \in RecordSession : ~Record!Busy(s)) => Record!Known(Record_file, f) /\ (Record_torn \/ Record!Pair(Record_file, f)))
  BY <1>1 DEF Record!IInv, Record!InOrder, Record!Hidden, Record!Waits
<1> QED BY <1>1 DEF Record!IInv, Record!RecordsStand, Record!ReplacementStands

(* engram_memory.py: no two sessions record in one directory, and a superseded fact is     *)
(* hidden in the commit only with its replacement, for any sessions, files and kills.       *)
THEOREM RecordsAlwaysStand == Spec => []RecordsStand
<1> DEFINE Inv == part = "record" => Record!IInv
<1>1. Init => Inv
  BY RecordInitIInv DEF Init
<1>2. Inv /\ [Next]_vars => Inv'
  <2>1. ASSUME part = "record", Record!IInv, [Next]_vars PROVE Record!IInv'
    BY <2>1, RecordNextIInv DEF Next, vars, Record!vars
  <2>2. [Next]_vars => part' = part
    BY DEF Next, vars
  <2> QED BY <2>1, <2>2
<1>3. Inv => RecordsStand
  BY RecordHolds DEF RecordsStand
<1> QED
  BY <1>1, <1>2, <1>3, PTL DEF Spec

HIDE DEF Record_today, Record_dirs, Record_at, Record_number, Record_home, Record_trace,
  Record_owners, Record_file, Record_saved, Record_job, Record_events, Record_raced, Record_torn,
  Record_cache

-----------------------------------------------------------------------------
(* DecaySweep. *)
Decay_today == x1
Decay_files == x2
Decay_access == x3
Decay_cached == x4
Decay_cache == x5
Decay_lists == x6
Decay_head == x7
Decay_pc == x8
Decay_view == x9
Decay_changed == x10
Decay_failed == x11
Decay_events == x12
USE DEF Decay_today, Decay_files, Decay_access, Decay_cached, Decay_cache, Decay_lists, Decay_head,
  Decay_pc, Decay_view, Decay_changed, Decay_failed, Decay_events

(* Sets have one cardinality, inside and outside of DecaySweep. *)
LEMMA DecayCardinality == \A S : Decay!Cardinality(S) = Cardinality(S)
BY DEF Decay!Cardinality, Cardinality
USE DecayCardinality

(* No sweep has begun.                                                         *)
LEMMA DecayInitIInv == Decay!Init => Decay!IInv
<1> SUFFICES ASSUME Decay!Init PROVE Decay!IInv
  OBVIOUS
<1>1. /\ Decay_access = [f \in DecayFile |-> Decay!NoAccess] /\ Decay_lists = [k \in Decay!Kind |-> {}] /\ Decay_head = [k \in Decay!Kind |-> {}]
      /\ Decay_today = 0 /\ Decay_pc = "idle" /\ Decay_view = {} /\ Decay_changed = {}
  BY DEF Decay!Init
<1>2. Decay_access \in [DecayFile -> [count : Nat, last : Nat, sum : Nat, rated : Nat]] /\ \A f \in DecayFile : Decay_access[f].rated <= Decay_access[f].count
  BY <1>1 DEF Decay!NoAccess
<1>3. Decay_today \in 0 .. DecayMaxDay /\ \A f \in DecayFile : Decay_files[f].created \in 0 .. Decay_today /\ Decay_access[f].last \in 0 .. Decay_today
  <2>1. Decay!NoFile.created = 0
    BY Zenon DEF Decay!NoFile
  <2>2. \A f \in DecayFile : Decay_files[f] = Decay!NoFile
    BY DEF Decay!Init
  <2>3. \A f \in DecayFile : Decay_access[f].last = 0
    BY <1>1 DEF Decay!NoAccess
  <2> QED BY <1>1, <2>1, <2>2, <2>3, DecayAssumption
<1> QED BY <1>1, <1>2, <1>3 DEF Decay!IInv, Decay!TypeOK, Decay!Types, Decay!WrittenSoFar

(* What is on the lists are files.                                             *)
LEMMA DecayCandidatesAreFiles ==
  ASSUME Decay!IInv, NEW kind
  PROVE  Decay!Candidates(Decay_view, kind) \in SUBSET DecayFile
BY DEF Decay!Candidates, Decay!IInv, Decay!Types

(* The mean of ratings is a number.                                            *)
LEMMA DecayMeanIsNat == ASSUME NEW f \in DecayFile, Decay!IInv PROVE Decay!Mean(Decay_access[f]) \in Nat
<1>1. Decay_access[f].sum \in Nat /\ Decay_access[f].rated \in Nat
  BY DEF Decay!IInv, Decay!Types
<1> DEFINE a == Decay_access[f].sum
<1> DEFINE b == Decay_access[f].rated
<1>2. a \in Nat /\ b \in Nat
  BY <1>1
<1> HIDE DEF a, b
<1>3. b # 0 => a \div b \in Nat
  BY <1>2
<1>4. Decay!Mean(Decay_access[f]) = IF b = 0 THEN 0 ELSE a \div b
  BY DEF Decay!Mean, a, b
<1> QED BY <1>3, <1>4

(* So is an effective trust.                                                   *)
LEMMA DecayEffectiveIsNat == ASSUME NEW f \in DecayFile, Decay!Rated(f), Decay!IInv PROVE Decay!EffectiveTrust(f) \in Nat
<1>1. Decay!TrustScore(Decay_files[f].trust) \in Nat
  BY DEF Decay!Rated, Decay!Trust, Decay!TrustScore
<1>2. Decay!Days(f) \in 0 .. DecayMaxDay
  <2>1. Decay_today \in 0 .. DecayMaxDay /\ Decay_files[f].created \in 0 .. Decay_today /\ Decay_access[f].last \in 0 .. Decay_today
    BY DEF Decay!IInv, Decay!Types
  <2> QED BY <2>1, DecayAssumption DEF Decay!Days
<1>3. DecayDecayFactor(Decay!Days(f)) \in Nat
  BY <1>2, DecayAssumption
<1> DEFINE a == Decay!TrustScore(Decay_files[f].trust)
<1> DEFINE b == DecayDecayFactor(Decay!Days(f))
<1>4. a \in Nat /\ b \in Nat
  BY <1>1, <1>3
<1> HIDE DEF a, b
<1>5. a * b \in Nat
  BY <1>4
<1>6. (a * b) \div 10000 \in Nat
  BY <1>5
<1> QED BY <1>6 DEF Decay!EffectiveTrust, a, b

(* The rows of the view are about files, with numbers, one for each file.       *)
DecayViewTyped(rows) ==
  /\ \A row \in rows : row.file \in DecayFile /\ row.mean \in Nat /\ row.effective \in Nat
  /\ \A r, q \in rows : r.file = q.file => r = q
LEMMA DecayViewOfFiles == Decay!IInv => DecayViewTyped(Decay!View)
<1> SUFFICES ASSUME Decay!IInv PROVE DecayViewTyped(Decay!View)
  OBVIOUS
<1>1. \A row \in Decay!View : \E f \in DecayFile : Decay!Rated(f) /\ row = Decay!Row(f)
  BY DEF Decay!View
<1>2. \A f \in DecayFile : Decay!Row(f).file = f /\ Decay!Row(f).mean = Decay!Mean(Decay_access[f]) /\ Decay!Row(f).effective = Decay!EffectiveTrust(f)
  BY DEF Decay!Row
<1> QED BY <1>1, <1>2, DecayMeanIsNat, DecayEffectiveIsNat DEF DecayViewTyped

(* Others touch neither the lists nor the sweep.                               *)
LEMMA DecayOthersStep ==
  ASSUME Decay!IInv, Decay!NewDay \/ \E f \in DecayFile : Decay!Edit(f) \/ Decay!Access(f)
  PROVE  Decay!IInv'
<1>1. UNCHANGED <<Decay_cached, Decay_cache, Decay_lists, Decay_head, Decay_pc, Decay_view, Decay_changed, Decay_failed>>
  BY DEF Decay!NewDay, Decay!Edit, Decay!Access, Decay!Others
<1>2. /\ Decay_today' \in 0 .. DecayMaxDay
      /\ \A f \in DecayFile : Decay_files'[f].created \in 0 .. Decay_today' /\ Decay_access'[f].last \in 0 .. Decay_today'
  <2>1. /\ Decay_today \in 0 .. DecayMaxDay /\ DecayMaxDay \in Nat
        /\ \A f \in DecayFile : Decay_files[f].created \in 0 .. Decay_today /\ Decay_access[f].last \in 0 .. Decay_today
    BY DecayAssumption DEF Decay!IInv, Decay!Types
  <2>2. CASE Decay!NewDay
    BY <2>1, <2>2 DEF Decay!NewDay
  <2>3. ASSUME NEW f \in DecayFile, Decay!Edit(f) PROVE <1>2!1 /\ <1>2!2
    <3>1. PICK fm \in DecayFrontMatter :
            Decay_files' = [Decay_files EXCEPT ![f] = [trust |-> fm[1], source |-> fm[2],
                                           created |-> IF Decay_files[f] = Decay!NoFile THEN Decay_today ELSE Decay_files[f].created]]
      BY <2>3 DEF Decay!Edit
    <3> DEFINE new == [trust |-> fm[1], source |-> fm[2], created |-> IF Decay_files[f] = Decay!NoFile THEN Decay_today ELSE Decay_files[f].created]
    <3>2. new.created \in 0 .. Decay_today
      BY <2>1
    <3>3. Decay_files' = [Decay_files EXCEPT ![f] = new] /\ UNCHANGED <<Decay_today, Decay_access>>
      BY <2>3, <3>1 DEF Decay!Edit
    <3> HIDE DEF new
    <3>4. \A g \in DecayFile : Decay_files'[g] = new \/ Decay_files'[g] = Decay_files[g]
      BY <3>3 DEF Decay!IInv, Decay!Types
    <3> QED BY <2>1, <3>2, <3>3, <3>4
  <2>4. ASSUME NEW f \in DecayFile, Decay!Access(f) PROVE <1>2!1 /\ <1>2!2
    <3>1. PICK help \in DecayHelpfulness, rated \in {0, 1} :
            Decay_access' = [Decay_access EXCEPT ![f] =
              [count |-> Decay_access[f].count + 1, last |-> Decay_today, sum |-> Decay_access[f].sum + help * rated, rated |-> Decay_access[f].rated + rated]]
      BY <2>4 DEF Decay!Access
    <3> DEFINE new == [count |-> Decay_access[f].count + 1, last |-> Decay_today, sum |-> Decay_access[f].sum + help * rated, rated |-> Decay_access[f].rated + rated]
    <3>2. new.last \in 0 .. Decay_today
      BY <2>1
    <3>3. Decay_access' = [Decay_access EXCEPT ![f] = new] /\ UNCHANGED <<Decay_today, Decay_files>>
      BY <2>4, <3>1 DEF Decay!Access
    <3> HIDE DEF new
    <3>4. \A g \in DecayFile : Decay_access'[g] = new \/ Decay_access'[g] = Decay_access[g]
      BY <3>3 DEF Decay!IInv, Decay!Types
    <3> QED BY <2>1, <3>2, <3>3, <3>4
  <2> QED BY <2>2, <2>3, <2>4
<1>3. Decay_access' \in [DecayFile -> [count : Nat, last : Nat, sum : Nat, rated : Nat]] /\ \A f \in DecayFile : Decay_access'[f].rated <= Decay_access'[f].count
  <2>1. CASE UNCHANGED Decay_access
    BY <2>1 DEF Decay!IInv, Decay!TypeOK, Decay!Types
  <2>2. ASSUME NEW f \in DecayFile, Decay!Access(f)
        PROVE  Decay_access' \in [DecayFile -> [count : Nat, last : Nat, sum : Nat, rated : Nat]] /\ \A g \in DecayFile : Decay_access'[g].rated <= Decay_access'[g].count
    <3>1. PICK help \in DecayHelpfulness, rated \in {0, 1} :
            Decay_access' = [Decay_access EXCEPT ![f] =
              [count |-> Decay_access[f].count + 1, last |-> Decay_today, sum |-> Decay_access[f].sum + help * rated, rated |-> Decay_access[f].rated + rated]]
      BY <2>2 DEF Decay!Access
    <3> DEFINE new == [count |-> Decay_access[f].count + 1, last |-> Decay_today, sum |-> Decay_access[f].sum + help * rated, rated |-> Decay_access[f].rated + rated]
    <3>2. Decay_access[f] \in [count : Nat, last : Nat, sum : Nat, rated : Nat] /\ Decay_access[f].rated <= Decay_access[f].count /\ Decay_today \in Nat
      BY DecayAssumption DEF Decay!IInv, Decay!TypeOK, Decay!Types
    <3>3. new \in [count : Nat, last : Nat, sum : Nat, rated : Nat]
      <4>1. help * rated \in Nat
        BY DecayAssumption
      <4> QED BY <3>2, <4>1
    <3>4. new.rated <= new.count
      BY <3>2
    <3>5. Decay_access' = [Decay_access EXCEPT ![f] = new]
      BY <3>1
    <3> HIDE DEF new
    <3> QED BY <3>3, <3>4, <3>5 DEF Decay!IInv, Decay!TypeOK, Decay!Types
  <2> QED BY <2>1, <2>2 DEF Decay!NewDay, Decay!Edit
<1>4. Decay!TypeOK'
  BY <1>1, <1>3 DEF Decay!IInv, Decay!TypeOK
<1>5. Decay!Types'
  BY <1>1, <1>2, <1>3 DEF Decay!IInv, Decay!Types
<1>6. \A kind : Decay!Candidates(Decay_view, kind)' = Decay!Candidates(Decay_view, kind)
  BY <1>1 DEF Decay!Candidates
<1>7. Decay!WrittenSoFar'
  BY <1>1, <1>6 DEF Decay!IInv, Decay!WrittenSoFar
<1> QED BY <1>4, <1>5, <1>7 DEF Decay!IInv

(* A list is written or removed as the view says, or the sweep has an error.    *)
LEMMA DecayWriteListStep ==
  ASSUME Decay!IInv, Decay!WriteList("promote", "demote") \/ Decay!WriteList("demote", "commit")
  PROVE  Decay!IInv'
<1>1. PICK kind \in Decay!Kind :
         \/ kind = "promote" /\ Decay!WriteList("promote", "demote")
         \/ kind = "demote" /\ Decay!WriteList("demote", "commit")
  BY DEF Decay!Kind
<1>2. /\ Decay_pc = kind /\ Decay_pc' = IF kind = "promote" THEN "demote" ELSE "commit"
      /\ UNCHANGED <<Decay_today, Decay_files, Decay_access, Decay_cached, Decay_cache, Decay_head, Decay_view>>
      /\ \/ Decay_lists' = [Decay_lists EXCEPT ![kind] = Decay!Candidates(Decay_view, kind)] /\ Decay_failed' = Decay_failed /\ Decay_changed' \in {Decay_changed, Decay_changed \cup {kind}}
         \/ /\ (Decay_failed' = TRUE) /\ UNCHANGED Decay_changed
            /\ \/ UNCHANGED Decay_lists
               \/ \E some \in SUBSET Decay!Candidates(Decay_view, kind) : Decay_lists' = [Decay_lists EXCEPT ![kind] = some]
  <2>1. CASE kind = "promote" /\ Decay!WriteList("promote", "demote")
    BY <2>1 DEF Decay!WriteList, Decay!AfterWrite, Decay!Sweep, Decay!memory
  <2>2. CASE kind = "demote" /\ Decay!WriteList("demote", "commit")
    BY <2>2 DEF Decay!WriteList, Decay!AfterWrite, Decay!Sweep, Decay!memory
  <2> QED BY <1>1, <2>1, <2>2
<1>3. Decay_lists' \in [Decay!Kind -> SUBSET DecayFile] /\ Decay_changed' \subseteq Decay!Kind
  BY <1>2, DecayCandidatesAreFiles DEF Decay!IInv, Decay!TypeOK, Decay!Types
<1>4. Decay!TypeOK' /\ Decay!Types'
  BY <1>2, <1>3 DEF Decay!IInv, Decay!TypeOK, Decay!Types
<1>5. CASE Decay_failed'
  BY <1>5, <1>4 DEF Decay!IInv, Decay!WrittenSoFar
<1>6. CASE ~Decay_failed'
  <2>1. Decay_lists' = [Decay_lists EXCEPT ![kind] = Decay!Candidates(Decay_view, kind)] /\ ~Decay_failed
    BY <1>2, <1>6
  <2>2. Decay_lists'[kind] = Decay!Candidates(Decay_view, kind) /\ \A k \in Decay!Kind \ {kind} : Decay_lists'[k] = Decay_lists[k]
    BY <2>1 DEF Decay!IInv, Decay!Types
  <2>3. Decay_cached /\ Decay_cache = {Decay!Saved(r) : r \in Decay_view} /\ (kind = "demote" => Decay_lists["promote"] = Decay!Candidates(Decay_view, "promote"))
    BY <1>2, <2>1 DEF Decay!IInv, Decay!WrittenSoFar, Decay!Kind
  <2>4. Decay!Candidates(Decay_view, kind)' = Decay!Candidates(Decay_view, kind) /\ Decay!Candidates(Decay_view, "promote")' = Decay!Candidates(Decay_view, "promote")
    BY <1>2 DEF Decay!Candidates
  <2>5. Decay!WrittenSoFar'
    BY <1>2, <2>1, <2>2, <2>3, <2>4 DEF Decay!WrittenSoFar, Decay!Kind
  <2> QED BY <1>4, <2>5 DEF Decay!IInv
<1> QED BY <1>5, <1>6

(* The other steps of a sweep.                                                 *)
LEMMA DecaySweepStep ==
  ASSUME Decay!IInv, Decay!Start \/ Decay!WriteCache \/ Decay!Commit \/ Decay!Finish \/ Decay!Kill
  PROVE  Decay!IInv'
<1>1. UNCHANGED Decay!memory /\ UNCHANGED <<Decay_today, Decay_files, Decay_access, Decay_lists>>
  BY DEF Decay!Start, Decay!WriteCache, Decay!Commit, Decay!Finish, Decay!Kill, Decay!Sweep, Decay!memory
<1>2. Decay_view' \in {Decay_view, Decay!View, {}} /\ Decay_changed' \in {Decay_changed, {}}
  BY DEF Decay!Start, Decay!WriteCache, Decay!Commit, Decay!Finish, Decay!Kill
<1>3. Decay_head' \in [Decay!Kind -> SUBSET DecayFile]
  BY DEF Decay!Start, Decay!WriteCache, Decay!Commit, Decay!Finish, Decay!Kill, Decay!IInv, Decay!Types
<1>4. Decay!TypeOK' /\ Decay!Types'
  <2>1. DecayViewTyped(Decay_view) /\ DecayViewTyped(Decay!View) /\ DecayViewTyped({})
    BY DecayViewOfFiles DEF Decay!IInv, Decay!Types, DecayViewTyped
  <2>2. DecayViewTyped(Decay_view')
    BY <1>2, <2>1
  <2> QED BY <1>1, <1>2, <1>3, <2>2 DEF Decay!IInv, Decay!TypeOK, Decay!Types, DecayViewTyped
<1>5. Decay!WrittenSoFar'
  <2>1. CASE Decay!Start \/ Decay!Finish \/ Decay!Kill
    BY <2>1 DEF Decay!Start, Decay!Finish, Decay!Kill, Decay!WrittenSoFar
  <2>2. CASE Decay!WriteCache
    BY <2>2 DEF Decay!WriteCache, Decay!WrittenSoFar
  <2>3. CASE Decay!Commit
    BY <1>1, <2>3 DEF Decay!Commit, Decay!WrittenSoFar, Decay!IInv
  <2> QED BY <2>1, <2>2, <2>3
<1> QED BY <1>4, <1>5 DEF Decay!IInv

(* Every step leaves what the sweep has done as it is, or does more of it.      *)
LEMMA DecayNextIInv == Decay!IInv /\ [Decay!Next]_Decay!vars => Decay!IInv'
<1>1. ASSUME Decay!IInv, UNCHANGED Decay!vars PROVE Decay!IInv'
  BY <1>1 DEF Decay!vars, Decay!memory, Decay!outcome, Decay!IInv, Decay!TypeOK, Decay!Types, Decay!WrittenSoFar
<1> QED BY <1>1, DecayOthersStep, DecayWriteListStep, DecaySweepStep DEF Decay!Next

(* Rounding moves a number by no more than half a grain, and a threshold is on    *)
(* the grid: only a number close to it changes sides.                          *)
LEMMA DecayRoundedStays ==
  ASSUME NEW x \in Nat, NEW t \in {2000, 3000, 5000, 7000}, ~Decay!Close(x, t)
  PROVE  (Decay!Rounded(x) >= t <=> x >= t) /\ (Decay!Rounded(x) <= t <=> x <= t)
BY DEF Decay!Rounded, Decay!Close

(* So a row far from the thresholds is a candidate as it is cached if it is one. *)
LEMMA DecaySavedStays ==
  ASSUME NEW row, row.mean \in Nat, row.effective \in Nat, ~Decay!Borderline(row)
  PROVE  (Decay!Promote(Decay!Saved(row)) <=> Decay!Promote(row)) /\ (Decay!Demote(Decay!Saved(row)) <=> Decay!Demote(row))
<1>1. /\ Decay!Saved(row).base = row.base /\ Decay!Saved(row).count = row.count
      /\ Decay!Saved(row).mean = Decay!Rounded(row.mean) /\ Decay!Saved(row).effective = Decay!Rounded(row.effective)
  BY DEF Decay!Saved
<1>2. ~Decay!Close(row.effective, 5000) /\ ~Decay!Close(row.effective, 2000) /\ ~Decay!Close(row.mean, 7000) /\ ~Decay!Close(row.mean, 3000)
  BY DEF Decay!Borderline
<1>3. /\ Decay!Rounded(row.effective) >= 5000 <=> row.effective >= 5000
      /\ Decay!Rounded(row.effective) <= 2000 <=> row.effective <= 2000
      /\ Decay!Rounded(row.mean) >= 7000 <=> row.mean >= 7000
      /\ Decay!Rounded(row.mean) <= 3000 <=> row.mean <= 3000
  BY <1>2, DecayRoundedStays
<1> QED BY <1>1, <1>3 DEF Decay!Promote, Decay!Demote

(* What the invariant says of a sweep that is over.                            *)
LEMMA DecayHolds == Decay!IInv => Decay!TypeOK /\ Decay!SweepHeals
<1> SUFFICES ASSUME Decay!IInv PROVE Decay!SweepHeals
  BY DEF Decay!IInv
<1> SUFFICES ASSUME Decay_pc = "done", ~Decay_failed, NEW k \in Decay!Kind
             PROVE  /\ Decay_lists[k] = Decay!Candidates(Decay_view, k)
                    /\ \A row \in Decay_view, a \in Decay!Shown(k) :
                         ~Decay!Borderline(row) =>
                           /\ row.file \in a => row.file \in Decay_lists[k]
                           /\ row.file \in Decay_lists[k] => row.file \in a \/ Cardinality(a) = DecayLimit
  BY DEF Decay!SweepHeals
<1>1. Decay_lists[k] = Decay!Candidates(Decay_view, k) /\ Decay_cached /\ Decay_cache = {Decay!Saved(r) : r \in Decay_view}
  BY DEF Decay!IInv, Decay!WrittenSoFar, Decay!Kind
<1>2. ASSUME NEW row \in Decay_view, ~Decay!Borderline(row)
      PROVE  row.file \in Decay!Review(k) <=> row.file \in Decay_lists[k]
  <2>1. row.mean \in Nat /\ row.effective \in Nat /\ \A q \in Decay_view : q.file = row.file => q = row
    BY DEF Decay!IInv, Decay!Types
  <2>2. (Decay!Promote(Decay!Saved(row)) <=> Decay!Promote(row)) /\ (Decay!Demote(Decay!Saved(row)) <=> Decay!Demote(row))
    BY <1>2, <2>1, DecaySavedStays
  <2>3. row.file \in Decay_lists[k] <=> IF k = "promote" THEN Decay!Promote(row) ELSE Decay!Demote(row)
    BY <1>1, <2>1 DEF Decay!Candidates
  <2>4. \A q : Decay!Saved(q).file = q.file
    BY DEF Decay!Saved
  <2>5. row.file \in Decay!Review(k) <=> \E q \in Decay_view : q.file = row.file /\ IF k = "promote" THEN Decay!Promote(Decay!Saved(q)) ELSE Decay!Demote(Decay!Saved(q))
    BY <1>1, <2>4 DEF Decay!Review, Decay!Cached, Decay!Candidates
  <2>6. row.file \in Decay!Review(k) <=> IF k = "promote" THEN Decay!Promote(Decay!Saved(row)) ELSE Decay!Demote(Decay!Saved(row))
    BY <2>1, <2>5
  <2> QED BY <2>2, <2>3, <2>6
<1>3. \A a \in Decay!Shown(k) : a \subseteq Decay!Review(k) /\ (a = Decay!Review(k) \/ Cardinality(a) = DecayLimit)
  BY DEF Decay!Shown
<1> QED BY <1>1, <1>2, <1>3

(* cmd_decay.py: a sweep without an error leaves the lists of its own view, for any files,  *)
(* days, failed writes and unfinished earlier sweeps.                                       *)
THEOREM SweepsHeal == Spec => []SweepHeals
<1> DEFINE Inv == part = "decay" => Decay!IInv
<1>1. Init => Inv
  BY DecayInitIInv DEF Init
<1>2. Inv /\ [Next]_vars => Inv'
  <2>1. ASSUME part = "decay", Decay!IInv, [Next]_vars PROVE Decay!IInv'
    BY <2>1, DecayNextIInv DEF Next, vars, Decay!vars, Decay!memory, Decay!outcome
  <2>2. [Next]_vars => part' = part
    BY DEF Next, vars
  <2> QED BY <2>1, <2>2
<1>3. Inv => SweepHeals
  BY DecayHolds DEF SweepHeals
<1> QED
  BY <1>1, <1>2, <1>3, PTL DEF Spec

HIDE DecayCardinality
HIDE DEF Decay_today, Decay_files, Decay_access, Decay_cached, Decay_cache, Decay_lists, Decay_head,
  Decay_pc, Decay_view, Decay_changed, Decay_failed, Decay_events

-----------------------------------------------------------------------------
(* Consolidation. *)
Consolidate_files == x1
Consolidate_summary == x2
Consolidate_head == x3
Consolidate_pc == x4
Consolidate_queue == x5
Consolidate_written == x6
Consolidate_exit == x7
Consolidate_told == x8
Consolidate_events == x9
USE DEF Consolidate_files, Consolidate_summary, Consolidate_head, Consolidate_pc, Consolidate_queue,
  Consolidate_written, Consolidate_exit, Consolidate_told, Consolidate_events

(* Sets have one cardinality, inside and outside of Consolidation. *)
LEMMA ConsolidateCardinality == \A S : Consolidate!Cardinality(S) = Cardinality(S)
BY DEF Consolidate!Cardinality, Cardinality
USE ConsolidateCardinality

(* No directory has a summary, and no run has begun.                           *)
LEMMA ConsolidateInitIInv == Consolidate!Init => Consolidate!IInv
BY DEF Consolidate!Init, Consolidate!IInv, Consolidate!TypeOK, Consolidate!Types, Consolidate!StillNamed,
     Consolidate!QueuedOnce, Consolidate!OnlyDrifted, Consolidate!NoSummary

(* A set that grows does not have fewer members.                               *)
LEMMA ConsolidateNoFewer ==
  ASSUME NEW A, NEW B \in SUBSET ConsolidateFile, A \subseteq B
  PROVE  Cardinality(A) \in Nat /\ Cardinality(B) \in Nat /\ Cardinality(A) <= Cardinality(B)
<1>1. IsFiniteSet(B)
  BY ConsolidateAssumption, FS_Subset
<1> QED BY <1>1, FS_Subset, FS_CardinalityType

(* Of a candidate that waits, no more is told than when it was put there.       *)
LEMMA ConsolidateStillDrifted ==
  ASSUME Consolidate!IInv, Consolidate_queue' \subseteq Consolidate_queue,
         \A c \in Consolidate_queue' : Consolidate_told'[c.ns] \subseteq Consolidate_told[c.ns]
  PROVE  Consolidate!OnlyDrifted'
<1>1. ASSUME NEW c \in Consolidate_queue' PROVE Cardinality(c.files \ Consolidate_told'[c.ns]) >= ConsolidateMinUnmentioned
  <2>1. c \in Consolidate_queue /\ c.files \in SUBSET ConsolidateFile
    BY DEF Consolidate!IInv, Consolidate!Types
  <2>2. Cardinality(c.files \ Consolidate_told[c.ns]) >= ConsolidateMinUnmentioned
    BY <2>1 DEF Consolidate!IInv, Consolidate!OnlyDrifted
  <2>3. c.files \ Consolidate_told[c.ns] \subseteq c.files \ Consolidate_told'[c.ns] /\ c.files \ Consolidate_told'[c.ns] \in SUBSET ConsolidateFile
    BY <2>1
  <2> QED BY <2>2, <2>3, ConsolidateNoFewer, ConsolidateAssumption
<1> QED BY <1>1 DEF Consolidate!OnlyDrifted

(* A run begins with what has come up since the model last named the files.     *)
LEMMA ConsolidateStartStep ==
  ASSUME Consolidate!IInv, Consolidate!Start
  PROVE  Consolidate!IInv'
<1>1. Consolidate_queue' = {Consolidate!Candidate(n) : n \in Consolidate!Capped(Consolidate!Candidates)} /\ UNCHANGED <<Consolidate_files, Consolidate_summary, Consolidate_told>>
      /\ Consolidate_exit' = 0 /\ Consolidate_written' = {} /\ Consolidate_pc' \in {"idle", "ask"}
  BY DEF Consolidate!Start
<1>2. Consolidate!Capped(Consolidate!Candidates) \subseteq Consolidate!Candidates
  BY DEF Consolidate!Capped
<1>3. ASSUME NEW n \in Consolidate!Candidates PROVE n \in ConsolidateNamespace /\ Cardinality(Consolidate!Unmentioned(n)) >= ConsolidateMinUnmentioned
  BY DEF Consolidate!Candidates
<1>4. ASSUME NEW c \in Consolidate_queue'
      PROVE  \E n \in Consolidate!Candidates : c = [ns |-> n, files |-> Consolidate_files[n], trust |-> Consolidate_summary[n].trust]
  BY <1>1, <1>2 DEF Consolidate!Candidate
<1>5. Consolidate!Types'
  <2>1. ASSUME NEW c \in Consolidate_queue' PROVE c \in [ns : ConsolidateNamespace, files : SUBSET ConsolidateFile, trust : ConsolidateTrusts \cup {"none", "medium"}]
    BY <1>3, <1>4 DEF Consolidate!IInv, Consolidate!Types
  <2> QED BY <1>1, <2>1 DEF Consolidate!IInv, Consolidate!Types
<1>6. Consolidate!QueuedOnce'
  BY <1>4 DEF Consolidate!QueuedOnce
<1>7. Consolidate!OnlyDrifted'
  <2>1. ASSUME NEW c \in Consolidate_queue' PROVE Cardinality(c.files \ Consolidate_told[c.ns]) >= ConsolidateMinUnmentioned
    <3>1. PICK n \in Consolidate!Candidates : c = [ns |-> n, files |-> Consolidate_files[n], trust |-> Consolidate_summary[n].trust]
      BY <1>4
    <3>2. c.files = Consolidate_files[n] /\ c.ns = n
      BY <3>1
    <3>3. n \in ConsolidateNamespace /\ Cardinality(Consolidate!Unmentioned(n)) >= ConsolidateMinUnmentioned
      BY <1>3
    <3>4. Consolidate!Unmentioned(n) \subseteq Consolidate_files[n] \ Consolidate_told[n] /\ Consolidate_files[n] \ Consolidate_told[n] \in SUBSET ConsolidateFile
      BY <3>3 DEF Consolidate!Unmentioned, Consolidate!IInv, Consolidate!Types, Consolidate!StillNamed
    <3> QED BY <3>2, <3>3, <3>4, ConsolidateNoFewer, ConsolidateAssumption
  <2> QED BY <1>1, <2>1 DEF Consolidate!OnlyDrifted
<1> QED BY <1>1, <1>5, <1>6, <1>7 DEF Consolidate!IInv, Consolidate!TypeOK, Consolidate!StillNamed

(* A summary is emptied, or written by hand: nothing of it is the model's.      *)
LEMMA ConsolidateClearedStep ==
  ASSUME Consolidate!IInv, NEW n \in ConsolidateNamespace,
         NEW s \in [exists : BOOLEAN, trust : ConsolidateTrusts \cup {"none", "medium"}, body : SUBSET ConsolidateFile],
         Consolidate_summary' = [Consolidate_summary EXCEPT ![n] = s], Consolidate_told' = [Consolidate_told EXCEPT ![n] = {}],
         Consolidate_files' = Consolidate_files, Consolidate_queue' \subseteq Consolidate_queue
  PROVE  Consolidate!Types' /\ Consolidate!StillNamed' /\ Consolidate!QueuedOnce' /\ Consolidate!OnlyDrifted' /\ \A x \in ConsolidateNamespace : Consolidate_files'[x] \subseteq ConsolidateFile /\ Consolidate_summary'[x].body \subseteq ConsolidateFile
<1>1. Consolidate!Types'
  BY DEF Consolidate!IInv, Consolidate!Types
<1>2. Consolidate!StillNamed'
  BY DEF Consolidate!IInv, Consolidate!Types, Consolidate!StillNamed
<1>3. Consolidate!QueuedOnce'
  BY DEF Consolidate!IInv, Consolidate!QueuedOnce
<1>4. \A c \in Consolidate_queue' : Consolidate_told'[c.ns] \subseteq Consolidate_told[c.ns]
  BY DEF Consolidate!IInv, Consolidate!Types
<1>5. \A x \in ConsolidateNamespace : Consolidate_files'[x] \subseteq ConsolidateFile /\ Consolidate_summary'[x].body \subseteq ConsolidateFile
  BY <1>1 DEF Consolidate!Types
<1> QED BY <1>1, <1>2, <1>3, <1>4, <1>5, ConsolidateStillDrifted

(* The summaries stay as they are.                                             *)
LEMMA ConsolidateSameStep ==
  ASSUME Consolidate!IInv, UNCHANGED <<Consolidate_summary, Consolidate_told>>, Consolidate_files' \in [ConsolidateNamespace -> SUBSET ConsolidateFile], Consolidate_queue' \subseteq Consolidate_queue,
         Consolidate_written' \subseteq ConsolidateNamespace, Consolidate_pc' \in {"idle", "ask", "commit"}, Consolidate_exit' \in {0, 1}
  PROVE  Consolidate!IInv'
<1>1. Consolidate!Types' /\ Consolidate!StillNamed' /\ Consolidate!QueuedOnce'
  BY DEF Consolidate!IInv, Consolidate!Types, Consolidate!StillNamed, Consolidate!QueuedOnce
<1>2. Consolidate!OnlyDrifted'
  BY ConsolidateStillDrifted
<1>3. Consolidate!TypeOK'
  BY DEF Consolidate!IInv, Consolidate!TypeOK
<1> QED BY <1>1, <1>2, <1>3 DEF Consolidate!IInv

(* What a run asks of the model stays what has drifted, whatever others do.     *)
LEMMA ConsolidateNextIInv == Consolidate!IInv /\ [Consolidate!Next]_Consolidate!vars => Consolidate!IInv'
<1> SUFFICES ASSUME Consolidate!IInv, [Consolidate!Next]_Consolidate!vars PROVE Consolidate!IInv'
  OBVIOUS
<1> DEFINE Summary == [exists : BOOLEAN, trust : ConsolidateTrusts \cup {"none", "medium"}, body : SUBSET ConsolidateFile]
<1>0. /\ Consolidate!Emptied \in Summary /\ Consolidate_written \subseteq ConsolidateNamespace /\ Consolidate_pc \in {"idle", "ask", "commit"} /\ Consolidate_exit \in {0, 1}
      /\ \A c \in Consolidate_queue : c.ns \in ConsolidateNamespace /\ c.files \in SUBSET ConsolidateFile /\ Consolidate!Seed(c) \in ConsolidateTrusts \cup {"none", "medium"}
  BY DEF Consolidate!Emptied, Consolidate!IInv, Consolidate!TypeOK, Consolidate!Types, Consolidate!Seed
<1>1. ASSUME NEW n \in ConsolidateNamespace, Consolidate!ChangeFiles(n) PROVE Consolidate!IInv'
  <2>1. Consolidate_files' \in [ConsolidateNamespace -> SUBSET ConsolidateFile]
    BY <1>1 DEF Consolidate!ChangeFiles, Consolidate!IInv, Consolidate!Types
  <2> QED BY <1>0, <1>1, <2>1, ConsolidateSameStep DEF Consolidate!ChangeFiles
<1>2. ASSUME NEW n \in ConsolidateNamespace, Consolidate!EditSummary(n) PROVE Consolidate!IInv'
  <2>1. PICK t \in ConsolidateTrusts, b \in {{}, Consolidate_files[n]} : Consolidate_summary' = [Consolidate_summary EXCEPT ![n] = [exists |-> TRUE, trust |-> t, body |-> b]]
    BY <1>2 DEF Consolidate!EditSummary
  <2>2. [exists |-> TRUE, trust |-> t, body |-> b] \in Summary
    BY DEF Consolidate!IInv, Consolidate!Types
  <2>3. Consolidate_told' = [Consolidate_told EXCEPT ![n] = {}] /\ UNCHANGED <<Consolidate_files, Consolidate_pc, Consolidate_queue, Consolidate_written, Consolidate_exit>>
    BY <1>2 DEF Consolidate!EditSummary
  <2> HIDE DEF Summary
  <2> QED BY <2>1, <2>2, <2>3, ConsolidateClearedStep DEF Consolidate!IInv, Consolidate!TypeOK, Summary
<1>3. ASSUME NEW c \in Consolidate_queue, Consolidate!Skip(c) PROVE Consolidate!IInv'
  <2>1. /\ Consolidate_queue' = Consolidate_queue \ {c} /\ Consolidate_pc' \in {"ask", "commit"} /\ Consolidate_exit' = 1 /\ UNCHANGED <<Consolidate_files, Consolidate_written>>
        /\ \/ UNCHANGED <<Consolidate_summary, Consolidate_told>>
           \/ Consolidate_summary' = [Consolidate_summary EXCEPT ![c.ns] = Consolidate!Emptied] /\ Consolidate_told' = [Consolidate_told EXCEPT ![c.ns] = {}]
    BY <1>3 DEF Consolidate!Skip, Consolidate!Leave
  <2>2. CASE UNCHANGED <<Consolidate_summary, Consolidate_told>>
    BY <1>0, <2>1, <2>2, ConsolidateSameStep DEF Consolidate!IInv, Consolidate!Types
  <2>3. CASE Consolidate_summary' = [Consolidate_summary EXCEPT ![c.ns] = Consolidate!Emptied] /\ Consolidate_told' = [Consolidate_told EXCEPT ![c.ns] = {}]
    BY <1>0, <2>1, <2>3, ConsolidateClearedStep DEF Consolidate!IInv, Consolidate!TypeOK
  <2> QED BY <2>1, <2>2, <2>3
<1>4. ASSUME NEW c \in Consolidate_queue, Consolidate!Write(c) PROVE Consolidate!IInv'
  <2>1. PICK named \in SUBSET c.files :
          /\ Consolidate_summary' = [Consolidate_summary EXCEPT ![c.ns] = [exists |-> TRUE, trust |-> Consolidate!Seed(c), body |-> named]]
          /\ Consolidate_told' = [Consolidate_told EXCEPT ![c.ns] = named]
    BY <1>4 DEF Consolidate!Write, Consolidate!Shown
  <2>2. Consolidate_queue' = Consolidate_queue \ {c} /\ Consolidate_pc' \in {"ask", "commit"} /\ Consolidate_written' = Consolidate_written \cup {c.ns} /\ UNCHANGED <<Consolidate_files, Consolidate_exit>>
    BY <1>4 DEF Consolidate!Write, Consolidate!Leave
  <2> DEFINE s == [exists |-> TRUE, trust |-> Consolidate!Seed(c), body |-> named]
  <2>3. s \in Summary /\ s.body = named
    BY <1>0
  <2>4. Consolidate_summary' = [Consolidate_summary EXCEPT ![c.ns] = s]
    BY <2>1
  <2> HIDE DEF s
  <2>5. Consolidate!Types'
    BY <1>0, <2>1, <2>2, <2>3, <2>4 DEF Consolidate!IInv, Consolidate!Types
  <2>6. Consolidate!StillNamed' /\ Consolidate!QueuedOnce'
    BY <1>0, <2>1, <2>2, <2>3, <2>4 DEF Consolidate!IInv, Consolidate!Types, Consolidate!StillNamed,
         Consolidate!QueuedOnce
  <2>7. \A d \in Consolidate_queue' : Consolidate_told'[d.ns] = Consolidate_told[d.ns]
    BY <2>1, <2>2 DEF Consolidate!IInv, Consolidate!Types, Consolidate!QueuedOnce
  <2>8. Consolidate!OnlyDrifted'
    BY <2>2, <2>7, ConsolidateStillDrifted
  <2>9. Consolidate!TypeOK'
    BY <1>0, <2>2, <2>5 DEF Consolidate!TypeOK, Consolidate!Types
  <2> QED BY <2>5, <2>6, <2>8, <2>9 DEF Consolidate!IInv
<1>5. ASSUME NEW c \in Consolidate_queue, Consolidate!KillInWrite(c) PROVE Consolidate!IInv'
  <2>1. /\ Consolidate_queue' = {} /\ Consolidate_pc' = "idle" /\ Consolidate_written' = {} /\ UNCHANGED <<Consolidate_files, Consolidate_exit>>
        /\ Consolidate_summary' = [Consolidate_summary EXCEPT ![c.ns] = Consolidate!Emptied] /\ Consolidate_told' = [Consolidate_told EXCEPT ![c.ns] = {}]
    BY <1>5 DEF Consolidate!KillInWrite, Consolidate!Killed
  <2> QED BY <1>0, <2>1, ConsolidateClearedStep DEF Consolidate!IInv, Consolidate!TypeOK
<1>6. CASE Consolidate!Kill \/ Consolidate!Commit
  <2>1. Consolidate_queue' = {} /\ Consolidate_pc' = "idle" /\ Consolidate_written' = {} /\ UNCHANGED <<Consolidate_files, Consolidate_summary, Consolidate_told, Consolidate_exit>>
    BY <1>6 DEF Consolidate!Kill, Consolidate!Commit, Consolidate!Killed
  <2> QED BY <1>0, <2>1, ConsolidateSameStep DEF Consolidate!IInv, Consolidate!Types
<1>7. CASE UNCHANGED Consolidate!vars
  BY <1>0, <1>7, ConsolidateSameStep DEF Consolidate!vars, Consolidate!IInv, Consolidate!Types
<1> QED BY <1>1, <1>2, <1>3, <1>4, <1>5, <1>6, <1>7, ConsolidateStartStep DEF Consolidate!Next

(* What the invariant says of what is asked.                                   *)
LEMMA ConsolidateHolds == Consolidate!IInv => Consolidate!TypeOK /\ Consolidate!OnlyDrifted
BY DEF Consolidate!IInv

(* cmd_consolidate.py: only for a directory that has drifted is a summary asked of the      *)
(* model, whoever else writes between the scan and the question.                            *)
THEOREM OnlyDriftedIsAsked == Spec => []OnlyDrifted
<1> DEFINE Inv == part = "consolidation" => Consolidate!IInv
<1>1. Init => Inv
  BY ConsolidateInitIInv DEF Init
<1>2. Inv /\ [Next]_vars => Inv'
  <2>1. ASSUME part = "consolidation", Consolidate!IInv, [Next]_vars PROVE Consolidate!IInv'
    BY <2>1, ConsolidateNextIInv DEF Next, vars, Consolidate!vars
  <2>2. [Next]_vars => part' = part
    BY DEF Next, vars
  <2> QED BY <2>1, <2>2
<1>3. Inv => OnlyDrifted
  BY ConsolidateHolds DEF OnlyDrifted
<1> QED
  BY <1>1, <1>2, <1>3, PTL DEF Spec

HIDE ConsolidateCardinality
HIDE DEF Consolidate_files, Consolidate_summary, Consolidate_head, Consolidate_pc,
  Consolidate_queue, Consolidate_written, Consolidate_exit, Consolidate_told, Consolidate_events

-----------------------------------------------------------------------------
(* LinkGraph. *)
Links_today == x1
Links_links == x2
Links_together == x3
Links_pc == x4
Links_todo == x5
Links_fresh == x6
Links_audit == x7
Links_audits == x8
Links_again == x9
USE DEF Links_today, Links_links, Links_together, Links_pc, Links_todo, Links_fresh, Links_audit,
  Links_audits, Links_again

(* Sets have one cardinality, inside and outside of LinkGraph. *)
LEMMA LinksCardinality == \A S : Links!Cardinality(S) = Cardinality(S)
BY DEF Links!Cardinality, Cardinality
USE LinksCardinality

(* f says what the first n counts come to.                                      *)
LinksSumTo(v, n, f) == f \in [0 .. n -> Nat] /\ f = [k \in 0 .. n |-> IF k = 0 THEN 0 ELSE f[k - 1] + v[k]]

(* There is one for one more count.                                             *)
LEMMA LinksSumOneMore ==
  ASSUME NEW v \in Seq(Nat), NEW n \in Nat, n + 1 \in 1 .. Len(v), NEW f, LinksSumTo(v, n, f)
  PROVE  \E g : LinksSumTo(v, n + 1, g)
<1> DEFINE g == [k \in 0 .. n + 1 |-> IF k = n + 1 THEN f[n] + v[n + 1] ELSE f[k]]
<1>1. /\ f \in [0 .. n -> Nat] /\ v[n + 1] \in Nat /\ n \in 0 .. n
      /\ \A k \in 0 .. n : f[k] = IF k = 0 THEN 0 ELSE f[k - 1] + v[k]
  BY DEF LinksSumTo
<1>2. g \in [0 .. n + 1 -> Nat]
  BY <1>1
<1>3. ASSUME NEW k \in 0 .. n + 1 PROVE g[k] = IF k = 0 THEN 0 ELSE g[k - 1] + v[k]
  <2>1. CASE k = n + 1
    BY <2>1
  <2>2. CASE k \in 0 .. n
    BY <1>1, <2>2
  <2> QED BY <2>1, <2>2
<1> HIDE DEF g
<1>4. g = [k \in 0 .. n + 1 |-> IF k = 0 THEN 0 ELSE g[k - 1] + v[k]]
  BY <1>2, <1>3
<1> QED BY <1>2, <1>4 DEF LinksSumTo

(* There is one for all counts.                                                 *)
LEMMA LinksHasSum == ASSUME NEW v \in Seq(Nat) PROVE \E f : LinksSumTo(v, Len(v), f)
<1> DEFINE D == {n \in 0 .. Len(v) : ~ \E f : LinksSumTo(v, n, f)}
<1>1. Len(v) \in Nat /\ D \in SUBSET Nat
  <2>1. Len(v) \in Nat
    OBVIOUS
  <2>2. \A n \in 0 .. Len(v) : n \in Nat
    BY <2>1
  <2> QED BY Zenon, <2>1, <2>2
<1>2. D = {}
  <2> SUFFICES ASSUME D # {} PROVE FALSE
    OBVIOUS
  <2>1. PICK d \in D : \A e \in D : d <= e
    <3> HIDE DEF D
    <3> QED BY <1>1, HasLowest
  <2>2. d \in 0 .. Len(v) /\ ~ \E f : LinksSumTo(v, d, f)
    BY <2>1
  <2>3. CASE d = 0
    <3> DEFINE f == [k \in 0 .. 0 |-> 0]
    <3>1. LinksSumTo(v, 0, f)
      BY DEF LinksSumTo
    <3> QED BY <2>2, <2>3, <3>1
  <2>4. CASE d # 0
    <3> DEFINE n == d - 1
    <3>1. n \in Nat /\ n \in 0 .. Len(v) /\ ~(d <= n) /\ n + 1 = d /\ n + 1 \in 1 .. Len(v)
      BY <1>1, <2>2, <2>4
    <3>2. PICK f : LinksSumTo(v, n, f)
      BY <2>1, <3>1
    <3> HIDE DEF n
    <3>3. \E g : LinksSumTo(v, n + 1, g)
      BY <3>1, <3>2, LinksSumOneMore
    <3> QED BY <2>2, <3>1, <3>3
  <2> QED BY <2>3, <2>4
<1> QED BY <1>1, <1>2

(* What the definition of Total says, if anything is so.                        *)
LEMMA LinksIsTotal ==
  ASSUME NEW v, NEW f, f = [n \in 0 .. Len(v) |-> IF n = 0 THEN 0 ELSE f[n - 1] + v[n]]
  PROVE  \E g : g = [n \in 0 .. Len(v) |-> IF n = 0 THEN 0 ELSE g[n - 1] + v[n]] /\ Links!Total(v) = g[Len(v)]
BY Zenon DEF Links!Total

(* A total by its parts: the counts are added one at a time.                    *)
LEMMA LinksTotalIs ==
  ASSUME NEW v \in Seq(Nat)
  PROVE  \E f : /\ f \in [0 .. Len(v) -> Nat] /\ f[0] = 0 /\ Links!Total(v) = f[Len(v)] /\ Links!Total(v) \in Nat
                /\ \A n \in 1 .. Len(v) : f[n] = f[n - 1] + v[n]
<1>1. Len(v) \in Nat /\ \A n \in 1 .. Len(v) : v[n] \in Nat
  OBVIOUS
<1>2. PICK f : f = [n \in 0 .. Len(v) |-> IF n = 0 THEN 0 ELSE f[n - 1] + v[n]] /\ Links!Total(v) = f[Len(v)]
  <2>1. PICK f : LinksSumTo(v, Len(v), f)
    BY LinksHasSum
  <2>2. f = [n \in 0 .. Len(v) |-> IF n = 0 THEN 0 ELSE f[n - 1] + v[n]]
    BY <2>1 DEF LinksSumTo
  <2> QED BY <2>2, LinksIsTotal
<1>3. \A n \in 0 .. Len(v) : f[n] = IF n = 0 THEN 0 ELSE f[n - 1] + v[n]
  BY <1>2, Zenon
<1>4. f[0] = 0 /\ \A n \in 1 .. Len(v) : f[n] = f[n - 1] + v[n]
  <2>1. 0 \in 0 .. Len(v) /\ \A n \in 1 .. Len(v) : n \in 0 .. Len(v) /\ n # 0
    BY <1>1
  <2> QED BY <1>3, <2>1, Zenon
<1> DEFINE D == {n \in 0 .. Len(v) : f[n] \notin Nat}
<1>5. D = {}
  <2> SUFFICES ASSUME D # {} PROVE FALSE
    OBVIOUS
  <2>1. D \in SUBSET Nat
    BY <1>1
  <2>2. PICK d \in D : \A e \in D : d <= e
    <3> HIDE DEF D
    <3> QED BY <2>1, HasLowest
  <2>3. d \in 0 .. Len(v) /\ f[d] \notin Nat
    BY <2>2
  <2>4. d # 0
    BY <1>4, <2>3
  <2>5. d - 1 \in 0 .. Len(v) /\ ~(d <= d - 1) /\ d \in 1 .. Len(v)
    BY <1>1, <2>3, <2>4
  <2>6. f[d - 1] \in Nat
    BY <2>2, <2>5
  <2>7. f[d] = f[d - 1] + v[d] /\ v[d] \in Nat
    BY <1>1, <1>4, <2>5
  <2> QED BY <2>3, <2>6, <2>7
<1>6. \A n \in 0 .. Len(v) : f[n] \in Nat
  BY <1>5
<1>7. f \in [0 .. Len(v) -> Nat]
  <2>1. f = [n \in 0 .. Len(v) |-> f[n]]
    BY <1>2, Zenon
  <2> QED BY <1>6, <2>1
<1>8. Len(v) \in 0 .. Len(v)
  BY <1>1
<1> QED BY <1>2, <1>4, <1>6, <1>7, <1>8

(* With x more at one place the total is x more.                                *)
LEMMA LinksTotalOneMore ==
  ASSUME NEW v \in Seq(Nat), NEW w \in Seq(Nat), Len(w) = Len(v), NEW s \in 1 .. Len(v), NEW x \in Nat,
         w[s] = v[s] + x, \A i \in 1 .. Len(v) : i # s => w[i] = v[i]
  PROVE  Links!Total(w) = Links!Total(v) + x
<1>1. PICK f : /\ f \in [0 .. Len(v) -> Nat] /\ f[0] = 0 /\ Links!Total(v) = f[Len(v)]
               /\ \A n \in 1 .. Len(v) : f[n] = f[n - 1] + v[n]
  BY LinksTotalIs
<1>2. PICK g : /\ g \in [0 .. Len(w) -> Nat] /\ g[0] = 0 /\ Links!Total(w) = g[Len(w)]
               /\ \A n \in 1 .. Len(w) : g[n] = g[n - 1] + w[n]
  BY LinksTotalIs
<1> DEFINE D == {n \in 0 .. Len(v) : g[n] # f[n] + (IF n >= s THEN x ELSE 0)}
<1>3. Len(v) \in Nat /\ D \in SUBSET Nat /\ \A i \in 1 .. Len(v) : v[i] \in Nat
  <2>1. Len(v) \in Nat
    OBVIOUS
  <2>2. D \in SUBSET Nat
    <3>1. \A n \in 0 .. Len(v) : n \in Nat
      BY <2>1
    <3> QED BY Zenon, <3>1
  <2>3. \A i \in 1 .. Len(v) : v[i] \in Nat
    OBVIOUS
  <2> HIDE DEF D
  <2> QED BY <2>1, <2>2, <2>3
<1>4. D = {}
  <2> SUFFICES ASSUME D # {} PROVE FALSE
    OBVIOUS
  <2>1. PICK d \in D : \A e \in D : d <= e
    <3> HIDE DEF D
    <3> QED BY <1>3, HasLowest
  <2>2. d \in 0 .. Len(v) /\ g[d] # f[d] + (IF d >= s THEN x ELSE 0)
    BY <2>1
  <2>3. d # 0
    BY <1>1, <1>2, <2>2
  <2>4. d - 1 \in 0 .. Len(v) /\ ~(d <= d - 1) /\ d \in 1 .. Len(v)
    BY <1>3, <2>2, <2>3
  <2>5. g[d - 1] = f[d - 1] + (IF d - 1 >= s THEN x ELSE 0)
    BY <2>1, <2>4
  <2>6. f[d] = f[d - 1] + v[d] /\ g[d] = g[d - 1] + w[d] /\ f[d - 1] \in Nat /\ v[d] \in Nat
    BY <1>1, <1>2, <1>3, <2>4
  <2>7. CASE d = s
    BY <2>2, <2>5, <2>6, <2>7
  <2>8. CASE d # s
    <3>1. w[d] = v[d]
      BY <2>4, <2>8
    <3>2. CASE d >= s
      <4>1. d - 1 >= s
        BY <2>4, <2>8, <3>2
      <4>2. g[d - 1] = f[d - 1] + x /\ g[d] # f[d] + x
        BY <2>2, <2>5, <3>2, <4>1
      <4>3. f[d - 1] + x + v[d] = f[d - 1] + v[d] + x
        <5>1. f[d - 1] \in Nat /\ v[d] \in Nat
          BY <2>6, Zenon
        <5>2. \A a, b \in Nat : a + x + b = a + b + x
          OBVIOUS
        <5> QED BY <5>1, <5>2, Zenon
      <4> QED BY <2>6, <3>1, <4>2, <4>3, Zenon
    <3>3. CASE ~(d >= s)
      <4>1. ~(d - 1 >= s)
        BY <2>4, <3>3
      <4>2. g[d - 1] = f[d - 1]
        BY <2>5, <2>6, <4>1
      <4>3. g[d] = f[d] /\ f[d] \in Nat
        <5>1. g[d] = f[d]
          BY <2>6, <3>1, <4>2, Zenon
        <5>2. f[d - 1] + v[d] \in Nat
          <6> DEFINE a == f[d - 1]
                     b == v[d]
          <6>1. a \in Nat /\ b \in Nat
            BY <2>6
          <6> HIDE DEF a, b
          <6>2. a + b \in Nat
            BY ONLY <6>1
          <6> QED BY <6>2 DEF a, b
        <5> QED BY <2>6, <5>1, <5>2, Zenon
      <4>4. f[d] + 0 = f[d]
        BY <4>3
      <4> QED BY <2>2, <3>3, <4>3, <4>4, Zenon
    <3> QED BY <3>2, <3>3
  <2> QED BY <2>7, <2>8
<1>5. g[Len(v)] = f[Len(v)] + x
  <2>1. Len(v) \in 0 .. Len(v) /\ Len(v) >= s
    BY <1>3
  <2>2. Len(v) \notin D
    BY <1>4
  <2> QED BY <2>1, <2>2
<1> QED BY <1>1, <1>2, <1>5

(* With nowhere more there is no more in all.                                   *)
LEMMA LinksTotalMonotone ==
  ASSUME NEW v \in Seq(Nat), NEW w \in Seq(Nat), Len(w) = Len(v), \A i \in 1 .. Len(v) : v[i] <= w[i]
  PROVE  Links!Total(v) <= Links!Total(w)
<1>1. PICK f : /\ f \in [0 .. Len(v) -> Nat] /\ f[0] = 0 /\ Links!Total(v) = f[Len(v)]
               /\ \A n \in 1 .. Len(v) : f[n] = f[n - 1] + v[n]
  BY LinksTotalIs
<1>2. PICK g : /\ g \in [0 .. Len(w) -> Nat] /\ g[0] = 0 /\ Links!Total(w) = g[Len(w)]
               /\ \A n \in 1 .. Len(w) : g[n] = g[n - 1] + w[n]
  BY LinksTotalIs
<1> DEFINE D == {n \in 0 .. Len(v) : ~(f[n] <= g[n])}
<1>3. Len(v) \in Nat /\ D \in SUBSET Nat /\ \A i \in 1 .. Len(v) : v[i] \in Nat /\ w[i] \in Nat
  <2>1. Len(v) \in Nat
    OBVIOUS
  <2>2. D \in SUBSET Nat
    <3>1. \A n \in 0 .. Len(v) : n \in Nat
      BY <2>1
    <3> QED BY Zenon, <3>1
  <2>3. \A i \in 1 .. Len(v) : v[i] \in Nat /\ w[i] \in Nat
    OBVIOUS
  <2> HIDE DEF D
  <2> QED BY <2>1, <2>2, <2>3
<1>4. D = {}
  <2> SUFFICES ASSUME D # {} PROVE FALSE
    OBVIOUS
  <2>1. PICK d \in D : \A e \in D : d <= e
    <3> HIDE DEF D
    <3> QED BY <1>3, HasLowest
  <2>2. d \in 0 .. Len(v) /\ ~(f[d] <= g[d])
    BY <2>1
  <2>3. d # 0
    BY <1>1, <1>2, <2>2
  <2>4. d - 1 \in 0 .. Len(v) /\ ~(d <= d - 1) /\ d \in 1 .. Len(v)
    BY <1>3, <2>2, <2>3
  <2>5. f[d - 1] <= g[d - 1]
    BY <2>1, <2>4
  <2>6. f[d] = f[d - 1] + v[d] /\ g[d] = g[d - 1] + w[d] /\ f[d - 1] \in Nat /\ g[d - 1] \in Nat /\ v[d] <= w[d]
    BY <1>1, <1>2, <2>4
  <2> QED BY <1>3, <2>2, <2>4, <2>5, <2>6
<1>5. f[Len(v)] <= g[Len(v)]
  <2>1. Len(v) \in 0 .. Len(v) /\ Len(v) \notin D
    BY <1>3, <1>4
  <2> QED BY <2>1
<1> QED BY <1>1, <1>2, <1>5

-----------------------------------------------------------------------------
(* What the sessions have earned by the rows of p among the first n.            *)
LinksSeenIn(lines, p, n, t) ==
  [s \in Links!Session |-> IF \E i \in 1 .. n : lines[i].pair = p /\ lines[i].of = s THEN t[s] ELSE 0]

(* A pair counts for what its rows say, each session's once.                    *)
LEMMA LinksScoreBounded ==
  ASSUME NEW p \in LinksPair, NEW lines \in Seq(Links!Line), Links!Once(lines), NEW t \in [Links!Session -> Nat],
         \A i \in DOMAIN lines : lines[i].pair = p => lines[i].of \in Links!Session /\ lines[i].score = t[lines[i].of]
  PROVE  Links!Score(p, lines) \in Nat /\ Links!Total(t) \in Nat /\ Links!Score(p, lines) <= Links!Total(t)
<1> DEFINE v == [i \in DOMAIN lines |-> IF lines[i].pair = p THEN lines[i].score ELSE 0]
           c(n) == LinksSeenIn(lines, p, n, t)
<1>1. LinksSessions \in Nat /\ Links!Session = 1 .. LinksSessions /\ {} # p
  BY LinksAssumption DEF Links!Session
<1>2. Len(lines) \in Nat /\ DOMAIN lines = 1 .. Len(lines) /\ \A i \in 1 .. Len(lines) : lines[i] \in Links!Line
  OBVIOUS
<1>3. v \in Seq(Nat) /\ Len(v) = Len(lines)
  <2>1. \A i \in 1 .. Len(lines) : lines[i].score \in Nat
    BY <1>2 DEF Links!Line
  <2>2. v \in [1 .. Len(lines) -> Nat]
    BY <1>2, <2>1
  <2> QED BY <1>2, <2>2
<1>4. ASSUME NEW n PROVE c(n) \in Seq(Nat) /\ Len(c(n)) = LinksSessions /\ c(n) \in [Links!Session -> Nat]
  <2>1. c(n) \in [Links!Session -> Nat]
    BY DEF LinksSeenIn
  <2> QED BY <1>1, <2>1
<1>5. t \in Seq(Nat) /\ Len(t) = LinksSessions
  BY <1>1
<1>6. Links!Score(p, lines) = Links!Total(v)
  BY DEF Links!Score
<1>7. \A i \in 1 .. Len(lines) : v[i] = IF lines[i].pair = p THEN lines[i].score ELSE 0
  BY <1>2
<1> HIDE DEF v
<1>8. PICK f : /\ f \in [0 .. Len(v) -> Nat] /\ f[0] = 0 /\ Links!Total(v) = f[Len(v)] /\ Links!Total(v) \in Nat
               /\ \A n \in 1 .. Len(v) : f[n] = f[n - 1] + v[n]
  BY <1>3, LinksTotalIs
<1> DEFINE D == {n \in 0 .. Len(lines) : ~(f[n] <= Links!Total(c(n)))}
<1>9. D \in SUBSET Nat
  BY <1>2
<1>10. \A n \in 0 .. Len(lines) : Links!Total(c(n)) \in Nat
  <2> HIDE DEF c
  <2> QED BY <1>4, LinksTotalIs
<1>11. D = {}
  <2> SUFFICES ASSUME D # {} PROVE FALSE
    OBVIOUS
  <2>1. PICK d \in D : \A e \in D : d <= e
    <3> HIDE DEF D
    <3> QED BY <1>9, HasLowest
  <2>2. d \in 0 .. Len(lines) /\ ~(f[d] <= Links!Total(c(d)))
    BY <2>1
  <2>3. d # 0
    <3>1. 0 \in 0 .. Len(lines) /\ \A x \in Nat : 0 <= x
      BY <1>2
    <3> HIDE DEF c
    <3> QED BY <1>8, <1>10, <2>2, <3>1
  <2> DEFINE n == d - 1
  <2>4. n \in 0 .. Len(lines) /\ ~(d <= n) /\ d \in 1 .. Len(lines) /\ d = n + 1 /\ n \in Nat
    BY <1>2, <2>2, <2>3
  <2>5. f[n] <= Links!Total(c(n))
    BY <2>1, <2>4
  <2>6. f[d] = f[n] + v[d] /\ f[n] \in Nat
    BY <1>3, <1>8, <2>4
  <2> HIDE DEF n
  <2>7. \A i : i \in 1 .. d <=> i \in 1 .. n \/ i = d
    BY <2>4
  <2>8. CASE lines[d].pair # p
    <3>1. c(d) = c(n)
      BY <2>7, <2>8 DEF LinksSeenIn
    <3> HIDE DEF c
    <3>2. Links!Total(c(n)) \in Nat /\ v[d] = 0
      BY <1>7, <1>10, <2>4, <2>8
    <3> QED BY <2>2, <2>5, <2>6, <3>1, <3>2
  <2>9. CASE lines[d].pair = p
    <3> DEFINE s == lines[d].of
    <3>1. s \in Links!Session /\ v[d] = t[s] /\ t[s] \in Nat
      BY <1>2, <1>7, <2>4, <2>9
    <3>2. ~ \E i \in 1 .. n : lines[i].pair = p /\ lines[i].of = s
      <4> SUFFICES ASSUME NEW i \in 1 .. n, lines[i].pair = p, lines[i].of = s PROVE FALSE
        OBVIOUS
      <4>1. i \in DOMAIN lines /\ d \in DOMAIN lines /\ i # d
        BY <1>2, <2>4
      <4>2. Links!Parsed(lines[i])
        BY <1>1 DEF Links!Parsed
      <4> QED BY <2>9, <4>1, <4>2 DEF Links!Once
    <3>3. c(n)[s] = 0 /\ c(d)[s] = t[s]
      BY <2>7, <2>9, <3>1, <3>2 DEF LinksSeenIn
    <3>4. \A i \in Links!Session : i # s => c(d)[i] = c(n)[i]
      BY <2>7 DEF LinksSeenIn
    <3>5. c(n) \in Seq(Nat) /\ Len(c(n)) = LinksSessions /\ c(d) \in Seq(Nat) /\ Len(c(d)) = LinksSessions
      BY <1>4
    <3> HIDE DEF c, s
    <3>6. Links!Total(c(d)) = Links!Total(c(n)) + t[s]
      <4> DEFINE a == c(n)
                 b == c(d)
                 x == t[s]
      <4>1. /\ a \in Seq(Nat) /\ b \in Seq(Nat) /\ Len(b) = Len(a) /\ s \in 1 .. Len(a) /\ x \in Nat
            /\ b[s] = a[s] + x /\ \A i \in 1 .. Len(a) : i # s => b[i] = a[i]
        BY <1>1, <3>1, <3>3, <3>4, <3>5
      <4> HIDE DEF a, b, x
      <4>2. Links!Total(b) = Links!Total(a) + x
        BY <4>1, LinksTotalOneMore
      <4> QED BY <4>2 DEF a, b, x
    <3>7. Links!Total(c(n)) \in Nat
      BY <1>10, <2>4
    <3> QED BY <2>2, <2>5, <2>6, <3>1, <3>6, <3>7
  <2> QED BY <2>8, <2>9
<1>12. f[Len(lines)] <= Links!Total(c(Len(lines)))
  BY <1>2, <1>11
<1>13. Links!Total(c(Len(lines))) <= Links!Total(t)
  <2> DEFINE a == c(Len(lines))
  <2>1. \A s \in Links!Session : a[s] <= t[s]
    BY DEF LinksSeenIn
  <2>2. a \in Seq(Nat) /\ Len(a) = LinksSessions
    BY <1>4
  <2> HIDE DEF a
  <2>3. Links!Total(a) <= Links!Total(t)
    BY <1>1, <1>5, <2>1, <2>2, LinksTotalMonotone
  <2> QED BY <2>3 DEF a
<1>14. Links!Total(t) \in Nat /\ Links!Total(c(Len(lines))) \in Nat
  <2>1. Len(lines) \in 0 .. Len(lines)
    BY <1>2
  <2> HIDE DEF c
  <2> QED BY <1>5, <1>10, <2>1, LinksTotalIs
<1>15. f[Len(lines)] = Links!Total(v)
  BY <1>3, <1>8
<1> HIDE DEF c
<1> QED BY <1>6, <1>8, <1>12, <1>13, <1>14, <1>15
-----------------------------------------------------------------------------
(* A finite set as a sequence.                                                  *)
LEMMA LinksInOrderIs ==
  ASSUME NEW S, IsFiniteSet(S)
  PROVE  Links!InOrder(S) \in Seq(S) /\ \A i, j \in DOMAIN Links!InOrder(S) : Links!InOrder(S)[i] = Links!InOrder(S)[j] => i = j
<1> DEFINE n == Cardinality(S)
<1>1. n \in Nat /\ ExistsBijection(1 .. n, S)
  BY FS_CardinalityType
<1>2. \E f \in [1 .. n -> S] : \A a, b \in 1 .. n : f[a] = f[b] => a = b
  BY <1>1 DEF ExistsBijection, Bijection, Injection, IsInjective
<1> QED BY <1>1, <1>2 DEF Links!InOrder

(* The rows a session may append: its own, of pairs of the directory.           *)
LEMMA LinksEdgesAre ==
  ASSUME Links!TypeOK, NEW s \in Links!Session, NEW d \in Links!Directory, NEW e \in Links!Edges(s, d)
  PROVE  e \in Links!Line /\ e.of = s /\ e.pair \in LinksPair /\ LinksHome[e.pair] = d /\ e.name = LinksName[s] /\ e.score = Links_together[s][e.pair]
<1>1. PICK p \in LinksPair : LinksHome[p] = d /\ e = Links!Row(s, p)
  BY DEF Links!Edges, Links!InNamespace
<1>2. Links_together[s][p] \in Nat /\ LinksName[s] \in Nat
  BY LinksAssumption DEF Links!TypeOK
<1> QED BY <1>1, <1>2 DEF Links!Row, Links!Line

LEMMA LinksEdgesFinite == ASSUME NEW s, NEW d, NEW lines PROVE IsFiniteSet(Links!New(Links!Edges(s, d), lines))
<1> DEFINE E == Links!New(Links!Edges(s, d), lines)
           f == [e \in E |-> e.pair]
<1>1. \A e \in E : \E p \in LinksPair : e = Links!Row(s, p)
  BY DEF Links!New, Links!Edges, Links!InNamespace
<1>2. \A e \in E : e.pair \in LinksPair /\ e = Links!Row(s, e.pair)
  <2> HIDE DEF E
  <2> QED BY <1>1 DEF Links!Row
<1> HIDE DEF E
<1>3. f \in [E -> LinksPair] /\ \A a, b \in E : f[a] = f[b] => a = b
  BY <1>2
<1>4. f \in Injection(E, LinksPair)
  BY <1>3 DEF Injection, IsInjective
<1> HIDE DEF f
<1>5. IsFiniteSet(E)
  BY <1>4, FS_Injection, LinksAssumption
<1> QED BY <1>5 DEF E

(* What a bridge reads to append: no row that the file has.                     *)
LEMMA LinksNewIs ==
  ASSUME Links!TypeOK, NEW s \in Links!Session, NEW d \in Links!Directory, Links_pc[s] # "live", NEW lines \in Seq(Links!Line),
         \A i \in DOMAIN lines : Links!Parsed(lines[i]) => Links!Earns(lines[i], d, Links_together, Links_pc)
  PROVE  LET new == Links!InOrder(Links!New(Links!Edges(s, d), lines))
         IN /\ new \in Seq(Links!Line) /\ Links!Once(new) /\ Links!Apart(lines, new)
            /\ \A i \in DOMAIN new : new[i].of = s /\ Links!Earns(new[i], d, Links_together, Links_pc)
<1> DEFINE E == Links!New(Links!Edges(s, d), lines)
           new == Links!InOrder(E)
<1>1. \A e \in E : /\ e \in Links!Line /\ e.of = s /\ e.pair \in LinksPair /\ LinksHome[e.pair] = d /\ e.name = LinksName[s] /\ e.score = Links_together[s][e.pair]
                   /\ e \in Links!Edges(s, d)
                   /\ \A i \in DOMAIN lines : lines[i].pair # e.pair \/ lines[i].name # e.name
  BY LinksEdgesAre DEF Links!New
<1>2. new \in Seq(E) /\ \A i, j \in DOMAIN new : new[i] = new[j] => i = j
  BY LinksEdgesFinite, LinksInOrderIs
<1>3. \A a, b \in E : a.pair = b.pair => a = b
  <2> SUFFICES ASSUME NEW a \in E, NEW b \in E, a.pair = b.pair PROVE a = b
    OBVIOUS
  <2>1. (\E p \in LinksPair : a = Links!Row(s, p)) /\ (\E p \in LinksPair : b = Links!Row(s, p))
    BY <1>1 DEF Links!Edges, Links!InNamespace
  <2> QED BY <2>1 DEF Links!Row
<1> HIDE DEF E, new
<1>4. \A i \in DOMAIN new : new[i] \in E
  BY <1>2
<1>5. new \in Seq(Links!Line)
  <2>1. DOMAIN new = 1 .. Len(new) /\ Len(new) \in Nat /\ new = [i \in 1 .. Len(new) |-> new[i]]
    BY <1>2
  <2>2. new \in [1 .. Len(new) -> Links!Line]
    BY <1>1, <1>4, <2>1
  <2> QED BY <2>1, <2>2
<1>6. Links!Once(new)
  BY <1>2, <1>3, <1>4 DEF Links!Once
<1>7. \A i \in DOMAIN new : new[i].of = s /\ Links!Earns(new[i], d, Links_together, Links_pc)
  BY <1>1, <1>4 DEF Links!Earns
<1>8. Links!Apart(lines, new)
  <2> SUFFICES ASSUME NEW i \in DOMAIN lines, NEW j \in DOMAIN new, Links!Parsed(lines[i]), lines[i].pair = new[j].pair, lines[i].of = new[j].of
               PROVE FALSE
    BY DEF Links!Apart
  <2>1. lines[i].name = LinksName[s] /\ new[j].name = LinksName[s]
    BY <1>1, <1>4 DEF Links!Earns
  <2> QED BY <1>1, <1>4, <2>1
<1> QED BY <1>5, <1>6, <1>7, <1>8 DEF E, new

-----------------------------------------------------------------------------
(* o is what an audit keeps of the first n lines.                               *)
LinksKeptOf(lines, n, o) ==
  /\ o \in Seq(Links!Line) /\ (Links!Once(lines) => Links!Once(o))
  /\ \A k \in DOMAIN o : Links!Parsed(o[k]) /\ \E i \in 1 .. n : lines[i] = o[k]

LEMMA LinksKeptOneMore ==
  ASSUME NEW lines \in Seq(Links!Line), NEW n \in Nat, n + 1 \in 1 .. Len(lines), NEW o, LinksKeptOf(lines, n, o)
  PROVE  LinksKeptOf(lines, n + 1, IF Links!Parsed(lines[n + 1]) /\ ~Links!Old(lines[n + 1]) THEN Append(o, lines[n + 1]) ELSE o)
<1> DEFINE x == lines[n + 1]
<1>1. /\ o \in Seq(Links!Line) /\ x \in Links!Line /\ Len(o) \in Nat /\ DOMAIN o = 1 .. Len(o) /\ DOMAIN lines = 1 .. Len(lines)
      /\ n + 1 \in 1 .. n + 1 /\ n + 1 \in DOMAIN lines
      /\ \A i \in 1 .. n : i \in 1 .. n + 1 /\ i # n + 1 /\ i \in DOMAIN lines
  BY DEF LinksKeptOf
<1>2. CASE ~(Links!Parsed(x) /\ ~Links!Old(x))
  <2>1. LinksKeptOf(lines, n + 1, o)
    BY <1>1 DEF LinksKeptOf
  <2> QED BY <1>2, <2>1
<1>3. CASE Links!Parsed(x) /\ ~Links!Old(x)
  <2> DEFINE p == Append(o, x)
  <2> HIDE DEF x
  <2>1. p \in Seq(Links!Line) /\ DOMAIN p = 1 .. Len(o) + 1 /\ p[Len(o) + 1] = x /\ \A k \in 1 .. Len(o) : p[k] = o[k]
    BY <1>1
  <2> HIDE DEF p
  <2>2. \A k \in DOMAIN p : k \in DOMAIN o \/ k = Len(o) + 1
    BY <1>1, <2>1
  <2>3. \A k \in DOMAIN p : Links!Parsed(p[k]) /\ \E i \in 1 .. n + 1 : lines[i] = p[k]
    <3> SUFFICES ASSUME NEW k \in DOMAIN p PROVE Links!Parsed(p[k]) /\ \E i \in 1 .. n + 1 : lines[i] = p[k]
      OBVIOUS
    <3>1. CASE k \in DOMAIN o
      <4>1. p[k] = o[k] /\ Links!Parsed(o[k])
        BY <1>1, <2>1, <3>1 DEF LinksKeptOf
      <4>2. PICK i \in 1 .. n : lines[i] = o[k]
        BY <3>1 DEF LinksKeptOf
      <4> QED BY <1>1, <4>1, <4>2
    <3>2. CASE k = Len(o) + 1
      BY <1>1, <1>3, <2>1, <3>2 DEF x
    <3> QED BY <2>2, <3>1, <3>2
  <2>4. ASSUME Links!Once(lines) PROVE Links!Once(p)
    <3>1. Links!Once(o)
      BY <2>4 DEF LinksKeptOf
    <3>2. ASSUME NEW k \in DOMAIN o PROVE ~(o[k].pair = x.pair /\ o[k].of = x.of)
      <4>1. PICK i \in 1 .. n : lines[i] = o[k]
        BY <3>2 DEF LinksKeptOf
      <4>2. i \in DOMAIN lines /\ i # n + 1 /\ Links!Parsed(lines[i])
        BY <1>1, <3>2, <4>1 DEF LinksKeptOf
      <4> QED BY <1>1, <2>4, <4>1, <4>2 DEF Links!Once, x
    <3> SUFFICES ASSUME NEW k \in DOMAIN p, NEW l \in DOMAIN p, Links!Parsed(p[k]), p[k].pair = p[l].pair, p[k].of = p[l].of PROVE k = l
      BY DEF Links!Once
    <3>3. CASE k \in DOMAIN o /\ l \in DOMAIN o
      BY <1>1, <2>1, <3>1, <3>3 DEF Links!Once
    <3>4. CASE k \in DOMAIN o /\ l = Len(o) + 1
      BY <1>1, <2>1, <3>2, <3>4
    <3>5. CASE l \in DOMAIN o /\ k = Len(o) + 1
      BY <1>1, <2>1, <3>2, <3>5
    <3> QED BY <2>2, <3>3, <3>4, <3>5
  <2>5. LinksKeptOf(lines, n + 1, p)
    BY <2>1, <2>3, <2>4 DEF LinksKeptOf
  <2> QED BY <1>3, <2>5 DEF p, x
<1> QED BY <1>2, <1>3

(* f says what is kept of the first n lines.                                    *)
LinksKeptTo(lines, n, f) ==
  /\ f = [k \in 0 .. n |-> IF k = 0 THEN <<>>
                           ELSE IF Links!Parsed(lines[k]) /\ ~Links!Old(lines[k]) THEN Append(f[k - 1], lines[k]) ELSE f[k - 1]]
  /\ \A k \in 0 .. n : LinksKeptOf(lines, k, f[k])

LEMMA LinksKeptStep ==
  ASSUME NEW lines \in Seq(Links!Line), NEW n \in Nat, n + 1 \in 1 .. Len(lines), NEW f, LinksKeptTo(lines, n, f)
  PROVE  \E g : LinksKeptTo(lines, n + 1, g)
<1> DEFINE x == lines[n + 1]
           new == IF Links!Parsed(x) /\ ~Links!Old(x) THEN Append(f[n], x) ELSE f[n]
           g == [k \in 0 .. n + 1 |-> IF k = n + 1 THEN new ELSE f[k]]
<1>1. /\ n \in 0 .. n
      /\ \A k \in 0 .. n : LinksKeptOf(lines, k, f[k])
      /\ \A k \in 0 .. n : f[k] = IF k = 0 THEN <<>>
                           ELSE IF Links!Parsed(lines[k]) /\ ~Links!Old(lines[k]) THEN Append(f[k - 1], lines[k]) ELSE f[k - 1]
  <2>1. n \in 0 .. n
    OBVIOUS
  <2> QED BY <2>1, Zenon DEF LinksKeptTo
<1>2. LinksKeptOf(lines, n + 1, new)
  BY <1>1, LinksKeptOneMore
<1>3. g[n + 1] = new /\ n # n + 1
  OBVIOUS
<1>4. \A k \in 0 .. n : k # n + 1 /\ k \in 0 .. n + 1 /\ g[k] = f[k]
  OBVIOUS
<1>5. \A k \in 0 .. n + 1 : k \in 0 .. n \/ k = n + 1
  OBVIOUS
<1>6. DOMAIN g = 0 .. n + 1 /\ g = [k \in 0 .. n + 1 |-> g[k]]
  OBVIOUS
<1>7. ASSUME NEW k \in 0 .. n + 1
      PROVE g[k] = IF k = 0 THEN <<>> ELSE IF Links!Parsed(lines[k]) /\ ~Links!Old(lines[k]) THEN Append(g[k - 1], lines[k]) ELSE g[k - 1]
  <2> HIDE DEF g
  <2>1. CASE k = n + 1
    <3>1. k # 0 /\ k - 1 = n
      BY <2>1
    <3> QED BY <1>1, <1>3, <1>4, <2>1, <3>1
  <2>2. CASE k \in 0 .. n
    <3>1. k # 0 => k - 1 \in 0 .. n
      BY <2>2
    <3> QED BY <1>1, <1>4, <2>2, <3>1, Zenon
  <2> QED BY <1>5, <2>1, <2>2
<1> HIDE DEF g, new
<1>8. g = [k \in 0 .. n + 1 |-> IF k = 0 THEN <<>>
                           ELSE IF Links!Parsed(lines[k]) /\ ~Links!Old(lines[k]) THEN Append(g[k - 1], lines[k]) ELSE g[k - 1]]
  BY <1>6, <1>7
<1>9. \A k \in 0 .. n + 1 : LinksKeptOf(lines, k, g[k])
  BY <1>1, <1>2, <1>3, <1>4, <1>5
<1> QED BY <1>8, <1>9 DEF LinksKeptTo

LEMMA LinksHasKept == ASSUME NEW lines \in Seq(Links!Line) PROVE \E f : LinksKeptTo(lines, Len(lines), f)
<1> DEFINE D == {n \in 0 .. Len(lines) : ~ \E f : LinksKeptTo(lines, n, f)}
<1>1. Len(lines) \in Nat /\ D \in SUBSET Nat
  OBVIOUS
<1>2. D = {}
  <2> SUFFICES ASSUME D # {} PROVE FALSE
    OBVIOUS
  <2>1. PICK d \in D : \A e \in D : d <= e
    <3> HIDE DEF D
    <3> QED BY <1>1, HasLowest
  <2>2. d \in 0 .. Len(lines) /\ ~ \E f : LinksKeptTo(lines, d, f)
    BY <2>1
  <2>3. CASE d = 0
    <3> DEFINE f == [k \in 0 .. 0 |-> <<>>]
    <3>1. \A k \in 0 .. 0 : k = 0 /\ f[k] = <<>>
      OBVIOUS
    <3>2. LinksKeptOf(lines, 0, <<>>)
      BY DEF LinksKeptOf, Links!Once
    <3>3. f = [k \in 0 .. 0 |-> IF k = 0 THEN <<>>
                  ELSE IF Links!Parsed(lines[k]) /\ ~Links!Old(lines[k]) THEN Append(f[k - 1], lines[k]) ELSE f[k - 1]]
      BY <3>1
    <3>4. LinksKeptTo(lines, 0, f)
      BY <3>1, <3>2, <3>3 DEF LinksKeptTo
    <3> QED BY <2>2, <2>3, <3>4
  <2>4. CASE d # 0
    <3> DEFINE n == d - 1
    <3>1. n \in Nat /\ n \in 0 .. Len(lines) /\ ~(d <= n) /\ n + 1 = d /\ n + 1 \in 1 .. Len(lines)
      BY <1>1, <2>2, <2>4
    <3>2. PICK f : LinksKeptTo(lines, n, f)
      BY <2>1, <3>1
    <3> HIDE DEF n
    <3>3. \E g : LinksKeptTo(lines, n + 1, g)
      BY <3>1, <3>2, LinksKeptStep
    <3> QED BY <2>2, <3>1, <3>3
  <2> QED BY <2>3, <2>4
<1> QED BY <1>1, <1>2

(* A recursive definition is what a function with the same equation is, when     *)
(* there is but one.                                                             *)
LEMMA LinksKeptSame ==
  ASSUME NEW lines \in Seq(Links!Line), NEW f, LinksKeptTo(lines, Len(lines), f), NEW g,
         g = [k \in 0 .. Len(lines) |-> IF k = 0 THEN <<>>
                  ELSE IF Links!Parsed(lines[k]) /\ ~Links!Old(lines[k]) THEN Append(g[k - 1], lines[k]) ELSE g[k - 1]]
  PROVE  g[Len(lines)] = f[Len(lines)]
<1> DEFINE D == {n \in 0 .. Len(lines) : g[n] # f[n]}
<1>1. Len(lines) \in Nat /\ D \in SUBSET Nat
  OBVIOUS
<1>2. /\ \A k \in 0 .. Len(lines) : f[k] = IF k = 0 THEN <<>>
                  ELSE IF Links!Parsed(lines[k]) /\ ~Links!Old(lines[k]) THEN Append(f[k - 1], lines[k]) ELSE f[k - 1]
      /\ \A k \in 0 .. Len(lines) : g[k] = IF k = 0 THEN <<>>
                  ELSE IF Links!Parsed(lines[k]) /\ ~Links!Old(lines[k]) THEN Append(g[k - 1], lines[k]) ELSE g[k - 1]
  BY Zenon DEF LinksKeptTo
<1>3. D = {}
  <2> SUFFICES ASSUME D # {} PROVE FALSE
    OBVIOUS
  <2>1. PICK d \in D : \A e \in D : d <= e
    <3> HIDE DEF D
    <3> QED BY <1>1, HasLowest
  <2>2. d \in 0 .. Len(lines) /\ g[d] # f[d]
    BY <2>1
  <2>3. d # 0
    BY <1>2, <2>2
  <2>4. d - 1 \in 0 .. Len(lines) /\ ~(d <= d - 1)
    BY <1>1, <2>2, <2>3
  <2>5. g[d - 1] = f[d - 1]
    BY <2>1, <2>4
  <2> QED BY <1>2, <2>2, <2>3, <2>5, Zenon
<1>4. Len(lines) \in 0 .. Len(lines) /\ Len(lines) \notin D
  BY <1>1, <1>3
<1> QED BY <1>4

LEMMA LinksIsKept ==
  ASSUME NEW lines, NEW f,
         f = [k \in 0 .. Len(lines) |-> IF k = 0 THEN <<>>
                  ELSE IF Links!Parsed(lines[k]) /\ ~Links!Old(lines[k]) THEN Append(f[k - 1], lines[k]) ELSE f[k - 1]]
  PROVE  \E g : /\ g = [k \in 0 .. Len(lines) |-> IF k = 0 THEN <<>>
                  ELSE IF Links!Parsed(lines[k]) /\ ~Links!Old(lines[k]) THEN Append(g[k - 1], lines[k]) ELSE g[k - 1]]
                /\ Links!Kept(lines) = g[Len(lines)]
BY Zenon DEF Links!Kept

(* An audit keeps rows of the file, each as often as it is there.               *)
LEMMA LinksKeptIs == ASSUME NEW lines \in Seq(Links!Line) PROVE LinksKeptOf(lines, Len(lines), Links!Kept(lines))
<1>1. PICK f : LinksKeptTo(lines, Len(lines), f)
  BY LinksHasKept
<1>2. f = [k \in 0 .. Len(lines) |-> IF k = 0 THEN <<>>
                  ELSE IF Links!Parsed(lines[k]) /\ ~Links!Old(lines[k]) THEN Append(f[k - 1], lines[k]) ELSE f[k - 1]]
  BY <1>1, Zenon DEF LinksKeptTo
<1>3. PICK g : /\ g = [k \in 0 .. Len(lines) |-> IF k = 0 THEN <<>>
                  ELSE IF Links!Parsed(lines[k]) /\ ~Links!Old(lines[k]) THEN Append(g[k - 1], lines[k]) ELSE g[k - 1]]
               /\ Links!Kept(lines) = g[Len(lines)]
  BY <1>2, LinksIsKept
<1>4. g[Len(lines)] = f[Len(lines)]
  BY <1>1, <1>3, LinksKeptSame
<1>5. Len(lines) \in 0 .. Len(lines)
  OBVIOUS
<1> QED BY <1>1, <1>3, <1>4, <1>5 DEF LinksKeptTo
-----------------------------------------------------------------------------
(* What a file holds, of lines it held and lines a bridge adds, k places on.     *)
LinksGrown(g, old, new, k) ==
  /\ \A i \in DOMAIN g : \/ i \in DOMAIN old /\ g[i] = old[i]
                         \/ ~Links!Parsed(g[i])
                         \/ i - k \in DOMAIN new /\ g[i] = new[i - k]
  /\ \A i \in DOMAIN old : Links!Parsed(old[i]) => i \in DOMAIN g /\ g[i] = old[i]

LEMMA LinksLineIs == Links!Cut \in Links!Line /\ Links!Garbage \in Links!Line /\ ~Links!Parsed(Links!Cut) /\ ~Links!Parsed(Links!Garbage)
<1>1. Links!Cut \in Links!Line /\ Links!Cut.pair = {}
  BY DEF Links!Cut, Links!Line
<1>2. Links!Garbage = [pair |-> {}, name |-> 0, score |-> 1, of |-> 0]
  BY DEF Links!Garbage, Links!Cut
<1>3. Links!Garbage \in Links!Line /\ Links!Garbage.pair = {}
  BY <1>2 DEF Links!Line
<1> QED BY <1>1, <1>3 DEF Links!Parsed

LEMMA LinksJoined ==
  ASSUME NEW S, NEW s \in Seq(S), NEW t \in Seq(S)
  PROVE  /\ s \o t \in Seq(S) /\ Len(s \o t) = Len(s) + Len(t)
         /\ \A i \in 1 .. Len(s) : (s \o t)[i] = s[i]
         /\ \A i \in 1 .. Len(t) : (s \o t)[Len(s) + i] = t[i]
OBVIOUS

(* Rows at the end of the file, the first of them lost behind a cut line.       *)
LEMMA LinksAppendedIs ==
  ASSUME NEW old \in Seq(Links!Line), NEW new \in Seq(Links!Line)
  PROVE  Links!Appended(old, new) \in Seq(Links!Line) /\ \E k \in Int : LinksGrown(Links!Appended(old, new), old, new, k)
<1>1. /\ Len(old) \in Nat /\ Len(new) \in Nat /\ DOMAIN old = 1 .. Len(old) /\ DOMAIN new = 1 .. Len(new)
  OBVIOUS
<1>2. CASE Links!EndsCut(old) /\ new # <<>>
  <2> DEFINE f == SubSeq(old, 1, Len(old) - 1)
             a == f \o <<Links!Garbage>>
             b == Tail(new)
             g == a \o b
  <2>1. Len(old) # 0 /\ Len(new) # 0 /\ old[Len(old)] = Links!Cut
    BY <1>2 DEF Links!EndsCut
  <2>2. f \in Seq(Links!Line) /\ Len(f) = Len(old) - 1 /\ \A i \in 1 .. Len(old) - 1 : f[i] = old[i]
    BY <1>1, <2>1
  <2>3. a \in Seq(Links!Line) /\ Len(a) = Len(old) /\ a[Len(old)] = Links!Garbage /\ \A i \in 1 .. Len(old) - 1 : a[i] = old[i]
    <3> HIDE DEF f
    <3>1. f \in Seq(Links!Line) /\ <<Links!Garbage>> \in Seq(Links!Line) /\ Len(<<Links!Garbage>>) = 1 /\ <<Links!Garbage>>[1] = Links!Garbage
      BY <2>2, LinksLineIs
    <3> DEFINE g1 == <<Links!Garbage>>
    <3> HIDE DEF g1
    <3>2. /\ f \o g1 \in Seq(Links!Line) /\ Len(f \o g1) = Len(f) + Len(g1) /\ \A i \in 1 .. Len(f) : (f \o g1)[i] = f[i]
          /\ \A i \in 1 .. Len(g1) : (f \o g1)[Len(f) + i] = g1[i]
      <4>1. f \in Seq(Links!Line) /\ g1 \in Seq(Links!Line)
        BY <3>1 DEF g1
      <4> QED BY <4>1, LinksJoined
    <3>3. Len(g1) = 1 /\ g1[1] = Links!Garbage /\ 1 \in 1 .. Len(g1) /\ a = f \o g1
      BY <3>1 DEF g1
    <3> HIDE DEF a
    <3>4. Len(f) + 1 = Len(old) /\ Len(f) \in Nat
      BY <1>1, <2>1, <2>2
    <3> QED BY <2>2, <3>2, <3>3, <3>4
  <2>4. b \in Seq(Links!Line) /\ Len(b) = Len(new) - 1 /\ \A i \in 1 .. Len(new) - 1 : b[i] = new[i + 1]
    BY <1>1, <2>1
  <2> HIDE DEF a, b
  <2>5. /\ g \in Seq(Links!Line) /\ Len(g) = Len(a) + Len(b) /\ \A i \in 1 .. Len(a) : g[i] = a[i]
        /\ \A i \in 1 .. Len(b) : g[Len(a) + i] = b[i]
    <3>1. a \in Seq(Links!Line) /\ b \in Seq(Links!Line)
      BY <2>3, <2>4
    <3> QED BY <3>1, LinksJoined
  <2>6. g = Links!Appended(old, new)
    BY <1>2 DEF Links!Appended, a, b
  <2> HIDE DEF g
  <2>7. DOMAIN g = 1 .. Len(old) + Len(new) - 1
    BY <1>1, <2>3, <2>4, <2>5
  <2>8. \A i \in 1 .. Len(old) - 1 : i \in DOMAIN old /\ i \in DOMAIN g /\ g[i] = old[i]
    BY <1>1, <2>1, <2>3, <2>5, <2>7
  <2>9. g[Len(old)] = Links!Garbage
    BY <1>1, <2>1, <2>3, <2>5
  <2>10. ASSUME NEW i \in Len(old) + 1 .. Len(old) + Len(new) - 1 PROVE i - (Len(old) - 1) \in DOMAIN new /\ g[i] = new[i - (Len(old) - 1)]
    <3> DEFINE j == i - Len(old)
    <3>1. j \in 1 .. Len(new) - 1 /\ i = Len(old) + j /\ j + 1 = i - (Len(old) - 1) /\ j + 1 \in 1 .. Len(new)
      BY <1>1
    <3> HIDE DEF j
    <3>2. j \in 1 .. Len(b) /\ b[j] = new[j + 1]
      BY <2>4, <3>1
    <3> QED BY <1>1, <2>3, <2>5, <3>1, <3>2
  <2>11. LinksGrown(g, old, new, Len(old) - 1)
    <3>1. \A i \in DOMAIN g : i \in 1 .. Len(old) - 1 \/ i = Len(old) \/ i \in Len(old) + 1 .. Len(old) + Len(new) - 1
      BY <1>1, <2>1, <2>7
    <3>2. \A i \in DOMAIN old : i \in 1 .. Len(old) - 1 \/ i = Len(old)
      BY <1>1
    <3> QED BY <2>1, <2>8, <2>9, <2>10, <3>1, <3>2, LinksLineIs DEF LinksGrown
  <2>12. Len(old) - 1 \in Int
    BY <1>1
  <2> QED BY <2>5, <2>6, <2>11, <2>12
<1>3. CASE ~(Links!EndsCut(old) /\ new # <<>>)
  <2> DEFINE g == old \o new
  <2>1. /\ g \in Seq(Links!Line) /\ Len(g) = Len(old) + Len(new) /\ \A i \in 1 .. Len(old) : g[i] = old[i]
        /\ \A i \in 1 .. Len(new) : g[Len(old) + i] = new[i]
    BY LinksJoined
  <2>2. g = Links!Appended(old, new)
    BY <1>3 DEF Links!Appended
  <2> HIDE DEF g
  <2>3. DOMAIN g = 1 .. Len(old) + Len(new)
    BY <2>1
  <2>4. \A i \in DOMAIN g : i \in DOMAIN old \/ i \in Len(old) + 1 .. Len(old) + Len(new)
    BY <1>1, <2>3
  <2>5. ASSUME NEW i \in Len(old) + 1 .. Len(old) + Len(new) PROVE i - Len(old) \in DOMAIN new /\ g[i] = new[i - Len(old)]
    <3> DEFINE j == i - Len(old)
    <3>1. j \in 1 .. Len(new) /\ i = Len(old) + j
      BY <1>1
    <3> HIDE DEF j
    <3>2. g[i] = new[j] /\ j = i - Len(old)
      BY <1>1, <2>1, <3>1
    <3> QED BY <1>1, <3>1, <3>2
  <2>6. \A i \in DOMAIN old : i \in DOMAIN g /\ g[i] = old[i]
    BY <1>1, <2>1, <2>3
  <2>7. LinksGrown(g, old, new, Len(old))
    BY <2>4, <2>5, <2>6 DEF LinksGrown
  <2>8. Len(old) \in Int
    BY <1>1
  <2> QED BY <2>1, <2>2, <2>7, <2>8
<1> QED BY <1>2, <1>3

(* A write that ends within a line.                                             *)
LEMMA LinksCutAfterIs ==
  ASSUME NEW old \in Seq(Links!Line), NEW new \in Seq(Links!Line), NEW g \in Seq(Links!Line), NEW k \in Int, LinksGrown(g, old, new, k)
  PROVE  Links!CutAfter(g) \in Seq(Links!Line) /\ LinksGrown(Links!CutAfter(g), old, new, k)
<1>1. CASE Links!EndsCut(g)
  BY <1>1 DEF Links!CutAfter
<1>2. CASE ~Links!EndsCut(g)
  <2> DEFINE h == Append(g, Links!Cut)
  <2>1. /\ h \in Seq(Links!Line) /\ DOMAIN h = 1 .. Len(g) + 1 /\ h[Len(g) + 1] = Links!Cut /\ \A i \in 1 .. Len(g) : h[i] = g[i]
        /\ Len(g) \in Nat /\ DOMAIN g = 1 .. Len(g)
    BY LinksLineIs
  <2>2. Links!CutAfter(g) = h
    BY <1>2 DEF Links!CutAfter
  <2> HIDE DEF h
  <2>3. \A i \in DOMAIN h : i \in DOMAIN g \/ i = Len(g) + 1
    BY <2>1
  <2>4. \A i \in DOMAIN g : i \in DOMAIN h /\ h[i] = g[i]
    BY <2>1
  <2>5. LinksGrown(h, old, new, k)
    <3>1. \A i \in DOMAIN h : \/ i \in DOMAIN old /\ h[i] = old[i]
                              \/ ~Links!Parsed(h[i])
                              \/ i - k \in DOMAIN new /\ h[i] = new[i - k]
      BY <2>1, <2>3, <2>4, LinksLineIs DEF LinksGrown
    <3> QED BY <2>4, <3>1 DEF LinksGrown
  <2> QED BY <2>1, <2>2, <2>5
<1> QED BY <1>1, <1>2

(* The front of the rows is enough.                                             *)
LEMMA LinksGrownByFront ==
  ASSUME NEW old, NEW new \in Seq(Links!Line), NEW n \in 0 .. Len(new) - 1, NEW g, NEW k, LinksGrown(g, old, SubSeq(new, 1, n), k)
  PROVE  LinksGrown(g, old, new, k)
<1> DEFINE sub == SubSeq(new, 1, n)
<1>1. DOMAIN sub = 1 .. n /\ \A i \in 1 .. n : i \in DOMAIN new /\ sub[i] = new[i]
  OBVIOUS
<1>2. LinksGrown(g, old, sub, k)
  OBVIOUS
<1> HIDE DEF sub
<1> QED BY <1>1, <1>2 DEF LinksGrown

(* A file with rows added that it had not.                                      *)
LEMMA LinksGrownStands ==
  ASSUME NEW old, NEW new, NEW g, NEW k \in Int, LinksGrown(g, old, new, k), DOMAIN g \subseteq Int,
         Links!Once(old), Links!Once(new), Links!Apart(old, new), DOMAIN new \subseteq Int
  PROVE  Links!Once(g)
<1> SUFFICES ASSUME NEW i \in DOMAIN g, NEW j \in DOMAIN g, Links!Parsed(g[i]), g[i].pair = g[j].pair, g[i].of = g[j].of PROVE i = j
  BY DEF Links!Once
<1>1. Links!Parsed(g[j])
  BY DEF Links!Parsed
<1>2. CASE i \in DOMAIN old /\ g[i] = old[i] /\ j \in DOMAIN old /\ g[j] = old[j]
  BY <1>2 DEF Links!Once
<1>3. CASE i \in DOMAIN old /\ g[i] = old[i] /\ j - k \in DOMAIN new /\ g[j] = new[j - k]
  BY <1>3 DEF Links!Apart
<1>4. CASE j \in DOMAIN old /\ g[j] = old[j] /\ i - k \in DOMAIN new /\ g[i] = new[i - k]
  BY <1>1, <1>4 DEF Links!Apart
<1>5. CASE i - k \in DOMAIN new /\ g[i] = new[i - k] /\ j - k \in DOMAIN new /\ g[j] = new[j - k]
  <2>1. i - k = j - k
    BY <1>5 DEF Links!Once
  <2>2. i \in Int /\ j \in Int
    OBVIOUS
  <2> QED BY <2>1, <2>2
<1> QED BY <1>1, <1>2, <1>3, <1>4, <1>5 DEF LinksGrown
-----------------------------------------------------------------------------
(* What a row was earned by stays so: a session recalls nothing once its bridge   *)
(* has begun.                                                                     *)
LinksOnward == \A t \in Links!Session : Links_pc[t] # "live" => Links_pc'[t] # "live" /\ Links_together'[t] = Links_together[t]

LEMMA LinksEarnsStays == ASSUME LinksOnward, NEW r, NEW d, Links!Earns(r, d, Links_together, Links_pc) PROVE Links!Earns(r, d, Links_together', Links_pc')
BY DEF LinksOnward, Links!Earns

LEMMA LinksLinesStay == ASSUME LinksOnward, Links!LinesStand, UNCHANGED Links_links PROVE Links!LinesStand'
<1> SUFFICES ASSUME NEW d \in Links!Directory PROVE Links!Once(Links_links'[d]) /\ \A i \in DOMAIN Links_links'[d] : Links!Parsed(Links_links'[d][i]) => Links!Earns(Links_links'[d][i], d, Links_together', Links_pc')
  BY DEF Links!LinesStand
<1>1. Links!Once(Links_links[d]) /\ \A i \in DOMAIN Links_links[d] : Links!Parsed(Links_links[d][i]) => Links!Earns(Links_links[d][i], d, Links_together, Links_pc)
  BY DEF Links!LinesStand
<1>2. \A i \in DOMAIN Links_links[d] : Links!Parsed(Links_links[d][i]) => Links!Earns(Links_links[d][i], d, Links_together', Links_pc')
  BY <1>1, LinksEarnsStays
<1> QED BY <1>1, <1>2

(* The rows of one session that is about to append.                             *)
LinksFreshOf(s) ==
  /\ Links_fresh[s] # <<>> /\ Links!Once(Links_fresh[s]) /\ Links!Apart(Links_links[Links!Target(s)], Links_fresh[s])
  /\ \A i \in DOMAIN Links_fresh[s] : Links_fresh[s][i].of = s /\ Links!Earns(Links_fresh[s][i], Links!Target(s), Links_together, Links_pc)

LEMMA LinksFreshIs ==
  ASSUME Links!FreshStand, Links!TypeOK, NEW s \in Links!Session, Links_pc[s] = "append"
  PROVE  LinksFreshOf(s) /\ Links!Target(s) \in Links!Directory
<1>1. LinksFreshOf(s)
  BY DEF Links!FreshStand, LinksFreshOf
<1>2. 1 \in DOMAIN Links_fresh[s]
  BY <1>1 DEF Links!TypeOK, LinksFreshOf
<1> QED BY <1>1, <1>2 DEF LinksFreshOf, Links!Earns, Links!Target, Links!Directory

LEMMA LinksFreshOfStays ==
  ASSUME LinksOnward, NEW s \in Links!Session, LinksFreshOf(s), Links_fresh'[s] = Links_fresh[s],
         Links!Apart(Links_links'[Links!Target(s)], Links_fresh[s])
  PROVE  LinksFreshOf(s)'
<1>1. Links!Target(s)' = Links!Target(s)
  BY DEF Links!Target
<1>2. \A i \in DOMAIN Links_fresh[s] : Links_fresh[s][i].of = s /\ Links!Earns(Links_fresh[s][i], Links!Target(s), Links_together', Links_pc')
  BY <1>1, LinksEarnsStays DEF LinksFreshOf
<1> QED BY <1>1, <1>2 DEF LinksFreshOf

LEMMA LinksFreshStay ==
  ASSUME LinksOnward, Links!TypeOK, Links!FreshStand, UNCHANGED <<Links_links, Links_fresh>>, \A t \in Links!Session : Links_pc'[t] = "append" => Links_pc[t] = "append"
  PROVE  Links!FreshStand'
<1> SUFFICES ASSUME NEW t \in Links!Session, Links_pc'[t] = "append" PROVE LinksFreshOf(t)'
  BY DEF Links!FreshStand, LinksFreshOf
<1>1. Links_pc[t] = "append" /\ LinksFreshOf(t)
  BY LinksFreshIs
<1> QED BY <1>1, LinksFreshOfStays DEF LinksFreshOf

(* The writes of a bridge.                                                      *)
LEMMA LinksFilesGrow ==
  ASSUME Links!TypeOK, Links!LinesStand, Links!FreshStand, Links!AuditStands, NEW s \in Links!Session, Links_pc[s] = "append",
         NEW g \in Seq(Links!Line), NEW k \in Int, LinksGrown(g, Links_links[Links!Target(s)], Links_fresh[s], k),
         Links_links' = [Links_links EXCEPT ![Links!Target(s)] = g], Links_fresh' = [Links_fresh EXCEPT ![s] = <<>>],
         NEW x \in {"read", "killed"}, Links_pc' = [Links_pc EXCEPT ![s] = x], UNCHANGED <<Links_together, Links_audit>>
  PROVE  Links!LinesStand' /\ Links!FreshStand' /\ Links!AuditStands' /\ Links_links' \in [Links!Directory -> Seq(Links!Line)]
<1> DEFINE at == Links!Target(s)
<1>1. /\ Links_links \in [Links!Directory -> Seq(Links!Line)] /\ Links_fresh \in [Links!Session -> Seq(Links!Line)] /\ at \in Links!Directory /\ LinksFreshOf(s)
      /\ Links_pc \in [Links!Session -> {"live", "read", "append", "done", "killed"}]
  BY LinksFreshIs DEF Links!TypeOK
<1>2. Links_links' \in [Links!Directory -> Seq(Links!Line)] /\ Links_links'[at] = g /\ \A d \in Links!Directory : d # at => Links_links'[d] = Links_links[d]
  BY <1>1
<1>3. /\ Links_pc'[s] = x /\ x # "append" /\ x # "live" /\ \A t \in Links!Session : t # s => Links_pc'[t] = Links_pc[t] /\ Links_fresh'[t] = Links_fresh[t]
  BY <1>1
<1>4. LinksOnward
  BY <1>3 DEF LinksOnward
<1>5. \A i \in DOMAIN Links_fresh[s] : Links_fresh[s][i].of = s /\ Links!Earns(Links_fresh[s][i], at, Links_together', Links_pc') /\ Links!Parsed(Links_fresh[s][i])
  <2>1. \A i \in DOMAIN Links_fresh[s] : Links_fresh[s][i].of = s /\ Links!Earns(Links_fresh[s][i], at, Links_together, Links_pc)
    BY <1>1 DEF LinksFreshOf
  <2>2. \A r : Links!Earns(r, at, Links_together, Links_pc) => Links!Parsed(r)
    BY LinksAssumption DEF Links!Earns, Links!Parsed
  <2> QED BY <1>4, <2>1, <2>2, LinksEarnsStays
<1>6. DOMAIN g \subseteq Int /\ DOMAIN Links_fresh[s] \subseteq Int
  BY <1>1
<1>7. Links!Once(g)
  <2>1. Links!Once(Links_links[at]) /\ Links!Once(Links_fresh[s]) /\ Links!Apart(Links_links[at], Links_fresh[s])
    BY <1>1 DEF Links!LinesStand, LinksFreshOf
  <2> QED BY <1>6, <2>1, LinksGrownStands
<1> HIDE DEF at
<1>8. LinksGrown(g, Links_links[at], Links_fresh[s], k)
  BY DEF at
<1>9. Links!LinesStand'
  <2> SUFFICES ASSUME NEW d \in Links!Directory
               PROVE  Links!Once(Links_links'[d]) /\ \A i \in DOMAIN Links_links'[d] : Links!Parsed(Links_links'[d][i]) => Links!Earns(Links_links'[d][i], d, Links_together', Links_pc')
    BY DEF Links!LinesStand
  <2>1. Links!Once(Links_links[d]) /\ \A i \in DOMAIN Links_links[d] : Links!Parsed(Links_links[d][i]) => Links!Earns(Links_links[d][i], d, Links_together', Links_pc')
    BY <1>4, LinksEarnsStays DEF Links!LinesStand
  <2>2. CASE d # at
    BY <1>2, <2>1, <2>2
  <2>3. CASE d = at
    <3>1. \A i \in DOMAIN g : Links!Parsed(g[i]) => Links!Earns(g[i], d, Links_together', Links_pc')
      BY <1>5, <1>8, <2>1, <2>3 DEF LinksGrown
    <3> QED BY <1>2, <1>7, <2>3, <3>1
  <2> QED BY <2>2, <2>3
<1>10. Links!FreshStand'
  <2> SUFFICES ASSUME NEW t \in Links!Session, Links_pc'[t] = "append" PROVE LinksFreshOf(t)'
    BY DEF Links!FreshStand, LinksFreshOf
  <2>1. t # s /\ Links_pc[t] = "append" /\ Links_fresh'[t] = Links_fresh[t]
    BY <1>3
  <2>2. LinksFreshOf(t) /\ Links!Target(t) \in Links!Directory
    BY <2>1, LinksFreshIs
  <2>3. Links!Apart(Links_links'[Links!Target(t)], Links_fresh[t])
    <3>1. CASE Links!Target(t) # at
      BY <1>2, <2>2, <3>1 DEF LinksFreshOf
    <3>2. CASE Links!Target(t) = at
      <4> SUFFICES ASSUME NEW i \in DOMAIN g, NEW j \in DOMAIN Links_fresh[t], Links!Parsed(g[i]), g[i].pair = Links_fresh[t][j].pair, g[i].of = Links_fresh[t][j].of
                   PROVE FALSE
        BY <1>2, <3>2 DEF Links!Apart
      <4>1. Links_fresh[t][j].of = t /\ Links!Apart(Links_links[at], Links_fresh[t])
        BY <2>2, <3>2 DEF LinksFreshOf
      <4>2. CASE i \in DOMAIN Links_links[at] /\ g[i] = Links_links[at][i]
        BY <4>1, <4>2 DEF Links!Apart
      <4>3. CASE i - k \in DOMAIN Links_fresh[s] /\ g[i] = Links_fresh[s][i - k]
        BY <1>5, <2>1, <4>1, <4>3
      <4> QED BY <1>8, <4>2, <4>3 DEF LinksGrown
    <3> QED BY <3>1, <3>2
  <2> QED BY <1>4, <2>1, <2>2, <2>3, LinksFreshOfStays
<1>11. Links!AuditStands'
  <2> SUFFICES ASSUME Links_audit.pc = "write"
               PROVE  /\ Links!Once(Links_audit.kept)
                      /\ \A i \in DOMAIN Links_audit.kept : Links!Parsed(Links_audit.kept[i]) /\ \E j \in DOMAIN Links_links'[Links_audit.at] : Links_links'[Links_audit.at][j] = Links_audit.kept[i]
    BY DEF Links!AuditStands
  <2>1. Links_audit.at \in Links!Directory /\ Links!Once(Links_audit.kept)
    BY DEF Links!TypeOK, Links!AuditStands
  <2> SUFFICES ASSUME NEW i \in DOMAIN Links_audit.kept
               PROVE  Links!Parsed(Links_audit.kept[i]) /\ \E j \in DOMAIN Links_links'[Links_audit.at] : Links_links'[Links_audit.at][j] = Links_audit.kept[i]
    BY <2>1
  <2>2. Links!Parsed(Links_audit.kept[i])
    BY DEF Links!AuditStands
  <2>3. PICK j \in DOMAIN Links_links[Links_audit.at] : Links_links[Links_audit.at][j] = Links_audit.kept[i]
    BY DEF Links!AuditStands
  <2>4. CASE Links_audit.at # at
    BY <1>2, <2>1, <2>2, <2>3, <2>4
  <2>5. CASE Links_audit.at = at
    <3>1. j \in DOMAIN g /\ g[j] = Links_audit.kept[i]
      BY <1>8, <2>2, <2>3, <2>5 DEF LinksGrown
    <3> QED BY <1>2, <2>2, <2>5, <3>1
  <2> QED BY <2>4, <2>5
<1> QED BY <1>2, <1>9, <1>10, <1>11
-----------------------------------------------------------------------------
LEMMA LinksInitIInv == Links!Init => Links!IInv
<1> SUFFICES ASSUME Links!Init PROVE Links!IInv
  OBVIOUS
<1>1. Links!TypeOK
  <2>1. Links_audit.pc = "idle" /\ Links_audit.kept = <<>>
    BY DEF Links!Init, Links!NoAudit
  <2>2. <<>> \in Seq(Links!Line)
    OBVIOUS
  <2> QED BY <2>1, <2>2 DEF Links!Init, Links!TypeOK
<1>2. Links!LinesStand
  BY DEF Links!Init, Links!LinesStand, Links!Once
<1>3. Links!FreshStand /\ Links!AuditStands
  BY DEF Links!Init, Links!FreshStand, Links!AuditStands, Links!NoAudit
<1> QED BY <1>1, <1>2, <1>3 DEF Links!IInv

LEMMA LinksRecallStep == ASSUME Links!IInv, NEW s \in Links!Session, Links!Recall(s) PROVE Links!IInv'
<1>1. PICK p \in LinksPair : Links_together' = [Links_together EXCEPT ![s][p] = @ + 1]
  BY DEF Links!Recall
<1>2. Links!TypeOK'
  BY <1>1 DEF Links!IInv, Links!TypeOK, Links!Recall
<1>3. LinksOnward
  BY <1>1 DEF Links!IInv, Links!TypeOK, Links!Recall, LinksOnward
<1>4. Links!LinesStand' /\ Links!FreshStand'
  BY <1>3, LinksLinesStay, LinksFreshStay DEF Links!IInv, Links!Recall
<1>5. Links!AuditStands'
  BY DEF Links!IInv, Links!Recall, Links!AuditStands
<1> QED BY <1>2, <1>4, <1>5 DEF Links!IInv

LEMMA LinksBridgeStep == ASSUME Links!IInv, NEW s \in Links!Session, Links!Bridge(s) PROVE Links!IInv'
<1>1. Links!TypeOK'
  <2>1. {LinksHome[p] : p \in {q \in LinksPair : Links_together[s][q] > 0}} \in SUBSET Links!Directory
    BY DEF Links!Directory
  <2> QED BY <2>1 DEF Links!IInv, Links!TypeOK, Links!Bridge, Links!To
<1>2. LinksOnward /\ \A t \in Links!Session : Links_pc'[t] = "append" => Links_pc[t] = "append"
  BY DEF Links!IInv, Links!TypeOK, Links!Bridge, Links!To, LinksOnward
<1>3. Links!LinesStand' /\ Links!FreshStand'
  BY <1>2, LinksLinesStay, LinksFreshStay DEF Links!IInv, Links!Bridge
<1>4. Links!AuditStands'
  BY DEF Links!IInv, Links!Bridge, Links!AuditStands
<1> QED BY <1>1, <1>3, <1>4 DEF Links!IInv

LEMMA LinksReadLinksStep == ASSUME Links!IInv, NEW s \in Links!Session, Links!ReadLinks(s) PROVE Links!IInv'
<1>1. /\ Links!TypeOK /\ Links!LinesStand /\ Links!FreshStand /\ Links!AuditStands /\ Links_pc[s] = "read"
      /\ UNCHANGED <<Links_today, Links_links, Links_together, Links_audit, Links_audits, Links_again>>
  BY DEF Links!IInv, Links!ReadLinks
<1>2. Links!AuditStands'
  BY <1>1 DEF Links!AuditStands
<1>3. CASE UNCHANGED Links_fresh /\ Links_pc' \in {Links_pc, [Links_pc EXCEPT ![s] = "done"]} /\ Links_todo' \in [Links!Session -> SUBSET Links!Directory]
  <2>1. Links!TypeOK'
    BY <1>1, <1>3 DEF Links!TypeOK
  <2>2. LinksOnward /\ \A t \in Links!Session : Links_pc'[t] = "append" => Links_pc[t] = "append"
    BY <1>1, <1>3 DEF Links!TypeOK, LinksOnward
  <2>3. Links!LinesStand' /\ Links!FreshStand'
    BY <1>1, <1>3, <2>2, LinksLinesStay, LinksFreshStay
  <2> QED BY <1>2, <2>1, <2>3 DEF Links!IInv
<1>4. CASE Links_todo[s] = {}
  BY <1>1, <1>3, <1>4 DEF Links!ReadLinks, Links!To, Links!TypeOK
<1>5. CASE Links_todo[s] # {}
  <2>1. PICK d \in Links_todo[s] :
          LET new == Links!InOrder(Links!New(Links!Edges(s, d), Links_links[d]))
          IN /\ Links_fresh' = [Links_fresh EXCEPT ![s] = new]
             /\ IF new = <<>> THEN Links_todo' = [Links_todo EXCEPT ![s] = @ \ {d}] /\ UNCHANGED Links_pc
                ELSE Links!To(s, "append") /\ UNCHANGED Links_todo
    BY <1>5 DEF Links!ReadLinks
  <2> DEFINE new == Links!InOrder(Links!New(Links!Edges(s, d), Links_links[d]))
  <2>2. d \in Links!Directory
    BY <1>1 DEF Links!TypeOK
  <2>3. Links_links[d] \in Seq(Links!Line) /\ \A i \in DOMAIN Links_links[d] : Links!Parsed(Links_links[d][i]) => Links!Earns(Links_links[d][i], d, Links_together, Links_pc)
    BY <1>1, <2>2 DEF Links!TypeOK, Links!LinesStand
  <2>4. /\ new \in Seq(Links!Line) /\ Links!Once(new) /\ Links!Apart(Links_links[d], new)
        /\ \A i \in DOMAIN new : new[i].of = s /\ Links!Earns(new[i], d, Links_together, Links_pc)
    <3> DEFINE lines == Links_links[d]
    <3>1. lines \in Seq(Links!Line) /\ \A i \in DOMAIN lines : Links!Parsed(lines[i]) => Links!Earns(lines[i], d, Links_together, Links_pc)
      BY <2>3
    <3>2. Links_pc[s] # "live"
      BY <1>1
    <3> HIDE DEF lines
    <3>3. LET n == Links!InOrder(Links!New(Links!Edges(s, d), lines))
          IN /\ n \in Seq(Links!Line) /\ Links!Once(n) /\ Links!Apart(lines, n)
             /\ \A i \in DOMAIN n : n[i].of = s /\ Links!Earns(n[i], d, Links_together, Links_pc)
      BY <1>1, <2>2, <3>1, <3>2, LinksNewIs
    <3> QED BY <3>3 DEF lines
  <2>5. /\ Links_fresh' = [Links_fresh EXCEPT ![s] = new]
        /\ IF new = <<>> THEN Links_todo' = [Links_todo EXCEPT ![s] = @ \ {d}] /\ UNCHANGED Links_pc
           ELSE Links!To(s, "append") /\ UNCHANGED Links_todo
    BY <2>1
  <2> HIDE DEF new
  <2>6. LinksOnward /\ Links_pc' \in [Links!Session -> {"live", "read", "append", "done", "killed"}] /\ \A t \in Links!Session : t # s => Links_pc'[t] = Links_pc[t]
    BY <1>1, <2>5 DEF Links!TypeOK, Links!To, LinksOnward
  <2>7. Links!TypeOK'
    <3>1. Links_fresh' \in [Links!Session -> Seq(Links!Line)] /\ Links_todo' \in [Links!Session -> SUBSET Links!Directory]
      BY <1>1, <2>4, <2>5 DEF Links!TypeOK
    <3> QED BY <1>1, <2>6, <3>1 DEF Links!TypeOK
  <2>8. Links_fresh'[s] = new /\ \A t \in Links!Session : t # s => Links_fresh'[t] = Links_fresh[t]
    BY <1>1, <2>5 DEF Links!TypeOK
  <2>9. Links!LinesStand'
    BY <1>1, <2>6, LinksLinesStay
  <2>10. Links!FreshStand'
    <3> SUFFICES ASSUME NEW t \in Links!Session, Links_pc'[t] = "append" PROVE LinksFreshOf(t)'
      BY DEF Links!FreshStand, LinksFreshOf
    <3>1. CASE t # s
      <4>1. Links_pc[t] = "append" /\ Links_fresh'[t] = Links_fresh[t]
        BY <2>6, <2>8, <3>1
      <4> QED BY <1>1, <2>6, <4>1, LinksFreshIs, LinksFreshOfStays DEF LinksFreshOf
    <3>2. CASE t = s
      <4>1. new # <<>>
        BY <1>1, <2>5, <3>2
      <4>2. 1 \in DOMAIN new
        BY <2>4, <4>1
      <4>3. Links!Target(s)' = d
        BY <2>4, <2>8, <4>2 DEF Links!Target, Links!Earns
      <4>4. \A i \in DOMAIN new : new[i].of = s /\ Links!Earns(new[i], d, Links_together', Links_pc')
        BY <2>4, <2>6, LinksEarnsStays
      <4> QED BY <1>1, <2>4, <2>8, <3>2, <4>1, <4>3, <4>4 DEF LinksFreshOf
    <3> QED BY <3>1, <3>2
  <2> QED BY <1>2, <2>7, <2>9, <2>10 DEF Links!IInv
<1> QED BY <1>4, <1>5

LEMMA LinksAppendLinksStep == ASSUME Links!IInv, NEW s \in Links!Session, Links!AppendLinks(s) PROVE Links!IInv'
<1>1. /\ Links!TypeOK /\ Links!LinesStand /\ Links!FreshStand /\ Links!AuditStands /\ Links_pc[s] = "append" /\ Links_pc' = [Links_pc EXCEPT ![s] = "read"]
      /\ Links_links' = [Links_links EXCEPT ![Links!Target(s)] = Links!Appended(Links_links[Links!Target(s)], Links_fresh[s])]
      /\ Links_todo' = [Links_todo EXCEPT ![s] = @ \ {Links!Target(s)}] /\ Links_fresh' = [Links_fresh EXCEPT ![s] = <<>>]
      /\ UNCHANGED <<Links_today, Links_together, Links_audit, Links_audits, Links_again>>
  BY DEF Links!IInv, Links!AppendLinks, Links!To
<1>2. Links!Target(s) \in Links!Directory
  BY <1>1, LinksFreshIs
<1>3. Links_links[Links!Target(s)] \in Seq(Links!Line) /\ Links_fresh[s] \in Seq(Links!Line)
  BY <1>1, <1>2 DEF Links!TypeOK
<1>4. PICK k \in Int : LinksGrown(Links!Appended(Links_links[Links!Target(s)], Links_fresh[s]), Links_links[Links!Target(s)], Links_fresh[s], k)
  BY <1>3, LinksAppendedIs
<1>5. Links!Appended(Links_links[Links!Target(s)], Links_fresh[s]) \in Seq(Links!Line)
  BY <1>3, LinksAppendedIs
<1>6. Links!LinesStand' /\ Links!FreshStand' /\ Links!AuditStands' /\ Links_links' \in [Links!Directory -> Seq(Links!Line)]
  BY <1>1, <1>4, <1>5, LinksFilesGrow
<1>7. Links!TypeOK'
  <2>1. <<>> \in Seq(Links!Line)
    OBVIOUS
  <2> QED BY <1>1, <1>6, <2>1 DEF Links!TypeOK
<1> QED BY <1>6, <1>7 DEF Links!IInv

LEMMA LinksKillStep == ASSUME Links!IInv, NEW s \in Links!Session, Links!Kill(s) PROVE Links!IInv'
<1>1. /\ Links!TypeOK /\ Links!LinesStand /\ Links!FreshStand /\ Links!AuditStands /\ Links_pc' = [Links_pc EXCEPT ![s] = "killed"] /\ Links_pc[s] \in {"read", "append"}
      /\ Links_todo' = [Links_todo EXCEPT ![s] = {}] /\ Links_fresh' = [Links_fresh EXCEPT ![s] = <<>>]
      /\ UNCHANGED <<Links_today, Links_together, Links_audit, Links_audits>>
  BY DEF Links!IInv, Links!Kill, Links!To
<1>2. Links_links' \in [Links!Directory -> Seq(Links!Line)] => Links!TypeOK'
  <2>1. <<>> \in Seq(Links!Line)
    OBVIOUS
  <2> QED BY <1>1, <2>1 DEF Links!TypeOK
<1>3. CASE UNCHANGED Links_links
  <2>1. /\ Links!TypeOK' /\ LinksOnward /\ \A t \in Links!Session : Links_pc'[t] = "append" => Links_pc[t] = "append" /\ Links_fresh'[t] = Links_fresh[t]
    BY <1>1, <1>2, <1>3 DEF Links!TypeOK, LinksOnward
  <2>2. Links!LinesStand' /\ Links!AuditStands'
    BY <1>1, <1>3, <2>1, LinksLinesStay DEF Links!AuditStands
  <2>3. Links!FreshStand'
    <3> SUFFICES ASSUME NEW t \in Links!Session, Links_pc'[t] = "append" PROVE LinksFreshOf(t)'
      BY DEF Links!FreshStand, LinksFreshOf
    <3>1. Links_pc[t] = "append" /\ Links_fresh'[t] = Links_fresh[t] /\ LinksFreshOf(t)
      BY <1>1, <2>1, LinksFreshIs
    <3> QED BY <1>3, <2>1, <3>1, LinksFreshOfStays DEF LinksFreshOf
  <2> QED BY <2>1, <2>2, <2>3 DEF Links!IInv
<1>4. CASE /\ Links_pc[s] = "append"
           /\ \E n \in 0 .. Len(Links_fresh[s]) - 1 :
                Links_links' = [Links_links EXCEPT ![Links!Target(s)] = Links!CutAfter(Links!Appended(@, SubSeq(Links_fresh[s], 1, n)))]
  <2> DEFINE old == Links_links[Links!Target(s)]
  <2>1. PICK n \in 0 .. Len(Links_fresh[s]) - 1 : Links_links' = [Links_links EXCEPT ![Links!Target(s)] = Links!CutAfter(Links!Appended(old, SubSeq(Links_fresh[s], 1, n)))]
    BY <1>4
  <2>2. Links!Target(s) \in Links!Directory
    BY <1>1, <1>4, LinksFreshIs
  <2>3. old \in Seq(Links!Line) /\ Links_fresh[s] \in Seq(Links!Line)
    BY <1>1, <2>2 DEF Links!TypeOK
  <2> DEFINE new == SubSeq(Links_fresh[s], 1, n)
             g == Links!Appended(old, new)
             h == Links!CutAfter(g)
  <2>4. new \in Seq(Links!Line)
    BY <2>3
  <2>5. Links_links' = [Links_links EXCEPT ![Links!Target(s)] = h]
    BY <2>1
  <2> HIDE DEF old, new
  <2>6. g \in Seq(Links!Line) /\ \E k \in Int : LinksGrown(g, old, new, k)
    BY <2>3, <2>4, LinksAppendedIs
  <2>7. PICK k \in Int : LinksGrown(g, old, new, k)
    BY <2>6
  <2> HIDE DEF g
  <2>8. h \in Seq(Links!Line) /\ LinksGrown(h, old, new, k)
    BY <2>3, <2>4, <2>6, <2>7, LinksCutAfterIs
  <2> HIDE DEF h
  <2>9. LinksGrown(h, Links_links[Links!Target(s)], Links_fresh[s], k)
    BY <2>3, <2>8, LinksGrownByFront DEF new, old
  <2>10. Links!LinesStand' /\ Links!FreshStand' /\ Links!AuditStands' /\ Links_links' \in [Links!Directory -> Seq(Links!Line)]
    BY <1>1, <1>4, <2>5, <2>8, <2>9, LinksFilesGrow
  <2> QED BY <1>2, <2>10 DEF Links!IInv
<1> QED BY <1>3, <1>4 DEF Links!Kill

LEMMA LinksReadAuditStep == ASSUME Links!IInv, Links!ReadAudit PROVE Links!IInv'
<1>1. PICK d \in Links!Directory : Links_audit' = [pc |-> "write", at |-> d, kept |-> Links!Kept(Links_links[d])]
  BY DEF Links!ReadAudit
<1>2. /\ Links!TypeOK /\ Links!LinesStand /\ Links!FreshStand
      /\ UNCHANGED <<Links_today, Links_links, Links_together, Links_pc, Links_todo, Links_fresh, Links_again>>
  BY DEF Links!IInv, Links!ReadAudit
<1>3. Links_links[d] \in Seq(Links!Line) /\ DOMAIN Links_links[d] = 1 .. Len(Links_links[d]) /\ Links!Once(Links_links[d])
  BY <1>2 DEF Links!TypeOK, Links!LinesStand
<1>4. LinksKeptOf(Links_links[d], Len(Links_links[d]), Links!Kept(Links_links[d]))
  BY <1>3, LinksKeptIs
<1>5. Links_audit'.pc = "write" /\ Links_audit'.at = d /\ Links_audit'.kept = Links!Kept(Links_links[d])
  BY <1>1
<1>6. Links!TypeOK'
  <2>1. Links!Kept(Links_links[d]) \in Seq(Links!Line)
    BY <1>4 DEF LinksKeptOf
  <2> QED BY <1>2, <1>5, <2>1 DEF Links!TypeOK
<1>7. Links!LinesStand' /\ Links!FreshStand'
  BY <1>2 DEF Links!LinesStand, Links!FreshStand, Links!Target
<1>8. Links!AuditStands'
  BY <1>2, <1>3, <1>4, <1>5 DEF Links!AuditStands, LinksKeptOf
<1> QED BY <1>6, <1>7, <1>8 DEF Links!IInv

LEMMA LinksWriteAuditStep == ASSUME Links!IInv, Links!WriteAudit PROVE Links!IInv'
<1>1. /\ Links!TypeOK /\ Links!LinesStand /\ Links!FreshStand /\ Links!AuditStands /\ Links_audit.pc = "write" /\ Links_audit' = Links!NoAudit
      /\ UNCHANGED <<Links_today, Links_together, Links_pc, Links_todo, Links_fresh, Links_audits>>
  BY DEF Links!IInv, Links!WriteAudit
<1>2. PICK g \in {<<>>, Links_audit.kept} : Links_links' = [Links_links EXCEPT ![Links_audit.at] = g]
  BY DEF Links!WriteAudit
<1>3. Links_audit.at \in Links!Directory /\ Links_audit.kept \in Seq(Links!Line) /\ Links_links \in [Links!Directory -> Seq(Links!Line)] /\ <<>> \in Seq(Links!Line)
  BY <1>1 DEF Links!TypeOK
<1>4. Links_links' \in [Links!Directory -> Seq(Links!Line)] /\ Links_links'[Links_audit.at] = g /\ \A d \in Links!Directory : d # Links_audit.at => Links_links'[d] = Links_links[d]
  BY <1>2, <1>3
<1>5. Links_audit'.pc = "idle" /\ Links_audit'.kept = <<>>
  BY <1>1 DEF Links!NoAudit
<1>6. Links!TypeOK' /\ Links!AuditStands'
  BY <1>1, <1>3, <1>4, <1>5 DEF Links!TypeOK, Links!AuditStands
<1>7. Links!Once(g) /\ \A i \in DOMAIN g : \E j \in DOMAIN Links_links[Links_audit.at] : Links_links[Links_audit.at][j] = g[i]
  BY <1>1 DEF Links!AuditStands, Links!Once
<1>8. Links!LinesStand'
  <2> SUFFICES ASSUME NEW d \in Links!Directory
               PROVE  Links!Once(Links_links'[d]) /\ \A i \in DOMAIN Links_links'[d] : Links!Parsed(Links_links'[d][i]) => Links!Earns(Links_links'[d][i], d, Links_together, Links_pc)
    BY <1>1 DEF Links!LinesStand
  <2>1. Links!Once(Links_links[d]) /\ \A i \in DOMAIN Links_links[d] : Links!Parsed(Links_links[d][i]) => Links!Earns(Links_links[d][i], d, Links_together, Links_pc)
    BY <1>1 DEF Links!LinesStand
  <2>2. CASE d # Links_audit.at
    BY <1>4, <2>1, <2>2
  <2>3. CASE d = Links_audit.at
    <3>1. \A i \in DOMAIN g : Links!Parsed(g[i]) => Links!Earns(g[i], d, Links_together, Links_pc)
      BY <1>7, <2>1, <2>3
    <3> QED BY <1>4, <1>7, <2>3, <3>1
  <2> QED BY <2>2, <2>3
<1>9. Links!FreshStand'
  <2> SUFFICES ASSUME NEW t \in Links!Session, Links_pc'[t] = "append" PROVE LinksFreshOf(t)'
    BY DEF Links!FreshStand, LinksFreshOf
  <2>1. Links_pc[t] = "append" /\ LinksFreshOf(t) /\ Links!Target(t) \in Links!Directory /\ Links_fresh'[t] = Links_fresh[t]
    BY <1>1, LinksFreshIs
  <2>2. Links!Apart(Links_links'[Links!Target(t)], Links_fresh[t])
    <3>1. Links!Apart(Links_links[Links!Target(t)], Links_fresh[t])
      BY <2>1 DEF LinksFreshOf
    <3>2. CASE Links!Target(t) # Links_audit.at
      BY <1>4, <2>1, <3>1, <3>2
    <3>3. CASE Links!Target(t) = Links_audit.at
      <4>1. Links!Apart(g, Links_fresh[t])
        BY <1>7, <3>1, <3>3 DEF Links!Apart
      <4> QED BY <1>4, <3>3, <4>1
    <3> QED BY <3>2, <3>3
  <2>3. LinksOnward
    BY <1>1 DEF LinksOnward
  <2> QED BY <2>1, <2>2, <2>3, LinksFreshOfStays
<1> QED BY <1>6, <1>8, <1>9 DEF Links!IInv

LEMMA LinksNextIInv == Links!IInv /\ [Links!Next]_Links!vars => Links!IInv'
<1> SUFFICES ASSUME Links!IInv, [Links!Next]_Links!vars PROVE Links!IInv'
  OBVIOUS
<1>1. CASE \E s \in Links!Session : Links!Recall(s) \/ Links!Bridge(s) \/ Links!ReadLinks(s) \/ Links!AppendLinks(s) \/ Links!Kill(s)
  BY <1>1, LinksRecallStep, LinksBridgeStep, LinksReadLinksStep, LinksAppendLinksStep, LinksKillStep
<1>2. CASE Links!ReadAudit
  BY <1>2, LinksReadAuditStep
<1>3. CASE Links!WriteAudit
  BY <1>3, LinksWriteAuditStep
<1>4. CASE Links!Tick
  <2>1. Links!TypeOK'
    BY <1>4 DEF Links!Tick, Links!IInv, Links!TypeOK
  <2> QED BY <1>4, <2>1 DEF Links!Tick, Links!IInv, Links!LinesStand, Links!FreshStand, Links!AuditStands,
       Links!Target
<1>5. CASE UNCHANGED Links!vars
  BY <1>5 DEF Links!vars, Links!IInv, Links!TypeOK, Links!LinesStand, Links!FreshStand, Links!AuditStands,
       Links!Target
<1> QED BY <1>1, <1>2, <1>3, <1>4, <1>5 DEF Links!Next

(* A pair that is dense by its rows was seen as often.                          *)
LEMMA LinksScoreIsEarned == ASSUME Links!IInv, NEW p \in LinksPair PROVE Links!Score(p, Links_links[LinksHome[p]]) \in Nat /\ Links!Earned(p) \in Nat /\ Links!Score(p, Links_links[LinksHome[p]]) <= Links!Earned(p)
<1> DEFINE t == [s \in Links!Session |-> Links_together[s][p]]
           lines == Links_links[LinksHome[p]]
<1>1. LinksHome[p] \in Links!Directory
  BY DEF Links!Directory
<1>2. lines \in Seq(Links!Line) /\ Links!Once(lines) /\ \A i \in DOMAIN lines : Links!Parsed(lines[i]) => Links!Earns(lines[i], LinksHome[p], Links_together, Links_pc)
  BY <1>1 DEF Links!IInv, Links!TypeOK, Links!LinesStand
<1>3. t \in [Links!Session -> Nat]
  BY DEF Links!IInv, Links!TypeOK
<1>4. \A i \in DOMAIN lines : lines[i].pair = p => lines[i].of \in Links!Session /\ lines[i].score = t[lines[i].of]
  <2> SUFFICES ASSUME NEW i \in DOMAIN lines, lines[i].pair = p PROVE lines[i].of \in Links!Session /\ lines[i].score = t[lines[i].of]
    OBVIOUS
  <2>1. Links!Parsed(lines[i])
    BY LinksAssumption DEF Links!Parsed
  <2> QED BY <1>2, <2>1 DEF Links!Earns
<1>5. Links!Earned(p) = Links!Total(t)
  BY DEF Links!Earned
<1> HIDE DEF t, lines
<1>6. Links!Score(p, lines) \in Nat /\ Links!Total(t) \in Nat /\ Links!Score(p, lines) <= Links!Total(t)
  BY <1>2, <1>3, <1>4, LinksScoreBounded
<1> QED BY <1>5, <1>6 DEF lines

LEMMA LinksHolds == Links!IInv => Links!TypeOK /\ Links!DensityIsEarned
<1> SUFFICES ASSUME Links!IInv, NEW threshold \in 1 .. LinksMaxRecalls + 1, NEW f \in UNION LinksPair
             PROVE  Links!Density(f, threshold) <= Cardinality({p \in LinksPair : f \in p /\ threshold <= Links!Earned(p)})
  BY DEF Links!DensityIsEarned, Links!IInv
<1> DEFINE A == {p \in LinksPair : f \in p /\ Links!Score(p, Links_links[LinksHome[p]]) >= threshold}
           B == {p \in LinksPair : f \in p /\ threshold <= Links!Earned(p)}
<1>1. A \subseteq B
  <2>1. ASSUME NEW p \in LinksPair, Links!Score(p, Links_links[LinksHome[p]]) >= threshold PROVE threshold <= Links!Earned(p)
    <3> DEFINE a == Links!Score(p, Links_links[LinksHome[p]])
               b == Links!Earned(p)
    <3>1. a \in Nat /\ b \in Nat /\ a <= b /\ a >= threshold /\ threshold \in Int
      BY <2>1, LinksScoreIsEarned
    <3> HIDE DEF a, b
    <3>2. threshold <= b
      BY ONLY <3>1
    <3> QED BY <3>2 DEF b
  <2> QED BY <2>1
<1>2. IsFiniteSet(B) /\ B \subseteq LinksPair
  BY LinksAssumption, FS_Subset
<1>3. Links!Density(f, threshold) = IF Cardinality(A) < LinksEdgeCap THEN Cardinality(A) ELSE LinksEdgeCap
  BY DEF Links!Density
<1> HIDE DEF A, B
<1>4. IsFiniteSet(A) /\ Cardinality(A) <= Cardinality(B)
  BY <1>1, <1>2, FS_Subset
<1>5. Cardinality(A) \in Nat /\ Cardinality(B) \in Nat /\ LinksEdgeCap \in Nat
  BY <1>2, <1>4, FS_CardinalityType, LinksAssumption
<1>6. Links!Density(f, threshold) <= Cardinality(B)
  BY <1>3, <1>4, <1>5
<1> QED BY <1>6 DEF B

(* link_graph.py: no pair of files counts for more than the recalls that returned both, for *)
(* any sessions, names, days and homes, whatever bridges are killed, repeated or overtaken   *)
(* by audits.                                                                                 *)
THEOREM DensityIsAlwaysEarned == Spec => []DensityIsEarned
<1> DEFINE Inv == part = "links" => Links!IInv
<1>1. Init => Inv
  BY LinksInitIInv DEF Init
<1>2. Inv /\ [Next]_vars => Inv'
  <2>1. ASSUME part = "links", Links!IInv, [Next]_vars PROVE Links!IInv'
    BY <2>1, LinksNextIInv DEF Next, vars, Links!vars
  <2>2. [Next]_vars => part' = part
    BY DEF Next, vars
  <2> QED BY <2>1, <2>2
<1>3. Inv => DensityIsEarned
  BY LinksHolds DEF DensityIsEarned
<1> QED
  BY <1>1, <1>2, <1>3, PTL DEF Spec

HIDE LinksCardinality
HIDE DEF Links_today, Links_links, Links_together, Links_pc, Links_todo, Links_fresh, Links_audit,
  Links_audits, Links_again

-----------------------------------------------------------------------------
(* Bootstrap. *)
Start_repo == x1
Start_pc == x2
Start_mode == x3
Start_source == x4
Start_router == x5
Start_entries == x6
Start_loaded == x7
Start_absent == x8
Start_excused == x9
Start_squeezed == x10
Start_needed == x11
Start_overlooked == x12
Start_used == x13
Start_pressure == x14
Start_warnings == x15
USE DEF Start_repo, Start_pc, Start_mode, Start_source, Start_router, Start_entries, Start_loaded,
  Start_absent, Start_excused, Start_squeezed, Start_needed, Start_overlooked, Start_used,
  Start_pressure, Start_warnings

(* Sets have one cardinality, inside and outside of Bootstrap. *)
LEMMA StartCardinality == \A S : Start!Cardinality(S) = Cardinality(S)
BY DEF Start!Cardinality, Cardinality
USE StartCardinality

(* Nothing is loaded yet.                                                      *)
LEMMA StartInitIInv == Start!Init => Start!IInv
<1> SUFFICES ASSUME Start!Init PROVE Start!IInv
  OBVIOUS
<1>1. /\ Start_pc = "detect" /\ Start_mode = "none" /\ Start_loaded = {} /\ Start_absent = {} /\ Start_excused = {} /\ Start_squeezed = {}
      /\ Start_needed = {} /\ Start_overlooked = {} /\ Start_used = 0 /\ Start_pressure = FALSE
  BY DEF Start!Init
<1>2. Start_pressure \in BOOLEAN /\ ~Start_pressure
  BY <1>1
<1> QED BY <1>1, <1>2 DEF Start!IInv, Start!TypeOK, Start!Roomy, Start!seen

(* A seventh of a budget, or 500, is no more than the budget.                  *)
LEMMA StartSeventhFits ==
  ASSUME NEW b \in Nat, b >= 500
  PROVE  (IF b \div 7 > 500 THEN b \div 7 ELSE 500) \in 0 .. b
<1>1. b \div 7 \in Nat /\ b \div 7 <= b
  OBVIOUS
<1> QED BY <1>1

(* Every budget is a number that covers its own reserve.                       *)
LEMMA StartBudgetCovers ==
  ASSUME Start_mode \in Start!Mode
  PROVE  Start!Budget \in Nat /\ Start!Reserve \in Nat /\ Start!Budget >= Start!Reserve
<1>1. Start!Budget \in Nat /\ Start!Budget >= 500
  BY StartAssumption DEF Start!Budget, Start!Mode
<1>2. Start!Reserve \in 0 .. Start!Budget
  BY <1>1, StartSeventhFits DEF Start!Reserve
<1> QED BY <1>1, <1>2

(* Every estimate is a number.                                                 *)
LEMMA StartEstimateNat == ASSUME NEW path, NEW cost \in Start!Cost PROVE Start!Estimate(path, cost) \in Nat
BY DEF Start!Estimate, Start!Tokens, Start!Cost

(* The mode is one of the manifest.                                            *)
LEMMA StartDetectStep ==
  ASSUME Start!IInv, Start!Detect \/ Start!SkipManifest
  PROVE  Start!IInv'
<1>1. Start_mode' \in Start!Mode
  <2>1. ASSUME NEW ask \in Start!Ask PROVE Start!Resolved(ask)[1] \in Start!Mode
    <3>1. ask.mode \in Start!Mode \cup {"auto"} /\ ask.override \in {"none", "full_bootstrap", "compact_only"}
      BY DEF Start!Ask
    <3>2. Start!Detected(ask)[1] \in Start!Mode
      BY <3>1, StartAssumption DEF Start!Detected, Start!Mode
    <3>3. CASE ask.override = "full_bootstrap"
      BY <3>3, StartAssumption DEF Start!Resolved, Start!Mode
    <3>4. CASE ask.override = "compact_only"
      BY <3>4, StartAssumption DEF Start!Resolved, Start!Mode
    <3>5. CASE ask.override = "none"
      <4>1. Start!Resolved(ask) = Start!Detected(ask)
        BY <3>5 DEF Start!Resolved
      <4> QED BY <3>2, <4>1
    <3> QED BY <3>1, <3>3, <3>4, <3>5
  <2>2. CASE Start!Detect
    BY <2>1, <2>2 DEF Start!Detect
  <2>3. CASE Start!SkipManifest
    BY <2>3, StartAssumption DEF Start!SkipManifest, Start!Mode
  <2> QED BY <2>2, <2>3
<1>2. Start_pc' = "resolve" /\ UNCHANGED Start!trace /\ Start_pc = "detect"
  BY DEF Start!Detect, Start!SkipManifest
<1>3. Start!Budget' \in Nat /\ Start!Reserve' \in Nat /\ Start!Budget' >= Start!Reserve'
  <2>1. Start!Budget' \in Nat /\ Start!Budget' >= 500
    BY <1>1, StartAssumption DEF Start!Budget, Start!Mode
  <2>2. Start!Reserve' \in 0 .. Start!Budget'
    BY <2>1, StartSeventhFits DEF Start!Reserve
  <2> QED BY <2>1, <2>2
<1>4. Start!TypeOK'
  BY <1>1, <1>2 DEF Start!IInv, Start!TypeOK, Start!trace, Start!seen
<1>5. Start_squeezed' = {} /\ Start_used' = 0
  BY <1>2 DEF Start!IInv, Start!Roomy, Start!trace
<1>6. Start!Roomy'
  <2>1. Start!Budget' - Start_used' >= Start!Reserve'
    <3>1. \A b, r, u \in Nat : b >= r /\ u = 0 => b - u >= r
      OBVIOUS
    <3>2. Start_used' \in Nat
      BY <1>5
    <3> QED BY <1>3, <1>5, <3>1, <3>2
  <2>2. Start_needed' \subseteq Start_loaded' \cup Start_excused' \cup Start_absent' /\ Start_overlooked' \subseteq Start!seen'
    BY <1>2 DEF Start!IInv, Start!Roomy, Start!trace, Start!seen
  <2> QED BY <1>1, <1>2, <1>5, <2>1, <2>2 DEF Start!Roomy
<1> QED BY <1>4, <1>6 DEF Start!IInv

(* An entry takes of the budget, and leaves the reserve or makes pressure.     *)
LEMMA StartResolveStep ==
  ASSUME Start!IInv, Start!Resolve
  PROVE  Start!IInv'
<1>1. PICK e \in Start!Entry \cup Start!Fallback : \/ Start!Duplicate(e.path, e.required) \/ Start!Missing(e.path, e.required) \/ Start!SkippedFor(e.path, e.required)
                                       \/ Start!Squeeze(e.path, e.required, Start!Estimate(e.path, e.cost))
                                       \/ Start!Load(e.path, e.required, Start!Estimate(e.path, e.cost))
  BY DEF Start!Resolve
<1> DEFINE tokens == Start!Estimate(e.path, e.cost)
<1>2. e.path \in StartPath /\ tokens \in Nat
  BY StartEstimateNat DEF Start!Entry, Start!Fallback, Start!Cost
<1> HIDE DEF tokens
<1>3. Start_pc = "resolve" /\ Start_pc' = Start_pc /\ Start_mode' = Start_mode /\ Start_router' = Start_router /\ Start_warnings' = Start_warnings
  BY DEF Start!Resolve
<1>4. Start_mode \in Start!Mode /\ Start!Budget \in Nat /\ Start!Reserve \in Nat /\ Start!Budget' = Start!Budget /\ Start!Reserve' = Start!Reserve
  BY <1>3, StartBudgetCovers DEF Start!IInv, Start!Roomy, Start!Budget, Start!Reserve
<1>5. Start_used \in Nat /\ Start_pressure \in BOOLEAN
  BY DEF Start!IInv, Start!TypeOK
<1>6. CASE Start!Duplicate(e.path, e.required)
  BY <1>2, <1>3, <1>4, <1>6 DEF Start!Duplicate, Start!IInv, Start!TypeOK, Start!Roomy, Start!seen
<1>7. CASE Start!Missing(e.path, e.required) \/ Start!SkippedFor(e.path, e.required)
  BY <1>2, <1>3, <1>4, <1>7 DEF Start!Missing, Start!SkippedFor, Start!First, Start!IInv, Start!TypeOK,
       Start!Roomy, Start!seen
<1>8. CASE Start!Squeeze(e.path, e.required, tokens)
  BY <1>2, <1>3, <1>4, <1>8 DEF Start!Squeeze, Start!First, Start!IInv, Start!TypeOK, Start!Roomy, Start!seen
<1>9. CASE Start!Load(e.path, e.required, tokens)
  <2>1. /\ Start!First(e.path, e.required) /\ Start_loaded' = Start_loaded \cup {e.path} /\ UNCHANGED <<Start_absent, Start_excused, Start_squeezed>>
        /\ Start_used' = Start_used + tokens /\ Start_pressure' = Start!PressedBy(tokens)
    BY <1>9 DEF Start!Load
  <2>2. Start_pressure' \in BOOLEAN /\ (~Start_pressure' => ~Start_pressure /\ Start!Fits(tokens))
    BY <1>5, <2>1 DEF Start!PressedBy
  <2>3. Start!TypeOK'
    BY <1>2, <1>3, <1>5, <2>1, <2>2 DEF Start!IInv, Start!TypeOK, Start!seen
  <2>4. Start_needed' \subseteq Start_loaded' \cup Start_excused' \cup Start_absent' /\ Start_overlooked' \subseteq Start!seen'
    BY <2>1 DEF Start!First, Start!IInv, Start!Roomy, Start!seen
  <2>5. Start!Roomy'
    BY <1>2, <1>3, <1>4, <1>5, <2>1, <2>2, <2>4 DEF Start!Fits, Start!IInv, Start!Roomy
  <2> QED BY <2>3, <2>5 DEF Start!IInv
<1> QED BY <1>1, <1>6, <1>7, <1>8, <1>9 DEF tokens

(* No step of a start hides that the budget was tight.                         *)
LEMMA StartNextIInv == Start!IInv /\ [Start!Next]_Start!vars => Start!IInv'
<1> SUFFICES ASSUME Start!IInv, [Start!Next]_Start!vars PROVE Start!IInv'
  OBVIOUS
<1>1. CASE Start!Warn
  <2>1. /\ Start_pc = "resolve" /\ Start_pc' = "done" /\ UNCHANGED <<Start_mode, Start_router, Start!trace>>
        /\ Start_pressure => "budget_pressure" \in Start_warnings'
    BY <1>1 DEF Start!Warn
  <2>2. Start!Budget' = Start!Budget /\ Start!Reserve' = Start!Reserve
    BY <2>1 DEF Start!Budget, Start!Reserve
  <2> QED BY <2>1, <2>2 DEF Start!IInv, Start!TypeOK, Start!Roomy, Start!trace, Start!seen
<1>2. CASE UNCHANGED Start!vars
  <2>1. Start!Budget' = Start!Budget /\ Start!Reserve' = Start!Reserve
    BY <1>2 DEF Start!Budget, Start!Reserve, Start!vars
  <2> QED BY <1>2, <2>1 DEF Start!IInv, Start!TypeOK, Start!Roomy, Start!vars, Start!trace, Start!seen
<1> QED BY <1>1, <1>2, StartDetectStep, StartResolveStep DEF Start!Next

(* What the invariant says of a start called ready.                            *)
LEMMA StartHolds == Start!IInv => Start!TypeOK /\ Start!ReadyIsRoomy
<1> SUFFICES ASSUME Start!IInv, Start_pc = "done", Start!Panel.status = "ready"
             PROVE  /\ Start!Budget - Start_used >= Start!Reserve /\ Start!Panel.budget = "healthy" /\ Start!Panel.warnings = 0
                    /\ Start_squeezed = {}
                    /\ Start_needed \cup Start_overlooked \subseteq Start_loaded \cup Start_excused \cup (Start_overlooked \cap Start_absent)
  BY DEF Start!IInv, Start!ReadyIsRoomy
<1>1. Start_warnings = {} /\ Start_absent \cap Start_needed = {}
  BY DEF Start!Panel, Start!Status
<1>2. ~Start_pressure
  BY <1>1 DEF Start!IInv, Start!Roomy
<1>3. Start!Panel.budget = "healthy" /\ Start!Panel.warnings = Cardinality(Start_warnings)
  BY <1>2 DEF Start!Panel
<1>4. Cardinality({}) = 0
  BY FS_EmptySet
<1>5. Start_squeezed = {} /\ Start!Budget - Start_used >= Start!Reserve
  BY <1>2 DEF Start!IInv, Start!Roomy
<1>6. Start_needed \cup Start_overlooked \subseteq Start_loaded \cup Start_excused \cup (Start_overlooked \cap Start_absent)
  BY <1>1, <1>5 DEF Start!IInv, Start!Roomy, Start!seen
<1> QED BY <1>1, <1>3, <1>4, <1>5, <1>6

(* resolve_bootstrap_manifest.py: a start called ready keeps its reserve, with nothing      *)
(* missing or squeezed out, for any list of files of any sizes.                             *)
THEOREM ReadyStartsAreRoomy == Spec => []ReadyIsRoomy
<1> DEFINE Inv == part = "bootstrap" => Start!IInv
<1>1. Init => Inv
  BY StartInitIInv DEF Init
<1>2. Inv /\ [Next]_vars => Inv'
  <2>1. ASSUME part = "bootstrap", Start!IInv, [Next]_vars PROVE Start!IInv'
    BY <2>1, StartNextIInv DEF Next, vars, Start!vars, Start!trace
  <2>2. [Next]_vars => part' = part
    BY DEF Next, vars
  <2> QED BY <2>1, <2>2
<1>3. Inv => ReadyIsRoomy
  BY StartHolds DEF ReadyIsRoomy
<1> QED
  BY <1>1, <1>2, <1>3, PTL DEF Spec

HIDE StartCardinality
HIDE DEF Start_repo, Start_pc, Start_mode, Start_source, Start_router, Start_entries, Start_loaded,
  Start_absent, Start_excused, Start_squeezed, Start_needed, Start_overlooked, Start_used,
  Start_pressure, Start_warnings

-----------------------------------------------------------------------------
(* TaskReadiness. *)
Ready_world == x1
Ready_kinds == x2
Ready_origin == x3
Ready_hint == x4
Ready_pc == x5
Ready_profile == x6
Ready_todo == x7
Ready_results == x8
Ready_previous == x9
Ready_runtime == x10
Ready_status == x11
Ready_resolved == x12
Ready_skip == x13
Ready_changes == x14
Ready_runs == x15
Ready_held == x16
Ready_carried == x17
Ready_steady == x18
Ready_still == x19
USE DEF Ready_world, Ready_kinds, Ready_origin, Ready_hint, Ready_pc, Ready_profile, Ready_todo,
  Ready_results, Ready_previous, Ready_runtime, Ready_status, Ready_resolved, Ready_skip,
  Ready_changes, Ready_runs, Ready_held, Ready_carried, Ready_steady, Ready_still

(* Sets have one cardinality, inside and outside of TaskReadiness. *)
LEMMA ReadyCardinality == \A S : Ready!Cardinality(S) = Cardinality(S)
BY DEF Ready!Cardinality, Cardinality
USE ReadyCardinality

(* The checks of a profile are a sequence of them.                             *)
LEMMA ReadyChecksSeq ==
  ASSUME NEW p \in ReadyProfile \cup {"workspace_general"}
  PROVE  Ready!Checks(p) \in Seq(Ready!Of(p)) /\ <<>> \in Seq(Ready!Of(p))
<1> DEFINE N == {"git_cli", "git_remote", "git_push_dry_run", "gh_auth", "remote_network", "python_runtime",
                  "python_validation_stack", "node_runtime", "node_validation_stack", "python_package_manager",
                  "python_package_network", "node_package_manager", "node_package_network"}
<1>a. ASSUME NEW S, NEW a \in S, NEW b \in S, NEW c \in S, NEW d \in S, NEW e \in S
      PROVE  /\ <<>> \in Seq(S) /\ <<a, b>> \in Seq(S) /\ <<a, b, c>> \in Seq(S)
             /\ <<a, b, c, d>> \in Seq(S) /\ <<a, b, c, d, e>> \in Seq(S)
  OBVIOUS
<1>1. Ready!Checks(p) \in Seq(N)
  <2>1. p \in {"workspace_general", "pull_request", "publish_branch", "terminal_plan_authoring",
               "python_validation", "node_validation", "python_dependency_install", "node_dependency_install"}
    BY ReadyAssumption
  <2>2. CASE p = "workspace_general"
    <3>1. Ready!Checks(p) = <<>>
      BY <2>2, Zenon DEF Ready!Checks
    <3> QED BY <3>1, <1>a
  <2>3. CASE p = "pull_request"
    <3>1. Ready!Checks(p) = <<"git_cli", "git_remote", "git_push_dry_run", "gh_auth", "remote_network">>
      BY <2>3, Zenon DEF Ready!Checks
    <3> QED BY <3>1, <1>a
  <2>4. CASE p = "publish_branch"
    <3>1. Ready!Checks(p) = <<"git_cli", "git_remote", "git_push_dry_run", "remote_network">>
      BY <2>4, Zenon DEF Ready!Checks
    <3> QED BY <3>1, <1>a
  <2>5. CASE p = "terminal_plan_authoring"
    <3>1. Ready!Checks(p) = <<"python_runtime", "git_cli">>
      BY <2>5, Zenon DEF Ready!Checks
    <3> QED BY <3>1, <1>a
  <2>6. CASE p = "python_validation"
    <3>1. Ready!Checks(p) = <<"python_runtime", "python_validation_stack">>
      BY <2>6, Zenon DEF Ready!Checks
    <3> QED BY <3>1, <1>a
  <2>7. CASE p = "node_validation"
    <3>1. Ready!Checks(p) = <<"node_runtime", "node_validation_stack">>
      BY <2>7, Zenon DEF Ready!Checks
    <3> QED BY <3>1, <1>a
  <2>8. CASE p = "python_dependency_install"
    <3>1. Ready!Checks(p) = <<"python_runtime", "python_package_manager", "python_package_network">>
      BY <2>8, Zenon DEF Ready!Checks
    <3> QED BY <3>1, <1>a
  <2>9. CASE p = "node_dependency_install"
    <3>1. Ready!Checks(p) = <<"node_runtime", "node_package_manager", "node_package_network">>
      BY <2>9, Zenon DEF Ready!Checks
    <3> QED BY <3>1, <1>a
  <2> QED BY <2>1, <2>2, <2>3, <2>4, <2>5, <2>6, <2>7, <2>8, <2>9
<1>2. ASSUME NEW S, NEW q \in Seq(S) PROVE q \in Seq({q[i] : i \in DOMAIN q})
  OBVIOUS
<1>3. Ready!Checks(p) \in Seq({Ready!Checks(p)[i] : i \in DOMAIN Ready!Checks(p)})
  <2> HIDE DEF N
  <2> QED BY <1>1, <1>2
<1>4. <<>> \in Seq(Ready!Of(p))
  OBVIOUS
<1> QED BY <1>3, <1>4 DEF Ready!Of

(* The general profile has no checks, the others' are checks.                  *)
LEMMA ReadyChecksOf ==
  ASSUME NEW p \in ReadyProfile \cup {"workspace_general"}
  PROVE  Ready!Of(p) \subseteq Ready!Check
<1>1. CASE p \in ReadyProfile
  BY <1>1 DEF Ready!Check
<1>2. CASE p = "workspace_general"
  <2>1. Ready!Checks(p) = <<>>
    BY <1>2 DEF Ready!Checks
  <2>2. DOMAIN Ready!Checks(p) = {}
    BY <2>1
  <2> QED BY <2>2 DEF Ready!Of
<1> QED BY <1>1, <1>2

(* What probes tell depends on the host and on the hints alone.                *)
LEMMA ReadySameTold ==
  ASSUME UNCHANGED <<Ready_world, Ready_hint>>
  PROVE  /\ Ready!Answers' = Ready!Answers
         /\ Ready_profile' = Ready_profile => Ready!Told(Ready_profile)' = Ready!Told(Ready_profile) /\ Ready!Of(Ready_profile)' = Ready!Of(Ready_profile)
         /\ Ready_carried' = Ready_carried => Ready!Told(Ready_carried.profile)' = Ready!Told(Ready_carried.profile)
<1>1. \A c : Ready!CheckResult(c)' = Ready!CheckResult(c)
  BY DEF Ready!CheckResult, Ready!Class, Ready!NamesHost
<1>2. Ready!Answers' = Ready!Answers
  BY <1>1, Zenon DEF Ready!Answers
<1>3. Ready_profile' = Ready_profile => Ready!Of(Ready_profile)' = Ready!Of(Ready_profile)
  BY Zenon DEF Ready!Of, Ready!Checks
<1>4. Ready_carried' = Ready_carried => Ready!Of(Ready_carried.profile)' = Ready!Of(Ready_carried.profile)
  BY Zenon DEF Ready!Of, Ready!Checks
<1>5. Ready_profile' = Ready_profile => Ready!Told(Ready_profile)' = Ready!Told(Ready_profile)
  BY <1>1, <1>3, Zenon DEF Ready!Told
<1>6. Ready_carried' = Ready_carried => Ready!Told(Ready_carried.profile)' = Ready!Told(Ready_carried.profile)
  BY <1>1, <1>4, Zenon DEF Ready!Told
<1> QED BY <1>2, <1>3, <1>5, <1>6

(* Nothing is carried to the first preflight.                                  *)
LEMMA ReadyInitIInv == Ready!Init => Ready!IInv
BY DEF Ready!Init, Ready!IInv, Ready!CarriedHeld, Ready!ResultsHeld, Ready!StillTold

(* A preflight begins with what its probes would tell now.                     *)
LEMMA ReadyBeginStep ==
  ASSUME Ready!IInv, Ready!Begin
  PROVE  Ready!IInv'
<1>1. /\ Ready_pc' = "probe" /\ Ready_results' = {} /\ Ready_steady' = TRUE /\ Ready_held' = Ready!Answers' /\ Ready_hint' = Ready_origin
      /\ Ready_todo' = (IF Ready_runtime' THEN Ready!Checks(Ready_profile') ELSE <<>>)
      /\ Ready_profile' \in ReadyProfile \cup {"workspace_general"}
      /\ UNCHANGED <<Ready_world, Ready_origin, Ready_previous, Ready_carried, Ready_still>>
  BY DEF Ready!Begin, Ready!DetectHints
<1>2. Ready!CarriedHeld'
  BY <1>1 DEF Ready!IInv, Ready!CarriedHeld
<1>3. Ready!ResultsHeld'
  <2>1. Ready_todo' \in Seq(Ready!Of(Ready_profile'))
    BY <1>1, ReadyChecksSeq
  <2>2. Ready_runtime' => \A c \in Ready!Of(Ready_profile') : \E i \in DOMAIN Ready_todo' : Ready_todo'[i] = c
    BY <1>1 DEF Ready!Of
  <2>3. Ready!Of(Ready_profile)' = Ready!Of(Ready_profile')
    BY DEF Ready!Of, Ready!Checks
  <2> QED BY <1>1, <2>1, <2>2, <2>3 DEF Ready!ResultsHeld
<1>4. Ready!StillTold'
  <2>1. ASSUME Ready_still' PROVE Ready_hint = Ready_hint' /\ Ready_previous = Ready!Failed(Ready!Told(Ready_carried.profile))
    BY <1>1, <2>1 DEF Ready!IInv, Ready!StillTold
  <2>2. ASSUME Ready_hint = Ready_hint' PROVE Ready!Told(Ready_carried.profile)' = Ready!Told(Ready_carried.profile)
    BY <1>1, <2>2, ReadySameTold
  <2>3. ASSUME Ready_still' PROVE Ready!Failed(Ready!Told(Ready_carried.profile))' = Ready!Failed(Ready!Told(Ready_carried.profile))
    BY <2>1, <2>2, <2>3 DEF Ready!Failed
  <2> QED BY <1>1, <2>1, <2>3 DEF Ready!StillTold
<1> QED BY <1>2, <1>3, <1>4 DEF Ready!IInv

(* A probe tells what held when it was made.                                   *)
LEMMA ReadyProbeStep ==
  ASSUME Ready!IInv, Ready!Probe
  PROVE  Ready!IInv'
<1> DEFINE c == Head(Ready_todo)
<1>1. /\ Ready_pc = "probe" /\ Ready_pc' = "probe" /\ Ready_todo # <<>> /\ Ready_todo' = Tail(Ready_todo) /\ Ready_results' = Ready_results \cup {Ready!CheckResult(c)}
      /\ UNCHANGED <<Ready_world, Ready_kinds, Ready_origin, Ready_hint, Ready_pc, Ready_profile, Ready_previous, Ready_runtime, Ready_held, Ready_carried, Ready_steady, Ready_still>>
  BY DEF Ready!Probe, Ready!history
<1>2. /\ Ready_profile \in ReadyProfile \cup {"workspace_general"} /\ Ready_todo \in Seq(Ready!Of(Ready_profile))
      /\ Ready!Answers \subseteq Ready_held /\ Ready_results \subseteq Ready_held
      /\ Ready_still => Ready_steady
      /\ Ready_steady => Ready_results \subseteq Ready!Told(Ready_profile) /\ Ready_hint = Ready_origin
      /\ Ready_runtime => \A x \in Ready!Of(Ready_profile) : (\E i \in DOMAIN Ready_todo : Ready_todo[i] = x) \/ (\E r \in Ready_results : r[1] = x)
  BY <1>1 DEF Ready!IInv, Ready!ResultsHeld
<1>3. /\ c \in Ready!Of(Ready_profile) /\ Ready_todo' \in Seq(Ready!Of(Ready_profile))
      /\ \A i \in DOMAIN Ready_todo : Ready_todo[i] = c \/ \E j \in DOMAIN Ready_todo' : Ready_todo'[j] = Ready_todo[i]
  <2>1. ASSUME NEW S, NEW q \in Seq(S), q # <<>>
        PROVE  /\ Head(q) \in S /\ Tail(q) \in Seq(S)
               /\ \A i \in DOMAIN q : q[i] = Head(q) \/ \E j \in DOMAIN Tail(q) : Tail(q)[j] = q[i]
    <3>1. /\ Head(q) \in S /\ Tail(q) \in Seq(S) /\ Head(q) = q[1] /\ Len(Tail(q)) = Len(q) - 1
          /\ DOMAIN q = 1 .. Len(q) /\ DOMAIN Tail(q) = 1 .. Len(Tail(q)) /\ Len(q) \in Nat
          /\ \A j \in 1 .. Len(Tail(q)) : Tail(q)[j] = q[j + 1]
      BY <2>1
    <3>2. ASSUME NEW i \in DOMAIN q, i # 1 PROVE i - 1 \in DOMAIN Tail(q) /\ Tail(q)[i - 1] = q[i]
      <4>1. i \in Nat /\ i - 1 \in 1 .. Len(Tail(q)) /\ (i - 1) + 1 = i
        BY <3>1, <3>2
      <4> QED BY <3>1, <4>1
    <3> QED BY <3>1, <3>2
  <2> QED BY <1>1, <1>2, <2>1
<1>4. /\ Ready!CheckResult(c) \in Ready_held /\ Ready!CheckResult(c) \in Ready!Told(Ready_profile)
      /\ Ready!CheckResult(c)[1] = c
  <2>1. c \in Ready!Check
    BY <1>2, <1>3, ReadyChecksOf
  <2> QED BY <1>2, <1>3, <2>1 DEF Ready!Answers, Ready!Told, Ready!CheckResult
<1>5. Ready!Told(Ready_profile)' = Ready!Told(Ready_profile) /\ Ready!Answers' = Ready!Answers /\ Ready!Of(Ready_profile)' = Ready!Of(Ready_profile) /\ Ready!Told(Ready_carried.profile)' = Ready!Told(Ready_carried.profile)
  BY <1>1, ReadySameTold
<1> HIDE DEF c
<1>6. Ready!CarriedHeld'
  BY <1>1 DEF Ready!IInv, Ready!CarriedHeld
<1>7. Ready!ResultsHeld'
  <2>1. ASSUME Ready_runtime', NEW x \in Ready!Of(Ready_profile) PROVE (\E i \in DOMAIN Ready_todo' : Ready_todo'[i] = x) \/ (\E r \in Ready_results' : r[1] = x)
    <3>1. (\E i \in DOMAIN Ready_todo : Ready_todo[i] = x) \/ (\E r \in Ready_results : r[1] = x)
      BY <1>1, <1>2, <2>1
    <3> QED BY <1>1, <1>3, <1>4, <3>1
  <2> QED BY <1>1, <1>2, <1>3, <1>4, <1>5, <2>1 DEF Ready!ResultsHeld
<1>8. Ready!StillTold'
  BY <1>1, <1>5 DEF Ready!IInv, Ready!StillTold, Ready!Failed
<1> QED BY <1>6, <1>7, <1>8 DEF Ready!IInv

(* Of a host that did not change, a report tells what its checks tell now.      *)
LEMMA ReadyAllTold ==
  ASSUME Ready!IInv, Ready!Report, Ready_steady, Ready_runtime
  PROVE  Ready_results = Ready!Told(Ready_profile) /\ Ready_hint = Ready_origin
<1>1. /\ Ready_pc = "probe" /\ Ready_todo = <<>>
  BY DEF Ready!Report
<1>2. /\ Ready_results \subseteq Ready!Told(Ready_profile) /\ Ready_hint = Ready_origin
      /\ \A c \in Ready!Of(Ready_profile) : \E r \in Ready_results : r[1] = c
  BY <1>1 DEF Ready!IInv, Ready!ResultsHeld
<1>3. ASSUME NEW c \in Ready!Of(Ready_profile) PROVE Ready!CheckResult(c) \in Ready_results
  <2>1. PICK r \in Ready_results : r[1] = c
    BY <1>2
  <2>2. PICK d \in Ready!Of(Ready_profile) : r = Ready!CheckResult(d)
    BY <1>2 DEF Ready!Told
  <2>3. r[1] = d
    BY <2>2 DEF Ready!CheckResult
  <2> QED BY <2>1, <2>2, <2>3
<1> QED BY <1>2, <1>3 DEF Ready!Told

(* A report hands on what held in its own preflight.                           *)
LEMMA ReadyReportIInv ==
  ASSUME Ready!IInv, Ready!Report
  PROVE  Ready!IInv'
<1>1. PICK handed \in BOOLEAN :
        /\ Ready_previous' = (IF handed THEN Ready!Blockers ELSE {})
        /\ Ready_carried' = (IF handed THEN [profile |-> Ready_profile, held |-> Ready_held] ELSE Ready!Nothing)
        /\ Ready_still' = (handed /\ Ready_steady /\ Ready_runtime)
  BY DEF Ready!Report
<1>2. Ready_pc = "probe" /\ Ready_pc' = "idle" /\ UNCHANGED <<Ready_world, Ready_kinds, Ready_origin, Ready_hint, Ready_profile, Ready_todo, Ready_results, Ready_runtime>>
  BY DEF Ready!Report
<1>3. Ready!CarriedHeld'
  BY <1>1, <1>2 DEF Ready!IInv, Ready!ResultsHeld, Ready!CarriedHeld, Ready!Blockers
<1>4. Ready!ResultsHeld'
  BY <1>2 DEF Ready!ResultsHeld
<1>5. Ready!StillTold'
  <2>1. ASSUME Ready_still' PROVE Ready_hint' = Ready_origin' /\ Ready_previous' = Ready!Failed(Ready!Told(Ready_profile)) /\ Ready_carried'.profile = Ready_profile
    BY <1>1, <1>2, <2>1, ReadyAllTold DEF Ready!Blockers, Ready!Failed
  <2>2. Ready!Told(Ready_profile)' = Ready!Told(Ready_profile)
    BY <1>2, ReadySameTold
  <2>4. ASSUME Ready_carried'.profile = Ready_profile PROVE Ready!Told(Ready_carried.profile)' = Ready!Told(Ready_profile)'
    BY <1>2, <2>4
  <2>3. ASSUME Ready_carried'.profile = Ready_profile PROVE Ready!Failed(Ready!Told(Ready_carried.profile))' = Ready!Failed(Ready!Told(Ready_profile))
    BY <2>2, <2>3, <2>4 DEF Ready!Failed
  <2> QED BY <2>1, <2>3 DEF Ready!StillTold
<1> QED BY <1>3, <1>4, <1>5 DEF Ready!IInv

(* A change of the host ends what was still so.                                *)
LEMMA ReadyChangedStep ==
  ASSUME Ready!IInv, Ready!Changed
  PROVE  Ready!IInv'
<1>1. /\ UNCHANGED <<Ready_pc, Ready_profile, Ready_todo, Ready_results, Ready_previous, Ready_runtime, Ready_carried>> /\ Ready_steady' = FALSE /\ Ready_still' = FALSE
      /\ Ready_held' = (IF Ready_pc = "probe" THEN Ready_held \cup Ready!Answers' ELSE Ready_held)
  BY DEF Ready!Changed
<1>2. Ready!Of(Ready_profile)' = Ready!Of(Ready_profile)
  BY <1>1 DEF Ready!Of, Ready!Checks
<1>3. Ready!ResultsHeld'
  <2> SUFFICES ASSUME Ready_pc' = "probe" PROVE Ready!ResultsHeld'
    BY DEF Ready!ResultsHeld
  <2>1. Ready_pc = "probe" /\ Ready_held' = Ready_held \cup Ready!Answers'
    BY <1>1
  <2> HIDE DEF Ready!Answers
  <2> QED BY <1>1, <1>2, <2>1 DEF Ready!IInv, Ready!ResultsHeld
<1> QED BY <1>1, <1>3 DEF Ready!IInv, Ready!CarriedHeld, Ready!StillTold

(* Every step keeps the invariant.                                             *)
LEMMA ReadyNextIInv == Ready!IInv /\ [Ready!Next]_Ready!vars => Ready!IInv'
<1> SUFFICES ASSUME Ready!IInv, [Ready!Next]_Ready!vars PROVE Ready!IInv'
  OBVIOUS
<1>1. CASE UNCHANGED Ready!vars
  <2>1. UNCHANGED <<Ready_world, Ready_origin, Ready_hint, Ready_pc, Ready_profile, Ready_todo, Ready_results, Ready_previous, Ready_runtime, Ready_held, Ready_carried, Ready_steady, Ready_still>>
    BY <1>1 DEF Ready!vars, Ready!history
  <2>2. Ready!Answers' = Ready!Answers /\ Ready!Told(Ready_profile)' = Ready!Told(Ready_profile) /\ Ready!Of(Ready_profile)' = Ready!Of(Ready_profile) /\ Ready!Told(Ready_carried.profile)' = Ready!Told(Ready_carried.profile)
    BY <2>1, ReadySameTold
  <2> QED BY <2>1, <2>2 DEF Ready!IInv, Ready!CarriedHeld, Ready!ResultsHeld, Ready!StillTold, Ready!Failed
<1>2. CASE Ready!Switch \/ \E c \in Ready!Check : Ready!Change(c)
  BY <1>2, ReadyChangedStep DEF Ready!Switch, Ready!Change
<1> QED BY <1>1, <1>2, ReadyBeginStep, ReadyProbeStep, ReadyReportIInv DEF Ready!Next

(* A report agrees with what held in the two preflights.                       *)
LEMMA ReadyHolds == Ready!IInv /\ [Ready!Next]_Ready!vars => Ready!ReportStep
<1> SUFFICES ASSUME Ready!IInv, [Ready!Next]_Ready!vars, Ready_pc = "probe", Ready_pc' = "idle" PROVE Ready!ReportStep
  BY DEF Ready!ReportStep
<1>1. Ready!Report
  BY DEF Ready!Next, Ready!Switch, Ready!Begin, Ready!Probe, Ready!Change, Ready!Changed, Ready!vars
<1>2. ASSUME Ready_skip' PROVE \E b \in Ready_held \cap Ready_carried.held : b[2] # "passed"
  <2>1. Ready!Unchanged(Ready!Blockers) # {}
    BY <1>1, <1>2 DEF Ready!Report
  <2>2. PICK b \in Ready_previous : b \in Ready_results
    BY <2>1 DEF Ready!Unchanged, Ready!Blockers
  <2> QED BY <2>2 DEF Ready!IInv, Ready!CarriedHeld, Ready!ResultsHeld
<1>3. ASSUME Ready_still, Ready_runtime, Ready_profile = Ready_carried.profile
      PROVE  Ready_resolved' = {} /\ (Ready_skip' <=> Ready!Publishes /\ Ready_previous # {})
  <2>1. Ready_steady
    BY <1>3 DEF Ready!IInv, Ready!ResultsHeld
  <2>2. Ready!Blockers = Ready_previous
    BY <1>1, <1>3, <2>1, ReadyAllTold DEF Ready!IInv, Ready!StillTold, Ready!Failed, Ready!Blockers
  <2> QED BY <1>1, <2>2 DEF Ready!Report, Ready!Unchanged
<1> QED BY <1>2, <1>3 DEF Ready!ReportStep

(* resolve_task_readiness.py: attempts are called off only for a failure that held at some    *)
(* moment of both preflights, and a host that did not change is reported as it was, for any   *)
(* profiles, changes and number of preflights.                                                *)
THEOREM ReportsAlwaysAgree == Spec => ReportsAgree
<1> DEFINE Inv == part = "readiness" => Ready!IInv
<1>1. Init => Inv
  BY ReadyInitIInv DEF Init
<1>2. [Next]_vars => part' = part
  BY DEF Next, vars
<1>3. ASSUME part = "readiness", [Next]_vars PROVE [Ready!Next]_Ready!vars
  BY <1>3 DEF Next, vars, Ready!vars, Ready!told, Ready!environment, Ready!history
<1>4. Inv /\ [Next]_vars => Inv'
  BY <1>2, <1>3, ReadyNextIInv
<1>5. Inv /\ [Next]_vars => [part = "readiness" => Ready!ReportStep]_vars
  BY <1>3, ReadyHolds
<1> QED
  BY <1>1, <1>4, <1>5, PTL DEF Spec, ReportsAgree

HIDE ReadyCardinality
HIDE DEF Ready_world, Ready_kinds, Ready_origin, Ready_hint, Ready_pc, Ready_profile, Ready_todo,
  Ready_results, Ready_previous, Ready_runtime, Ready_status, Ready_resolved, Ready_skip,
  Ready_changes, Ready_runs, Ready_held, Ready_carried, Ready_steady, Ready_still

-----------------------------------------------------------------------------
(* Capabilities. *)
Able_manifest == x1
Able_exported == x2
Able_mutating == x3
Able_pc == x4
Able_errors == x5
Able_mode == x6
Able_preview == x7
USE DEF Able_manifest, Able_exported, Able_mutating, Able_pc, Able_errors, Able_mode, Able_preview

(* Sets have one cardinality, inside and outside of Capabilities. *)
LEMMA AbleCardinality == \A S : Able!Cardinality(S) = Cardinality(S)
BY DEF Able!Cardinality, Cardinality
USE AbleCardinality

(* Nothing is resolved yet.                                                    *)
LEMMA AbleInitIInv == Able!Init => Able!IInv
BY AbleAssumption DEF Able!Init, Able!IInv, Able!TypeOK, Able!Answered

(* The checks look at the manifest and the server only.                         *)
LEMMA AbleSameChecks ==
  ASSUME UNCHANGED <<Able_manifest, Able_exported, Able_mutating>>
  PROVE  UNCHANGED <<Able!Previewed, Able!ModeOf, Able!ManifestErrors, Able!RuntimeErrors>>
BY DEF Able!Previewed, Able!ModeOf, Able!ReadOnlyRuntime, Able!ManifestErrors, Able!RuntimeErrors,
     Able!BoundaryErrors, Able!PolicyErrors,
   Able!FallbackErrors, Able!InterfaceErrors, Able!DiscoveryErrors, Able!OverlapErrors, Able!ApprovalErrors,
   Able!ContractErrors, Able!DesktopErrors,
   Able!Agrees, Able!WritesPresent, Able!RawExported, Able!Declared, Able!Undeclared, Able!WithoutContract,
   Able!m

(* Every answer is worked out anew, and a new server takes it back.             *)
LEMMA AbleNextIInv == Able!IInv /\ [Able!Next]_Able!vars => Able!IInv'
<1> SUFFICES ASSUME Able!IInv, [Able!Next]_Able!vars PROVE Able!IInv'
  OBVIOUS
<1> USE DEF Able!IInv, Able!TypeOK
<1>1. CASE Able!Serve
  BY <1>1 DEF Able!Serve, Able!Answered
<1>2. CASE Able!Resolve
  <2>1. Able_manifest' = Able_manifest /\ Able_exported' = Able_exported /\ Able_mutating' = Able_mutating /\ Able_preview' = Able!Previewed
    BY <1>2 DEF Able!Resolve
  <2>2. Able!Previewed' = Able!Previewed /\ Able!ModeOf' = Able!ModeOf /\ Able!ManifestErrors' = Able!ManifestErrors /\ Able!RuntimeErrors' = Able!RuntimeErrors
    BY <2>1, AbleSameChecks
  <2>3. Able!Answered'
    BY <1>2, <2>1, <2>2 DEF Able!Resolve, Able!Answered
  <2>4. Able!Previewed \subseteq AbleOperation
    BY DEF Able!Previewed
  <2> QED BY <2>1, <2>3, <2>4
<1>3. CASE UNCHANGED Able!vars
  BY <1>3, AbleSameChecks DEF Able!vars, Able!Answered
<1> QED BY <1>1, <1>2, <1>3 DEF Able!Next

(* A check that finds nothing wrong leaves no error.                            *)
LEMMA AbleNoError == ASSUME NEW wrong, NEW table, Able!When(wrong, table) = {} PROVE ~wrong
BY DEF Able!When

(* A manifest without errors has operations that agree with their contracts.   *)
LEMMA AbleDesktopAgrees ==
  ASSUME Able!IInv, Able!ManifestErrors = {}
  PROVE  /\ {"proposed", "protected"} \subseteq Able!m.previewed
         /\ \A o \in AbleOperation : Able!m.desktop[o].status \in {"implemented", "gap"}
         /\ \A o \in AbleOperation : Able!m.desktop[o].status = "implemented" => Able!Agrees(Able!m.desktop[o])
<1>1. Able!DesktopErrors = {} /\ Able!ApprovalErrors = {}
  BY DEF Able!ManifestErrors
<1>2. {"proposed", "protected"} \subseteq Able!m.previewed
  BY <1>1, AbleNoError DEF Able!ApprovalErrors
<1>3. ~ \E o \in AbleOperation : LET d == Able!m.desktop[o]
         IN \/ d.status = "implemented" /\ ~Able!Agrees(d)
            \/ d.status = "gap" /\ ~d.profile
            \/ d.status = "other"
  BY <1>1, AbleNoError DEF Able!DesktopErrors
<1>4. \A o \in AbleOperation : Able!m.desktop[o].status \in {"implemented", "gap", "other"}
  BY DEF Able!IInv, Able!TypeOK, Able!Manifest, Able!m
<1> QED BY <1>2, <1>3, <1>4

(* A server without errors exports what is declared if it writes, and no more. *)
LEMMA AbleServerAgrees ==
  ASSUME Able!IInv, Able!RuntimeErrors = {}
  PROVE  /\ Able_exported \subseteq Able!Declared /\ Able!m.readOnlyProfile \cap Able_mutating \cap Able_exported = {}
         /\ Able!WritesPresent => Able!Declared \subseteq Able_exported
<1>1. /\ Able!When(Able!Undeclared # {}, "undeclared") = {}
      /\ Able!When(Able!m.readOnlyProfile \cap Able_mutating \cap Able_exported # {}, "read_only_profile") = {}
      /\ Able!When(Able!WritesPresent /\ ~(Able!Declared \subseteq Able_exported), "not_exported") = {}
  BY DEF Able!RuntimeErrors
<1>2. ~(Able!Undeclared # {})
  BY <1>1, AbleNoError
<1>3. ~(Able!m.readOnlyProfile \cap Able_mutating \cap Able_exported # {})
  BY <1>1, AbleNoError
<1>4. ~(Able!WritesPresent /\ ~(Able!Declared \subseteq Able_exported))
  BY <1>1, AbleNoError
<1> QED BY <1>2, <1>3, <1>4 DEF Able!Undeclared

(* Operations that are implemented and those that are gaps add up.             *)
LEMMA AbleTwoCounts ==
  ASSUME \A o \in AbleOperation : Able!m.desktop[o].status \in {"implemented", "gap"}
  PROVE  Cardinality(Able!Having("implemented")) + Cardinality(Able!Having("gap")) = Cardinality(AbleOperation)
<1>1. Able!Having("implemented") \cup Able!Having("gap") = AbleOperation /\ Able!Having("implemented") \cap Able!Having("gap") = {}
  BY DEF Able!Having
<1>2. IsFiniteSet(Able!Having("implemented")) /\ IsFiniteSet(Able!Having("gap"))
  BY AbleAssumption, FS_Subset DEF Able!Having
<1>3. Cardinality({}) = 0
  BY FS_EmptySet
<1>4. Cardinality(AbleOperation) = Cardinality(Able!Having("implemented")) + Cardinality(Able!Having("gap")) - Cardinality({})
  BY <1>1, <1>2, FS_Union
<1>5. Cardinality(Able!Having("implemented")) \in Nat /\ Cardinality(Able!Having("gap")) \in Nat
  BY <1>2, FS_CardinalityType
<1> QED BY <1>3, <1>4, <1>5

(* What the invariant says of an answer without errors.                        *)
LEMMA AbleHolds == Able!IInv => Able!TypeOK /\ Able!ContractHolds
<1> SUFFICES ASSUME Able!IInv, Able_pc = "resolved", Able_errors = {}
             PROVE  Able!ContractHolds
  BY DEF Able!IInv, Able!ContractHolds, Able!ProtectedIsPreviewed, Able!ReadOnlyReadsOnly, Able!ReadyServes
<1>1. Able!ManifestErrors = {} /\ Able_preview = Able!Previewed /\ (Able_mode = "manifest_only" \/ (Able_mode = Able!ModeOf /\ Able!RuntimeErrors = {}))
  BY DEF Able!IInv, Able!Answered
<1>2. Able!ProtectedIsPreviewed
  BY <1>1, AbleDesktopAgrees DEF Able!ProtectedIsPreviewed, Able!Previewed, Able!Agrees
<1>3. ASSUME Able_mode = "read_only", Able!m.read \subseteq Able!m.readOnlyProfile PROVE Able_mutating = {}
  <2>1. Able_mode = Able!ModeOf /\ Able!RuntimeErrors = {}
    BY <1>1, <1>3
  <2>2. ~Able!WritesPresent
    BY <1>3, <2>1 DEF Able!ModeOf, Able!ReadOnlyRuntime
  <2>3. Able_exported \subseteq Able!m.read
    BY <2>1, <2>2, AbleServerAgrees DEF Able!Declared, Able!WritesPresent, Able!RawExported
  <2> QED BY <1>3, <2>1, <2>3, AbleServerAgrees DEF Able!IInv, Able!TypeOK
<1>4. Able!Summary.implemented + Able!Summary.gaps = Cardinality(AbleOperation)
  <2>1. Able!Summary.implemented = Cardinality(Able!Having("implemented")) /\ Able!Summary.gaps = Cardinality(Able!Having("gap"))
    BY DEF Able!Summary
  <2> QED BY <1>1, <2>1, AbleDesktopAgrees, AbleTwoCounts
<1>5. ASSUME Able!Summary.status = "ready", Able!WritesPresent, NEW o \in Able!Having("implemented")
      PROVE  Able!m.desktop[o].tool \in Able_exported
  <2>1. Able_mode # "manifest_only"
    <3>1. Able_mode = "manifest_only" => Able!Summary.status = "info"
      BY DEF Able!Summary
    <3> QED BY <1>5, <3>1
  <2>2. Able!RuntimeErrors = {}
    BY <1>1, <2>1
  <2>3. Able!m.desktop[o].tool \in Able!m.semantic
    BY <1>1, <1>5, AbleDesktopAgrees DEF Able!Having, Able!Agrees
  <2> QED BY <1>5, <2>2, <2>3, AbleServerAgrees DEF Able!Declared
<1> QED BY <1>2, <1>3, <1>4, <1>5 DEF Able!ContractHolds, Able!ReadOnlyReadsOnly, Able!ReadyServes

(* resolve_memory_capabilities.py: what an error-free manifest promises of previews and     *)
(* read-only servers holds, for any tools, operations and manifests.                        *)
THEOREM ContractsHold == Spec => []ContractHolds
<1> DEFINE Inv == part = "capabilities" => Able!IInv
<1>1. Init => Inv
  BY AbleInitIInv DEF Init
<1>2. Inv /\ [Next]_vars => Inv'
  <2>1. ASSUME part = "capabilities", Able!IInv, [Next]_vars PROVE Able!IInv'
    BY <2>1, AbleNextIInv DEF Next, vars, Able!vars
  <2>2. [Next]_vars => part' = part
    BY DEF Next, vars
  <2> QED BY <2>1, <2>2
<1>3. Inv => ContractHolds
  BY AbleHolds DEF ContractHolds
<1> QED
  BY <1>1, <1>2, <1>3, PTL DEF Spec

HIDE AbleCardinality
HIDE DEF Able_manifest, Able_exported, Able_mutating, Able_pc, Able_errors, Able_mode, Able_preview

-----------------------------------------------------------------------------
(* RepoValidation. *)
Valid_files == x1
Valid_rows == x2
Valid_removed == x3
Valid_layout == x4
Valid_day == x5
Valid_pc == x6
Valid_errors == x7
Valid_gaps == x8
Valid_events == x9
USE DEF Valid_files, Valid_rows, Valid_removed, Valid_layout, Valid_day, Valid_pc, Valid_errors,
  Valid_gaps, Valid_events

(* Some number of a bounded set is the highest.                                *)
LEMMA ValidHasHighest ==
  ASSUME NEW M \in Nat, NEW D \in SUBSET (0 .. M), D # {}
  PROVE  \E d \in D : \A e \in D : e <= d
<1> DEFINE L == {M - d : d \in D}
<1>1. L \in SUBSET Nat /\ L # {}
  <2>1. \A d \in D : M - d \in Nat
    OBVIOUS
  <2> QED BY <2>1
<1>2. PICK l \in L : \A e \in L : l <= e
  <2> HIDE DEF L
  <2> QED BY <1>1, HasLowest
<1>3. PICK d \in D : l = M - d
  OBVIOUS
<1>4. \A e \in D : M - d <= M - e
  BY <1>2, <1>3
<1>5. d \in 0 .. M /\ \A e \in D : e \in 0 .. M
  OBVIOUS
<1>6. \A e \in 0 .. M : M - d <= M - e => e <= d
  BY <1>5
<1> QED BY <1>4, <1>5, <1>6

(* No row is written, and no report given.                                     *)
LEMMA ValidInitIInv == Valid!Init => Valid!IInv
<1> SUFFICES ASSUME Valid!Init PROVE Valid!IInv
  OBVIOUS
<1>1. /\ Valid_files = [p \in ValidPath |-> Valid!NoFile] /\ Valid_rows = {} /\ Valid_removed = {} /\ Valid_layout \in ValidLayouts
      /\ Valid_day = 0 /\ Valid_pc = "idle" /\ Valid_errors = {} /\ Valid_gaps = {}
  BY DEF Valid!Init
<1>2. Valid!TypeOK
  BY <1>1, ValidAssumption DEF Valid!TypeOK
<1> QED BY <1>1, <1>2 DEF Valid!IInv, Valid!RowsRooted, Valid!RowsStand, Valid!GapsAreReal

(* A file is never mistaken for none.                                          *)
LEMMA ValidFilesThere ==
  /\ Valid!NoFile \notin Valid!File
  /\ \A f \in Valid!File, s \in {"none", "found", "unresolved"} : [f EXCEPT !.successor = s] \in Valid!File
  /\ \A f \in Valid!File : [f EXCEPT !.verified = TRUE] \in Valid!File
<1>1. Valid!NoFile \notin Valid!File
  BY DEF Valid!NoFile, Valid!File
<1>2. \A f \in Valid!File, s \in {"none", "found", "unresolved"} : [f EXCEPT !.successor = s] \in Valid!File
  BY DEF Valid!File
<1>3. \A f \in Valid!File : [f EXCEPT !.verified = TRUE] \in Valid!File
  BY DEF Valid!File
<1> QED BY <1>1, <1>2, <1>3

(* Whoever writes leaves the rows rooted and an earlier report behind.          *)
LEMMA ValidWriterStep ==
  ASSUME Valid!IInv, Valid!Writes, Valid!Kept, Valid_files' \in [ValidPath -> Valid!File \cup {Valid!NoFile}], Valid_removed' \subseteq ValidPath, Valid_removed \subseteq Valid_removed',
         \A p \in ValidPath : Valid!Exists(p) => Valid!Exists(p)' \/ p \in Valid_removed',
         Valid_rows' \subseteq Valid!Row,
         \A r \in Valid_rows' : \/ r \in Valid_rows
                          \/ /\ r.plain => r.rooted /\ r.home = ValidHome[r.file]
                             /\ r.told => Valid!Exists(r.file)' \/ r.file \in Valid_removed'
                          \/ \E q \in Valid_rows : /\ r.rooted = q.rooted /\ r.home = q.home /\ r.file = q.file
                                            /\ r.plain = q.plain /\ r.told = q.told
  PROVE  Valid!IInv'
<1>1. /\ Valid_pc' # "done" /\ UNCHANGED <<Valid_layout, Valid_day, Valid_errors, Valid_gaps>>
  BY DEF Valid!Writes, Valid!Kept
<1>2. Valid!TypeOK'
  BY <1>1 DEF Valid!IInv, Valid!TypeOK
<1>3. Valid!RowsRooted'
  <2> DEFINE Good(r) == (r.plain => r.rooted /\ r.home = ValidHome[r.file]) /\ (r.told => Valid!Exists(r.file)' \/ r.file \in Valid_removed')
  <2>1. ASSUME NEW r \in Valid_rows PROVE Good(r)
    <3>1. r.file \in ValidPath
      BY DEF Valid!IInv, Valid!TypeOK, Valid!Row
    <3> QED BY <3>1 DEF Valid!IInv, Valid!RowsRooted
  <2>2. ASSUME NEW r \in Valid_rows', NEW q \in Valid_rows, r.rooted = q.rooted, r.home = q.home, r.file = q.file,
               r.plain = q.plain, r.told = q.told
        PROVE  Good(r)
    BY <2>1, <2>2
  <2>3. ASSUME NEW r \in Valid_rows' PROVE Good(r)
    BY <2>1, <2>2
  <2> QED BY <2>3 DEF Valid!RowsRooted
<1>4. Valid!RowsStand'
  BY <1>1 DEF Valid!IInv, Valid!RowsStand
<1>5. Valid!GapsAreReal'
  BY <1>1 DEF Valid!GapsAreReal
<1> QED BY <1>2, <1>3, <1>4, <1>5 DEF Valid!IInv

(* Sessions and people.                                                        *)
LEMMA ValidWriterSteps ==
  ASSUME Valid!IInv,
         \/ \E p \in ValidPath, t \in {"low", "medium"} : Valid!PromoteNote(p, t)
         \/ \E p, q \in ValidPath : Valid!SupersedeFile(p, q)
         \/ \E c \in ValidCalls, s \in {"act", "cli"} : Valid!EndSession(c, s)
         \/ \E p \in ValidPath : Valid!Author(p) \/ Valid!Review(p) \/ Valid!Remove(p)
         \/ Valid!Archive
  PROVE  Valid!IInv'
<1> USE DEF Valid!Exists
<1>1. /\ Valid_files \in [ValidPath -> Valid!File \cup {Valid!NoFile}] /\ Valid_rows \subseteq Valid!Row /\ Valid_removed \subseteq ValidPath /\ Valid_day \in 0 .. ValidMaxDay
  BY DEF Valid!IInv, Valid!TypeOK
<1>2. ASSUME NEW p \in ValidPath, NEW f \in Valid!File, Valid_files' = [Valid_files EXCEPT ![p] = f], Valid!Writes, Valid!Kept, UNCHANGED <<Valid_rows, Valid_removed>>
      PROVE  Valid!IInv'
  <2>1. Valid_files' \in [ValidPath -> Valid!File \cup {Valid!NoFile}] /\ \A x \in ValidPath : Valid!Exists(x) => Valid!Exists(x)'
    BY <1>1, <1>2, ValidFilesThere
  <2> QED BY <1>1, <1>2, <2>1, ValidWriterStep
<1>3. ASSUME NEW p \in ValidPath, NEW t \in {"low", "medium"}, Valid!PromoteNote(p, t) PROVE Valid!IInv'
  <2>1. [keys |-> FALSE, trust |-> t, verified |-> FALSE, successor |-> "none", by |-> "session"] \in Valid!File
    BY DEF Valid!File
  <2> QED BY <1>2, <1>3, <2>1 DEF Valid!PromoteNote, Valid!Write
<1>4. ASSUME NEW p \in ValidPath, NEW q \in ValidPath, Valid!SupersedeFile(p, q) PROVE Valid!IInv'
  <2> DEFINE f == [Valid_files[p] EXCEPT !.successor = "unresolved"]
  <2> DEFINE g == [Valid!NoFile EXCEPT !.trust = "medium", !.by = "session"]
  <2>1. f \in Valid!File
    BY <1>1, <1>4, ValidFilesThere DEF Valid!SupersedeFile
  <2>2. g \in Valid!File
    BY DEF Valid!NoFile, Valid!File
  <2>3. p # q /\ Valid_files' = [Valid_files EXCEPT ![p].successor = "unresolved", ![q] = g] /\ Valid!Writes /\ Valid!Kept /\ UNCHANGED <<Valid_rows, Valid_removed>>
    BY <1>4 DEF Valid!SupersedeFile
  <2>4. Valid_files' = [[Valid_files EXCEPT ![p] = f] EXCEPT ![q] = g]
    BY <2>3, Zenon
  <2> HIDE DEF f, g
  <2>5. Valid_files' \in [ValidPath -> Valid!File \cup {Valid!NoFile}] /\ \A x \in ValidPath : Valid!Exists(x) => Valid!Exists(x)'
    BY <1>1, <2>1, <2>2, <2>4, ValidFilesThere
  <2> QED BY <1>1, <2>3, <2>5, ValidWriterStep
<1>5. ASSUME NEW c \in ValidCalls, NEW s \in {"act", "cli"}, Valid!EndSession(c, s) PROVE Valid!IInv'
  <2> DEFINE r == Valid!RowOf(c, s)
  <2>0. c.file \in ValidPath /\ c.home \in ValidNameSpace /\ c.dotted \in BOOLEAN /\ c.told \in BOOLEAN
    BY ValidAssumption DEF Valid!Call
  <2>1. r \in Valid!Row
    BY <1>1, <2>0 DEF Valid!RowOf, Valid!Row, Valid!Plain
  <2>2. r.file = c.file /\ (r.told => c.told) /\ (r.plain => r.rooted /\ r.home = ValidHome[r.file])
    BY <2>0 DEF Valid!RowOf, Valid!Plain
  <2>3. /\ Valid_rows' = Valid_rows \cup {r} /\ Valid!Writes /\ Valid!Kept /\ UNCHANGED <<Valid_files, Valid_removed>>
        /\ c.told => Valid!Exists(c.file) \/ c.file \in Valid_removed
    BY <1>5 DEF Valid!EndSession
  <2> HIDE DEF r
  <2> QED BY <1>1, <2>1, <2>2, <2>3, ValidWriterStep
<1>6. ASSUME NEW p \in ValidPath, Valid!Author(p) PROVE Valid!IInv'
  <2> DEFINE t == IF p \in ValidQuarantine THEN "low" ELSE "high"
  <2>1. [keys |-> TRUE, trust |-> t, verified |-> FALSE, successor |-> "none", by |-> "person"] \in Valid!File
    BY DEF Valid!File
  <2> QED BY <1>2, <1>6, <2>1 DEF Valid!Author, Valid!Write
<1>7. ASSUME NEW p \in ValidPath, Valid!Review(p) PROVE Valid!IInv'
  <2>1. Valid_files[p] \in Valid!File
    BY <1>1, <1>7 DEF Valid!Review
  <2>2. [Valid_files[p] EXCEPT !.verified = TRUE] \in Valid!File
    BY <2>1, ValidFilesThere
  <2> QED BY <1>2, <1>7, <2>2 DEF Valid!Review
<1>8. ASSUME NEW p \in ValidPath, Valid!Remove(p) PROVE Valid!IInv'
  <2>1. Valid_files' = [Valid_files EXCEPT ![p] = Valid!NoFile] /\ Valid_removed' = Valid_removed \cup {p} /\ Valid!Writes /\ Valid!Kept /\ UNCHANGED Valid_rows
    BY <1>8 DEF Valid!Remove
  <2> QED BY <1>1, <2>1, ValidWriterStep
<1>9. CASE Valid!Archive
  <2>1. PICK q \in Valid_rows : Valid_rows' = (Valid_rows \ {q}) \cup {[q EXCEPT !.archived = TRUE]}
    BY <1>9 DEF Valid!Archive
  <2> DEFINE r == [q EXCEPT !.archived = TRUE]
  <2>2. r \in Valid!Row /\ r.rooted = q.rooted /\ r.home = q.home /\ r.file = q.file /\ r.plain = q.plain /\ r.told = q.told
    BY <1>1 DEF Valid!Row
  <2>3. Valid!Writes /\ Valid!Kept /\ UNCHANGED <<Valid_files, Valid_removed>>
    BY <1>9 DEF Valid!Archive
  <2>4. Valid_rows' = (Valid_rows \ {q}) \cup {r}
    BY <2>1
  <2> HIDE DEF r
  <2> QED BY <1>1, <2>2, <2>3, <2>4, ValidWriterStep
<1> QED BY <1>3, <1>4, <1>5, <1>6, <1>7, <1>8, <1>9

(* The gate objects to a row only when its file was removed or its session has  *)
(* no canonical name.                                                          *)
LEMMA ValidRowsStep ==
  ASSUME Valid!IInv, Valid!Rows
  PROVE  Valid!IInv'
<1>1. Valid_errors' = Valid_errors \cup UNION {Valid!RowErrors(r) : r \in Valid_rows} /\ Valid_pc' = "coverage"
      /\ UNCHANGED <<Valid_files, Valid_rows, Valid_removed, Valid_layout, Valid_day, Valid_gaps>>
  BY DEF Valid!Rows
<1>2. ASSUME NEW r \in Valid_rows, NEW e \in Valid!RowErrors(r), e.what.plain, e.what.told PROVE e.what.session = "cli" \/ e.what.file \in Valid_removed
  <2>1. e = [kind |-> "row", what |-> r] /\ (Valid!Owner(r) # {r.home} \/ ~Valid!Exists(r.file) \/ r.session = "cli")
    BY DEF Valid!RowErrors, Valid!If
  <2>3. e.what = r
    BY <2>1
  <2>2. Valid!Owner(r) = {r.home}
    BY <1>2, <2>3 DEF Valid!IInv, Valid!RowsRooted, Valid!Owner
  <2> QED BY <1>2, <2>1, <2>2, <2>3 DEF Valid!IInv, Valid!RowsRooted
<1>3. Valid!RowsStand'
  <2>1. ASSUME NEW e \in Valid_errors', e.kind = "row", e.what.plain, e.what.told PROVE e.what.session = "cli" \/ e.what.file \in Valid_removed
    BY <1>1, <1>2, <2>1 DEF Valid!IInv, Valid!RowsStand
  <2> QED BY <1>1, <2>1 DEF Valid!RowsStand
<1> QED BY <1>1, <1>3 DEF Valid!IInv, Valid!TypeOK, Valid!RowsRooted, Valid!Exists, Valid!GapsAreReal

(* A gap that the gate reports is there.                                       *)
LEMMA ValidCoverageStep ==
  ASSUME Valid!IInv, Valid!Coverage
  PROVE  Valid!IInv'
<1>1. Valid_gaps' = {f \in ValidCovered : Valid!Gap(f)} /\ UNCHANGED <<Valid_files, Valid_rows, Valid_removed, Valid_layout, Valid_day, Valid_errors>>
  BY DEF Valid!Coverage
<1>2. ASSUME NEW f, Valid!Gap(f), NEW r \in Valid_rows, ValidHome[r.file] = f, r.plain PROVE Valid_day - r.day >= ValidWindow
  <2>1. Valid!Owner(r) = {f}
    BY <1>2 DEF Valid!Owner, Valid!IInv, Valid!RowsRooted
  <2>2. r.day \in Valid!Days(f)
    BY <2>1 DEF Valid!Days
  <2>3. Valid!Days(f) \in SUBSET (0 .. ValidMaxDay) /\ Valid_day \in 0 .. ValidMaxDay
    BY DEF Valid!Days, Valid!IInv, Valid!TypeOK, Valid!Row
  <2>4. \E d \in Valid!Days(f) : \A e \in Valid!Days(f) : e <= d
    BY <2>2, <2>3, ValidHasHighest, ValidAssumption
  <2>5. Valid!LastSeen(f) \in Valid!Days(f) /\ \A e \in Valid!Days(f) : e <= Valid!LastSeen(f)
    BY <2>4 DEF Valid!LastSeen
  <2>6. Valid_day - Valid!LastSeen(f) >= ValidWindow
    BY <1>2, <2>2 DEF Valid!Gap
  <2>7. r.day <= Valid!LastSeen(f) /\ Valid!LastSeen(f) \in Nat /\ r.day \in Nat /\ Valid_day \in Nat
    BY <2>2, <2>3, <2>5
  <2>8. ASSUME NEW x \in Nat, NEW y \in Nat, NEW z \in Nat, x <= y, z - y >= ValidWindow PROVE z - x >= ValidWindow
    BY <2>8, ValidAssumption
  <2> QED BY <2>6, <2>7, <2>8
<1>3. Valid!GapsAreReal'
  BY <1>1, <1>2 DEF Valid!GapsAreReal
<1> QED BY <1>1, <1>3 DEF Valid!IInv, Valid!TypeOK, Valid!RowsRooted, Valid!Exists, Valid!RowsStand

(* No step of the gate or of a writer makes a verdict wrong.                   *)
LEMMA ValidNextIInv == Valid!IInv /\ [Valid!Next]_Valid!vars => Valid!IInv'
<1> SUFFICES ASSUME Valid!IInv, [Valid!Next]_Valid!vars PROVE Valid!IInv'
  OBVIOUS
<1>1. CASE Valid!NewDay
  <2>1. /\ Valid_day' \in 0 .. ValidMaxDay /\ Valid_pc' # "done" /\ UNCHANGED <<Valid_files, Valid_rows, Valid_removed, Valid_layout, Valid_errors, Valid_gaps>>
    BY <1>1, ValidAssumption DEF Valid!NewDay, Valid!Writes, Valid!IInv, Valid!TypeOK
  <2> QED BY <2>1 DEF Valid!IInv, Valid!TypeOK, Valid!RowsRooted, Valid!RowsStand, Valid!GapsAreReal,
       Valid!Exists
<1>2. CASE Valid!Manifests
  <2>1. Valid_pc' = "notes" /\ Valid_gaps' = {} /\ UNCHANGED <<Valid_files, Valid_rows, Valid_removed, Valid_layout, Valid_day>>
    BY <1>2 DEF Valid!Manifests
  <2>2. \A e \in Valid_errors' : e.kind = "document"
    <3>1. ASSUME NEW wrong, NEW d, NEW e \in Valid!If(wrong, [kind |-> "document", what |-> d]) PROVE e.kind = "document"
      BY DEF Valid!If
    <3>2. \A d : \A e \in Valid!DocumentErrors(d) : e.kind = "document"
      BY <3>1 DEF Valid!DocumentErrors
    <3>3. \A e \in Valid!TopologyErrors \cup Valid!StepErrors : e.kind = "document"
      BY <3>1, <3>2 DEF Valid!TopologyErrors, Valid!StepErrors
    <3>4. \A e \in Valid!RouterErrors \cup Valid!StartupErrors \cup Valid!RuntimeErrors \cup Valid!ConsistencyErrors \cup Valid!NavigatorErrors : e.kind = "document"
      BY <3>2 DEF Valid!RouterErrors, Valid!StartupErrors, Valid!RuntimeErrors, Valid!ConsistencyErrors,
           Valid!NavigatorErrors
    <3>5. \A e \in Valid!SourceErrors : e.kind = "document"
      BY <3>2 DEF Valid!SourceErrors, Valid!ReadinessErrors, Valid!GuidanceErrors, Valid!PromptErrors
    <3> QED BY <1>2, <3>3, <3>4, <3>5 DEF Valid!Manifests
  <2> QED BY <2>1, <2>2 DEF Valid!IInv, Valid!TypeOK, Valid!RowsRooted, Valid!RowsStand, Valid!GapsAreReal,
       Valid!Exists
<1>3. CASE Valid!Notes
  <2>1. /\ Valid_pc' = "rows" /\ UNCHANGED <<Valid_files, Valid_rows, Valid_removed, Valid_layout, Valid_day, Valid_gaps>>
        /\ Valid_errors' = Valid_errors \cup UNION {Valid!QuarantineErrors(p) \cup Valid!FrontMatterErrors(p) : p \in Valid!ContentFiles}
    BY <1>3 DEF Valid!Notes
  <2>2. \A p : \A e \in Valid!QuarantineErrors(p) \cup Valid!FrontMatterErrors(p) : e.kind # "row"
    <3>1. ASSUME NEW p, NEW e \in Valid!QuarantineErrors(p) PROVE e.kind # "row"
      BY DEF Valid!QuarantineErrors, Valid!If
    <3>2. ASSUME NEW p, NEW e \in Valid!FrontMatterErrors(p) PROVE e.kind # "row"
      <4>1. e = [kind |-> "front matter", what |-> p]
        BY DEF Valid!FrontMatterErrors, Valid!If
      <4>2. e.kind = "front matter"
        BY <4>1, Zenon
      <4> QED BY <4>2, Zenon
    <3> QED BY <3>1, <3>2
  <2>3. Valid!RowsStand'
    BY <2>1, <2>2 DEF Valid!IInv, Valid!RowsStand
  <2> QED BY <2>1, <2>3 DEF Valid!IInv, Valid!TypeOK, Valid!RowsRooted, Valid!GapsAreReal, Valid!Exists
<1>4. CASE UNCHANGED Valid!vars
  BY <1>4 DEF Valid!vars, Valid!IInv, Valid!TypeOK, Valid!RowsRooted, Valid!RowsStand, Valid!GapsAreReal,
       Valid!Exists
<1> QED BY <1>1, <1>2, <1>3, <1>4, ValidWriterSteps, ValidRowsStep, ValidCoverageStep DEF Valid!Next

(* What the invariant says of verdicts.                                        *)
LEMMA ValidHolds == Valid!IInv => Valid!TypeOK /\ Valid!VerdictsStand
BY DEF Valid!IInv, Valid!VerdictsStand

(* validate_memory_repo.py: rows of files that calls named plainly and told pass the gate   *)
(* unless the file is removed, and the gaps it reports are there, for any files, homes,      *)
(* windows, calls and deletions.                                                             *)
THEOREM VerdictsAlwaysStand == Spec => []VerdictsStand
<1> DEFINE Inv == part = "validation" => Valid!IInv
<1>1. Init => Inv
  BY ValidInitIInv DEF Init
<1>2. Inv /\ [Next]_vars => Inv'
  <2>1. ASSUME part = "validation", Valid!IInv, [Next]_vars PROVE Valid!IInv'
    BY <2>1, ValidNextIInv DEF Next, vars, Valid!vars
  <2>2. [Next]_vars => part' = part
    BY DEF Next, vars
  <2> QED BY <2>1, <2>2
<1>3. Inv => VerdictsStand
  BY ValidHolds DEF VerdictsStand
<1> QED
  BY <1>1, <1>2, <1>3, PTL DEF Spec

HIDE DEF Valid_files, Valid_rows, Valid_removed, Valid_layout, Valid_day, Valid_pc, Valid_errors,
  Valid_gaps, Valid_events

====

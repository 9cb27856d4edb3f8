------------------------------ MODULE DecaySweep ------------------------------
(***************************************************************************)
(* The lifecycle of memory files (trust_decay.py, cmd_decay.py): sessions   *)
(* leave access rows, `harness decay-sweep` joins them with the files'       *)
(* front matter, rates every file and writes the two advisory lists of one  *)
(* namespace, and a person acts on them.  Scores are whole   *)
(* numbers of ten-thousandths.  A sweep can fail or be       *)
(* killed between two of its writes; what it caches for the agent's tool is    *)
(* rounded to thousandths, and the tool shows no more rows than its limit.     *)
(***************************************************************************)
EXTENDS Naturals, FiniteSets

CONSTANTS
  File, FrontMatter,             \* <<trust, source>> pairs
  Helpfulness,                   \* the ratings of an access
  DecayFactor(_),                \* 0.5 ^ (days / half-life)
  Limit,                         \* rows of a side that the tool shows
  MaxDay, MaxAccesses, MaxEvents,
  PromoteMinAccesses, DemoteMinAccesses   \* of CandidateThresholds

VARIABLES
  today,
  files,      \* the front matter of each file; NoFile: there is none
  access,     \* of each file: its rows in ACCESS.jsonl, added up
  cached, cache,   \* is there a _lifecycle.jsonl, and the view in it
  lists,      \* _promote_candidates.md and _demote_candidates.md, {} if absent
  head,       \* the two as last committed
  pc, view, changed, failed,   \* the sweep that runs
  events
memory == <<today, files, access>>
outcome == <<view, changed, failed>>
vars == <<memory, cached, cache, lists, head, pc, outcome, events>>

NoFile == [trust |-> "none", source |-> "no file", created |-> 0]
Kind == {"promote", "demote"}
Trust == {"high", "medium", "low"}
TrustScore(trust) == CASE trust = "high" -> 10000 [] trust = "medium" -> 6000 [] trust = "low" -> 3000
NoAccess == [count |-> 0, last |-> 0, sum |-> 0, rated |-> 0]

Init ==
  /\ today = 0 /\ files = [f \in File |-> NoFile] /\ access = [f \in File |-> NoAccess]
  /\ cached = FALSE /\ cache = {} /\ lists = [k \in Kind |-> {}] /\ head = [k \in Kind |-> {}]
  /\ pc = "idle" /\ view = {} /\ changed = {} /\ failed = FALSE /\ events = 0

-----------------------------------------------------------------------------
(* What sessions and people do. *)
Others ==
  /\ events < MaxEvents /\ events' = events + 1
  /\ UNCHANGED <<cached, cache, lists, head, pc, view, changed, failed>>

NewDay == today < MaxDay /\ today' = today + 1 /\ UNCHANGED <<files, access>> /\ Others

\* A session or a person writes a file, or changes its trust or its source; a file
\* without a trust, or with one that is none, is possible.
Edit(f) ==
  /\ \E fm \in FrontMatter :
       files' = [files EXCEPT ![f] =
         [trust |-> fm[1], source |-> fm[2], created |-> IF @ = NoFile THEN today ELSE @.created]]
  /\ UNCHANGED <<today, access>> /\ Others

\* An access row: its date, and how much the file helped, if anyone could tell.
Access(f) ==
  /\ files[f] # NoFile /\ access[f].count < MaxAccesses
  /\ \E help \in Helpfulness, rated \in {0, 1} :
       access' = [access EXCEPT ![f] =
         [count |-> @.count + 1, last |-> today, sum |-> @.sum + help * rated, rated |-> @.rated + rated]]
  /\ UNCHANGED <<today, files>> /\ Others

-----------------------------------------------------------------------------
(* The rating of a file. *)

\* A file never accessed counts from its creation.  The mean of no ratings is 0.
Days(f) == today - (IF access[f].count = 0 THEN files[f].created ELSE access[f].last)
EffectiveTrust(f) == (TrustScore(files[f].trust) * DecayFactor(Days(f))) \div 10000
Mean(stats) == IF stats.rated = 0 THEN 0 ELSE stats.sum \div stats.rated

\* One row of the view.
Row(f) == [file |-> f, base |-> files[f].trust, count |-> access[f].count,
           mean |-> Mean(access[f]), effective |-> EffectiveTrust(f)]

\* compute_lifecycle_view: not the user's own statements, nor what has no trust.
UserStated(f) == files[f].source = "user-stated"
Rated(f) == files[f] # NoFile /\ ~UserStated(f) /\ files[f].trust \in Trust
View == {Row(f) : f \in {g \in File : Rated(g)}}

Promote(row) ==
  /\ row.effective >= 5000 /\ row.count >= PromoteMinAccesses
  /\ row.mean >= 7000 /\ row.base # "high"
Demote(row) ==
  /\ row.effective <= 2000 /\ row.count >= DemoteMinAccesses
  /\ row.mean <= 3000 /\ row.base # "low"

Candidates(rows, kind) ==
  {r.file : r \in {q \in rows : IF kind = "promote" THEN Promote(q) ELSE Demote(q)}}

\* FileLifecycle.to_dict: a row as it is cached.
Rounded(x) == ((x + 5) \div 10) * 10
Saved(row) == [file |-> row.file, base |-> row.base, count |-> row.count,
               mean |-> Rounded(row.mean), effective |-> Rounded(row.effective)]

\* memory_lifecycle_review: the rows of the cache if there is one, partitioned again;
\* of each side the first of the order by effective trust are shown.
Cached == IF cached THEN cache ELSE View
Review(kind) == Candidates(Cached, kind)
Before(r, q, kind) == IF kind = "promote" THEN r.effective > q.effective ELSE r.effective < q.effective
Shown(kind) ==
  {a \in SUBSET Review(kind) :
     \/ a = Review(kind) /\ Cardinality(a) <= Limit
     \/ /\ Cardinality(a) = Limit
        /\ \A r, q \in Cached : r.file \in Review(kind) \ a /\ q.file \in a => ~Before(r, q, kind)}

\* _historical_accuracy of a file, from the mean of its row.
Accuracy(f) == IF access[f].count = 0 THEN 5000 ELSE Mean(access[f])

-----------------------------------------------------------------------------
(* The sweep. *)
Sweep == UNCHANGED memory

Start ==
  /\ pc = "idle" /\ events < MaxEvents /\ events' = events + 1
  /\ pc' = "cache" /\ view' = View /\ changed' = {} /\ failed' = FALSE
  /\ UNCHANGED <<cached, cache, lists, head>> /\ Sweep

\* An error here, of the cache half-written or of the thresholds after it, ends the
\* namespace.
WriteCache ==
  /\ pc = "cache"
  /\ \/ pc' = "promote" /\ cached' = TRUE /\ cache' = {Saved(r) : r \in view} /\ UNCHANGED failed
     \/ /\ pc' = "commit" /\ failed' = TRUE
        /\ \/ UNCHANGED <<cached, cache>>
           \/ cached' = TRUE /\ \E part \in SUBSET view : cache' = {Saved(r) : r \in part}
  /\ UNCHANGED <<lists, head, view, changed, events>> /\ Sweep

\* Faulty variant: a list with no rows is not written, and the old one stays.
AfterWriteKeeps(kind, rows) == IF rows = {} THEN lists[kind] ELSE rows
\* One of the two lists: written if it has rows, else removed; a write that fails, or
\* that the sweep does not survive, may leave a part of it.
AfterWrite(kind, rows) == rows

WriteList(kind, next) ==
  LET rows == Candidates(view, kind)
      new == AfterWrite(kind, rows)
  IN /\ pc = kind /\ pc' = next
     /\ \/ /\ lists' = [lists EXCEPT ![kind] = new] /\ UNCHANGED failed
           /\ changed' = changed \cup (IF rows = {} /\ lists[kind] = {} THEN {} ELSE {kind})
        \/ failed' = TRUE /\ UNCHANGED changed
           /\ \/ UNCHANGED lists
              \/ rows # {} /\ \E part \in SUBSET rows : lists' = [lists EXCEPT ![kind] = part]
     /\ UNCHANGED <<cached, cache, head, view, events>> /\ Sweep

\* _commit_sweep: what this sweep wrote or removed, if the repository lets it.
Commit ==
  /\ pc = "commit" /\ pc' = "done"
  /\ \/ head' = [k \in Kind |-> IF k \in changed THEN lists[k] ELSE head[k]] /\ UNCHANGED failed
     \/ UNCHANGED head /\ failed' = TRUE
  /\ UNCHANGED <<cached, cache, lists, view, changed, events>> /\ Sweep

Finish ==
  /\ pc = "done" /\ pc' = "idle" /\ view' = {} /\ changed' = {} /\ failed' = FALSE
  /\ UNCHANGED <<cached, cache, lists, head, events>> /\ Sweep

Kill ==
  /\ pc \notin {"idle", "done"} /\ pc' = "idle" /\ view' = {} /\ changed' = {} /\ failed' = FALSE
  /\ UNCHANGED <<cached, cache, lists, head, events>> /\ Sweep

Next ==
  \/ NewDay \/ \E f \in File : Edit(f) \/ Access(f)
  \/ Start \/ WriteCache \/ WriteList("promote", "demote") \/ WriteList("demote", "commit")
  \/ Commit \/ Finish \/ Kill
Spec == Init /\ [][Next]_vars

-----------------------------------------------------------------------------
TypeOK ==
  /\ \A f \in File : access[f].rated <= access[f].count
  /\ \A k \in Kind : lists[k] \subseteq File /\ head[k] \subseteq File
  /\ changed \subseteq Kind

\* "no zombie candidates from last week's run" (cmd_decay.py:208-210): a sweep that met no
\* error leaves exactly the lists of its own view, whatever the sweeps before it that
\* failed or were killed half-way had left.  What the agent's tool then shows from the
\* cache is what is on the lists, but for rows within half a thousandth of a threshold,
\* which the rounding may take to its other side, and for what comes after its limit.
Close(x, t) == x + 5 >= t /\ t + 5 >= x
Borderline(row) ==
  Close(row.effective, 5000) \/ Close(row.effective, 2000) \/ Close(row.mean, 7000) \/ Close(row.mean, 3000)
SweepHeals ==
  pc = "done" /\ ~failed =>
    \A k \in Kind :
      /\ lists[k] = Candidates(view, k)
      /\ \A row \in view, a \in Shown(k) :
           ~Borderline(row) =>
             /\ row.file \in a => row.file \in lists[k]
             /\ row.file \in lists[k] => row.file \in a \/ Cardinality(a) = Limit

(* What it rests on, for a proof by induction: a sweep without an error has left what  *)
(* the steps it has taken leave.                                                      *)
Types ==
  /\ today \in 0 .. MaxDay /\ \A f \in File : files[f].created \in 0 .. today /\ access[f].last \in 0 .. today
  /\ access \in [File -> [count : Nat, last : Nat, sum : Nat, rated : Nat]]
  /\ lists \in [Kind -> SUBSET File] /\ head \in [Kind -> SUBSET File]
  /\ \A row \in view : row.file \in File /\ row.mean \in Nat /\ row.effective \in Nat
  /\ \A r, q \in view : r.file = q.file => r = q
WrittenSoFar ==
  /\ ~failed /\ pc \in {"promote", "demote", "commit", "done"} => cached /\ cache = {Saved(r) : r \in view}
  /\ ~failed /\ pc \in {"demote", "commit", "done"} => lists["promote"] = Candidates(view, "promote")
  /\ ~failed /\ pc \in {"commit", "done"} => lists["demote"] = Candidates(view, "demote")
IInv == TypeOK /\ Types /\ WrittenSoFar

\* Candidate lists "participate in history" (cmd_decay.py:325-326): what a sweep without an
\* error leaves is what is committed.
HistoryFollows == pc = "done" /\ ~failed => lists = head

\* "Some accesses but no helpfulness data (rows missing the field) -> also neutral
\* default" (trust_decay.py:327-329).
NoDataIsNeutral == \A row \in View : access[row.file].rated = 0 => Accuracy(row.file) = 5000
=============================================================================

------------------------------- MODULE LinkGraph -------------------------------
(***************************************************************************)
(* The link files of the memory (link_graph.py): LINKS.jsonl of one directory  *)
(* each.  The trace bridge of a session appends a row for every pair of files   *)
(* that its recalls returned together, and is run again when it was killed;      *)
(* memory_link_audit drops old rows and writes the file anew.  What a recall      *)
(* makes of the rows is in RecallRanking; the density that the decay sweep takes   *)
(* from them is at the end.  A session is known in the rows by the name of its      *)
(* directory, which is unique in its day.                                            *)
(***************************************************************************)
EXTENDS Naturals, FiniteSets, Sequences

CONSTANTS
  Sessions,
  Name, Day,      \* of each session: memory.session_id and the date of its trace
  Pair, Home,     \* pairs of files in canonical order, and their _common_namespace
  MaxAge,         \* max_age_days
  EdgeCap,        \* CROSS_REFERENCE_EDGE_CAP
  MaxRecalls, MaxAudits, MaxAgain

VARIABLES
  today,
  links,     \* the rows of each directory's file, oldest first
  together,  \* together[s][p]: the recalls of s that returned both files of p
  pc, todo,  \* of each session: the step of its bridge, the directories it has to append to
  fresh,     \* the rows it is about to append
  audit,     \* the audit under way: [pc, at, kept]
  audits, again    \* bounded: audits that write, and bridges killed or repeated
vars == <<today, links, together, pc, todo, fresh, audit, audits, again>>

Session == 1 .. Sessions
Directory == {Home[p] : p \in Pair}
Row(s, p) == [pair |-> p, name |-> Name[s], score |-> together[s][p], of |-> s]
\* A line that is no JSON: cut off, with no end of line, or run into by the next append.
Cut == [pair |-> {}, name |-> 0, score |-> 0, of |-> 0]
Garbage == [Cut EXCEPT !.score = 1]
NoAudit == [pc |-> "idle", at |-> 0, kept |-> <<>>]

Init ==
  /\ today = 0 /\ links = [d \in Directory |-> <<>>] /\ together = [s \in Session |-> [p \in Pair |-> 0]]
  /\ pc = [s \in Session |-> "live"] /\ todo = [s \in Session |-> {}] /\ fresh = [s \in Session |-> <<>>]
  /\ audit = NoAudit /\ audits = 0 /\ again = 0

\* read_edges passes over a line that cannot be parsed.
Parsed(r) == r.pair # {}
To(s, step) == pc' = [pc EXCEPT ![s] = step]
\* A set as a sequence, in some order.
InOrder(S) == CHOOSE q \in [1 .. Cardinality(S) -> S] : \A i, j \in DOMAIN q : q[i] = q[j] => i = j
Total(counts) ==
  LET sum[n \in 0 .. Len(counts)] == IF n = 0 THEN 0 ELSE sum[n - 1] + counts[n]
  IN sum[Len(counts)]
Calls(s) == LET pairs == InOrder(Pair) IN Total([i \in DOMAIN pairs |-> together[s][pairs[i]]])

-----------------------------------------------------------------------------
(* A session and its bridge. *)

Recall(s) ==
  /\ pc[s] = "live" /\ Day[s] = today /\ Calls(s) < MaxRecalls
  /\ \E p \in Pair : together' = [together EXCEPT ![s][p] = @ + 1]
  /\ UNCHANGED <<today, links, pc, todo, fresh, audit, audits, again>>

\* derive_co_retrieval_edges, grouped by directory.
Bridge(s) ==
  /\ Day[s] <= today /\ To(s, "read")
  /\ \/ pc[s] \in {"live", "killed"} /\ UNCHANGED again
     \/ pc[s] = "done" /\ again < MaxAgain /\ again' = again + 1
  /\ todo' = [todo EXCEPT ![s] = {Home[p] : p \in {q \in Pair : together[s][q] > 0}}]
  /\ UNCHANGED <<today, links, together, fresh, audit, audits>>

InNamespace(d) == {p \in Pair : Home[p] = d}
Edges(s, d) == {Row(s, p) : p \in {q \in InNamespace(d) : together[s][q] > 0}}

\* Faulty variant: append_edges, which does not look at what is there.
NewAll(edges, existing) == edges
\* The edges whose identity, of the pair and the session's name, no row has yet.
New(edges, existing) ==
  {e \in edges : \A i \in DOMAIN existing : existing[i].pair # e.pair \/ existing[i].name # e.name}

ReadLinks(s) ==
  /\ pc[s] = "read" /\ UNCHANGED <<today, links, together, audit, audits, again>>
  /\ IF todo[s] = {} THEN To(s, "done") /\ UNCHANGED <<todo, fresh>>
     ELSE \E d \in todo[s] :
            LET new == InOrder(New(Edges(s, d), links[d]))
            IN /\ fresh' = [fresh EXCEPT ![s] = new]
               /\ IF new = <<>> THEN todo' = [todo EXCEPT ![s] = @ \ {d}] /\ UNCHANGED pc
                  ELSE To(s, "append") /\ UNCHANGED todo

\* One write at the end of the file; the first row is lost when the last line there is cut.
EndsCut(rows) == rows # <<>> /\ rows[Len(rows)] = Cut
Appended(rows, new) ==
  IF EndsCut(rows) /\ new # <<>> THEN SubSeq(rows, 1, Len(rows) - 1) \o <<Garbage>> \o Tail(new) ELSE rows \o new
Target(s) == Home[fresh[s][1].pair]
AppendLinks(s) ==
  /\ pc[s] = "append" /\ To(s, "read")
  /\ links' = [links EXCEPT ![Target(s)] = Appended(@, fresh[s])]
  /\ todo' = [todo EXCEPT ![s] = @ \ {Target(s)}] /\ fresh' = [fresh EXCEPT ![s] = <<>>]
  /\ UNCHANGED <<today, together, audit, audits, again>>

\* A bridge that is killed, or finds the disk full, may have written some of its lines,
\* the last of them in part.
CutAfter(rows) == IF EndsCut(rows) THEN rows ELSE Append(rows, Cut)
Kill(s) ==
  /\ pc[s] \in {"read", "append"} /\ again < MaxAgain /\ again' = again + 1 /\ To(s, "killed")
  /\ todo' = [todo EXCEPT ![s] = {}] /\ fresh' = [fresh EXCEPT ![s] = <<>>]
  /\ \/ UNCHANGED links
     \/ /\ pc[s] = "append"
        /\ \E n \in 0 .. Len(fresh[s]) - 1 :
             links' = [links EXCEPT ![Target(s)] = CutAfter(Appended(@, SubSeq(fresh[s], 1, n)))]
  /\ UNCHANGED <<today, together, audit, audits>>

-----------------------------------------------------------------------------
(* memory_link_audit, on one directory after another; a preview changes nothing. *)

Old(r) == Day[r.of] + MaxAge < today
\* The rows that an audit keeps.
Kept(lines) ==
  LET first[n \in 0 .. Len(lines)] ==
        IF n = 0 THEN <<>>
        ELSE IF Parsed(lines[n]) /\ ~Old(lines[n]) THEN Append(first[n - 1], lines[n]) ELSE first[n - 1]
  IN first[Len(lines)]
MemoryLinkAudit == audit.pc = "idle" /\ audits < MaxAudits /\ audits' = audits + 1
ReadAudit ==
  /\ MemoryLinkAudit
  /\ \E d \in Directory :
       /\ \E i \in DOMAIN links[d] : Parsed(links[d][i]) /\ Old(links[d][i])   \* something to drop
       /\ audit' = [pc |-> "write", at |-> d, kept |-> Kept(links[d])]
  /\ UNCHANGED <<today, links, together, pc, todo, fresh, again>>

\* The file is emptied and filled; the agent's process may be killed in between.
WriteAudit ==
  /\ audit.pc = "write" /\ audit' = NoAudit
  /\ \E killed \in BOOLEAN :
       /\ again' = (IF killed THEN again + 1 ELSE again) /\ again' <= MaxAgain
       /\ links' = [links EXCEPT ![audit.at] = IF killed THEN <<>> ELSE audit.kept]
  /\ UNCHANGED <<today, together, pc, todo, fresh, audits>>

LastDay == CHOOSE n \in {Day[s] : s \in Session} : \A s \in Session : n >= Day[s]
Tick ==
  /\ today < LastDay + MaxAge + 1
  /\ today' = today + 1
  /\ UNCHANGED <<links, together, pc, todo, fresh, audit, audits, again>>

Next ==
  \/ \E s \in Session : Recall(s) \/ Bridge(s) \/ ReadLinks(s) \/ AppendLinks(s) \/ Kill(s)
  \/ ReadAudit \/ WriteAudit \/ Tick
Spec == Init /\ [][Next]_vars

-----------------------------------------------------------------------------
(* co_retrieval_density: of each file, its partners over the cap. *)
Score(p, lines) == Total([i \in DOMAIN lines |-> IF lines[i].pair = p THEN lines[i].score ELSE 0])
Density(f, threshold) ==
  LET partners == Cardinality({p \in Pair : f \in p /\ Score(p, links[Home[p]]) >= threshold})
  IN IF partners < EdgeCap THEN partners ELSE EdgeCap

Line == [pair : Pair \cup {{}}, name : Nat, score : Nat, of : {0} \cup Session]
TypeOK ==
  /\ today \in Nat /\ together \in [Session -> [Pair -> Nat]]
  /\ pc \in [Session -> {"live", "read", "append", "done", "killed"}]
  /\ todo \in [Session -> SUBSET Directory]
  /\ links \in [Directory -> Seq(Line)] /\ fresh \in [Session -> Seq(Line)]
  /\ audit.pc \in {"idle", "write"} /\ audit.kept \in Seq(Line) /\ (audit.pc = "write" => audit.at \in Directory)

\* The recalls of all sessions that returned both files of p.
Earned(p) == Total([s \in Session |-> together[s][p]])
\* A file is as densely linked as sessions have really seen it with others: killed and
\* repeated bridges, cut lines and audits never make a pair count for more than the
\* recalls that returned it (link_graph.py:216-239, :301-348).
DensityIsEarned ==
  \A threshold \in 1 .. MaxRecalls + 1, f \in UNION Pair :
    Density(f, threshold) <= Cardinality({p \in Pair : f \in p /\ threshold <= Earned(p)})

\* "trace-bridge reruns idempotent while still allowing future sessions to add fresh
\* evidence for the same pair" (link_graph.py:223-224).
FreshEvidence ==
  \A s \in Session, p \in Pair :
    audits = 0 /\ again = 0 /\ pc[s] = "done" /\ together[s][p] > 0 =>
      \E i \in DOMAIN links[Home[p]] : links[Home[p]][i].of = s /\ links[Home[p]][i].pair = p

-----------------------------------------------------------------------------
(* The inductive invariant. *)

\* A row of a pair that its session's recalls returned, in the file of the pair.
Earns(r, d, seen, step) ==
  /\ r.of \in Session /\ r.pair \in Pair /\ Home[r.pair] = d /\ r.name = Name[r.of]
  /\ r.score = seen[r.of][r.pair] /\ step[r.of] # "live"
\* No two rows are one session's of one pair.
Once(lines) == \A i, j \in DOMAIN lines :
  Parsed(lines[i]) /\ lines[i].pair = lines[j].pair /\ lines[i].of = lines[j].of => i = j
Apart(lines, new) == \A i \in DOMAIN lines, j \in DOMAIN new :
  Parsed(lines[i]) => lines[i].pair # new[j].pair \/ lines[i].of # new[j].of
LinesStand == \A d \in Directory :
  Once(links[d]) /\ \A i \in DOMAIN links[d] : Parsed(links[d][i]) => Earns(links[d][i], d, together, pc)
FreshStand == \A s \in Session : pc[s] = "append" =>
  /\ fresh[s] # <<>> /\ Once(fresh[s]) /\ Apart(links[Target(s)], fresh[s])
  /\ \A i \in DOMAIN fresh[s] : fresh[s][i].of = s /\ Earns(fresh[s][i], Target(s), together, pc)
\* What an audit writes back is in the file still.
AuditStands == audit.pc = "write" =>
  /\ Once(audit.kept)
  /\ \A i \in DOMAIN audit.kept : Parsed(audit.kept[i]) /\ \E j \in DOMAIN links[audit.at] : links[audit.at][j] = audit.kept[i]
IInv == TypeOK /\ LinesStand /\ FreshStand /\ AuditStands
=============================================================================

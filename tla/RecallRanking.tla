---------------------------- MODULE RecallRanking ----------------------------
(***************************************************************************)
(* One call of EngramMemory.recall (engram_memory.py:305-525): the back     *)
(* ends' lists are fused, weighed by past helpfulness and by the likeness   *)
(* of the session, cleared of superseded files, refilled, widened by the    *)
(* link graph and cut to k.  What the back ends find, the history of a file *)
(* and the links are chosen in Init; the rest is computed.  Scores are      *)
(* integers, in millionths.                                                 *)
(***************************************************************************)
EXTENDS Integers, Sequences, FiniteSets

CONSTANTS
  File,        \* files the back ends know
  Chunks,      \* rankings of chunks (by file) the embedding index may give
  Ranks,       \* rankings of files the BM25 index may give
  Means,       \* histories: mean helpfulness by file, in hundredths; 50 when unknown
  Likes,       \* histories: likeness to an earlier configuration, in hundredths
  LinkRows,    \* contents of the link files: sequences of [a, b, score]
  MaxK

Million == 1000000
SemScore(i) == 900000 - 100000 * i     \* similarity of the i-th chunk
BmScore(i) == 9000000 - 1000000 * i    \* Okapi score of the i-th file

VARIABLES
  chunks, ranks, scan,   \* what the indexes and the keyword scan give
  dead,       \* superseded files
  mean, like, \* history
  rows,       \* link rows, newest last
  k, keepDead, weigh,    \* arguments: k, include_superseded, rerank enabled
  stage, pool, answer

inputs == <<chunks, ranks, scan, dead, mean, like, rows, k, keepDead, weigh>>
vars == <<inputs, stage, pool, answer>>

Init ==
  /\ chunks \in Chunks /\ ranks \in Ranks
  /\ scan \in IF chunks = <<>> /\ ranks = <<>> THEN Ranks ELSE {<<>>}
  /\ dead \in SUBSET File /\ rows \in LinkRows
  /\ mean \in Means /\ like \in Likes
  /\ k \in 1..MaxK /\ keepDead \in BOOLEAN /\ weigh \in BOOLEAN
  /\ stage = "retrieve" /\ pool = <<>> /\ answer = <<>>

-----------------------------------------------------------------------------
Cut(s, n) == SubSeq(s, 1, IF Len(s) < n THEN Len(s) ELSE n)
Files(hits) == {hits[i].file : i \in DOMAIN hits}

\* Sequences one behind the other; the members of s at the places P; those with a new file.
Joined(parts) ==
  LET Go[i \in 0 .. Len(parts)] == IF i = 0 THEN <<>> ELSE Go[i - 1] \o parts[i]
  IN Go[Len(parts)]
Picked(s, P) == Joined([i \in DOMAIN s |-> IF i \in P THEN <<s[i]>> ELSE <<>>])
Firsts(s) == Picked(s, {i \in DOMAIN s : \A j \in DOMAIN s : s[j].file = s[i].file => i <= j})
Without(hits, files) == Picked(hits, {i \in DOMAIN hits : hits[i].file \notin files})

\* list.sort(reverse=True): descending by the key, ties in their old order.
Ahead(key, i, j) == key[i] > key[j] \/ (key[i] = key[j] /\ i < j)
Place(key, i) == Cardinality({j \in DOMAIN key : Ahead(key, j, i)}) + 1
Sorted(hits, key) == [n \in DOMAIN hits |-> hits[CHOOSE i \in DOMAIN hits : Place(key, i) = n]]
ByScore(hits) == Sorted(hits, [i \in DOMAIN hits |-> hits[i].score])

\* A hit; `done` when its score went through rerank (rrf_score_pre_rerank).
Hit(f, s) == [file |-> f, score |-> s, rrf |-> 0, done |-> FALSE]

\* _semantic_recall: the first chunk of each file, at most 3k files of 9k chunks.
Semantic ==
  LET near == Cut(chunks, 9 * k)
  IN Cut(Firsts([i \in DOMAIN near |-> Hit(near[i], SemScore(i))]), 3 * k)
Bm25 == Cut([i \in DOMAIN ranks |-> Hit(ranks[i], BmScore(i))], 3 * k)
\* The scan runs when both back ends are empty, and gives k files.
Keyword == IF chunks = <<>> /\ ranks = <<>>
           THEN Cut([i \in DOMAIN scan |-> Hit(scan[i], BmScore(i))], k) ELSE <<>>

\* reciprocal_rank_fusion: the hit of the first list, and the sum of 1 / (60 + rank).
RankScore(list, f) ==
  LET at == {i \in DOMAIN list : list[i].file = f}
  IN IF at = {} THEN 0 ELSE Million \div (60 + CHOOSE i \in at : TRUE)
Fuse(s, b) ==
  LET all == s \o Without(b, Files(s))
      rrf == [i \in DOMAIN all |-> RankScore(s, all[i].file) + RankScore(b, all[i].file)]
  IN Sorted([i \in DOMAIN all |-> [all[i] EXCEPT !.rrf = rrf[i]]], rrf)

Hybrid == Semantic # <<>> /\ Bm25 # <<>>
Source == IF Hybrid THEN Fuse(Semantic, Bm25) ELSE Semantic \o Bm25

\* HelpfulnessIndex.reweight: score times 0.5 + mean.  Outside the corpus: neutral.
Reweight(s, f) == (s * (50 + (IF f \in File THEN mean[f] ELSE 50))) \div 100
Weighed(h) ==
  LET base == IF Hybrid THEN h.rrf ELSE h.score
  IN [h EXCEPT !.score = Reweight(base, h.file), !.done = TRUE]
Rerank(hits) == ByScore([i \in DOMAIN hits |-> Weighed(hits[i])])

\* KLineIndex.boost: 0.15 of the likeness is added.
Boost(hits) == ByScore([i \in DOMAIN hits |-> [hits[i] EXCEPT !.score = @ + 1500 * like[hits[i].file]]])

Active(hits) == Without(hits, dead)
\* Faulty variants: no refill; a refill that takes whatever ranks next.
NoRefill(hits) == hits
AnyRefill(hits) ==
  IF Keyword # <<>> THEN hits
  ELSE hits \o Cut(Without(Source, Files(hits)), k - Len(hits))
\* Refill from the deeper ranks of the source when less than k are left.
Refill(hits) ==
  IF Keyword # <<>> \/ Len(hits) >= k THEN hits
  ELSE hits \o Cut(Without(Active(Source), Files(hits)), k - Len(hits))
\* The refills are weighed by `score`, whatever scale the others are on.
Resort(hits) ==
  ByScore([i \in DOMAIN hits |->
             IF hits[i].done THEN hits[i]
             ELSE [hits[i] EXCEPT !.score = Reweight(@, hits[i].file), !.done = TRUE]])

\* get_one_hop_neighbors: rows, not files, count towards the three of a seed.
Neighbors(seed) ==
  LET ends == [i \in DOMAIN rows |-> [file |-> IF rows[i].a = seed THEN rows[i].b ELSE rows[i].a,
                                      score |-> rows[i].score]]
  IN Cut(ByScore(Picked(ends, {i \in DOMAIN rows : seed \in {rows[i].a, rows[i].b}})), 3)
\* The neighbours of the hits, one hit after the other, those known already left out.
AllNeighbors(hits) ==
  LET Hits(near) == [n \in DOMAIN near |-> Hit(near[n].file, (near[n].score * 55) \div 100)]
  IN Joined([i \in DOMAIN hits |-> Hits(Neighbors(hits[i].file))])
Widen(hits) == ByScore(Firsts(hits \o AllNeighbors(hits)))

-----------------------------------------------------------------------------
Retrieve ==
  /\ stage = "retrieve" /\ stage' = "weigh"
  /\ pool' = IF Source = <<>> THEN Keyword ELSE Cut(Source, 2 * k)
  /\ UNCHANGED <<inputs, answer>>

Weigh ==
  /\ stage = "weigh" /\ stage' = "select"
  /\ pool' = Boost(IF weigh THEN Rerank(pool) ELSE pool)
  /\ UNCHANGED <<inputs, answer>>

Select ==
  /\ stage = "select" /\ stage' = "answer"
  /\ pool' = Cut(IF keepDead \/ pool = <<>> THEN pool
                 ELSE IF weigh THEN Resort(Refill(Active(pool))) ELSE Refill(Active(pool)), k)
  /\ UNCHANGED <<inputs, answer>>

Answer ==
  /\ stage = "answer" /\ stage' = "done"
  /\ answer' = Cut(IF rows # <<>> THEN Widen(pool) ELSE pool, k)
  /\ UNCHANGED <<inputs, pool>>

Next == Retrieve \/ Weigh \/ Select \/ Answer
Spec == Init /\ [][Next]_vars

-----------------------------------------------------------------------------
HitType == [file : File, score : Int, rrf : Int, done : BOOLEAN]
TypeOK ==
  /\ stage \in {"retrieve", "weigh", "select", "answer", "done"}
  /\ pool \in Seq(HitType) /\ Len(answer) <= k

\* A recall that is not widened answers with k files that are not superseded
\* whenever the back ends know so many, though most of the first 2k were, and
\* never twice with one file (engram_memory.py:386-431).
RefillComplete ==
  stage = "done" /\ rows = <<>> /\ ~keepDead /\ Source # <<>> =>
    /\ Files(answer) \cap dead = {}
    /\ Cardinality(Files(answer)) = Len(answer)
    /\ LET known == Files(Source) \ dead
       IN Len(answer) = IF Cardinality(known) < k THEN Cardinality(known) ELSE k

\* "backend-specific ``score`` values (semantic vs BM25 scale) must not drive
\* sorting when neutral helpfulness should preserve RRF order"
\* (helpfulness_index.py:84-86), and "so ordering stays coherent"
\* (engram_memory.py:420).
NeutralKeepsFusion ==
  stage = "done" /\ rows = <<>> /\ ~keepDead /\ weigh /\ Hybrid
  /\ (\A f \in File : mean[f] = 50 /\ like[f] = 0) =>
    \A i, j \in DOMAIN answer : i < j => answer[i].rrf >= answer[j].rrf

\* The inductive invariant: the inputs, hits of different files of the source up to the
\* selection, and from there on as many as there are of those not superseded, or k.
Given ==
  /\ chunks \in Chunks /\ ranks \in Ranks /\ scan \in Ranks \cup {<<>>}
  /\ mean \in Means /\ like \in Likes /\ rows \in LinkRows
  /\ dead \subseteq File /\ k \in 1 .. MaxK
Distinct(hits) == \A i, j \in DOMAIN hits : hits[i].file = hits[j].file => i = j
Complete(hits, known, n) ==
  /\ hits \in Seq(HitType) /\ Distinct(hits) /\ Files(hits) \subseteq known
  /\ Len(hits) = IF Cardinality(known) < n THEN Cardinality(known) ELSE n
Staged ==
  Source # <<>> =>
    /\ stage \in {"weigh", "select"} => pool # <<>> /\ Distinct(pool) /\ Files(pool) \subseteq Files(Source)
    /\ stage = "answer" /\ ~keepDead => Complete(pool, Files(Source) \ dead, k)
    /\ stage = "done" /\ ~keepDead /\ rows = <<>> => Complete(answer, Files(Source) \ dead, k)
IInv == TypeOK /\ Given /\ Staged
=============================================================================

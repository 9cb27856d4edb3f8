---- MODULE HarnessProofs ----
(***************************************************************************)
(* Proofs about the components of MCHarness, for every value of their       *)
(* constants.  Each section is about one component: the variables are        *)
(* called by the names its module gives them, after the name of its           *)
(* instance; the inductive invariant IInv is defined in that module.          *)
(***************************************************************************)
EXTENDS MCHarness, FiniteSetTheorems, WellFoundedInduction, TLAPS

(* Some number of a set of numbers is the lowest.                              *)
LEMMA HasLowest ==
  ASSUME NEW D \in SUBSET Nat, D # {}
  PROVE  \E d \in D : \A e \in D : d <= e
<1> DEFINE R == {ss \in Nat \X Nat : ss[1] < ss[2]}
<1>1. IsWellFoundedOn(R, Nat)
  BY Zenon, NatLessThanWellFounded DEF OpToRel
<1>2. PICK d \in D : \A e \in D : ~(<<e, d>> \in R)
  <2> HIDE DEF R
  <2> QED BY <1>1, WFMin
<1>3. \A x, y \in Nat : x < y => <<x, y>> \in R
  OBVIOUS
<1>4. ASSUME NEW e \in D PROVE d <= e
  <2>1. d \in Nat /\ e \in Nat /\ ~(e < d)
    BY <1>2, <1>3
  <2> QED BY <2>1
<1> QED BY <1>4

-----------------------------------------------------------------------------
(* ProviderHistory. *)
History_provider == x1
History_history == x2
History_pc == x3
History_calls == x4
History_request == x5
History_toolSeq == x6
History_traced == x7
History_given == x8
History_left == x9
USE DEF History_provider, History_history, History_pc, History_calls, History_request,
  History_toolSeq, History_traced, History_given, History_left

(* Sets have one cardinality, inside and outside of ProviderHistory. *)
LEMMA HistoryCardinality == \A S : History!Cardinality(S) = Cardinality(S)
BY DEF History!Cardinality, Cardinality
USE HistoryCardinality

(* Two sequences one after the other.                                           *)
LEMMA HistoryJoined ==
  ASSUME NEW S, NEW s \in Seq(S), NEW t \in Seq(S)
  PROVE  /\ s \o t \in Seq(S) /\ Len(s) \in Nat /\ Len(t) \in Nat /\ Len(s \o t) = Len(s) + Len(t)
         /\ \A i \in 1 .. Len(s) : (s \o t)[i] = s[i]
         /\ \A i \in 1 .. Len(t) : (s \o t)[Len(s) + i] = t[i]
OBVIOUS

(* f is what Firsts says of the first n pieces.                                 *)
HistoryFlatTo(S, p, n, f) ==
  f \in [0 .. n -> Seq(S)] /\ f = [k \in 0 .. n |-> IF k = 0 THEN <<>> ELSE f[k - 1] \o p[k]]

(* There is one for one more piece.                                             *)
LEMMA HistoryOneMore ==
  ASSUME NEW S, NEW p \in Seq(Seq(S)), NEW n \in Nat, n + 1 \in 1 .. Len(p), NEW f, HistoryFlatTo(S, p, n, f)
  PROVE  \E g : HistoryFlatTo(S, p, n + 1, g)
<1> DEFINE g == [k \in 0 .. n + 1 |-> IF k = n + 1 THEN f[n] \o p[n + 1] ELSE f[k]]
<1>1. /\ f \in [0 .. n -> Seq(S)]
      /\ \A k \in 0 .. n : f[k] = IF k = 0 THEN <<>> ELSE f[k - 1] \o p[k]
  BY DEF HistoryFlatTo
<1>2. p[n + 1] \in Seq(S) /\ f[n] \in Seq(S)
  BY <1>1
<1>3. f[n] \o p[n + 1] \in Seq(S)
  BY <1>2, HistoryJoined
<1>4. g \in [0 .. n + 1 -> Seq(S)]
  BY <1>1, <1>3
<1>5. ASSUME NEW k \in 0 .. n + 1 PROVE g[k] = IF k = 0 THEN <<>> ELSE g[k - 1] \o p[k]
  <2>1. CASE k = n + 1
    <3>1. k # 0 /\ k - 1 = n /\ n # n + 1 /\ n \in 0 .. n + 1
      BY <2>1
    <3> QED BY <2>1, <3>1
  <2>2. CASE k \in 0 .. n /\ k # 0
    <3>1. k # n + 1 /\ k - 1 # n + 1 /\ k - 1 \in 0 .. n + 1
      BY <2>2
    <3> QED BY <1>1, <2>2, <3>1
  <2>3. CASE k = 0
    <3>1. 0 \in 0 .. n /\ 0 # n + 1
      OBVIOUS
    <3>2. f[0] = <<>>
      BY <1>1, <3>1, Zenon
    <3>3. g[0] = f[0]
      BY <3>1
    <3> QED BY <2>3, <3>2, <3>3, Zenon
  <2> QED BY <2>1, <2>2, <2>3
<1> HIDE DEF g
<1>6. g = [k \in 0 .. n + 1 |-> IF k = 0 THEN <<>> ELSE g[k - 1] \o p[k]]
  BY <1>4, <1>5
<1> QED BY <1>4, <1>6 DEF HistoryFlatTo

(* There is one for all pieces.                                                 *)
LEMMA HistoryHasFlat ==
  ASSUME NEW S, NEW p \in Seq(Seq(S))
  PROVE  \E f : HistoryFlatTo(S, p, Len(p), f)
<1> DEFINE D == {n \in 0 .. Len(p) : ~ \E f : HistoryFlatTo(S, p, n, f)}
<1>1. Len(p) \in Nat /\ D \in SUBSET Nat
  OBVIOUS
<1>2. D = {}
  <2> SUFFICES ASSUME D # {} PROVE FALSE
    OBVIOUS
  <2>1. PICK d \in D : \A e \in D : d <= e
    <3> HIDE DEF D
    <3> QED BY <1>1, HasLowest
  <2>2. d \in 0 .. Len(p) /\ ~ \E f : HistoryFlatTo(S, p, d, f)
    BY <2>1
  <2>3. CASE d = 0
    <3> DEFINE f == [k \in 0 .. 0 |-> <<>>]
    <3>1. f \in [0 .. 0 -> Seq(S)] /\ f = [k \in 0 .. 0 |-> IF k = 0 THEN <<>> ELSE f[k - 1] \o p[k]]
      OBVIOUS
    <3>2. HistoryFlatTo(S, p, 0, f)
      BY <3>1 DEF HistoryFlatTo
    <3> QED BY <2>2, <2>3, <3>2
  <2>4. CASE d # 0
    <3>1. d - 1 \in 0 .. Len(p) /\ ~(d <= d - 1) /\ (d - 1) + 1 = d /\ d \in 1 .. Len(p) /\ d - 1 \in Nat
      BY <1>1, <2>2, <2>4
    <3>2. d - 1 \notin D
      BY <2>1, <3>1
    <3>3. PICK f : HistoryFlatTo(S, p, d - 1, f)
      BY <3>1, <3>2
    <3>4. \E g : HistoryFlatTo(S, p, (d - 1) + 1, g)
      <4> DEFINE n == d - 1
      <4>1. n \in Nat /\ n + 1 \in 1 .. Len(p) /\ HistoryFlatTo(S, p, n, f)
        BY <3>1, <3>3
      <4> HIDE DEF n
      <4>2. \E g : HistoryFlatTo(S, p, n + 1, g)
        BY <4>1, HistoryOneMore
      <4> QED BY <4>2 DEF n
    <3> QED BY <2>2, <3>1, <3>4
  <2> QED BY <2>3, <2>4
<1> QED BY <1>1, <1>2

(* What the definition of Firsts says, if anything is so.                       *)
LEMMA HistoryIsFirsts ==
  ASSUME NEW p, NEW f, f = [n \in 0 .. Len(p) |-> IF n = 0 THEN <<>> ELSE f[n - 1] \o p[n]]
  PROVE  History!Firsts(p) = [n \in 0 .. Len(p) |-> IF n = 0 THEN <<>> ELSE History!Firsts(p)[n - 1] \o p[n]]
BY Zenon DEF History!Firsts

(* Pieces one after the other, one at a time.                                   *)
LEMMA HistoryFirstsIs ==
  ASSUME NEW S, NEW p \in Seq(Seq(S))
  PROVE  /\ \A n \in 0 .. Len(p) : History!Firsts(p)[n] \in Seq(S)
         /\ History!Firsts(p)[0] = <<>>
         /\ \A n \in 1 .. Len(p) : History!Firsts(p)[n] = History!Firsts(p)[n - 1] \o p[n]
<1> DEFINE g == History!Firsts(p)
<1>1. Len(p) \in Nat
  OBVIOUS
<1>2. g = [n \in 0 .. Len(p) |-> IF n = 0 THEN <<>> ELSE g[n - 1] \o p[n]]
  <2>1. PICK f : HistoryFlatTo(S, p, Len(p), f)
    BY HistoryHasFlat
  <2>2. f = [n \in 0 .. Len(p) |-> IF n = 0 THEN <<>> ELSE f[n - 1] \o p[n]]
    BY <2>1 DEF HistoryFlatTo
  <2> QED BY <2>2, HistoryIsFirsts
<1> HIDE DEF g
<1>3. \A n \in 0 .. Len(p) : g[n] = IF n = 0 THEN <<>> ELSE g[n - 1] \o p[n]
  BY <1>2
<1>4. g[0] = <<>> /\ \A n \in 1 .. Len(p) : g[n] = g[n - 1] \o p[n]
  <2>1. 0 \in 0 .. Len(p) /\ \A n \in 1 .. Len(p) : n \in 0 .. Len(p) /\ n # 0
    BY <1>1
  <2> QED BY <1>3, <2>1, Zenon
<1> DEFINE D == {n \in 0 .. Len(p) : g[n] \notin Seq(S)}
<1>5. D = {}
  <2> SUFFICES ASSUME D # {} PROVE FALSE
    OBVIOUS
  <2>1. D \in SUBSET Nat
    BY <1>1
  <2>2. PICK d \in D : \A e \in D : d <= e
    <3> HIDE DEF D
    <3> QED BY <2>1, HasLowest
  <2>3. d \in 0 .. Len(p) /\ g[d] \notin Seq(S)
    BY <2>2
  <2>4. d # 0
    <3>1. <<>> \in Seq(S)
      OBVIOUS
    <3>2. g[0] = <<>>
      BY <1>4
    <3> QED BY <2>3, <3>1, <3>2, Zenon
  <2>5. d - 1 \in 0 .. Len(p) /\ ~(d <= d - 1) /\ d \in 1 .. Len(p)
    BY <1>1, <2>3, <2>4
  <2>6. g[d - 1] \in Seq(S)
    BY <2>2, <2>5
  <2>7. p[d] \in Seq(S)
    BY <2>5
  <2>8. g[d - 1] \o p[d] \in Seq(S)
    BY <2>6, <2>7, HistoryJoined
  <2> QED BY <1>4, <2>3, <2>5, <2>8
<1> QED BY <1>4, <1>5 DEF g

(* The same pieces in front give the same.                                      *)
LEMMA HistoryFirstsSame ==
  ASSUME NEW S, NEW p \in Seq(Seq(S)), NEW q \in Seq(Seq(S)), Len(p) <= Len(q), \A i \in 1 .. Len(p) : q[i] = p[i]
  PROVE  \A n \in 0 .. Len(p) : History!Firsts(q)[n] = History!Firsts(p)[n]
<1> DEFINE D == {n \in 0 .. Len(p) : History!Firsts(q)[n] # History!Firsts(p)[n]}
<1>1. Len(p) \in Nat /\ Len(q) \in Nat /\ D \in SUBSET Nat
  OBVIOUS
<1>2. D = {}
  <2> SUFFICES ASSUME D # {} PROVE FALSE
    OBVIOUS
  <2>1. PICK d \in D : \A e \in D : d <= e
    <3> HIDE DEF D
    <3> QED BY <1>1, HasLowest
  <2>2. d \in 0 .. Len(p) /\ History!Firsts(q)[d] # History!Firsts(p)[d]
    BY <2>1
  <2>3. History!Firsts(p)[0] = <<>> /\ History!Firsts(q)[0] = <<>>
    BY HistoryFirstsIs
  <2>4. d # 0
    BY <2>2, <2>3
  <2>5. d - 1 \in 0 .. Len(p) /\ ~(d <= d - 1) /\ d \in 1 .. Len(p) /\ d \in 1 .. Len(q)
    BY <1>1, <2>2, <2>4
  <2>6. History!Firsts(q)[d - 1] = History!Firsts(p)[d - 1]
    BY <2>1, <2>5
  <2>7. History!Firsts(p)[d] = History!Firsts(p)[d - 1] \o p[d] /\ History!Firsts(q)[d] = History!Firsts(q)[d - 1] \o q[d]
    BY <2>5, HistoryFirstsIs
  <2> QED BY <2>2, <2>5, <2>6, <2>7
<1> QED BY <1>2

(* o is the items of these kinds among the first n.                             *)
HistorySel(items, kinds, n, o) ==
  /\ o \in Seq(History!Item)
  /\ \A k \in 1 .. Len(o) : \E i \in 1 .. n : items[i] = o[k] /\ items[i].type \in kinds
  /\ \A i \in 1 .. n : items[i].type \in kinds => \E k \in 1 .. Len(o) : o[k] = items[i]
  /\ History!Rising(items) => History!Rising(o)

LEMMA HistoryOneMoreItem ==
  ASSUME NEW items \in Seq(History!Item), NEW kinds, NEW n \in Nat, n + 1 \in 1 .. Len(items), NEW o, HistorySel(items, kinds, n, o)
  PROVE  HistorySel(items, kinds, n + 1, o \o (IF items[n + 1].type \in kinds THEN <<items[n + 1]>> ELSE <<>>))
<1> DEFINE x == items[n + 1]
<1>1. /\ o \in Seq(History!Item) /\ x \in History!Item /\ Len(o) \in Nat /\ DOMAIN o = 1 .. Len(o) /\ DOMAIN items = 1 .. Len(items)
      /\ n + 1 \in 1 .. n + 1 /\ \A i \in 1 .. n + 1 : i \in 1 .. n \/ i = n + 1
      /\ \A i \in 1 .. n : i \in 1 .. n + 1 /\ i < n + 1 /\ i \in DOMAIN items
  BY DEF HistorySel
<1>2. CASE x.type \notin kinds
  <2>1. o \o <<>> = o
    BY <1>1
  <2>2. HistorySel(items, kinds, n + 1, o)
    BY <1>1, <1>2 DEF HistorySel
  <2> QED BY <1>2, <2>1, <2>2
<1>3. CASE x.type \in kinds
  <2> DEFINE t == <<x>>
             p == o \o t
  <2>1. t \in Seq(History!Item) /\ Len(t) = 1 /\ t[1] = x
    BY <1>1
  <2> HIDE DEF x, t
  <2>2. /\ p \in Seq(History!Item) /\ Len(p) = Len(o) + 1 /\ \A k \in 1 .. Len(o) : p[k] = o[k]
        /\ p[Len(o) + 1] = x
    <3>1. /\ p \in Seq(History!Item) /\ Len(p) = Len(o) + Len(t) /\ \A k \in 1 .. Len(o) : p[k] = o[k]
          /\ \A k \in 1 .. Len(t) : p[Len(o) + k] = t[k]
      <4>1. o \in Seq(History!Item) /\ t \in Seq(History!Item)
        BY <1>1, <2>1
      <4> QED BY <4>1, HistoryJoined
    <3>2. 1 \in 1 .. Len(t)
      BY <2>1
    <3> HIDE DEF p
    <3> QED BY <2>1, <3>1, <3>2
  <2> HIDE DEF p
  <2>3. /\ Len(p) \in Nat /\ DOMAIN p = 1 .. Len(p) /\ Len(o) + 1 \in 1 .. Len(p)
        /\ \A k \in 1 .. Len(p) : k \in 1 .. Len(o) \/ k = Len(o) + 1
        /\ \A k \in 1 .. Len(o) : k \in 1 .. Len(p)
    BY <1>1, <2>2
  <2>4. \A k \in 1 .. Len(p) : \E i \in 1 .. n + 1 : items[i] = p[k] /\ items[i].type \in kinds
    <3> SUFFICES ASSUME NEW k \in 1 .. Len(p) PROVE \E i \in 1 .. n + 1 : items[i] = p[k] /\ items[i].type \in kinds
      OBVIOUS
    <3>1. CASE k \in 1 .. Len(o)
      <4>1. PICK i \in 1 .. n : items[i] = o[k] /\ items[i].type \in kinds
        BY <3>1 DEF HistorySel
      <4> QED BY <1>1, <2>2, <3>1, <4>1
    <3>2. CASE k = Len(o) + 1
      BY <1>1, <1>3, <2>2, <3>2 DEF x
    <3> QED BY <2>3, <3>1, <3>2
  <2>5. \A i \in 1 .. n + 1 : items[i].type \in kinds => \E k \in 1 .. Len(p) : p[k] = items[i]
    <3> SUFFICES ASSUME NEW i \in 1 .. n + 1, items[i].type \in kinds PROVE \E k \in 1 .. Len(p) : p[k] = items[i]
      OBVIOUS
    <3>1. CASE i \in 1 .. n
      <4>1. PICK k \in 1 .. Len(o) : o[k] = items[i]
        BY <3>1 DEF HistorySel
      <4> QED BY <2>2, <2>3, <4>1
    <3>2. CASE i = n + 1
      BY <2>2, <2>3, <3>2 DEF x
    <3> QED BY <1>1, <3>1, <3>2
  <2>6. ASSUME History!Rising(items) PROVE History!Rising(p)
    <3> SUFFICES ASSUME NEW k \in 1 .. Len(p), NEW l \in 1 .. Len(p), k < l PROVE p[k].id < p[l].id
      BY <2>3 DEF History!Rising
    <3>1. k \in 1 .. Len(o)
      BY <1>1, <2>2, <2>3
    <3>2. CASE l \in 1 .. Len(o)
      BY <1>1, <2>2, <2>6, <3>1, <3>2 DEF HistorySel, History!Rising
    <3>3. CASE l = Len(o) + 1
      <4>1. PICK i \in 1 .. n : items[i] = o[k]
        BY <3>1 DEF HistorySel
      <4>2. i < n + 1 /\ i \in DOMAIN items /\ n + 1 \in DOMAIN items
        BY <1>1
      <4>3. items[i].id < items[n + 1].id
        BY <2>6, <4>2 DEF History!Rising
      <4> QED BY <2>2, <3>1, <3>3, <4>1, <4>3 DEF x
    <3> QED BY <2>3, <3>2, <3>3
  <2>7. HistorySel(items, kinds, n + 1, p)
    BY <2>2, <2>4, <2>5, <2>6 DEF HistorySel
  <2> QED BY <1>3, <2>7 DEF p, t, x
<1> QED BY <1>2, <1>3

(* The items of some kinds, in their order.                                     *)
LEMMA HistoryOnlyIs == ASSUME NEW items \in Seq(History!Item), NEW kinds PROVE HistorySel(items, kinds, Len(items), History!Only(items, kinds))
<1> DEFINE p == [i \in DOMAIN items |-> IF items[i].type \in kinds THEN <<items[i]>> ELSE <<>>]
           D == {n \in 0 .. Len(items) : ~HistorySel(items, kinds, n, History!Firsts(p)[n])}
<1>1. Len(items) \in Nat /\ DOMAIN items = 1 .. Len(items) /\ D \in SUBSET Nat
  OBVIOUS
<1>2. p \in Seq(Seq(History!Item)) /\ Len(p) = Len(items) /\ \A n \in 1 .. Len(items) : p[n] = IF items[n].type \in kinds THEN <<items[n]>> ELSE <<>>
  <2>1. \A i \in 1 .. Len(items) : <<items[i]>> \in Seq(History!Item)
    OBVIOUS
  <2>2. <<>> \in Seq(History!Item)
    OBVIOUS
  <2>3. p \in [1 .. Len(items) -> Seq(History!Item)]
    BY <1>1, <2>1, <2>2
  <2> QED BY <1>1, <2>3
<1>3. History!Firsts(p)[0] = <<>> /\ \A n \in 1 .. Len(items) : History!Firsts(p)[n] = History!Firsts(p)[n - 1] \o p[n]
  <2> HIDE DEF p
  <2> QED BY <1>2, HistoryFirstsIs
<1>4. D = {}
  <2> SUFFICES ASSUME D # {} PROVE FALSE
    OBVIOUS
  <2>1. PICK d \in D : \A e \in D : d <= e
    <3> HIDE DEF D
    <3> QED BY <1>1, HasLowest
  <2>2. d \in 0 .. Len(items) /\ ~HistorySel(items, kinds, d, History!Firsts(p)[d])
    BY <2>1
  <2>3. CASE d = 0
    <3>1. HistorySel(items, kinds, 0, <<>>)
      BY DEF HistorySel, History!Rising
    <3> QED BY <1>3, <2>2, <2>3, <3>1
  <2>4. CASE d # 0
    <3> DEFINE n == d - 1
    <3>1. n \in Nat /\ n \in 0 .. Len(items) /\ ~(d <= n) /\ n + 1 = d /\ d \in 1 .. Len(items)
      BY <1>1, <2>2, <2>4
    <3>2. HistorySel(items, kinds, n, History!Firsts(p)[n])
      BY <2>1, <3>1
    <3>3. History!Firsts(p)[d] = History!Firsts(p)[n] \o (IF items[d].type \in kinds THEN <<items[d]>> ELSE <<>>)
      BY <1>2, <1>3, <3>1
    <3> HIDE DEF n, p, D
    <3>4. HistorySel(items, kinds, n + 1, History!Firsts(p)[n] \o (IF items[n + 1].type \in kinds THEN <<items[n + 1]>> ELSE <<>>))
      BY <3>1, <3>2, HistoryOneMoreItem
    <3>5. HistorySel(items, kinds, d, History!Firsts(p)[d])
      BY <3>1, <3>3, <3>4
    <3> QED BY <2>2, <3>5
  <2> QED BY <2>3, <2>4
<1>5. HistorySel(items, kinds, Len(items), History!Firsts(p)[Len(items)])
  BY <1>1, <1>4
<1>6. History!Only(items, kinds) = History!Firsts(p)[Len(items)]
  BY <1>2 DEF History!Only, History!Flat
<1> QED BY <1>5, <1>6

-----------------------------------------------------------------------------
(* What each message adds to a request.                                         *)
LEMMA HistoryOutputsIs ==
  ASSUME NEW ids \in Seq(Nat)
  PROVE  /\ History!Outputs(ids) \in Seq(History!Item) /\ Len(History!Outputs(ids)) = Len(ids)
         /\ \A i \in 1 .. Len(ids) : History!Outputs(ids)[i] = [type |-> "output", id |-> ids[i]]
<1>1. History!Outputs(ids) \in [1 .. Len(ids) -> History!Item] /\ Len(ids) \in Nat
  BY DEF History!Outputs, History!Item
<1> QED BY <1>1 DEF History!Outputs

LEMMA HistoryMessageIs == History!Message \in Seq(History!Item) /\ Len(History!Message) = 1 /\ History!Message[1] = [type |-> "message", id |-> 0]
<1>1. [type |-> "message", id |-> 0] \in History!Item
  BY DEF History!Item
<1> QED BY <1>1 DEF History!Message

LEMMA HistoryFunctionCallsIs == ASSUME NEW m \in History!Msg PROVE History!FunctionCalls(m) \in Seq(History!Item)
<1> DEFINE made == [i \in DOMAIN m.ids |-> [type |-> "call", id |-> m.ids[i]]]
           said == IF m.text THEN History!Message ELSE <<>>
<1>1. m.ids \in Seq(Nat)
  BY DEF History!Msg
<1>2. made \in [1 .. Len(m.ids) -> History!Item] /\ Len(m.ids) \in Nat
  BY <1>1 DEF History!Item, History!Kind, History!CallKind
<1>3. made \in Seq(History!Item)
  <2> HIDE DEF made
  <2> QED BY <1>2
<1>4. said \in Seq(History!Item)
  BY HistoryMessageIs
<1>5. History!FunctionCalls(m) = said \o made
  BY DEF History!FunctionCalls
<1> HIDE DEF said, made
<1>6. said \o made \in Seq(History!Item)
  BY <1>3, <1>4, HistoryJoined
<1> QED BY <1>5, <1>6

LEMMA HistoryAssistantItemsIs == ASSUME NEW m \in History!Msg PROVE History!AssistantItems(m) \in Seq(History!Item)
<1>1. m.saved \in Seq(History!Item)
  BY DEF History!Msg
<1>2. History!Only(m.saved, History!Kind \ History!SavedItemSkip) \in Seq(History!Item)
  BY <1>1, HistoryOnlyIs DEF HistorySel
<1> QED BY <1>2, HistoryFunctionCallsIs DEF History!AssistantItems

LEMMA HistoryUserIs ==
  ASSUME NEW m \in History!Msg, m.role = "user", NEW prov
  PROVE  History!InputOf(prov, m) = (IF m.text THEN History!Message ELSE <<>>) \o History!Outputs(m.ids)
BY DEF History!InputOf

LEMMA HistoryInputOfIs == ASSUME NEW m \in History!Msg, NEW prov PROVE History!InputOf(prov, m) \in Seq(History!Item)
<1>1. m.saved \in Seq(History!Item) /\ m.ids \in Seq(Nat) /\ m.role \in {"system", "user", "assistant", "tool"}
  BY DEF History!Msg
<1>2. CASE m.role = "system"
  BY <1>2 DEF History!InputOf
<1>3. CASE m.role = "user"
  <2> DEFINE said == IF m.text THEN History!Message ELSE <<>>
  <2>1. said \in Seq(History!Item) /\ History!Outputs(m.ids) \in Seq(History!Item)
    BY <1>1, HistoryMessageIs, HistoryOutputsIs
  <2>2. History!InputOf(prov, m) = said \o History!Outputs(m.ids)
    BY <1>3, HistoryUserIs
  <2> HIDE DEF said
  <2>3. said \o History!Outputs(m.ids) \in Seq(History!Item)
    BY <2>1, HistoryJoined
  <2> QED BY <2>2, <2>3
<1>4. CASE m.role = "tool"
  BY <1>1, <1>4, HistoryOutputsIs DEF History!InputOf
<1>5. CASE m.role = "assistant"
  BY <1>1, <1>5, HistoryAssistantItemsIs DEF History!InputOf
<1> QED BY <1>1, <1>2, <1>3, <1>4, <1>5

(* new is old with add behind it.                                               *)
HistoryFollows(new, old, add) ==
  /\ new \in Seq(History!Item) /\ old \in Seq(History!Item) /\ add \in Seq(History!Item)
  /\ Len(new) \in Nat /\ Len(old) \in Nat /\ Len(add) \in Nat /\ Len(new) = Len(old) + Len(add)
  /\ \A i \in 1 .. Len(old) : new[i] = old[i]
  /\ \A i \in 1 .. Len(add) : new[Len(old) + i] = add[i]

LEMMA HistoryFollowsIs == ASSUME NEW s \in Seq(History!Item), NEW t \in Seq(History!Item) PROVE HistoryFollows(s \o t, s, t)
BY HistoryJoined DEF HistoryFollows

(* The pieces of a request.                                                     *)
HistoryPieces(prov, h) == [i \in DOMAIN h |-> History!InputOf(prov, h[i])]

LEMMA HistoryPiecesAre ==
  ASSUME NEW prov, NEW h \in Seq(History!Msg)
  PROVE  /\ HistoryPieces(prov, h) \in Seq(Seq(History!Item)) /\ Len(HistoryPieces(prov, h)) = Len(h) /\ Len(h) \in Nat
         /\ \A i \in 1 .. Len(h) : HistoryPieces(prov, h)[i] = History!InputOf(prov, h[i])
         /\ History!Input(prov, h) = History!Firsts(HistoryPieces(prov, h))[Len(h)] /\ History!Input(prov, h) \in Seq(History!Item)
<1>1. Len(h) \in Nat /\ DOMAIN h = 1 .. Len(h)
  OBVIOUS
<1>2. \A i \in 1 .. Len(h) : History!InputOf(prov, h[i]) \in Seq(History!Item)
  BY <1>1, HistoryInputOfIs
<1>3. HistoryPieces(prov, h) \in [1 .. Len(h) -> Seq(History!Item)] /\ \A i \in 1 .. Len(h) : HistoryPieces(prov, h)[i] = History!InputOf(prov, h[i])
  BY <1>1, <1>2 DEF HistoryPieces
<1>4. HistoryPieces(prov, h) \in Seq(Seq(History!Item)) /\ Len(HistoryPieces(prov, h)) = Len(h)
  BY <1>1, <1>3
<1>5. History!Input(prov, h) = History!Firsts(HistoryPieces(prov, h))[Len(h)]
  BY <1>4 DEF History!Input, History!Flat, HistoryPieces
<1>6. History!Firsts(HistoryPieces(prov, h))[Len(h)] \in Seq(History!Item)
  <2>1. Len(h) \in 0 .. Len(HistoryPieces(prov, h))
    BY <1>1, <1>4
  <2> QED BY <1>4, <2>1, HistoryFirstsIs
<1> QED BY <1>1, <1>3, <1>4, <1>5, <1>6

(* A longer history gives the same request with more behind it.                 *)
LEMMA HistoryBehind ==
  ASSUME NEW prov, NEW h \in Seq(History!Msg), NEW g \in Seq(History!Msg), Len(h) < Len(g), \A i \in 1 .. Len(h) : g[i] = h[i]
  PROVE  /\ History!Firsts(HistoryPieces(prov, g))[Len(h)] = History!Input(prov, h)
         /\ \A n \in Nat : Len(h) + n < Len(g) =>
              /\ History!Firsts(HistoryPieces(prov, g))[Len(h) + n] \in Seq(History!Item)
              /\ History!Firsts(HistoryPieces(prov, g))[Len(h) + (n + 1)] = History!Firsts(HistoryPieces(prov, g))[Len(h) + n] \o History!InputOf(prov, g[Len(h) + (n + 1)])
<1> DEFINE p == HistoryPieces(prov, h)
           q == HistoryPieces(prov, g)
<1>1. /\ p \in Seq(Seq(History!Item)) /\ Len(p) = Len(h) /\ Len(h) \in Nat /\ \A i \in 1 .. Len(h) : p[i] = History!InputOf(prov, h[i])
      /\ History!Input(prov, h) = History!Firsts(p)[Len(h)]
  BY HistoryPiecesAre
<1>2. /\ q \in Seq(Seq(History!Item)) /\ Len(q) = Len(g) /\ Len(g) \in Nat /\ \A i \in 1 .. Len(g) : q[i] = History!InputOf(prov, g[i])
  BY HistoryPiecesAre
<1> HIDE DEF p, q
<1>3. History!Firsts(q)[Len(h)] = History!Firsts(p)[Len(h)]
  <2>1. Len(p) <= Len(q) /\ (\A i \in 1 .. Len(p) : q[i] = p[i]) /\ Len(h) \in 0 .. Len(p)
    BY <1>1, <1>2
  <2> QED BY <1>1, <1>2, <2>1, HistoryFirstsSame
<1>4. ASSUME NEW n \in Nat, Len(h) + n < Len(g)
      PROVE  History!Firsts(q)[Len(h) + n] \in Seq(History!Item) /\ History!Firsts(q)[Len(h) + (n + 1)] = History!Firsts(q)[Len(h) + n] \o History!InputOf(prov, g[Len(h) + (n + 1)])
  <2>1. Len(h) + (n + 1) \in 1 .. Len(q) /\ (Len(h) + (n + 1)) - 1 = Len(h) + n /\ Len(h) + n \in 0 .. Len(q)
    BY <1>1, <1>2, <1>4
  <2> DEFINE k == Len(h) + (n + 1)
             j == Len(h) + n
  <2> HIDE DEF k, j
  <2>2. History!Firsts(q)[k] = History!Firsts(q)[k - 1] \o q[k] /\ History!Firsts(q)[j] \in Seq(History!Item)
    BY <1>2, <2>1, HistoryFirstsIs DEF k, j
  <2> QED BY <1>2, <2>1, <2>2 DEF k, j
<1> QED BY <1>1, <1>3, <1>4 DEF q

(* One more message.                                                            *)
LEMMA HistoryAdded ==
  ASSUME NEW prov, NEW h \in Seq(History!Msg), NEW m \in History!Msg
  PROVE  HistoryFollows(History!Input(prov, Append(h, m)), History!Input(prov, h), History!InputOf(prov, m))
<1> DEFINE g == Append(h, m)
<1>1. /\ g \in Seq(History!Msg) /\ Len(h) \in Nat /\ Len(g) = Len(h) + 1 /\ \A i \in 1 .. Len(h) : g[i] = h[i]
      /\ g[Len(h) + 1] = m
  OBVIOUS
<1> HIDE DEF g
<1>2. History!Firsts(HistoryPieces(prov, g))[Len(h)] = History!Input(prov, h) /\ History!Input(prov, h) \in Seq(History!Item) /\ History!InputOf(prov, m) \in Seq(History!Item)
  <2>1. Len(h) < Len(g)
    BY <1>1
  <2> QED BY <1>1, <2>1, HistoryBehind, HistoryPiecesAre, HistoryInputOfIs
<1>3. History!Firsts(HistoryPieces(prov, g))[Len(h) + 1] = History!Input(prov, h) \o History!InputOf(prov, m)
  <2>1. Len(h) + 0 = Len(h) /\ 0 + 1 = 1 /\ Len(h) < Len(g) /\ 0 \in Nat
    BY <1>1
  <2>2. History!Firsts(HistoryPieces(prov, g))[Len(h) + (0 + 1)] = History!Firsts(HistoryPieces(prov, g))[Len(h) + 0] \o History!InputOf(prov, g[Len(h) + (0 + 1)])
    BY <1>1, <2>1, HistoryBehind
  <2> QED BY <1>1, <1>2, <2>1, <2>2
<1>4. History!Input(prov, g) = History!Firsts(HistoryPieces(prov, g))[Len(h) + 1]
  BY <1>1, HistoryPiecesAre
<1>5. HistoryFollows(History!Input(prov, h) \o History!InputOf(prov, m), History!Input(prov, h), History!InputOf(prov, m))
  BY <1>2, HistoryFollowsIs
<1>6. History!Input(prov, g) = History!Input(prov, h) \o History!InputOf(prov, m)
  BY <1>3, <1>4
<1> QED BY <1>5, <1>6 DEF g

(* An item more.                                                                *)
LEMMA HistoryOneMoreOutput ==
  ASSUME NEW new, NEW old, NEW add, HistoryFollows(new, old, add), NEW x \in History!Item
  PROVE  HistoryFollows(new \o <<x>>, old, add \o <<x>>)
<1> DEFINE t == <<x>>
<1>1. t \in Seq(History!Item) /\ Len(t) = 1 /\ t[1] = x /\ 1 \in 1 .. 1
  OBVIOUS
<1> HIDE DEF t
<1>2. new \in Seq(History!Item) /\ add \in Seq(History!Item)
  BY DEF HistoryFollows
<1>3. HistoryFollows(new \o t, new, t) /\ HistoryFollows(add \o t, add, t)
  BY <1>1, <1>2, HistoryFollowsIs
<1> DEFINE n == new \o t
           a == add \o t
<1>4. HistoryFollows(n, new, t) /\ HistoryFollows(a, add, t)
  BY <1>3
<1> HIDE DEF n, a
<1>5. HistoryFollows(n, old, a)
  <2>1. /\ Len(n) \in Nat /\ Len(old) \in Nat /\ Len(a) \in Nat /\ Len(new) = Len(old) + Len(add) /\ Len(add) \in Nat
        /\ Len(n) = Len(new) + 1 /\ Len(a) = Len(add) + 1 /\ n \in Seq(History!Item) /\ a \in Seq(History!Item) /\ old \in Seq(History!Item)
    BY <1>1, <1>4 DEF HistoryFollows
  <2>2. \A i \in 1 .. Len(old) : n[i] = old[i]
    <3>1. \A i \in 1 .. Len(old) : i \in 1 .. Len(new)
      BY <2>1
    <3> QED BY <1>4, <3>1 DEF HistoryFollows
  <2>3. ASSUME NEW i \in 1 .. Len(a) PROVE n[Len(old) + i] = a[i]
    <3>1. CASE i \in 1 .. Len(add)
      <4>1. Len(old) + i \in 1 .. Len(new)
        BY <2>1, <3>1
      <4> QED BY <1>4, <3>1, <4>1 DEF HistoryFollows
    <3>2. CASE i = Len(add) + 1
      <4>1. Len(old) + i = Len(new) + 1
        BY <2>1, <3>2
      <4>2. n[Len(new) + 1] = x /\ a[Len(add) + 1] = x
        BY <1>1, <1>4 DEF HistoryFollows
      <4> QED BY <3>2, <4>1, <4>2
    <3> QED BY <2>1, <3>1, <3>2
  <2> QED BY <2>1, <2>2, <2>3 DEF HistoryFollows
<1> QED BY <1>5 DEF n, a, t

(* An output of an item.                                                        *)
LEMMA HistoryOutputIs ==
  ASSUME NEW y \in History!Item
  PROVE  y.id \in Nat /\ [type |-> "output", id |-> y.id] \in History!Item
<1>1. y.id \in Nat
  BY DEF History!Item
<1> QED BY <1>1 DEF History!Item

(* The outputs of the first n calls.                                            *)
HistoryOuts(c, n) == [i \in 1 .. n |-> [type |-> "output", id |-> c[i].id]]

LEMMA HistoryOutsAre ==
  ASSUME NEW c \in Seq(History!Item)
  PROVE  /\ History!Ids(c) \in Seq(Nat) /\ History!Outputs(History!Ids(c)) = HistoryOuts(c, Len(c)) /\ HistoryOuts(c, 0) = <<>>
         /\ \A n \in Nat : n <= Len(c) => HistoryOuts(c, n) \in Seq(History!Item) /\ Len(HistoryOuts(c, n)) = n
<1>1. Len(c) \in Nat /\ DOMAIN c = 1 .. Len(c) /\ \A i \in 1 .. Len(c) : c[i].id \in Nat /\ [type |-> "output", id |-> c[i].id] \in History!Item
  <2>1. Len(c) \in Nat /\ DOMAIN c = 1 .. Len(c) /\ \A i \in 1 .. Len(c) : c[i] \in History!Item
    OBVIOUS
  <2> QED BY <2>1, HistoryOutputIs
<1>2. History!Ids(c) \in [1 .. Len(c) -> Nat] /\ \A i \in 1 .. Len(c) : History!Ids(c)[i] = c[i].id
  BY <1>1 DEF History!Ids
<1>3. History!Ids(c) \in Seq(Nat) /\ DOMAIN History!Ids(c) = 1 .. Len(c)
  BY <1>1, <1>2
<1>4. History!Outputs(History!Ids(c)) = HistoryOuts(c, Len(c))
  BY <1>2, <1>3 DEF History!Outputs, HistoryOuts
<1>5. HistoryOuts(c, 0) = <<>>
  BY DEF HistoryOuts
<1>6. ASSUME NEW n \in Nat, n <= Len(c) PROVE HistoryOuts(c, n) \in Seq(History!Item) /\ Len(HistoryOuts(c, n)) = n
  <2>1. HistoryOuts(c, n) \in [1 .. n -> History!Item]
    BY <1>1, <1>6 DEF HistoryOuts
  <2> QED BY <2>1 DEF HistoryOuts
<1> QED BY <1>3, <1>4, <1>5, <1>6

LEMMA HistoryOneMoreOut ==
  ASSUME NEW c \in Seq(History!Item), NEW n \in Nat, n + 1 <= Len(c)
  PROVE  /\ [type |-> "output", id |-> c[n + 1].id] \in History!Item
         /\ HistoryOuts(c, n) \o <<[type |-> "output", id |-> c[n + 1].id]>> = HistoryOuts(c, n + 1)
<1> DEFINE x == [type |-> "output", id |-> c[n + 1].id]
           t == <<x>>
           o == HistoryOuts(c, n)
           q == HistoryOuts(c, n + 1)
<1>1. Len(c) \in Nat /\ n <= Len(c) /\ n + 1 \in 1 .. Len(c) /\ n + 1 \in Nat
  OBVIOUS
<1>2. x \in History!Item
  <2>1. c[n + 1] \in History!Item
    BY <1>1
  <2> QED BY <2>1, HistoryOutputIs
<1>3. o \in Seq(History!Item) /\ Len(o) = n /\ q \in Seq(History!Item) /\ Len(q) = n + 1
  BY <1>1, HistoryOutsAre
<1>4. (\A i \in 1 .. n : q[i] = o[i]) /\ q[n + 1] = x
  BY <1>1 DEF HistoryOuts
<1> HIDE DEF x, o, q
<1>5. t \in Seq(History!Item) /\ Len(t) = 1 /\ t[1] = x
  BY <1>2
<1> HIDE DEF t
<1>6. o \o t \in Seq(History!Item) /\ Len(o \o t) = n + 1 /\ (\A i \in 1 .. n : (o \o t)[i] = o[i]) /\ (o \o t)[n + 1] = x
  <2>1. o \in Seq(History!Item) /\ t \in Seq(History!Item)
    BY <1>3, <1>5
  <2>2. HistoryFollows(o \o t, o, t)
    BY <2>1, HistoryFollowsIs
  <2>3. 1 \in 1 .. 1
    OBVIOUS
  <2> DEFINE u == o \o t
  <2>4. HistoryFollows(u, o, t)
    BY <2>2
  <2> HIDE DEF u
  <2>5. u \in Seq(History!Item) /\ Len(u) = n + 1 /\ (\A i \in 1 .. n : u[i] = o[i]) /\ u[n + 1] = x
    BY <1>3, <1>5, <2>3, <2>4 DEF HistoryFollows
  <2> QED BY <2>5 DEF u
<1>7. o \o t = q
  <2> DEFINE u == o \o t
  <2> HIDE DEF u
  <2>1. u \in Seq(History!Item) /\ Len(u) = n + 1 /\ (\A i \in 1 .. n : u[i] = o[i]) /\ u[n + 1] = x
    BY <1>6 DEF u
  <2>2. \A i \in 1 .. n + 1 : u[i] = q[i]
    BY <1>4, <2>1
  <2>3. u = q
    BY <1>3, <2>1, <2>2
  <2> QED BY <2>3 DEF u
<1> QED BY <1>2, <1>7 DEF x, o, q, t

(* What a result of one call adds, and the results of all.                      *)
LEMMA HistoryToolIs ==
  ASSUME NEW prov, NEW x \in History!Item
  PROVE  LET m == [role |-> "tool", saved |-> <<>>, text |-> FALSE, ids |-> <<x.id>>]
         IN  m \in History!Msg /\ History!InputOf(prov, m) = <<[type |-> "output", id |-> x.id]>>
<1> DEFINE m == [role |-> "tool", saved |-> <<>>, text |-> FALSE, ids |-> <<x.id>>]
<1>1. m \in History!Msg /\ m.ids = <<x.id>>
  BY DEF History!Msg, History!Item
<1>2. History!InputOf(prov, m) = History!Outputs(<<x.id>>)
  BY DEF History!InputOf
<1>3. History!Outputs(<<x.id>>) = <<[type |-> "output", id |-> x.id]>>
  BY DEF History!Outputs
<1> QED BY <1>1, <1>2, <1>3

LEMMA HistoryResultsAdded ==
  ASSUME NEW h \in Seq(History!Msg), NEW c \in Seq(History!Item), History_provider \in {"native", "grok"}
  PROVE  /\ h \o History!AsToolResults(c) \in Seq(History!Msg)
         /\ HistoryFollows(History!Input(History_provider, h \o History!AsToolResults(c)), History!Input(History_provider, h), History!Outputs(History!Ids(c)))
<1>1. CASE History_provider = "native"
  <2> DEFINE m == [role |-> "user", saved |-> <<>>, text |-> FALSE, ids |-> History!Ids(c)]
  <2>1. History!AsToolResults(c) = <<m>>
    BY <1>1 DEF History!AsToolResults
  <2>2. m \in History!Msg
    BY HistoryOutsAre DEF History!Msg
  <2>3. History!InputOf(History_provider, m) = <<>> \o History!Outputs(History!Ids(c))
    BY <2>2, HistoryUserIs
  <2>4. History!Outputs(History!Ids(c)) \in Seq(History!Item)
    BY HistoryOutsAre, HistoryOutputsIs
  <2>5. <<>> \o History!Outputs(History!Ids(c)) = History!Outputs(History!Ids(c))
    BY <2>4
  <2> HIDE DEF m
  <2>6. h \o <<m>> = Append(h, m) /\ Append(h, m) \in Seq(History!Msg)
    BY <2>2
  <2> QED BY <2>1, <2>2, <2>3, <2>5, <2>6, HistoryAdded
<1>2. CASE History_provider = "grok"
  <2> DEFINE R == [i \in DOMAIN c |-> [role |-> "tool", saved |-> <<>>, text |-> FALSE, ids |-> <<c[i].id>>]]
             g == h \o R
             F(n) == History!Firsts(HistoryPieces(History_provider, g))[Len(h) + n]
             D == {n \in 0 .. Len(c) : ~HistoryFollows(F(n), History!Input(History_provider, h), HistoryOuts(c, n))}
  <2>1. History!AsToolResults(c) = R
    BY <1>2 DEF History!AsToolResults
  <2>2. Len(c) \in Nat /\ DOMAIN c = 1 .. Len(c) /\ \A i \in 1 .. Len(c) : c[i] \in History!Item
    OBVIOUS
  <2>3. \A i \in 1 .. Len(c) : R[i] \in History!Msg /\ History!InputOf(History_provider, R[i]) = <<[type |-> "output", id |-> c[i].id]>>
    BY <2>2, HistoryToolIs
  <2>4. R \in Seq(History!Msg) /\ Len(R) = Len(c)
    <3>1. R \in [1 .. Len(c) -> History!Msg]
      BY <2>2, <2>3
    <3> QED BY <2>2, <3>1
  <2> HIDE DEF R
  <2>5. /\ g \in Seq(History!Msg) /\ Len(h) \in Nat /\ Len(g) = Len(h) + Len(c) /\ Len(g) \in Nat
        /\ (\A i \in 1 .. Len(h) : g[i] = h[i]) /\ \A i \in 1 .. Len(c) : g[Len(h) + i] = R[i]
    <3>1. h \in Seq(History!Msg) /\ R \in Seq(History!Msg)
      BY <2>4
    <3>2. /\ h \o R \in Seq(History!Msg) /\ Len(h) \in Nat /\ Len(R) \in Nat /\ Len(h \o R) = Len(h) + Len(R)
          /\ (\A i \in 1 .. Len(h) : (h \o R)[i] = h[i]) /\ \A i \in 1 .. Len(R) : (h \o R)[Len(h) + i] = R[i]
      BY <3>1, HistoryJoined
    <3>3. /\ g \in Seq(History!Msg) /\ Len(h) \in Nat /\ Len(R) \in Nat /\ Len(g) = Len(h) + Len(R)
          /\ (\A i \in 1 .. Len(h) : g[i] = h[i]) /\ \A i \in 1 .. Len(R) : g[Len(h) + i] = R[i]
      BY <3>2
    <3> HIDE DEF g
    <3>4. Len(R) = Len(c)
      BY <2>4
    <3>5. Len(g) = Len(h) + Len(c) /\ Len(g) \in Nat
      BY ONLY <2>2, <3>3, <3>4
    <3>6. \A i \in 1 .. Len(c) : g[Len(h) + i] = R[i]
      BY Zenon, <3>3, <3>4
    <3> QED BY Zenon, <3>3, <3>5, <3>6
  <2> HIDE DEF g
  <2>6. CASE Len(c) = 0
    <3>1. R = <<>>
      BY <2>4, <2>6
    <3>2. g = h
      BY <3>1 DEF g
    <3>3. History!Outputs(History!Ids(c)) = <<>> /\ History!Input(History_provider, h) \in Seq(History!Item)
      BY <2>6, HistoryOutsAre, HistoryPiecesAre
    <3>4. HistoryFollows(History!Input(History_provider, h), History!Input(History_provider, h), <<>>)
      <4> DEFINE I == History!Input(History_provider, h)
      <4> HIDE DEF I
      <4>1. I \in Seq(History!Item)
        BY <3>3 DEF I
      <4>2. HistoryFollows(I, I, <<>>)
        BY <4>1 DEF HistoryFollows
      <4> QED BY <4>2 DEF I
    <3> QED BY <2>1, <2>5, <3>2, <3>3, <3>4 DEF g
  <2>7. CASE Len(c) # 0
    <3>1. F(0) = History!Input(History_provider, h)
      <4>1. Len(h) < Len(g) /\ Len(h) + 0 = Len(h)
        BY <2>2, <2>5, <2>7
      <4> QED BY <2>5, <4>1, HistoryBehind
    <3>2. ASSUME NEW n \in Nat, n + 1 <= Len(c), HistoryFollows(F(n), History!Input(History_provider, h), HistoryOuts(c, n))
          PROVE  HistoryFollows(F(n + 1), History!Input(History_provider, h), HistoryOuts(c, n + 1))
      <4> DEFINE x == [type |-> "output", id |-> c[n + 1].id]
      <4>1. Len(h) < Len(g) /\ Len(h) + n < Len(g) /\ n + 1 \in 1 .. Len(c)
        BY <2>2, <2>5, <3>2
      <4>2. F(n + 1) = F(n) \o History!InputOf(History_provider, g[Len(h) + (n + 1)])
        BY <2>5, <4>1, HistoryBehind
      <4>3. History!InputOf(History_provider, g[Len(h) + (n + 1)]) = <<x>>
        BY <2>3, <2>5, <4>1
      <4>4. x \in History!Item /\ HistoryOuts(c, n) \o <<x>> = HistoryOuts(c, n + 1)
        BY <3>2, HistoryOneMoreOut
      <4> HIDE DEF x, F
      <4>5. HistoryFollows(F(n) \o <<x>>, History!Input(History_provider, h), HistoryOuts(c, n) \o <<x>>)
        BY <3>2, <4>4, HistoryOneMoreOutput
      <4> QED BY <4>2, <4>3, <4>4, <4>5
    <3>3. D = {}
      <4> SUFFICES ASSUME D # {} PROVE FALSE
        OBVIOUS
      <4>1. D \in SUBSET Nat
        BY <2>2
      <4>2. PICK d \in D : \A e \in D : d <= e
        <5> HIDE DEF D
        <5> QED BY <4>1, HasLowest
      <4>3. d \in 0 .. Len(c) /\ ~HistoryFollows(F(d), History!Input(History_provider, h), HistoryOuts(c, d))
        BY <4>2
      <4>4. CASE d = 0
        <5>1. HistoryFollows(History!Input(History_provider, h), History!Input(History_provider, h), <<>>)
          <6> DEFINE I == History!Input(History_provider, h)
          <6>1. I \in Seq(History!Item)
            BY HistoryPiecesAre
          <6> HIDE DEF I
          <6>2. HistoryFollows(I, I, <<>>)
            BY <6>1 DEF HistoryFollows
          <6> QED BY <6>2 DEF I
        <5> QED BY <3>1, <4>3, <4>4, <5>1, HistoryOutsAre
      <4>5. CASE d # 0
        <5> DEFINE n == d - 1
        <5>1. n \in Nat /\ n \in 0 .. Len(c) /\ ~(d <= n) /\ n + 1 = d /\ n + 1 <= Len(c)
          BY <2>2, <4>3, <4>5
        <5>2. HistoryFollows(F(n), History!Input(History_provider, h), HistoryOuts(c, n))
          BY <4>2, <5>1
        <5> HIDE DEF n, F, D
        <5>3. HistoryFollows(F(n + 1), History!Input(History_provider, h), HistoryOuts(c, n + 1))
          BY <3>2, <5>1, <5>2
        <5> QED BY <4>3, <5>1, <5>3
      <4> QED BY <4>4, <4>5
    <3>4. HistoryFollows(F(Len(c)), History!Input(History_provider, h), HistoryOuts(c, Len(c)))
      BY <2>2, <3>3
    <3>5. History!Input(History_provider, g) = F(Len(c))
      BY <2>5, HistoryPiecesAre
    <3> QED BY <2>1, <2>5, <3>4, <3>5, HistoryOutsAre DEF g
  <2> QED BY <2>6, <2>7
<1> QED BY <1>1, <1>2

(* A piece behind a well-paired request: no output, and calls not seen before.   *)
LEMMA HistoryAddCalls ==
  ASSUME NEW new, NEW old, NEW add, HistoryFollows(new, old, add), NEW left0, NEW open, NEW g \in Nat,
         History!PairedBut(old, left0), left0 \subseteq open, \A i \in DOMAIN old : old[i].id <= g,
         History!Once(add, History!CallKind), \A i \in DOMAIN add : add[i].type # "output",
         \A i \in DOMAIN add : History!IsCall(add[i]) => g < add[i].id,
         \A i \in DOMAIN add : History!IsCall(add[i]) => add[i].id \in open,
         \A x \in open \ left0 : g < x
  PROVE  History!PairedBut(new, open)
<1>1. /\ new \in Seq(History!Item) /\ old \in Seq(History!Item) /\ add \in Seq(History!Item) /\ Len(new) \in Nat /\ Len(old) \in Nat /\ Len(add) \in Nat
      /\ DOMAIN new = 1 .. Len(new) /\ DOMAIN old = 1 .. Len(old) /\ DOMAIN add = 1 .. Len(add) /\ Len(new) = Len(old) + Len(add)
      /\ (\A i \in 1 .. Len(old) : new[i] = old[i]) /\ \A i \in 1 .. Len(add) : new[Len(old) + i] = add[i]
  <2>1. /\ new \in Seq(History!Item) /\ old \in Seq(History!Item) /\ add \in Seq(History!Item) /\ Len(new) \in Nat /\ Len(old) \in Nat /\ Len(add) \in Nat
        /\ Len(new) = Len(old) + Len(add)
        /\ (\A i \in 1 .. Len(old) : new[i] = old[i]) /\ \A i \in 1 .. Len(add) : new[Len(old) + i] = add[i]
    BY DEF HistoryFollows
  <2>2. DOMAIN new = 1 .. Len(new) /\ DOMAIN old = 1 .. Len(old) /\ DOMAIN add = 1 .. Len(add)
    BY ONLY <2>1
  <2> QED BY <2>1, <2>2, Zenon
<1>2. ASSUME NEW i \in DOMAIN new
      PROVE  \/ i \in DOMAIN old /\ new[i] = old[i]
             \/ \E k \in DOMAIN add : i = Len(old) + k /\ new[i] = add[k]
  <2>1. CASE i \in 1 .. Len(old)
    BY <1>1, <2>1
  <2>2. CASE i \notin 1 .. Len(old)
    <3> DEFINE k == i - Len(old)
    <3>1. k \in 1 .. Len(add) /\ i = Len(old) + k
      BY <1>1, <2>2
    <3> HIDE DEF k
    <3> QED BY <1>1, <3>1
  <2> QED BY <2>1, <2>2
<1>3. \A i \in DOMAIN old : old[i] \in History!Item /\ old[i].id \in Nat
  <2>1. \A i \in DOMAIN old : old[i] \in History!Item
    BY <1>1
  <2> QED BY <2>1, HistoryOutputIs
<1>4. \A i \in DOMAIN add : add[i].id \in Nat
  <2>1. \A i \in DOMAIN add : add[i] \in History!Item
    BY <1>1
  <2> QED BY <2>1, HistoryOutputIs
<1>5. History!Once(new, History!CallKind)
  <2> SUFFICES ASSUME NEW i \in DOMAIN new, NEW j \in DOMAIN new, new[i].type \in History!CallKind, new[j].type \in History!CallKind, new[i].id = new[j].id
               PROVE  i = j
    BY DEF History!Once
  <2>1. CASE i \in DOMAIN old /\ new[i] = old[i] /\ j \in DOMAIN old /\ new[j] = old[j]
    BY <2>1 DEF History!PairedBut, History!Once
  <2>2. CASE /\ \E k \in DOMAIN add : i = Len(old) + k /\ new[i] = add[k]
             /\ \E k \in DOMAIN add : j = Len(old) + k /\ new[j] = add[k]
    BY <2>2 DEF History!Once
  <2>3. CASE i \in DOMAIN old /\ new[i] = old[i] /\ \E k \in DOMAIN add : j = Len(old) + k /\ new[j] = add[k]
    <3>1. PICK k \in DOMAIN add : new[j] = add[k]
      BY <2>3
    <3>2. g < add[k].id /\ old[i].id <= g /\ old[i].id = add[k].id /\ add[k].id \in Nat
      BY <1>4, <2>3, <3>1 DEF History!IsCall
    <3> QED BY <3>2
  <2>4. CASE j \in DOMAIN old /\ new[j] = old[j] /\ \E k \in DOMAIN add : i = Len(old) + k /\ new[i] = add[k]
    <3>1. PICK k \in DOMAIN add : new[i] = add[k]
      BY <2>4
    <3>2. g < add[k].id /\ old[j].id <= g /\ old[j].id = add[k].id /\ add[k].id \in Nat
      BY <1>4, <2>4, <3>1 DEF History!IsCall
    <3> QED BY <3>2
  <2>5. /\ (i \in DOMAIN old /\ new[i] = old[i]) \/ \E k \in DOMAIN add : i = Len(old) + k /\ new[i] = add[k]
        /\ (j \in DOMAIN old /\ new[j] = old[j]) \/ \E k \in DOMAIN add : j = Len(old) + k /\ new[j] = add[k]
    BY <1>2
  <2> QED BY <2>1, <2>2, <2>3, <2>4, <2>5
<1>6. \A i \in DOMAIN new : new[i].type = "output" => i \in DOMAIN old /\ new[i] = old[i]
  BY <1>2
<1>7. History!Once(new, {"output"})
  <2> SUFFICES ASSUME NEW i \in DOMAIN new, NEW j \in DOMAIN new, new[i].type \in {"output"}, new[j].type \in {"output"}, new[i].id = new[j].id
               PROVE  i = j
    BY DEF History!Once
  <2>1. i \in DOMAIN old /\ new[i] = old[i] /\ j \in DOMAIN old /\ new[j] = old[j]
    BY <1>6
  <2> QED BY <2>1 DEF History!PairedBut, History!Once
<1>8. ASSUME NEW i \in DOMAIN new, new[i].type = "output"
      PROVE  new[i].id \notin open /\ \E j \in DOMAIN new : j < i /\ History!IsCall(new[j]) /\ new[j].id = new[i].id
  <2>1. i \in DOMAIN old /\ new[i] = old[i]
    BY <1>6, <1>8
  <2>2. PICK j \in DOMAIN old : j < i /\ History!IsCall(old[j]) /\ old[j].id = old[i].id
    BY <1>8, <2>1 DEF History!PairedBut
  <2>3. j \in DOMAIN new /\ new[j] = old[j]
    BY <1>1
  <2>4. old[i].id \in Nat /\ old[i].id <= g
    BY <1>3, <2>1
  <2>5. old[i].id \notin left0
    BY <1>8, <2>1 DEF History!PairedBut
  <2>6. old[i].id \notin open
    BY <2>4, <2>5
  <2> QED BY <2>1, <2>2, <2>3, <2>6
<1>9. ASSUME NEW i \in DOMAIN new, History!IsCall(new[i])
      PROVE  new[i].id \in open \/ \E j \in DOMAIN new : new[j].type = "output" /\ new[j].id = new[i].id
  <2>1. CASE i \in DOMAIN old /\ new[i] = old[i]
    <3>1. old[i].id \in left0 \/ \E j \in DOMAIN old : old[j].type = "output" /\ old[j].id = old[i].id
      BY <1>9, <2>1 DEF History!PairedBut
    <3>2. \A j \in DOMAIN old : j \in DOMAIN new /\ new[j] = old[j]
      BY <1>1
    <3> QED BY <2>1, <3>1, <3>2
  <2>2. CASE \E k \in DOMAIN add : i = Len(old) + k /\ new[i] = add[k]
    BY <1>9, <2>2
  <2> QED BY <1>2, <2>1, <2>2
<1> QED BY <1>1, <1>5, <1>7, <1>8, <1>9 DEF History!PairedBut

(* The results of the calls under way behind it.                                 *)
LEMMA HistoryAddOutputs ==
  ASSUME NEW c \in Seq(History!Item), History!Rising(c), NEW new, NEW old, HistoryFollows(new, old, History!Outputs(History!Ids(c))),
         NEW left0, left0 \cap {c[k].id : k \in DOMAIN c} = {},
         History!PairedBut(old, {c[k].id : k \in DOMAIN c} \cup left0),
         \A k \in DOMAIN c : \E i \in DOMAIN old : History!IsCall(old[i]) /\ old[i].id = c[k].id
  PROVE  History!PairedBut(new, left0)
<1> DEFINE add == History!Outputs(History!Ids(c))
           open == {c[k].id : k \in DOMAIN c}
<1>1. /\ add \in Seq(History!Item) /\ Len(add) = Len(c) /\ DOMAIN c = 1 .. Len(c)
      /\ \A k \in 1 .. Len(c) : c[k].id \in Nat /\ add[k].type = "output" /\ add[k].id = c[k].id
  <2>1. History!Ids(c) \in Seq(Nat) /\ add = HistoryOuts(c, Len(c)) /\ DOMAIN c = 1 .. Len(c) /\ Len(c) \in Nat /\ \A k \in 1 .. Len(c) : c[k] \in History!Item
    BY HistoryOutsAre
  <2>2. \A k \in 1 .. Len(c) : add[k] = [type |-> "output", id |-> c[k].id]
    BY <2>1 DEF HistoryOuts
  <2>3. add \in Seq(History!Item) /\ Len(add) = Len(c)
    BY <2>1, HistoryOutsAre
  <2>4. \A k \in 1 .. Len(c) : c[k].id \in Nat
    BY <2>1, HistoryOutputIs
  <2>5. \A k \in 1 .. Len(c) : add[k].type = "output" /\ add[k].id = c[k].id
    <3> SUFFICES ASSUME NEW k \in 1 .. Len(c) PROVE add[k].type = "output" /\ add[k].id = c[k].id
      OBVIOUS
    <3> DEFINE x == [type |-> "output", id |-> c[k].id]
    <3>1. x.type = "output" /\ x.id = c[k].id
      OBVIOUS
    <3>2. add[k] = x
      BY <2>2
    <3> HIDE DEF add, x
    <3> QED BY <3>1, <3>2, Zenon
  <2> QED BY <2>1, <2>3, <2>4, <2>5, Zenon
<1>2. HistoryFollows(new, old, add) /\ History!PairedBut(old, open \cup left0) /\ left0 \cap open = {}
  OBVIOUS
<1> HIDE DEF add
<1>3. /\ new \in Seq(History!Item) /\ old \in Seq(History!Item) /\ Len(new) \in Nat /\ Len(old) \in Nat /\ Len(add) \in Nat
      /\ DOMAIN new = 1 .. Len(new) /\ DOMAIN old = 1 .. Len(old) /\ DOMAIN add = 1 .. Len(add) /\ Len(new) = Len(old) + Len(add)
      /\ (\A i \in 1 .. Len(old) : new[i] = old[i]) /\ \A i \in 1 .. Len(add) : new[Len(old) + i] = add[i]
  <2>1. /\ new \in Seq(History!Item) /\ old \in Seq(History!Item) /\ Len(new) \in Nat /\ Len(old) \in Nat /\ Len(add) \in Nat
        /\ Len(new) = Len(old) + Len(add)
        /\ (\A i \in 1 .. Len(old) : new[i] = old[i]) /\ \A i \in 1 .. Len(add) : new[Len(old) + i] = add[i]
    BY <1>2 DEF HistoryFollows
  <2>2. DOMAIN new = 1 .. Len(new) /\ DOMAIN old = 1 .. Len(old) /\ DOMAIN add = 1 .. Len(add)
    BY ONLY <1>1, <2>1
  <2> QED BY <2>1, <2>2, Zenon
<1>4. ASSUME NEW i \in DOMAIN new
      PROVE  \/ i \in DOMAIN old /\ new[i] = old[i]
             \/ \E k \in DOMAIN c : i = Len(old) + k /\ new[i].type = "output" /\ new[i].id = c[k].id
  <2>1. CASE i \in 1 .. Len(old)
    BY <1>3, <2>1
  <2>2. CASE i \notin 1 .. Len(old)
    <3> DEFINE k == i - Len(old)
    <3>1. k \in 1 .. Len(add) /\ i = Len(old) + k
      BY <1>3, <2>2
    <3> HIDE DEF k
    <3>2. new[i] = add[k] /\ k \in DOMAIN c
      BY <1>1, <1>3, <3>1
    <3> QED BY <1>1, <3>1, <3>2
  <2> QED BY <2>1, <2>2
<1>5. \A k \in DOMAIN c : Len(old) + k \in DOMAIN new /\ new[Len(old) + k].type = "output" /\ new[Len(old) + k].id = c[k].id
  BY <1>1, <1>3
<1> HIDE DEF open
<1>6. History!Once(new, History!CallKind)
  <2> SUFFICES ASSUME NEW i \in DOMAIN new, NEW j \in DOMAIN new, new[i].type \in History!CallKind, new[j].type \in History!CallKind, new[i].id = new[j].id
               PROVE  i = j
    BY DEF History!Once
  <2>1. i \in DOMAIN old /\ new[i] = old[i] /\ j \in DOMAIN old /\ new[j] = old[j]
    BY <1>4 DEF History!CallKind
  <2> QED BY <1>2, <2>1 DEF History!PairedBut, History!Once
<1>7. History!Once(new, {"output"})
  <2> SUFFICES ASSUME NEW i \in DOMAIN new, NEW j \in DOMAIN new, new[i].type = "output", new[j].type = "output", new[i].id = new[j].id
               PROVE  i = j
    BY DEF History!Once
  <2>1. CASE i \in DOMAIN old /\ new[i] = old[i] /\ j \in DOMAIN old /\ new[j] = old[j]
    BY <1>2, <2>1 DEF History!PairedBut, History!Once
  <2>2. \A l \in DOMAIN old : old[l].type = "output" => ~ \E k \in DOMAIN c : old[l].id = c[k].id
    BY <1>2 DEF History!PairedBut, open
  <2>3. CASE /\ \E k \in DOMAIN c : i = Len(old) + k /\ new[i].id = c[k].id
             /\ \E k \in DOMAIN c : j = Len(old) + k /\ new[j].id = c[k].id
    <3>1. PICK k \in DOMAIN c : i = Len(old) + k /\ new[i].id = c[k].id
      BY <2>3
    <3>2. PICK l \in DOMAIN c : j = Len(old) + l /\ new[j].id = c[l].id
      BY <2>3
    <3>3. c[k].id = c[l].id /\ c[k].id \in Nat /\ k \in Nat /\ l \in Nat
      BY <1>1, <3>1, <3>2
    <3>4. ~(k < l) /\ ~(l < k)
      BY <3>3 DEF History!Rising
    <3> QED BY <3>1, <3>2, <3>3, <3>4
  <2> QED BY <1>4, <2>1, <2>2, <2>3
<1>8. ASSUME NEW i \in DOMAIN new, new[i].type = "output"
      PROVE  new[i].id \notin left0 /\ \E j \in DOMAIN new : j < i /\ History!IsCall(new[j]) /\ new[j].id = new[i].id
  <2>1. CASE i \in DOMAIN old /\ new[i] = old[i]
    <3>1. old[i].id \notin left0 /\ \E j \in DOMAIN old : j < i /\ History!IsCall(old[j]) /\ old[j].id = old[i].id
      BY <1>2, <1>8, <2>1 DEF History!PairedBut
    <3>2. \A j \in DOMAIN old : j \in DOMAIN new /\ new[j] = old[j]
      BY <1>3
    <3> QED BY <2>1, <3>1, <3>2
  <2>2. CASE \E k \in DOMAIN c : i = Len(old) + k /\ new[i].id = c[k].id
    <3>1. PICK k \in DOMAIN c : i = Len(old) + k /\ new[i].id = c[k].id
      BY <2>2
    <3>2. PICK j \in DOMAIN old : History!IsCall(old[j]) /\ old[j].id = c[k].id
      OBVIOUS
    <3>3. j \in DOMAIN new /\ new[j] = old[j] /\ j < i
      BY <1>1, <1>3, <3>1
    <3>4. c[k].id \notin left0
      BY <1>2, <3>1 DEF open
    <3> QED BY <3>1, <3>2, <3>3, <3>4
  <2> QED BY <1>4, <2>1, <2>2
<1>9. ASSUME NEW i \in DOMAIN new, History!IsCall(new[i])
      PROVE  new[i].id \in left0 \/ \E j \in DOMAIN new : new[j].type = "output" /\ new[j].id = new[i].id
  <2>1. i \in DOMAIN old /\ new[i] = old[i]
    BY <1>4, <1>9 DEF History!IsCall, History!CallKind
  <2>2. CASE old[i].id \in open
    <3>1. PICK k \in DOMAIN c : old[i].id = c[k].id
      BY <2>2 DEF open
    <3> QED BY <1>5, <2>1, <3>1
  <2>3. CASE \E j \in DOMAIN old : old[j].type = "output" /\ old[j].id = old[i].id
    <3>1. PICK j \in DOMAIN old : old[j].type = "output" /\ old[j].id = old[i].id
      BY <2>3
    <3>2. j \in DOMAIN new /\ new[j] = old[j]
      BY <1>3
    <3> QED BY <2>1, <3>1, <3>2
  <2>4. CASE old[i].id \in left0
    BY <2>1, <2>4
  <2> QED BY <1>2, <1>9, <2>1, <2>2, <2>3, <2>4 DEF History!PairedBut
<1> QED BY <1>3, <1>6, <1>7, <1>8, <1>9 DEF History!PairedBut

(* Calls to come are nothing to a request.                                       *)
LEMMA HistoryWidened ==
  ASSUME NEW s, NEW left0, NEW left1, History!PairedBut(s, left0), left0 \subseteq left1, NEW g \in Nat,
         \A i \in DOMAIN s : s[i].id <= g, \A x \in left1 \ left0 : x \in Nat /\ g < x
  PROVE  History!PairedBut(s, left1)
<1>1. \A i \in DOMAIN s : s[i].id \in Nat
  <2>1. s \in Seq(History!Item)
    BY DEF History!PairedBut
  <2>2. \A i \in DOMAIN s : s[i] \in History!Item
    BY <2>1
  <2> QED BY <2>2, HistoryOutputIs
<1>2. \A i \in DOMAIN s : s[i].id \notin left0 => s[i].id \notin left1
  BY <1>1
<1> QED BY <1>2 DEF History!PairedBut

(* What a line of the user adds.                                                 *)
LEMMA HistoryUserAdds ==
  ASSUME NEW prov
  PROVE  /\ History!User \in History!Msg /\ History!System \in History!Msg /\ History!InputOf(prov, History!System) = <<>>
         /\ Len(History!InputOf(prov, History!User)) = 1 /\ History!InputOf(prov, History!User)[1] = [type |-> "message", id |-> 0] /\ History!InputOf(prov, History!User) \in Seq(History!Item)
<1>1. History!User \in History!Msg /\ History!System \in History!Msg /\ History!System.role = "system" /\ History!User.role = "user" /\ History!User.text = TRUE /\ History!User.ids = <<>>
  BY DEF History!User, History!System, History!Said, History!Msg
<1>2. History!InputOf(prov, History!System) = <<>>
  BY <1>1 DEF History!InputOf
<1>3. History!Outputs(<<>>) = <<>>
  BY DEF History!Outputs
<1>4. History!InputOf(prov, History!User) = History!Message \o <<>>
  BY <1>1, <1>3, HistoryUserIs
<1>5. History!Message \in Seq(History!Item) /\ <<>> \in Seq(History!Item) /\ Len(History!Message) = 1 /\ Len(<<>>) = 0
  BY HistoryMessageIs
<1>6. HistoryFollows(History!Message \o <<>>, History!Message, <<>>)
  BY <1>5, HistoryFollowsIs
<1> DEFINE u == History!Message \o <<>>
<1>7. HistoryFollows(u, History!Message, <<>>) /\ History!InputOf(prov, History!User) = u
  BY <1>4, <1>6
<1> HIDE DEF u
<1>8. u \in Seq(History!Item) /\ Len(u) = 1 /\ u[1] = History!Message[1]
  <2>1. 1 \in 1 .. 1
    OBVIOUS
  <2> QED BY <1>5, <1>7, <2>1 DEF HistoryFollows
<1> QED BY <1>1, <1>2, <1>7, <1>8, HistoryMessageIs

(* A line more leaves a request well paired.                                     *)
LEMMA HistoryUserPaired ==
  ASSUME NEW prov, NEW h \in Seq(History!Msg), NEW left0, History!PairedBut(History!Input(prov, h), left0), NEW g \in Nat,
         \A i \in DOMAIN History!Input(prov, h) : History!Input(prov, h)[i].id <= g
  PROVE  /\ Append(h, History!User) \in Seq(History!Msg) /\ History!PairedBut(History!Input(prov, Append(h, History!User)), left0)
         /\ \A i \in DOMAIN History!Input(prov, Append(h, History!User)) : History!Input(prov, Append(h, History!User))[i].id <= g
         /\ HistoryFollows(History!Input(prov, Append(h, History!User)), History!Input(prov, h), History!InputOf(prov, History!User))
<1> DEFINE old == History!Input(prov, h)
           new == History!Input(prov, Append(h, History!User))
           add == History!InputOf(prov, History!User)
<1>1. History!User \in History!Msg /\ Append(h, History!User) \in Seq(History!Msg)
  BY HistoryUserAdds
<1>2. HistoryFollows(new, old, add)
  BY <1>1, HistoryAdded
<1>3. add \in Seq(History!Item) /\ DOMAIN add = 1 .. 1 /\ Len(add) = 1 /\ add[1] = [type |-> "message", id |-> 0]
  <2>1. add \in Seq(History!Item) /\ Len(add) = 1 /\ add[1] = [type |-> "message", id |-> 0]
    BY HistoryUserAdds
  <2> HIDE DEF add
  <2> QED BY <2>1
<1>4. History!PairedBut(old, left0) /\ \A i \in DOMAIN old : old[i].id <= g
  OBVIOUS
<1> HIDE DEF old, new, add
<1>5. \A i \in DOMAIN add : add[i].type = "message" /\ add[i].id = 0
  BY <1>3
<1>6. History!Once(add, History!CallKind) /\ \A i \in DOMAIN add : add[i].type # "output" /\ ~History!IsCall(add[i]) /\ add[i].type \notin {"call", "pause"}
  BY <1>5 DEF History!Once, History!CallKind, History!IsCall
<1>7. History!PairedBut(new, left0)
  BY <1>2, <1>4, <1>6, HistoryAddCalls
<1>8. ASSUME NEW i \in DOMAIN new PROVE new[i].id <= g
  <2>1. CASE i \in 1 .. Len(old)
    BY <1>2, <1>4, <2>1 DEF HistoryFollows
  <2>2. CASE i \notin 1 .. Len(old)
    <3>1. i = Len(old) + 1
      BY <1>2, <1>3, <2>2 DEF HistoryFollows
    <3>2. new[i] = add[1]
      BY <1>2, <1>3, <3>1 DEF HistoryFollows
    <3>3. add[1].id = 0
      BY <1>3
    <3> QED BY <3>2, <3>3
  <2> QED BY <2>1, <2>2
<1> QED BY <1>1, <1>2, <1>7, <1>8 DEF old, new, add

(* The items of an answer: numbered after all that came before.                  *)
LEMMA HistoryItemsAre ==
  ASSUME History_given \in Nat, NEW answer \in Seq(History!Kind)
  PROVE  /\ History!Items(answer) \in Seq(History!Item) /\ Len(History!Items(answer)) = Len(answer) /\ Len(answer) \in Nat
         /\ \A i \in 1 .. Len(answer) : History!Items(answer)[i].type \in History!Kind /\ History!Items(answer)[i].id = History_given + i
         /\ History!Rising(History!Items(answer))
<1> DEFINE x == History!Items(answer)
<1>1. Len(answer) \in Nat /\ DOMAIN answer = 1 .. Len(answer) /\ \A i \in 1 .. Len(answer) : answer[i] \in History!Kind
  OBVIOUS
<1>2. ASSUME NEW i \in 1 .. Len(answer)
      PROVE  /\ [type |-> answer[i], id |-> History_given + i] \in History!Item
             /\ [type |-> answer[i], id |-> History_given + i].type = answer[i] /\ [type |-> answer[i], id |-> History_given + i].id = History_given + i
  <2>1. answer[i] \in History!Kind /\ History_given + i \in Nat
    BY <1>1, <1>2
  <2> HIDE DEF History!Kind
  <2> QED BY <2>1 DEF History!Item
<1>3. \A i \in 1 .. Len(answer) : x[i] = [type |-> answer[i], id |-> History_given + i]
  BY <1>1 DEF History!Items
<1>4. x \in [1 .. Len(answer) -> History!Item]
  <2>1. x = [i \in 1 .. Len(answer) |-> [type |-> answer[i], id |-> History_given + i]]
    BY <1>1 DEF History!Items
  <2> QED BY <1>2, <2>1, Zenon
<1> HIDE DEF x
<1>5. x \in Seq(History!Item) /\ Len(x) = Len(answer) /\ DOMAIN x = 1 .. Len(answer)
  BY <1>1, <1>4
<1>6. \A i \in 1 .. Len(answer) : x[i].type = answer[i] /\ x[i].id = History_given + i
  BY <1>2, <1>3, Zenon
<1>7. History!Rising(x)
  BY <1>1, <1>5, <1>6 DEF History!Rising
<1> QED BY <1>1, <1>5, <1>6, <1>7 DEF x

(* What the message of an answer sends again: what was not left out of its items. *)
HistoryKept(prov) == IF prov = "grok" THEN History!Kind \ History!SavedItemSkip ELSE History!Kind
LEMMA HistoryMessageAdds ==
  ASSUME NEW prov \in {"native", "grok"}, NEW items \in Seq(History!Item), \A i \in DOMAIN items : items[i].type \in History!Kind, History!Rising(items)
  PROVE  LET m == History!AsAssistantMessage(items)
         IN  /\ m \in History!Msg /\ History!InputOf(prov, m) \in Seq(History!Item) /\ History!Rising(History!InputOf(prov, m))
             /\ \A k \in DOMAIN History!InputOf(prov, m) : \E i \in DOMAIN items : items[i] = History!InputOf(prov, m)[k]
             /\ \A i \in DOMAIN items : items[i].type \in HistoryKept(prov) => \E k \in DOMAIN History!InputOf(prov, m) : History!InputOf(prov, m)[k] = items[i]
<1> DEFINE m == History!AsAssistantMessage(items)
           add == History!InputOf(prov, m)
<1>1. History!Only(items, History!CallKind) \in Seq(History!Item)
  BY HistoryOnlyIs DEF HistorySel
<1>2. History!Ids(History!Only(items, History!CallKind)) \in Seq(Nat)
  BY <1>1, HistoryOutsAre
<1>3. m \in History!Msg /\ m.role = "assistant" /\ m.saved = items
  BY <1>2 DEF History!AsAssistantMessage, History!Msg
<1>4. add = IF prov = "grok" THEN History!AssistantItems(m) ELSE items
  <2> HIDE DEF m
  <2> QED BY <1>3 DEF History!InputOf
<1>5. add \in Seq(History!Item)
  BY <1>3, HistoryInputOfIs
<1>6. /\ History!Rising(add)
      /\ \A k \in DOMAIN add : \E i \in DOMAIN items : items[i] = add[k]
      /\ \A i \in DOMAIN items : items[i].type \in HistoryKept(prov) => \E k \in DOMAIN add : add[k] = items[i]
  <2>1. CASE prov = "native"
    <3>1. add = items
      BY <1>4, <2>1
    <3> HIDE DEF add
    <3> QED BY <3>1
  <2>2. CASE prov = "grok" /\ items = <<>>
    <3>1. History!Only(items, History!CallKind) = <<>>
      <4> DEFINE o == History!Only(items, History!CallKind)
      <4>1. \A k \in 1 .. Len(o) : \E i \in 1 .. Len(items) : items[i] = o[k]
        BY HistoryOnlyIs DEF HistorySel
      <4>2. o \in Seq(History!Item)
        BY <1>1
      <4> HIDE DEF o
      <4>3. o = <<>>
        BY <2>2, <4>1, <4>2
      <4> QED BY <4>3 DEF o
    <3>2. m.text = FALSE /\ m.ids = <<>>
      BY <2>2, <3>1 DEF History!AsAssistantMessage, History!Ids
    <3>3. History!AssistantItems(m) = History!FunctionCalls(m)
      BY <1>3, <2>2 DEF History!AssistantItems
    <3> HIDE DEF m
    <3>4. History!FunctionCalls(m) = <<>> \o <<>>
      BY <3>2 DEF History!FunctionCalls
    <3>5. add = <<>>
      BY <1>4, <2>2, <3>3, <3>4
    <3> HIDE DEF add
    <3> QED BY <2>2, <3>5 DEF History!Rising
  <2>3. CASE prov = "grok" /\ items # <<>>
    <3> DEFINE o == History!Only(items, History!Kind \ History!SavedItemSkip)
    <3>1. add = o
      <4>1. History!AssistantItems(m) = o
        <5> HIDE DEF m
        <5> QED BY <1>3, <2>3 DEF History!AssistantItems
      <4> QED BY <1>4, <2>3, <4>1
    <3>2. HistorySel(items, History!Kind \ History!SavedItemSkip, Len(items), o)
      BY HistoryOnlyIs
    <3> HIDE DEF o, add
    <3>3. DOMAIN items = 1 .. Len(items) /\ DOMAIN o = 1 .. Len(o) /\ HistoryKept(prov) = History!Kind \ History!SavedItemSkip
      BY <2>3, <3>2 DEF HistorySel, HistoryKept
    <3> QED BY <3>1, <3>2, <3>3 DEF HistorySel
  <2> QED BY <2>1, <2>2, <2>3
<1> QED BY <1>3, <1>5, <1>6

(* Every number that a piece of the trace adds is between the old and the next,   *)
(* and follows the order of the items.                                            *)
HistoryInOrder(events, lo, hi, from, to) ==
  /\ \A e \in events : e.id \in Nat /\ e.seq \in Nat /\ lo < e.id /\ e.id <= hi /\ from <= e.seq /\ e.seq < to
  /\ \A e, f \in events : e.id < f.id => e.seq < f.seq

(* The numbers from one on are as many as the last says.                          *)
LEMMA HistoryNumbers == ASSUME NEW n \in Nat PROVE IsFiniteSet(1 .. n) /\ Cardinality(1 .. n) = n
<1>1. IsFiniteSet(1 .. n) /\ Cardinality(1 .. n) = IF 1 > n THEN 0 ELSE n - 1 + 1
  BY FS_Interval
<1> QED BY <1>1

(* What is below a number is below a higher one.                                  *)
LEMMA HistoryLower ==
  ASSUME NEW S, \A x \in S : x \in Nat, NEW i \in Nat, NEW j \in Nat, i < j
  PROVE  {x \in S : x < i} \subseteq {x \in S : x < j}
OBVIOUS

(* With searches: those before an item, the calls before it, and the item itself.  *)
HistorySearchesTo(S, i) == Cardinality({x \in S : x < i})
HistoryCallsTo(pos, i) == Cardinality({k \in DOMAIN pos : pos[k] < i})
HistoryMarked(S, pos) == S \cup {pos[k] : k \in DOMAIN pos}
LEMMA HistoryMarks ==
  ASSUME NEW n \in Nat, NEW S \in SUBSET (1 .. n), NEW D, IsFiniteSet(D), NEW pos \in [D -> 1 .. n]
  PROVE  /\ \A i \in HistoryMarked(S, pos) : /\ HistorySearchesTo(S, i) \in Nat /\ HistoryCallsTo(pos, i) \in Nat /\ i \in 1 .. n
                                    /\ HistorySearchesTo(S, i) + HistoryCallsTo(pos, i) < Cardinality(S) + Cardinality(D)
         /\ \A i, j \in HistoryMarked(S, pos) : i < j => HistorySearchesTo(S, i) + HistoryCallsTo(pos, i) < HistorySearchesTo(S, j) + HistoryCallsTo(pos, j)
<1> DEFINE A(i) == {x \in S : x < i}
           B(i) == {k \in D : pos[k] < i}
           P(i) == Cardinality(A(i))
           Q(i) == Cardinality(B(i))
           M == S \cup {pos[k] : k \in D}
<1>1. IsFiniteSet(S)
  <2>1. IsFiniteSet(1 .. n)
    BY FS_Interval
  <2> QED BY <2>1, FS_Subset
<1>2. ASSUME NEW T, NEW U, IsFiniteSet(T), U \subseteq T
      PROVE  /\ IsFiniteSet(U) /\ Cardinality(U) \in Nat /\ Cardinality(T) \in Nat /\ Cardinality(U) <= Cardinality(T)
             /\ \A x \in T : x \notin U => Cardinality(U) < Cardinality(T)
  <2>1. IsFiniteSet(U) /\ Cardinality(U) \in Nat /\ Cardinality(T) \in Nat /\ Cardinality(U) <= Cardinality(T)
    BY <1>2, FS_Subset, FS_CardinalityType
  <2>2. ASSUME NEW x \in T, x \notin U PROVE Cardinality(U) < Cardinality(T)
    <3>1. Cardinality(U) = Cardinality(T) => U = T
      BY <1>2, FS_Subset
    <3> QED BY <2>1, <2>2, <3>1
  <2> QED BY <2>1, <2>2
<1>3. ASSUME NEW i \in M
      PROVE  P(i) \in Nat /\ Q(i) \in Nat /\ P(i) + Q(i) < Cardinality(S) + Cardinality(D)
  <2>1. A(i) \subseteq S /\ B(i) \subseteq D /\ i \in Nat
    <3>1. A(i) \subseteq S /\ B(i) \subseteq D
      OBVIOUS
    <3>2. i \in 1 .. n
      BY <1>3
    <3>3. i \in Nat
      BY ONLY n \in Nat, <3>2
    <3> QED BY <3>1, <3>3
  <2>2. P(i) \in Nat /\ Q(i) \in Nat /\ P(i) <= Cardinality(S) /\ Q(i) <= Cardinality(D) /\ Cardinality(S) \in Nat /\ Cardinality(D) \in Nat
    <3> HIDE DEF A, B
    <3> QED BY <1>1, <1>2, <2>1
  <2>3. CASE i \in S
    <3>1. i \notin A(i)
      BY <2>1
    <3>2. P(i) < Cardinality(S)
      <4> HIDE DEF A
      <4> QED BY <1>1, <1>2, <2>1, <2>3, <3>1
    <3> HIDE DEF P, Q
    <3> QED BY <2>2, <3>2
  <2>4. CASE \E k \in D : i = pos[k]
    <3>1. PICK k \in D : i = pos[k]
      BY <2>4
    <3>2. k \notin B(i)
      BY <2>1, <3>1
    <3>3. Q(i) < Cardinality(D)
      <4> HIDE DEF B
      <4> QED BY <1>2, <2>1, <3>1, <3>2
    <3> HIDE DEF P, Q
    <3> QED BY <2>2, <3>3
  <2> QED BY <2>3, <2>4
<1>4. ASSUME NEW i \in M, NEW j \in M, i < j
      PROVE  P(i) + Q(i) < P(j) + Q(j)
  <2>1. i \in Nat /\ j \in Nat
    OBVIOUS
  <2>2. A(i) \subseteq A(j) /\ B(i) \subseteq B(j) /\ A(j) \subseteq S /\ B(j) \subseteq D
    <3>1. A(i) \subseteq A(j)
      <4>1. \A x \in S : x \in Nat
        <5>1. \A x \in 1 .. n : x \in Nat
          OBVIOUS
        <5> QED BY <5>1
      <4> QED BY <1>4, <2>1, <4>1, HistoryLower
    <3>2. B(i) \subseteq B(j)
      BY <1>4, <2>1
    <3> QED BY <3>1, <3>2
  <2>3. IsFiniteSet(A(j)) /\ IsFiniteSet(B(j))
    <3> HIDE DEF A, B
    <3> QED BY <1>1, <2>2, FS_Subset
  <2>4. P(i) \in Nat /\ Q(i) \in Nat /\ P(j) \in Nat /\ Q(j) \in Nat /\ P(i) <= P(j) /\ Q(i) <= Q(j)
    <3> HIDE DEF A, B
    <3> QED BY <1>2, <2>2, <2>3
  <2>5. CASE i \in S
    <3>1. i \in A(j) /\ i \notin A(i)
      BY <1>4, <2>1, <2>5
    <3>2. P(i) < P(j)
      <4> HIDE DEF A, B
      <4> QED BY <1>2, <2>2, <2>3, <3>1
    <3> HIDE DEF P, Q
    <3> QED BY <2>4, <3>2
  <2>6. CASE \E k \in D : i = pos[k]
    <3>1. PICK k \in D : i = pos[k]
      BY <2>6
    <3>2. k \in B(j) /\ k \notin B(i)
      BY <1>4, <2>1, <3>1
    <3>3. Q(i) < Q(j)
      <4> HIDE DEF A, B
      <4> QED BY <1>2, <2>2, <2>3, <3>2
    <3> HIDE DEF P, Q
    <3> QED BY <2>4, <3>3
  <2> QED BY <2>5, <2>6
<1>5. \A i : HistorySearchesTo(S, i) = P(i)
  BY DEF HistorySearchesTo
<1>6. DOMAIN pos = D
  OBVIOUS
<1>7. \A i : HistoryCallsTo(pos, i) = Q(i)
  BY <1>6 DEF HistoryCallsTo
<1>8. HistoryMarked(S, pos) = M /\ \A i \in M : i \in 1 .. n
  BY <1>6 DEF HistoryMarked
<1> HIDE DEF P, Q, M
<1> QED BY <1>3, <1>4, <1>5, <1>7, <1>8

(* The positions of these calls.                                                 *)
LEMMA HistoryPositionsAre ==
  ASSUME NEW items, NEW only, only = History!Only(items, {"call", "pause"})
  PROVE  History!Positions(items) = [k \in DOMAIN only |-> CHOOSE i \in DOMAIN items : items[i] = only[k]]
BY DEF History!Positions, History!PositionsOf

(* What Numbered gives an answer's searches and calls.                           *)
LEMMA HistoryNumbersFollow ==
  ASSUME History_provider \in {"native", "grok"}, History_toolSeq \in Nat, NEW items \in Seq(History!Item), History!Rising(items), NEW lo \in Nat, NEW hi \in Nat,
         \A i \in DOMAIN items : lo < items[i].id /\ items[i].id <= hi
  PROVE  /\ History!Numbered(items).next \in Nat /\ History_toolSeq <= History!Numbered(items).next
         /\ HistoryInOrder(History!Numbered(items).events, lo, hi, History_toolSeq, History!Numbered(items).next)
<1> DEFINE c == History!ExtractToolCalls(items)
<1>1. /\ c \in Seq(History!Item) /\ History!Rising(c) /\ Len(c) \in Nat /\ DOMAIN c = 1 .. Len(c) /\ DOMAIN items = 1 .. Len(items) /\ Len(items) \in Nat
      /\ \A k \in DOMAIN c : \E i \in DOMAIN items : items[i] = c[k]
  <2>1. HistorySel(items, History!Extracted, Len(items), c)
    BY HistoryOnlyIs DEF History!ExtractToolCalls
  <2> HIDE DEF c
  <2>2. c \in Seq(History!Item) /\ DOMAIN items = 1 .. Len(items) /\ Len(items) \in Nat
    BY <2>1 DEF HistorySel
  <2>3. History!Rising(c)
    BY <2>1 DEF HistorySel
  <2>4. DOMAIN c = 1 .. Len(c) /\ Len(c) \in Nat
    BY <2>2
  <2>5. \A k \in DOMAIN c : \E i \in DOMAIN items : items[i] = c[k]
    BY <2>1, <2>2, <2>4 DEF HistorySel
  <2> QED BY <2>2, <2>3, <2>4, <2>5
<1>2. \A i \in DOMAIN items : items[i].id \in Nat
  <2>1. \A i \in DOMAIN items : items[i] \in History!Item
    OBVIOUS
  <2> QED BY <2>1, HistoryOutputIs
<1>3. \A k \in DOMAIN c : c[k].id \in Nat /\ lo < c[k].id /\ c[k].id <= hi
  BY <1>1, <1>2
<1>4. CASE ~(History_provider = "grok" /\ History!Searches(items) # {})
  <2> DEFINE ev == {[id |-> c[k].id, seq |-> History_toolSeq + k - 1] : k \in DOMAIN c}
  <2>1. History!Numbered(items) = [events |-> ev, next |-> History_toolSeq + Len(c)]
    BY <1>4 DEF History!Numbered
  <2>2. ASSUME NEW e \in ev PROVE \E k \in 1 .. Len(c) : e.id = c[k].id /\ e.seq = History_toolSeq + k - 1
    BY <1>1, <2>2
  <2>3. History!Numbered(items).events = ev /\ History!Numbered(items).next = History_toolSeq + Len(c)
    BY <2>1
  <2> HIDE DEF ev, c
  <2>4. \A e \in ev : e.id \in Nat /\ e.seq \in Nat /\ lo < e.id /\ e.id <= hi /\ History_toolSeq <= e.seq /\ e.seq < History_toolSeq + Len(c)
    <3> SUFFICES ASSUME NEW e \in ev PROVE e.id \in Nat /\ e.seq \in Nat /\ lo < e.id /\ e.id <= hi /\ History_toolSeq <= e.seq /\ e.seq < History_toolSeq + Len(c)
      OBVIOUS
    <3>1. PICK k \in 1 .. Len(c) : e.id = c[k].id /\ e.seq = History_toolSeq + k - 1
      BY <2>2
    <3>2. c[k].id \in Nat /\ lo < c[k].id /\ c[k].id <= hi
      BY <1>1, <1>3
    <3>3. History_toolSeq + k - 1 \in Nat /\ History_toolSeq <= History_toolSeq + k - 1 /\ History_toolSeq + k - 1 < History_toolSeq + Len(c)
      BY <1>1
    <3> QED BY <3>1, <3>2, <3>3
  <2>5. ASSUME NEW e \in ev, NEW f \in ev, e.id < f.id PROVE e.seq < f.seq
    <3>1. PICK k \in 1 .. Len(c) : e.id = c[k].id /\ e.seq = History_toolSeq + k - 1
      BY <2>2
    <3>2. PICK l \in 1 .. Len(c) : f.id = c[l].id /\ f.seq = History_toolSeq + l - 1
      BY <2>2
    <3>3. k \in Nat /\ l \in Nat /\ c[k].id \in Nat /\ c[l].id \in Nat /\ c[k].id < c[l].id
      <4>1. k \in DOMAIN c /\ l \in DOMAIN c
        BY <1>1
      <4>2. c[k].id \in Nat /\ c[l].id \in Nat
        BY <1>3, <4>1
      <4>3. k \in Nat /\ l \in Nat
        BY <1>1
      <4> QED BY <2>5, <3>1, <3>2, <4>2, <4>3
    <3>4. ~(l < k)
      <4> SUFFICES ASSUME l < k PROVE FALSE
        OBVIOUS
      <4>1. History!Rising(c) /\ k \in DOMAIN c /\ l \in DOMAIN c
        BY <1>1
      <4>2. c[l].id < c[k].id
        BY <4>1 DEF History!Rising
      <4> QED BY <3>3, <4>2
    <3>5. l # k
      BY <3>3
    <3> QED BY <3>1, <3>2, <3>3, <3>4, <3>5
  <2>6. History_toolSeq + Len(c) \in Nat /\ History_toolSeq <= History_toolSeq + Len(c)
    BY <1>1
  <2>7. HistoryInOrder(ev, lo, hi, History_toolSeq, History_toolSeq + Len(c))
    BY <2>4, <2>5 DEF HistoryInOrder
  <2> QED BY <2>3, <2>6, <2>7
<1>5. CASE History_provider = "grok" /\ History!Searches(items) # {}
  <2> DEFINE pos == History!Positions(items)
             S == History!Searches(items)
             D == 1 .. Len(c)
             P(i) == HistorySearchesTo(S, i)
             Q(i) == HistoryCallsTo(pos, i)
             At(i) == History_toolSeq + P(i) + Q(i)
             all == Cardinality(S) + Len(pos)
             M == HistoryMarked(S, pos)
             ev == {[id |-> items[i].id, seq |-> At(i)] : i \in S}
                   \cup {[id |-> c[k].id, seq |-> IF k <= Len(pos) THEN At(pos[k]) ELSE History_toolSeq + all] : k \in DOMAIN c}
  <2>1. History!Numbered(items) = [events |-> ev, next |-> History_toolSeq + all]
    BY <1>5 DEF History!Numbered, HistorySearchesTo, HistoryCallsTo
  <2>2. c = History!Only(items, {"call", "pause"})
    BY <1>5 DEF History!ExtractToolCalls, History!Extracted
  <2>3. pos = [k \in DOMAIN c |-> CHOOSE i \in DOMAIN items : items[i] = c[k]]
    <3> HIDE DEF c
    <3> QED BY <2>2, HistoryPositionsAre
  <2>4. pos \in [D -> 1 .. Len(items)] /\ \A k \in D : items[pos[k]] = c[k]
    <3> HIDE DEF c
    <3>1. \A k \in D : pos[k] = CHOOSE i \in DOMAIN items : items[i] = c[k]
      BY <1>1, <2>3, Zenon
    <3>2. \A k \in D : pos[k] \in DOMAIN items /\ items[pos[k]] = c[k]
      <4> SUFFICES ASSUME NEW k \in D PROVE pos[k] \in DOMAIN items /\ items[pos[k]] = c[k]
        OBVIOUS
      <4>1. \E i \in DOMAIN items : items[i] = c[k]
        BY <1>1
      <4>2. (CHOOSE i \in DOMAIN items : items[i] = c[k]) \in DOMAIN items /\ items[CHOOSE i \in DOMAIN items : items[i] = c[k]] = c[k]
        BY <4>1, Zenon
      <4> QED BY <3>1, <4>2, Zenon
    <3> DEFINE f(k) == CHOOSE i \in DOMAIN items : items[i] = c[k]
    <3>3. pos = [k \in D |-> f(k)]
      BY <1>1, <2>3, Zenon
    <3> HIDE DEF f, pos
    <3>4. \A k \in D : pos[k] = f(k)
      BY <3>3
    <3>5. \A k \in D : f(k) \in 1 .. Len(items)
      BY <1>1, <3>2, <3>4
    <3>6. pos \in [D -> 1 .. Len(items)]
      BY <3>3, <3>5
    <3> QED BY <3>2, <3>6
  <2>5. S \in SUBSET (1 .. Len(items)) /\ IsFiniteSet(D) /\ Cardinality(D) = Len(c)
    <3>1. IsFiniteSet(D) /\ Cardinality(D) = Len(c)
      BY <1>1, HistoryNumbers
    <3>2. S \subseteq DOMAIN items
      BY DEF History!Searches
    <3> QED BY <1>1, <3>1, <3>2
  <2>6. Cardinality(S) \in Nat
    <3>1. IsFiniteSet(1 .. Len(items))
      BY <1>1, HistoryNumbers
    <3> HIDE DEF S
    <3> QED BY <2>5, <3>1, FS_Subset, FS_CardinalityType
  <2> HIDE DEF S, c
  <2>7. DOMAIN pos = D /\ Len(pos) = Len(c)
    <3> HIDE DEF pos
    <3> QED BY <1>1, <2>4
  <2> HIDE DEF pos
  <2>8. /\ \A i \in M : P(i) \in Nat /\ Q(i) \in Nat /\ P(i) + Q(i) < Cardinality(S) + Len(c) /\ i \in 1 .. Len(items)
        /\ \A i, j \in M : i < j => P(i) + Q(i) < P(j) + Q(j)
    <3> HIDE DEF D
    <3>1. /\ \A i \in HistoryMarked(S, pos) : /\ HistorySearchesTo(S, i) \in Nat /\ HistoryCallsTo(pos, i) \in Nat /\ i \in 1 .. Len(items)
                                    /\ HistorySearchesTo(S, i) + HistoryCallsTo(pos, i) < Cardinality(S) + Cardinality(D)
          /\ \A i, j \in HistoryMarked(S, pos) : i < j => HistorySearchesTo(S, i) + HistoryCallsTo(pos, i) < HistorySearchesTo(S, j) + HistoryCallsTo(pos, j)
      BY <1>1, <2>4, <2>5, HistoryMarks
    <3> QED BY <2>5, <3>1
  <2>9. all = Cardinality(S) + Len(c) /\ all \in Nat
    BY <1>1, <2>6, <2>7
  <2>10. \A i \in M : At(i) \in Nat /\ History_toolSeq <= At(i) /\ At(i) < History_toolSeq + all /\ i \in DOMAIN items
    <3>1. \A i \in M : i \in DOMAIN items
      BY <1>1, <2>8
    <3> HIDE DEF P, Q, M, all
    <3> QED BY <2>6, <2>8, <2>9, <3>1, <1>1
  <2>11. \A i, j \in M : i < j => At(i) < At(j)
    <3>1. \A i \in M : P(i) \in Nat /\ Q(i) \in Nat
      BY <2>8
    <3> HIDE DEF P, Q, M
    <3> QED BY <2>8, <3>1
  <2>20. (\A i \in S : i \in M) /\ \A k \in D : pos[k] \in M
    BY <2>7 DEF HistoryMarked
  <2>12. ASSUME NEW e \in ev PROVE \E i \in M : e.id = items[i].id /\ e.seq = At(i)
    <3> HIDE DEF At, M
    <3>1. CASE e \in {[id |-> items[i].id, seq |-> At(i)] : i \in S}
      BY <2>20, <3>1
    <3>2. CASE e \in {[id |-> c[k].id, seq |-> IF k <= Len(pos) THEN At(pos[k]) ELSE History_toolSeq + all] : k \in DOMAIN c}
      <4>1. PICK k \in DOMAIN c : e = [id |-> c[k].id, seq |-> IF k <= Len(pos) THEN At(pos[k]) ELSE History_toolSeq + all]
        BY <3>2
      <4>2. k <= Len(pos) /\ k \in D
        BY <1>1, <2>7
      <4>3. e.id = c[k].id /\ e.seq = At(pos[k])
        BY <4>1, <4>2
      <4> QED BY <2>4, <2>20, <4>2, <4>3
    <3> QED BY <3>1, <3>2
  <2>13. History!Numbered(items).events = ev /\ History!Numbered(items).next = History_toolSeq + all
    BY <2>1
  <2> HIDE DEF ev, At, all, M
  <2>14. \A e \in ev : e.id \in Nat /\ e.seq \in Nat /\ lo < e.id /\ e.id <= hi /\ History_toolSeq <= e.seq /\ e.seq < History_toolSeq + all
    BY <1>2, <2>10, <2>12
  <2>15. ASSUME NEW e \in ev, NEW f \in ev, e.id < f.id PROVE e.seq < f.seq
    <3>1. PICK i \in M : e.id = items[i].id /\ e.seq = At(i)
      BY <2>12
    <3>2. PICK j \in M : f.id = items[j].id /\ f.seq = At(j)
      BY <2>12
    <3>3. i \in DOMAIN items /\ j \in DOMAIN items /\ items[i].id \in Nat /\ items[j].id \in Nat /\ items[i].id < items[j].id
      BY <1>2, <2>10, <2>15, <3>1, <3>2
    <3>4. i \in Nat /\ j \in Nat /\ ~(j < i) /\ i # j
      BY <1>1, <3>3 DEF History!Rising
    <3> QED BY <2>11, <3>1, <3>2, <3>4
  <2>16. History_toolSeq + all \in Nat /\ History_toolSeq <= History_toolSeq + all
    BY <2>9
  <2>17. HistoryInOrder(ev, lo, hi, History_toolSeq, History_toolSeq + all)
    BY <2>14, <2>15 DEF HistoryInOrder
  <2> QED BY <2>13, <2>16, <2>17
<1> QED BY <1>4, <1>5

(* A request of nothing.                                                         *)
LEMMA HistoryNothingPaired == ASSUME NEW I, I = <<>> PROVE History!PairedBut(I, {}) /\ \A i \in DOMAIN I : I[i].id <= 0
BY DEF History!PairedBut, History!Once

LEMMA HistoryNothingSent == ASSUME NEW prov PROVE History!Input(prov, <<>>) = <<>>
<1>2. <<>> \in Seq(History!Msg) /\ Len(<<>>) = 0
  OBVIOUS
<1>3. History!Input(prov, <<>>) = History!Firsts(HistoryPieces(prov, <<>>))[0]
  BY <1>2, HistoryPiecesAre
<1>4. History!Firsts(HistoryPieces(prov, <<>>))[0] = <<>>
  <2>1. HistoryPieces(prov, <<>>) \in Seq(Seq(History!Item))
    BY <1>2, HistoryPiecesAre
  <2> QED BY <2>1, HistoryFirstsIs
<1> QED BY <1>3, <1>4

(* The types of what is kept are those of the parts.                              *)
LEMMA HistoryTypeFrom ==
  ASSUME History_pc \in {"ask", "answer", "idle", "over", "paused", "stuck"}, History_history \in Seq(History!Msg), History_request \in Seq(History!Item)
  PROVE  History!TypeOK
<1>1. \A i \in DOMAIN History_history : History_history[i].role \in {"system", "user", "assistant", "tool"}
  <2>1. \A i \in DOMAIN History_history : History_history[i] \in History!Msg
    OBVIOUS
  <2> QED BY <2>1 DEF History!Msg
<1>2. \A i \in DOMAIN History_request : History_request[i].type \in History!Kind \cup {"message", "output"}
  <2>1. \A i \in DOMAIN History_request : History_request[i] \in History!Item
    OBVIOUS
  <2> HIDE DEF History!Kind
  <2> QED BY <2>1 DEF History!Item
<1> QED BY <1>1, <1>2 DEF History!TypeOK

LEMMA HistoryInitIInv == History!Init => History!IInv
<1> SUFFICES ASSUME History!Init PROVE History!IInv
  OBVIOUS
<1>1. /\ History_provider \in {"native", "grok"} /\ History_pc = "ask" /\ History_calls = <<>> /\ History_request = <<>>
      /\ History_history = (IF History_provider = "grok" THEN <<History!System, History!User>> ELSE <<History!User>>)
      /\ History_toolSeq = 0 /\ History_traced = {} /\ History_given = 0 /\ History_left = {}
  BY DEF History!Init
<1>2. \E h \in Seq(History!Msg) : /\ History_history = Append(h, History!User) /\ History!PairedBut(History!Input(History_provider, h), {})
                          /\ \A i \in DOMAIN History!Input(History_provider, h) : History!Input(History_provider, h)[i].id <= 0
  <2>1. CASE History_provider = "native"
    <3>1. History_history = Append(<<>>, History!User) /\ <<>> \in Seq(History!Msg)
      BY <1>1, <2>1
    <3> QED BY <3>1, HistoryNothingSent, HistoryNothingPaired
  <2>2. CASE History_provider = "grok"
    <3> DEFINE h == Append(<<>>, History!System)
    <3>1. History!System \in History!Msg /\ History!InputOf(History_provider, History!System) = <<>>
      BY HistoryUserAdds
    <3>2. History_history = Append(h, History!User) /\ h \in Seq(History!Msg)
      BY <1>1, <2>2, <3>1
    <3>3. HistoryFollows(History!Input(History_provider, h), History!Input(History_provider, <<>>), History!InputOf(History_provider, History!System))
      <4>1. <<>> \in Seq(History!Msg)
        OBVIOUS
      <4> QED BY <3>1, <4>1, HistoryAdded
    <3>4. HistoryFollows(History!Input(History_provider, h), <<>>, <<>>)
      BY <3>1, <3>3, HistoryNothingSent
    <3>5. History!Input(History_provider, h) = <<>>
      <4> DEFINE I == History!Input(History_provider, h)
      <4> HIDE DEF I
      <4>1. HistoryFollows(I, <<>>, <<>>)
        BY <3>4 DEF I
      <4>2. I = <<>>
        BY <4>1 DEF HistoryFollows
      <4> QED BY <4>2 DEF I
    <3> HIDE DEF h
    <3> QED BY <3>2, <3>5, HistoryNothingPaired
  <2> QED BY <1>1, <2>1, <2>2
<1>3. PICK h \in Seq(History!Msg) : /\ History_history = Append(h, History!User) /\ History!PairedBut(History!Input(History_provider, h), {})
                            /\ \A i \in DOMAIN History!Input(History_provider, h) : History!Input(History_provider, h)[i].id <= 0
  BY <1>2
<1>4. History_history \in Seq(History!Msg) /\ History!PairedBut(History!Input(History_provider, History_history), {}) /\ \A i \in DOMAIN History!Input(History_provider, History_history) : History!Input(History_provider, History_history)[i].id <= 0
  BY <1>3, HistoryUserPaired
<1>5. History!TypeOK
  <2>1. History_request \in Seq(History!Item)
    BY <1>1
  <2> QED BY <1>1, <1>4, <2>1, HistoryTypeFrom
<1>6. History!Underway /\ History!Traced /\ History!Rising(History_calls) /\ History_calls \in Seq(History!Item) /\ History!Open = {}
  BY <1>1 DEF History!Underway, History!Traced, History!TraceFollowsAnswers, History!Rising, History!Open
<1>7. History!PairedBut(History_request, {}) /\ History_left = {} /\ History!Open \cup History_left = {} /\ \A i \in DOMAIN History_request : History_request[i].id <= History_given
  BY <1>1, <1>6, HistoryNothingPaired
<1>8. History!PairedBut(History!Input(History_provider, History_history), History!Open \cup History_left) /\ History!PairedBut(History_request, History_left) /\ History!Open \cap History_left = {} /\ History_left \subseteq 0 .. History_given
  BY <1>4, <1>6, <1>7, Zenon
<1> QED BY <1>1, <1>4, <1>5, <1>6, <1>7, <1>8 DEF History!IInv

-----------------------------------------------------------------------------
LEMMA HistoryCompleteIInv == ASSUME History!IInv, NEW answer \in HistoryAnswers, History!Complete(answer) PROVE History!IInv'
<1> DEFINE items == History!Items(answer)
           m == History!AsAssistantMessage(items)
           old == History!Input(History_provider, History_history)
           h1 == Append(History_history, m)
           new == History!Input(History_provider, h1)
           add == History!InputOf(History_provider, m)
           c == History!ExtractToolCalls(items)
           g == History_given
           hi == History_given + Len(answer)
           more == History!Leaves(items, History_pc')
<1>1. /\ History_history \in Seq(History!Msg) /\ History_provider \in {"native", "grok"} /\ History!PairedBut(old, History!Open \cup History_left) /\ History!Traced
      /\ (\A i \in DOMAIN old : old[i].id <= History_given) /\ History_left \subseteq 0 .. History_given
  BY DEF History!IInv
<1>2. /\ History_pc = "ask" /\ History_given' = hi /\ History_request' = old /\ History_history' = h1 \o (IF History_pc' = "ask" THEN <<History!User>> ELSE <<>>) /\ History_calls' = c
      /\ History_provider' = History_provider /\ History_left' = History_left \cup more
      /\ History_traced' = History_traced \cup History!Numbered(items).events /\ History_toolSeq' = History!Numbered(items).next
  BY DEF History!Complete
<1>e. /\ History_pc' \in {"ask", "answer", "idle", "over", "paused", "stuck"}
      /\ History_calls' = <<>> => History_pc' # "answer"
      /\ History_pc' = "ask" => History_calls' = <<>>
  <2>1. PICK limited \in BOOLEAN, over \in BOOLEAN : History_pc' \in History!Ending(History_calls', limited, over)
    BY DEF History!Complete
  <2> QED BY <2>1 DEF History!Ending
<1>3. History!Open = {} /\ History!PairedBut(old, History_left)
  <2>1. History!Open = {}
    BY <1>2 DEF History!Open
  <2>2. History!Open \cup History_left = History_left
    BY <2>1
  <2> QED BY <1>1, <2>1, <2>2, Zenon
<1>4. /\ History_given \in Nat /\ History_toolSeq \in Nat /\ History!TraceFollowsAnswers
      /\ \A e \in History_traced : e.id \in Nat /\ e.seq \in Nat /\ e.id <= History_given /\ e.seq < History_toolSeq
  BY <1>1 DEF History!Traced
<1>5. answer \in Seq(History!Kind)
  BY HistoryAssumption
<1>6. /\ items \in Seq(History!Item) /\ Len(items) = Len(answer) /\ Len(answer) \in Nat /\ DOMAIN items = 1 .. Len(items) /\ History!Rising(items)
      /\ \A i \in DOMAIN items : items[i].type \in History!Kind /\ items[i].id = History_given + i
  <2>1. /\ items \in Seq(History!Item) /\ Len(items) = Len(answer) /\ Len(answer) \in Nat /\ History!Rising(items)
        /\ \A i \in 1 .. Len(answer) : items[i].type \in History!Kind /\ items[i].id = History_given + i
    BY <1>4, <1>5, HistoryItemsAre
  <2> HIDE DEF items
  <2>2. DOMAIN items = 1 .. Len(items)
    BY <2>1
  <2> QED BY <2>1, <2>2
<1>7. hi \in Nat /\ \A i \in DOMAIN items : g < items[i].id /\ items[i].id <= hi /\ items[i].id \in Nat
  <2> HIDE DEF items
  <2> QED BY <1>4, <1>6
<1> HIDE DEF items
<1>8. /\ m \in History!Msg /\ add \in Seq(History!Item) /\ History!Rising(add)
      /\ \A k \in DOMAIN add : \E i \in DOMAIN items : items[i] = add[k]
      /\ \A i \in DOMAIN items : items[i].type \in HistoryKept(History_provider) => \E k \in DOMAIN add : add[k] = items[i]
  BY <1>1, <1>6, HistoryMessageAdds
<1>9. HistorySel(items, History!Extracted, Len(items), c)
  BY <1>6, HistoryOnlyIs DEF History!ExtractToolCalls
<1>l. /\ \A x \in more : \E i \in DOMAIN items : items[i].type \in History!CallKind /\ items[i].id = x
      /\ \A i \in DOMAIN items : items[i].type \in History!CallKind => items[i].id \in more \/ (History_pc' = "answer" /\ items[i].type \in History!Extracted)
      /\ History_pc' = "answer" => \A i \in DOMAIN items : items[i].type \in History!Extracted => items[i].id \notin more
  <2>1. \A i, j \in DOMAIN items : items[i].id = items[j].id => i = j
    BY <1>4, <1>6
  <2> QED BY <2>1 DEF History!Leaves, History!IdsOf
<1> HIDE DEF c, m, more
<1>10. HistoryFollows(new, old, add) /\ h1 \in Seq(History!Msg)
  BY <1>1, <1>8, HistoryAdded
<1> HIDE DEF h1
<1> HIDE DEF old, new, add
<1>11. /\ c \in Seq(History!Item) /\ DOMAIN c = 1 .. Len(c) /\ History!Rising(c)
       /\ \A k \in DOMAIN c : \E i \in DOMAIN items : items[i] = c[k] /\ items[i].type \in History!Extracted
       /\ \A i \in DOMAIN items : items[i].type \in History!Extracted => \E k \in DOMAIN c : c[k] = items[i]
  <2>1. c \in Seq(History!Item) /\ History!Rising(c)
    BY <1>6, <1>9 DEF HistorySel
  <2>2. DOMAIN c = 1 .. Len(c)
    BY <2>1
  <2> QED BY <1>6, <1>9, <2>1, <2>2 DEF HistorySel
<1>12. {"call", "pause"} \subseteq History!Extracted /\ History!Extracted \subseteq History!CallKind /\ History!Extracted \subseteq HistoryKept(History_provider)
  BY DEF History!Extracted, History!CallKind, HistoryKept, History!Kind, History!SavedItemSkip
<1>13. /\ History!Open' = (IF History_pc' = "answer" THEN {c[k].id : k \in DOMAIN c} ELSE {})
       /\ \A x \in History!Open' : \E i \in DOMAIN items : items[i].type \in History!Extracted /\ items[i].id = x
       /\ History_pc' = "answer" => \A i \in DOMAIN items : items[i].type \in History!Extracted => items[i].id \in History!Open'
  <2>1. History!Open' = (IF History_pc' = "answer" THEN {c[k].id : k \in DOMAIN c} ELSE {})
    BY <1>2 DEF History!Open
  <2> QED BY <1>11, <2>1
<1> DEFINE open == History!Open' \cup History_left'
<1>w. History_left \subseteq open /\ \A x \in open \ History_left : \E i \in DOMAIN items : items[i].id = x
  BY <1>2, <1>l, <1>13
<1>x. History!Open' \cap History_left' = {} /\ History_left' \subseteq 0 .. hi
  <2>1. ASSUME NEW x \in History!Open' PROVE x \notin History_left'
    <3>1. History_pc' = "answer"
      BY <1>13, <2>1
    <3>2. PICK i \in DOMAIN items : items[i].type \in History!Extracted /\ items[i].id = x
      BY <1>13, <2>1
    <3>3. x \notin more
      BY <1>l, <3>1, <3>2
    <3>4. x \notin History_left
      <4>1. x \in Nat /\ g < x
        BY <1>7, <3>2
      <4> QED BY <1>1, <1>4, <4>1
    <3> QED BY <1>2, <3>3, <3>4
  <2>2. ASSUME NEW x \in History_left' PROVE x \in 0 .. hi
    <3>1. CASE x \in History_left
      <4>1. x \in Nat /\ x <= History_given
        BY <1>1, <1>4, <3>1
      <4> QED BY <1>4, <1>6, <4>1
    <3>2. CASE x \in more
      <4>1. PICK i \in DOMAIN items : items[i].id = x
        BY <1>l, <3>2
      <4> HIDE DEF hi
      <4> QED BY <1>7, <4>1
    <3> QED BY <1>2, <2>2, <3>1, <3>2
  <2> QED BY <2>1, <2>2
<1>14. History!PairedBut(new, open)
  <2>1. History!Once(add, History!CallKind)
    <3> SUFFICES ASSUME NEW i \in DOMAIN add, NEW j \in DOMAIN add, add[i].id = add[j].id PROVE i = j
      BY DEF History!Once
    <3>1. i \in Nat /\ j \in Nat /\ add[i].id \in Nat
      <4>1. PICK l \in DOMAIN items : items[l] = add[i]
        BY <1>8
      <4>2. i \in Nat /\ j \in Nat
        BY <1>8
      <4> QED BY <1>7, <4>1, <4>2
    <3>2. ~(i < j) /\ ~(j < i)
      BY <1>8, <3>1 DEF History!Rising
    <3> QED BY <3>1, <3>2
  <2>2. ASSUME NEW i \in DOMAIN add PROVE add[i].type # "output" /\ g < add[i].id /\ (History!IsCall(add[i]) => add[i].id \in open)
    <3>1. PICK l \in DOMAIN items : items[l] = add[i]
      BY <1>8
    <3>2. add[i].type # "output"
      BY <1>6, <3>1 DEF History!Kind, History!CallKind
    <3>3. ASSUME History!IsCall(add[i]) PROVE add[i].id \in open
      <4>1. items[l].type \in History!CallKind
        BY <3>1, <3>3 DEF History!IsCall
      <4> QED BY <1>2, <1>l, <1>13, <3>1, <4>1
    <3> QED BY <1>7, <3>1, <3>2, <3>3
  <2>3. \A x \in open \ History_left : g < x
    BY <1>7, <1>w
  <2> HIDE DEF open
  <2>4. g \in Nat
    BY <1>4
  <2> QED BY <1>1, <1>3, <1>10, <1>w, <2>1, <2>2, <2>3, <2>4, HistoryAddCalls
<1>15. \A i \in DOMAIN new : new[i].id <= hi
  <2> SUFFICES ASSUME NEW i \in DOMAIN new PROVE new[i].id <= hi
    OBVIOUS
  <2>1. /\ Len(new) \in Nat /\ Len(old) \in Nat /\ Len(add) \in Nat /\ Len(new) = Len(old) + Len(add) /\ i \in 1 .. Len(new)
        /\ DOMAIN old = 1 .. Len(old) /\ DOMAIN add = 1 .. Len(add)
    BY <1>10 DEF HistoryFollows
  <2>2. CASE i \in 1 .. Len(old)
    <3>1. new[i] = old[i] /\ old[i].id <= History_given
      BY <1>1, <1>10, <2>1, <2>2 DEF HistoryFollows
    <3>2. old[i] \in History!Item
      BY <1>10, <2>1, <2>2 DEF HistoryFollows
    <3>3. old[i].id \in Nat
      BY <3>2, HistoryOutputIs
    <3> QED BY <1>4, <1>6, <3>1, <3>3
  <2>3. CASE i \notin 1 .. Len(old)
    <3> DEFINE k == i - Len(old)
    <3>1. k \in 1 .. Len(add) /\ i = Len(old) + k
      BY <2>1, <2>3
    <3> HIDE DEF k
    <3>2. new[i] = add[k] /\ k \in DOMAIN add
      BY <1>10, <2>1, <3>1 DEF HistoryFollows
    <3>3. PICK l \in DOMAIN items : items[l] = add[k]
      BY <1>8, <3>2
    <3> HIDE DEF hi
    <3> QED BY <1>7, <3>2, <3>3
  <2> QED BY <2>2, <2>3
<1>y. History!PairedBut(old, History_left')
  <2>1. \A x \in History_left' \ History_left : x \in Nat /\ g < x
    BY <1>2, <1>7, <1>l
  <2> QED BY <1>1, <1>2, <1>3, <1>4, <2>1, HistoryWidened
<1>16. /\ History_history' \in Seq(History!Msg) /\ History!PairedBut(History!Input(History_provider, History_history)', open)
       /\ \A i \in DOMAIN History!Input(History_provider, History_history)' : History!Input(History_provider, History_history)'[i].id <= hi
       /\ History_pc' # "ask" => History!Input(History_provider, History_history)' = new
  <2> HIDE DEF open, hi
  <2>1. CASE History_pc' = "ask"
    <3>1. h1 \o <<History!User>> = Append(h1, History!User)
      BY <1>10
    <3>2. History_history' = Append(h1, History!User)
      BY <1>2, <2>1, <3>1
    <3>3. hi \in Nat
      BY <1>7
    <3>4. /\ Append(h1, History!User) \in Seq(History!Msg) /\ History!PairedBut(History!Input(History_provider, Append(h1, History!User)), open)
          /\ \A i \in DOMAIN History!Input(History_provider, Append(h1, History!User)) : History!Input(History_provider, Append(h1, History!User))[i].id <= hi
      BY <1>10, <1>14, <1>15, <3>3, HistoryUserPaired DEF new
    <3> QED BY <1>2, <2>1, <3>2, <3>4
  <2>2. CASE History_pc' # "ask"
    <3>1. h1 \o <<>> = h1
      BY <1>10
    <3>2. History_history' = h1
      BY <1>2, <2>2, <3>1
    <3>3. History!Input(History_provider, History_history)' = new
      BY <1>2, <3>2 DEF new
    <3> QED BY <1>10, <1>14, <1>15, <3>2, <3>3, Zenon
  <2> QED BY <2>1, <2>2
<1>17. History!Underway'
  <2>1. ASSUME NEW k \in DOMAIN c PROVE \E i \in DOMAIN new : History!IsCall(new[i]) /\ new[i].id = c[k].id
    <3>1. PICK l \in DOMAIN items : items[l] = c[k] /\ items[l].type \in History!Extracted
      BY <1>11
    <3>2. PICK j \in DOMAIN add : add[j] = items[l]
      BY <1>8, <1>12, <3>1
    <3>3. Len(old) + j \in DOMAIN new /\ new[Len(old) + j] = add[j]
      <4>1. /\ Len(new) \in Nat /\ Len(old) \in Nat /\ Len(add) \in Nat /\ Len(new) = Len(old) + Len(add) /\ DOMAIN new = 1 .. Len(new)
            /\ DOMAIN add = 1 .. Len(add)
        BY <1>10 DEF HistoryFollows
      <4> QED BY <1>10, <4>1 DEF HistoryFollows
    <3> QED BY <1>12, <3>1, <3>2, <3>3 DEF History!IsCall
  <2>2. CASE History_pc' = "ask"
    <3>1. History_calls' = <<>>
      BY <1>e, <2>2
    <3>2. DOMAIN History_calls' = {}
      BY <3>1
    <3> QED BY <3>2 DEF History!Underway
  <2>3. CASE History_pc' # "ask"
    BY <1>2, <1>16, <2>1, <2>3 DEF History!Underway, History!IsCall
  <2> QED BY <2>2, <2>3
<1>18. History!Traced'
  <2> DEFINE N == History!Numbered(items).next
             ev == History!Numbered(items).events
  <2>1. N \in Nat /\ History_toolSeq <= N /\ HistoryInOrder(ev, g, hi, History_toolSeq, N)
    BY <1>1, <1>4, <1>6, <1>7, HistoryNumbersFollow
  <2> HIDE DEF N, ev, hi
  <2>2. \A e \in ev : e.id \in Nat /\ e.seq \in Nat /\ g < e.id /\ e.id <= hi /\ History_toolSeq <= e.seq /\ e.seq < N
    BY <2>1 DEF HistoryInOrder
  <2>3. History_given <= hi
    BY <1>4, <1>6 DEF hi
  <2>4. History_traced' = History_traced \cup ev /\ History_toolSeq' = N
    BY <1>2 DEF N, ev
  <2>5. \A e \in History_traced' : e.id \in Nat /\ e.seq \in Nat /\ e.id <= hi /\ e.seq < N
    BY <1>4, <1>7, <2>1, <2>2, <2>3, <2>4
  <2>6. ASSUME NEW e \in History_traced', NEW f \in History_traced', e.id < f.id PROVE e.seq < f.seq
    <3>1. CASE e \in History_traced /\ f \in History_traced
      BY <1>4, <2>6, <3>1 DEF History!TraceFollowsAnswers
    <3>2. CASE e \in ev /\ f \in ev
      BY <2>1, <2>6, <3>2 DEF HistoryInOrder
    <3>3. CASE e \in History_traced /\ f \in ev
      <4>1. e.seq \in Nat /\ f.seq \in Nat /\ e.seq < History_toolSeq /\ History_toolSeq <= f.seq
        BY <1>4, <2>2, <3>3
      <4> QED BY <1>4, <4>1
    <3>4. CASE e \in ev /\ f \in History_traced
      <4>1. e.id \in Nat /\ f.id \in Nat /\ f.id <= History_given /\ g < e.id
        BY <1>4, <2>2, <3>4
      <4> QED BY <1>4, <2>6, <4>1
    <3> QED BY <2>4, <3>1, <3>2, <3>3, <3>4
  <2>7. History!TraceFollowsAnswers'
    BY <2>6 DEF History!TraceFollowsAnswers
  <2> QED BY <1>2, <1>7, <2>1, <2>4, <2>5, <2>7 DEF History!Traced
<1>19. History!TypeOK'
  <2>1. History_pc' \in {"ask", "answer", "idle", "over", "paused", "stuck"} /\ History_history' \in Seq(History!Msg) /\ History_request' \in Seq(History!Item)
    BY <1>2, <1>e, <1>10, <1>16 DEF HistoryFollows
  <2>2. (History_pc \in {"ask", "answer", "idle", "over", "paused", "stuck"} /\ History_history \in Seq(History!Msg) /\ History_request \in Seq(History!Item) => History!TypeOK)'
    BY HistoryTypeFrom, PTL
  <2> QED BY <2>1, <2>2
<1>20. \A i \in DOMAIN History_request' : History_request'[i].id <= hi
  <2>1. \A i \in DOMAIN old : old[i].id \in Nat
    <3>1. old \in Seq(History!Item)
      BY <1>10 DEF HistoryFollows
    <3>2. \A i \in DOMAIN old : old[i] \in History!Item
      BY <3>1
    <3> QED BY <3>2, HistoryOutputIs
  <2> QED BY <1>1, <1>2, <1>4, <1>6, <2>1
<1>21. History!PairedBut(History_request', History_left') /\ History!PairedBut(History!Input(History_provider, History_history)', History!Open' \cup History_left')
  BY <1>2, <1>16, <1>y
<1> HIDE DEF open
<1> QED BY <1>1, <1>2, <1>11, <1>16, <1>17, <1>18, <1>19, <1>20, <1>21, <1>x DEF History!IInv

(* Results come behind the calls they answer.                                    *)
LEMMA HistoryAnswerIInv == ASSUME History!IInv, History!Answer PROVE History!IInv'
<1> DEFINE old == History!Input(History_provider, History_history)
           h == History_history \o History!AsToolResults(History_calls)
           new == History!Input(History_provider, h)
           add == History!Outputs(History!Ids(History_calls))
<1>1. /\ History_history \in Seq(History!Msg) /\ History_provider \in {"native", "grok"} /\ History!PairedBut(old, History!Open \cup History_left) /\ History!Traced /\ History_calls \in Seq(History!Item) /\ History!Rising(History_calls)
      /\ History!PairedBut(History_request, History_left) /\ History!Underway /\ (\A i \in DOMAIN old : old[i].id <= History_given)
      /\ History!Open \cap History_left = {} /\ History_left \subseteq 0 .. History_given /\ \A i \in DOMAIN History_request : History_request[i].id <= History_given
  BY DEF History!IInv
<1>2. /\ History_pc = "answer" /\ History_history' = h /\ History_pc' \in {"paused", "ask", "idle"}
      /\ UNCHANGED <<History_provider, History_calls, History_request, History_toolSeq, History_traced, History_given, History_left>>
  BY DEF History!Answer
<1>3. h \in Seq(History!Msg) /\ HistoryFollows(new, old, add)
  BY <1>1, HistoryResultsAdded
<1>4. History!Open = {History_calls[k].id : k \in DOMAIN History_calls} /\ History!Open' = {}
  BY <1>2 DEF History!Open
<1>5. \A k \in DOMAIN History_calls : \E i \in DOMAIN old : History!IsCall(old[i]) /\ old[i].id = History_calls[k].id
  BY <1>1 DEF History!Underway
<1> HIDE DEF old, new, h
<1>6. History!PairedBut(new, History_left)
  <2>1. History_left \cap {History_calls[k].id : k \in DOMAIN History_calls} = {} /\ History!PairedBut(old, {History_calls[k].id : k \in DOMAIN History_calls} \cup History_left)
    BY <1>1, <1>4
  <2> QED BY <1>1, <1>3, <1>5, <2>1, HistoryAddOutputs
<1>7. /\ Len(new) \in Nat /\ Len(old) \in Nat /\ Len(add) \in Nat /\ Len(new) = Len(old) + Len(add)
      /\ DOMAIN new = 1 .. Len(new) /\ DOMAIN old = 1 .. Len(old)
      /\ (\A i \in 1 .. Len(old) : new[i] = old[i]) /\ \A i \in 1 .. Len(add) : new[Len(old) + i] = add[i]
  <2> HIDE DEF add
  <2> QED BY <1>3 DEF HistoryFollows
<1>8. Len(add) = Len(History_calls) /\ \A k \in 1 .. Len(History_calls) : add[k].id = History_calls[k].id
  <2>1. add = HistoryOuts(History_calls, Len(History_calls)) /\ Len(History_calls) \in Nat
    BY <1>1, HistoryOutsAre
  <2>2. Len(add) = Len(History_calls)
    <3>1. History_calls \in Seq(History!Item)
      BY <1>1
    <3>2. \A n \in Nat : n <= Len(History_calls) => Len(HistoryOuts(History_calls, n)) = n
      BY Zenon, <3>1, HistoryOutsAre
    <3>3. Len(HistoryOuts(History_calls, Len(History_calls))) = Len(History_calls)
      BY ONLY <2>1, <3>2
    <3> QED BY Zenon, <2>1, <3>3
  <2> HIDE DEF add
  <2> QED BY <2>1, <2>2 DEF HistoryOuts
<1> HIDE DEF add
<1>9. \A i \in DOMAIN new : new[i].id <= History_given
  <2> SUFFICES ASSUME NEW i \in DOMAIN new PROVE new[i].id <= History_given
    OBVIOUS
  <2>1. CASE i \in 1 .. Len(old)
    BY <1>1, <1>7, <2>1
  <2>2. CASE i \notin 1 .. Len(old)
    <3> DEFINE k == i - Len(old)
    <3>1. k \in 1 .. Len(add) /\ i = Len(old) + k
      BY <1>7, <2>2
    <3> HIDE DEF k
    <3>2. new[i].id = History_calls[k].id /\ k \in DOMAIN History_calls
      BY <1>1, <1>7, <1>8, <3>1
    <3>3. PICK j \in DOMAIN old : old[j].id = History_calls[k].id
      BY <1>5, <3>2
    <3> QED BY <1>1, <3>2, <3>3
  <2> QED BY <2>1, <2>2
<1>10. History!Input(History_provider, History_history)' = new
  BY <1>2 DEF new
<1>11. History!Underway'
  <2>1. \A k \in DOMAIN History_calls : \E i \in DOMAIN new : History!IsCall(new[i]) /\ new[i].id = History_calls[k].id
    BY <1>5, <1>7
  <2> QED BY <1>2, <1>10, <2>1 DEF History!Underway, History!IsCall
<1>12. History!TypeOK'
  <2>1. History_pc' \in {"ask", "answer", "idle", "over", "paused", "stuck"} /\ History_history' \in Seq(History!Msg) /\ History_request' \in Seq(History!Item)
    BY <1>1, <1>2, <1>3 DEF History!PairedBut
  <2>2. (History_pc \in {"ask", "answer", "idle", "over", "paused", "stuck"} /\ History_history \in Seq(History!Msg) /\ History_request \in Seq(History!Item) => History!TypeOK)'
    BY HistoryTypeFrom, PTL
  <2> QED BY <2>1, <2>2
<1>13. History!Traced'
  BY <1>1, <1>2 DEF History!Traced, History!TraceFollowsAnswers
<1>14. History!PairedBut(History!Input(History_provider, History_history)', History!Open' \cup History_left') /\ History!Open' \cap History_left' = {}
  <2>1. History!Open' \cup History_left' = History_left
    BY <1>2, <1>4
  <2> QED BY <1>4, <1>6, <1>10, <2>1, Zenon
<1> QED BY <1>1, <1>2, <1>3, <1>9, <1>10, <1>11, <1>12, <1>13, <1>14 DEF History!IInv

(* A step that changes neither the history nor the calls.                        *)
LEMMA HistorySameHistory ==
  ASSUME History!IInv, UNCHANGED <<History_provider, History_history, History_calls, History_toolSeq, History_traced, History_given, History_left>>, History!Open = {}, History!Open' = {},
         \A i \in DOMAIN History_request' : History_request'[i].id <= History_given,
         History_pc' \in {"ask", "answer", "idle", "over", "paused", "stuck"}, History!PairedBut(History_request', History_left)
  PROVE  History!IInv'
<1>1. History_request' \in Seq(History!Item) /\ History_history' \in Seq(History!Msg)
  BY DEF History!PairedBut, History!IInv
<1>2. History!TypeOK'
  <2>1. (History_pc \in {"ask", "answer", "idle", "over", "paused", "stuck"} /\ History_history \in Seq(History!Msg) /\ History_request \in Seq(History!Item) => History!TypeOK)'
    BY HistoryTypeFrom, PTL
  <2> QED BY <1>1, <2>1
<1>3. History!Input(History_provider, History_history)' = History!Input(History_provider, History_history)
  OBVIOUS
<1>4. History!Underway' /\ History!Traced'
  BY <1>3 DEF History!IInv, History!Underway, History!IsCall, History!Traced, History!TraceFollowsAnswers
<1>5. History!PairedBut(History!Input(History_provider, History_history)', History!Open' \cup History_left') /\ History!PairedBut(History_request', History_left') /\ History!Open' \cap History_left' = {}
  BY <1>3, Zenon DEF History!IInv
<1> QED BY <1>1, <1>2, <1>3, <1>4, <1>5 DEF History!IInv

LEMMA HistoryNextIInv == ASSUME History!IInv, [History!Next]_History!vars PROVE History!IInv'
<1>1. /\ History_history \in Seq(History!Msg) /\ History!PairedBut(History!Input(History_provider, History_history), History!Open \cup History_left) /\ History!PairedBut(History_request, History_left) /\ History_given \in Nat /\ History!Underway /\ History!Traced
      /\ (\A i \in DOMAIN History!Input(History_provider, History_history) : History!Input(History_provider, History_history)[i].id <= History_given)
      /\ (History!Open = {} => History!PairedBut(History!Input(History_provider, History_history), History_left)) /\ \A i \in DOMAIN History_request : History_request[i].id <= History_given
  <2>1. History!Open = {} => History!Open \cup History_left = History_left
    OBVIOUS
  <2>2. History!Open = {} => History!PairedBut(History!Input(History_provider, History_history), History_left)
    BY <2>1, Zenon DEF History!IInv
  <2> QED BY <2>2 DEF History!IInv, History!Traced
<1>2. ASSUME NEW answer \in HistoryAnswers, History!Complete(answer) PROVE History!IInv'
  BY <1>2, HistoryCompleteIInv
<1>3. CASE History!Answer
  BY <1>3, HistoryAnswerIInv
<1>4. CASE History!Say
  <2>1. /\ History_pc = "idle" /\ History_pc' = "ask" /\ History_history' = Append(History_history, History!User) /\ History_toolSeq' = 0 /\ History_traced' = {}
        /\ UNCHANGED <<History_provider, History_calls, History_request, History_given, History_left>>
    BY <1>4 DEF History!Say
  <2>2. History!Open = {} /\ History!Open' = {}
    BY <2>1 DEF History!Open
  <2> DEFINE new == History!Input(History_provider, Append(History_history, History!User))
             old == History!Input(History_provider, History_history)
  <2>3. /\ Append(History_history, History!User) \in Seq(History!Msg) /\ History!PairedBut(new, History_left) /\ (\A i \in DOMAIN new : new[i].id <= History_given)
        /\ HistoryFollows(new, old, History!InputOf(History_provider, History!User))
    BY <1>1, <2>2, HistoryUserPaired
  <2>4. History!Input(History_provider, History_history)' = new
    BY <2>1
  <2> HIDE DEF new, old
  <2>5. \A i \in DOMAIN old : i \in DOMAIN new /\ new[i] = old[i]
    BY <2>3 DEF HistoryFollows
  <2>6. History!Underway'
    <3>1. \A k \in DOMAIN History_calls : \E i \in DOMAIN new : History!IsCall(new[i]) /\ new[i].id = History_calls[k].id
      <4>1. \A k \in DOMAIN History_calls : \E i \in DOMAIN old : History!IsCall(old[i]) /\ old[i].id = History_calls[k].id
        BY <1>1 DEF History!Underway, old
      <4> QED BY <2>5, <4>1
    <3> QED BY <2>1, <2>4, <3>1 DEF History!Underway, History!IsCall
  <2>7. History!Traced'
    BY <1>1, <2>1 DEF History!Traced, History!TraceFollowsAnswers
  <2>8. History!TypeOK'
    <3>1. History_pc' \in {"ask", "answer", "idle", "over", "paused", "stuck"} /\ History_history' \in Seq(History!Msg) /\ History_request' \in Seq(History!Item)
      BY <1>1, <2>1, <2>3 DEF History!PairedBut
    <3>2. (History_pc \in {"ask", "answer", "idle", "over", "paused", "stuck"} /\ History_history \in Seq(History!Msg) /\ History_request \in Seq(History!Item) => History!TypeOK)'
      BY HistoryTypeFrom, PTL
    <3> QED BY <3>1, <3>2
  <2>9. History!PairedBut(History!Input(History_provider, History_history)', History!Open' \cup History_left') /\ History!PairedBut(History_request', History_left') /\ History!Open' \cap History_left' = {}
    <3>1. History!Open' \cup History_left' = History_left
      BY <2>1, <2>2
    <3> QED BY <1>1, <2>1, <2>2, <2>3, <2>4, <3>1
  <2> QED BY <1>1, <2>1, <2>2, <2>3, <2>4, <2>6, <2>7, <2>8, <2>9 DEF History!IInv
<1>5. CASE History!Reflect
  <2>1. /\ History_pc \in {"idle", "over"} /\ History_pc' = History_pc /\ History_request' = History!Input(History_provider, Append(History_history, History!User))
        /\ UNCHANGED <<History_provider, History_history, History_calls, History_toolSeq, History_traced, History_given, History_left>>
    BY <1>5 DEF History!Reflect
  <2>2. History!Open = {} /\ History!Open' = {}
    BY <2>1 DEF History!Open
  <2>3. History!PairedBut(History_request', History_left) /\ \A i \in DOMAIN History_request' : History_request'[i].id <= History_given
    BY <1>1, <2>1, <2>2, HistoryUserPaired
  <2> QED BY <2>1, <2>2, <2>3, HistorySameHistory
<1>o. CASE History!Overspend
  <2>1. /\ History_pc = "ask" /\ History_pc' = "over" /\ History_request' = History!Input(History_provider, History_history)
        /\ UNCHANGED <<History_provider, History_history, History_calls, History_toolSeq, History_traced, History_given, History_left>>
    BY <1>o DEF History!Overspend
  <2>2. History!Open = {} /\ History!Open' = {}
    BY <2>1 DEF History!Open
  <2> QED BY <1>1, <2>1, <2>2, HistorySameHistory
<1>6. CASE History!Resume
  <2>1. History_pc = "paused" /\ History_pc' \in {"stuck", "ask"} /\ UNCHANGED <<History_provider, History_history, History_calls, History_request, History_toolSeq, History_traced, History_given, History_left>>
    BY <1>6 DEF History!Resume
  <2>2. History!Open = {} /\ History!Open' = {}
    BY <2>1 DEF History!Open
  <2> QED BY <1>1, <2>1, <2>2, HistorySameHistory
<1>7. CASE UNCHANGED History!vars
  <2>1. /\ UNCHANGED <<History_provider, History_history, History_pc, History_calls, History_request, History_toolSeq, History_traced, History_given, History_left>>
    BY <1>7 DEF History!vars
  <2>2. History!Input(History_provider, History_history)' = History!Input(History_provider, History_history) /\ History!Open' = History!Open
    BY <2>1 DEF History!Open
  <2>3. History!Underway' /\ History!Traced' /\ History!TypeOK'
    BY <1>1, <2>1, <2>2 DEF History!IInv, History!Underway, History!IsCall, History!Traced,
         History!TraceFollowsAnswers, History!TypeOK
  <2> QED BY <2>1, <2>2, <2>3 DEF History!IInv
<1> QED BY <1>2, <1>3, <1>4, <1>5, <1>6, <1>7, <1>o DEF History!Next

(* Well paired is what the requests are to be.                                   *)
LEMMA HistoryHolds == History!IInv => History!TypeOK /\ History!HistoryPairs
<1> SUFFICES ASSUME History!IInv PROVE History!TypeOK /\ History!HistoryPairs
  OBVIOUS
<1>1. History!PairedBut(History_request, History_left) /\ History!TraceFollowsAnswers /\ History!TypeOK
  BY DEF History!IInv, History!Traced
<1>2. History_request \in Seq(History!Item) /\ DOMAIN History_request = 1 .. Len(History_request) /\ History!Once(History_request, History!CallKind) /\ History!Once(History_request, {"output"})
  BY <1>1 DEF History!PairedBut
<1>a. ASSUME NEW i \in DOMAIN History_request, History!IsCall(History_request[i]) \/ History_request[i].type = "output", History_request[i].id \in History_left
      PROVE  History!IsCall(History_request[i]) /\ Cardinality(History!CallsOf(History_request[i].id)) = 1 /\ History!Has("output", History_request[i].id) = {}
  <2>1. History!Has("output", History_request[i].id) = {} /\ History!IsCall(History_request[i])
    BY <1>1, <1>a DEF History!PairedBut, History!Has
  <2>2. History!CallsOf(History_request[i].id) = {i}
    BY <1>2, <2>1 DEF History!CallsOf, History!IsCall, History!Once
  <2>3. Cardinality({i}) = 1
    BY FS_Singleton
  <2> QED BY <2>1, <2>2, <2>3
<1>3. ASSUME NEW i \in DOMAIN History_request, History!IsCall(History_request[i]) \/ History_request[i].type = "output", History_request[i].id \notin History_left PROVE History!Paired(History_request[i].id)
  <2> DEFINE id == History_request[i].id
  <2>1. \E j, k \in DOMAIN History_request : j < k /\ History!IsCall(History_request[j]) /\ History_request[j].id = id /\ History_request[k].type = "output" /\ History_request[k].id = id
    <3>1. CASE History_request[i].type = "output"
      BY <1>1, <3>1 DEF History!PairedBut
    <3>2. CASE History!IsCall(History_request[i])
      <4>1. PICK k \in DOMAIN History_request : History_request[k].type = "output" /\ History_request[k].id = id
        BY <1>1, <1>3, <3>2 DEF History!PairedBut
      <4>2. PICK j \in DOMAIN History_request : j < k /\ History!IsCall(History_request[j]) /\ History_request[j].id = History_request[k].id
        BY <1>1, <4>1 DEF History!PairedBut
      <4> QED BY <4>1, <4>2
    <3> QED BY <1>3, <3>1, <3>2
  <2>2. PICK j \in DOMAIN History_request, k \in DOMAIN History_request :
          j < k /\ History!IsCall(History_request[j]) /\ History_request[j].id = id /\ History_request[k].type = "output" /\ History_request[k].id = id
    BY <2>1
  <2> HIDE DEF id
  <2>3. History!CallsOf(id) = {j}
    BY <1>2, <2>2 DEF History!CallsOf, History!IsCall, History!Once
  <2>4. History!Has("output", id) = {k}
    BY <1>2, <2>2 DEF History!Has, History!Once
  <2>5. Cardinality({j}) = 1 /\ Cardinality({k}) = 1
    BY FS_Singleton
  <2> QED BY <2>2, <2>3, <2>4, <2>5 DEF History!Paired, id
<1> QED BY <1>1, <1>3, <1>a DEF History!HistoryPairs, History!RequestsPair

(* modes/native.py, modes/grok.py: a request holds each call once, with its answer once and      *)
(* behind it, but for calls that Grok passed over or that a run stopped on, which it holds once  *)
(* and without an answer, and the trace numbers follow the answers, for any answers of any       *)
(* lengths, either provider, pauses, further lines and reflections.                              *)
THEOREM HistoriesPair == Spec => []HistoryPairs
<1> DEFINE Inv == part = "history" => History!IInv
<1>1. Init => Inv
  BY HistoryInitIInv DEF Init
<1>2. Inv /\ [Next]_vars => Inv'
  <2>1. ASSUME part = "history", History!IInv, [Next]_vars PROVE History!IInv'
    BY <2>1, HistoryNextIInv DEF Next, vars, History!vars
  <2>2. [Next]_vars => part' = part
    BY DEF Next, vars
  <2> QED BY <2>1, <2>2
<1>3. Inv => HistoryPairs
  BY HistoryHolds DEF HistoryPairs
<1> QED
  BY <1>1, <1>2, <1>3, PTL DEF Spec

HIDE HistoryCardinality
HIDE DEF History_provider, History_history, History_pc, History_calls, History_request,
  History_toolSeq, History_traced, History_given, History_left

-----------------------------------------------------------------------------
(* ServerSessions. *)
Server_server == x1
Server_listed == x2
Server_status == x3
Server_thread == x4
Server_stop == x5
Server_trace == x6
Server_subs == x7
Server_row == x8
Server_sending == x9
Server_events == x10
USE DEF Server_server, Server_listed, Server_status, Server_thread, Server_stop, Server_trace,
  Server_subs, Server_row, Server_sending, Server_events

(* Sets have one cardinality, inside and outside of ServerSessions. *)
LEMMA ServerCardinality == \A S : Server!Cardinality(S) = Cardinality(S)
BY DEF Server!Cardinality, Cardinality
USE ServerCardinality

ServerTurning == {s \in ServerSession : Server_thread[s] = "turn"}

(* A server that has just started is under its quota.                          *)
LEMMA ServerInitIInv == Server!Init => Server!IInv
<1> SUFFICES ASSUME Server!Init PROVE Server!IInv
  OBVIOUS
<1>1. Server!TypeOK /\ Server!Types /\ Server!EndingSpeaks
  BY ServerAssumption DEF Server!Init, Server!TypeOK, Server!Types, Server!TraceFile, Server!EndingSpeaks,
       Server!NoTrace, Server!NoRow, Server!Schema, Server!None
<1>2. ServerTurning = {}
  BY DEF Server!Init, ServerTurning
<1>3. Cardinality(ServerTurning) = 0
  BY <1>2, FS_EmptySet
<1> QED
  BY <1>1, <1>2, <1>3, ServerAssumption DEF Server!IInv, Server!ThreadsBounded, ServerTurning

(* Fewer threads are no more threads.                                          *)
LEMMA ServerFewerThreads ==
  ASSUME Server!ThreadsBounded, ServerTurning' \subseteq ServerTurning
  PROVE  Cardinality(ServerTurning') <= ServerMaxActive
<1>1. IsFiniteSet(ServerTurning)
  BY FS_Subset, ServerAssumption DEF ServerTurning
<1>2. Cardinality(ServerTurning') <= Cardinality(ServerTurning)
  BY <1>1, FS_Subset
<1>3. Cardinality(ServerTurning) \in Nat /\ Cardinality(ServerTurning') \in Nat
  BY <1>1, FS_Subset, FS_CardinalityType
<1>4. Cardinality(ServerTurning) <= ServerMaxActive
  BY DEF Server!ThreadsBounded, ServerTurning
<1> QED BY <1>2, <1>3, <1>4, ServerAssumption

(* The quota is checked on the list, and every thread is on it.                *)
LEMMA ServerCreateStep ==
  ASSUME Server!IInv, NEW s \in ServerSession, Server!Create(s)
  PROVE  Server!IInv'
<1>1. /\ Server_thread' = [Server_thread EXCEPT ![s] = "turn"] /\ Server_status' = [Server_status EXCEPT ![s] = "running"]
      /\ Server_listed' = Server_listed \cup {s} /\ Cardinality(Server!ActiveSessions) < ServerMaxActive
      /\ UNCHANGED <<Server_server, Server_stop, Server_subs, Server_sending>>
  BY DEF Server!Create
<1>2. Server_trace' \in [ServerSession -> Server!TraceFile]
  <2>1. PICK d \in ServerDay, f \in ServerFolder : Server_trace' = [Server_trace EXCEPT ![s].at = <<d, f>>]
    BY DEF Server!Create
  <2>2. <<d, f>> \in (ServerDay \cup {0}) \X (ServerFolder \cup {Server!None}) /\ Server_trace[s] \in Server!TraceFile
    BY DEF Server!IInv, Server!Types
  <2>3. [Server_trace[s] EXCEPT !.at = <<d, f>>] \in Server!TraceFile
    BY <2>2 DEF Server!TraceFile
  <2> QED BY <2>1, <2>3 DEF Server!IInv, Server!Types
<1>3. Server_row' \in [ServerSession \cup ServerFolder -> Server!Schema] /\ Server_events' \in Nat /\ Server_events' <= ServerMaxEvents
  <2>1. \/ Server_row' = [Server_row EXCEPT ![s] = [status |-> "running", trace |-> s]] /\ Server_events' = Server_events
        \/ Server_row' = Server_row /\ Server!Event
    BY DEF Server!Create
  <2>2. [status |-> "running", trace |-> s] \in Server!Schema
    BY DEF Server!Schema
  <2>3. Server_row' \in [ServerSession \cup ServerFolder -> Server!Schema]
    BY <2>1, <2>2 DEF Server!IInv, Server!Types
  <2>4. Server_events' \in Nat /\ Server_events' <= ServerMaxEvents
    BY <2>1, ServerAssumption DEF Server!Event, Server!IInv, Server!Types, Server!TypeOK
  <2> QED BY <2>3, <2>4
<1>4. Server!TypeOK' /\ Server!Types' /\ Server!EndingSpeaks'
  BY <1>1, <1>2, <1>3 DEF Server!IInv, Server!TypeOK, Server!Types, Server!EndingSpeaks, Server!Active
<1>5. ServerTurning' = ServerTurning \cup {s}
  BY <1>1 DEF Server!IInv, Server!TypeOK, ServerTurning
<1>6. ServerTurning \subseteq Server!ActiveSessions /\ IsFiniteSet(ServerTurning)
  BY FS_Subset, ServerAssumption DEF Server!IInv, Server!ThreadsBounded, ServerTurning
<1>7. Cardinality(ServerTurning) < ServerMaxActive
  <2>1. IsFiniteSet(Server!ActiveSessions)
    BY FS_Subset, ServerAssumption DEF Server!IInv, Server!Types, Server!ActiveSessions
  <2>2. Cardinality(ServerTurning) <= Cardinality(Server!ActiveSessions)
    BY <1>6, <2>1, FS_Subset
  <2>3. Cardinality(ServerTurning) \in Nat /\ Cardinality(Server!ActiveSessions) \in Nat
    BY <1>6, <2>1, FS_CardinalityType
  <2> QED BY <1>1, <2>2, <2>3, ServerAssumption
<1>8. Cardinality(ServerTurning') <= ServerMaxActive
  <2>1. Cardinality(ServerTurning') \in {Cardinality(ServerTurning), Cardinality(ServerTurning) + 1}
    BY <1>5, <1>6, FS_AddElement
  <2>2. Cardinality(ServerTurning) \in Nat
    BY <1>6, FS_CardinalityType
  <2> QED BY <1>7, <2>1, <2>2, ServerAssumption
<1>9. \A t \in ServerSession : Server_thread'[t] = "turn" => t \in Server!ActiveSessions'
  BY <1>1 DEF Server!IInv, Server!TypeOK, Server!ThreadsBounded, Server!ActiveSessions, Server!Active
<1> QED
  BY <1>4, <1>8, <1>9 DEF Server!IInv, Server!ThreadsBounded, ServerTurning

(* Any other step lets no thread begin, and keeps the rest in the count.        *)
LEMMA ServerOtherStep ==
  ASSUME Server!IInv, Server!TypeOK', Server!Types',
         \A s \in ServerSession : Server_thread'[s] = "ending" => Server_status'[s] # "idle",
         \A s \in ServerSession : Server_thread'[s] = "turn" =>
           Server_thread[s] = "turn" /\ (s \in Server_listed => s \in Server_listed')
             /\ (Server_status[s] \in Server!Active => Server_status'[s] \in Server!Active)
  PROVE  Server!IInv'
<1>1. ServerTurning' \subseteq ServerTurning
  BY DEF ServerTurning
<1>2. Cardinality(ServerTurning') <= ServerMaxActive
  BY <1>1, ServerFewerThreads DEF Server!IInv
<1>3. \A s \in ServerSession : Server_thread'[s] = "turn" => s \in Server!ActiveSessions'
  BY DEF Server!IInv, Server!ThreadsBounded, Server!ActiveSessions
<1> QED
  BY <1>2, <1>3 DEF Server!IInv, Server!ThreadsBounded, Server!EndingSpeaks, ServerTurning

(* No step leaves the quota behind.                                            *)
LEMMA ServerNextIInv == Server!IInv /\ [Server!Next]_Server!vars => Server!IInv'
<1> SUFFICES ASSUME Server!IInv, [Server!Next]_Server!vars PROVE Server!IInv'
  OBVIOUS
<1> USE ServerAssumption DEF Server!IInv, Server!TypeOK, Server!Types, Server!EndingSpeaks, Server!Active,
     Server!Terminal, Server!memory, Server!files, Server!Event, Server!Schema, Server!None
<1>1. ASSUME NEW s \in ServerSession, Server!Create(s) PROVE Server!IInv'
  BY <1>1, ServerCreateStep
<1>2. ASSUME NEW s \in ServerSession, Server!Idle(s) PROVE Server!IInv'
  <2>1. Server!TypeOK' /\ Server!Types'
    BY <1>2 DEF Server!Idle
  <2> QED BY <1>2, <2>1, ServerOtherStep DEF Server!Idle
<1>3. ASSUME NEW s \in ServerSession, Server!SendCheck(s) \/ Server!Spawn(s) PROVE Server!IInv'
  BY <1>3, ServerOtherStep DEF Server!SendCheck, Server!Spawn
<1>4. CASE Server!SendMark
  <2>1. Server!TypeOK' /\ Server!Types'
    BY <1>4 DEF Server!SendMark
  <2> QED BY <1>4, <2>1, ServerOtherStep DEF Server!SendMark
<1>5. ASSUME NEW s \in ServerSession, Server!Settle(s) PROVE Server!IInv'
  <2>1. /\ Server_thread[s] = "turn" /\ Server_thread' = [Server_thread EXCEPT ![s] = "ending"]
        /\ UNCHANGED <<Server_listed, Server_server, Server_stop, Server_subs, Server_events, Server_sending>>
    BY <1>5 DEF Server!Settle
  <2>2. \E st \in (Server!Active \cup Server!Terminal) \ {"idle"} : Server_status' = [Server_status EXCEPT ![s] = st]
    BY <1>5 DEF Server!Settle
  <2>3. Server_trace' \in [ServerSession -> Server!TraceFile]
    <3>1. Server_trace' = Server_trace \/ \E e \in {"completed", "stopped"} : Server_trace' = [Server_trace EXCEPT ![s].end = e]
      BY <1>5 DEF Server!Settle
    <3>2. Server_trace[s] \in Server!TraceFile
      OBVIOUS
    <3>3. \A e \in {"completed", "stopped"} : [Server_trace[s] EXCEPT !.end = e] \in Server!TraceFile
      BY <3>2 DEF Server!TraceFile
    <3> QED BY <3>1, <3>3
  <2>4. Server_row' \in [ServerSession \cup ServerFolder -> Server!Schema]
    <3>1. Server_row[s] \in Server!Schema
      OBVIOUS
    <3>2. [Server_row[s] EXCEPT !.status = "paused"] \in Server!Schema
      BY <3>1
    <3>3. Server_row' = [Server_row EXCEPT ![s].status = "paused"] \/ Server_row' = Server_row
      BY <1>5 DEF Server!Settle
    <3> HIDE DEF Server!Schema
    <3> QED BY <3>2, <3>3
  <2>5. Server_thread' \in [ServerSession -> {"none", "turn", "ending", "over"}]
    BY <2>1
  <2>6. Server_status' \in [ServerSession -> Server!Active \cup Server!Terminal \cup {Server!None}]
    BY <2>2
  <2>7. Server!TypeOK' /\ Server!Types'
    <3> HIDE DEF Server!Schema
    <3> QED BY <2>1, <2>3, <2>4, <2>5, <2>6
  <2> QED BY <2>1, <2>2, <2>7, ServerOtherStep
<1>6. ASSUME NEW s \in ServerSession, Server!Store(s) PROVE Server!IInv'
  <2>1. /\ Server_thread[s] = "ending" /\ Server_thread' = [Server_thread EXCEPT ![s] = "over"]
        /\ UNCHANGED <<Server_listed, Server_server, Server_status, Server_stop, Server_trace, Server_subs, Server_sending>>
    BY <1>6 DEF Server!Store
  <2>2. Server_row' \in [ServerSession \cup ServerFolder -> Server!Schema]
    <3>1. Server_status[s] \in {Server!None, "running", "paused", "completed", "stopped", "error", "unknown"}
      BY <2>1
    <3>2. Server_row[s] \in Server!Schema
      OBVIOUS
    <3>3. [Server_row[s] EXCEPT !.status = Server_status[s]] \in Server!Schema
      BY <3>1, <3>2
    <3>4. Server_row' = [Server_row EXCEPT ![s].status = Server_status[s]] \/ Server_row' = Server_row
      BY <1>6 DEF Server!Store
    <3> HIDE DEF Server!Schema
    <3> QED BY <3>3, <3>4
  <2>3. Server_events' \in Nat /\ Server_events' <= ServerMaxEvents
    BY <1>6 DEF Server!Store
  <2>4. Server!TypeOK' /\ Server!Types'
    BY <2>1, <2>2, <2>3
  <2> QED BY <2>1, <2>4, ServerOtherStep
<1>7. ASSUME NEW s \in ServerSession, Server!Stop(s) PROVE Server!IInv'
  BY <1>7, ServerOtherStep DEF Server!Stop
<1>8. CASE Server!Evict
  <2>1. /\ UNCHANGED <<Server_server, Server_status, Server_thread, Server_stop, Server_trace, Server_subs, Server_row, Server_events, Server_sending>> /\ Server_listed' \subseteq Server_listed
        /\ \A s \in Server_listed \ Server_listed' : Server_status[s] \in Server!Terminal
    BY <1>8 DEF Server!Evict, Server!Evictable
  <2>2. \A s \in ServerSession : Server_thread[s] = "turn" => s \in Server_listed /\ Server_status[s] \notin Server!Terminal
    BY DEF Server!ThreadsBounded, Server!ActiveSessions
  <2> QED BY <2>1, <2>2, ServerOtherStep
<1>9. CASE Server!Shutdown
  BY <1>9, ServerOtherStep DEF Server!Shutdown
<1>10. CASE Server!Exit
  <2>1. /\ Server_listed' = {} /\ Server_status' = [s \in ServerSession |-> Server!None] /\ Server_sending' = Server!None /\ Server_server' = "down"
        /\ Server_thread' = [s \in ServerSession |-> IF Server_thread[s] = "none" THEN "none" ELSE "over"]
        /\ UNCHANGED <<Server_stop, Server_trace, Server_subs, Server_row>>
    BY <1>10 DEF Server!Exit
  <2>2. Server_events' \in Nat /\ Server_events' <= ServerMaxEvents
    BY <1>10 DEF Server!Exit
  <2> QED BY <2>1, <2>2, ServerOtherStep
<1>11. ASSUME NEW s \in ServerSession, Server!ResumeElsewhere(s) PROVE Server!IInv'
  <2>1. UNCHANGED <<Server_server, Server_listed, Server_status, Server_thread, Server_stop, Server_subs, Server_events, Server_sending>>
    BY <1>11 DEF Server!ResumeElsewhere
  <2>2. PICK st \in {"completed", "paused"} :
          /\ Server_row' = [Server_row EXCEPT ![s].status = st]
          /\ Server_trace' = IF st = "completed" THEN [Server_trace EXCEPT ![s].end = st] ELSE Server_trace
    BY <1>11 DEF Server!ResumeElsewhere
  <2>3. Server_row' \in [ServerSession \cup ServerFolder -> Server!Schema]
    BY <2>2
  <2>4. Server_trace' \in [ServerSession -> Server!TraceFile]
    BY <2>2 DEF Server!TraceFile
  <2> QED BY <2>1, <2>3, <2>4, ServerOtherStep
<1>12. CASE Server!Restart
  <2>1. /\ Server_server' = "up" /\ Server_events' \in Nat /\ Server_events' <= ServerMaxEvents
        /\ UNCHANGED <<Server_listed, Server_status, Server_thread, Server_stop, Server_trace, Server_subs, Server_sending>>
    BY <1>12 DEF Server!Restart
  <2>2. Server_row' \in [ServerSession \cup ServerFolder -> Server!Schema]
    <3>1. PICK first \in [{Server!Id(x) : x \in Server!Files} -> Server!Files] : Server_row' = Server!Backfilled(first)
      BY <1>12 DEF Server!Restart
    <3>2. ASSUME NEW x \in Server!Files PROVE [status |-> Server!Parsed(x), trace |-> x[1]] \in Server!Schema
      BY <3>2 DEF Server!Files, Server!Parsed, Server!TraceFile
    <3>3. ASSUME NEW i \in ServerSession \cup ServerFolder, i \in DOMAIN first PROVE first[i] \in Server!Files
      BY <3>1, <3>3
    <3> HIDE DEF Server!Schema
    <3> QED BY <3>1, <3>2, <3>3 DEF Server!Backfilled
  <2> QED BY <2>1, <2>2, ServerOtherStep
<1>13. CASE UNCHANGED Server!vars
  BY <1>13, ServerOtherStep DEF Server!vars
<1> QED
  BY <1>1, <1>2, <1>3, <1>4, <1>5, <1>6, <1>7, <1>8, <1>9, <1>10, <1>11, <1>12, <1>13 DEF Server!Next

(* What the invariant says of the quota.                                       *)
LEMMA ServerHolds == Server!IInv => Server!TypeOK /\ Server!ThreadsBounded
BY DEF Server!IInv

(* server.py: however sessions are created, messaged, evicted, paused, stopped and    *)
(* restarted, no more threads take turns than HARNESS_SERVER_MAX_ACTIVE_SESSIONS.     *)
THEOREM ThreadsStayBounded == Spec => []ThreadsBounded
<1> DEFINE Inv == part = "sessions" => Server!IInv
<1>1. Init => Inv
  BY ServerInitIInv DEF Init
<1>2. Inv /\ [Next]_vars => Inv'
  <2>1. ASSUME part = "sessions", Server!IInv, [Next]_vars PROVE Server!IInv'
    BY <2>1, ServerNextIInv DEF Next, vars, Server!vars, Server!files, Server!memory
  <2>2. [Next]_vars => part' = part
    BY DEF Next, vars
  <2> QED BY <2>1, <2>2
<1>3. Inv => ThreadsBounded
  BY ServerHolds DEF ThreadsBounded
<1> QED
  BY <1>1, <1>2, <1>3, PTL DEF Spec

HIDE ServerCardinality
HIDE DEF Server_server, Server_listed, Server_status, Server_thread, Server_stop, Server_trace,
  Server_subs, Server_row, Server_sending, Server_events

-----------------------------------------------------------------------------
(* SubagentRun. *)
Sub_pc == x1
Sub_seq == x2
Sub_number == x3
Sub_above == x4
Sub_state == x5
Sub_depth == x6
Sub_files == x7
Sub_reported == x8
Sub_stamp == x9
Sub_request == x10
Sub_asker == x11
Sub_replies == x12
Sub_pauses == x13
USE DEF Sub_pc, Sub_seq, Sub_number, Sub_above, Sub_state, Sub_depth, Sub_files, Sub_reported,
  Sub_stamp, Sub_request, Sub_asker, Sub_replies, Sub_pauses

(* Sets have one cardinality, inside and outside of SubagentRun. *)
LEMMA SubCardinality == \A S : Sub!Cardinality(S) = Cardinality(S)
BY DEF Sub!Cardinality, Cardinality
USE SubCardinality

(* A session begins with no run.                                             *)
LEMMA SubInitIInv == Sub!Init => Sub!IInv
<1> SUFFICES ASSUME Sub!Init PROVE Sub!IInv
  OBVIOUS
<1>1. /\ Sub_seq = 0 /\ Sub_number = [r \in SubRun |-> 0] /\ Sub_state = [r \in SubRun |-> "new"] /\ Sub_reported = {}
      /\ Sub_depth = [r \in SubRun |-> 0] /\ Sub_stamp = Sub!Unstamped /\ Sub_request = Sub!None /\ Sub_pc = "turn"
  BY DEF Sub!Init
<1>2. Cardinality(Sub!Spawned) = 0
  <2>1. Sub!Spawned = {}
    BY <1>1 DEF Sub!Spawned
  <2> QED BY <2>1, FS_EmptySet
<1>3. Cardinality(SubRun) \in Nat
  BY SubAssumption, FS_CardinalityType
<1>4. Sub!TypeOK /\ Sub!Types /\ Sub!Counted
  <2>1. Sub!TypeOK
    BY <1>1, <1>3, SubAssumption DEF Sub!TypeOK, Sub!None
  <2>2. Sub!Types
    BY <1>1 DEF Sub!Types
  <2>3. Sub!Counted
    BY <1>1, <1>2 DEF Sub!Counted
  <2> QED BY <2>1, <2>2, <2>3
<1>5. \A r \in SubRun : ~Sub!Live(r)
  BY <1>1 DEF Sub!Live
<1> QED
  BY <1>1, <1>4, <1>5 DEF Sub!IInv, Sub!BatchEnds, Sub!HasHighest, Sub!Distinct, Sub!ReportedApart

(* A new process starts at the highest number that was reported.             *)
LEMMA SubHighestIsRead ==
  ASSUME Sub!Types, Sub!HasHighest
  PROVE  /\ Sub!MaxExistingSubagentSeq \in Nat
         /\ \A e \in Sub_reported : e.seq <= Sub!MaxExistingSubagentSeq
         /\ Sub!MaxExistingSubagentSeq = 0 \/ \E e \in Sub_reported : e.seq = Sub!MaxExistingSubagentSeq
<1>1. CASE Sub_reported = {}
  BY <1>1 DEF Sub!MaxExistingSubagentSeq
<1>2. CASE Sub_reported # {}
  <2> DEFINE S == {e.seq : e \in Sub_reported}
  <2>1. S \subseteq Nat
    BY DEF Sub!Types
  <2> DEFINE highest == CHOOSE n \in S : \A e \in Sub_reported : e.seq <= n
  <2>2. \E n \in S : \A e \in Sub_reported : e.seq <= n
    BY <1>2, <2>1 DEF Sub!HasHighest
  <2>3. highest \in S /\ \A e \in Sub_reported : e.seq <= highest
    BY <2>2, Zenon
  <2>4. Sub!MaxExistingSubagentSeq = highest
    BY <1>2, Zenon DEF Sub!MaxExistingSubagentSeq
  <2>5. \A y \in S : \E e \in Sub_reported : e.seq = y
    BY Zenon
  <2> HIDE DEF S, highest
  <2> QED BY <2>1, <2>3, <2>4, <2>5
<1> QED BY <1>1, <1>2

(* The runs that have a number are some of those there are.                   *)
LEMMA SubSpawnedFits ==
  ASSUME Sub!Types
  PROVE  IsFiniteSet(Sub!Spawned) /\ Cardinality(Sub!Spawned) \in Nat /\ Cardinality(SubRun) \in Nat
           /\ Cardinality(Sub!Spawned) <= Cardinality(SubRun)
<1>1. IsFiniteSet(Sub!Spawned) /\ Cardinality(Sub!Spawned) <= Cardinality(SubRun)
  BY SubAssumption, FS_Subset DEF Sub!Spawned
<1> QED BY <1>1, SubAssumption, FS_CardinalityType

(* A step of the session changes no run and reports none.                    *)
LEMMA SubSessionStep ==
  ASSUME Sub!IInv, UNCHANGED <<Sub_number, Sub_state, Sub_depth, Sub_reported>>,
         Sub_seq' = Sub_seq, Sub_request' \in {Sub!None, "pause", "other", Sub!Unstamped}, Sub_stamp' \in {Sub!Unstamped, "other"},
         Sub_pc' \in {"turn", "batch", "paused", "stuck"},
         Sub_pc' # "batch" => \A r \in SubRun : ~Sub!Live(r)
  PROVE  Sub!IInv'
BY DEF Sub!IInv, Sub!TypeOK, Sub!Types, Sub!BatchEnds, Sub!HasHighest, Sub!Distinct, Sub!Counted, Sub!Spawned,
     Sub!ReportedApart, Sub!Live

(* The next process counts from what it reads in the trace.                  *)
LEMMA SubResumeStep == Sub!IInv /\ Sub!Resume => Sub!IInv'
<1> SUFFICES ASSUME Sub!IInv, Sub!Resume PROVE Sub!IInv'
  OBVIOUS
<1>1. /\ Sub_pc = "paused" /\ Sub_pc' \in {"stuck", "turn"} /\ UNCHANGED <<Sub_number, Sub_state, Sub_depth, Sub_reported, Sub_stamp>>
      /\ Sub_request' \in {Sub!None, Sub!Unstamped}
  BY DEF Sub!Resume, Sub!runs, Sub!None
<1>2. \A r \in SubRun : ~Sub!Live(r)
  BY <1>1 DEF Sub!IInv, Sub!BatchEnds
<1>3. /\ Sub_seq' \in Nat /\ \A e \in Sub_reported : e.seq <= Sub_seq'
      /\ Sub_seq' = Sub_seq \/ Sub_seq' = 0 \/ \E e \in Sub_reported : e.seq = Sub_seq'
  BY SubHighestIsRead DEF Sub!IInv, Sub!Types, Sub!Distinct, Sub!Resume
<1>4. Sub!Counted'
  BY <1>1, <1>3, SubSpawnedFits DEF Sub!IInv, Sub!Counted, Sub!Spawned
<1>5. Sub!TypeOK' /\ Sub!Types'
  <2>1. Sub_seq' <= Cardinality(Sub!Spawned)
    BY <1>3, SubSpawnedFits DEF Sub!IInv, Sub!Counted
  <2> QED BY <1>1, <1>3, <2>1, SubSpawnedFits DEF Sub!IInv, Sub!TypeOK, Sub!Types
<1>6. Sub!Distinct'
  BY <1>1, <1>2, <1>3 DEF Sub!Distinct, Sub!Live
<1> QED
  BY <1>1, <1>2, <1>4, <1>5, <1>6 DEF Sub!IInv, Sub!BatchEnds, Sub!HasHighest, Sub!ReportedApart, Sub!Live

(* A new run takes a number above all that are live or reported.             *)
LEMMA SubSpawnStep ==
  ASSUME Sub!IInv, NEW r \in SubRun, NEW from \in SubRun \cup {Sub!Session}, Sub!Spawn(r, from)
  PROVE  Sub!IInv'
<1>1. /\ Sub_pc = "batch" /\ Sub_pc' = "batch" /\ Sub_state[r] = "new" /\ Sub_seq' = Sub_seq + 1
      /\ Sub_number' = [Sub_number EXCEPT ![r] = Sub_seq + 1] /\ Sub_state' = [Sub_state EXCEPT ![r] = "numbered"]
      /\ Sub_depth' = [Sub_depth EXCEPT ![r] = Sub!Depth(from) + 1] /\ Sub!Depth(from) < SubMaxDepth
      /\ Sub_reported' = Sub_reported /\ UNCHANGED <<Sub_request, Sub_stamp>>
  BY DEF Sub!Spawn, Sub!MaySpawn, Sub!pause
<1>2. Sub!Depth(from) \in Nat
  BY DEF Sub!Depth, Sub!IInv, Sub!Types
<1>3. Sub!Types'
  BY <1>1, <1>2 DEF Sub!IInv, Sub!Types
<1>4. Sub!Spawned' = Sub!Spawned \cup {r} /\ r \notin Sub!Spawned
  BY <1>1 DEF Sub!Spawned, Sub!IInv, Sub!Types
<1>5. Cardinality(Sub!Spawned') = Cardinality(Sub!Spawned) + 1
  BY <1>4, SubSpawnedFits, FS_AddElement DEF Sub!IInv
<1>6. Sub!Counted'
  BY <1>1, <1>5, SubSpawnedFits DEF Sub!IInv, Sub!Types, Sub!Counted
<1>7. Cardinality(Sub!Spawned') <= Cardinality(SubRun)
  <2>1. Sub!Spawned' \subseteq SubRun
    BY DEF Sub!Spawned
  <2> QED BY <2>1, SubAssumption, FS_Subset
<1>8. Sub_seq' \in 0 .. Cardinality(SubRun)
  BY <1>1, <1>5, <1>6, <1>7, SubSpawnedFits DEF Sub!IInv, Sub!Types, Sub!Counted
<1>9. Sub!TypeOK'
  <2>1. ASSUME NEW q \in SubRun PROVE (Sub_state'[q] = "new" <=> Sub_number'[q] = 0) /\ Sub_depth'[q] <= SubMaxDepth
    BY <1>1, <1>2, SubAssumption DEF Sub!IInv, Sub!TypeOK, Sub!Types
  <2> QED BY <1>1, <1>8, <2>1 DEF Sub!IInv, Sub!TypeOK
<1>10. \A s \in SubRun : Sub!Live(s)' => s = r \/ (Sub!Live(s) /\ Sub_number'[s] = Sub_number[s])
  BY <1>1 DEF Sub!IInv, Sub!Types, Sub!Live
<1>11. Sub_number'[r] = Sub_seq + 1
  BY <1>1 DEF Sub!IInv, Sub!Types
<1>12. Sub!Distinct'
  BY <1>1, <1>10, <1>11 DEF Sub!IInv, Sub!Types, Sub!Distinct
<1> QED
  BY <1>1, <1>3, <1>6, <1>9, <1>12 DEF Sub!IInv, Sub!BatchEnds, Sub!HasHighest, Sub!ReportedApart

(* A step that only moves a run on: it stays as live as it was, or less.       *)
LEMMA SubRunStep ==
  ASSUME Sub!IInv, NEW r \in SubRun, Sub!Live(r), NEW st \in {"running", "returned", "raised"},
         Sub_state' = [Sub_state EXCEPT ![r] = st],
         UNCHANGED <<Sub_pc, Sub_seq, Sub_number, Sub_depth, Sub_reported, Sub_stamp, Sub_request>>
  PROVE  Sub!IInv'
<1>1. Sub!Spawned' = Sub!Spawned
  BY DEF Sub!Spawned, Sub!Live, Sub!IInv, Sub!Types
<1>2. Sub!TypeOK'
  BY DEF Sub!IInv, Sub!TypeOK, Sub!Types, Sub!Live
<1>3. Sub!Types'
  BY DEF Sub!IInv, Sub!Types
<1>4. \A s \in SubRun : Sub!Live(s)' => Sub!Live(s)
  BY DEF Sub!IInv, Sub!Types, Sub!Live
<1> QED
  BY <1>1, <1>2, <1>3, <1>4 DEF Sub!IInv, Sub!BatchEnds, Sub!HasHighest, Sub!Counted, Sub!Distinct,
       Sub!ReportedApart

(* A run that is reported has a number that no other report has.             *)
LEMMA SubReportStep ==
  ASSUME Sub!IInv, NEW r \in SubRun, Sub!Live(r), Sub_state' = [Sub_state EXCEPT ![r] = "returned"],
         Sub_reported' = Sub_reported \cup {[run |-> r, seq |-> Sub_number[r]]},
         UNCHANGED <<Sub_pc, Sub_seq, Sub_number, Sub_depth, Sub_stamp, Sub_request>>
  PROVE  Sub!IInv'
<1> DEFINE new == [run |-> r, seq |-> Sub_number[r]]
<1>1. new \in [run : SubRun, seq : Nat] /\ new.seq = Sub_number[r] /\ new.run = r
  BY DEF Sub!IInv, Sub!Types
<1>2. Sub!Types'
  BY <1>1 DEF Sub!IInv, Sub!Types
<1>3. Sub!TypeOK'
  BY DEF Sub!IInv, Sub!TypeOK, Sub!Types, Sub!Live
<1>4. \A s \in SubRun : Sub!Live(s)' => s # r /\ Sub!Live(s)
  BY DEF Sub!IInv, Sub!Types, Sub!Live
<1>5. \A e \in Sub_reported' : e \in Sub_reported \/ e = new
  OBVIOUS
<1>6. Sub!Distinct'
  BY <1>1, <1>4, <1>5 DEF Sub!IInv, Sub!Distinct
<1>7. Sub!ReportedApart'
  BY <1>1, <1>5 DEF Sub!IInv, Sub!Distinct, Sub!ReportedApart
<1>8. Sub!Spawned' = Sub!Spawned
  BY DEF Sub!Spawned, Sub!Live, Sub!IInv, Sub!Types
<1>9. Sub!Counted'
  <2>1. Sub_number[r] <= Cardinality(Sub!Spawned)
    BY SubSpawnedFits DEF Sub!IInv, Sub!Types, Sub!Distinct, Sub!Counted
  <2> QED BY <1>1, <1>5, <1>8, <2>1 DEF Sub!IInv, Sub!Counted
<1>10. Sub!HasHighest'
  <2>1. CASE Sub_reported = {}
    BY <1>1, <2>1 DEF Sub!IInv, Sub!Types, Sub!HasHighest
  <2>2. CASE Sub_reported # {}
    <3>1. PICK m \in {e.seq : e \in Sub_reported} : \A e \in Sub_reported : e.seq <= m
      BY <2>2 DEF Sub!IInv, Sub!HasHighest
    <3>2. m \in Nat /\ Sub_number[r] \in Nat /\ \A e \in Sub_reported : e.seq \in Nat
      BY DEF Sub!IInv, Sub!Types
    <3>3. m \in {e.seq : e \in Sub_reported'} /\ Sub_number[r] \in {e.seq : e \in Sub_reported'}
      BY <1>1
    <3>4. CASE Sub_number[r] <= m
      BY <1>1, <1>5, <3>1, <3>3, <3>4 DEF Sub!HasHighest
    <3>5. CASE m <= Sub_number[r]
      <4>1. \A e \in Sub_reported' : e.seq <= Sub_number[r]
        BY <1>1, <1>5, <3>1, <3>2, <3>5
      <4> QED BY <3>3, <4>1 DEF Sub!HasHighest
    <3> QED BY <3>2, <3>4, <3>5
  <2> QED BY <2>1, <2>2
<1>11. Sub!BatchEnds'
  BY <1>4 DEF Sub!IInv, Sub!BatchEnds
<1> QED BY <1>2, <1>3, <1>6, <1>7, <1>9, <1>10, <1>11 DEF Sub!IInv

(* No step gives two reported runs one number.                                *)
LEMMA SubNextIInv == Sub!IInv /\ [Sub!Next]_Sub!vars => Sub!IInv'
<1> SUFFICES ASSUME Sub!IInv, [Sub!Next]_Sub!vars PROVE Sub!IInv'
  OBVIOUS
<1> USE DEF Sub!runs, Sub!pause, Sub!Session
<1>1. ASSUME NEW mutating \in BOOLEAN, Sub!BeginBatch(mutating) PROVE Sub!IInv'
  BY <1>1, SubSessionStep DEF Sub!BeginBatch, Sub!IInv, Sub!TypeOK
<1>2. CASE Sub!ParentAsks
  BY <1>2, SubSessionStep DEF Sub!ParentAsks, Sub!Asks, Sub!IInv, Sub!TypeOK, Sub!Types, Sub!BatchEnds
<1>3. CASE Sub!EndBatch
  BY <1>3, SubSessionStep DEF Sub!EndBatch, Sub!IInv, Sub!TypeOK
<1>4. CASE Sub!Resume
  BY <1>4, SubResumeStep
<1>5. ASSUME NEW r \in SubRun, NEW from \in SubRun \cup {Sub!Session}, Sub!Spawn(r, from) PROVE Sub!IInv'
  BY <1>5, SubSpawnStep
<1>6. ASSUME NEW r \in SubRun, Sub!OpenTrace(r) PROVE Sub!IInv'
  BY <1>6, SubRunStep DEF Sub!OpenTrace, Sub!Live
<1>7. ASSUME NEW r \in SubRun, Sub!ChildAsks(r) PROVE Sub!IInv'
  BY <1>7, SubSessionStep DEF Sub!ChildAsks, Sub!Asks, Sub!IInv, Sub!TypeOK, Sub!Types, Sub!BatchEnds
<1>8. ASSUME NEW r \in SubRun, Sub!Return(r) PROVE Sub!IInv'
  BY <1>8, SubRunStep, SubReportStep DEF Sub!Return, Sub!Live
<1>9. ASSUME NEW r \in SubRun, Sub!Raise(r) PROVE Sub!IInv'
  BY <1>9, SubRunStep DEF Sub!Raise, Sub!Live
<1>10. CASE UNCHANGED Sub!vars
  BY <1>10, SubSessionStep DEF Sub!vars, Sub!IInv, Sub!TypeOK, Sub!Types, Sub!BatchEnds
<1> QED
  BY <1>1, <1>2, <1>3, <1>4, <1>5, <1>6, <1>7, <1>8, <1>9, <1>10 DEF Sub!Next, Sub!OfRun

(* What the invariant says of reports.                                        *)
LEMMA SubHolds == Sub!IInv => Sub!TypeOK /\ Sub!ReportedApart
BY DEF Sub!IInv

(* subagent.py: two runs that a trace reports never share a number, and so neither a  *)
(* trace file nor a span, for any runs, depth, parallel spawns, failures and resumes. *)
THEOREM ReportsAreApart == Spec => []ReportedApart
<1> DEFINE Inv == part = "subagents" => Sub!IInv
<1>1. Init => Inv
  BY SubInitIInv DEF Init
<1>2. Inv /\ [Next]_vars => Inv'
  <2>1. ASSUME part = "subagents", Sub!IInv, [Next]_vars PROVE Sub!IInv'
    BY <2>1, SubNextIInv DEF Next, vars, Sub!vars, Sub!runs, Sub!pause
  <2>2. [Next]_vars => part' = part
    BY DEF Next, vars
  <2> QED BY <2>1, <2>2
<1>3. Inv => ReportedApart
  BY SubHolds DEF ReportedApart
<1> QED
  BY <1>1, <1>2, <1>3, PTL DEF Spec

HIDE SubCardinality
HIDE DEF Sub_pc, Sub_seq, Sub_number, Sub_above, Sub_state, Sub_depth, Sub_files, Sub_reported,
  Sub_stamp, Sub_request, Sub_asker, Sub_replies, Sub_pauses

-----------------------------------------------------------------------------
(* Replay. *)
Play_given == x1
Play_file == x2
Play_turn == x3
Play_opens == x4
Play_lost == x5
Play_pc == x6
Play_on == x7
Play_served == x8
USE DEF Play_given, Play_file, Play_turn, Play_opens, Play_lost, Play_pc, Play_on, Play_served

(* f gives the responses of the loop among the first n.                        *)
PlayFirstsTo(s, n, f) ==
  f \in [0 .. n -> Seq(Play!Response)] /\ f = [k \in 0 .. n |-> IF k = 0 THEN <<>> ELSE Play!With(f[k - 1], s[k])]

(* With a response there are responses.                                        *)
LEMMA PlayWithIs ==
  ASSUME NEW list \in Seq(Play!Response), NEW response \in Play!Response
  PROVE  Play!With(list, response) \in Seq(Play!Response)
BY DEF Play!With

(* One response more.                                                          *)
LEMMA PlayOneMore ==
  ASSUME NEW s \in Seq(Play!Response), NEW n \in Nat, n + 1 \in 1 .. Len(s), NEW f, PlayFirstsTo(s, n, f)
  PROVE  \E g : PlayFirstsTo(s, n + 1, g)
<1> DEFINE g == [k \in 0 .. n + 1 |-> IF k = n + 1 THEN Play!With(f[n], s[n + 1]) ELSE f[k]]
<1>1. /\ f \in [0 .. n -> Seq(Play!Response)]
      /\ \A k \in 0 .. n : f[k] = IF k = 0 THEN <<>> ELSE Play!With(f[k - 1], s[k])
  BY DEF PlayFirstsTo
<1>2. s[n + 1] \in Play!Response /\ f[n] \in Seq(Play!Response)
  BY <1>1
<1>3. Play!With(f[n], s[n + 1]) \in Seq(Play!Response)
  BY <1>2, PlayWithIs
<1>4. g \in [0 .. n + 1 -> Seq(Play!Response)]
  BY <1>1, <1>3
<1>5. ASSUME NEW k \in 0 .. n + 1 PROVE g[k] = IF k = 0 THEN <<>> ELSE Play!With(g[k - 1], s[k])
  <2>1. CASE k = n + 1
    <3>1. k # 0 /\ k - 1 = n /\ n # n + 1 /\ n \in 0 .. n + 1
      BY <2>1
    <3> QED BY <2>1, <3>1
  <2>2. CASE k \in 0 .. n /\ k # 0
    <3>1. k # n + 1 /\ k - 1 # n + 1 /\ k - 1 \in 0 .. n + 1
      BY <2>2
    <3> QED BY <1>1, <2>2, <3>1
  <2>3. CASE k = 0
    BY <1>1, <2>3
  <2> QED BY <2>1, <2>2, <2>3
<1> HIDE DEF g
<1>6. g = [k \in 0 .. n + 1 |-> IF k = 0 THEN <<>> ELSE Play!With(g[k - 1], s[k])]
  BY <1>4, <1>5
<1> QED BY <1>4, <1>6 DEF PlayFirstsTo

(* A recording has the loop's responses.                                       *)
LEMMA PlayHasFirsts ==
  ASSUME NEW s \in Seq(Play!Response)
  PROVE  \E f : PlayFirstsTo(s, Len(s), f)
<1> DEFINE D == {n \in 0 .. Len(s) : ~ \E f : PlayFirstsTo(s, n, f)}
<1>1. Len(s) \in Nat /\ D \in SUBSET Nat
  OBVIOUS
<1>2. D = {}
  <2> SUFFICES ASSUME D # {} PROVE FALSE
    OBVIOUS
  <2>1. PICK d \in D : \A e \in D : d <= e
    <3> HIDE DEF D
    <3> QED BY <1>1, HasLowest
  <2>2. d \in 0 .. Len(s) /\ ~ \E f : PlayFirstsTo(s, d, f)
    BY <2>1
  <2>3. CASE d = 0
    <3> DEFINE f == [k \in 0 .. 0 |-> <<>>]
    <3>1. f \in [0 .. 0 -> Seq(Play!Response)] /\ f = [k \in 0 .. 0 |-> IF k = 0 THEN <<>> ELSE Play!With(f[k - 1], s[k])]
      OBVIOUS
    <3>2. PlayFirstsTo(s, 0, f)
      BY <3>1 DEF PlayFirstsTo
    <3> QED BY <2>2, <2>3, <3>2
  <2>4. CASE d # 0
    <3>1. d - 1 \in 0 .. Len(s) /\ ~(d <= d - 1) /\ (d - 1) + 1 = d /\ d \in 1 .. Len(s) /\ d - 1 \in Nat
      BY <1>1, <2>2, <2>4
    <3>2. d - 1 \notin D
      BY <2>1, <3>1
    <3>3. PICK f : PlayFirstsTo(s, d - 1, f)
      BY <3>1, <3>2
    <3>4. \E g : PlayFirstsTo(s, (d - 1) + 1, g)
      <4> DEFINE n == d - 1
      <4>1. n \in Nat /\ n + 1 \in 1 .. Len(s) /\ PlayFirstsTo(s, n, f)
        BY <3>1, <3>3
      <4> HIDE DEF n
      <4>2. \E g : PlayFirstsTo(s, n + 1, g)
        BY <4>1, PlayOneMore
      <4> QED BY <4>2 DEF n
    <3> QED BY <2>2, <3>1, <3>4
  <2> QED BY <2>3, <2>4
<1> QED BY <1>1, <1>2

(* What the definition of Firsts says, if anything is so.                      *)
LEMMA PlayIsFirsts ==
  ASSUME NEW s, NEW f, f = [n \in 0 .. Len(s) |-> IF n = 0 THEN <<>> ELSE Play!With(f[n - 1], s[n])]
  PROVE  Play!Firsts(s) = [n \in 0 .. Len(s) |-> IF n = 0 THEN <<>> ELSE Play!With(Play!Firsts(s)[n - 1], s[n])]
BY Zenon DEF Play!Firsts

(* The responses of the loop are responses.                                    *)
LEMMA PlayCompletesAre ==
  ASSUME NEW s \in Seq(Play!Response)
  PROVE  Play!Completes(s) \in Seq(Play!Response)
<1> DEFINE g == Play!Firsts(s)
<1>1. Play!Firsts(s) = [n \in 0 .. Len(s) |-> IF n = 0 THEN <<>> ELSE Play!With(Play!Firsts(s)[n - 1], s[n])]
  <2>1. PICK f : PlayFirstsTo(s, Len(s), f)
    BY PlayHasFirsts
  <2>2. f = [n \in 0 .. Len(s) |-> IF n = 0 THEN <<>> ELSE Play!With(f[n - 1], s[n])]
    BY <2>1 DEF PlayFirstsTo
  <2> QED BY Zenon, <2>2, PlayIsFirsts
<1> HIDE DEF g
<1>2. g = [n \in 0 .. Len(s) |-> IF n = 0 THEN <<>> ELSE Play!With(g[n - 1], s[n])]
  BY <1>1 DEF g
<1>3. Len(s) \in Nat /\ \A n \in 0 .. Len(s) : g[n] = IF n = 0 THEN <<>> ELSE Play!With(g[n - 1], s[n])
  BY <1>2
<1>4. \A n \in 0 .. Len(s) : g[n] \in Seq(Play!Response)
  <2> DEFINE D == {n \in 0 .. Len(s) : g[n] \notin Seq(Play!Response)}
  <2> SUFFICES ASSUME D # {} PROVE FALSE
    OBVIOUS
  <2>1. D \in SUBSET Nat
    OBVIOUS
  <2>2. PICK d \in D : \A e \in D : d <= e
    <3> HIDE DEF D
    <3> QED BY <2>1, HasLowest
  <2>3. d \in 0 .. Len(s) /\ g[d] \notin Seq(Play!Response)
    BY <2>2
  <2>4. d # 0
    <3>1. <<>> \in Seq(Play!Response)
      OBVIOUS
    <3> QED BY <1>3, <2>3, <3>1
  <2>5. d - 1 \in 0 .. Len(s) /\ ~(d <= d - 1) /\ d \in 1 .. Len(s)
    BY <1>3, <2>3, <2>4
  <2>6. d - 1 \notin D
    BY <2>2, <2>5
  <2>7. g[d - 1] \in Seq(Play!Response) /\ s[d] \in Play!Response
    BY <2>5, <2>6
  <2>8. g[d] = Play!With(g[d - 1], s[d])
    BY <1>3, <2>3, <2>4
  <2> QED BY <2>3, <2>7, <2>8, PlayWithIs
<1> QED BY <1>3, <1>4 DEF Play!Completes, g

(* The recording holds responses, and so does what the player takes of it.     *)
LEMMA PlayRows ==
  ASSUME Play!TypeOK
  PROVE  Play!Recording \in Seq(Play!Response) /\ Play!CompleteRecords \in Seq(Play!Response)
<1>1. Play_file \in Seq(Play!Row)
  BY DEF Play!TypeOK
<1>2. ASSUME NEW i \in DOMAIN Play_file PROVE Play_file[i].response \in Play!Response
  <2>1. Play_file[i] \in Play!Row
    BY <1>1
  <2> QED BY <2>1 DEF Play!Row
<1>3. Play!Recording \in Seq(Play!Response)
  BY <1>1, <1>2 DEF Play!Recording
<1> QED BY <1>3, PlayCompletesAre DEF Play!CompleteRecords

(* Nothing is recorded.                                                        *)
LEMMA PlayInitIInv == Play!Init => Play!IInv
BY PlayAssumption DEF Play!Init, Play!IInv, Play!TypeOK, Play!Recorder, Play!Player, Play!Recording

(* A sequence with one element more.                                           *)
LEMMA PlayAppended ==
  ASSUME NEW S, NEW s \in Seq(S), NEW e \in S
  PROVE  /\ Append(s, e) \in Seq(S) /\ Len(Append(s, e)) = Len(s) + 1
         /\ Append(s, e) = [i \in 1 .. Len(s) + 1 |-> IF i = Len(s) + 1 THEN e ELSE s[i]]
<1>1. Append(s, e) \in Seq(S) /\ Len(Append(s, e)) = Len(s) + 1 /\ Len(s) \in Nat
  OBVIOUS
<1>2. Append(s, e) \in [1 .. Len(s) + 1 -> S]
  <2> DEFINE a == Append(s, e)
             m == Len(s) + 1
  <2>1. a \in Seq(S) /\ Len(a) = m
    BY <1>1
  <2> HIDE DEF a, m
  <2>2. a \in [1 .. Len(a) -> S]
    BY <2>1
  <2> QED BY <2>1, <2>2 DEF a, m
<1>3. \A i \in 1 .. Len(s) + 1 : Append(s, e)[i] = IF i = Len(s) + 1 THEN e ELSE s[i]
  OBVIOUS
<1> QED BY <1>1, <1>2, <1>3

(* A response is written as it was given, or the recording has lost one.       *)
LEMMA PlayResponds ==
  ASSUME Play!IInv, NEW kind \in Play!Kind, Play!Respond(kind)
  PROVE  Play!IInv'
<1> DEFINE response == [kind |-> kind, number |-> Len(Play_given) + 1]
<1>1. /\ Play_given \in Seq(Play!Response) /\ Play_file \in Seq(Play!Row) /\ Play_turn \in 0 .. PlayMaxResponses /\ Play_opens \in Nat
      /\ Len(Play_given) \in Nat /\ Len(Play_given) < PlayMaxResponses /\ Play_turn <= Len(Play_given) /\ Play_opens # 0
  BY DEF Play!IInv, Play!TypeOK, Play!Recorder, Play!Respond
<1>2. response \in Play!Response
  BY <1>1, PlayAssumption DEF Play!Response
<1>3. /\ Play_given' = Append(Play_given, response) /\ Play_turn' = Play_turn + 1 /\ Play_pc = "recording"
      /\ \/ Play_file' = Append(Play_file, Play!Serialize(response)) /\ Play_lost' = Play_lost
         \/ Play_lost' = TRUE /\ Play_file' = Play_file
      /\ UNCHANGED <<Play_opens, Play_pc, Play_on, Play_served>>
  BY DEF Play!Respond
<1>4. Play!Serialize(response) \in Play!Row /\ Play!Serialize(response).response = response
  BY <1>1, <1>2 DEF Play!Serialize, Play!Row
<1> HIDE DEF response
<1>5. Play!TypeOK'
  <2>1. Play_given' \in Seq(Play!Response)
    BY <1>1, <1>2, <1>3, PlayAppended
  <2>2. Play_file' \in Seq(Play!Row)
    <3>1. Append(Play_file, Play!Serialize(response)) \in Seq(Play!Row)
      BY <1>1, <1>4, PlayAppended
    <3> QED BY <1>1, <1>3, <3>1
  <2>3. Play_turn' \in 0 .. PlayMaxResponses
    BY <1>1, <1>3, PlayAssumption
  <2> QED BY <2>1, <2>2, <2>3, <1>3 DEF Play!IInv, Play!TypeOK
<1>6. Play!Recorder'
  <2>1. Len(Play_given') = Len(Play_given) + 1
    BY <1>1, <1>2, <1>3
  <2>2. Play_turn' <= Len(Play_given') /\ Len(Play_given') <= PlayMaxResponses
    BY <1>1, <1>3, <2>1, PlayAssumption
  <2>3. ASSUME Play_opens <= 1, ~Play_lost' PROVE Play!Recording' = Play_given'
    <3>1. Play_file' = Append(Play_file, Play!Serialize(response)) /\ ~Play_lost
      BY <1>3, <2>3
    <3>2. Play!Recording = Play_given
      BY <2>3, <3>1 DEF Play!IInv, Play!Recorder
    <3>3. Play!Recording' = [i \in 1 .. Len(Play_file) + 1 |-> IF i = Len(Play_file) + 1 THEN response ELSE Play_file[i].response]
      BY <1>1, <1>4, <3>1 DEF Play!Recording
    <3>4. Len(Play_file) = Len(Play_given) /\ \A i \in 1 .. Len(Play_file) : Play_file[i].response = Play_given[i]
      BY <1>1, <3>2 DEF Play!Recording
    <3>5. Play_given' = [i \in 1 .. Len(Play_given) + 1 |-> IF i = Len(Play_given) + 1 THEN response ELSE Play_given[i]]
      BY <1>1, <1>2, <1>3, PlayAppended
    <3> QED BY <1>1, <3>3, <3>4, <3>5
  <2> QED BY <1>1, <1>3, <2>2, <2>3 DEF Play!Recorder
<1>7. Play!Player'
  BY <1>3 DEF Play!Player
<1> QED BY <1>5, <1>6, <1>7 DEF Play!IInv

(* The player hands out one response more, the next one or one that was not recorded. *)
LEMMA PlayHands ==
  ASSUME Play!IInv, NEW response \in Play!Response \cup {Play!Invented}, Play_served' = Append(Play_served, response), Play_pc = "replaying",
         Play_pc' \in {"replaying", "replayed"}, Len(Play_served) < PlayMaxTurns, UNCHANGED <<Play!session, Play_on>>,
         Play!Remaining > 0 => response = Play!CompleteRecords[Len(Play_served) + 1]
  PROVE  Play!IInv'
<1>1. Play_served \in Seq(Play!Response \cup {Play!Invented}) /\ Len(Play_served) \in Nat /\ Len(Play_served) <= PlayMaxTurns /\ Play!TypeOK
  BY DEF Play!IInv, Play!TypeOK
<1>2. Play!CompleteRecords \in Seq(Play!Response) /\ Len(Play!CompleteRecords) \in Nat
  BY <1>1, PlayRows
<1>3. Play!CompleteRecords' = Play!CompleteRecords /\ Play!Recording' = Play!Recording
  BY DEF Play!CompleteRecords, Play!Recording, Play!session
<1>4. Play_served' \in Seq(Play!Response \cup {Play!Invented}) /\ Len(Play_served') = Len(Play_served) + 1
  BY <1>1
<1>5. Play!TypeOK'
  BY <1>1, <1>4, PlayAssumption DEF Play!TypeOK, Play!session
<1>6. Play!Recorder'
  BY <1>3 DEF Play!IInv, Play!Recorder, Play!session
<1>7. ASSUME NEW i \in 1 .. Len(Play_served'), i <= Len(Play!CompleteRecords) PROVE Play_served'[i] = Play!CompleteRecords[i]
  <2>1. CASE i <= Len(Play_served)
    <3>1. i \in 1 .. Len(Play_served) /\ Play_served'[i] = Play_served[i]
      BY <1>1, <1>4, <2>1
    <3> QED BY <1>7, <3>1 DEF Play!IInv, Play!Player
  <2>2. CASE ~(i <= Len(Play_served))
    <3>1. i = Len(Play_served) + 1 /\ Play!Remaining > 0
      BY <1>1, <1>2, <1>4, <1>7, <2>2 DEF Play!Remaining
    <3>2. Play_served'[i] = response
      BY <1>1, <3>1
    <3> QED BY <3>1, <3>2
  <2> QED BY <2>1, <2>2
<1>8. Play!Player'
  BY <1>3, <1>7 DEF Play!Player
<1> QED BY <1>5, <1>6, <1>8 DEF Play!IInv

(* Both sides go on as before.                                                 *)
LEMMA PlayNextIInv == Play!IInv /\ [Play!Next]_Play!vars => Play!IInv'
<1> SUFFICES ASSUME Play!IInv, [Play!Next]_Play!vars PROVE Play!IInv'
  OBVIOUS
<1>1. CASE Play!Open
  BY <1>1, PlayAssumption DEF Play!Open, Play!IInv, Play!TypeOK, Play!Recorder, Play!Player, Play!Recording
<1>2. CASE Play!Complete \/ Play!Reflect
  BY <1>2, PlayResponds DEF Play!Complete, Play!Reflect, Play!Kind
<1>3. CASE Play!Close \/ Play!OutOfTurns \/ Play!Finish \/ UNCHANGED Play!vars
  BY <1>3 DEF Play!Close, Play!OutOfTurns, Play!Finish, Play!vars, Play!session, Play!IInv, Play!TypeOK,
       Play!Recorder, Play!Player, Play!CompleteRecords, Play!Recording
<1>4. ASSUME NEW mode, Play!LoadRecording(mode) PROVE Play!IInv'
  BY <1>4, PlayAssumption DEF Play!LoadRecording, Play!session, Play!IInv, Play!TypeOK, Play!Recorder,
       Play!Player, Play!Recording
<1>5. CASE Play!Serve
  <2> DEFINE response == Play!CompleteRecords[Len(Play_served) + 1]
  <2>1. /\ Play_served' = Append(Play_served, response) /\ Play_pc = "replaying" /\ Play_pc' = Play!After(response)
        /\ Len(Play_served) < PlayMaxTurns /\ UNCHANGED <<Play!session, Play_on>> /\ Play!Remaining > 0
    BY <1>5 DEF Play!Serve
  <2>2. Play!CompleteRecords \in Seq(Play!Response) /\ Len(Play_served) \in Nat
    BY PlayRows DEF Play!IInv, Play!TypeOK
  <2>3. response \in Play!Response
    BY <2>1, <2>2 DEF Play!Remaining
  <2>4. Play_pc' \in {"replaying", "replayed"}
    BY <2>1 DEF Play!After
  <2> HIDE DEF response
  <2>5. Play!Remaining > 0 => response = Play!CompleteRecords[Len(Play_served) + 1]
    BY DEF response
  <2> QED BY <2>1, <2>3, <2>4, <2>5, PlayHands
<1>6. CASE Play!Exhausted
  <2>1. Play_pc = "replaying" /\ Len(Play_served) < PlayMaxTurns /\ Play!Remaining <= 0 /\ UNCHANGED <<Play!session, Play_on>>
    BY <1>6 DEF Play!Exhausted
  <2>2. Play!CompleteRecords \in Seq(Play!Response) /\ Len(Play_served) \in Nat /\ Len(Play!CompleteRecords) \in Nat
    BY PlayRows DEF Play!IInv, Play!TypeOK
  <2>3. ~(Play!Remaining > 0)
    BY <2>1, <2>2 DEF Play!Remaining
  <2>4. CASE Play_pc' = "diverged" /\ UNCHANGED Play_served
    BY <2>1, <2>4 DEF Play!session, Play!IInv, Play!TypeOK, Play!Recorder, Play!Player, Play!CompleteRecords,
         Play!Recording
  <2>5. ASSUME Play!CompleteRecords # <<>>, Play_served' = Append(Play_served, Play!CompleteRecords[Len(Play!CompleteRecords)]),
               Play_pc' = Play!After(Play!CompleteRecords[Len(Play!CompleteRecords)])
        PROVE  Play!IInv'
    <3> DEFINE response == Play!CompleteRecords[Len(Play!CompleteRecords)]
    <3>1. response \in Play!Response
      BY <2>2, <2>5
    <3>2. Play_pc' \in {"replaying", "replayed"}
      BY <2>5 DEF Play!After
    <3> HIDE DEF response
    <3>3. Play_served' = Append(Play_served, response)
      BY <2>5 DEF response
    <3> QED BY <2>1, <2>3, <3>1, <3>2, <3>3, PlayHands
  <2>6. CASE Play_served' = Append(Play_served, Play!Invented) /\ Play_pc' = "replayed"
    BY <2>1, <2>3, <2>6, PlayHands
  <2> QED BY <1>6, <2>4, <2>5, <2>6 DEF Play!Exhausted
<1> QED BY <1>1, <1>2, <1>3, <1>4, <1>5, <1>6 DEF Play!Next

(* What was recorded in one piece is what was given.                           *)
LEMMA PlayHolds == Play!IInv => Play!TypeOK /\ Play!ReplayIsFaithful
BY DEF Play!IInv, Play!Recorder, Play!Player, Play!ReplayIsFaithful, Play!CompleteRecords

(* modes/recording.py, modes/replay.py: of a session recorded in one piece with no row lost, *)
(* the replayed loop is handed the loop's responses, in order and with none left out, for    *)
(* any number of responses, reflections, turns and ends of the recording.                    *)
THEOREM ReplaysAreFaithful == Spec => []ReplayIsFaithful
<1> DEFINE Inv == part = "replay" => Play!IInv
<1>1. Init => Inv
  BY PlayInitIInv DEF Init
<1>2. Inv /\ [Next]_vars => Inv'
  <2>1. ASSUME part = "replay", Play!IInv, [Next]_vars PROVE Play!IInv'
    BY <2>1, PlayNextIInv DEF Next, vars, Play!vars, Play!session
  <2>2. [Next]_vars => part' = part
    BY DEF Next, vars
  <2> QED BY <2>1, <2>2
<1>3. Inv => ReplayIsFaithful
  BY PlayHolds DEF ReplayIsFaithful
<1> QED
  BY <1>1, <1>2, <1>3, PTL DEF Spec

HIDE DEF Play_given, Play_file, Play_turn, Play_opens, Play_lost, Play_pc, Play_on, Play_served

-----------------------------------------------------------------------------
(* Compaction. *)
Compact_messages == x1
Compact_pc == x2
Compact_turns == x3
Compact_failed == x4
Compact_mixed == x5
Compact_garbled == x6
Compact_swallowed == x7
Compact_mistaken == x8
Compact_overwritten == x9
USE DEF Compact_messages, Compact_pc, Compact_turns, Compact_failed, Compact_mixed, Compact_garbled,
  Compact_swallowed, Compact_mistaken, Compact_overwritten

(* Sets have one cardinality, inside and outside of Compaction. *)
LEMMA CompactCardinality == \A S : Compact!Cardinality(S) = Cardinality(S)
BY DEF Compact!Cardinality, Cardinality
USE CompactCardinality

(* A part of a conversation that may give way to other messages: not the task,  *)
(* and neither a use without its result nor a result without its use.           *)
CompactWhole(s, a, b) ==
  /\ a \in Nat /\ b \in Nat /\ 2 <= a /\ a <= b + 1 /\ b <= Len(s)
  /\ s[a - 1].kind # "use" /\ (b < Len(s) => s[b + 1].kind # "result")
CompactPlain(new) == \A k \in DOMAIN new : new[k].kind \notin {"use", "result"}

(* Where the messages of a spliced conversation come from.                      *)
CompactIsSpliced(t, s, a, b, new) ==
  /\ t \in Seq(Compact!MessageType) /\ Len(t) = Len(s) + Len(new) + a - (b + 1) /\ DOMAIN t = 1 .. Len(t)
  /\ \A i \in DOMAIN t :
       t[i] = IF i < a THEN s[i] ELSE IF i < a + Len(new) THEN new[i + 1 - a]
              ELSE s[i + (b + 1) - (a + Len(new))]

LEMMA CompactSpliceIs ==
  ASSUME NEW s \in Seq(Compact!MessageType), NEW new \in Seq(Compact!MessageType), NEW a, NEW b, CompactWhole(s, a, b),
         NEW t, t = Compact!Splice(s, a, b, new)
  PROVE  CompactIsSpliced(t, s, a, b, new)
<1> DEFINE n == Len(s) + Len(new) + a - (b + 1)
<1>1. /\ a \in Nat /\ b \in Nat /\ 2 <= a /\ a <= b + 1 /\ b <= Len(s) /\ Len(s) \in Nat /\ Len(new) \in Nat
  BY DEF CompactWhole
<1>2. n \in Nat
  BY <1>1
<1>3. \A i \in 1 .. n :
        (IF i < a THEN s[i] ELSE IF i < a + Len(new) THEN new[i + 1 - a]
         ELSE s[i + (b + 1) - (a + Len(new))]) \in Compact!MessageType
  <2> TAKE i \in 1 .. n
  <2>1. CASE i < a
    <3>1. i \in 1 .. Len(s)
      BY <1>1, <2>1
    <3> QED BY <3>1, <2>1
  <2>2. CASE ~(i < a) /\ i < a + Len(new)
    <3>1. i + 1 - a \in 1 .. Len(new)
      BY <1>1, <2>2
    <3> QED BY <3>1, <2>2
  <2>3. CASE ~(i < a) /\ ~(i < a + Len(new))
    <3>1. i + (b + 1) - (a + Len(new)) \in 1 .. Len(s)
      BY <1>1, <2>3
    <3> QED BY <3>1, <2>3
  <2> QED BY <2>1, <2>2, <2>3
<1>4. t = [i \in 1 .. n |-> IF i < a THEN s[i] ELSE IF i < a + Len(new) THEN new[i + 1 - a]
                           ELSE s[i + (b + 1) - (a + Len(new))]]
  BY DEF Compact!Splice
<1> HIDE DEF n
<1>5. t \in [1 .. n -> Compact!MessageType]
  BY <1>3, <1>4
<1>6. t \in Seq(Compact!MessageType) /\ Len(t) = n
  BY <1>2, <1>5
<1>7. DOMAIN t = 1 .. n
  BY <1>4
<1>8. \A i \in DOMAIN t :
              t[i] = IF i < a THEN s[i] ELSE IF i < a + Len(new) THEN new[i + 1 - a]
                     ELSE s[i + (b + 1) - (a + Len(new))]
  BY <1>4, <1>7
<1>9. Len(t) = Len(s) + Len(new) + a - (b + 1)
  BY <1>6 DEF n
<1>10. DOMAIN t = 1 .. Len(t)
  BY <1>6, <1>7
<1> QED BY <1>6, <1>8, <1>9, <1>10 DEF CompactIsSpliced

(* Plain messages in the place of a whole part leave the pairs as they are.     *)
LEMMA CompactSpliceShaped ==
  ASSUME NEW s, NEW new \in Seq(Compact!MessageType), NEW a, NEW b,
         Compact!Shaped(s), CompactWhole(s, a, b), CompactPlain(new), NEW t, t = Compact!Splice(s, a, b, new)
  PROVE  Compact!Shaped(t)
<1> DEFINE ls == Len(s)
           ln == Len(new)
           c == (b + 1) - (a + ln)
           m == a + ln
<1>0. /\ a \in Nat /\ b \in Nat /\ 2 <= a /\ a <= b + 1 /\ b <= Len(s) /\ Len(s) \in Nat /\ Len(new) \in Nat
      /\ s \in Seq(Compact!MessageType) /\ DOMAIN s = 1 .. Len(s) /\ DOMAIN new = 1 .. Len(new)
      /\ s[a - 1].kind # "use" /\ (b < Len(s) => s[b + 1].kind # "result")
  BY DEF CompactWhole, Compact!Shaped
<1>1. /\ t \in Seq(Compact!MessageType) /\ Len(t) = Len(s) - c /\ DOMAIN t = 1 .. Len(t) /\ c \in Int
      /\ \A i \in DOMAIN t : i < a => i \in 1 .. Len(s) /\ t[i] = s[i]
      /\ \A i \in DOMAIN t : a <= i /\ i < a + Len(new) => t[i].kind \notin {"use", "result"}
      /\ \A i \in DOMAIN t : a + Len(new) <= i => i + c \in 1 .. Len(s) /\ t[i] = s[i + c]
  <2>1. /\ t \in Seq(Compact!MessageType) /\ Len(t) = Len(s) + Len(new) + a - (b + 1) /\ DOMAIN t = 1 .. Len(t)
        /\ \A i \in DOMAIN t :
              t[i] = IF i < a THEN s[i] ELSE IF i < a + Len(new) THEN new[i + 1 - a]
                     ELSE s[i + (b + 1) - (a + Len(new))]
    <3>1. s \in Seq(Compact!MessageType)
      BY <1>0
    <3>2. CompactIsSpliced(t, s, a, b, new)
      BY <3>1, CompactSpliceIs
    <3> QED BY <3>2 DEF CompactIsSpliced
  <2>0. a \in Nat /\ b \in Nat /\ ls \in Nat /\ ln \in Nat /\ Len(t) = ls + ln + a - (b + 1)
    BY <1>0, <2>1
  <2>2. c \in Int /\ Len(t) = Len(s) - c
    <3> HIDE DEF ls, ln
    <3>1. c \in Int /\ Len(t) = ls - c
      BY <2>0
    <3> QED BY <3>1 DEF ls
  <2>3. ASSUME NEW i \in DOMAIN t, i < a PROVE i \in 1 .. Len(s) /\ t[i] = s[i]
    BY <1>0, <2>1, <2>3
  <2>4. ASSUME NEW i \in DOMAIN t, a <= i, i < a + Len(new) PROVE t[i].kind \notin {"use", "result"}
    <3>1. i + 1 - a \in 1 .. Len(new)
      BY <1>0, <2>1, <2>4
    <3>2. t[i] = new[i + 1 - a]
      BY <1>0, <2>1, <2>4
    <3> QED BY <3>1, <3>2, <1>0 DEF CompactPlain
  <2>5. ASSUME NEW i \in DOMAIN t, a + Len(new) <= i PROVE i + c \in 1 .. Len(s) /\ t[i] = s[i + c]
    <3>1. i \in Nat /\ i <= Len(t) /\ ~(i < a) /\ ~(i < a + Len(new)) /\ i + c = i + (b + 1) - (a + Len(new))
      BY <1>0, <2>1, <2>5
    <3>2. i + c \in 1 .. Len(s)
      BY <1>0, <2>1, <2>5
    <3>3. t[i] = s[i + (b + 1) - (a + Len(new))]
      BY <2>1, <3>1
    <3> QED BY <3>1, <3>2, <3>3
  <2> QED BY <2>1, <2>2, <2>3, <2>4, <2>5
<1>2. m \in Nat /\ a <= m /\ m + c = b + 1 /\ c \in Int
  <2>1. a \in Nat /\ b \in Nat /\ ln \in Nat
    BY <1>0
  <2> HIDE DEF ln
  <2> QED BY <2>1
<1> HIDE DEF c
<1>3. /\ \A i \in 1 .. Len(t) : i < a => i \in 1 .. Len(s) /\ t[i] = s[i]
      /\ \A i \in 1 .. Len(t) : a <= i /\ i < m => t[i].kind \notin {"use", "result"}
      /\ \A i \in 1 .. Len(t) : m <= i => i + c \in 1 .. Len(s) /\ t[i] = s[i + c]
      /\ Len(t) \in Nat /\ Len(t) + c = Len(s)
  <2>1. Len(t) \in Nat /\ Len(t) + c = Len(s)
    <3>1. Len(t) \in Nat /\ Len(t) = Len(s) - c /\ Len(s) \in Nat
      BY <1>0, <1>1
    <3> DEFINE lt == Len(t)
    <3> HIDE DEF lt, ls
    <3>2. lt \in Nat /\ lt = ls - c /\ ls \in Nat
      BY <3>1 DEF lt, ls
    <3>3. lt + c = ls
      BY <1>2, <3>2
    <3> QED BY <3>1, <3>3 DEF lt, ls
  <2>2. DOMAIN t = 1 .. Len(t)
    BY <1>1
  <2> QED BY Zenon, <1>1, <2>1, <2>2
<1> HIDE DEF ls, ln, m
<1>4. /\ \A i \in 1 .. Len(s) : s[i].kind = "use" =>
           i < Len(s) /\ s[i + 1].kind = "result" /\ s[i + 1].turn = s[i].turn
      /\ \A i \in 1 .. Len(s) : s[i].kind = "result" => i > 1 /\ s[i - 1].kind = "use"
      /\ \A i, j \in 1 .. Len(s) :
           i < j /\ s[i].kind = "result" /\ s[j].kind = "result" => s[i].turn < s[j].turn
      /\ s[1] = Compact!Task
  BY <1>0 DEF Compact!Shaped
<1>5. t # <<>> /\ t[1] = Compact!Task
  BY <1>0, <1>1, <1>2, <1>3, <1>4
<1>6. ASSUME NEW i \in 1 .. Len(t), t[i].kind = "use"
      PROVE  i < Len(t) /\ t[i + 1].kind = "result" /\ t[i + 1].turn = t[i].turn
  <2>1. CASE i < a
    <3>1. t[i] = s[i] /\ i \in 1 .. Len(s) /\ i # a - 1
      BY <1>0, <1>3, <1>6, <2>1
    <3>2. i + 1 < a /\ i < Len(s) /\ s[i + 1].kind = "result" /\ s[i + 1].turn = s[i].turn
      BY <1>0, <1>4, <1>6, <2>1, <3>1
    <3>3. i + 1 \in 1 .. Len(t)
      BY <1>0, <1>2, <1>3, <3>2
    <3>4. t[i + 1] = s[i + 1]
      BY <1>3, <3>2, <3>3
    <3> QED BY <3>1, <3>2, <3>3, <3>4
  <2>2. CASE m <= i
    <3>1. t[i] = s[i + c] /\ i + c \in 1 .. Len(s)
      BY <1>3, <2>2
    <3>2. i + c < Len(s) /\ s[i + c + 1].kind = "result" /\ s[i + c + 1].turn = s[i + c].turn
      BY <1>4, <1>6, <3>1
    <3>3. i + 1 \in 1 .. Len(t) /\ i + 1 + c = i + c + 1 /\ m <= i + 1
      BY <1>2, <1>3, <2>2, <3>2
    <3>4. t[i + 1] = s[i + 1 + c]
      BY <1>3, <3>3
    <3> QED BY <3>1, <3>2, <3>3, <3>4
  <2>3. a <= i /\ i < m => t[i].kind # "use"
    BY <1>3
  <2> QED BY <1>0, <1>2, <1>6, <2>1, <2>2, <2>3
<1>7. ASSUME NEW i \in 1 .. Len(t), t[i].kind = "result" PROVE i > 1 /\ t[i - 1].kind = "use"
  <2>1. CASE i < a
    <3>1. t[i] = s[i] /\ i \in 1 .. Len(s)
      BY <1>3, <2>1
    <3>2. i > 1 /\ s[i - 1].kind = "use"
      BY <1>4, <1>7, <3>1
    <3>3. i - 1 \in 1 .. Len(t) /\ i - 1 < a
      BY <1>0, <2>1, <3>2
    <3> QED BY <1>3, <3>2, <3>3
  <2>2. CASE m <= i
    <3>1. t[i] = s[i + c] /\ i + c \in 1 .. Len(s)
      BY <1>3, <2>2
    <3>0. s[i + c].kind = "result"
      BY <1>7, <3>1
    <3>2. i + c > 1 /\ s[(i + c) - 1].kind = "use"
      BY <1>4, <3>0, <3>1
    <3>3. i # m
      BY <1>0, <1>2, <1>3, <1>7, <3>1
    <3>4. i - 1 \in 1 .. Len(t) /\ i - 1 + c = (i + c) - 1 /\ m <= i - 1
      BY <1>0, <1>2, <1>3, <2>2, <3>3
    <3>5. t[i - 1] = s[(i + c) - 1]
      <4>1. t[i - 1] = s[i - 1 + c]
        BY <1>3, <3>4
      <4> QED BY <4>1, <3>4
    <3>6. i > 1
      BY <1>0, <1>2, <2>2
    <3> QED BY <3>2, <3>5, <3>6
  <2>3. a <= i /\ i < m => t[i].kind # "result"
    BY <1>3
  <2> QED BY <1>0, <1>2, <1>7, <2>1, <2>2, <2>3
<1>8. ASSUME NEW i \in 1 .. Len(t), NEW j \in 1 .. Len(t), i < j, t[i].kind = "result", t[j].kind = "result"
      PROVE  t[i].turn < t[j].turn
  <2>1. ~(a <= i /\ i < m) /\ ~(a <= j /\ j < m)
    BY <1>3, <1>8
  <2>2. CASE j < a
    <3>1. i < a
      BY <1>0, <1>8, <2>2
    <3>2. t[i] = s[i] /\ i \in 1 .. Len(s) /\ t[j] = s[j] /\ j \in 1 .. Len(s)
      BY <1>3, <2>2, <3>1
    <3> QED BY <1>4, <1>8, <3>2
  <2>3. CASE i < a /\ m <= j
    <3>1. t[i] = s[i] /\ i \in 1 .. Len(s) /\ t[j] = s[j + c] /\ j + c \in 1 .. Len(s)
      BY <1>3, <2>3
    <3>2. i < j + c
      BY <1>0, <1>2, <2>3
    <3> QED BY <1>4, <1>8, <3>1, <3>2
  <2>4. CASE m <= i
    <3>1. m <= j
      BY <1>2, <1>8, <2>4
    <3>2. t[i] = s[i + c] /\ i + c \in 1 .. Len(s) /\ t[j] = s[j + c] /\ j + c \in 1 .. Len(s)
      BY <1>3, <2>4, <3>1
    <3>3. i + c < j + c
      BY <1>2, <1>8
    <3> QED BY <1>4, <1>8, <3>2, <3>3
  <2> QED BY <1>0, <1>2, <1>8, <2>1, <2>2, <2>3, <2>4
<1>9. DOMAIN t = 1 .. Len(t) /\ t \in Seq(Compact!MessageType)
  BY <1>1
<1> QED BY <1>5, <1>6, <1>7, <1>8, <1>9 DEF Compact!Shaped

(* The same, with the lengths named.                                            *)
CompactSplicedAt(t, s, a, b, new, ls, ln, lt) ==
  /\ a \in Nat /\ b \in Nat /\ 2 <= a /\ a <= b + 1 /\ b <= ls /\ ls \in Nat /\ ln \in Nat
  /\ lt = ls + ln + a - (b + 1)
  /\ DOMAIN t = 1 .. lt /\ DOMAIN s = 1 .. ls /\ DOMAIN new = 1 .. ln
  /\ \A i \in 1 .. lt :
       t[i] = IF i < a THEN s[i] ELSE IF i < a + ln THEN new[i + 1 - a] ELSE s[i + (b + 1) - (a + ln)]

LEMMA CompactSpliceLengths ==
  ASSUME NEW s \in Seq(Compact!MessageType), NEW new \in Seq(Compact!MessageType), NEW a, NEW b, CompactWhole(s, a, b),
         NEW t, CompactIsSpliced(t, s, a, b, new)
  PROVE  CompactSplicedAt(t, s, a, b, new, Len(s), Len(new), Len(t))
<1>1. Len(s) \in Nat /\ Len(new) \in Nat /\ DOMAIN s = 1 .. Len(s) /\ DOMAIN new = 1 .. Len(new)
  OBVIOUS
<1>2. a \in Nat /\ b \in Nat /\ 2 <= a /\ a <= b + 1 /\ b <= Len(s)
  BY DEF CompactWhole
<1>3. /\ Len(t) = Len(s) + Len(new) + a - (b + 1) /\ DOMAIN t = 1 .. Len(t)
      /\ \A i \in DOMAIN t :
           t[i] = IF i < a THEN s[i] ELSE IF i < a + Len(new) THEN new[i + 1 - a]
                  ELSE s[i + (b + 1) - (a + Len(new))]
  BY Zenon DEF CompactIsSpliced
<1> QED BY Zenon, <1>1, <1>2, <1>3 DEF CompactSplicedAt

(* A spliced conversation holds what was kept and what is new.                  *)
CompactComes(t, s, a, b, new) ==
  /\ \A i \in DOMAIN t : \/ \E j \in DOMAIN s : (j < a \/ b < j) /\ t[i] = s[j]
                         \/ \E k \in DOMAIN new : t[i] = new[k]
  /\ \A j \in DOMAIN s : j < a \/ b < j => \E i \in DOMAIN t : t[i] = s[j]
  /\ \A k \in DOMAIN new : \E i \in DOMAIN t : t[i] = new[k]

LEMMA CompactSpliceComes ==
  ASSUME NEW s \in Seq(Compact!MessageType), NEW new \in Seq(Compact!MessageType), NEW a, NEW b, CompactWhole(s, a, b),
         NEW t, CompactIsSpliced(t, s, a, b, new)
  PROVE  CompactComes(t, s, a, b, new)
<1> DEFINE ls == Len(s)
           ln == Len(new)
           lt == Len(t)
<1>0. CompactSplicedAt(t, s, a, b, new, ls, ln, lt)
  BY CompactSpliceLengths
<1> HIDE DEF ls, ln, lt
<1>1. /\ a \in Nat /\ b \in Nat /\ 2 <= a /\ a <= b + 1 /\ b <= ls /\ ls \in Nat /\ ln \in Nat
      /\ lt = ls + ln + a - (b + 1)
      /\ DOMAIN t = 1 .. lt /\ DOMAIN s = 1 .. ls /\ DOMAIN new = 1 .. ln
      /\ \A i \in 1 .. lt :
           t[i] = IF i < a THEN s[i] ELSE IF i < a + ln THEN new[i + 1 - a] ELSE s[i + (b + 1) - (a + ln)]
  BY <1>0 DEF CompactSplicedAt
<1> HIDE DEF ls, ln, lt
<1>2. ASSUME NEW i \in 1 .. lt
      PROVE  \/ \E j \in 1 .. ls : (j < a \/ b < j) /\ t[i] = s[j]
             \/ \E k \in 1 .. ln : t[i] = new[k]
  <2>1. CASE i < a
    <3>1. i \in 1 .. ls /\ t[i] = s[i]
      BY <1>1, <2>1
    <3> QED BY <2>1, <3>1
  <2>2. CASE ~(i < a) /\ i < a + ln
    <3>1. i + 1 - a \in 1 .. ln
      BY <1>1, <2>2
    <3>2. t[i] = new[i + 1 - a]
      BY <1>1, <2>2
    <3> QED BY <3>1, <3>2
  <2>3. CASE ~(i < a) /\ ~(i < a + ln)
    <3>1. i + (b + 1) - (a + ln) \in 1 .. ls /\ b < i + (b + 1) - (a + ln)
      BY <1>1, <2>3
    <3>2. t[i] = s[i + (b + 1) - (a + ln)]
      BY <1>1, <2>3
    <3> QED BY <3>1, <3>2
  <2> QED BY <2>1, <2>2, <2>3
<1>3. ASSUME NEW j \in 1 .. ls, j < a \/ b < j PROVE \E i \in 1 .. lt : t[i] = s[j]
  <2>1. CASE j < a
    <3>1. j \in 1 .. lt /\ t[j] = s[j]
      BY <1>1, <2>1
    <3> QED BY <3>1
  <2>2. CASE b < j
    <3> DEFINE i == j + (a + ln) - (b + 1)
    <3>1. i \in 1 .. lt /\ ~(i < a) /\ ~(i < a + ln) /\ i + (b + 1) - (a + ln) = j
      BY <1>1, <2>2
    <3> HIDE DEF i
    <3>2. t[i] = s[i + (b + 1) - (a + ln)]
      BY <1>1, <3>1
    <3> QED BY <3>1, <3>2
  <2> QED BY <1>3, <2>1, <2>2
<1>4. ASSUME NEW k \in 1 .. ln PROVE \E i \in 1 .. lt : t[i] = new[k]
  <2> DEFINE i == k + a - 1
  <2>1. i \in 1 .. lt /\ ~(i < a) /\ i < a + ln /\ i + 1 - a = k
    BY <1>1
  <2> HIDE DEF i
  <2>2. t[i] = new[i + 1 - a]
    BY <1>1, <2>1
  <2> QED BY <2>1, <2>2
<1>5. DOMAIN t = 1 .. lt /\ DOMAIN s = 1 .. ls /\ DOMAIN new = 1 .. ln
  BY <1>1
<1> QED BY Zenon, <1>2, <1>3, <1>4, <1>5 DEF CompactComes

(* One block of dead ends and one full summary are rest.                        *)
CompactAloneIn(s, a, b, new, kinds) ==
  /\ \A k, l \in DOMAIN new : new[k].kind \in kinds /\ new[l].kind \in kinds => k = l
  /\ \A k \in DOMAIN new, j \in DOMAIN s :
       new[k].kind \in kinds /\ (j < a \/ b < j) => s[j].kind \notin kinds
CompactAlone(s, a, b, new) == CompactAloneIn(s, a, b, new, {"dead"}) /\ CompactAloneIn(s, a, b, new, Compact!FullKinds)

LEMMA CompactSpliceUnique ==
  ASSUME NEW s \in Seq(Compact!MessageType), NEW new \in Seq(Compact!MessageType), NEW a, NEW b, CompactWhole(s, a, b),
         NEW t, CompactIsSpliced(t, s, a, b, new), NEW kinds, Compact!Unique(s, kinds), CompactAloneIn(s, a, b, new, kinds)
  PROVE  Compact!Unique(t, kinds)
<1> DEFINE ls == Len(s)
           ln == Len(new)
           lt == Len(t)
           c == (b + 1) - (a + ln)
<1>0. CompactSplicedAt(t, s, a, b, new, ls, ln, lt)
  BY CompactSpliceLengths
<1> HIDE DEF ls, ln, lt
<1>1. /\ a \in Nat /\ b \in Nat /\ 2 <= a /\ a <= b + 1 /\ b <= ls /\ ls \in Nat /\ ln \in Nat
      /\ lt = ls + ln + a - (b + 1)
      /\ DOMAIN t = 1 .. lt /\ DOMAIN s = 1 .. ls /\ DOMAIN new = 1 .. ln
      /\ \A i \in 1 .. lt :
           t[i] = IF i < a THEN s[i] ELSE IF i < a + ln THEN new[i + 1 - a] ELSE s[i + (b + 1) - (a + ln)]
  BY <1>0 DEF CompactSplicedAt
<1> SUFFICES ASSUME NEW i \in 1 .. lt, NEW j \in 1 .. lt,
                    t[i].kind \in kinds, t[j].kind \in kinds
             PROVE  i = j
  BY <1>1 DEF Compact!Unique
<1>2. /\ \A x, y \in 1 .. ls : s[x].kind \in kinds /\ s[y].kind \in kinds => x = y
      /\ \A k, l \in 1 .. ln : new[k].kind \in kinds /\ new[l].kind \in kinds => k = l
      /\ \A k \in 1 .. ln, x \in 1 .. ls : new[k].kind \in kinds /\ (x < a \/ b < x) => s[x].kind \notin kinds
  BY <1>1 DEF Compact!Unique, CompactAloneIn
<1> HIDE DEF ls, ln, lt
<1>3. ASSUME NEW x \in 1 .. lt, t[x].kind \in kinds
      PROVE  \/ x < a /\ x \in 1 .. ls /\ s[x].kind \in kinds
             \/ x >= a /\ x < a + ln /\ x + 1 - a \in 1 .. ln /\ new[x + 1 - a].kind \in kinds
             \/ x >= a + ln /\ x + c \in 1 .. ls /\ b < x + c /\ s[x + c].kind \in kinds
  <2>1. CASE x < a
    <3>1. x \in 1 .. ls /\ t[x] = s[x]
      BY <1>1, <2>1
    <3> QED BY <1>3, <2>1, <3>1
  <2>2. CASE ~(x < a) /\ x < a + ln
    <3>1. x + 1 - a \in 1 .. ln /\ x >= a
      BY <1>1, <2>2
    <3>2. t[x] = new[x + 1 - a]
      BY <1>1, <2>2
    <3> QED BY <1>3, <2>2, <3>1, <3>2
  <2>3. CASE ~(x < a) /\ ~(x < a + ln)
    <3>1. x + c \in 1 .. ls /\ b < x + c /\ x >= a + ln /\ x + c = x + (b + 1) - (a + ln)
      BY <1>1, <2>3
    <3>2. t[x] = s[x + (b + 1) - (a + ln)]
      BY <1>1, <2>3
    <3> HIDE DEF c
    <3> QED BY <1>3, <3>1, <3>2
  <2> QED BY <2>1, <2>2, <2>3
<1>4. c \in Int /\ i \in Nat /\ j \in Nat
  BY <1>1
<1> HIDE DEF c
<1>5. CASE i < a /\ i \in 1 .. ls /\ s[i].kind \in kinds
  <2>1. CASE j < a /\ j \in 1 .. ls /\ s[j].kind \in kinds
    BY <1>2, <1>5, <2>1
  <2>2. CASE j + 1 - a \in 1 .. ln /\ new[j + 1 - a].kind \in kinds
    BY <1>2, <1>5, <2>2
  <2>3. CASE j >= a + ln /\ j + c \in 1 .. ls /\ b < j + c /\ s[j + c].kind \in kinds
    <3>1. i = j + c
      BY <1>2, <1>5, <2>3
    <3> QED BY <1>1, <1>4, <1>5, <2>3, <3>1
  <2> QED BY <1>3, <2>1, <2>2, <2>3
<1>6. CASE i >= a /\ i < a + ln /\ i + 1 - a \in 1 .. ln /\ new[i + 1 - a].kind \in kinds
  <2>1. CASE j < a /\ j \in 1 .. ls /\ s[j].kind \in kinds
    BY <1>2, <1>6, <2>1
  <2>2. CASE j + 1 - a \in 1 .. ln /\ new[j + 1 - a].kind \in kinds
    <3>1. i + 1 - a = j + 1 - a
      BY <1>2, <1>6, <2>2
    <3> QED BY <1>1, <1>4, <3>1
  <2>3. CASE j >= a + ln /\ j + c \in 1 .. ls /\ b < j + c /\ s[j + c].kind \in kinds
    BY <1>2, <1>6, <2>3
  <2> QED BY <1>3, <2>1, <2>2, <2>3
<1>7. CASE i >= a + ln /\ i + c \in 1 .. ls /\ b < i + c /\ s[i + c].kind \in kinds
  <2>1. CASE j < a /\ j \in 1 .. ls /\ s[j].kind \in kinds
    <3>1. j = i + c
      BY <1>2, <1>7, <2>1
    <3> QED BY <1>1, <1>4, <1>7, <2>1, <3>1
  <2>2. CASE j + 1 - a \in 1 .. ln /\ new[j + 1 - a].kind \in kinds
    BY <1>2, <1>7, <2>2
  <2>3. CASE j >= a + ln /\ j + c \in 1 .. ls /\ b < j + c /\ s[j + c].kind \in kinds
    <3>1. i + c = j + c
      BY <1>2, <1>7, <2>3
    <3> QED BY <1>4, <3>1
  <2> QED BY <1>3, <2>1, <2>2, <2>3
<1> QED BY <1>3, <1>5, <1>6, <1>7

LEMMA CompactSpliceSingle ==
  ASSUME NEW s \in Seq(Compact!MessageType), NEW new \in Seq(Compact!MessageType), NEW a, NEW b, CompactWhole(s, a, b),
         NEW t, CompactIsSpliced(t, s, a, b, new), Compact!Single(s), CompactAlone(s, a, b, new)
  PROVE  Compact!Single(t)
BY Zenon, CompactSpliceUnique DEF Compact!Single, CompactAlone

(* What results and dead ends say of themselves goes on.                        *)
LEMMA CompactSpliceVerbatim ==
  ASSUME NEW s, NEW new, NEW a, NEW b, NEW t, CompactComes(t, s, a, b, new), CompactPlain(new), NEW now, Compact!Verbatim(s, now)
  PROVE  Compact!Verbatim(t, now)
<1> SUFFICES ASSUME NEW i \in DOMAIN t, t[i].kind = "result"
             PROVE  /\ t[i].turn \in 1 .. now /\ t[i].reads \subseteq {t[i].turn}
                    /\ now < t[i].turn + CompactKeepRecentPairs => ~Compact!Compacted(t[i])
  BY DEF Compact!Verbatim
<1>1. PICK j \in DOMAIN s : t[i] = s[j]
  BY DEF CompactComes, CompactPlain
<1>2. /\ s[j].turn \in 1 .. now /\ s[j].reads \subseteq {s[j].turn}
      /\ now < s[j].turn + CompactKeepRecentPairs => ~Compact!Compacted(s[j])
  BY <1>1 DEF Compact!Verbatim
<1> QED BY Zenon, <1>1, <1>2

LEMMA CompactSpliceListed ==
  ASSUME NEW s, NEW new, NEW a, NEW b, NEW t, CompactComes(t, s, a, b, new), CompactPlain(new), NEW bad, Compact!Listed(s, bad),
         \A k \in DOMAIN new : new[k].kind = "dead" => Compact!Entry(new[k], s, bad)
  PROVE  Compact!Listed(t, bad)
<1> SUFFICES ASSUME NEW i \in DOMAIN t, t[i].kind = "dead" PROVE Compact!Entry(t[i], t, bad)
  BY DEF Compact!Listed
<1>1. Compact!Entry(t[i], s, bad)
  <2>1. CASE \E j \in DOMAIN s : t[i] = s[j]
    <3>1. PICK j \in DOMAIN s : t[i] = s[j]
      BY <2>1
    <3>2. Compact!Entry(s[j], s, bad)
      BY <3>1 DEF Compact!Listed
    <3> QED BY Zenon, <3>1, <3>2
  <2>2. CASE \E k \in DOMAIN new : t[i] = new[k]
    <3>1. PICK k \in DOMAIN new : t[i] = new[k]
      BY <2>2
    <3>2. Compact!Entry(new[k], s, bad)
      BY <3>1
    <3> QED BY Zenon, <3>1, <3>2
  <2> QED BY Zenon, <2>1, <2>2 DEF CompactComes
<1>2. ASSUME NEW j \in DOMAIN t, t[j].kind = "result", ~Compact!Compacted(t[j]), NEW k \in DOMAIN t[i].lines
      PROVE  t[i].lines[k] < t[j].turn
  <2>1. PICK x \in DOMAIN s : t[j] = s[x]
    BY <1>2 DEF CompactComes, CompactPlain
  <2>2. s[x].kind = "result" /\ ~Compact!Compacted(s[x])
    BY Zenon, <1>2, <2>1
  <2>3. t[i].lines[k] < s[x].turn
    BY <1>1, <2>2 DEF Compact!Entry
  <2> QED BY Zenon, <2>1, <2>3
<1> QED BY <1>1, <1>2 DEF Compact!Entry

(* The last n of a list, b of its a members.                                    *)
CompactLastAt(m, l, n, a, b) ==
  /\ m \in Seq(Compact!Turn) /\ a \in Nat /\ b \in Nat /\ b <= n /\ b <= a /\ (a >= n => b = n) /\ (a <= n => b = a)
  /\ DOMAIN m = 1 .. b /\ DOMAIN l = 1 .. a
  /\ \A k \in 1 .. b : k + (a - b) \in 1 .. a /\ m[k] = l[k + (a - b)]

LEMMA CompactLastOfIs ==
  ASSUME NEW l \in Seq(Compact!Turn), NEW n \in Nat, NEW m, m = Compact!LastOf(l, n)
  PROVE  CompactLastAt(m, l, n, Len(l), Len(m))
<1>1. CASE Len(l) <= n
  <2>1. m = l
    BY <1>1 DEF Compact!LastOf
  <2> DEFINE a == Len(l)
  <2>2. a \in Nat /\ DOMAIN l = 1 .. a /\ a <= n
    BY <1>1
  <2> HIDE DEF a
  <2>3. CompactLastAt(l, l, n, a, a)
    BY <2>2 DEF CompactLastAt
  <2> QED BY <2>1, <2>3 DEF a
<1>2. CASE ~(Len(l) <= n)
  <2>1. m = SubSeq(l, Len(l) - n + 1, Len(l))
    BY <1>2 DEF Compact!LastOf
  <2>2. Len(l) \in Nat /\ Len(l) - n + 1 \in 1 .. Len(l) + 1
    BY <1>2
  <2> DEFINE a == Len(l) - n + 1
  <2>3. a \in 1 .. Len(l) + 1
    BY <2>2
  <2>4. /\ SubSeq(l, a, Len(l)) \in Seq(Compact!Turn) /\ Len(SubSeq(l, a, Len(l))) = Len(l) - a + 1
        /\ \A k \in 1 .. Len(l) - a + 1 : SubSeq(l, a, Len(l))[k] = l[a + k - 1]
    <3> HIDE DEF a
    <3> QED BY <2>2, <2>3
  <2>5. Len(l) - a + 1 = n
    BY <2>2
  <2>6. m \in Seq(Compact!Turn) /\ Len(m) = n
    BY <2>1, <2>4, <2>5
  <2>7. ASSUME NEW k \in 1 .. n PROVE k + (Len(l) - n) \in 1 .. Len(l) /\ m[k] = l[k + (Len(l) - n)]
    <3>1. m[k] = l[a + k - 1]
      BY <2>1, <2>4, <2>5
    <3>2. a + k - 1 = k + (Len(l) - n) /\ k + (Len(l) - n) \in 1 .. Len(l)
      BY <2>2
    <3> QED BY <3>1, <3>2
  <2>8. DOMAIN m = 1 .. Len(m) /\ DOMAIN l = 1 .. Len(l) /\ Len(l) \in Nat /\ Len(m) \in Nat
    BY <2>6
  <2>9. n <= Len(l) /\ (Len(l) <= n => n = Len(l))
    BY <1>2
  <2> HIDE DEF a
  <2>11. n <= n
    OBVIOUS
  <2> QED BY Zenon, <2>6, <2>7, <2>8, <2>9, <2>11 DEF CompactLastAt
<1> QED BY <1>1, <1>2

(* The last of an ascending list ascend, and are all of it but what lies below. *)
CompactEnds(m, l, n) ==
  /\ m \in Seq(Compact!Turn) /\ Len(m) <= n /\ (Len(l) >= n => Len(m) = n) /\ Compact!Ascending(m)
  /\ \A k \in DOMAIN m : \E j \in DOMAIN l : m[k] = l[j]
  /\ \A j \in DOMAIN l : \/ \E k \in DOMAIN m : m[k] = l[j]
                         \/ Len(m) = n /\ \A k \in DOMAIN m : m[k] > l[j]

LEMMA CompactLastOfEnds ==
  ASSUME NEW l \in Seq(Compact!Turn), Compact!Ascending(l), NEW n \in Nat, NEW m, m = Compact!LastOf(l, n)
  PROVE  CompactEnds(m, l, n)
<1> DEFINE a == Len(l)
           b == Len(m)
           d == a - b
<1>0. CompactLastAt(m, l, n, a, b)
  BY CompactLastOfIs
<1> HIDE DEF a, b
<1>1. /\ m \in Seq(Compact!Turn) /\ b <= n /\ b <= a /\ (a >= n => b = n) /\ (a <= n => b = a)
      /\ \A k \in 1 .. b : k + d \in 1 .. a /\ m[k] = l[k + d]
  BY <1>0 DEF CompactLastAt
<1>2. /\ DOMAIN l = 1 .. a /\ DOMAIN m = 1 .. b /\ a \in Nat /\ b \in Nat
      /\ d \in Nat /\ b + d = a
  BY <1>0 DEF CompactLastAt
<1>3. \A i \in 1 .. a : l[i] \in Nat
  <2>1. Compact!Turn \subseteq Nat
    BY DEF Compact!Turn
  <2>2. \A i \in DOMAIN l : l[i] \in Compact!Turn
    OBVIOUS
  <2>3. DOMAIN l = 1 .. a
    BY <1>2
  <2> QED BY Zenon, <2>1, <2>2, <2>3
<1> HIDE DEF d
<1>4. ASSUME NEW i \in 1 .. b, NEW j \in 1 .. b, i < j PROVE m[i] < m[j]
  <2>1. i + d < j + d
    BY <1>2, <1>4
  <2> QED BY <1>1, <1>2, <2>1 DEF Compact!Ascending
<1>5. ASSUME NEW j \in 1 .. a
      PROVE \/ \E k \in 1 .. b : m[k] = l[j]
            \/ b = n /\ \A k \in 1 .. b : m[k] > l[j]
  <2>1. CASE d < j
    <3>1. j - d \in 1 .. b /\ (j - d) + d = j
      BY <1>2, <2>1
    <3>2. m[j - d] = l[j]
      BY <1>1, <3>1
    <3> QED BY <3>1, <3>2
  <2>2. CASE ~(d < j)
    <3>1. b = n
      BY <1>1, <1>2, <2>2
    <3>2. ASSUME NEW k \in 1 .. b PROVE m[k] > l[j]
      <4>1. j < k + d /\ k + d \in 1 .. a /\ m[k] = l[k + d]
        BY <1>1, <1>2, <2>2
      <4>2. l[j] < l[k + d]
        BY <1>2, <4>1 DEF Compact!Ascending
      <4> QED BY <1>3, <4>1, <4>2
    <3> QED BY <3>1, <3>2
  <2> QED BY <2>1, <2>2
<1>6. \A k \in 1 .. b : \E j \in 1 .. a : m[k] = l[j]
  BY <1>1
<1>7. Compact!Ascending(m)
  BY <1>2, <1>4 DEF Compact!Ascending
<1>8. DOMAIN l = 1 .. a /\ DOMAIN m = 1 .. b
  BY <1>2
<1>9. m \in Seq(Compact!Turn) /\ Len(m) <= n /\ (Len(l) >= n => Len(m) = n) /\ b = Len(m)
  BY <1>1 DEF a, b
<1> QED BY Zenon, <1>9, <1>5, <1>6, <1>7, <1>8 DEF CompactEnds

(* Two lists, one after the other.                                             *)
LEMMA CompactJoinedLists ==
  ASSUME NEW x \in Seq(Compact!Turn), NEW y \in Seq(Compact!Turn)
  PROVE  /\ x \o y \in Seq(Compact!Turn) /\ Len(x \o y) = Len(x) + Len(y)
         /\ \A i \in 1 .. Len(x) : (x \o y)[i] = x[i]
         /\ \A i \in 1 .. Len(y) : (x \o y)[i + Len(x)] = y[i]
OBVIOUS

(* The dead ends that were there, and later ones: whatever of them is not in    *)
(* the merged block is driven out of it.                                        *)
CompactMerges(m, old, new) ==
  /\ m \in Seq(Compact!Turn) /\ Len(m) <= CompactMaxDeadEnds /\ Compact!Ascending(m)
  /\ \A k \in DOMAIN m : (\E j \in DOMAIN old : m[k] = old[j]) \/ (\E j \in DOMAIN new : m[k] = new[j])
  /\ \A j \in DOMAIN old : \/ \E k \in DOMAIN m : m[k] = old[j]
                           \/ Len(m) = CompactMaxDeadEnds /\ \A k \in DOMAIN m : m[k] > old[j]
  /\ \A j \in DOMAIN new : \/ \E k \in DOMAIN m : m[k] = new[j]
                           \/ Len(m) = CompactMaxDeadEnds /\ \A k \in DOMAIN m : m[k] > new[j]
  /\ \A n \in Nat :
       \/ Len(old) = CompactMaxDeadEnds /\ \A j \in DOMAIN old : old[j] > n
       \/ Len(new) = CompactMaxDeadEnds /\ \A j \in DOMAIN new : new[j] > n
       => Len(m) = CompactMaxDeadEnds /\ \A k \in DOMAIN m : m[k] > n

LEMMA CompactMergedLists ==
  ASSUME NEW old \in Seq(Compact!Turn), NEW new \in Seq(Compact!Turn), Compact!Ascending(old), Compact!Ascending(new),
         Len(old) <= CompactMaxDeadEnds,
         \A i \in DOMAIN old, j \in DOMAIN new : old[i] < new[j],
         NEW m, m = Compact!LastOf(old \o new, CompactMaxDeadEnds)
  PROVE  CompactMerges(m, old, new)
<1> DEFINE c == old \o new
           a == Len(old)
           b == Len(new)
<1>1. /\ c \in Seq(Compact!Turn) /\ Len(c) = a + b /\ a \in Nat /\ b \in Nat
      /\ \A i \in 1 .. a : c[i] = old[i]
      /\ \A i \in 1 .. b : c[i + a] = new[i]
  BY CompactJoinedLists
<1>2. /\ DOMAIN old = 1 .. a /\ DOMAIN new = 1 .. b /\ DOMAIN c = 1 .. a + b
      /\ \A i \in 1 .. a : old[i] \in Nat
      /\ \A i \in 1 .. b : new[i] \in Nat
  <2>1. DOMAIN c = 1 .. Len(c)
    BY <1>1
  <2>2. Compact!Turn \subseteq Nat
    BY DEF Compact!Turn
  <2>3. \A i \in 1 .. Len(old) : old[i] \in Compact!Turn
    OBVIOUS
  <2>4. \A i \in 1 .. Len(new) : new[i] \in Compact!Turn
    OBVIOUS
  <2>5. DOMAIN old = 1 .. Len(old) /\ DOMAIN new = 1 .. Len(new)
    OBVIOUS
  <2>6. DOMAIN c = 1 .. a + b
    BY <1>1, <2>1
  <2> QED BY Zenon, <2>2, <2>3, <2>4, <2>5, <2>6
<1>3. m = Compact!LastOf(c, CompactMaxDeadEnds) /\ CompactMaxDeadEnds \in Nat \ {0} /\ a <= CompactMaxDeadEnds
  BY CompactionAssumption
<1>4. /\ \A i, j \in 1 .. a : i < j => old[i] < old[j]
      /\ \A i, j \in 1 .. b : i < j => new[i] < new[j]
      /\ \A i \in 1 .. a, j \in 1 .. b : old[i] < new[j]
  BY <1>2 DEF Compact!Ascending
<1> HIDE DEF c, a, b
<1>5. Compact!Ascending(c)
  <2> SUFFICES ASSUME NEW i \in 1 .. a + b, NEW j \in 1 .. a + b, i < j PROVE c[i] < c[j]
    BY <1>2 DEF Compact!Ascending
  <2>1. CASE j <= a
    <3>1. i \in 1 .. a /\ j \in 1 .. a
      BY <1>1, <2>1
    <3> QED BY <1>1, <1>4, <3>1
  <2>2. CASE i <= a /\ ~(j <= a)
    <3>1. i \in 1 .. a /\ j - a \in 1 .. b /\ (j - a) + a = j
      BY <1>1, <2>2
    <3>2. c[i] = old[i] /\ c[j] = new[j - a]
      BY <1>1, <3>1
    <3> QED BY <1>4, <3>1, <3>2
  <2>3. CASE ~(i <= a)
    <3>1. i - a \in 1 .. b /\ (i - a) + a = i /\ j - a \in 1 .. b /\ (j - a) + a = j /\ i - a < j - a
      BY <1>1, <2>3
    <3>2. c[i] = new[i - a] /\ c[j] = new[j - a]
      BY <1>1, <3>1
    <3> QED BY <1>4, <3>1, <3>2
  <2> QED BY <1>1, <2>1, <2>2, <2>3
<1>6. CompactEnds(m, c, CompactMaxDeadEnds)
  BY <1>1, <1>3, <1>5, CompactLastOfEnds
<1>7. ASSUME NEW j \in 1 .. a + b
      PROVE  (\E i \in 1 .. a : c[j] = old[i]) \/ (\E i \in 1 .. b : c[j] = new[i])
  <2>1. CASE j <= a
    <3>1. j \in 1 .. a /\ c[j] = old[j]
      BY <1>1, <2>1
    <3> QED BY <3>1
  <2>2. CASE ~(j <= a)
    <3>1. j - a \in 1 .. b /\ (j - a) + a = j
      BY <1>1, <2>2
    <3>2. c[j] = new[j - a]
      BY <1>1, <3>1
    <3> QED BY <3>1, <3>2
  <2> QED BY <2>1, <2>2
<1>8. \A k \in DOMAIN m : (\E j \in 1 .. a : m[k] = old[j]) \/ (\E j \in 1 .. b : m[k] = new[j])
  <2> TAKE k \in DOMAIN m
  <2>1. PICK j \in 1 .. a + b : m[k] = c[j]
    BY <1>2, <1>6 DEF CompactEnds
  <2>2. (\E i \in 1 .. a : c[j] = old[i]) \/ (\E i \in 1 .. b : c[j] = new[i])
    BY <1>7
  <2> QED BY Zenon, <2>1, <2>2
<1>9. ASSUME NEW j \in 1 .. a + b
      PROVE  \/ \E k \in DOMAIN m : m[k] = c[j]
             \/ Len(m) = CompactMaxDeadEnds /\ \A k \in DOMAIN m : m[k] > c[j]
  BY <1>2, <1>6 DEF CompactEnds
<1>10. \A j \in 1 .. a : \/ \E k \in DOMAIN m : m[k] = old[j]
                         \/ Len(m) = CompactMaxDeadEnds /\ \A k \in DOMAIN m : m[k] > old[j]
  <2> TAKE j \in 1 .. a
  <2>1. j \in 1 .. a + b /\ c[j] = old[j]
    BY <1>1
  <2> QED BY Zenon, <1>9, <2>1
<1>11. \A j \in 1 .. b : \/ \E k \in DOMAIN m : m[k] = new[j]
                         \/ Len(m) = CompactMaxDeadEnds /\ \A k \in DOMAIN m : m[k] > new[j]
  <2> TAKE j \in 1 .. b
  <2>1. j + a \in 1 .. a + b /\ c[j + a] = new[j]
    BY <1>1
  <2> QED BY Zenon, <1>9, <2>1
<1>12. ASSUME NEW n \in Nat, a = CompactMaxDeadEnds, \A j \in 1 .. a : old[j] > n
       PROVE  Len(m) = CompactMaxDeadEnds /\ \A k \in DOMAIN m : m[k] > n
  <2>1. Len(m) = CompactMaxDeadEnds
    BY <1>1, <1>3, <1>6, <1>12 DEF CompactEnds
  <2>2. 1 \in 1 .. a
    BY <1>1, <1>3, <1>12
  <2>3. \A j \in 1 .. b : new[j] > n
    BY <1>2, <1>4, <1>12, <2>2
  <2>4. \A k \in DOMAIN m : m[k] > n
    BY <1>8, <1>12, <2>3
  <2> QED BY <2>1, <2>4
<1>13. ASSUME NEW n \in Nat, b = CompactMaxDeadEnds, \A j \in 1 .. b : new[j] > n
       PROVE  Len(m) = CompactMaxDeadEnds /\ \A k \in DOMAIN m : m[k] > n
  <2>1. Len(m) = CompactMaxDeadEnds
    BY <1>1, <1>3, <1>6, <1>13 DEF CompactEnds
  <2>2. /\ DOMAIN m = 1 .. Len(m)
        /\ \A k \in 1 .. Len(m) : m[k] = c[k + (Len(c) - Len(m))]
    <3>1. CompactLastAt(m, c, CompactMaxDeadEnds, Len(c), Len(m))
      BY <1>1, <1>3, CompactLastOfIs
    <3> QED BY Zenon, <3>1 DEF CompactLastAt
  <2>3. Len(c) - Len(m) = a
    BY <1>1, <1>13, <2>1
  <2>4. \A k \in 1 .. b : m[k] = new[k]
    BY <1>1, <1>13, <2>1, <2>2, <2>3
  <2> QED BY <1>13, <2>1, <2>2, <2>4
<1>14. m \in Seq(Compact!Turn) /\ Len(m) <= CompactMaxDeadEnds /\ Compact!Ascending(m)
  BY <1>6 DEF CompactEnds
<1>15. DOMAIN old = 1 .. a /\ DOMAIN new = 1 .. b /\ Len(old) = a /\ Len(new) = b
  BY <1>2 DEF a, b
<1> QED BY Zenon, <1>8, <1>10, <1>11, <1>12, <1>13, <1>14, <1>15 DEF CompactMerges

(* The lines of a reply, turn by turn.                                         *)
CompactLinesFrom(S, l, n) == IF n \in S THEN Append(l, n) ELSE l
CompactLinesBy(S, n, f) == f = [k \in 0 .. n |-> IF k = 0 THEN <<>> ELSE CompactLinesFrom(S, f[k - 1], k)]

LEMMA CompactHasLines == ASSUME NEW S, NEW top \in Nat PROVE \E f : CompactLinesBy(S, top, f)
<1> DEFINE D == {n \in 0 .. top : ~ \E f : CompactLinesBy(S, n, f)}
<1>1. D \in SUBSET Nat
  OBVIOUS
<1>2. D = {}
  <2> SUFFICES ASSUME D # {} PROVE FALSE
    OBVIOUS
  <2>1. PICK d \in D : \A e \in D : d <= e
    <3> HIDE DEF D
    <3> QED BY <1>1, HasLowest
  <2>2. d \in 0 .. top /\ ~ \E f : CompactLinesBy(S, d, f)
    BY <2>1
  <2>3. CASE d = 0
    <3> DEFINE f == [k \in 0 .. 0 |-> <<>>]
    <3>1. \A k \in 0 .. 0 : k = 0
      OBVIOUS
    <3>2. f = [k \in 0 .. 0 |-> IF k = 0 THEN <<>> ELSE CompactLinesFrom(S, f[k - 1], k)]
      BY Zenon, <3>1
    <3> QED BY Zenon, <2>2, <2>3, <3>2 DEF CompactLinesBy
  <2>4. CASE d # 0
    <3> DEFINE n == d - 1
    <3>1. n \in Nat /\ n \in 0 .. top /\ ~(d <= n) /\ n + 1 = d
      BY <2>2, <2>4
    <3>2. PICK f : CompactLinesBy(S, n, f)
      BY <2>1, <3>1
    <3> HIDE DEF n
    <3> DEFINE g == [k \in 0 .. d |-> IF k = d THEN CompactLinesFrom(S, f[n], d) ELSE f[k]]
    <3>3. \A k \in 0 .. n : f[k] = IF k = 0 THEN <<>> ELSE CompactLinesFrom(S, f[k - 1], k)
      BY Zenon, <3>2 DEF CompactLinesBy
    <3>4. ASSUME NEW k \in 0 .. d PROVE g[k] = IF k = 0 THEN <<>> ELSE CompactLinesFrom(S, g[k - 1], k)
      <4>1. CASE k = d
        <5>1. k - 1 = n /\ n \in 0 .. d /\ n # d /\ k # 0
          BY <2>2, <2>4, <3>1, <4>1
        <5>2. g[n] = f[n] /\ g[k] = CompactLinesFrom(S, f[n], d)
          BY Zenon, <4>1, <5>1
        <5> HIDE DEF g
        <5> QED BY Zenon, <4>1, <5>1, <5>2
      <4>2. CASE k # d /\ k = 0
        <5>1. 0 \in 0 .. n
          BY <3>1
        <5> QED BY Zenon, <3>3, <4>2, <5>1
      <4>3. CASE k # d /\ k # 0
        <5>1. k \in 0 .. n /\ k - 1 \in 0 .. d /\ k - 1 # d
          BY <2>2, <3>1, <4>3
        <5>2. g[k] = f[k] /\ g[k - 1] = f[k - 1]
          BY Zenon, <4>3, <5>1
        <5>3. f[k] = CompactLinesFrom(S, f[k - 1], k)
          BY Zenon, <3>3, <4>3, <5>1
        <5> HIDE DEF g
        <5> QED BY Zenon, <4>3, <5>2, <5>3
      <4> QED BY Zenon, <4>1, <4>2, <4>3
    <3>5. DOMAIN g = 0 .. d /\ g = [k \in 0 .. d |-> g[k]]
      OBVIOUS
    <3> HIDE DEF g
    <3>6. g = [k \in 0 .. d |-> IF k = 0 THEN <<>> ELSE CompactLinesFrom(S, g[k - 1], k)]
      BY Zenon, <3>4, <3>5
    <3> QED BY Zenon, <2>2, <3>6 DEF CompactLinesBy
  <2> QED BY <2>3, <2>4
<1>3. top \in 0 .. top
  OBVIOUS
<1> QED BY Zenon, <1>2, <1>3

LEMMA CompactIsLines == ASSUME NEW S, NEW f, CompactLinesBy(S, CompactMaxTurns, f)
                 PROVE  \E g : CompactLinesBy(S, CompactMaxTurns, g) /\ Compact!Lines(S) = g[CompactMaxTurns]
BY Zenon DEF Compact!Lines, CompactLinesBy, CompactLinesFrom

(* They are the failed turns in their order.                                   *)
CompactUpto(l, S, n) ==
  /\ l \in Seq(Compact!Turn) /\ Compact!Ascending(l)
  /\ \A j \in DOMAIN l : l[j] \in S /\ l[j] <= n
  /\ \A m \in S : m <= n => \E j \in DOMAIN l : l[j] = m

LEMMA CompactLinesGrow ==
  ASSUME NEW S \in SUBSET Compact!Turn, NEW n \in Compact!Turn, NEW l, CompactUpto(l, S, n - 1)
  PROVE  CompactUpto(CompactLinesFrom(S, l, n), S, n)
<1>1. n \in Nat /\ CompactMaxTurns \in Nat /\ \A m \in S : m \in Nat
  BY CompactionAssumption DEF Compact!Turn
<1>2. l \in Seq(Compact!Turn) /\ DOMAIN l = 1 .. Len(l) /\ Len(l) \in Nat
  BY DEF CompactUpto
<1>3. \A j \in 1 .. Len(l) : l[j] \in S /\ l[j] <= n /\ l[j] < n
  <2> TAKE j \in 1 .. Len(l)
  <2>1. l[j] \in S /\ l[j] <= n - 1
    BY <1>2 DEF CompactUpto
  <2>2. l[j] \in Nat
    BY <1>1, <2>1
  <2> DEFINE x == l[j]
  <2>3. x \in Nat /\ x <= n - 1
    BY <2>1, <2>2
  <2> HIDE DEF x
  <2>4. x <= n /\ x < n
    BY <1>1, <2>3
  <2> QED BY <2>1, <2>4 DEF x
<1>4. \A m \in S : m <= n - 1 => \E j \in 1 .. Len(l) : l[j] = m
  BY <1>2 DEF CompactUpto
<1>5. \A i, j \in 1 .. Len(l) : i < j => l[i] < l[j]
  BY <1>2 DEF CompactUpto, Compact!Ascending
<1>6. CASE n \in S
  <2> DEFINE a == Append(l, n)
  <2>1. /\ a \in Seq(Compact!Turn) /\ Len(a) = Len(l) + 1 /\ a[Len(l) + 1] = n
        /\ \A j \in 1 .. Len(l) : a[j] = l[j]
    BY <1>2
  <2>2. DOMAIN a = 1 .. Len(l) + 1
    BY <2>1
  <2> HIDE DEF a
  <2>3. \A j \in 1 .. Len(l) + 1 : a[j] \in S /\ a[j] <= n
    <3> TAKE j \in 1 .. Len(l) + 1
    <3>1. CASE j \in 1 .. Len(l)
      BY <1>3, <2>1, <3>1
    <3>2. CASE j = Len(l) + 1
      <4>1. n <= n
        BY <1>1
      <4> QED BY <1>6, <2>1, <3>2, <4>1
    <3> QED BY <1>2, <3>1, <3>2
  <2>4. Compact!Ascending(a)
    <3> SUFFICES ASSUME NEW i \in 1 .. Len(l) + 1, NEW j \in 1 .. Len(l) + 1, i < j PROVE a[i] < a[j]
      BY <2>2 DEF Compact!Ascending
    <3>1. i \in 1 .. Len(l) /\ a[i] = l[i]
      BY <1>2, <2>1
    <3>2. CASE j = Len(l) + 1
      <4>1. a[j] = n /\ l[i] < n
        BY <1>3, <2>1, <3>1, <3>2
      <4> QED BY <3>1, <4>1
    <3>3. CASE j # Len(l) + 1
      <4>1. j \in 1 .. Len(l) /\ a[j] = l[j]
        BY <1>2, <2>1, <3>3
      <4> QED BY <1>5, <3>1, <4>1
    <3> QED BY <3>2, <3>3
  <2>5. ASSUME NEW m \in S, m <= n PROVE \E j \in 1 .. Len(l) + 1 : a[j] = m
    <3>1. CASE m = n
      <4>1. Len(l) + 1 \in 1 .. Len(l) + 1
        BY <1>2
      <4> QED BY <2>1, <3>1, <4>1
    <3>2. CASE m # n
      <4>1. m <= n - 1
        BY <1>1, <2>5, <3>2
      <4>2. PICK j \in 1 .. Len(l) : l[j] = m
        BY <1>4, <4>1
      <4>3. j \in 1 .. Len(l) + 1
        BY <1>2
      <4> QED BY <2>1, <4>2, <4>3
    <3> QED BY <3>1, <3>2
  <2>6. CompactLinesFrom(S, l, n) = a
    BY <1>6 DEF CompactLinesFrom, a
  <2> QED BY Zenon, <2>1, <2>2, <2>3, <2>4, <2>5, <2>6 DEF CompactUpto
<1>7. CASE n \notin S
  <2>1. CompactLinesFrom(S, l, n) = l
    BY <1>7 DEF CompactLinesFrom
  <2>2. \A j \in 1 .. Len(l) : l[j] \in S /\ l[j] <= n
    BY <1>3
  <2>3. \A m \in S : m <= n => m <= n - 1
    BY <1>1, <1>7
  <2>4. \A m \in S : m <= n => \E j \in 1 .. Len(l) : l[j] = m
    BY Zenon, <1>4, <2>3
  <2>5. l \in Seq(Compact!Turn) /\ Compact!Ascending(l)
    BY DEF CompactUpto
  <2> QED BY Zenon, <1>2, <2>1, <2>2, <2>4, <2>5 DEF CompactUpto
<1> QED BY <1>6, <1>7

LEMMA CompactLinesAre ==
  ASSUME NEW S \in SUBSET Compact!Turn
  PROVE  /\ Compact!Lines(S) \in Seq(Compact!Turn) /\ Compact!Ascending(Compact!Lines(S))
         /\ \A j \in DOMAIN Compact!Lines(S) : Compact!Lines(S)[j] \in S
         /\ \A m \in S : \E j \in DOMAIN Compact!Lines(S) : Compact!Lines(S)[j] = m
<1>0. CompactMaxTurns \in Nat /\ Compact!Turn = 1 .. CompactMaxTurns
  BY CompactionAssumption DEF Compact!Turn
<1>1. PICK g : CompactLinesBy(S, CompactMaxTurns, g) /\ Compact!Lines(S) = g[CompactMaxTurns]
  <2>1. PICK f : CompactLinesBy(S, CompactMaxTurns, f)
    BY <1>0, CompactHasLines
  <2> QED BY <2>1, CompactIsLines
<1>2. \A k \in 0 .. CompactMaxTurns : g[k] = IF k = 0 THEN <<>> ELSE CompactLinesFrom(S, g[k - 1], k)
  BY Zenon, <1>1 DEF CompactLinesBy
<1> DEFINE D == {n \in 0 .. CompactMaxTurns : ~CompactUpto(g[n], S, n)}
<1>3. D \in SUBSET Nat
  OBVIOUS
<1>4. D = {}
  <2> SUFFICES ASSUME D # {} PROVE FALSE
    OBVIOUS
  <2>1. PICK d \in D : \A e \in D : d <= e
    <3> HIDE DEF D
    <3> QED BY <1>3, HasLowest
  <2>2. d \in 0 .. CompactMaxTurns /\ ~CompactUpto(g[d], S, d)
    BY <2>1
  <2>3. CASE d = 0
    <3>1. g[0] = <<>>
      BY Zenon, <1>2, <2>2, <2>3
    <3>2. \A m \in S : ~(m <= 0)
      BY <1>0
    <3>3. CompactUpto(<<>>, S, 0)
      BY <3>2 DEF CompactUpto, Compact!Ascending
    <3> QED BY <2>2, <2>3, <3>1, <3>3
  <2>4. CASE d # 0
    <3>1. d - 1 \in 0 .. CompactMaxTurns /\ ~(d <= d - 1) /\ d \in Compact!Turn
      BY <1>0, <2>2, <2>4
    <3>2. CompactUpto(g[d - 1], S, d - 1)
      BY <2>1, <3>1
    <3>3. CompactUpto(CompactLinesFrom(S, g[d - 1], d), S, d)
      BY <3>1, <3>2, CompactLinesGrow
    <3>4. g[d] = CompactLinesFrom(S, g[d - 1], d)
      BY Zenon, <1>2, <2>2, <2>4
    <3> QED BY Zenon, <2>2, <3>3, <3>4
  <2> QED BY <2>3, <2>4
<1>5. CompactMaxTurns \in 0 .. CompactMaxTurns
  BY <1>0
<1>6. CompactUpto(Compact!Lines(S), S, CompactMaxTurns)
  BY Zenon, <1>1, <1>4, <1>5
<1>7. \A m \in S : m <= CompactMaxTurns
  BY <1>0
<1> QED BY Zenon, <1>6, <1>7 DEF CompactUpto

(* Whatever the blocks are that are merged, the result is one.                  *)
LEMMA CompactMergeIs ==
  ASSUME NEW old \in Seq(Compact!Turn), NEW more \in Seq(Compact!Turn), NEW d, d = Compact!Merge(old, more)
  PROVE  d \in Compact!MessageType /\ d.kind = "dead"
<1> DEFINE l == old \o more
           m == Compact!LastOf(l, CompactMaxDeadEnds)
<1>1. l \in Seq(Compact!Turn) /\ CompactMaxDeadEnds \in Nat /\ d = Compact!DeadEndsMessage(m) /\ 0 \in 0 .. CompactMaxTurns
  BY CompactionAssumption DEF Compact!Merge
<1> HIDE DEF l
<1>2. m \in Seq(Compact!Turn)
  <2>1. CompactLastAt(m, l, CompactMaxDeadEnds, Len(l), Len(m))
    BY <1>1, CompactLastOfIs
  <2> HIDE DEF m
  <2> QED BY Zenon, <2>1 DEF CompactLastAt
<1> HIDE DEF m
<1>3. {m[i] : i \in DOMAIN m} \in SUBSET Compact!Turn
  <2>1. \A i \in DOMAIN m : m[i] \in Compact!Turn
    BY <1>2
  <2> QED BY <2>1
<1> QED BY <1>1, <1>2, <1>3 DEF Compact!DeadEndsMessage, Compact!Message, Compact!MessageType

(* What a full compaction keeps of its region: the block of dead ends, if any.  *)
CompactKeptFrom(region, v, k) ==
  IF region[k].kind # "dead" THEN v
  ELSE IF v = <<>> THEN <<region[k]>> ELSE <<Compact!Merge(v[1].lines, region[k].lines)>>
CompactKeptBy(region, n, f) == f = [k \in 0 .. n |-> IF k = 0 THEN <<>> ELSE CompactKeptFrom(region, f[k - 1], k)]

LEMMA CompactHasKept == ASSUME NEW region, NEW top \in Nat PROVE \E f : CompactKeptBy(region, top, f)
<1> DEFINE D == {n \in 0 .. top : ~ \E f : CompactKeptBy(region, n, f)}
<1>1. D \in SUBSET Nat
  OBVIOUS
<1>2. D = {}
  <2> SUFFICES ASSUME D # {} PROVE FALSE
    OBVIOUS
  <2>1. PICK d \in D : \A e \in D : d <= e
    <3> HIDE DEF D
    <3> QED BY <1>1, HasLowest
  <2>2. d \in 0 .. top /\ ~ \E f : CompactKeptBy(region, d, f)
    BY <2>1
  <2>3. CASE d = 0
    <3> DEFINE f == [k \in 0 .. 0 |-> <<>>]
    <3>1. \A k \in 0 .. 0 : k = 0
      OBVIOUS
    <3>2. f = [k \in 0 .. 0 |-> IF k = 0 THEN <<>> ELSE CompactKeptFrom(region, f[k - 1], k)]
      BY Zenon, <3>1
    <3> QED BY Zenon, <2>2, <2>3, <3>2 DEF CompactKeptBy
  <2>4. CASE d # 0
    <3> DEFINE n == d - 1
    <3>1. n \in Nat /\ n \in 0 .. top /\ ~(d <= n) /\ n + 1 = d
      BY <2>2, <2>4
    <3>2. PICK f : CompactKeptBy(region, n, f)
      BY <2>1, <3>1
    <3> HIDE DEF n
    <3> DEFINE g == [k \in 0 .. d |-> IF k = d THEN CompactKeptFrom(region, f[n], d) ELSE f[k]]
    <3>3. \A k \in 0 .. n : f[k] = IF k = 0 THEN <<>> ELSE CompactKeptFrom(region, f[k - 1], k)
      BY Zenon, <3>2 DEF CompactKeptBy
    <3>4. ASSUME NEW k \in 0 .. d PROVE g[k] = IF k = 0 THEN <<>> ELSE CompactKeptFrom(region, g[k - 1], k)
      <4>1. CASE k = d
        <5>1. k - 1 = n /\ n \in 0 .. d /\ n # d /\ k # 0
          BY <2>2, <2>4, <3>1, <4>1
        <5>2. g[n] = f[n] /\ g[k] = CompactKeptFrom(region, f[n], d)
          BY Zenon, <4>1, <5>1
        <5> HIDE DEF g
        <5> QED BY Zenon, <4>1, <5>1, <5>2
      <4>2. CASE k # d /\ k = 0
        <5>1. 0 \in 0 .. n
          BY <3>1
        <5> QED BY Zenon, <3>3, <4>2, <5>1
      <4>3. CASE k # d /\ k # 0
        <5>1. k \in 0 .. n /\ k - 1 \in 0 .. d /\ k - 1 # d
          BY <2>2, <3>1, <4>3
        <5>2. g[k] = f[k] /\ g[k - 1] = f[k - 1]
          BY Zenon, <4>3, <5>1
        <5>3. f[k] = CompactKeptFrom(region, f[k - 1], k)
          BY Zenon, <3>3, <4>3, <5>1
        <5> HIDE DEF g
        <5> QED BY Zenon, <4>3, <5>2, <5>3
      <4> QED BY Zenon, <4>1, <4>2, <4>3
    <3>5. DOMAIN g = 0 .. d /\ g = [k \in 0 .. d |-> g[k]]
      OBVIOUS
    <3> HIDE DEF g
    <3>6. g = [k \in 0 .. d |-> IF k = 0 THEN <<>> ELSE CompactKeptFrom(region, g[k - 1], k)]
      BY Zenon, <3>4, <3>5
    <3> QED BY Zenon, <2>2, <3>6 DEF CompactKeptBy
  <2> QED BY <2>3, <2>4
<1>3. top \in 0 .. top
  OBVIOUS
<1> QED BY Zenon, <1>2, <1>3

LEMMA CompactIsKept == ASSUME NEW region, NEW f, CompactKeptBy(region, Len(region), f)
                PROVE  \E g : CompactKeptBy(region, Len(region), g) /\ Compact!Preserved(region) = g[Len(region)]
BY Zenon DEF Compact!Preserved, CompactKeptBy, CompactKeptFrom

CompactKeptIs(region, v, n) ==
  /\ (\A j \in 1 .. n : region[j].kind # "dead") => v = <<>>
  /\ \A j \in 1 .. n : region[j].kind = "dead" => v = <<region[j]>>

LEMMA CompactKeptGrows ==
  ASSUME NEW region, NEW n \in Nat \ {0}, NEW v, CompactKeptIs(region, v, n - 1),
         \A i, j \in 1 .. n : region[i].kind = "dead" /\ region[j].kind = "dead" => i = j
  PROVE  CompactKeptIs(region, CompactKeptFrom(region, v, n), n)
<1>1. n \in 1 .. n /\ n \notin 1 .. n - 1 /\ 1 .. n = (1 .. n - 1) \cup {n}
  OBVIOUS
<1>2. CASE region[n].kind # "dead"
  <2>1. CompactKeptFrom(region, v, n) = v
    BY <1>2 DEF CompactKeptFrom
  <2> QED BY Zenon, <1>1, <1>2, <2>1 DEF CompactKeptIs
<1>3. CASE region[n].kind = "dead"
  <2>1. \A j \in 1 .. n - 1 : region[j].kind # "dead"
    BY <1>1, <1>3
  <2>2. v = <<>>
    BY <2>1 DEF CompactKeptIs
  <2>3. CompactKeptFrom(region, v, n) = <<region[n]>>
    BY <1>3, <2>2 DEF CompactKeptFrom
  <2> QED BY Zenon, <1>1, <1>3, <2>1, <2>3 DEF CompactKeptIs
<1> QED BY <1>2, <1>3

LEMMA CompactPreservedIs ==
  ASSUME NEW region, Len(region) \in Nat,
         \A i, j \in 1 .. Len(region) : region[i].kind = "dead" /\ region[j].kind = "dead" => i = j
  PROVE  CompactKeptIs(region, Compact!Preserved(region), Len(region))
<1> DEFINE top == Len(region)
<1>1. PICK g : CompactKeptBy(region, top, g) /\ Compact!Preserved(region) = g[top]
  <2>1. PICK f : CompactKeptBy(region, Len(region), f)
    BY CompactHasKept
  <2> QED BY <2>1, CompactIsKept
<1>0. top \in Nat /\ \A i, j \in 1 .. top : region[i].kind = "dead" /\ region[j].kind = "dead" => i = j
  OBVIOUS
<1> HIDE DEF top
<1>2. \A k \in 0 .. top : g[k] = IF k = 0 THEN <<>> ELSE CompactKeptFrom(region, g[k - 1], k)
  BY Zenon, <1>1 DEF CompactKeptBy
<1> DEFINE D == {n \in 0 .. top : ~CompactKeptIs(region, g[n], n)}
<1>3. D \in SUBSET Nat
  OBVIOUS
<1>4. D = {}
  <2> SUFFICES ASSUME D # {} PROVE FALSE
    OBVIOUS
  <2>1. PICK d \in D : \A e \in D : d <= e
    <3> HIDE DEF D
    <3> QED BY <1>3, HasLowest
  <2>2. d \in 0 .. top /\ ~CompactKeptIs(region, g[d], d)
    BY <2>1
  <2>3. CASE d = 0
    <3>1. g[0] = <<>>
      BY Zenon, <1>2, <2>2, <2>3
    <3>2. CompactKeptIs(region, <<>>, 0)
      BY DEF CompactKeptIs
    <3> QED BY <2>2, <2>3, <3>1, <3>2
  <2>4. CASE d # 0
    <3>1. d - 1 \in 0 .. top /\ ~(d <= d - 1) /\ d \in Nat \ {0} /\ \A i \in 1 .. d : i \in 1 .. top
      BY <1>0, <2>2, <2>4
    <3>2. CompactKeptIs(region, g[d - 1], d - 1)
      BY <2>1, <3>1
    <3>3. \A i, j \in 1 .. d : region[i].kind = "dead" /\ region[j].kind = "dead" => i = j
      BY Zenon, <1>0, <3>1
    <3>4. CompactKeptIs(region, CompactKeptFrom(region, g[d - 1], d), d)
      BY <3>1, <3>2, <3>3, CompactKeptGrows
    <3>5. g[d] = CompactKeptFrom(region, g[d - 1], d)
      BY Zenon, <1>2, <2>2, <2>4
    <3> QED BY Zenon, <2>2, <3>4, <3>5
  <2> QED BY <2>3, <2>4
<1>5. top \in 0 .. top
  BY <1>0
<1>6. CompactKeptIs(region, Compact!Preserved(region), top)
  BY Zenon, <1>1, <1>4, <1>5
<1> QED BY <1>6 DEF top

(* With several blocks it keeps one message of them.                           *)
CompactOneBlock(v) == v = <<>> \/ \E d \in Compact!MessageType : d.kind = "dead" /\ v = <<d>>

LEMMA CompactBlockGrows ==
  ASSUME NEW region \in Seq(Compact!MessageType), NEW k \in DOMAIN region, NEW v, CompactOneBlock(v)
  PROVE  CompactOneBlock(CompactKeptFrom(region, v, k))
<1> DEFINE m == region[k]
<1>1. m \in Compact!MessageType
  OBVIOUS
<1>2. CompactKeptFrom(region, v, k) = IF m.kind # "dead" THEN v
                               ELSE IF v = <<>> THEN <<m>> ELSE <<Compact!Merge(v[1].lines, m.lines)>>
  BY Zenon DEF CompactKeptFrom
<1> HIDE DEF m
<1>3. CASE m.kind # "dead"
  BY Zenon, <1>2, <1>3
<1>4. CASE m.kind = "dead" /\ v = <<>>
  BY Zenon, <1>1, <1>2, <1>4 DEF CompactOneBlock
<1>5. CASE m.kind = "dead" /\ v # <<>>
  <2>1. PICK d \in Compact!MessageType : d.kind = "dead" /\ v = <<d>>
    BY Zenon, <1>5 DEF CompactOneBlock
  <2>2. v[1] = d
    BY <2>1
  <2>3. d.lines \in Seq(Compact!Turn) /\ m.lines \in Seq(Compact!Turn)
    BY <1>1 DEF Compact!MessageType
  <2> DEFINE e == Compact!Merge(d.lines, m.lines)
  <2>4. e \in Compact!MessageType /\ e.kind = "dead"
    BY <2>3, CompactMergeIs
  <2>5. CompactKeptFrom(region, v, k) = <<e>>
    BY Zenon, <1>2, <1>5, <2>2
  <2> HIDE DEF e
  <2> QED BY Zenon, <2>4, <2>5 DEF CompactOneBlock
<1> QED BY <1>3, <1>4, <1>5

LEMMA CompactPreservedBlock ==
  ASSUME NEW region \in Seq(Compact!MessageType)
  PROVE  CompactOneBlock(Compact!Preserved(region))
<1> DEFINE top == Len(region)
<1>1. PICK g : CompactKeptBy(region, top, g) /\ Compact!Preserved(region) = g[top]
  <2>1. Len(region) \in Nat
    OBVIOUS
  <2>2. PICK f : CompactKeptBy(region, Len(region), f)
    BY <2>1, CompactHasKept
  <2> QED BY <2>2, CompactIsKept
<1>0. top \in Nat /\ DOMAIN region = 1 .. top
  OBVIOUS
<1> HIDE DEF top
<1>2. \A k \in 0 .. top : g[k] = IF k = 0 THEN <<>> ELSE CompactKeptFrom(region, g[k - 1], k)
  BY Zenon, <1>1 DEF CompactKeptBy
<1> DEFINE D == {n \in 0 .. top : ~CompactOneBlock(g[n])}
<1>3. D \in SUBSET Nat
  OBVIOUS
<1>4. D = {}
  <2> SUFFICES ASSUME D # {} PROVE FALSE
    OBVIOUS
  <2>1. PICK d \in D : \A e \in D : d <= e
    <3> HIDE DEF D
    <3> QED BY <1>3, HasLowest
  <2>2. d \in 0 .. top /\ ~CompactOneBlock(g[d])
    BY <2>1
  <2>3. CASE d = 0
    <3>1. g[0] = <<>>
      BY Zenon, <1>2, <2>2, <2>3
    <3> QED BY Zenon, <2>2, <2>3, <3>1 DEF CompactOneBlock
  <2>4. CASE d # 0
    <3>1. d - 1 \in 0 .. top /\ ~(d <= d - 1) /\ d \in DOMAIN region
      BY <1>0, <2>2, <2>4
    <3>2. CompactOneBlock(g[d - 1])
      BY <2>1, <3>1
    <3>3. CompactOneBlock(CompactKeptFrom(region, g[d - 1], d))
      BY <3>1, <3>2, CompactBlockGrows
    <3>4. g[d] = CompactKeptFrom(region, g[d - 1], d)
      BY Zenon, <1>2, <2>2, <2>4
    <3> QED BY Zenon, <2>2, <3>3, <3>4
  <2> QED BY <2>3, <2>4
<1>5. top \in 0 .. top
  BY <1>0
<1> QED BY Zenon, <1>1, <1>4, <1>5

(* The pairs of a conversation are its uses and results.                       *)
LEMMA CompactPairsAre ==
  ASSUME NEW s, Compact!Shaped(s)
  PROVE  /\ Compact!ToolPairs(s) \subseteq Nat /\ IsFiniteSet(Compact!ToolPairs(s))
         /\ \A i \in Compact!ToolPairs(s) : i \in 1 .. Len(s) /\ i + 1 \in 1 .. Len(s)
                                    /\ s[i].kind = "use" /\ s[i + 1].kind = "result" /\ s[i + 1].turn = s[i].turn
         /\ \A j \in 1 .. Len(s) : s[j].kind = "result" => j - 1 \in Compact!ToolPairs(s)
<1>1. s \in Seq(Compact!MessageType) /\ Len(s) \in Nat /\ DOMAIN s = 1 .. Len(s)
  BY DEF Compact!Shaped
<1>2. \A i \in Compact!ToolPairs(s) : i \in 1 .. Len(s) /\ i + 1 \in 1 .. Len(s) /\ s[i].kind = "use" /\ s[i + 1].kind = "result"
  BY <1>1 DEF Compact!ToolPairs, Compact!IsPair
<1>3. \A i \in Compact!ToolPairs(s) : s[i + 1].turn = s[i].turn
  BY <1>1, <1>2 DEF Compact!Shaped
<1>4. ASSUME NEW j \in 1 .. Len(s), s[j].kind = "result" PROVE j - 1 \in Compact!ToolPairs(s)
  <2>1. j > 1 /\ s[j - 1].kind = "use"
    BY <1>1, <1>4 DEF Compact!Shaped
  <2>2. j - 1 \in 1 .. Len(s) - 1 /\ (j - 1) + 1 = j
    BY <1>1, <2>1
  <2> QED BY <1>4, <2>1, <2>2 DEF Compact!ToolPairs, Compact!IsPair
<1>5. IsFiniteSet(Compact!ToolPairs(s)) /\ Compact!ToolPairs(s) \subseteq Nat
  <2>1. Compact!ToolPairs(s) \subseteq 1 .. Len(s)
    BY <1>2
  <2>2. IsFiniteSet(1 .. Len(s))
    BY <1>1, FS_Interval
  <2> QED BY <2>1, <2>2, FS_Subset
<1> QED BY <1>2, <1>3, <1>4, <1>5

(* Some number of a set with an upper bound is the highest.                    *)
LEMMA CompactHasHighest ==
  ASSUME NEW D \in SUBSET Nat, D # {}, NEW top \in Nat, \A d \in D : d <= top
  PROVE  \E d \in D : \A e \in D : e <= d
<1> DEFINE U == {n \in Nat : \A d \in D : d <= n}
<1>1. U # {} /\ U \in SUBSET Nat
  OBVIOUS
<1>2. PICK h \in U : \A e \in U : h <= e
  <2> HIDE DEF U
  <2> QED BY <1>1, HasLowest
<1>3. h \in Nat /\ \A d \in D : d <= h
  OBVIOUS
<1>4. h \in D
  <2> SUFFICES ASSUME h \notin D PROVE FALSE
    OBVIOUS
  <2>1. ASSUME NEW d \in D PROVE d <= h - 1 /\ 1 <= h
    <3>1. d \in Nat /\ d <= h /\ d # h
      BY <1>3
    <3> QED BY <1>3, <3>1
  <2>0. \E d \in D : TRUE
    OBVIOUS
  <2>4. 1 <= h
    BY <2>0, <2>1
  <2>2. h - 1 \in Nat
    BY <1>3, <2>4
  <2>3. h - 1 \in U
    BY <2>1, <2>2
  <2> QED BY <1>2, <1>3, <2>2, <2>3
<1> QED BY <1>3, <1>4

(* The recent ones of some places come after the others, and there is a first.  *)
LEMMA CompactRecentAfter ==
  ASSUME NEW P \in SUBSET Nat, IsFiniteSet(P), NEW n \in Nat, NEW f \in P \ Compact!Recent(P, n), NEW r \in Compact!Recent(P, n)
  PROVE  f < r
<1> SUFFICES ASSUME ~(f < r) PROVE FALSE
  OBVIOUS
<1> DEFINE A == {j \in P : j >= f}
           B == {j \in P : j >= r}
<1>1. f \in Nat /\ r \in P /\ r \in Nat /\ Cardinality(B) <= n /\ ~(Cardinality(A) <= n)
  BY DEF Compact!Recent
<1>2. A \subseteq B
  <2> SUFFICES ASSUME NEW j \in P, j >= f PROVE j >= r
    OBVIOUS
  <2>1. j \in Nat
    OBVIOUS
  <2> QED BY <1>1, <2>1
<1>3. B \subseteq P
  OBVIOUS
<1> HIDE DEF A, B
<1>4. IsFiniteSet(B)
  BY <1>3, FS_Subset
<1>5. Cardinality(A) <= Cardinality(B) /\ IsFiniteSet(A)
  BY <1>2, <1>4, FS_Subset
<1>6. Cardinality(A) \in Nat /\ Cardinality(B) \in Nat
  BY <1>4, <1>5, FS_CardinalityType
<1> QED BY <1>1, <1>5, <1>6

LEMMA CompactRecentFirst ==
  ASSUME NEW P \in SUBSET Nat, IsFiniteSet(P), P # {}, NEW top \in Nat, \A i \in P : i <= top, NEW n \in Nat \ {0}
  PROVE  \E i \in Compact!Recent(P, n) : \A j \in Compact!Recent(P, n) : i <= j
<1>1. PICK h \in P : \A e \in P : e <= h
  BY CompactHasHighest
<1>2. {j \in P : j >= h} = {h}
  <2>1. h \in Nat
    BY <1>1
  <2>2. ASSUME NEW j \in P, j >= h PROVE j = h
    <3>1. j \in Nat /\ j <= h
      BY <1>1
    <3> QED BY <2>1, <2>2, <3>1
  <2>3. h >= h
    BY <2>1
  <2> QED BY <1>1, <2>2, <2>3
<1>3. Cardinality({h}) = 1
  BY FS_Singleton
<1>4. h \in Compact!Recent(P, n)
  BY <1>2, <1>3 DEF Compact!Recent
<1>5. Compact!Recent(P, n) \in SUBSET Nat
  BY DEF Compact!Recent
<1> QED BY <1>4, <1>5, HasLowest

(* The turns of pairs that are not among the last n are at least n turns back.  *)
LEMMA CompactFreshIsOld ==
  ASSUME NEW s, Compact!Shaped(s), NEW now \in Nat,
         \A i \in 1 .. Len(s) : s[i].kind = "result" => s[i].turn \in 1 .. now,
         NEW n \in Nat, NEW f \in Compact!ToolPairs(s) \ Compact!Recent(Compact!ToolPairs(s), n)
  PROVE  s[f + 1].turn + n <= now
<1> DEFINE P == Compact!ToolPairs(s)
           Q == {j \in P : j >= f}
           first == s[f + 1].turn
           I == first .. now
           h == [j \in Q |-> s[j + 1].turn]
<1>1. /\ P \subseteq Nat /\ IsFiniteSet(P) /\ f \in P
      /\ \A i \in P : i + 1 \in 1 .. Len(s) /\ s[i + 1].kind = "result"
  BY CompactPairsAre
<1>2. first \in 1 .. now /\ \A j \in P : s[j + 1].turn \in 1 .. now
  BY <1>1
<1>3. \A i, j \in P : i < j => s[i + 1].turn < s[j + 1].turn
  <2> SUFFICES ASSUME NEW i \in P, NEW j \in P, i < j PROVE s[i + 1].turn < s[j + 1].turn
    OBVIOUS
  <2>1. i + 1 < j + 1 /\ i + 1 \in 1 .. Len(s) /\ j + 1 \in 1 .. Len(s)
    BY <1>1
  <2>2. DOMAIN s = 1 .. Len(s)
    BY DEF Compact!Shaped
  <2> QED BY <1>1, <2>1, <2>2 DEF Compact!Shaped
<1>4. ASSUME NEW j \in Q PROVE s[j + 1].turn \in I
  <2>1. j \in P /\ j \in Nat /\ f \in Nat /\ (j = f \/ f < j)
    BY <1>1
  <2>2. first <= s[j + 1].turn
    <3>1. CASE j = f
      BY <1>2, <3>1
    <3>2. CASE f < j
      BY <1>1, <1>2, <1>3, <2>1, <3>2
    <3> QED BY <2>1, <3>1, <3>2
  <2> QED BY <1>2, <2>1, <2>2
<1>5. h \in [Q -> I]
  BY <1>4
<1>6. \A i, j \in Q : h[i] = h[j] => i = j
  <2> SUFFICES ASSUME NEW i \in Q, NEW j \in Q, i # j PROVE s[i + 1].turn # s[j + 1].turn
    OBVIOUS
  <2>1. i \in P /\ j \in P /\ (i < j \/ j < i) /\ s[i + 1].turn \in Nat /\ s[j + 1].turn \in Nat
    BY <1>1, <1>2
  <2> QED BY <1>3, <2>1
<1>7. IsFiniteSet(I) /\ Cardinality(I) = now - first + 1
  <2>1. first \in Int /\ now \in Int /\ first <= now
    BY <1>2
  <2> HIDE DEF first
  <2> QED BY <2>1, FS_Interval
<1>8. f \in P \ Compact!Recent(P, n) /\ ~(Cardinality(Q) <= n)
  BY DEF Compact!Recent
<1> HIDE DEF P, Q, I, h
<1>9. h \in Injection(Q, I)
  BY <1>5, <1>6 DEF Injection, IsInjective
<1>10. IsFiniteSet(Q) /\ Cardinality(Q) <= Cardinality(I)
  BY <1>7, <1>9, FS_Injection
<1>11. Cardinality(Q) \in Nat
  BY <1>10, FS_CardinalityType
<1> DEFINE c == Cardinality(Q)
<1>12. first \in Nat /\ c \in Nat /\ c <= now - first + 1 /\ ~(c <= n)
  BY <1>2, <1>7, <1>8, <1>10, <1>11
<1> HIDE DEF c, first
<1>13. first + n <= now
  BY <1>12
<1> QED BY <1>13 DEF first

(* Blanking leaves all of a message but what can be read off it.               *)
CompactIsBlanked(u, s, fresh) ==
  /\ u \in Seq(Compact!MessageType) /\ Len(u) = Len(s) /\ DOMAIN u = DOMAIN s
  /\ \A i \in DOMAIN s : /\ u[i].kind = s[i].kind /\ u[i].turn = s[i].turn /\ u[i].lines = s[i].lines
                         /\ u[i].reads = IF i - 1 \in fresh THEN {} ELSE s[i].reads
                         /\ (i - 1 \notin fresh => u[i] = s[i])

LEMMA CompactBlankedIs ==
  ASSUME NEW s \in Seq(Compact!MessageType), NEW fresh, NEW u, u = Compact!Blanked(s, fresh)
  PROVE  CompactIsBlanked(u, s, fresh)
<1>1. DOMAIN s = 1 .. Len(s) /\ Len(s) \in Nat /\ \A i \in DOMAIN s : s[i] \in Compact!MessageType
  OBVIOUS
<1>2. u = [i \in DOMAIN s |-> IF i - 1 \in fresh THEN [s[i] EXCEPT !.reads = {}] ELSE s[i]]
  BY DEF Compact!Blanked
<1>3. DOMAIN u = DOMAIN s
  BY <1>2
<1>4. ASSUME NEW i \in DOMAIN s
      PROVE  /\ u[i] \in Compact!MessageType
             /\ u[i].kind = s[i].kind /\ u[i].turn = s[i].turn /\ u[i].lines = s[i].lines
             /\ u[i].reads = IF i - 1 \in fresh THEN {} ELSE s[i].reads
             /\ (i - 1 \notin fresh => u[i] = s[i])
  <2> DEFINE m == s[i]
  <2>1. m \in Compact!MessageType /\ u[i] = IF i - 1 \in fresh THEN [m EXCEPT !.reads = {}] ELSE m
    BY <1>1, <1>2
  <2> HIDE DEF m
  <2>2. [m EXCEPT !.reads = {}] \in Compact!MessageType /\ [m EXCEPT !.reads = {}].reads = {}
        /\ [m EXCEPT !.reads = {}].kind = m.kind /\ [m EXCEPT !.reads = {}].turn = m.turn
        /\ [m EXCEPT !.reads = {}].lines = m.lines
    BY <2>1 DEF Compact!MessageType
  <2>3. CASE i - 1 \in fresh
    <3>1. u[i] = [m EXCEPT !.reads = {}]
      BY <2>1, <2>3
    <3> QED BY <2>2, <2>3, <3>1 DEF m
  <2>4. CASE i - 1 \notin fresh
    <3>1. u[i] = m
      BY <2>1, <2>4
    <3> QED BY <2>1, <2>4, <3>1 DEF m
  <2> QED BY <2>3, <2>4
<1>5. u \in [1 .. Len(s) -> Compact!MessageType]
  BY <1>1, <1>2, <1>3, <1>4
<1>6. u \in Seq(Compact!MessageType) /\ Len(u) = Len(s)
  BY <1>1, <1>5
<1> QED BY Zenon, <1>3, <1>4, <1>6 DEF CompactIsBlanked

LEMMA CompactBlankedShaped ==
  ASSUME NEW s, Compact!Shaped(s), NEW fresh, fresh \subseteq Compact!ToolPairs(s), NEW u, CompactIsBlanked(u, s, fresh)
  PROVE  Compact!Shaped(u)
<1>1. /\ s \in Seq(Compact!MessageType) /\ Len(s) \in Nat /\ DOMAIN s = 1 .. Len(s) /\ s # <<>> /\ s[1] = Compact!Task
  BY DEF Compact!Shaped
<1>2. /\ u \in Seq(Compact!MessageType) /\ Len(u) = Len(s) /\ DOMAIN u = 1 .. Len(s)
      /\ \A i \in 1 .. Len(s) : u[i].kind = s[i].kind /\ u[i].turn = s[i].turn
      /\ \A i \in 1 .. Len(s) : i - 1 \notin fresh => u[i] = s[i]
  BY <1>1 DEF CompactIsBlanked
<1>3. u # <<>> /\ u[1] = Compact!Task
  <2>1. 1 \in 1 .. Len(s)
    BY <1>1
  <2>2. 1 - 1 \notin fresh
    BY DEF Compact!ToolPairs
  <2>3. u[1] = s[1]
    BY <1>2, <2>1, <2>2
  <2>4. Len(u) # 0
    BY <1>2, <2>1
  <2> QED BY <1>1, <1>2, <2>3, <2>4
<1>4. ASSUME NEW i \in 1 .. Len(s), u[i].kind = "use"
      PROVE  i < Len(u) /\ u[i + 1].kind = "result" /\ u[i + 1].turn = u[i].turn
  <2>1. i < Len(s) /\ s[i + 1].kind = "result" /\ s[i + 1].turn = s[i].turn
    BY <1>1, <1>2, <1>4 DEF Compact!Shaped
  <2>2. i + 1 \in 1 .. Len(s)
    BY <1>1, <2>1
  <2> QED BY <1>2, <2>1, <2>2
<1>5. ASSUME NEW i \in 1 .. Len(s), u[i].kind = "result" PROVE i > 1 /\ u[i - 1].kind = "use"
  <2>1. i > 1 /\ s[i - 1].kind = "use"
    BY <1>1, <1>2, <1>5 DEF Compact!Shaped
  <2>2. i - 1 \in 1 .. Len(s)
    BY <1>1, <2>1
  <2> QED BY <1>2, <2>1, <2>2
<1>6. \A i, j \in 1 .. Len(s) :
       i < j /\ u[i].kind = "result" /\ u[j].kind = "result" => u[i].turn < u[j].turn
  BY <1>1, <1>2 DEF Compact!Shaped
<1> QED BY <1>2, <1>3, <1>4, <1>5, <1>6 DEF Compact!Shaped

(* Turns that come after the dead ends and before what is still verbatim.       *)
CompactPast(s, T) ==
  \A n \in T :
    /\ \A i \in DOMAIN s : s[i].kind = "dead" => \A k \in DOMAIN s[i].lines : s[i].lines[k] < n
    /\ \A j \in DOMAIN s : s[j].kind = "result" /\ ~Compact!Compacted(s[j]) => n < s[j].turn

(* What blanking leaves, of the form of a conversation and of what it tells.    *)
CompactBlanksOnly(u, s, told) ==
  /\ \A i \in DOMAIN s : s[i].kind # "result" => u[i] = s[i]
  /\ \A n : n \notin told => \A i \in DOMAIN s : n \in s[i].reads => i \in DOMAIN u /\ u[i] = s[i]
LEMMA CompactBlankedForm ==
  ASSUME NEW s, NEW now \in Nat, Compact!Shaped(s), Compact!Verbatim(s, now),
         NEW fresh, fresh = Compact!FreshPairs(s), NEW u, CompactIsBlanked(u, s, fresh),
         NEW told, told = {s[i].turn : i \in fresh}
  PROVE  Compact!Shaped(u) /\ Compact!Verbatim(u, now) /\ told \subseteq 1 .. now /\ CompactBlanksOnly(u, s, told)
<1>1. Compact!Shaped(s) /\ Compact!Verbatim(s, now)
  OBVIOUS
<1>2. /\ fresh \subseteq Compact!ToolPairs(s) /\ fresh \subseteq Compact!ToolPairs(s) \ Compact!Recent(Compact!ToolPairs(s), CompactKeepRecentPairs)
      /\ \A i \in fresh : ~Compact!Compacted(s[i + 1])
      /\ \A i \in Compact!ToolPairs(s) : i \notin Compact!Recent(Compact!ToolPairs(s), CompactKeepRecentPairs) /\ ~Compact!Compacted(s[i + 1]) => i \in fresh
  BY DEF Compact!FreshPairs
<1>3. /\ Compact!ToolPairs(s) \subseteq Nat /\ IsFiniteSet(Compact!ToolPairs(s))
      /\ \A i \in Compact!ToolPairs(s) : i \in 1 .. Len(s) /\ i + 1 \in 1 .. Len(s)
                                 /\ s[i].kind = "use" /\ s[i + 1].kind = "result" /\ s[i + 1].turn = s[i].turn
      /\ \A j \in 1 .. Len(s) : s[j].kind = "result" => j - 1 \in Compact!ToolPairs(s)
  BY <1>1, CompactPairsAre
<1>4. /\ DOMAIN s = 1 .. Len(s) /\ DOMAIN u = 1 .. Len(s) /\ Len(s) \in Nat
      /\ \A i \in 1 .. Len(s) : /\ u[i].kind = s[i].kind /\ u[i].turn = s[i].turn /\ u[i].lines = s[i].lines
                                /\ u[i].reads = IF i - 1 \in fresh THEN {} ELSE s[i].reads
                                /\ (i - 1 \notin fresh => u[i] = s[i])
  <2>1. DOMAIN s = 1 .. Len(s) /\ Len(s) \in Nat
    BY <1>1 DEF Compact!Shaped
  <2> QED BY Zenon, <2>1 DEF CompactIsBlanked
<1>5. Compact!Shaped(u)
  BY <1>1, <1>2, CompactBlankedShaped
<1>7. \A i \in 1 .. Len(s) : s[i].kind # "result" => u[i] = s[i]
  <2> SUFFICES ASSUME NEW i \in 1 .. Len(s), i - 1 \in fresh PROVE s[i].kind = "result"
    BY <1>4
  <2>1. (i - 1) + 1 = i
    BY <1>4
  <2> QED BY <1>2, <1>3, <2>1
<1>8. Compact!Verbatim(u, now)
  <2> SUFFICES ASSUME NEW i \in 1 .. Len(s), u[i].kind = "result"
               PROVE  /\ u[i].turn \in 1 .. now /\ u[i].reads \subseteq {u[i].turn}
                      /\ now < u[i].turn + CompactKeepRecentPairs => ~Compact!Compacted(u[i])
    BY <1>4 DEF Compact!Verbatim
  <2>1. /\ s[i].turn \in 1 .. now /\ s[i].reads \subseteq {s[i].turn}
        /\ now < s[i].turn + CompactKeepRecentPairs => ~Compact!Compacted(s[i])
    BY <1>1, <1>4 DEF Compact!Verbatim
  <2>2. CASE i - 1 \in fresh
    <3>1. (i - 1) + 1 = i
      BY <1>4
    <3>2. \A j \in 1 .. Len(s) : s[j].kind = "result" => s[j].turn \in 1 .. now
      BY <1>1, <1>4 DEF Compact!Verbatim
    <3>3. CompactKeepRecentPairs \in Nat
      BY CompactionAssumption
    <3>4. s[(i - 1) + 1].turn + CompactKeepRecentPairs <= now
      BY <1>1, <1>2, <2>2, <3>2, <3>3, CompactFreshIsOld
    <3>5. s[i].turn + CompactKeepRecentPairs <= now /\ u[i].turn = s[i].turn /\ u[i].reads = {}
      BY <1>4, <2>2, <3>1, <3>4
    <3>6. ~(now < s[i].turn + CompactKeepRecentPairs)
      BY <2>1, <3>3, <3>5
    <3> QED BY <2>1, <3>5, <3>6
  <2>3. CASE i - 1 \notin fresh
    <3>1. u[i] = s[i]
      BY <1>4, <2>3
    <3> QED BY Zenon, <2>1, <3>1
  <2> QED BY <2>2, <2>3
<1>9. told \subseteq 1 .. now
  <2> SUFFICES ASSUME NEW f \in fresh PROVE s[f].turn \in 1 .. now
    OBVIOUS
  <2>1. f + 1 \in 1 .. Len(s) /\ s[f + 1].kind = "result" /\ s[f + 1].turn = s[f].turn
    BY <1>2, <1>3
  <2> QED BY <1>1, <1>4, <2>1 DEF Compact!Verbatim
<1>10. ASSUME NEW n, n \notin told, NEW i \in 1 .. Len(s), n \in s[i].reads
       PROVE  i \in DOMAIN u /\ u[i] = s[i]
  <2>1. i - 1 \notin fresh
    <3> SUFFICES ASSUME i - 1 \in fresh PROVE FALSE
      OBVIOUS
    <3>1. (i - 1) + 1 = i
      BY <1>4
    <3>2. s[i].kind = "result" /\ s[i].turn = s[i - 1].turn
      BY <1>2, <1>3, <3>1
    <3>3. s[i].reads \subseteq {s[i].turn}
      BY <1>1, <1>4, <3>2 DEF Compact!Verbatim
    <3>4. n = s[i - 1].turn
      BY <1>10, <3>2, <3>3
    <3> QED BY <1>10, <3>4
  <2> QED BY <1>4, <2>1
<1>11. CompactBlanksOnly(u, s, told)
  BY Zenon, <1>4, <1>7, <1>10 DEF CompactBlanksOnly
<1> QED BY <1>5, <1>8, <1>9, <1>11

LEMMA CompactBlankedHistory ==
  ASSUME NEW s, NEW now \in Nat, NEW bad, NEW lost, Compact!History(s, now, bad, lost),
         NEW fresh, fresh = Compact!FreshPairs(s), NEW u, CompactIsBlanked(u, s, fresh),
         NEW told, told = {s[i].turn : i \in fresh}
  PROVE  Compact!History(u, now, bad, lost \cup told) /\ CompactPast(u, told) /\ told \subseteq 1 .. now
<1>1. Compact!Shaped(s) /\ Compact!Single(s) /\ Compact!Verbatim(s, now) /\ Compact!Listed(s, bad) /\ Compact!Remembered(s, now, bad, lost)
  BY DEF Compact!History
<1>2. /\ fresh \subseteq Compact!ToolPairs(s) /\ fresh \subseteq Compact!ToolPairs(s) \ Compact!Recent(Compact!ToolPairs(s), CompactKeepRecentPairs)
      /\ \A i \in fresh : ~Compact!Compacted(s[i + 1])
      /\ \A i \in Compact!ToolPairs(s) : i \notin Compact!Recent(Compact!ToolPairs(s), CompactKeepRecentPairs) /\ ~Compact!Compacted(s[i + 1]) => i \in fresh
  BY DEF Compact!FreshPairs
<1>3. /\ Compact!ToolPairs(s) \subseteq Nat /\ IsFiniteSet(Compact!ToolPairs(s))
      /\ \A i \in Compact!ToolPairs(s) : i \in 1 .. Len(s) /\ i + 1 \in 1 .. Len(s)
                                 /\ s[i].kind = "use" /\ s[i + 1].kind = "result" /\ s[i + 1].turn = s[i].turn
      /\ \A j \in 1 .. Len(s) : s[j].kind = "result" => j - 1 \in Compact!ToolPairs(s)
  BY <1>1, CompactPairsAre
<1>4. /\ DOMAIN s = 1 .. Len(s) /\ DOMAIN u = 1 .. Len(s) /\ Len(s) \in Nat
      /\ \A i \in 1 .. Len(s) : /\ u[i].kind = s[i].kind /\ u[i].turn = s[i].turn /\ u[i].lines = s[i].lines
                                /\ u[i].reads = IF i - 1 \in fresh THEN {} ELSE s[i].reads
                                /\ (i - 1 \notin fresh => u[i] = s[i])
  <2>1. DOMAIN s = 1 .. Len(s) /\ Len(s) \in Nat
    BY <1>1 DEF Compact!Shaped
  <2> QED BY Zenon, <2>1 DEF CompactIsBlanked
<1>5. /\ Compact!Shaped(u) /\ Compact!Verbatim(u, now) /\ told \subseteq 1 .. now
      /\ \A i \in DOMAIN s : s[i].kind # "result" => u[i] = s[i]
      /\ \A n : n \notin told => \A i \in DOMAIN s : n \in s[i].reads => i \in DOMAIN u /\ u[i] = s[i]
  <2>1. Compact!Shaped(u) /\ Compact!Verbatim(u, now) /\ told \subseteq 1 .. now /\ CompactBlanksOnly(u, s, told)
    BY <1>1, CompactBlankedForm
  <2> QED BY Zenon, <2>1 DEF CompactBlanksOnly
<1>6. Compact!Single(u)
  BY <1>1, <1>4 DEF Compact!Single, Compact!Unique
<1>7. \A i \in 1 .. Len(s) : s[i].kind # "result" => u[i] = s[i]
  BY <1>4, <1>5
<1>9. \A j \in 1 .. Len(s) : u[j].kind = "result" /\ ~Compact!Compacted(u[j]) =>
         s[j].kind = "result" /\ ~Compact!Compacted(s[j]) /\ u[j] = s[j] /\ j - 1 \notin fresh
  BY <1>4 DEF Compact!Compacted
<1>10. Compact!Listed(u, bad)
  <2> SUFFICES ASSUME NEW i \in 1 .. Len(s), u[i].kind = "dead" PROVE Compact!Entry(u[i], u, bad)
    BY <1>4 DEF Compact!Listed
  <2>1. u[i] = s[i] /\ Compact!Entry(s[i], s, bad)
    <3>1. s[i].kind = "dead"
      BY <1>4
    <3> QED BY <1>1, <1>4, <1>7, <3>1 DEF Compact!Listed
  <2>2. Compact!Entry(u[i], s, bad)
    BY Zenon, <2>1
  <2>3. ASSUME NEW j \in 1 .. Len(s), u[j].kind = "result", ~Compact!Compacted(u[j]), NEW k \in DOMAIN u[i].lines
        PROVE  u[i].lines[k] < u[j].turn
    <3>1. s[j].kind = "result" /\ ~Compact!Compacted(s[j]) /\ u[j] = s[j]
      BY <1>9, <2>3
    <3>2. u[i].lines[k] < s[j].turn
      BY <1>4, <2>2, <3>1 DEF Compact!Entry
    <3> QED BY Zenon, <3>1, <3>2
  <2> QED BY <1>4, <2>2, <2>3 DEF Compact!Entry
<1>12. CompactPast(u, told)
  <2> SUFFICES ASSUME NEW f \in fresh
               PROVE  /\ \A i \in DOMAIN u : u[i].kind = "dead" => \A k \in DOMAIN u[i].lines : u[i].lines[k] < s[f].turn
                      /\ \A j \in DOMAIN u : u[j].kind = "result" /\ ~Compact!Compacted(u[j]) => s[f].turn < u[j].turn
    BY DEF CompactPast
  <2>1. /\ f \in Compact!ToolPairs(s) \ Compact!Recent(Compact!ToolPairs(s), CompactKeepRecentPairs) /\ f + 1 \in 1 .. Len(s)
        /\ s[f + 1].kind = "result" /\ ~Compact!Compacted(s[f + 1]) /\ s[f + 1].turn = s[f].turn
    BY <1>2, <1>3
  <2>2. ASSUME NEW i \in 1 .. Len(s), u[i].kind = "dead", NEW k \in DOMAIN u[i].lines
        PROVE  u[i].lines[k] < s[f].turn
    <3>1. u[i] = s[i] /\ Compact!Entry(s[i], s, bad)
      <4>1. s[i].kind = "dead"
        BY <1>4, <2>2
      <4> QED BY <1>1, <1>4, <1>7, <4>1 DEF Compact!Listed
    <3>2. Compact!Entry(u[i], s, bad)
      BY Zenon, <3>1
    <3>3. u[i].lines[k] < s[f + 1].turn
      BY <1>4, <2>1, <2>2, <3>2 DEF Compact!Entry
    <3> QED BY Zenon, <2>1, <3>3
  <2>3. ASSUME NEW j \in 1 .. Len(s), u[j].kind = "result", ~Compact!Compacted(u[j])
        PROVE  s[f].turn < u[j].turn
    <3>1. s[j].kind = "result" /\ ~Compact!Compacted(s[j]) /\ u[j] = s[j] /\ j - 1 \notin fresh /\ (j - 1) + 1 = j
      BY <1>4, <1>9, <2>3
    <3>2. j - 1 \in Compact!ToolPairs(s)
      BY <1>3, <3>1
    <3>3. j - 1 \in Compact!Recent(Compact!ToolPairs(s), CompactKeepRecentPairs)
      BY Zenon, <1>2, <3>1, <3>2
    <3>4. f < j - 1
      <4>1. CompactKeepRecentPairs \in Nat
        BY CompactionAssumption
      <4> QED BY <1>3, <2>1, <3>3, <4>1, CompactRecentAfter
    <3>5. f + 1 < j
      BY <1>3, <1>4, <2>1, <3>4
    <3>6. s[f + 1].turn < s[j].turn
      BY <1>1, <1>4, <2>1, <3>1, <3>5 DEF Compact!Shaped
    <3> QED BY Zenon, <2>1, <3>1, <3>6
  <2> QED BY <1>4, <2>2, <2>3
<1>13. Compact!Remembered(u, now, bad, lost \cup told)
  <2> SUFFICES ASSUME NEW n \in 1 .. now, n \notin lost, n \notin told
               PROVE  Compact!Reads(u, n) \/ (n \in bad /\ Compact!DrivenOut(u, n))
    BY DEF Compact!Remembered
  <2>1. Compact!Reads(s, n) \/ (n \in bad /\ Compact!DrivenOut(s, n))
    BY <1>1 DEF Compact!Remembered
  <2>2. CASE Compact!Reads(s, n)
    <3>1. PICK i \in 1 .. Len(s) : n \in s[i].reads
      BY <1>4, <2>2 DEF Compact!Reads
    <3>3. u[i] = s[i] /\ i \in DOMAIN u
      BY <1>4, <1>5, <3>1
    <3> QED BY Zenon, <3>1, <3>3 DEF Compact!Reads
  <2>3. CASE n \in bad /\ Compact!DrivenOut(s, n)
    <3>1. PICK i \in 1 .. Len(s) : Compact!DrivesOut(s[i], n)
      BY <1>4, <2>3 DEF Compact!DrivenOut
    <3>2. u[i] = s[i] /\ i \in DOMAIN u
      BY <1>4, <1>7, <3>1 DEF Compact!DrivesOut
    <3> QED BY Zenon, <2>3, <3>1, <3>2 DEF Compact!DrivenOut
  <2> QED BY <2>1, <2>2, <2>3
<1> QED BY <1>5, <1>6, <1>10, <1>12, <1>13 DEF Compact!History

(* What of a turn is rest when some messages give way to others.               *)
CompactStays(s, a, b, new, bad, n) ==
  \/ \E j \in DOMAIN s : (j < a \/ b < j) /\ n \in s[j].reads
  \/ \E k \in DOMAIN new : n \in new[k].reads
  \/ n \in bad /\ \E j \in DOMAIN s : (j < a \/ b < j) /\ Compact!DrivesOut(s[j], n)
  \/ n \in bad /\ \E k \in DOMAIN new : Compact!DrivesOut(new[k], n)

LEMMA CompactStaysRemembered ==
  ASSUME NEW s, NEW new, NEW a, NEW b, NEW t, CompactComes(t, s, a, b, new), NEW bad, NEW n, CompactStays(s, a, b, new, bad, n)
  PROVE  Compact!Reads(t, n) \/ (n \in bad /\ Compact!DrivenOut(t, n))
<1>0. /\ \A j \in DOMAIN s : j < a \/ b < j => \E i \in DOMAIN t : t[i] = s[j]
      /\ \A k \in DOMAIN new : \E i \in DOMAIN t : t[i] = new[k]
  BY Zenon DEF CompactComes
<1>1. CASE \E j \in DOMAIN s : (j < a \/ b < j) /\ n \in s[j].reads
  BY Zenon, <1>0, <1>1 DEF Compact!Reads
<1>2. CASE \E k \in DOMAIN new : n \in new[k].reads
  BY Zenon, <1>0, <1>2 DEF Compact!Reads
<1>3. CASE n \in bad /\ \E j \in DOMAIN s : (j < a \/ b < j) /\ Compact!DrivesOut(s[j], n)
  BY Zenon, <1>0, <1>3 DEF Compact!DrivenOut
<1>4. CASE n \in bad /\ \E k \in DOMAIN new : Compact!DrivesOut(new[k], n)
  BY Zenon, <1>0, <1>4 DEF Compact!DrivenOut
<1> QED BY <1>1, <1>2, <1>3, <1>4 DEF CompactStays

(* A splice that loses nothing keeps a history.                                *)
LEMMA CompactSplicedHistory ==
  ASSUME NEW s, NEW now, NEW bad, NEW lost, Compact!History(s, now, bad, lost),
         NEW a, NEW b, CompactWhole(s, a, b), NEW new \in Seq(Compact!MessageType), CompactPlain(new), CompactAlone(s, a, b, new),
         \A k \in DOMAIN new : new[k].kind = "dead" => Compact!Entry(new[k], s, bad),
         NEW rest, \A n \in 1 .. now : n \in rest \/ CompactStays(s, a, b, new, bad, n),
         NEW t, t = Compact!Splice(s, a, b, new)
  PROVE  Compact!History(t, now, bad, rest) /\ CompactComes(t, s, a, b, new)
<1>1. Compact!Shaped(s) /\ Compact!Single(s) /\ Compact!Verbatim(s, now) /\ Compact!Listed(s, bad)
  BY DEF Compact!History
<1>2. s \in Seq(Compact!MessageType)
  BY <1>1 DEF Compact!Shaped
<1>3. CompactIsSpliced(t, s, a, b, new)
  BY <1>2, CompactSpliceIs
<1>4. CompactComes(t, s, a, b, new)
  BY <1>2, <1>3, CompactSpliceComes
<1>5. Compact!Shaped(t)
  BY <1>1, CompactSpliceShaped
<1>6. Compact!Single(t)
  BY <1>1, <1>2, <1>3, CompactSpliceSingle
<1>7. Compact!Verbatim(t, now)
  BY <1>1, <1>4, CompactSpliceVerbatim
<1>8. Compact!Listed(t, bad)
  BY <1>1, <1>4, CompactSpliceListed
<1>9. Compact!Remembered(t, now, bad, rest)
  <2> SUFFICES ASSUME NEW n \in 1 .. now, n \notin rest
               PROVE  Compact!Reads(t, n) \/ (n \in bad /\ Compact!DrivenOut(t, n))
    BY DEF Compact!Remembered
  <2>1. CompactStays(s, a, b, new, bad, n)
    OBVIOUS
  <2> QED BY <1>4, <2>1, CompactStaysRemembered
<1> QED BY <1>4, <1>5, <1>6, <1>7, <1>8, <1>9 DEF Compact!History

(* Between messages that are no pair nothing is cut out.                       *)
LEMMA CompactInsertWhole ==
  ASSUME NEW s, Compact!Shaped(s), NEW a \in 2 .. Len(s) + 1, s[a - 1].kind # "use"
  PROVE  /\ CompactWhole(s, a, a - 1) /\ a - 1 \in Nat
         /\ \A j \in DOMAIN s : j < a \/ a - 1 < j
<1>1. Len(s) \in Nat /\ DOMAIN s = 1 .. Len(s) /\ a \in Nat /\ a - 1 \in Nat
  BY DEF Compact!Shaped
<1>2. ASSUME a - 1 < Len(s) PROVE s[(a - 1) + 1].kind # "result"
  <2>1. a \in 1 .. Len(s) /\ (a - 1) + 1 = a
    BY <1>1, <1>2
  <2>2. s[a].kind = "result" => s[a - 1].kind = "use"
    BY <1>1, <2>1 DEF Compact!Shaped
  <2> QED BY <2>1, <2>2
<1>3. 2 <= a /\ a <= (a - 1) + 1 /\ a - 1 <= Len(s)
  BY <1>1
<1>4. \A j \in DOMAIN s : j < a \/ a - 1 < j
  BY <1>1
<1> QED BY <1>1, <1>2, <1>3, <1>4 DEF CompactWhole

(* A message that is no part of a pair can be replaced.                        *)
LEMMA CompactReplaceWhole ==
  ASSUME NEW s, Compact!Shaped(s), NEW a \in DOMAIN s, s[a].kind \notin {"use", "result", "task"}
  PROVE  /\ CompactWhole(s, a, a) /\ \A j \in DOMAIN s : j # a => j < a \/ a < j
<1>1. Len(s) \in Nat /\ DOMAIN s = 1 .. Len(s) /\ a \in Nat /\ s[1].kind = "task"
  BY DEF Compact!Shaped, Compact!Task, Compact!Message
<1>2. 2 <= a /\ a <= Len(s)
  BY <1>1
<1>3. s[a - 1].kind # "use"
  <2>1. a - 1 \in 1 .. Len(s) /\ (a - 1) + 1 = a
    BY <1>1, <1>2
  <2>2. s[a - 1].kind = "use" => s[(a - 1) + 1].kind = "result"
    BY <1>1, <2>1 DEF Compact!Shaped
  <2> QED BY <2>1, <2>2
<1>4. ASSUME a < Len(s) PROVE s[a + 1].kind # "result"
  <2>1. a + 1 \in 1 .. Len(s) /\ (a + 1) - 1 = a
    BY <1>1, <1>4
  <2>2. s[a + 1].kind = "result" => s[(a + 1) - 1].kind = "use"
    BY <1>1, <2>1 DEF Compact!Shaped
  <2> QED BY <2>1, <2>2
<1>5. a <= a + 1 /\ \A j \in DOMAIN s : j # a => j < a \/ a < j
  BY <1>1
<1> QED BY <1>1, <1>2, <1>3, <1>4, <1>5 DEF CompactWhole

(* A history whose turns `told` are blank, with a place for what is said of     *)
(* them, and one in which the failed ones of them, B, are still to be noted.    *)
CompactBehind(s, now, bad, lost, told, at) ==
  /\ now \in Nat /\ now <= CompactMaxTurns /\ told \subseteq 1 .. now
  /\ Compact!History(s, now, bad, lost \cup told) /\ CompactPast(s, told)
  /\ at \in 2 .. Len(s) + 1 /\ s[at - 1].kind # "use"
CompactNoteworthy(t, now, bad, lost, told, B, place) ==
  /\ Compact!History(t, now, bad, lost \cup B) /\ CompactPast(t, told)
  /\ place \in 2 .. Len(t) + 1 /\ t[place - 1].kind # "use"

(* A summary of the turns that went well.                                      *)
LEMMA CompactSummedHistory ==
  ASSUME NEW s, NEW now, NEW bad, NEW lost, NEW told, NEW at, CompactBehind(s, now, bad, lost, told, at),
         NEW t, t = Compact!Summed(s, at, told \ bad)
  PROVE  CompactNoteworthy(t, now, bad, lost, told, told \cap bad, at + 1)
<1>h. /\ now \in Nat /\ now <= CompactMaxTurns /\ told \subseteq 1 .. now
      /\ Compact!History(s, now, bad, lost \cup told) /\ CompactPast(s, told)
      /\ at \in 2 .. Len(s) + 1 /\ s[at - 1].kind # "use"
  BY DEF CompactBehind
<1> USE <1>h
<1> DEFINE m == Compact!SummaryMessage(told \ bad)
           new == <<m>>
<1>0. Compact!Shaped(s) /\ s \in Seq(Compact!MessageType) /\ at \in Nat /\ Len(s) \in Nat /\ CompactMaxTurns \in Nat
  BY CompactionAssumption DEF Compact!History, Compact!Shaped
<1>1. CompactWhole(s, at, at - 1) /\ at - 1 \in Nat /\ \A j \in DOMAIN s : j < at \/ at - 1 < j
  BY <1>0, CompactInsertWhole
<1>2. m.kind = "summary" /\ m.reads = told \ bad /\ m \in Compact!MessageType
  <2>1. told \ bad \in SUBSET Compact!Turn
    <3> SUFFICES ASSUME NEW n \in told PROVE n \in 1 .. CompactMaxTurns
      BY DEF Compact!Turn
    <3>1. n \in 1 .. now
      OBVIOUS
    <3> QED BY <1>0, <3>1
  <2>2. <<>> \in Seq(Compact!Turn) /\ 0 \in 0 .. CompactMaxTurns
    BY <1>0
  <2> QED BY <2>1, <2>2 DEF Compact!SummaryMessage, Compact!Message, Compact!MessageType
<1> HIDE DEF m
<1>3. new \in Seq(Compact!MessageType) /\ DOMAIN new = {1} /\ new[1] = m /\ Len(new) = 1
  BY <1>2
<1>4. t = Compact!Splice(s, at, at - 1, new)
  BY DEF Compact!Summed, m
<1> HIDE DEF new
<1>5. CompactPlain(new) /\ CompactAlone(s, at, at - 1, new)
  BY <1>2, <1>3 DEF CompactPlain, CompactAlone, CompactAloneIn, Compact!FullKinds
<1>6. \A k \in DOMAIN new : new[k].kind = "dead" => Compact!Entry(new[k], s, bad)
  BY <1>2, <1>3
<1>7. \A n \in 1 .. now : n \in lost \cup (told \cap bad) \/ CompactStays(s, at, at - 1, new, bad, n)
  <2> SUFFICES ASSUME NEW n \in 1 .. now, n \notin lost, n \notin told \cap bad
               PROVE  CompactStays(s, at, at - 1, new, bad, n)
    OBVIOUS
  <2>1. CASE n \in told
    <3>1. n \in new[1].reads
      BY <1>2, <1>3, <2>1
    <3> QED BY <1>3, <3>1 DEF CompactStays
  <2>2. CASE n \notin told
    <3>1. Compact!Reads(s, n) \/ (n \in bad /\ Compact!DrivenOut(s, n))
      BY <2>2 DEF Compact!History, Compact!Remembered
    <3> QED BY Zenon, <1>1, <3>1 DEF CompactStays, Compact!Reads, Compact!DrivenOut
  <2> QED BY <2>1, <2>2
<1>8. Compact!History(t, now, bad, lost \cup (told \cap bad)) /\ CompactComes(t, s, at, at - 1, new)
  <2> DEFINE rest == lost \cup (told \cap bad)
             was == lost \cup told
             before == at - 1
  <2>1. /\ Compact!History(s, now, bad, was) /\ CompactWhole(s, at, before) /\ CompactAlone(s, at, before, new)
        /\ \A n \in 1 .. now : n \in rest \/ CompactStays(s, at, before, new, bad, n)
        /\ t = Compact!Splice(s, at, before, new)
    BY <1>1, <1>4, <1>5, <1>7
  <2> HIDE DEF rest, was, before
  <2>2. Compact!History(t, now, bad, rest) /\ CompactComes(t, s, at, before, new)
    BY <1>3, <1>5, <1>6, <2>1, CompactSplicedHistory
  <2> QED BY <2>2 DEF rest, before
<1>9. \A i \in DOMAIN t : (\E j \in DOMAIN s : t[i] = s[j]) \/ t[i] = m
  <2>1. \A i \in DOMAIN t : (\E j \in DOMAIN s : t[i] = s[j]) \/ (\E k \in DOMAIN new : t[i] = new[k])
    BY <1>8, Zenon DEF CompactComes
  <2>2. \A k \in DOMAIN new : new[k] = m
    BY <1>3
  <2> QED BY Zenon, <2>1, <2>2
<1>10. CompactPast(t, told)
  <2> SUFFICES ASSUME NEW n \in told
               PROVE  /\ \A i \in DOMAIN t : t[i].kind = "dead" => \A k \in DOMAIN t[i].lines : t[i].lines[k] < n
                      /\ \A j \in DOMAIN t : t[j].kind = "result" /\ ~Compact!Compacted(t[j]) => n < t[j].turn
    BY DEF CompactPast
  <2>1. /\ \A i \in DOMAIN s : s[i].kind = "dead" => \A k \in DOMAIN s[i].lines : s[i].lines[k] < n
        /\ \A j \in DOMAIN s : s[j].kind = "result" /\ ~Compact!Compacted(s[j]) => n < s[j].turn
    BY DEF CompactPast
  <2>2. m.kind # "dead" /\ m.kind # "result"
    BY <1>2
  <2> QED BY Zenon, <1>9, <2>1, <2>2
<1>11. CompactIsSpliced(t, s, at, at - 1, new)
  <2> DEFINE before == at - 1
  <2>1. CompactWhole(s, at, before) /\ t = Compact!Splice(s, at, before, new)
    BY <1>1, <1>4
  <2> HIDE DEF before
  <2>2. CompactIsSpliced(t, s, at, before, new)
    BY <1>0, <1>3, <2>1, CompactSpliceIs
  <2> QED BY <2>2 DEF before
<1>12. /\ Len(t) = Len(s) + 1 + at - ((at - 1) + 1) /\ DOMAIN t = 1 .. Len(t)
       /\ \A i \in DOMAIN t : ~(i < at) /\ i < at + 1 => t[i] = new[i + 1 - at]
  BY <1>3, <1>11, Zenon DEF CompactIsSpliced
<1>13. Len(t) = Len(s) + 1 /\ at \in DOMAIN t
  BY <1>0, <1>12
<1>14. t[at] = m
  <2>1. ~(at < at) /\ at < at + 1 /\ at + 1 - at = 1
    BY <1>0
  <2> QED BY <1>3, <1>12, <1>13, <2>1
<1>15. at + 1 \in 2 .. Len(t) + 1 /\ (at + 1) - 1 = at
  BY <1>0, <1>13
<1> QED BY <1>2, <1>8, <1>10, <1>14, <1>15 DEF CompactNoteworthy

(* The first message of some kinds.                                             *)
LEMMA CompactPositionIs ==
  ASSUME NEW s \in Seq(Compact!MessageType), NEW kinds, NEW p, p = Compact!Position(s, kinds)
  PROVE  \/ p = 0 /\ \A i \in DOMAIN s : s[i].kind \notin kinds
         \/ p \in DOMAIN s /\ p # 0 /\ s[p].kind \in kinds
<1> DEFINE at == {i \in DOMAIN s : s[i].kind \in kinds}
<1>1. DOMAIN s = 1 .. Len(s)
  OBVIOUS
<1>2. CASE at = {}
  <2>1. p = 0
    BY <1>2 DEF Compact!Position
  <2> QED BY <1>2, <2>1
<1>3. CASE at # {}
  <2>1. at \in SUBSET Nat
    BY <1>1
  <2>2. \E i \in at : \A j \in at : i <= j
    <3> HIDE DEF at
    <3> QED BY <1>3, <2>1, HasLowest
  <2>3. p \in at
    <3>1. p = CHOOSE i \in at : \A j \in at : i <= j
      BY <1>3 DEF Compact!Position
    <3> HIDE DEF at
    <3> QED BY <2>2, <3>1
  <2> QED BY <1>1, <2>3
<1> QED BY <1>2, <1>3

(* What a reply says of the failed turns.                                      *)
LEMMA CompactReplyIs ==
  ASSUME NEW B \in SUBSET Compact!Turn, NEW reply \in Compact!Replies(B)
  PROVE  /\ reply \in Seq(Compact!Turn) /\ Compact!Ascending(reply) /\ \A k \in DOMAIN reply : reply[k] \in B
         /\ \/ reply = <<>>
            \/ \A n \in B : \/ \E k \in DOMAIN reply : reply[k] = n
                            \/ Len(reply) = CompactMaxDeadEnds /\ \A k \in DOMAIN reply : reply[k] > n
<1>1. CASE reply = <<>>
  BY <1>1 DEF Compact!Ascending
<1>2. CASE reply = Compact!LastOf(Compact!Lines(B), CompactMaxDeadEnds)
  <2> DEFINE l == Compact!Lines(B)
  <2>1. /\ l \in Seq(Compact!Turn) /\ Compact!Ascending(l)
        /\ \A j \in DOMAIN l : l[j] \in B
        /\ \A m \in B : \E j \in DOMAIN l : l[j] = m
    BY CompactLinesAre
  <2>2. reply = Compact!LastOf(l, CompactMaxDeadEnds) /\ CompactMaxDeadEnds \in Nat
    BY <1>2, CompactionAssumption
  <2> HIDE DEF l
  <2>3. CompactEnds(reply, l, CompactMaxDeadEnds)
    BY <2>1, <2>2, CompactLastOfEnds
  <2>4. reply \in Seq(Compact!Turn) /\ Compact!Ascending(reply)
    BY <2>3, Zenon DEF CompactEnds
  <2>5. \A k \in DOMAIN reply : reply[k] \in B
    BY <2>1, <2>3, Zenon DEF CompactEnds
  <2>6. \A j \in DOMAIN l : \/ \E k \in DOMAIN reply : reply[k] = l[j]
                            \/ Len(reply) = CompactMaxDeadEnds /\ \A k \in DOMAIN reply : reply[k] > l[j]
    BY <2>3, Zenon DEF CompactEnds
  <2>7. \A n \in B : \/ \E k \in DOMAIN reply : reply[k] = n
                     \/ Len(reply) = CompactMaxDeadEnds /\ \A k \in DOMAIN reply : reply[k] > n
    <3> TAKE n \in B
    <3>1. PICK j \in DOMAIN l : l[j] = n
      BY Zenon, <2>1
    <3> QED BY Zenon, <2>6, <3>1
  <2> QED BY <2>4, <2>5, <2>7
<1> QED BY <1>1, <1>2 DEF Compact!Replies

(* A block of dead ends after the blocks and the turns that came before.       *)
LEMMA CompactDeadEndsAre ==
  ASSUME NEW m, NEW old, NEW new, CompactMerges(m, old, new), NEW d, d = Compact!DeadEndsMessage(m)
  PROVE  /\ d \in Compact!MessageType /\ d.kind = "dead" /\ d.lines = m /\ d.reads = {m[i] : i \in DOMAIN m}
<1>1. m \in Seq(Compact!Turn)
  BY Zenon DEF CompactMerges
<1>2. {m[i] : i \in DOMAIN m} \in SUBSET Compact!Turn
  <2>1. \A i \in DOMAIN m : m[i] \in Compact!Turn
    BY <1>1
  <2> QED BY <2>1
<1>3. 0 \in 0 .. CompactMaxTurns
  BY CompactionAssumption
<1> QED BY <1>1, <1>2, <1>3 DEF Compact!DeadEndsMessage, Compact!Message, Compact!MessageType

(* What the merged block adds to a conversation, and what it keeps of the old.  *)
LEMMA CompactNotedEntry ==
  ASSUME NEW s, NEW bad, NEW B \in SUBSET bad, CompactPast(s, B),
         NEW old \in Seq(Compact!Turn), Compact!Ascending(old), Len(old) <= CompactMaxDeadEnds,
         NEW p \in Nat, (p = 0 /\ old = <<>>) \/ (p \in DOMAIN s /\ s[p].kind = "dead" /\ s[p].lines = old /\ Compact!Entry(s[p], s, bad)),
         NEW reply \in Seq(Compact!Turn), Compact!Ascending(reply), \A k \in DOMAIN reply : reply[k] \in B,
         NEW d, d = Compact!Merge(old, reply)
  PROVE  /\ Compact!Entry(d, s, bad) /\ d.kind = "dead" /\ d \in Compact!MessageType
         /\ CompactMerges(d.lines, old, reply)
<1> DEFINE m == Compact!LastOf(old \o reply, CompactMaxDeadEnds)
<1>1. CompactMerges(m, old, reply)
  <2>1. \A i \in DOMAIN old, j \in DOMAIN reply : old[i] < reply[j]
    <3> TAKE i \in DOMAIN old, j \in DOMAIN reply
    <3>1. reply[j] \in B
      OBVIOUS
    <3>2. p \in DOMAIN s /\ s[p].kind = "dead" /\ s[p].lines = old
      OBVIOUS
    <3> QED BY Zenon, <3>1, <3>2 DEF CompactPast
  <2> QED BY <2>1, CompactMergedLists
<1>2. d = Compact!DeadEndsMessage(m)
  BY DEF Compact!Merge
<1> HIDE DEF m
<1>3. /\ d \in Compact!MessageType /\ d.kind = "dead" /\ d.lines = m /\ d.reads = {m[i] : i \in DOMAIN m}
  BY <1>1, <1>2, CompactDeadEndsAre
<1>4. Len(m) <= CompactMaxDeadEnds /\ Compact!Ascending(m)
  BY Zenon, <1>1 DEF CompactMerges
<1>5. ASSUME NEW k \in DOMAIN m
      PROVE  m[k] \in bad /\ \A j \in DOMAIN s : s[j].kind = "result" /\ ~Compact!Compacted(s[j]) => m[k] < s[j].turn
  <2>1. CASE \E j \in DOMAIN old : m[k] = old[j]
    <3>1. PICK x \in DOMAIN old : m[k] = old[x]
      BY <2>1
    <3>2. p \in DOMAIN s /\ s[p].kind = "dead" /\ s[p].lines = old /\ Compact!Entry(s[p], s, bad)
      OBVIOUS
    <3>3. s[p].lines[x] \in s[p].reads /\ s[p].reads \subseteq bad
      BY <3>1, <3>2 DEF Compact!Entry
    <3>4. \A j \in DOMAIN s : s[j].kind = "result" /\ ~Compact!Compacted(s[j]) => s[p].lines[x] < s[j].turn
      BY <3>1, <3>2 DEF Compact!Entry
    <3>5. m[k] = s[p].lines[x]
      BY Zenon, <3>1, <3>2
    <3> QED BY Zenon, <3>3, <3>4, <3>5
  <2>2. CASE \E j \in DOMAIN reply : m[k] = reply[j]
    <3>1. PICK x \in DOMAIN reply : m[k] = reply[x]
      BY <2>2
    <3>2. m[k] \in B
      BY <3>1
    <3> QED BY Zenon, <3>2 DEF CompactPast
  <2> QED BY Zenon, <1>1, <2>1, <2>2 DEF CompactMerges
<1>6. d.reads \subseteq bad
  BY <1>3, <1>5
<1>7. \A j \in DOMAIN s : s[j].kind = "result" /\ ~Compact!Compacted(s[j]) => \A k \in DOMAIN d.lines : d.lines[k] < s[j].turn
  BY Zenon, <1>3, <1>5
<1>8. Len(d.lines) <= CompactMaxDeadEnds /\ Compact!Ascending(d.lines) /\ d.reads = {d.lines[k] : k \in DOMAIN d.lines}
  BY Zenon, <1>3, <1>4
<1>9. CompactMerges(d.lines, old, reply)
  BY Zenon, <1>1, <1>3
<1>10. Compact!Entry(d, s, bad)
  BY <1>6, <1>7, <1>8 DEF Compact!Entry
<1> QED BY <1>3, <1>9, <1>10

(* The merged block tells, or drives out, what the old one and the reply told.  *)
LEMMA CompactMergedTells ==
  ASSUME NEW s, NEW bad, NEW d, d.kind = "dead", Compact!Entry(d, s, bad), NEW old, NEW reply, CompactMerges(d.lines, old, reply)
  PROVE  /\ \A j \in DOMAIN old : old[j] \in d.reads \/ Compact!DrivesOut(d, old[j])
         /\ \A j \in DOMAIN reply : reply[j] \in d.reads \/ Compact!DrivesOut(d, reply[j])
         /\ \A n \in Nat : \/ Len(old) = CompactMaxDeadEnds /\ \A j \in DOMAIN old : old[j] > n
                           \/ Len(reply) = CompactMaxDeadEnds /\ \A j \in DOMAIN reply : reply[j] > n
                           => Compact!DrivesOut(d, n)
<1> DEFINE m == d.lines
<1>1. d.reads = {m[k] : k \in DOMAIN m}
  BY DEF Compact!Entry
<1>2. CompactMerges(m, old, reply)
  OBVIOUS
<1>3. \A n : Len(m) = CompactMaxDeadEnds /\ (\A k \in DOMAIN m : m[k] > n) => Compact!DrivesOut(d, n)
  BY DEF Compact!DrivesOut
<1> HIDE DEF m
<1>4. \A k \in DOMAIN m : m[k] \in d.reads
  BY <1>1
<1> QED BY Zenon, <1>2, <1>3, <1>4 DEF CompactMerges

(* A reply about the failed turns B, which leaves no turn forgotten but those   *)
(* in `rest`; the block that was there, at p or nowhere; and a part of s that   *)
(* holds this block and no more.                                               *)
CompactAnswers(reply, B, now, lost, rest) ==
  /\ reply \in Seq(Compact!Turn) /\ Compact!Ascending(reply) /\ \A k \in DOMAIN reply : reply[k] \in B
  /\ \A n \in 1 .. now : n \in B => \/ n \in rest \/ \E k \in DOMAIN reply : reply[k] = n
                                    \/ Len(reply) = CompactMaxDeadEnds /\ \A k \in DOMAIN reply : reply[k] > n
  /\ lost \subseteq rest
CompactBlock(s, bad, p, old) ==
  /\ old \in Seq(Compact!Turn) /\ Compact!Ascending(old) /\ Len(old) <= CompactMaxDeadEnds /\ p \in Nat
  /\ (p = 0 /\ old = <<>>) \/ (p \in DOMAIN s /\ s[p].kind = "dead" /\ s[p].lines = old /\ Compact!Entry(s[p], s, bad))
CompactAround(s, p, a, b) ==
  /\ CompactWhole(s, a, b)
  /\ \A j \in DOMAIN s : j < a \/ b < j \/ (j = p /\ p # 0)
  /\ \A j \in DOMAIN s : (j < a \/ b < j) => s[j].kind # "dead"

(* The dead ends of a reply, beside or in place of those that were there.      *)
LEMMA CompactNotedSplice ==
  ASSUME NEW s, NEW now \in Nat, NEW bad, NEW lost, NEW B \in SUBSET bad,
         NEW was, was = lost \cup B, Compact!History(s, now, bad, was), CompactPast(s, B),
         NEW reply, NEW rest, CompactAnswers(reply, B, now, lost, rest),
         NEW p, NEW old, CompactBlock(s, bad, p, old),
         NEW a, NEW b, CompactAround(s, p, a, b),
         NEW t, t = Compact!Splice(s, a, b, <<Compact!Merge(old, reply)>>)
  PROVE  Compact!History(t, now, bad, rest)
<1> DEFINE d == Compact!Merge(old, reply)
           new == <<d>>
<1>0. /\ reply \in Seq(Compact!Turn) /\ Compact!Ascending(reply) /\ \A k \in DOMAIN reply : reply[k] \in B
      /\ old \in Seq(Compact!Turn) /\ Compact!Ascending(old) /\ Len(old) <= CompactMaxDeadEnds /\ p \in Nat
      /\ (p = 0 /\ old = <<>>) \/ (p \in DOMAIN s /\ s[p].kind = "dead" /\ s[p].lines = old /\ Compact!Entry(s[p], s, bad))
  BY Zenon DEF CompactAnswers, CompactBlock
<1>a. \A n \in 1 .. now : n \in B =>
        \/ n \in rest \/ \E k \in DOMAIN reply : reply[k] = n
        \/ Len(reply) = CompactMaxDeadEnds /\ \A k \in DOMAIN reply : reply[k] > n
  BY Zenon DEF CompactAnswers
<1>b. lost \subseteq rest
  BY Zenon DEF CompactAnswers
<1>c. /\ CompactWhole(s, a, b)
      /\ \A j \in DOMAIN s : j < a \/ b < j \/ (j = p /\ p # 0)
      /\ \A j \in DOMAIN s : (j < a \/ b < j) => s[j].kind # "dead"
  BY Zenon DEF CompactAround
<1>1. Compact!Entry(d, s, bad) /\ d.kind = "dead" /\ d \in Compact!MessageType /\ CompactMerges(d.lines, old, reply)
  BY <1>0, CompactNotedEntry
<1> HIDE DEF d
<1>2. new \in Seq(Compact!MessageType) /\ DOMAIN new = {1} /\ new[1] = d
  BY <1>1
<1>3. t = Compact!Splice(s, a, b, new)
  BY DEF d
<1> HIDE DEF new
<1>4. CompactPlain(new) /\ CompactAlone(s, a, b, new) /\ \A k \in DOMAIN new : new[k].kind = "dead" => Compact!Entry(new[k], s, bad)
  BY <1>1, <1>2, <1>c DEF CompactPlain, CompactAlone, CompactAloneIn, Compact!FullKinds
<1>5. /\ \A j \in DOMAIN old : old[j] \in d.reads \/ Compact!DrivesOut(d, old[j])
      /\ \A j \in DOMAIN reply : reply[j] \in d.reads \/ Compact!DrivesOut(d, reply[j])
      /\ \A n \in Nat : \/ Len(old) = CompactMaxDeadEnds /\ \A j \in DOMAIN old : old[j] > n
                        \/ Len(reply) = CompactMaxDeadEnds /\ \A j \in DOMAIN reply : reply[j] > n
                        => Compact!DrivesOut(d, n)
  BY <1>1, CompactMergedTells
<1>6. ASSUME NEW n \in bad, n \in d.reads \/ Compact!DrivesOut(d, n) PROVE CompactStays(s, a, b, new, bad, n)
  BY Zenon, <1>2, <1>6 DEF CompactStays
<1>7. ASSUME NEW n \in 1 .. now, n \notin rest PROVE CompactStays(s, a, b, new, bad, n)
  <2>0. n \in Nat
    OBVIOUS
  <2>1. CASE n \in B
    <3>1. \/ \E k \in DOMAIN reply : reply[k] = n
          \/ Len(reply) = CompactMaxDeadEnds /\ \A k \in DOMAIN reply : reply[k] > n
      BY <1>7, <1>a, <2>1
    <3>2. n \in d.reads \/ Compact!DrivesOut(d, n)
      BY Zenon, <1>5, <2>0, <3>1
    <3>3. n \in bad
      BY <2>1
    <3> QED BY <1>6, <3>2, <3>3
  <2>2. CASE n \notin B
    <3>1. Compact!Reads(s, n) \/ (n \in bad /\ Compact!DrivenOut(s, n))
      BY <1>7, <1>b, <2>2 DEF Compact!History, Compact!Remembered
    <3>2. CASE \E j \in DOMAIN s : (j < a \/ b < j) /\ n \in s[j].reads
      BY Zenon, <3>2 DEF CompactStays
    <3>3. CASE n \in bad /\ \E j \in DOMAIN s : (j < a \/ b < j) /\ Compact!DrivesOut(s[j], n)
      BY Zenon, <3>3 DEF CompactStays
    <3>4. CASE p # 0 /\ p \in DOMAIN s /\ n \in s[p].reads
      <4>1. s[p].lines = old /\ Compact!Entry(s[p], s, bad)
        BY <1>0, <3>4
      <4>2. n \in bad /\ \E k \in DOMAIN old : old[k] = n
        BY <3>4, <4>1 DEF Compact!Entry
      <4>3. n \in d.reads \/ Compact!DrivesOut(d, n)
        BY Zenon, <1>5, <4>2
      <4> QED BY <1>6, <4>2, <4>3
    <3>5. CASE p # 0 /\ p \in DOMAIN s /\ n \in bad /\ Compact!DrivesOut(s[p], n)
      <4>1. s[p].lines = old
        BY <1>0, <3>5
      <4>2. Len(old) = CompactMaxDeadEnds /\ \A j \in DOMAIN old : old[j] > n
        BY Zenon, <3>5, <4>1 DEF Compact!DrivesOut
      <4>3. Compact!DrivesOut(d, n)
        BY Zenon, <1>5, <2>0, <4>2
      <4> QED BY <1>6, <3>5, <4>3
    <3> QED BY Zenon, <1>c, <3>1, <3>2, <3>3, <3>4, <3>5 DEF Compact!Reads, Compact!DrivenOut
  <2> QED BY <2>1, <2>2
<1>8. \A n \in 1 .. now : n \in rest \/ CompactStays(s, a, b, new, bad, n)
  BY Zenon, <1>7
<1> QED BY <1>2, <1>3, <1>4, <1>8, <1>c, CompactSplicedHistory

LEMMA CompactNotedHistory ==
  ASSUME NEW s, NEW now \in Nat, NEW bad, NEW lost, NEW B \in SUBSET bad, B \subseteq Compact!Turn,
         Compact!History(s, now, bad, lost \cup B), CompactPast(s, B),
         NEW at \in 2 .. Len(s) + 1, s[at - 1].kind # "use",
         Compact!Mistaken(s) = {}, NEW reply \in Compact!Replies(B), NEW t, t = Compact!Noted(s, at, reply)
  PROVE  Compact!History(t, now, bad, IF reply = <<>> THEN lost \cup B ELSE lost)
<1> DEFINE rest == IF reply = <<>> THEN lost \cup B ELSE lost
           p == Compact!Position(s, Compact!DeadEndsKinds)
<1>1. /\ reply \in Seq(Compact!Turn) /\ Compact!Ascending(reply) /\ \A k \in DOMAIN reply : reply[k] \in B
      /\ \/ reply = <<>>
         \/ \A n \in B : \/ \E k \in DOMAIN reply : reply[k] = n
                         \/ Len(reply) = CompactMaxDeadEnds /\ \A k \in DOMAIN reply : reply[k] > n
  BY CompactReplyIs
<1>2. /\ \A n \in 1 .. now : n \in B => \/ n \in rest \/ \E k \in DOMAIN reply : reply[k] = n
                                        \/ Len(reply) = CompactMaxDeadEnds /\ \A k \in DOMAIN reply : reply[k] > n
      /\ lost \subseteq rest
  <2>1. CASE reply = <<>>
    <3>1. rest = lost \cup B
      BY <2>1
    <3> HIDE DEF rest
    <3> QED BY <3>1
  <2>2. CASE reply # <<>>
    <3>1. rest = lost
      BY <2>2
    <3> HIDE DEF rest
    <3> QED BY Zenon, <1>1, <2>2, <3>1
  <2> QED BY <2>1, <2>2
<1>3. Compact!Shaped(s) /\ Compact!Single(s) /\ Compact!Listed(s, bad) /\ s \in Seq(Compact!MessageType)
  BY DEF Compact!History, Compact!Shaped
<1>4. \/ p = 0 /\ \A i \in DOMAIN s : s[i].kind # "dead"
      \/ p \in DOMAIN s /\ p # 0 /\ s[p].kind = "dead"
  <2>1. \/ p = 0 /\ \A i \in DOMAIN s : s[i].kind \notin Compact!DeadEndsKinds
        \/ p \in DOMAIN s /\ p # 0 /\ s[p].kind \in Compact!DeadEndsKinds
    BY <1>3, CompactPositionIs
  <2>2. p \in DOMAIN s => s[p].kind # "echo"
    BY DEF Compact!Mistaken
  <2> HIDE DEF p
  <2> QED BY <2>1, <2>2 DEF Compact!DeadEndsKinds
<1>5. t = IF p = 0 THEN Compact!Splice(s, at, at - 1, <<Compact!Merge(<<>>, reply)>>)
          ELSE Compact!Splice(s, p, p, <<Compact!Merge(s[p].lines, reply)>>)
  BY DEF Compact!Noted
<1> HIDE DEF rest, p
<1>8. CompactAnswers(reply, B, now, lost, rest)
  BY Zenon, <1>1, <1>2 DEF CompactAnswers
<1> DEFINE was == lost \cup B
<1>9. was = lost \cup B /\ Compact!History(s, now, bad, was)
  OBVIOUS
<1> HIDE DEF was
<1>6. CASE p = 0
  <2>1. \A i \in DOMAIN s : s[i].kind # "dead"
    BY <1>3, <1>4, <1>6
  <2>2. CompactWhole(s, at, at - 1) /\ at - 1 \in Nat /\ \A j \in DOMAIN s : j < at \/ at - 1 < j
    BY <1>3, CompactInsertWhole
  <2>3. <<>> \in Seq(Compact!Turn) /\ Compact!Ascending(<<>>) /\ Len(<<>>) <= CompactMaxDeadEnds /\ p \in Nat
    BY <1>6, CompactionAssumption DEF Compact!Ascending
  <2> DEFINE b == at - 1
             old == <<>>
  <2>4. t = Compact!Splice(s, at, b, <<Compact!Merge(old, reply)>>)
    BY <1>5, <1>6
  <2>5. CompactWhole(s, at, b) /\ \A j \in DOMAIN s : j < at \/ b < j
    BY <2>2
  <2>6. old \in Seq(Compact!Turn) /\ Compact!Ascending(old) /\ Len(old) <= CompactMaxDeadEnds /\ p = 0 /\ old = <<>>
    BY <1>6, <2>3
  <2> HIDE DEF b, old
  <2>7. CompactAround(s, p, at, b)
    BY <2>1, <2>5 DEF CompactAround
  <2>8. CompactBlock(s, bad, p, old)
    BY <2>3, <2>6 DEF CompactBlock
  <2>9. Compact!History(t, now, bad, rest)
    BY <1>8, <1>9, <2>4, <2>7, <2>8, CompactNotedSplice
  <2> QED BY <2>9 DEF rest
<1>7. CASE p # 0
  <2>1. p \in DOMAIN s /\ s[p].kind = "dead" /\ p \in Nat
    BY <1>3, <1>4, <1>7
  <2>2. CompactWhole(s, p, p) /\ \A j \in DOMAIN s : j # p => j < p \/ p < j
    BY <1>3, <2>1, CompactReplaceWhole
  <2>3. Compact!Entry(s[p], s, bad)
    BY <1>3, <2>1 DEF Compact!Listed
  <2> DEFINE old == s[p].lines
  <2>4. old \in Seq(Compact!Turn)
    <3>1. s[p] \in Compact!MessageType
      BY <1>3, <2>1
    <3> QED BY <3>1 DEF Compact!MessageType
  <2>5. Compact!Ascending(old) /\ Len(old) <= CompactMaxDeadEnds
    BY <2>3 DEF Compact!Entry
  <2>6. t = Compact!Splice(s, p, p, <<Compact!Merge(old, reply)>>)
    BY <1>5, <1>7
  <2>7. p \in DOMAIN s /\ s[p].kind = "dead" /\ s[p].lines = old /\ Compact!Entry(s[p], s, bad)
    BY <2>1, <2>3
  <2> HIDE DEF old
  <2>8. \A j \in DOMAIN s : j < p \/ p < j \/ (j = p /\ p # 0)
    BY <1>7, <2>2
  <2>9. \A j \in DOMAIN s : (j < p \/ p < j) => s[j].kind # "dead"
    <3> SUFFICES ASSUME NEW j \in DOMAIN s, j < p \/ p < j, s[j].kind = "dead" PROVE FALSE
      OBVIOUS
    <3>1. j = p
      BY <1>3, <2>1 DEF Compact!Single, Compact!Unique
    <3> QED BY <2>1, <3>1
  <2>10. CompactBlock(s, bad, p, old) /\ CompactAround(s, p, p, p)
    BY <2>1, <2>2, <2>4, <2>5, <2>7, <2>8, <2>9 DEF CompactBlock, CompactAround
  <2>11. Compact!History(t, now, bad, rest)
    BY <1>8, <1>9, <2>6, <2>10, CompactNotedSplice
  <2> QED BY <2>11 DEF rest
<1> QED BY <1>6, <1>7

(* The place behind the last of the pairs that are compacted.                   *)
LEMMA CompactLastFresh ==
  ASSUME NEW s, Compact!Shaped(s), NEW fresh \in SUBSET Compact!ToolPairs(s), fresh # {}
  PROVE  \E i \in fresh : /\ \A j \in fresh : j <= i
                          /\ i \in Nat /\ i + 1 \in 1 .. Len(s) /\ s[i + 1].kind = "result"
<1>1. /\ Compact!ToolPairs(s) \subseteq Nat /\ Len(s) \in Nat
      /\ \A i \in Compact!ToolPairs(s) : i \in 1 .. Len(s) /\ i + 1 \in 1 .. Len(s) /\ s[i + 1].kind = "result"
  BY CompactPairsAre DEF Compact!Shaped
<1>2. fresh \in SUBSET Nat /\ \A i \in fresh : i <= Len(s)
  BY <1>1
<1>3. \E i \in fresh : \A j \in fresh : j <= i
  BY <1>1, <1>2, CompactHasHighest
<1> QED BY <1>1, <1>2, <1>3

LEMMA CompactPastFewer ==
  ASSUME NEW s, NEW T, CompactPast(s, T), NEW B \in SUBSET T
  PROVE  CompactPast(s, B)
BY Zenon DEF CompactPast

(* A summary only if some turn went well; dead ends only if some turn failed.   *)
CompactWithSummary(u, at, good) == IF good = {} THEN u ELSE Compact!Summed(u, at, good)
CompactPlaceAfter(at, good) == IF good = {} THEN at ELSE at + 1
CompactWithDeadEnds(w, place, B, reply) == IF B = {} THEN w ELSE Compact!Noted(w, place, reply)
CompactLostTo(lost, B, reply) == IF B # {} /\ reply = <<>> THEN lost \cup B ELSE lost

LEMMA CompactMaybeSummed ==
  ASSUME NEW u, NEW now, NEW bad, NEW lost, NEW told, NEW at, CompactBehind(u, now, bad, lost, told, at)
  PROVE  CompactNoteworthy(CompactWithSummary(u, at, told \ bad), now, bad, lost, told, told \cap bad, CompactPlaceAfter(at, told \ bad))
<1> DEFINE w == CompactWithSummary(u, at, told \ bad)
           place == CompactPlaceAfter(at, told \ bad)
<1>1. CASE told \ bad = {}
  <2>1. w = u /\ place = at /\ told = told \cap bad
    BY <1>1 DEF CompactWithSummary, CompactPlaceAfter
  <2>2. CompactNoteworthy(u, now, bad, lost, told, told, at)
    BY Zenon DEF CompactBehind, CompactNoteworthy
  <2> QED BY Zenon, <2>1, <2>2
<1>2. CASE told \ bad # {}
  <2>1. w = Compact!Summed(u, at, told \ bad) /\ place = at + 1
    BY <1>2 DEF CompactWithSummary, CompactPlaceAfter
  <2> HIDE DEF w, place
  <2>2. CompactNoteworthy(w, now, bad, lost, told, told \cap bad, at + 1)
    BY Zenon, <2>1, CompactSummedHistory
  <2>3. CompactNoteworthy(w, now, bad, lost, told, told \cap bad, place)
    BY Zenon, <2>1, <2>2
  <2> QED BY Zenon, <2>3 DEF w, place
<1> QED BY <1>1, <1>2

LEMMA CompactMaybeNoted ==
  ASSUME NEW w, NEW now, NEW bad, bad \subseteq 1 .. now, NEW lost, NEW told, NEW place,
         now \in Nat, now <= CompactMaxTurns, CompactNoteworthy(w, now, bad, lost, told, told \cap bad, place),
         NEW reply \in Compact!Replies(told \cap bad), told \cap bad # {} => Compact!Mistaken(w) = {}
  PROVE  Compact!History(CompactWithDeadEnds(w, place, told \cap bad, reply), now, bad, CompactLostTo(lost, told \cap bad, reply))
<1> DEFINE B == told \cap bad
           t == CompactWithDeadEnds(w, place, B, reply)
           rest == CompactLostTo(lost, B, reply)
<1>0. /\ Compact!History(w, now, bad, lost \cup B) /\ CompactPast(w, told)
      /\ place \in 2 .. Len(w) + 1 /\ w[place - 1].kind # "use"
  BY Zenon DEF CompactNoteworthy
<1>a. B \in SUBSET bad /\ B \in SUBSET told /\ reply \in Compact!Replies(B) /\ (B # {} => Compact!Mistaken(w) = {})
  OBVIOUS
<1> HIDE DEF B
<1>1. CASE B = {}
  <2>1. t = w /\ rest = lost /\ lost \cup B = lost
    BY <1>1 DEF CompactWithDeadEnds, CompactLostTo
  <2> QED BY Zenon, <1>0, <2>1 DEF B
<1>2. CASE B # {}
  <2>1. t = Compact!Noted(w, place, reply)
    BY <1>2 DEF CompactWithDeadEnds
  <2>2. B \subseteq Compact!Turn
    <3> SUFFICES ASSUME NEW n \in B PROVE n \in 1 .. CompactMaxTurns
      BY DEF Compact!Turn
    <3>1. n \in 1 .. now /\ CompactMaxTurns \in Nat
      BY <1>a, CompactionAssumption
    <3> QED BY <3>1
  <2>3. CompactPast(w, B)
    BY Zenon, <1>0, <1>a, CompactPastFewer
  <2>4. rest = IF reply = <<>> THEN lost \cup B ELSE lost
    BY <1>2 DEF CompactLostTo
  <2> HIDE DEF t, rest
  <2>5. Compact!History(t, now, bad, IF reply = <<>> THEN lost \cup B ELSE lost)
    BY <1>0, <1>2, <1>a, <2>1, <2>2, <2>3, CompactNotedHistory
  <2>6. Compact!History(t, now, bad, rest)
    BY Zenon, <2>4, <2>5
  <2> QED BY <2>6 DEF t, rest, B
<1> QED BY <1>1, <1>2

(* Blanking the old pairs is followed by what is said of them.                 *)
LEMMA CompactBlankedBehind ==
  ASSUME NEW s, NEW now, now \in Nat, now <= CompactMaxTurns, NEW bad, NEW lost, Compact!History(s, now, bad, lost),
         NEW fresh, fresh = Compact!FreshPairs(s), fresh # {},
         NEW at, at = (CHOOSE i \in fresh : \A j \in fresh : j <= i) + 2,
         NEW told, told = {s[i].turn : i \in fresh},
         NEW u, u = Compact!Blanked(s, fresh)
  PROVE  CompactBehind(u, now, bad, lost, told, at)
<1>0. Compact!Shaped(s)
  BY DEF Compact!History
<1>1. s \in Seq(Compact!MessageType) /\ Len(s) \in Nat /\ DOMAIN s = 1 .. Len(s)
  BY <1>0 DEF Compact!Shaped
<1>2. CompactIsBlanked(u, s, fresh)
  BY <1>1, CompactBlankedIs
<1>3. Compact!History(u, now, bad, lost \cup told) /\ CompactPast(u, told) /\ told \subseteq 1 .. now
  BY <1>2, CompactBlankedHistory
<1>4. at \in 2 .. Len(u) + 1 /\ u[at - 1].kind # "use"
  <2>1. fresh \in SUBSET Compact!ToolPairs(s)
    BY DEF Compact!FreshPairs
  <2>2. \E i \in fresh : /\ \A j \in fresh : j <= i
                         /\ i \in Nat /\ i + 1 \in 1 .. Len(s) /\ s[i + 1].kind = "result"
    BY Zenon, <1>0, <2>1, CompactLastFresh
  <2>3. \A i \in fresh : i \in Nat /\ i + 1 \in 1 .. Len(s) /\ s[i + 1].kind = "result"
    BY <1>0, <2>1, CompactPairsAre
  <2>4. PICK i \in fresh : at = i + 2
    BY Zenon, <2>2
  <2>5. i \in Nat /\ i + 1 \in 1 .. Len(s) /\ s[i + 1].kind = "result" /\ at - 1 = i + 1
    BY <2>3, <2>4
  <2>6. Len(u) = Len(s) /\ u[i + 1].kind = s[i + 1].kind
    BY <1>1, <1>2, <2>5 DEF CompactIsBlanked
  <2>7. at \in 2 .. Len(u) + 1
    BY <1>1, <2>4, <2>5, <2>6
  <2>8. u[at - 1].kind = "result"
    BY <2>5, <2>6
  <2> QED BY <2>7, <2>8
<1> QED BY Zenon, <1>3, <1>4 DEF CompactBehind

(* A compaction of the old pairs keeps a history.                              *)
LEMMA CompactToldHistory ==
  ASSUME NEW u, NEW now, NEW bad, bad \subseteq 1 .. now, NEW lost, NEW told, NEW at,
         CompactBehind(u, now, bad, lost, told, at), NEW reply \in Compact!Replies(told \cap bad),
         told \cap bad # {} => Compact!Mistaken(CompactWithSummary(u, at, told \ bad)) = {}
  PROVE  Compact!History(CompactWithDeadEnds(CompactWithSummary(u, at, told \ bad), CompactPlaceAfter(at, told \ bad), told \cap bad, reply),
                 now, bad, CompactLostTo(lost, told \cap bad, reply))
<1>1. now \in Nat /\ now <= CompactMaxTurns
  BY Zenon DEF CompactBehind
<1> DEFINE w == CompactWithSummary(u, at, told \ bad)
           place == CompactPlaceAfter(at, told \ bad)
<1>2. CompactNoteworthy(w, now, bad, lost, told, told \cap bad, place)
  BY Zenon, CompactMaybeSummed
<1>a. told \cap bad # {} => Compact!Mistaken(w) = {}
  OBVIOUS
<1> HIDE DEF w, place
<1>3. Compact!History(CompactWithDeadEnds(w, place, told \cap bad, reply), now, bad, CompactLostTo(lost, told \cap bad, reply))
  BY <1>1, <1>2, <1>a, CompactMaybeNoted
<1> QED BY <1>3 DEF w, place

(* What a full compaction puts in the place of its region.                     *)
CompactIsReplacement(new, s, e, m) ==
  /\ new \in Seq(Compact!MessageType) /\ 1 \in DOMAIN new /\ new[1] = m
  /\ \A k \in DOMAIN new : k = 1 \/ (k = 2 /\ \E j \in 2 .. e : s[j].kind = "dead" /\ new[k] = s[j])
  /\ \A j \in 2 .. e : s[j].kind = "dead" => \E k \in DOMAIN new : new[k] = s[j]

(* The region that is cut out, and what its summary tells of it.               *)
CompactIsRegion(region, s, e) ==
  /\ region \in Seq(Compact!MessageType) /\ Len(region) = e - 1 /\ DOMAIN region = 1 .. e - 1
  /\ \A i \in 1 .. e - 1 : region[i] = s[i + 1]
CompactTellsOf(m, kind, region, s, e) ==
  /\ m \in Compact!MessageType /\ m.kind = kind /\ m.reads = Compact!Told(region)
  /\ \A j \in 2 .. e : s[j].kind # "dead" => \A n \in s[j].reads : n \in Compact!Told(region)
LEMMA CompactRegionTold ==
  ASSUME NEW s \in Seq(Compact!MessageType), NEW e \in Nat, 1 < e, e <= Len(s),
         NEW region, region = SubSeq(s, 2, e), NEW kind \in Compact!FullKinds,
         NEW m, m = Compact!FullSummaryMessage(kind, Compact!Told(region))
  PROVE  CompactIsRegion(region, s, e) /\ CompactTellsOf(m, kind, region, s, e)
<1>0. Len(s) \in Nat /\ DOMAIN s = 1 .. Len(s) /\ \A i \in 1 .. Len(s) : s[i] \in Compact!MessageType
  OBVIOUS
<1>1. /\ region \in Seq(Compact!MessageType) /\ Len(region) = e - 1 /\ DOMAIN region = 1 .. e - 1
      /\ \A i \in 1 .. e - 1 : region[i] = s[i + 1]
  <2>1. /\ region \in Seq(Compact!MessageType) /\ Len(region) = e - 2 + 1
        /\ \A i \in 1 .. e - 2 + 1 : region[i] = s[2 + i - 1]
    BY <1>0
  <2>2. e - 2 + 1 = e - 1 /\ \A i \in 1 .. e - 1 : 2 + i - 1 = i + 1
    OBVIOUS
  <2>3. DOMAIN region = 1 .. Len(region)
    BY <2>1
  <2>4. \A i \in 1 .. e - 1 : region[i] = s[i + 1]
    BY <2>1, <2>2
  <2> QED BY <2>1, <2>2, <2>3, <2>4
<1>2. \A j \in 2 .. e : j - 1 \in 1 .. e - 1 /\ region[j - 1] = s[j] /\ j \in 1 .. Len(s)
  <2> TAKE j \in 2 .. e
  <2>1. j - 1 \in 1 .. e - 1 /\ (j - 1) + 1 = j /\ j \in 1 .. Len(s)
    BY <1>0
  <2>2. region[j - 1] = s[(j - 1) + 1]
    BY <1>1, <2>1
  <2> QED BY <2>1, <2>2
<1>6. m \in Compact!MessageType /\ m.kind = kind /\ m.reads = Compact!Told(region)
  <2>1. Compact!Told(region) \in SUBSET Compact!Turn
    <3> SUFFICES ASSUME NEW i \in DOMAIN region PROVE region[i].reads \subseteq Compact!Turn
      BY DEF Compact!Told
    <3>1. region[i] \in Compact!MessageType
      BY <1>1
    <3> QED BY <3>1 DEF Compact!MessageType
  <2>2. <<>> \in Seq(Compact!Turn) /\ 0 \in 0 .. CompactMaxTurns
    BY CompactionAssumption
  <2> QED BY <2>1, <2>2 DEF Compact!FullSummaryMessage, Compact!Message, Compact!MessageType, Compact!FullKinds
<1>7. \A j \in 2 .. e : s[j].kind # "dead" => \A n \in s[j].reads : n \in Compact!Told(region)
  <2> SUFFICES ASSUME NEW j \in 2 .. e, NEW n \in s[j].reads, s[j].kind # "dead" PROVE n \in Compact!Told(region)
    OBVIOUS
  <2>1. j - 1 \in DOMAIN region /\ region[j - 1] = s[j]
    BY <1>1, <1>2
  <2>2. n \in region[j - 1].reads /\ region[j - 1].kind # "dead"
    BY Zenon, <2>1
  <2> QED BY <2>1, <2>2 DEF Compact!Told
<1> QED BY Zenon, <1>1, <1>6, <1>7 DEF CompactIsRegion, CompactTellsOf

LEMMA CompactReplacementIs ==
  ASSUME NEW s \in Seq(Compact!MessageType), Compact!Single(s), NEW e \in Nat, 1 < e, e <= Len(s),
         NEW region, region = SubSeq(s, 2, e), NEW kind \in Compact!FullKinds
  PROVE  CompactIsReplacement(<<Compact!FullSummaryMessage(kind, Compact!Told(region))>> \o Compact!Preserved(region), s, e,
                       Compact!FullSummaryMessage(kind, Compact!Told(region)))
<1> DEFINE m == Compact!FullSummaryMessage(kind, Compact!Told(region))
           v == Compact!Preserved(region)
<1>0. Len(s) \in Nat /\ DOMAIN s = 1 .. Len(s) /\ \A i \in 1 .. Len(s) : s[i] \in Compact!MessageType
  OBVIOUS
<1>1. /\ region \in Seq(Compact!MessageType) /\ Len(region) = e - 1 /\ DOMAIN region = 1 .. e - 1
      /\ \A i \in 1 .. e - 1 : region[i] = s[i + 1]
      /\ m \in Compact!MessageType
  <2> DEFINE told == Compact!FullSummaryMessage(kind, Compact!Told(region))
  <2>1. told = Compact!FullSummaryMessage(kind, Compact!Told(region)) /\ told = m
    OBVIOUS
  <2> HIDE DEF told, m
  <2>2. CompactIsRegion(region, s, e) /\ CompactTellsOf(told, kind, region, s, e)
    BY <2>1, CompactRegionTold
  <2> QED BY Zenon, <2>1, <2>2 DEF CompactIsRegion, CompactTellsOf
<1>2. \A j \in 2 .. e : j - 1 \in 1 .. e - 1 /\ region[j - 1] = s[j] /\ j \in 1 .. Len(s)
  <2> TAKE j \in 2 .. e
  <2>1. j - 1 \in 1 .. e - 1 /\ (j - 1) + 1 = j /\ j \in 1 .. Len(s)
    BY <1>0
  <2>2. region[j - 1] = s[(j - 1) + 1]
    BY <1>1, <2>1
  <2> QED BY <2>1, <2>2
<1>3. \A i, j \in 1 .. Len(region) : region[i].kind = "dead" /\ region[j].kind = "dead" => i = j
  <2> SUFFICES ASSUME NEW i \in 1 .. e - 1, NEW j \in 1 .. e - 1, region[i].kind = "dead", region[j].kind = "dead"
               PROVE  i = j
    BY <1>1
  <2>1. i + 1 \in DOMAIN s /\ j + 1 \in DOMAIN s
    <3>1. DOMAIN s = 1 .. Len(s) /\ Len(s) \in Nat
      OBVIOUS
    <3>2. i + 1 \in 1 .. Len(s)
      BY <3>1
    <3>3. j + 1 \in 1 .. Len(s)
      BY <3>1
    <3> QED BY Zenon, <3>1, <3>2, <3>3
  <2>2. s[i + 1].kind = "dead" /\ s[j + 1].kind = "dead"
    BY <1>1
  <2>3. i + 1 = j + 1
    BY <2>1, <2>2 DEF Compact!Single, Compact!Unique
  <2> QED BY <2>3
<1>4. CompactKeptIs(region, v, Len(region))
  <2>1. Len(region) \in Nat
    BY <1>1
  <2> QED BY <1>3, <2>1, CompactPreservedIs
<1>5. /\ (\A j \in 2 .. e : s[j].kind # "dead") => v = <<>>
      /\ \A j \in 2 .. e : s[j].kind = "dead" => v = <<s[j]>>
  <2>1. (\A j \in 1 .. e - 1 : region[j].kind # "dead") => v = <<>>
    BY <1>1, <1>4 DEF CompactKeptIs
  <2>2. \A j \in 1 .. e - 1 : region[j].kind = "dead" => v = <<region[j]>>
    BY <1>1, <1>4 DEF CompactKeptIs
  <2>3. \A i \in 1 .. e - 1 : i + 1 \in 2 .. e
    OBVIOUS
  <2> HIDE DEF v
  <2>4. (\A j \in 2 .. e : s[j].kind # "dead") => v = <<>>
    BY <1>1, <2>1, <2>3
  <2>5. \A j \in 2 .. e : s[j].kind = "dead" => v = <<s[j]>>
    BY Zenon, <1>2, <2>2
  <2> QED BY <2>4, <2>5
<1> HIDE DEF m, v
<1>8. CASE \A j \in 2 .. e : s[j].kind # "dead"
  <2>1. <<m>> \o v = <<m>>
    <3>1. v = <<>> /\ <<m>> \in Seq(Compact!MessageType)
      BY <1>1, <1>5, <1>8
    <3>2. <<m>> \o <<>> = <<m>>
      BY <3>1
    <3> QED BY Zenon, <3>1, <3>2
  <2>2. CompactIsReplacement(<<m>>, s, e, m)
    BY <1>1, <1>8 DEF CompactIsReplacement
  <2> QED BY Zenon, <2>1, <2>2 DEF m, v
<1>9. ASSUME NEW j \in 2 .. e, s[j].kind = "dead"
      PROVE  CompactIsReplacement(<<m>> \o v, s, e, m)
  <2> DEFINE d == s[j]
  <2>1. v = <<d>> /\ d \in Compact!MessageType
    BY <1>0, <1>2, <1>5, <1>9
  <2>2. \A i \in 2 .. e : s[i].kind = "dead" => i = j
    BY <1>0, <1>2, <1>9 DEF Compact!Single, Compact!Unique
  <2> DEFINE new == <<m>> \o <<d>>
  <2>3. new \in Seq(Compact!MessageType) /\ DOMAIN new = {1, 2} /\ new[1] = m /\ new[2] = d
    <3>1. <<m>> \in Seq(Compact!MessageType) /\ <<d>> \in Seq(Compact!MessageType)
      BY <1>1, <2>1
    <3> HIDE DEF d
    <3>2. new \in Seq(Compact!MessageType) /\ Len(new) = 2 /\ new[1] = m /\ new[2] = d
      BY <3>1
    <3>3. DOMAIN new = 1 .. 2
      BY <3>2
    <3>4. 1 .. 2 = {1, 2}
      OBVIOUS
    <3> QED BY <3>2, <3>3, <3>4
  <2>4. <<m>> \o v = new
    BY Zenon, <2>1
  <2> HIDE DEF new
  <2>5. new[2] = s[j]
    BY <2>3
  <2>6. CompactIsReplacement(new, s, e, m)
    <3> HIDE DEF d
    <3> QED BY Zenon, <1>9, <2>2, <2>3, <2>5 DEF CompactIsReplacement
  <2> QED BY <2>4, <2>6
<1> QED BY Zenon, <1>8, <1>9 DEF m, v

(* The first pair that a full compaction keeps.                                *)
LEMMA CompactFirstKeptIs ==
  ASSUME NEW s, Compact!Shaped(s), Cardinality(Compact!ToolPairs(s)) > CompactFullKeepRecentPairs
  PROVE  Compact!FirstKept(s) \in Compact!ToolPairs(s)
<1> DEFINE P == Compact!ToolPairs(s)
           kept == Compact!Recent(P, CompactFullKeepRecentPairs)
<1>1. P \in SUBSET Nat /\ IsFiniteSet(P) /\ Len(s) \in Nat /\ \A i \in P : i <= Len(s)
  BY CompactPairsAre DEF Compact!Shaped
<1>2. CompactFullKeepRecentPairs \in Nat \ {0}
  BY CompactionAssumption
<1>3. P # {}
  <2>1. Cardinality({}) = 0
    BY FS_EmptySet
  <2> QED BY <1>2, <2>1
<1> HIDE DEF P
<1>4. \E i \in kept : \A j \in kept : i <= j
  BY <1>1, <1>2, <1>3, CompactRecentFirst
<1>5. kept \subseteq P
  BY DEF Compact!Recent
<1>6. Compact!FirstKept(s) = CHOOSE i \in kept : \A j \in kept : i <= j
  BY DEF Compact!FirstKept, P
<1> HIDE DEF kept
<1>7. Compact!FirstKept(s) \in kept
  BY <1>4, <1>6
<1> QED BY <1>5, <1>7 DEF P

(* What is cut out may give way to its summary.                                *)
LEMMA CompactReplacedHistory ==
  ASSUME NEW s, NEW now, NEW bad, NEW lost, Compact!History(s, now, bad, lost),
         \A j \in DOMAIN s : s[j].kind \notin Compact!FullKinds,
         NEW e, e \in Nat, e > 1, e < Len(s), s[e + 1].kind = "use",
         NEW m, m.kind \in Compact!FullKinds, \A j \in 2 .. e : s[j].kind # "dead" => \A n \in s[j].reads : n \in m.reads,
         NEW new, CompactIsReplacement(new, s, e, m)
  PROVE  Compact!History(Compact!Splice(s, 2, e, new), now, bad, lost)
<1>1. Compact!Shaped(s) /\ Compact!Single(s) /\ Compact!Listed(s, bad) /\ Compact!Remembered(s, now, bad, lost)
  BY DEF Compact!History
<1>2. s \in Seq(Compact!MessageType) /\ Len(s) \in Nat /\ DOMAIN s = 1 .. Len(s) /\ s # <<>> /\ s[1].kind = "task"
  BY <1>1 DEF Compact!Shaped, Compact!Task, Compact!Message
<1>4. CompactWhole(s, 2, e)
  <2>1. s[2 - 1].kind # "use"
    <3>1. s[1].kind # "use" /\ 2 - 1 = 1
      BY <1>2
    <3> QED BY Zenon, <3>1
  <2>2. 2 <= e + 1 /\ e <= Len(s) /\ s[e + 1].kind # "result"
    BY <1>2
  <2> QED BY <2>1, <2>2 DEF CompactWhole
<1>6. /\ new \in Seq(Compact!MessageType) /\ 1 \in DOMAIN new /\ new[1] = m
      /\ \A k \in DOMAIN new : k = 1 \/ (k = 2 /\ \E j \in 2 .. e : s[j].kind = "dead" /\ new[k] = s[j])
      /\ \A j \in 2 .. e : s[j].kind = "dead" => \E k \in DOMAIN new : new[k] = s[j]
  BY Zenon DEF CompactIsReplacement
<1>7. \A j \in 2 .. e : j \in DOMAIN s
  BY <1>2
<1>8. \A k \in DOMAIN new : new[k].kind \in Compact!FullKinds \/ new[k].kind = "dead"
  BY <1>6
<1>9. CompactPlain(new)
  BY <1>8 DEF CompactPlain, Compact!FullKinds
<1>10. \A k \in DOMAIN new : new[k].kind = "dead" =>
         k = 2 /\ \E j \in DOMAIN s : j \in 2 .. e /\ s[j].kind = "dead" /\ new[k] = s[j]
  BY <1>6, <1>7 DEF Compact!FullKinds
<1>11. \A k \in DOMAIN new : new[k].kind \in Compact!FullKinds => k = 1
  BY <1>6 DEF Compact!FullKinds
<1>12. \A j \in DOMAIN s : s[j].kind \notin Compact!FullKinds
  OBVIOUS
<1>13. CompactAlone(s, 2, e, new)
  <2>1. \A k, l \in DOMAIN new : (new[k].kind = "dead" /\ new[l].kind = "dead")
                                 \/ (new[k].kind \in Compact!FullKinds /\ new[l].kind \in Compact!FullKinds) => k = l
    BY <1>10, <1>11
  <2>2. ASSUME NEW k \in DOMAIN new, NEW j \in DOMAIN s, new[k].kind = "dead", j < 2 \/ e < j, s[j].kind = "dead" PROVE FALSE
    <3>1. PICK i \in DOMAIN s : i \in 2 .. e /\ s[i].kind = "dead"
      BY <1>10, <2>2
    <3>2. i = j
      BY <2>2, <3>1 DEF Compact!Single, Compact!Unique, Compact!History
    <3> QED BY <1>2, <2>2, <3>1, <3>2
  <2> QED BY <1>12, <2>1, <2>2 DEF CompactAlone, CompactAloneIn
<1>14. \A k \in DOMAIN new : new[k].kind = "dead" => Compact!Entry(new[k], s, bad)
  <2> SUFFICES ASSUME NEW k \in DOMAIN new, new[k].kind = "dead" PROVE Compact!Entry(new[k], s, bad)
    OBVIOUS
  <2>1. PICK j \in DOMAIN s : s[j].kind = "dead" /\ new[k] = s[j]
    BY <1>10
  <2>2. Compact!Entry(s[j], s, bad)
    BY <1>1, <2>1 DEF Compact!Listed
  <2> QED BY Zenon, <2>1, <2>2
<1>15. \A j \in DOMAIN s : (j < 2 \/ e < j) \/ j \in 2 .. e
  BY <1>2
<1>16. \A j \in 2 .. e : s[j].kind = "dead" => \E k \in DOMAIN new : new[k] = s[j]
  BY <1>6
<1>17. \A n \in 1 .. now : n \in lost \/ CompactStays(s, 2, e, new, bad, n)
  <2> SUFFICES ASSUME NEW n \in 1 .. now, n \notin lost PROVE CompactStays(s, 2, e, new, bad, n)
    OBVIOUS
  <2>1. Compact!Reads(s, n) \/ (n \in bad /\ Compact!DrivenOut(s, n))
    BY <1>1 DEF Compact!Remembered
  <2>2. CASE Compact!Reads(s, n)
    <3>1. PICK j \in DOMAIN s : n \in s[j].reads
      BY <2>2 DEF Compact!Reads
    <3>2. CASE j < 2 \/ e < j
      BY Zenon, <3>1, <3>2 DEF CompactStays
    <3>3. CASE j \in 2 .. e /\ s[j].kind = "dead"
      <4>1. PICK k \in DOMAIN new : new[k] = s[j]
        BY <1>16, <3>3
      <4>2. n \in new[k].reads
        BY Zenon, <3>1, <4>1
      <4> QED BY Zenon, <4>2 DEF CompactStays
    <3>4. CASE j \in 2 .. e /\ s[j].kind # "dead"
      <4>1. n \in m.reads
        BY <3>1, <3>4
      <4>2. n \in new[1].reads /\ 1 \in DOMAIN new
        BY Zenon, <1>6, <4>1
      <4> QED BY Zenon, <4>2 DEF CompactStays
    <3> QED BY <1>15, <3>2, <3>3, <3>4
  <2>3. CASE n \in bad /\ Compact!DrivenOut(s, n)
    <3>1. PICK j \in DOMAIN s : Compact!DrivesOut(s[j], n)
      BY <2>3 DEF Compact!DrivenOut
    <3>2. CASE j < 2 \/ e < j
      BY Zenon, <2>3, <3>1, <3>2 DEF CompactStays
    <3>3. CASE j \in 2 .. e
      <4>1. s[j].kind = "dead"
        BY Zenon, <3>1 DEF Compact!DrivesOut
      <4>2. PICK k \in DOMAIN new : new[k] = s[j]
        BY <1>16, <3>3, <4>1
      <4>3. Compact!DrivesOut(new[k], n)
        BY Zenon, <3>1, <4>2
      <4> QED BY Zenon, <2>3, <4>3 DEF CompactStays
    <3> QED BY <1>15, <3>2, <3>3
  <2> QED BY <2>1, <2>2, <2>3
<1> QED BY <1>4, <1>6, <1>9, <1>13, <1>14, <1>17, CompactSplicedHistory

(* A full compaction keeps a history.                                          *)
LEMMA CompactRegionEnds ==
  ASSUME NEW s, Compact!Shaped(s), Cardinality(Compact!ToolPairs(s)) > CompactFullKeepRecentPairs,
         NEW e, e = Compact!RegionEnd(s), e > 1
  PROVE  e \in Nat /\ e < Len(s) /\ s[e + 1].kind = "use"
<1> DEFINE f == Compact!FirstKept(s)
<1>1. f \in Compact!ToolPairs(s) /\ e = f - 1
  BY CompactFirstKeptIs DEF Compact!RegionEnd
<1>2. f \in 1 .. Len(s) /\ s[f].kind = "use" /\ Len(s) \in Nat
  BY <1>1, CompactPairsAre DEF Compact!Shaped
<1> HIDE DEF f
<1>3. f = e + 1 /\ e \in Nat /\ e < Len(s)
  BY <1>1, <1>2
<1> QED BY <1>2, <1>3

LEMMA CompactLayer3History ==
  ASSUME NEW s, NEW now, NEW bad, NEW lost, Compact!History(s, now, bad, lost),
         Compact!Position(s, Compact!FullKinds) = 0, Cardinality(Compact!ToolPairs(s)) > CompactFullKeepRecentPairs,
         NEW e, e = Compact!RegionEnd(s), e > 1,
         NEW region, region = SubSeq(s, 2, e), NEW kind \in Compact!FullKinds,
         NEW new, new = <<Compact!FullSummaryMessage(kind, Compact!Told(region))>> \o Compact!Preserved(region)
  PROVE  Compact!History(Compact!Splice(s, 2, e, new), now, bad, lost)
<1> DEFINE m == Compact!FullSummaryMessage(kind, Compact!Told(region))
<1>1. Compact!Shaped(s) /\ Compact!Single(s)
  BY DEF Compact!History
<1>2. s \in Seq(Compact!MessageType) /\ Len(s) \in Nat
  BY <1>1 DEF Compact!Shaped
<1>3. e \in Nat /\ e < Len(s) /\ s[e + 1].kind = "use"
  BY <1>1, CompactRegionEnds
<1>4. /\ CompactIsReplacement(new, s, e, m) /\ m.kind = kind /\ m.reads = Compact!Told(region)
      /\ \A j \in 2 .. e : s[j].kind # "dead" => \A n \in s[j].reads : n \in Compact!Told(region)
  <2>1. 1 < e /\ e <= Len(s)
    BY <1>2, <1>3
  <2>2. CompactIsReplacement(new, s, e, m)
    BY <1>1, <1>2, <1>3, <2>1, CompactReplacementIs
  <2>3. /\ m.kind = kind /\ m.reads = Compact!Told(region)
        /\ \A j \in 2 .. e : s[j].kind # "dead" => \A n \in s[j].reads : n \in Compact!Told(region)
    <3>1. m = Compact!FullSummaryMessage(kind, Compact!Told(region))
      OBVIOUS
    <3> HIDE DEF m
    <3>2. CompactTellsOf(m, kind, region, s, e)
      BY <1>2, <1>3, <2>1, <3>1, CompactRegionTold
    <3> QED BY Zenon, <3>2 DEF CompactTellsOf
  <2> QED BY <2>2, <2>3
<1> HIDE DEF m
<1>5. m.kind \in Compact!FullKinds /\ \A j \in 2 .. e : s[j].kind # "dead" => \A n \in s[j].reads : n \in m.reads
  BY Zenon, <1>4
<1>6. \A j \in DOMAIN s : s[j].kind \notin Compact!FullKinds
  <2>1. \/ Compact!Position(s, Compact!FullKinds) = 0 /\ \A i \in DOMAIN s : s[i].kind \notin Compact!FullKinds
        \/ Compact!Position(s, Compact!FullKinds) \in DOMAIN s /\ Compact!Position(s, Compact!FullKinds) # 0 /\ s[Compact!Position(s, Compact!FullKinds)].kind \in Compact!FullKinds
    BY Zenon, <1>2, CompactPositionIs
  <2> QED BY <2>1
<1> QED BY <1>3, <1>4, <1>5, <1>6, CompactReplacedHistory

(* The form of a conversation of l messages, and of one continued by others.    *)
LEMMA CompactShapedIs ==
  ASSUME NEW s, Compact!Shaped(s), NEW l, l = Len(s)
  PROVE  /\ s \in Seq(Compact!MessageType) /\ l \in Nat /\ l # 0 /\ DOMAIN s = 1 .. l /\ s[1] = Compact!Task
         /\ \A i \in 1 .. l : s[i].kind = "use" => i < l /\ s[i + 1].kind = "result" /\ s[i + 1].turn = s[i].turn
         /\ \A i \in 1 .. l : s[i].kind = "result" => i > 1 /\ s[i - 1].kind = "use"
         /\ \A i, j \in 1 .. l :
              i < j /\ s[i].kind = "result" /\ s[j].kind = "result" => s[i].turn < s[j].turn
<1>1. s \in Seq(Compact!MessageType) /\ s # <<>>
  BY DEF Compact!Shaped
<1>2. l \in Nat /\ l # 0 /\ DOMAIN s = 1 .. l
  BY <1>1
<1> QED BY Zenon, <1>1, <1>2 DEF Compact!Shaped

LEMMA CompactContinuedIs ==
  ASSUME NEW s \in Seq(Compact!MessageType), NEW more \in Seq(Compact!MessageType)
  PROVE  /\ s \o more \in Seq(Compact!MessageType) /\ Len(s \o more) = Len(s) + Len(more)
         /\ \A i \in 1 .. Len(s) : (s \o more)[i] = s[i]
         /\ \A i \in 1 .. Len(more) : (s \o more)[i + Len(s)] = more[i]
OBVIOUS

(* A turn appends a use and its result, which comes after all dead ends.       *)
CompactAfterTurn(t, next, worse, s, now, bad) ==
  /\ now \in 0 .. CompactMaxTurns - 1 /\ bad \subseteq 1 .. now /\ next = now + 1
  /\ worse \in {bad, bad \cup {next}}
  /\ t = s \o <<Compact!Use(next), Compact!Result(next)>>

\* The indexes of a sequence with two elements more.
LEMMA CompactTwoMore ==
  ASSUME NEW l \in Nat
  PROVE  1 .. l + 2 = (1 .. l) \cup {l + 1, l + 2}
  OBVIOUS

(* Messages are added at the end: a use and its result, or a line of text.      *)
CompactLonger(t, s, next) ==
  /\ \A i \in DOMAIN s : i \in DOMAIN t /\ t[i] = s[i]
  /\ \A i \in DOMAIN t : \/ i \in DOMAIN s /\ t[i] = s[i]
                         \/ t[i].kind \in {"use", "text"}
                         \/ t[i].kind = "result" /\ t[i].turn = next

CompactBrings(t, next) == \E i \in DOMAIN t : t[i].kind = "result" /\ t[i].reads = {next}

LEMMA CompactTurnForm ==
  ASSUME NEW s, NEW now, NEW bad, Compact!Shaped(s), Compact!Verbatim(s, now),
         NEW t, NEW next, NEW worse, CompactAfterTurn(t, next, worse, s, now, bad)
  PROVE  Compact!Shaped(t) /\ Compact!Verbatim(t, next) /\ CompactLonger(t, s, next) /\ CompactBrings(t, next)
<1>0. /\ now \in 0 .. CompactMaxTurns - 1 /\ bad \subseteq 1 .. now /\ next = now + 1
      /\ worse \in {bad, bad \cup {next}}
      /\ t = s \o <<Compact!Use(next), Compact!Result(next)>>
  BY Zenon DEF CompactAfterTurn
<1> USE <1>0
<1> DEFINE pair == <<Compact!Use(next), Compact!Result(next)>>
           l == Len(s)
<1>1. Compact!Shaped(s) /\ Compact!Verbatim(s, now)
  OBVIOUS
<1>2. /\ s \in Seq(Compact!MessageType) /\ l \in Nat /\ l # 0 /\ DOMAIN s = 1 .. l /\ s[1] = Compact!Task
      /\ \A i \in 1 .. l : s[i].kind = "use" => i < l /\ s[i + 1].kind = "result" /\ s[i + 1].turn = s[i].turn
      /\ \A i \in 1 .. l : s[i].kind = "result" => i > 1 /\ s[i - 1].kind = "use"
      /\ \A i, j \in 1 .. l :
           i < j /\ s[i].kind = "result" /\ s[j].kind = "result" => s[i].turn < s[j].turn
  BY Zenon, <1>1, CompactShapedIs
<1>3. now \in Nat /\ next \in Compact!Turn /\ next = now + 1 /\ CompactMaxTurns \in Nat /\ next \in Nat
  BY CompactionAssumption DEF Compact!Turn
<1>4. /\ Compact!Use(next) \in Compact!MessageType /\ Compact!Use(next).kind = "use" /\ Compact!Use(next).turn = next /\ Compact!Use(next).reads = {}
      /\ Compact!Result(next) \in Compact!MessageType /\ Compact!Result(next).kind = "result" /\ Compact!Result(next).turn = next
      /\ Compact!Result(next).reads = {next}
  <2>1. <<>> \in Seq(Compact!Turn) /\ next \in 0 .. CompactMaxTurns /\ {next} \in SUBSET Compact!Turn /\ {} \in SUBSET Compact!Turn
    BY <1>3 DEF Compact!Turn
  <2> QED BY <2>1 DEF Compact!Use, Compact!Result, Compact!Message, Compact!MessageType
<1>5. pair \in Seq(Compact!MessageType) /\ Len(pair) = 2 /\ pair[1] = Compact!Use(next) /\ pair[2] = Compact!Result(next)
  BY <1>4
<1>6. /\ t \in Seq(Compact!MessageType) /\ Len(t) = l + 2 /\ DOMAIN t = 1 .. l + 2
      /\ \A i \in 1 .. l : t[i] = s[i]
      /\ t[l + 1] = Compact!Use(next) /\ t[l + 2] = Compact!Result(next)
  <2> HIDE DEF pair
  <2>0. 1 \in 1 .. Len(pair) /\ 2 \in 1 .. Len(pair)
    BY <1>5
  <2>1. /\ s \o pair \in Seq(Compact!MessageType) /\ Len(s \o pair) = l + Len(pair)
        /\ \A i \in 1 .. l : (s \o pair)[i] = s[i]
        /\ (s \o pair)[1 + l] = pair[1] /\ (s \o pair)[2 + l] = pair[2]
    BY Zenon, <1>2, <1>5, <2>0, CompactContinuedIs
  <2>2. t = s \o pair
    BY DEF pair
  <2> HIDE DEF l
  <2>3. /\ t \in Seq(Compact!MessageType) /\ Len(t) = l + Len(pair) /\ \A i \in 1 .. l : t[i] = s[i]
        /\ t[1 + l] = pair[1] /\ t[2 + l] = pair[2]
    BY Zenon, <2>1, <2>2
  <2>4. l + Len(pair) = l + 2 /\ 1 + l = l + 1 /\ 2 + l = l + 2
    BY <1>2, <1>5
  <2>5. DOMAIN t = 1 .. Len(t)
    BY <2>3
  <2> QED BY Zenon, <1>5, <2>3, <2>4, <2>5
<1> HIDE DEF pair, l
<1>7. 1 .. l + 2 = (1 .. l) \cup {l + 1, l + 2}
  BY Zenon, <1>2, CompactTwoMore
<1>8. /\ t[l + 1].kind = "use" /\ t[l + 1].turn = next /\ t[l + 1].reads = {}
      /\ t[l + 2].kind = "result" /\ t[l + 2].turn = next /\ t[l + 2].reads = {next}
  BY Zenon, <1>4, <1>6
<1>9. \A i \in 1 .. l : s[i].kind = "result" =>
        /\ s[i].turn \in 1 .. now /\ s[i].reads \subseteq {s[i].turn}
        /\ now < s[i].turn + CompactKeepRecentPairs => ~Compact!Compacted(s[i])
  BY <1>1, <1>2 DEF Compact!Verbatim
<1>10. Compact!Shaped(t)
  <2>1. ASSUME NEW i \in 1 .. l + 2, t[i].kind = "use"
        PROVE  i < l + 2 /\ t[i + 1].kind = "result" /\ t[i + 1].turn = t[i].turn
    <3>1. CASE i \in 1 .. l
      <4>1. i < l /\ i + 1 \in 1 .. l /\ s[i + 1].kind = "result" /\ s[i + 1].turn = s[i].turn
        BY <1>2, <1>6, <2>1, <3>1
      <4> QED BY <1>2, <1>6, <3>1, <4>1
    <3>2. CASE i = l + 1
      <4>1. (l + 1) + 1 = l + 2 /\ l + 1 < l + 2
        BY <1>2
      <4> QED BY <1>8, <3>2, <4>1
    <3>3. CASE i = l + 2
      BY <1>8, <2>1, <3>3
    <3> QED BY <1>7, <3>1, <3>2, <3>3
  <2>2. ASSUME NEW i \in 1 .. l + 2, t[i].kind = "result" PROVE i > 1 /\ t[i - 1].kind = "use"
    <3>1. CASE i \in 1 .. l
      <4>1. i > 1 /\ i - 1 \in 1 .. l /\ s[i - 1].kind = "use"
        BY <1>2, <1>6, <2>2, <3>1
      <4> QED BY <1>6, <4>1
    <3>2. CASE i = l + 1
      BY <1>8, <2>2, <3>2
    <3>3. CASE i = l + 2
      <4>1. (l + 2) - 1 = l + 1 /\ l + 2 > 1
        BY <1>2
      <4> QED BY <1>8, <3>3, <4>1
    <3> QED BY <1>7, <3>1, <3>2, <3>3
  <2>3. ASSUME NEW i \in 1 .. l + 2, NEW j \in 1 .. l + 2, i < j, t[i].kind = "result", t[j].kind = "result"
        PROVE  t[i].turn < t[j].turn
    <3>1. i \in 1 .. l
      <4>1. i # l + 1
        BY <1>8, <2>3
      <4>2. i # l + 2
        BY ONLY <1>2, <2>3
      <4> QED BY ONLY <1>7, <4>1, <4>2, i \in 1 .. l + 2
    <3>2. CASE j \in 1 .. l
      BY <1>2, <1>6, <2>3, <3>1, <3>2
    <3>3. CASE j = l + 2
      <4>1. t[i] = s[i] /\ i \in 1 .. l
        BY <1>6, <3>1
      <4>2. s[i].kind = "result"
        BY Zenon, <2>3, <4>1
      <4>3. s[i].turn \in 1 .. now
        BY <1>9, <4>1, <4>2
      <4>4. s[i].turn < next
        BY <1>3, <4>3
      <4>5. t[j].turn = next
        BY Zenon, <1>8, <3>3
      <4> QED BY Zenon, <4>1, <4>4, <4>5
    <3>4. CASE j = l + 1
      BY <1>8, <2>3, <3>4
    <3> QED BY <1>7, <3>2, <3>3, <3>4
  <2>4. t # <<>> /\ t[1] = Compact!Task
    BY <1>2, <1>6
  <2>5. DOMAIN t = 1 .. l + 2 /\ Len(t) = l + 2 /\ t \in Seq(Compact!MessageType)
    BY <1>6
  <2>6. \A i \in DOMAIN t : t[i].kind = "use" => i < Len(t) /\ t[i + 1].kind = "result" /\ t[i + 1].turn = t[i].turn
    BY Zenon, <2>1, <2>5
  <2>7. \A i \in DOMAIN t : t[i].kind = "result" => i > 1 /\ t[i - 1].kind = "use"
    BY Zenon, <2>2, <2>5
  <2>8. \A i, j \in DOMAIN t : i < j /\ t[i].kind = "result" /\ t[j].kind = "result" => t[i].turn < t[j].turn
    <3> SUFFICES ASSUME NEW i \in DOMAIN t, NEW j \in DOMAIN t, i < j, t[i].kind = "result", t[j].kind = "result"
                 PROVE  t[i].turn < t[j].turn
      OBVIOUS
    <3>1. i \in 1 .. l + 2 /\ j \in 1 .. l + 2
      BY Zenon, <2>5
    <3> QED BY <2>3, <3>1
  <2> QED BY Zenon, <2>4, <2>5, <2>6, <2>7, <2>8 DEF Compact!Shaped
<1>11. Compact!Verbatim(t, next)
  <2> SUFFICES ASSUME NEW i \in 1 .. l + 2, t[i].kind = "result"
               PROVE  /\ t[i].turn \in 1 .. next /\ t[i].reads \subseteq {t[i].turn}
                      /\ next < t[i].turn + CompactKeepRecentPairs => ~Compact!Compacted(t[i])
    BY <1>6 DEF Compact!Verbatim
  <2>1. CASE i \in 1 .. l
    <3>1. t[i] = s[i]
      BY <1>6, <2>1
    <3>2. /\ s[i].turn \in 1 .. now /\ s[i].reads \subseteq {s[i].turn}
          /\ now < s[i].turn + CompactKeepRecentPairs => ~Compact!Compacted(s[i])
      BY Zenon, <1>9, <2>1, <3>1
    <3>3. CompactKeepRecentPairs \in Nat
      BY CompactionAssumption
    <3>4. s[i].turn \in 1 .. next /\ (next < s[i].turn + CompactKeepRecentPairs => ~Compact!Compacted(s[i]))
      BY <1>3, <3>2, <3>3
    <3> QED BY Zenon, <3>1, <3>2, <3>4
  <2>2. CASE i = l + 2
    <3>1. t[i].turn = next /\ t[i].reads = {next}
      BY Zenon, <1>8, <2>2
    <3>2. next \in 1 .. next
      BY <1>3
    <3> QED BY <3>1, <3>2 DEF Compact!Compacted
  <2>3. CASE i = l + 1
    BY <1>8, <2>3
  <2> QED BY <1>7, <2>1, <2>2, <2>3
<1>12. CompactLonger(t, s, next)
  BY <1>2, <1>6, <1>7, <1>8 DEF CompactLonger
<1>13. l + 2 \in DOMAIN t
  BY <1>2, <1>6
<1>14. CompactBrings(t, next)
  BY <1>8, <1>13 DEF CompactBrings
<1> QED BY <1>10, <1>11, <1>12, <1>14

LEMMA CompactLongerSingle ==
  ASSUME NEW s, Compact!Single(s), NEW t, NEW next, CompactLonger(t, s, next)
  PROVE  Compact!Single(t)
<1>1. ASSUME NEW kinds, kinds \in {{"dead"}, Compact!FullKinds}, Compact!Unique(s, kinds) PROVE Compact!Unique(t, kinds)
  <2> SUFFICES ASSUME NEW i \in DOMAIN t, NEW j \in DOMAIN t, t[i].kind \in kinds, t[j].kind \in kinds PROVE i = j
    BY DEF Compact!Unique
  <2>1. \A k : k \in kinds => k \notin {"use", "text"} /\ k # "result"
    BY <1>1 DEF Compact!FullKinds
  <2>2. i \in DOMAIN s /\ t[i] = s[i] /\ j \in DOMAIN s /\ t[j] = s[j]
    BY Zenon, <2>1 DEF CompactLonger
  <2>3. s[i].kind \in kinds /\ s[j].kind \in kinds
    BY Zenon, <2>2
  <2> QED BY Zenon, <1>1, <2>2, <2>3 DEF Compact!Unique
<1>2. Compact!Unique(s, {"dead"}) /\ Compact!Unique(s, Compact!FullKinds)
  BY Zenon DEF Compact!Single
<1> QED BY Zenon, <1>1, <1>2 DEF Compact!Single

LEMMA CompactLongerListed ==
  ASSUME NEW s, NEW t, NEW next \in Nat, CompactLonger(t, s, next), NEW bad, Compact!Listed(s, bad), NEW worse, bad \subseteq worse,
         bad \subseteq 1 .. next - 1
  PROVE  Compact!Listed(t, worse)
<1> SUFFICES ASSUME NEW i \in DOMAIN t, t[i].kind = "dead" PROVE Compact!Entry(t[i], t, worse)
  BY DEF Compact!Listed
<1> DEFINE m == s[i]
<1>1. i \in DOMAIN s /\ t[i] = m
  <2>1. t[i].kind \notin {"use", "text"} /\ t[i].kind # "result"
    OBVIOUS
  <2> QED BY Zenon, <2>1 DEF CompactLonger
<1>2. Compact!Entry(m, s, bad)
  <2>1. m.kind = "dead"
    BY Zenon, <1>1
  <2> QED BY <1>1, <2>1 DEF Compact!Listed
<1> HIDE DEF m
<1>3. /\ Len(m.lines) <= CompactMaxDeadEnds /\ Compact!Ascending(m.lines)
      /\ m.reads = {m.lines[k] : k \in DOMAIN m.lines} /\ m.reads \subseteq bad
      /\ \A j \in DOMAIN s : s[j].kind = "result" /\ ~Compact!Compacted(s[j]) => \A k \in DOMAIN m.lines : m.lines[k] < s[j].turn
  BY <1>2 DEF Compact!Entry
<1>4. m.reads \subseteq worse
  BY <1>3
<1>5. ASSUME NEW j \in DOMAIN t, t[j].kind = "result", ~Compact!Compacted(t[j]), NEW k \in DOMAIN m.lines
      PROVE  m.lines[k] < t[j].turn
  <2>1. CASE j \in DOMAIN s /\ t[j] = s[j]
    BY Zenon, <1>3, <1>5, <2>1
  <2>2. CASE t[j].turn = next
    <3>1. m.lines[k] \in 1 .. next - 1
      BY <1>3
    <3>2. m.lines[k] < next
      BY <3>1
    <3> QED BY Zenon, <2>2, <3>2
  <2>3. t[j].kind \notin {"use", "text"}
    BY <1>5
  <2> QED BY Zenon, <2>1, <2>2, <2>3 DEF CompactLonger
<1>6. Compact!Entry(m, t, worse)
  BY <1>3, <1>4, <1>5 DEF Compact!Entry
<1> QED BY Zenon, <1>1, <1>6

LEMMA CompactLongerTells ==
  ASSUME NEW s, NEW t, NEW next, CompactLonger(t, s, next), NEW n
  PROVE  /\ Compact!Reads(s, n) => Compact!Reads(t, n)
         /\ Compact!TellsAll(s, n) => Compact!TellsAll(t, n)
         /\ Compact!DrivenOut(s, n) => Compact!DrivenOut(t, n)
BY Zenon DEF CompactLonger, Compact!Reads, Compact!TellsAll, Compact!DrivenOut

LEMMA CompactTurnHistory ==
  ASSUME NEW s, NEW now, NEW bad, NEW lost, Compact!History(s, now, bad, lost),
         NEW t, NEW next, NEW worse, CompactAfterTurn(t, next, worse, s, now, bad)
  PROVE  Compact!History(t, next, worse, lost)
<1>0. /\ now \in 0 .. CompactMaxTurns - 1 /\ bad \subseteq 1 .. now /\ next = now + 1
      /\ worse \in {bad, bad \cup {next}}
  BY Zenon DEF CompactAfterTurn
<1>1. Compact!Shaped(s) /\ Compact!Single(s) /\ Compact!Verbatim(s, now) /\ Compact!Listed(s, bad) /\ Compact!Remembered(s, now, bad, lost)
  BY DEF Compact!History
<1>2. now \in Nat /\ next \in Nat /\ bad \subseteq worse /\ bad \subseteq 1 .. next - 1
  BY <1>0, CompactionAssumption
<1>3. Compact!Shaped(t) /\ Compact!Verbatim(t, next) /\ CompactLonger(t, s, next) /\ CompactBrings(t, next)
  BY <1>1, CompactTurnForm
<1>4. Compact!Single(t) /\ Compact!Listed(t, worse)
  BY <1>1, <1>2, <1>3, CompactLongerSingle, CompactLongerListed
<1>5. Compact!Remembered(t, next, worse, lost)
  <2> SUFFICES ASSUME NEW n \in 1 .. next, n \notin lost
               PROVE  Compact!Reads(t, n) \/ (n \in worse /\ Compact!DrivenOut(t, n))
    BY DEF Compact!Remembered
  <2>1. CASE n = next
    BY <1>3, <2>1 DEF Compact!Reads, CompactBrings
  <2>2. CASE n # next
    <3>1. n \in 1 .. now
      BY <1>0, <1>2, <2>2
    <3>2. Compact!Reads(s, n) \/ (n \in bad /\ Compact!DrivenOut(s, n))
      BY <1>1, <3>1 DEF Compact!Remembered
    <3> QED BY <1>2, <1>3, <3>2, CompactLongerTells
  <2> QED BY <2>1, <2>2
<1> QED BY <1>3, <1>4, <1>5 DEF Compact!History

(* Between the last message and the next turn nothing is lost by a line of text. *)
LEMMA CompactNudgeForm ==
  ASSUME NEW s, NEW now \in Nat, Compact!Shaped(s), Compact!Verbatim(s, now), NEW t, t = Append(s, Compact!Text)
  PROVE  Compact!Shaped(t) /\ Compact!Verbatim(t, now) /\ CompactLonger(t, s, now + 1)
<1> DEFINE l == Len(s)
<1>1. Compact!Shaped(s) /\ Compact!Verbatim(s, now)
  OBVIOUS
<1>2. /\ s \in Seq(Compact!MessageType) /\ l \in Nat /\ l # 0 /\ DOMAIN s = 1 .. l /\ s[1] = Compact!Task
      /\ \A i \in 1 .. l : s[i].kind = "use" => i < l /\ s[i + 1].kind = "result" /\ s[i + 1].turn = s[i].turn
      /\ \A i \in 1 .. l : s[i].kind = "result" => i > 1 /\ s[i - 1].kind = "use"
      /\ \A i, j \in 1 .. l :
           i < j /\ s[i].kind = "result" /\ s[j].kind = "result" => s[i].turn < s[j].turn
  BY Zenon, <1>1, CompactShapedIs
<1>3. Compact!Text \in Compact!MessageType /\ Compact!Text.kind = "text" /\ Compact!Text.reads = {}
  <2>1. <<>> \in Seq(Compact!Turn) /\ 0 \in 0 .. CompactMaxTurns
    BY CompactionAssumption
  <2> QED BY <2>1 DEF Compact!Text, Compact!Message, Compact!MessageType
<1>4. /\ t \in Seq(Compact!MessageType) /\ Len(t) = l + 1 /\ DOMAIN t = 1 .. l + 1
      /\ \A i \in 1 .. l : t[i] = s[i]
      /\ t[l + 1] = Compact!Text
  BY <1>2, <1>3
<1> HIDE DEF l
<1>5. 1 .. l + 1 = (1 .. l) \cup {l + 1}
  BY <1>2
<1>6. t[l + 1].kind = "text"
  BY <1>3, <1>4
<1>7. \A i \in 1 .. l + 1 : t[i].kind # "text" => i \in 1 .. l /\ t[i] = s[i]
  BY <1>4, <1>5, <1>6
<1>8. Compact!Shaped(t)
  <2>1. ASSUME NEW i \in 1 .. l + 1, t[i].kind = "use"
        PROVE  i < l + 1 /\ t[i + 1].kind = "result" /\ t[i + 1].turn = t[i].turn
    <3>1. i \in 1 .. l /\ s[i].kind = "use" /\ t[i] = s[i]
      BY <1>7, <2>1
    <3>2. i < l /\ i + 1 \in 1 .. l /\ s[i + 1].kind = "result" /\ s[i + 1].turn = s[i].turn
      BY <1>2, <3>1
    <3> QED BY <1>2, <1>4, <3>1, <3>2
  <2>2. ASSUME NEW i \in 1 .. l + 1, t[i].kind = "result" PROVE i > 1 /\ t[i - 1].kind = "use"
    <3>1. i \in 1 .. l /\ s[i].kind = "result"
      BY <1>7, <2>2
    <3>2. i > 1 /\ i - 1 \in 1 .. l /\ s[i - 1].kind = "use"
      BY <1>2, <3>1
    <3> QED BY <1>4, <3>2
  <2>3. ASSUME NEW i \in 1 .. l + 1, NEW j \in 1 .. l + 1, i < j, t[i].kind = "result", t[j].kind = "result"
        PROVE  t[i].turn < t[j].turn
    <3>1. i \in 1 .. l /\ t[i] = s[i] /\ j \in 1 .. l /\ t[j] = s[j] /\ s[i].kind = "result" /\ s[j].kind = "result"
      BY <1>7, <2>3
    <3> QED BY <1>2, <2>3, <3>1
  <2>4. t # <<>> /\ t[1] = Compact!Task
    BY <1>2, <1>4
  <2> QED BY <1>4, <2>1, <2>2, <2>3, <2>4 DEF Compact!Shaped
<1>9. \A i \in DOMAIN s : i \in DOMAIN t /\ t[i] = s[i]
  BY <1>2, <1>4, <1>5
<1>10. \A i \in DOMAIN t : t[i].kind # "text" => i \in DOMAIN s /\ t[i] = s[i]
  BY <1>2, <1>4, <1>7
<1>11. Compact!Verbatim(t, now)
  <2> SUFFICES ASSUME NEW i \in DOMAIN t, t[i].kind = "result"
               PROVE  /\ t[i].turn \in 1 .. now /\ t[i].reads \subseteq {t[i].turn}
                      /\ now < t[i].turn + CompactKeepRecentPairs => ~Compact!Compacted(t[i])
    BY DEF Compact!Verbatim
  <2>1. i \in DOMAIN s /\ t[i] = s[i] /\ s[i].kind = "result"
    BY <1>10
  <2>2. /\ s[i].turn \in 1 .. now /\ s[i].reads \subseteq {s[i].turn}
        /\ now < s[i].turn + CompactKeepRecentPairs => ~Compact!Compacted(s[i])
    BY <1>1, <2>1 DEF Compact!Verbatim
  <2> QED BY Zenon, <2>1, <2>2
<1>12. CompactLonger(t, s, now + 1)
  <2>1. \A i \in DOMAIN t : (i \in DOMAIN s /\ t[i] = s[i]) \/ t[i].kind \in {"use", "text"}
    BY <1>10
  <2> QED BY Zenon, <1>9, <2>1 DEF CompactLonger
<1> QED BY <1>8, <1>11, <1>12

LEMMA CompactNudgeHistory ==
  ASSUME NEW s, NEW now \in Nat, NEW bad, bad \subseteq 1 .. now, NEW lost, Compact!History(s, now, bad, lost), NEW t, t = Append(s, Compact!Text)
  PROVE  Compact!History(t, now, bad, lost)
<1>1. Compact!Shaped(s) /\ Compact!Single(s) /\ Compact!Verbatim(s, now) /\ Compact!Listed(s, bad) /\ Compact!Remembered(s, now, bad, lost)
  BY DEF Compact!History
<1> DEFINE next == now + 1
<1>2. next \in Nat /\ bad \subseteq 1 .. next - 1
  OBVIOUS
<1>3. Compact!Shaped(t) /\ Compact!Verbatim(t, now) /\ CompactLonger(t, s, next)
  BY <1>1, CompactNudgeForm
<1> HIDE DEF next
<1>4. Compact!Single(t) /\ Compact!Listed(t, bad)
  BY <1>1, <1>2, <1>3, CompactLongerSingle, CompactLongerListed
<1>5. Compact!Remembered(t, now, bad, lost)
  <2> SUFFICES ASSUME NEW n \in 1 .. now, n \notin lost
               PROVE  Compact!Reads(t, n) \/ (n \in bad /\ Compact!DrivenOut(t, n))
    BY DEF Compact!Remembered
  <2>1. Compact!Reads(s, n) \/ (n \in bad /\ Compact!DrivenOut(s, n))
    BY <1>1 DEF Compact!Remembered
  <2> QED BY <1>3, <2>1, CompactLongerTells
<1> QED BY <1>3, <1>4, <1>5 DEF Compact!History

(* Form a conversation must keep, whatever was mistaken for what, and a place   *)
(* at which messages can be added.                                             *)
CompactFormed(s, now) == Compact!Shaped(s) /\ Compact!Verbatim(s, now)
CompactPlace(s, at) == at \in 2 .. Len(s) + 1 /\ s[at - 1].kind # "use"
CompactKeepsAll(t, s, T) == \A n : n \notin T /\ Compact!TellsAll(s, n) => Compact!TellsAll(t, n)

LEMMA CompactSplicedForm ==
  ASSUME NEW s, NEW now, CompactFormed(s, now), NEW a, NEW b, CompactWhole(s, a, b),
         NEW new \in Seq(Compact!MessageType), CompactPlain(new), NEW t, t = Compact!Splice(s, a, b, new)
  PROVE  CompactFormed(t, now) /\ CompactComes(t, s, a, b, new) /\ CompactIsSpliced(t, s, a, b, new)
<1>1. Compact!Shaped(s) /\ Compact!Verbatim(s, now) /\ s \in Seq(Compact!MessageType)
  BY DEF CompactFormed, Compact!Shaped
<1>2. CompactIsSpliced(t, s, a, b, new)
  BY <1>1, CompactSpliceIs
<1>3. CompactComes(t, s, a, b, new)
  BY <1>1, <1>2, CompactSpliceComes
<1>4. Compact!Shaped(t)
  BY <1>1, CompactSpliceShaped
<1>5. Compact!Verbatim(t, now)
  BY <1>1, <1>3, CompactSpliceVerbatim
<1> QED BY <1>2, <1>3, <1>4, <1>5 DEF CompactFormed

LEMMA CompactComesTells ==
  ASSUME NEW s, NEW new, NEW a, NEW b, NEW t, CompactComes(t, s, a, b, new)
  PROVE  /\ \A n, j : j \in DOMAIN s /\ (j < a \/ b < j) /\ s[j].kind # "dead" /\ n \in s[j].reads => Compact!TellsAll(t, n)
         /\ \A n, k : k \in DOMAIN new /\ new[k].kind # "dead" /\ n \in new[k].reads => Compact!TellsAll(t, n)
<1>1. ASSUME NEW n, NEW j \in DOMAIN s, j < a \/ b < j, s[j].kind # "dead", n \in s[j].reads PROVE Compact!TellsAll(t, n)
  <2>1. PICK i \in DOMAIN t : t[i] = s[j]
    BY Zenon, <1>1 DEF CompactComes
  <2> QED BY <1>1, <2>1 DEF Compact!TellsAll
<1>2. ASSUME NEW n, NEW k \in DOMAIN new, new[k].kind # "dead", n \in new[k].reads PROVE Compact!TellsAll(t, n)
  <2>1. PICK i \in DOMAIN t : t[i] = new[k]
    BY Zenon, <1>2 DEF CompactComes
  <2> QED BY <1>2, <2>1 DEF Compact!TellsAll
<1> QED BY Zenon, <1>1, <1>2

(* A message added at such a place takes nothing away.                         *)
LEMMA CompactInsertedForm ==
  ASSUME NEW s, NEW now, CompactFormed(s, now), NEW at, CompactPlace(s, at),
         NEW m \in Compact!MessageType, m.kind \notin {"use", "result"}, NEW t, t = Compact!Splice(s, at, at - 1, <<m>>)
  PROVE  /\ CompactFormed(t, now) /\ CompactPlace(t, at + 1) /\ CompactKeepsAll(t, s, {})
         /\ \A n : m.kind # "dead" /\ n \in m.reads => Compact!TellsAll(t, n)
<1> DEFINE new == <<m>>
           before == at - 1
<1>0. Compact!Shaped(s) /\ s \in Seq(Compact!MessageType) /\ at \in Nat /\ Len(s) \in Nat /\ at \in 2 .. Len(s) + 1
  BY DEF CompactFormed, Compact!Shaped, CompactPlace
<1>1. CompactWhole(s, at, before) /\ before \in Nat /\ \A j \in DOMAIN s : j < at \/ before < j
  BY <1>0, CompactInsertWhole DEF CompactPlace
<1>3. new \in Seq(Compact!MessageType) /\ DOMAIN new = {1} /\ new[1] = m /\ Len(new) = 1 /\ t = Compact!Splice(s, at, before, new)
  OBVIOUS
<1>4. before = at - 1
  OBVIOUS
<1> HIDE DEF new, before
<1>5. CompactPlain(new)
  BY <1>3 DEF CompactPlain
<1>6. CompactFormed(t, now) /\ CompactComes(t, s, at, before, new) /\ CompactIsSpliced(t, s, at, before, new)
  BY <1>1, <1>3, <1>5, CompactSplicedForm
<1>7. CompactKeepsAll(t, s, {}) /\ \A n : m.kind # "dead" /\ n \in m.reads => Compact!TellsAll(t, n)
  <2>1. /\ \A n, j : j \in DOMAIN s /\ (j < at \/ before < j) /\ s[j].kind # "dead" /\ n \in s[j].reads => Compact!TellsAll(t, n)
        /\ \A n, k : k \in DOMAIN new /\ new[k].kind # "dead" /\ n \in new[k].reads => Compact!TellsAll(t, n)
    BY Zenon, <1>6, CompactComesTells
  <2>2. \A n : Compact!TellsAll(s, n) => Compact!TellsAll(t, n)
    BY Zenon, <1>1, <2>1 DEF Compact!TellsAll
  <2>3. \A n : m.kind # "dead" /\ n \in m.reads => Compact!TellsAll(t, n)
    BY <1>3, <2>1
  <2> QED BY Zenon, <2>2, <2>3 DEF CompactKeepsAll
<1>12. /\ Len(t) = Len(s) + 1 + at - (before + 1) /\ DOMAIN t = 1 .. Len(t)
       /\ \A i \in DOMAIN t : ~(i < at) /\ i < at + 1 => t[i] = new[i + 1 - at]
  BY <1>3, <1>6, Zenon DEF CompactIsSpliced
<1>13. Len(t) = Len(s) + 1 /\ at \in DOMAIN t
  <2> HIDE DEF CompactFormed, CompactPlace
  <2>1. Len(t) = Len(s) + 1
    <3>1. before + 1 = at
      BY <1>0, <1>4
    <3>2. Len(s) + 1 + at - at = Len(s) + 1
      BY <1>0
    <3> QED BY Zenon, <1>12, <3>1, <3>2
  <2> QED BY <1>0, <1>12, <2>1
<1>14. t[at] = m
  <2>1. ~(at < at) /\ at < at + 1 /\ at + 1 - at = 1
    BY <1>0
  <2> QED BY <1>3, <1>12, <1>13, <2>1
<1>15. at + 1 \in 2 .. Len(t) + 1 /\ (at + 1) - 1 = at
  BY <1>0, <1>13
<1> QED BY <1>6, <1>7, <1>14, <1>15 DEF CompactPlace

(* A message in the place of another one takes only that one away.             *)
LEMMA CompactReplacedForm ==
  ASSUME NEW s, NEW now, CompactFormed(s, now), NEW p \in DOMAIN s, s[p].kind \notin {"use", "result", "task"},
         NEW m \in Compact!MessageType, m.kind \notin {"use", "result"}, NEW t, t = Compact!Splice(s, p, p, <<m>>)
  PROVE  CompactFormed(t, now) /\ \A n : Compact!TellsAll(s, n) => Compact!TellsAll(t, n) \/ (s[p].kind # "dead" /\ n \in s[p].reads)
<1> DEFINE new == <<m>>
<1>1. CompactWhole(s, p, p) /\ \A j \in DOMAIN s : j # p => j < p \/ p < j
  BY CompactReplaceWhole DEF CompactFormed
<1>3. new \in Seq(Compact!MessageType) /\ DOMAIN new = {1} /\ new[1] = m /\ t = Compact!Splice(s, p, p, new)
  OBVIOUS
<1> HIDE DEF new
<1>5. CompactPlain(new)
  BY <1>3 DEF CompactPlain
<1>6. CompactFormed(t, now) /\ CompactComes(t, s, p, p, new)
  BY <1>1, <1>3, <1>5, CompactSplicedForm
<1>7. ASSUME NEW n, Compact!TellsAll(s, n) PROVE Compact!TellsAll(t, n) \/ (s[p].kind # "dead" /\ n \in s[p].reads)
  <2>1. PICK j \in DOMAIN s : s[j].kind # "dead" /\ n \in s[j].reads
    BY Zenon, <1>7 DEF Compact!TellsAll
  <2>2. CASE j = p
    BY Zenon, <2>1, <2>2
  <2>3. CASE j # p
    <3>1. j < p \/ p < j
      BY <1>1, <2>3
    <3> QED BY Zenon, <1>6, <2>1, <3>1, CompactComesTells
  <2> QED BY <2>2, <2>3
<1> QED BY Zenon, <1>6, <1>7

(* The summary of layer 2 tells all of the turns it is about.                  *)
LEMMA CompactSummedForm ==
  ASSUME NEW u, NEW now, CompactFormed(u, now), NEW at, CompactPlace(u, at), NEW good \in SUBSET Compact!Turn,
         NEW w, w = CompactWithSummary(u, at, good)
  PROVE  /\ CompactFormed(w, now) /\ CompactPlace(w, CompactPlaceAfter(at, good)) /\ CompactKeepsAll(w, u, {})
         /\ \A n \in good : Compact!TellsAll(w, n)
<1>1. CASE good = {}
  BY Zenon, <1>1 DEF CompactWithSummary, CompactPlaceAfter, CompactKeepsAll
<1>2. CASE good # {}
  <2> DEFINE m == Compact!SummaryMessage(good)
  <2>1. m \in Compact!MessageType /\ m.kind = "summary" /\ m.reads = good
    <3>1. <<>> \in Seq(Compact!Turn) /\ 0 \in 0 .. CompactMaxTurns
      BY CompactionAssumption
    <3> QED BY <3>1 DEF Compact!SummaryMessage, Compact!Message, Compact!MessageType
  <2>2. w = Compact!Splice(u, at, at - 1, <<m>>) /\ CompactPlaceAfter(at, good) = at + 1
    BY <1>2 DEF CompactWithSummary, Compact!Summed, CompactPlaceAfter
  <2> HIDE DEF m
  <2>3. m.kind \notin {"use", "result"} /\ m.kind # "dead"
    BY <2>1
  <2>4. /\ CompactFormed(w, now) /\ CompactPlace(w, at + 1) /\ CompactKeepsAll(w, u, {})
        /\ \A n : m.kind # "dead" /\ n \in m.reads => Compact!TellsAll(w, n)
    BY Zenon, <2>1, <2>2, <2>3, CompactInsertedForm
  <2> QED BY Zenon, <2>1, <2>2, <2>3, <2>4
<1> QED BY <1>1, <1>2

(* The dead ends overwrite at most what a full summary told.                   *)
CompactToldBy(s) == UNION {s[i].reads : i \in Compact!Mistaken(s)}

LEMMA CompactNotedForm ==
  ASSUME NEW s, NEW now, CompactFormed(s, now), NEW at, CompactPlace(s, at), NEW reply \in Seq(Compact!Turn),
         NEW t, t = Compact!Noted(s, at, reply)
  PROVE  CompactFormed(t, now) /\ CompactKeepsAll(t, s, CompactToldBy(s))
<1> DEFINE p == Compact!Position(s, Compact!DeadEndsKinds)
           lost == CompactToldBy(s)
<1>1. s \in Seq(Compact!MessageType)
  BY DEF CompactFormed, Compact!Shaped
<1>2. \/ p = 0 /\ \A i \in DOMAIN s : s[i].kind \notin Compact!DeadEndsKinds
      \/ p \in DOMAIN s /\ p # 0 /\ s[p].kind \in Compact!DeadEndsKinds
  BY <1>1, CompactPositionIs
<1>3. t = IF p = 0 THEN Compact!Splice(s, at, at - 1, <<Compact!Merge(<<>>, reply)>>)
          ELSE Compact!Splice(s, p, p, <<Compact!Merge(s[p].lines, reply)>>)
  BY DEF Compact!Noted
<1>4. p # 0 /\ p \in DOMAIN s /\ s[p].kind = "echo" => s[p].reads \subseteq lost
  <2>1. p # 0 /\ s[p].kind = "echo" /\ p \in DOMAIN s => p \in Compact!Mistaken(s)
    BY Zenon DEF Compact!Mistaken
  <2> HIDE DEF p
  <2> QED BY <2>1 DEF CompactToldBy
<1> HIDE DEF p, lost
<1>6. ASSUME p = 0 PROVE CompactFormed(t, now) /\ CompactKeepsAll(t, s, lost)
  <2> DEFINE d == Compact!Merge(<<>>, reply)
  <2>1. <<>> \in Seq(Compact!Turn)
    OBVIOUS
  <2>2. d \in Compact!MessageType /\ d.kind = "dead"
    BY <2>1, CompactMergeIs
  <2>3. t = Compact!Splice(s, at, at - 1, <<d>>)
    BY <1>3, <1>6
  <2> HIDE DEF d
  <2>4. d.kind \notin {"use", "result"}
    BY <2>2
  <2>5. CompactFormed(t, now) /\ CompactKeepsAll(t, s, {})
    BY Zenon, <2>2, <2>3, <2>4, CompactInsertedForm
  <2> QED BY <2>5 DEF CompactKeepsAll
<1>7. ASSUME p # 0 PROVE CompactFormed(t, now) /\ CompactKeepsAll(t, s, lost)
  <2>1. p \in DOMAIN s /\ s[p].kind \in Compact!DeadEndsKinds
    BY <1>2, <1>7
  <2> DEFINE old == s[p].lines
             d == Compact!Merge(old, reply)
  <2>2. old \in Seq(Compact!Turn)
    <3>1. s[p] \in Compact!MessageType
      BY <1>1, <2>1
    <3> QED BY <3>1 DEF Compact!MessageType
  <2>3. t = Compact!Splice(s, p, p, <<d>>)
    BY <1>3, <1>7
  <2> HIDE DEF old
  <2>4. d \in Compact!MessageType /\ d.kind = "dead"
    BY <2>2, CompactMergeIs
  <2> HIDE DEF d
  <2>5. d.kind \notin {"use", "result"} /\ s[p].kind \notin {"use", "result", "task"}
    BY <2>1, <2>4 DEF Compact!DeadEndsKinds
  <2>6. CompactFormed(t, now) /\ \A n : Compact!TellsAll(s, n) => Compact!TellsAll(t, n) \/ (s[p].kind # "dead" /\ n \in s[p].reads)
    BY <2>1, <2>3, <2>4, <2>5, CompactReplacedForm
  <2>7. s[p].kind # "dead" => s[p].reads \subseteq lost
    BY <1>4, <1>7, <2>1 DEF Compact!DeadEndsKinds
  <2>8. \A n : n \notin lost /\ Compact!TellsAll(s, n) => Compact!TellsAll(t, n)
    BY <2>6, <2>7
  <2> QED BY <2>6, <2>8 DEF CompactKeepsAll
<1>8. CompactFormed(t, now) /\ CompactKeepsAll(t, s, lost)
  BY <1>6, <1>7
<1> QED BY <1>8 DEF lost

(* A compaction of the old pairs leaves out of the turns only what the failed   *)
(* ones brought, and what a summary told that was mistaken for the dead ends.   *)
CompactOverwrittenTo(lost, w, B) == IF B = {} THEN lost ELSE lost \cup CompactToldBy(w)

CompactBlank(u, s, now, told, at) ==
  CompactFormed(u, now) /\ CompactPlace(u, at) /\ told \subseteq 1 .. now /\ CompactKeepsAll(u, s, told)

LEMMA CompactBlankedPlace ==
  ASSUME NEW s, NEW now \in Nat, CompactFormed(s, now), NEW fresh, fresh = Compact!FreshPairs(s), fresh # {},
         NEW at, at = (CHOOSE i \in fresh : \A j \in fresh : j <= i) + 2,
         NEW told, told = {s[i].turn : i \in fresh}, NEW u, u = Compact!Blanked(s, fresh)
  PROVE  CompactBlank(u, s, now, told, at)
<1>0. Compact!Shaped(s) /\ Compact!Verbatim(s, now)
  BY DEF CompactFormed
<1>1. s \in Seq(Compact!MessageType) /\ Len(s) \in Nat /\ DOMAIN s = 1 .. Len(s)
  BY <1>0 DEF Compact!Shaped
<1>2. CompactIsBlanked(u, s, fresh)
  BY <1>1, CompactBlankedIs
<1>3. Compact!Shaped(u) /\ Compact!Verbatim(u, now) /\ told \subseteq 1 .. now /\ CompactBlanksOnly(u, s, told)
  BY <1>0, <1>2, CompactBlankedForm
<1>4. CompactPlace(u, at)
  <2>1. fresh \in SUBSET Compact!ToolPairs(s)
    BY DEF Compact!FreshPairs
  <2>2. \E i \in fresh : /\ \A j \in fresh : j <= i
                         /\ i \in Nat /\ i + 1 \in 1 .. Len(s) /\ s[i + 1].kind = "result"
    BY Zenon, <1>0, <2>1, CompactLastFresh
  <2>3. \A i \in fresh : i \in Nat /\ i + 1 \in 1 .. Len(s) /\ s[i + 1].kind = "result"
    BY <1>0, <2>1, CompactPairsAre
  <2>4. PICK i \in fresh : at = i + 2
    BY Zenon, <2>2
  <2>5. i \in Nat /\ i + 1 \in 1 .. Len(s) /\ s[i + 1].kind = "result" /\ at - 1 = i + 1
    BY <2>3, <2>4
  <2>6. Len(u) = Len(s) /\ u[i + 1].kind = s[i + 1].kind
    BY <1>1, <1>2, <2>5 DEF CompactIsBlanked
  <2>7. at \in 2 .. Len(u) + 1
    BY <1>1, <2>4, <2>5, <2>6
  <2>8. u[at - 1].kind = "result"
    BY <2>5, <2>6
  <2> QED BY <2>7, <2>8 DEF CompactPlace
<1>5. CompactKeepsAll(u, s, told)
  BY Zenon, <1>3 DEF CompactBlanksOnly, CompactKeepsAll, Compact!TellsAll
<1> QED BY <1>3, <1>4, <1>5 DEF CompactFormed, CompactBlank

CompactLeftOf(t, now, partly, lost, w, B) ==
  Compact!Remnant(t, now, partly \cup B, CompactOverwrittenTo(lost, w, B)) /\ CompactOverwrittenTo(lost, w, B) \subseteq lost \cup Compact!Turn

LEMMA CompactToldRemnant ==
  ASSUME NEW s, NEW now \in Nat, now <= CompactMaxTurns, NEW partly, NEW lost, Compact!Remnant(s, now, partly, lost),
         NEW told, NEW u, NEW at, CompactBlank(u, s, now, told, at),
         NEW bad, bad \subseteq 1 .. now, NEW B, B = told \cap bad, NEW reply \in Compact!Replies(B),
         NEW w, w = CompactWithSummary(u, at, told \ bad)
  PROVE  CompactLeftOf(CompactWithDeadEnds(w, CompactPlaceAfter(at, told \ bad), B, reply), now, partly, lost, w, B)
<1>0. CompactFormed(s, now) /\ \A n \in 1 .. now : n \in partly \/ n \in lost \/ Compact!TellsAll(s, n)
  BY DEF Compact!Remnant, CompactFormed
<1>1. CompactFormed(u, now) /\ CompactPlace(u, at) /\ told \subseteq 1 .. now /\ CompactKeepsAll(u, s, told)
  BY Zenon DEF CompactBlank
<1> DEFINE good == told \ bad
           place == CompactPlaceAfter(at, good)
           t == CompactWithDeadEnds(w, place, B, reply)
<1>2. good \in SUBSET Compact!Turn /\ B \in SUBSET Compact!Turn
  <2>1. \A n \in told : n \in 1 .. CompactMaxTurns
    BY <1>1, CompactionAssumption
  <2> QED BY <2>1 DEF Compact!Turn
<1>3. w = CompactWithSummary(u, at, good) /\ t = CompactWithDeadEnds(w, place, B, reply) /\ reply \in Compact!Replies(B)
  OBVIOUS
<1>9. \A n : n \in told => n \in good \/ n \in B
  OBVIOUS
<1> DEFINE gone == CompactOverwrittenTo(lost, w, B)
<1> HIDE DEF t, good
<1>4. /\ CompactFormed(w, now) /\ CompactPlace(w, place) /\ CompactKeepsAll(w, u, {}) /\ \A n \in good : Compact!TellsAll(w, n)
  BY Zenon, <1>1, <1>2, <1>3, CompactSummedForm
<1> HIDE DEF place
<1>5. CompactFormed(t, now) /\ CompactKeepsAll(t, w, gone) /\ lost \subseteq gone
  <2>1. CASE B = {}
    <3>1. t = w /\ gone = lost
      BY <1>3, <2>1 DEF CompactWithDeadEnds, CompactOverwrittenTo
    <3> HIDE DEF gone
    <3> QED BY Zenon, <1>4, <3>1 DEF CompactKeepsAll
  <2>2. CASE B # {}
    <3> DEFINE over == CompactToldBy(w)
    <3>1. t = Compact!Noted(w, place, reply) /\ gone = lost \cup over
      BY <1>3, <2>2 DEF CompactWithDeadEnds, CompactOverwrittenTo
    <3>2. reply \in Seq(Compact!Turn)
      BY <1>2, <1>3, CompactReplyIs
    <3>4. CompactFormed(t, now) /\ CompactKeepsAll(t, w, over)
      BY Zenon, <1>4, <3>1, <3>2, CompactNotedForm
    <3> HIDE DEF over, gone
    <3> QED BY <3>1, <3>4 DEF CompactKeepsAll
  <2> QED BY <2>1, <2>2
<1> HIDE DEF gone
<1>6. ASSUME NEW n \in 1 .. now PROVE n \in partly \cup B \/ n \in gone \/ Compact!TellsAll(t, n)
  <2>1. CASE n \in B
    BY <2>1
  <2>2. CASE n \in good
    BY Zenon, <1>4, <1>5, <2>2 DEF CompactKeepsAll
  <2>3. CASE n \notin told
    <3>1. n \in partly \/ n \in lost \/ Compact!TellsAll(s, n)
      BY Zenon, <1>0
    <3>2. Compact!TellsAll(s, n) => Compact!TellsAll(w, n)
      <4>1. n \notin {}
        OBVIOUS
      <4> QED BY Zenon, <1>1, <1>4, <2>3, <4>1 DEF CompactKeepsAll
    <3>3. Compact!TellsAll(w, n) => n \in gone \/ Compact!TellsAll(t, n)
      BY Zenon, <1>5 DEF CompactKeepsAll
    <3> QED BY <1>5, <3>1, <3>2, <3>3
  <2> QED BY Zenon, <1>9, <2>1, <2>2, <2>3
<1>7. Compact!Remnant(t, now, partly \cup B, gone)
  BY Zenon, <1>5, <1>6 DEF CompactFormed, Compact!Remnant
<1>8. gone \subseteq lost \cup Compact!Turn
  <2>1. w \in Seq(Compact!MessageType)
    BY <1>4 DEF CompactFormed, Compact!Shaped
  <2>2. \A i \in Compact!Mistaken(w) : w[i] \in Compact!MessageType
    BY <2>1 DEF Compact!Mistaken
  <2>3. \A i \in Compact!Mistaken(w) : w[i].reads \subseteq Compact!Turn
    BY <2>2 DEF Compact!MessageType
  <2> QED BY <2>3 DEF gone, CompactOverwrittenTo, CompactToldBy
<1> QED BY Zenon, <1>7, <1>8 DEF gone, t, place, good, CompactLeftOf

(* What a full compaction cuts out, its summary tells.                         *)
LEMMA CompactLayer3Remnant ==
  ASSUME NEW s, NEW now, NEW partly, NEW lost, Compact!Remnant(s, now, partly, lost),
         Cardinality(Compact!ToolPairs(s)) > CompactFullKeepRecentPairs,
         NEW e, e = Compact!RegionEnd(s), e > 1,
         NEW region, region = SubSeq(s, 2, e), NEW kind \in Compact!FullKinds,
         NEW t, t = Compact!Splice(s, 2, e, <<Compact!FullSummaryMessage(kind, Compact!Told(region))>> \o Compact!Preserved(region))
  PROVE  Compact!Remnant(t, now, partly, lost)
<1>1. CompactFormed(s, now) /\ Compact!Shaped(s)
  BY DEF Compact!Remnant, CompactFormed
<1>2. s \in Seq(Compact!MessageType) /\ Len(s) \in Nat /\ DOMAIN s = 1 .. Len(s) /\ s # <<>> /\ s[1].kind = "task"
  BY <1>1 DEF Compact!Shaped, Compact!Task, Compact!Message
<1>3. e \in Nat /\ e < Len(s) /\ s[e + 1].kind = "use"
  BY <1>1, CompactRegionEnds
<1> DEFINE m == Compact!FullSummaryMessage(kind, Compact!Told(region))
           v == Compact!Preserved(region)
           new == <<m>> \o v
<1>4. m = Compact!FullSummaryMessage(kind, Compact!Told(region)) /\ t = Compact!Splice(s, 2, e, new)
  OBVIOUS
<1> HIDE DEF m
<1>5. CompactIsRegion(region, s, e) /\ CompactTellsOf(m, kind, region, s, e)
  <2>1. 1 < e /\ e <= Len(s)
    BY <1>2, <1>3
  <2> QED BY <1>2, <1>3, <1>4, <2>1, CompactRegionTold
<1>6. m \in Compact!MessageType /\ m.kind \in Compact!FullKinds
      /\ \A j \in 2 .. e : s[j].kind # "dead" => \A n \in s[j].reads : n \in m.reads
  BY Zenon, <1>5 DEF CompactTellsOf
<1>7. CompactOneBlock(v)
  <2>1. region \in Seq(Compact!MessageType)
    BY <1>5 DEF CompactIsRegion
  <2> QED BY <2>1, CompactPreservedBlock
<1> HIDE DEF v
<1>8. /\ new \in Seq(Compact!MessageType) /\ 1 \in DOMAIN new /\ new[1] = m
      /\ \A k \in DOMAIN new : new[k] = m \/ new[k].kind = "dead"
  <2>1. CASE v = <<>>
    <3>1. v = <<>> /\ <<m>> \in Seq(Compact!MessageType)
      BY <1>6, <2>1
    <3>2. <<m>> \o <<>> = <<m>>
      BY <3>1
    <3>3. new = <<m>>
      BY Zenon, <3>1, <3>2
    <3> HIDE DEF new
    <3> QED BY <1>6, <3>3
  <2>2. CASE v # <<>>
    <3>1. PICK d \in Compact!MessageType : d.kind = "dead" /\ v = <<d>>
      BY Zenon, <1>7, <2>2 DEF CompactOneBlock
    <3> DEFINE two == <<m>> \o <<d>>
    <3>2. new = two /\ <<m>> \in Seq(Compact!MessageType) /\ <<d>> \in Seq(Compact!MessageType)
      BY <1>6, <3>1
    <3>5. two \in Seq(Compact!MessageType) /\ Len(two) = 2 /\ two[1] = m /\ two[2] = d
      BY <3>2
    <3> HIDE DEF two
    <3>3. new \in Seq(Compact!MessageType) /\ Len(new) = 2 /\ new[1] = m /\ new[2] = d
      BY Zenon, <3>2, <3>5
    <3> HIDE DEF new
    <3>4. DOMAIN new = 1 .. 2 /\ 1 .. 2 = {1, 2}
      BY <3>3
    <3> HIDE DEF new
    <3> QED BY <3>1, <3>3, <3>4
  <2> QED BY <2>1, <2>2
<1> HIDE DEF new
<1>9. CompactPlain(new)
  BY <1>6, <1>8 DEF CompactPlain, Compact!FullKinds
<1>10. CompactWhole(s, 2, e)
  <2>1. s[2 - 1].kind # "use"
    <3>1. s[1].kind # "use" /\ 2 - 1 = 1
      BY <1>2
    <3> QED BY Zenon, <3>1
  <2>2. 2 <= e + 1 /\ e <= Len(s) /\ s[e + 1].kind # "result"
    BY <1>2, <1>3
  <2> QED BY <1>3, <2>1, <2>2 DEF CompactWhole
<1>11. CompactFormed(t, now) /\ CompactComes(t, s, 2, e, new)
  BY <1>1, <1>4, <1>8, <1>9, <1>10, CompactSplicedForm
<1>12. \A j \in DOMAIN s : (j < 2 \/ e < j) \/ j \in 2 .. e
  BY <1>2, <1>3
<1>13. m.kind # "dead"
  BY <1>6 DEF Compact!FullKinds
<1>14. ASSUME NEW n, Compact!TellsAll(s, n) PROVE Compact!TellsAll(t, n)
  <2>1. PICK j \in DOMAIN s : s[j].kind # "dead" /\ n \in s[j].reads
    BY Zenon, <1>14 DEF Compact!TellsAll
  <2>2. CASE j < 2 \/ e < j
    BY Zenon, <1>11, <2>1, <2>2, CompactComesTells
  <2>3. CASE j \in 2 .. e
    <3>1. n \in m.reads
      BY Zenon, <1>6, <2>1, <2>3
    <3>2. 1 \in DOMAIN new /\ new[1].kind # "dead" /\ n \in new[1].reads
      BY Zenon, <1>8, <1>13, <3>1
    <3> QED BY Zenon, <1>11, <3>2, CompactComesTells
  <2> QED BY Zenon, <1>12, <2>2, <2>3
<1> QED BY Zenon, <1>11, <1>14 DEF Compact!Remnant, CompactFormed

(* A turn brings a result; a line of text takes nothing away.                  *)
LEMMA CompactTurnRemnant ==
  ASSUME NEW s, NEW now, NEW bad, NEW partly, NEW lost, Compact!Remnant(s, now, partly, lost),
         NEW t, NEW next, NEW worse, CompactAfterTurn(t, next, worse, s, now, bad), NEW more, partly \subseteq more
  PROVE  Compact!Remnant(t, next, more, lost)
<1>1. Compact!Shaped(s) /\ Compact!Verbatim(s, now) /\ \A n \in 1 .. now : n \in partly \/ n \in lost \/ Compact!TellsAll(s, n)
  BY DEF Compact!Remnant
<1>2. Compact!Shaped(t) /\ Compact!Verbatim(t, next) /\ CompactLonger(t, s, next) /\ CompactBrings(t, next)
  BY <1>1, CompactTurnForm
<1>3. next = now + 1 /\ now \in Nat
  BY DEF CompactAfterTurn
<1>4. Compact!TellsAll(t, next)
  BY <1>2 DEF CompactBrings, Compact!TellsAll
<1>5. ASSUME NEW n \in 1 .. next, n # next PROVE n \in more \/ n \in lost \/ Compact!TellsAll(t, n)
  <2>1. n \in 1 .. now
    BY <1>3, <1>5
  <2>2. Compact!TellsAll(s, n) => Compact!TellsAll(t, n)
    BY <1>2, CompactLongerTells
  <2> QED BY <1>1, <2>1, <2>2
<1>6. \A n \in 1 .. next : n \in more \/ n \in lost \/ Compact!TellsAll(t, n)
  BY Zenon, <1>4, <1>5
<1> QED BY Zenon, <1>2, <1>6 DEF Compact!Remnant

LEMMA CompactNudgeRemnant ==
  ASSUME NEW s, NEW now \in Nat, NEW partly, NEW lost, Compact!Remnant(s, now, partly, lost), NEW t, t = Append(s, Compact!Text)
  PROVE  Compact!Remnant(t, now, partly, lost)
<1>1. Compact!Shaped(s) /\ Compact!Verbatim(s, now) /\ \A n \in 1 .. now : n \in partly \/ n \in lost \/ Compact!TellsAll(s, n)
  BY DEF Compact!Remnant
<1> DEFINE next == now + 1
<1>2. Compact!Shaped(t) /\ Compact!Verbatim(t, now) /\ CompactLonger(t, s, next)
  BY <1>1, CompactNudgeForm
<1> HIDE DEF next
<1>3. \A n \in 1 .. now : n \in partly \/ n \in lost \/ Compact!TellsAll(t, n)
  <2> SUFFICES ASSUME NEW n \in 1 .. now PROVE n \in partly \/ n \in lost \/ Compact!TellsAll(t, n)
    OBVIOUS
  <2>1. Compact!TellsAll(s, n) => Compact!TellsAll(t, n)
    BY <1>2, CompactLongerTells
  <2> QED BY <1>1, <2>1
<1> QED BY Zenon, <1>2, <1>3 DEF Compact!Remnant

(* Initially the task is all there is.                                         *)
LEMMA CompactInitIInv == Compact!Init => Compact!IInv
<1> SUFFICES ASSUME Compact!Init PROVE Compact!IInv
  OBVIOUS
<1>1. Compact!Task \in Compact!MessageType /\ Compact!Task.kind = "task" /\ CompactMaxTurns \in Nat
  <2>1. <<>> \in Seq(Compact!Turn) /\ 0 \in 0 .. CompactMaxTurns /\ CompactMaxTurns \in Nat
    BY CompactionAssumption
  <2> QED BY <2>1 DEF Compact!Task, Compact!Message, Compact!MessageType
<1>2. /\ Compact_messages = <<Compact!Task>> /\ Compact_turns = 0 /\ Compact_failed = {} /\ Compact_mixed = {} /\ Compact_garbled = {} /\ Compact_pc = "turn"
      /\ Compact_swallowed = {} /\ Compact_overwritten = {} /\ Compact_mistaken = FALSE
  BY DEF Compact!Init
<1>3. Compact_messages \in Seq(Compact!MessageType) /\ DOMAIN Compact_messages = {1} /\ Compact_messages[1] = Compact!Task /\ Compact_messages # <<>>
  BY <1>1, <1>2
<1>4. \A i \in DOMAIN Compact_messages : i = 1 /\ Compact_messages[i].kind = "task"
  BY <1>1, <1>3
<1>5. Compact!Shaped(Compact_messages) /\ Compact!Single(Compact_messages) /\ Compact!Verbatim(Compact_messages, Compact_turns) /\ Compact!Listed(Compact_messages, Compact_failed)
  BY <1>3, <1>4 DEF Compact!Shaped, Compact!Single, Compact!Unique, Compact!Verbatim, Compact!Listed
<1>6. Compact!Remembered(Compact_messages, Compact_turns, Compact_failed, Compact_garbled)
  BY <1>2 DEF Compact!Remembered
<1>7. Compact!Remnant(Compact_messages, Compact_turns, (Compact_failed \ Compact_mixed) \cup Compact_swallowed, Compact_overwritten)
  BY <1>2, <1>5 DEF Compact!Remnant
<1>8. Compact!TypeOK
  <2>1. Compact_mistaken \in BOOLEAN
    BY Zenon, <1>2
  <2> QED BY <1>1, <1>2, <1>3, <2>1 DEF Compact!TypeOK
<1> QED BY <1>2, <1>5, <1>6, <1>7, <1>8 DEF Compact!IInv, Compact!History

(* A conversation that keeps its form has the type of one.                      *)
LEMMA CompactFormTyped ==
  ASSUME NEW s, NEW now, NEW partly, NEW lost, Compact!Remnant(s, now, partly, lost)
  PROVE  s \in Seq(Compact!MessageType) /\ s # <<>> /\ s[1] = Compact!Task
BY DEF Compact!Remnant, Compact!Shaped

LEMMA CompactToolTurnStep == Compact!IInv /\ Compact!ToolTurn => Compact!IInv'
<1> SUFFICES ASSUME Compact!IInv, Compact!ToolTurn PROVE Compact!IInv'
  OBVIOUS
<1>1. /\ Compact_turns \in 0 .. CompactMaxTurns - 1 /\ Compact_turns' = Compact_turns + 1 /\ Compact_turns' \in 0 .. CompactMaxTurns
      /\ Compact_failed \subseteq 1 .. Compact_turns /\ Compact_mixed \subseteq Compact_failed /\ Compact_garbled \subseteq Compact_failed /\ Compact_swallowed \subseteq Compact_mixed
      /\ Compact_failed' \in {Compact_failed, Compact_failed \cup {Compact_turns'}} /\ Compact_mixed' \in {Compact_mixed, Compact_mixed \cup (Compact_failed' \ Compact_failed)}
      /\ Compact_pc' = "layer2"
      /\ Compact_messages' = Compact_messages \o <<Compact!Use(Compact_turns'), Compact!Result(Compact_turns')>>
  BY CompactionAssumption DEF Compact!IInv, Compact!TypeOK, Compact!ToolTurn
<1>2. /\ ~Compact_mistaken => Compact!History(Compact_messages, Compact_turns, Compact_failed, Compact_garbled)
      /\ Compact!Remnant(Compact_messages, Compact_turns, (Compact_failed \ Compact_mixed) \cup Compact_swallowed, Compact_overwritten)
  BY Zenon DEF Compact!IInv
<1>3. Compact_garbled' = Compact_garbled /\ Compact_swallowed' = Compact_swallowed /\ Compact_mistaken' = Compact_mistaken /\ Compact_overwritten' = Compact_overwritten
  BY DEF Compact!ToolTurn, Compact!account
<1>4. CompactAfterTurn(Compact_messages', Compact_turns', Compact_failed', Compact_messages, Compact_turns, Compact_failed)
  BY Zenon, <1>1 DEF CompactAfterTurn
<1>5. ~Compact_mistaken => Compact!History(Compact_messages', Compact_turns', Compact_failed', Compact_garbled)
  BY Zenon, <1>2, <1>4, CompactTurnHistory
<1>6. (Compact_failed \ Compact_mixed) \cup Compact_swallowed \subseteq (Compact_failed' \ Compact_mixed') \cup Compact_swallowed
  BY <1>1
<1>7. Compact!Remnant(Compact_messages', Compact_turns', (Compact_failed' \ Compact_mixed') \cup Compact_swallowed, Compact_overwritten)
  BY Zenon, <1>2, <1>4, <1>6, CompactTurnRemnant
<1>8. /\ Compact_failed' \subseteq 1 .. Compact_turns' /\ Compact_failed' \subseteq Compact!Turn /\ Compact_garbled' \subseteq Compact_failed'
      /\ Compact_mixed' \subseteq Compact_failed' /\ Compact_swallowed' \subseteq Compact_mixed'
  BY <1>1, <1>3, CompactionAssumption DEF Compact!Turn
<1>9. Compact_mistaken' \in BOOLEAN /\ Compact_overwritten' \subseteq Compact!Turn
  BY <1>3 DEF Compact!IInv, Compact!TypeOK
<1>10. Compact!TypeOK'
  BY <1>1, <1>7, <1>8, <1>9, CompactFormTyped DEF Compact!TypeOK
<1>11. ~Compact_mistaken' => Compact!History(Compact_messages', Compact_turns', Compact_failed', Compact_garbled')
  BY Zenon, <1>3, <1>5
<1>12. Compact!Remnant(Compact_messages', Compact_turns', (Compact_failed' \ Compact_mixed') \cup Compact_swallowed', Compact_overwritten')
  BY Zenon, <1>3, <1>7
<1> QED BY <1>8, <1>10, <1>11, <1>12 DEF Compact!IInv

LEMMA CompactNudgeStep == Compact!IInv /\ Compact!Nudge => Compact!IInv'
<1> SUFFICES ASSUME Compact!IInv, Compact!Nudge PROVE Compact!IInv'
  OBVIOUS
<1> DEFINE partly == (Compact_failed \ Compact_mixed) \cup Compact_swallowed
<1>1. /\ Compact_failed \subseteq 1 .. Compact_turns /\ Compact_turns' = Compact_turns /\ Compact_failed' = Compact_failed /\ Compact_mixed' = Compact_mixed /\ Compact_garbled' = Compact_garbled
      /\ Compact_swallowed' = Compact_swallowed /\ Compact_mistaken' = Compact_mistaken /\ Compact_overwritten' = Compact_overwritten /\ Compact_pc' = "turn"
      /\ (Compact_messages' = Compact_messages \/ Compact_messages' = Append(Compact_messages, Compact!Text))
  BY DEF Compact!IInv, Compact!Nudge, Compact!account
<1>2. /\ ~Compact_mistaken => Compact!History(Compact_messages, Compact_turns, Compact_failed, Compact_garbled)
      /\ Compact!Remnant(Compact_messages, Compact_turns, partly, Compact_overwritten)
  BY Zenon DEF Compact!IInv
<1>3. partly' = partly /\ Compact_turns \in Nat
  BY <1>1 DEF Compact!IInv, Compact!TypeOK
<1> HIDE DEF partly
<1>4. (~Compact_mistaken => Compact!History(Compact_messages', Compact_turns, Compact_failed, Compact_garbled)) /\ Compact!Remnant(Compact_messages', Compact_turns, partly, Compact_overwritten)
  <2>1. CASE Compact_messages' = Compact_messages
    BY Zenon, <1>2, <2>1
  <2>2. CASE Compact_messages' = Append(Compact_messages, Compact!Text)
    <3>1. ~Compact_mistaken => Compact!History(Compact_messages', Compact_turns, Compact_failed, Compact_garbled)
      BY <1>1, <1>2, <1>3, <2>2, CompactNudgeHistory
    <3>2. Compact!Remnant(Compact_messages', Compact_turns, partly, Compact_overwritten)
      BY <1>2, <1>3, <2>2, CompactNudgeRemnant
    <3> QED BY <3>1, <3>2
  <2> QED BY <1>1, <2>1, <2>2
<1>5. ~Compact_mistaken' => Compact!History(Compact_messages', Compact_turns', Compact_failed', Compact_garbled')
  BY Zenon, <1>1, <1>4
<1>6. Compact!Remnant(Compact_messages', Compact_turns', partly', Compact_overwritten')
  BY Zenon, <1>1, <1>3, <1>4
<1>7. Compact!TypeOK'
  BY <1>1, <1>4, CompactFormTyped DEF Compact!IInv, Compact!TypeOK
<1> QED BY <1>1, <1>5, <1>6, <1>7 DEF Compact!IInv, partly

LEMMA CompactLayer2Step == ASSUME Compact!IInv, Compact!FreshPairs(Compact_messages) # {}, Compact!Layer2(Compact!FreshPairs(Compact_messages))
                    PROVE  /\ Compact_garbled' \subseteq Compact_failed /\ Compact_swallowed' \subseteq Compact_mixed
                           /\ Compact_mistaken' \in BOOLEAN /\ Compact_overwritten' \subseteq Compact!Turn
                           /\ ~Compact_mistaken' => Compact!History(Compact_messages', Compact_turns, Compact_failed, Compact_garbled')
                           /\ Compact!Remnant(Compact_messages', Compact_turns, (Compact_failed \ Compact_mixed) \cup Compact_swallowed', Compact_overwritten')
<1> DEFINE s == Compact_messages
           fresh == Compact!FreshPairs(s)
           at == (CHOOSE i \in fresh : \A j \in fresh : j <= i) + 2
           told == {s[i].turn : i \in fresh}
           u == Compact!Blanked(s, fresh)
           B == told \cap Compact_failed
           w == CompactWithSummary(u, at, told \ Compact_failed)
           place == CompactPlaceAfter(at, told \ Compact_failed)
           t == Compact_messages'
<1>1. /\ Compact_turns \in Nat /\ Compact_turns <= CompactMaxTurns /\ Compact_failed \subseteq 1 .. Compact_turns /\ Compact_garbled \subseteq Compact_failed
      /\ Compact_mixed \subseteq Compact_failed /\ Compact_swallowed \subseteq Compact_mixed /\ Compact_mistaken \in BOOLEAN
  BY CompactionAssumption DEF Compact!IInv, Compact!TypeOK
<1>2. /\ ~Compact_mistaken => Compact!History(s, Compact_turns, Compact_failed, Compact_garbled)
      /\ Compact!Remnant(s, Compact_turns, (Compact_failed \ Compact_mixed) \cup Compact_swallowed, Compact_overwritten)
  BY Zenon DEF Compact!IInv
<1>3. PICK reply \in Compact!Replies(B) :
        /\ t = CompactWithDeadEnds(w, place, B, reply)
        /\ Compact_garbled' = CompactLostTo(Compact_garbled, B, reply)
        /\ Compact_swallowed' = Compact_swallowed \cup (told \cap Compact_mixed)
        /\ Compact_mistaken' = (Compact_mistaken \/ (B # {} /\ Compact!Mistaken(w) # {}))
        /\ Compact_overwritten' = CompactOverwrittenTo(Compact_overwritten, w, B)
  BY Zenon DEF Compact!Layer2, CompactWithDeadEnds, CompactWithSummary, CompactPlaceAfter, CompactLostTo,
       CompactOverwrittenTo, CompactToldBy
<1>4. Compact_mistaken' \in BOOLEAN
  BY Zenon, <1>1, <1>3
<1>5. Compact_garbled' \subseteq Compact_failed
  <2> HIDE DEF told
  <2> QED BY <1>1, <1>3 DEF CompactLostTo
<1>6. Compact_swallowed' \subseteq Compact_mixed
  <2> HIDE DEF told
  <2> QED BY <1>1, <1>3
<1>7. ~Compact_mistaken' => ~Compact_mistaken /\ (B # {} => Compact!Mistaken(w) = {})
  BY Zenon, <1>3
<1>8. fresh # {} /\ fresh = Compact!FreshPairs(s)
  OBVIOUS
<1>9. ~Compact_mistaken' => Compact!History(t, Compact_turns, Compact_failed, Compact_garbled')
  <2> SUFFICES ASSUME ~Compact_mistaken' PROVE Compact!History(t, Compact_turns, Compact_failed, Compact_garbled')
    OBVIOUS
  <2>1. Compact!History(s, Compact_turns, Compact_failed, Compact_garbled) /\ (B # {} => Compact!Mistaken(w) = {})
    BY Zenon, <1>2, <1>7
  <2>2. CompactBehind(u, Compact_turns, Compact_failed, Compact_garbled, told, at)
    BY <1>1, <1>8, <2>1, CompactBlankedBehind
  <2> HIDE DEF u, at, told, fresh
  <2>3. Compact!History(CompactWithDeadEnds(w, place, B, reply), Compact_turns, Compact_failed, CompactLostTo(Compact_garbled, B, reply))
    BY <1>1, <2>1, <2>2, CompactToldHistory
  <2> QED BY Zenon, <1>3, <2>3
<1>10. Compact!Remnant(t, Compact_turns, (Compact_failed \ Compact_mixed) \cup Compact_swallowed', Compact_overwritten') /\ Compact_overwritten' \subseteq Compact!Turn
  <2> DEFINE partly == (Compact_failed \ Compact_mixed) \cup Compact_swallowed
             gone == CompactOverwrittenTo(Compact_overwritten, w, B)
  <2>1. Compact!Remnant(s, Compact_turns, partly, Compact_overwritten)
    BY Zenon, <1>2
  <2>8. CompactBlank(u, s, Compact_turns, told, at)
    <3>1. CompactFormed(s, Compact_turns)
      BY <2>1 DEF Compact!Remnant, CompactFormed
    <3> QED BY <1>1, <1>8, <3>1, CompactBlankedPlace
  <2>2. w = CompactWithSummary(u, at, told \ Compact_failed) /\ B = told \cap Compact_failed
    OBVIOUS
  <2>3. t = CompactWithDeadEnds(w, CompactPlaceAfter(at, told \ Compact_failed), B, reply) /\ Compact_overwritten' = gone
    BY Zenon, <1>3
  <2> HIDE DEF partly, w, u, at, told, fresh, B
  <2>4. CompactLeftOf(CompactWithDeadEnds(w, CompactPlaceAfter(at, told \ Compact_failed), B, reply), Compact_turns, partly, Compact_overwritten, w, B)
    BY <1>1, <2>1, <2>2, <2>8, CompactToldRemnant
  <2>5. partly \cup B \subseteq (Compact_failed \ Compact_mixed) \cup Compact_swallowed'
    BY <1>3, <2>2 DEF partly
  <2>6. Compact!Remnant(t, Compact_turns, partly \cup B, Compact_overwritten') /\ Compact_overwritten' \subseteq Compact_overwritten \cup Compact!Turn
    BY Zenon, <2>3, <2>4 DEF CompactLeftOf
  <2>7. Compact_overwritten \subseteq Compact!Turn
    BY DEF Compact!IInv, Compact!TypeOK
  <2> HIDE DEF t
  <2> QED BY <2>5, <2>6, <2>7 DEF Compact!Remnant
<1> QED BY <1>4, <1>5, <1>6, <1>9, <1>10

LEMMA CompactMaybeCompactStep == Compact!IInv /\ Compact!MaybeCompact => Compact!IInv'
<1> SUFFICES ASSUME Compact!IInv, Compact!MaybeCompact PROVE Compact!IInv'
  OBVIOUS
<1>1. /\ Compact_turns \in 0 .. CompactMaxTurns /\ Compact_failed \subseteq 1 .. Compact_turns /\ Compact_failed \subseteq Compact!Turn /\ Compact_garbled \subseteq Compact_failed
      /\ Compact_mixed \subseteq Compact_failed /\ Compact_swallowed \subseteq Compact_mixed /\ Compact_mistaken \in BOOLEAN /\ Compact_overwritten \subseteq Compact!Turn
      /\ Compact_turns' = Compact_turns /\ Compact_failed' = Compact_failed /\ Compact_mixed' = Compact_mixed /\ Compact_pc' = "layer3"
  BY DEF Compact!IInv, Compact!TypeOK, Compact!MaybeCompact
<1>2. /\ Compact_garbled' \subseteq Compact_failed /\ Compact_swallowed' \subseteq Compact_mixed
      /\ Compact_mistaken' \in BOOLEAN /\ Compact_overwritten' \subseteq Compact!Turn
      /\ ~Compact_mistaken' => Compact!History(Compact_messages', Compact_turns, Compact_failed, Compact_garbled')
      /\ Compact!Remnant(Compact_messages', Compact_turns, (Compact_failed \ Compact_mixed) \cup Compact_swallowed', Compact_overwritten')
  <2>1. CASE Compact!FreshPairs(Compact_messages) # {} /\ Compact!Layer2(Compact!FreshPairs(Compact_messages))
    BY <2>1, CompactLayer2Step
  <2>2. CASE Compact_messages' = Compact_messages /\ UNCHANGED Compact!account
    <3>1. Compact_garbled' = Compact_garbled /\ Compact_swallowed' = Compact_swallowed /\ Compact_mistaken' = Compact_mistaken /\ Compact_overwritten' = Compact_overwritten
      BY <2>2 DEF Compact!account
    <3> QED BY Zenon, <1>1, <2>2, <3>1 DEF Compact!IInv
  <2> QED BY <2>1, <2>2 DEF Compact!MaybeCompact
<1>3. ~Compact_mistaken' => Compact!History(Compact_messages', Compact_turns', Compact_failed', Compact_garbled')
  BY Zenon, <1>1, <1>2
<1>4. Compact!Remnant(Compact_messages', Compact_turns', (Compact_failed' \ Compact_mixed') \cup Compact_swallowed', Compact_overwritten')
  BY Zenon, <1>1, <1>2
<1>5. Compact!TypeOK'
  BY <1>1, <1>2, CompactFormTyped DEF Compact!TypeOK
<1> QED BY <1>1, <1>3, <1>4, <1>5 DEF Compact!IInv

LEMMA CompactMaybeFullCompactStep == Compact!IInv /\ Compact!MaybeFullCompact => Compact!IInv'
<1> SUFFICES ASSUME Compact!IInv, Compact!MaybeFullCompact PROVE Compact!IInv'
  OBVIOUS
<1> DEFINE partly == (Compact_failed \ Compact_mixed) \cup Compact_swallowed
<1>1. /\ Compact_failed \subseteq 1 .. Compact_turns /\ Compact_turns' = Compact_turns /\ Compact_failed' = Compact_failed /\ Compact_mixed' = Compact_mixed /\ Compact_garbled' = Compact_garbled
      /\ Compact_swallowed' = Compact_swallowed /\ Compact_mistaken' = Compact_mistaken /\ Compact_overwritten' = Compact_overwritten /\ Compact_pc' = "nudge"
  BY DEF Compact!IInv, Compact!MaybeFullCompact, Compact!account
<1>2. /\ ~Compact_mistaken => Compact!History(Compact_messages, Compact_turns, Compact_failed, Compact_garbled)
      /\ Compact!Remnant(Compact_messages, Compact_turns, partly, Compact_overwritten)
  BY Zenon DEF Compact!IInv
<1>3. partly' = partly
  BY <1>1
<1> HIDE DEF partly
<1>4. (~Compact_mistaken => Compact!History(Compact_messages', Compact_turns, Compact_failed, Compact_garbled)) /\ Compact!Remnant(Compact_messages', Compact_turns, partly, Compact_overwritten)
  <2>1. CASE /\ Compact!Position(Compact_messages, Compact!FullKinds) = 0 /\ Cardinality(Compact!ToolPairs(Compact_messages)) > CompactFullKeepRecentPairs
             /\ Compact!RegionEnd(Compact_messages) > 1 /\ Compact!Layer3(Compact!RegionEnd(Compact_messages))
    <3> DEFINE e == Compact!RegionEnd(Compact_messages)
               region == SubSeq(Compact_messages, 2, e)
    <3>1. PICK kind \in Compact!FullKinds :
            Compact_messages' = Compact!Splice(Compact_messages, 2, e, <<Compact!FullSummaryMessage(kind, Compact!Told(region))>> \o Compact!Preserved(region))
      BY Zenon, <2>1 DEF Compact!Layer3
    <3> DEFINE new == <<Compact!FullSummaryMessage(kind, Compact!Told(region))>> \o Compact!Preserved(region)
    <3>2. ~Compact_mistaken => Compact!History(Compact!Splice(Compact_messages, 2, e, new), Compact_turns, Compact_failed, Compact_garbled)
      BY <1>2, <2>1, CompactLayer3History
    <3>3. Compact!Remnant(Compact!Splice(Compact_messages, 2, e, new), Compact_turns, partly, Compact_overwritten)
      BY <1>2, <2>1, CompactLayer3Remnant
    <3> HIDE DEF e
    <3> QED BY Zenon, <3>1, <3>2, <3>3
  <2>2. CASE Compact_messages' = Compact_messages
    BY Zenon, <1>2, <2>2
  <2> QED BY <2>1, <2>2 DEF Compact!MaybeFullCompact
<1>5. ~Compact_mistaken' => Compact!History(Compact_messages', Compact_turns', Compact_failed', Compact_garbled')
  BY Zenon, <1>1, <1>4
<1>6. Compact!Remnant(Compact_messages', Compact_turns', partly', Compact_overwritten')
  BY Zenon, <1>1, <1>3, <1>4
<1>7. Compact!TypeOK'
  BY <1>1, <1>4, CompactFormTyped DEF Compact!IInv, Compact!TypeOK
<1> QED BY <1>1, <1>5, <1>6, <1>7 DEF Compact!IInv, partly

LEMMA CompactNextIInv == Compact!IInv /\ [Compact!Next]_Compact!vars => Compact!IInv'
<1> SUFFICES ASSUME Compact!IInv, [Compact!Next]_Compact!vars PROVE Compact!IInv'
  OBVIOUS
<1>1. CASE UNCHANGED Compact!vars
  BY <1>1 DEF Compact!vars, Compact!IInv, Compact!TypeOK
<1> QED BY <1>1, CompactToolTurnStep, CompactNudgeStep, CompactMaybeCompactStep,
     CompactMaybeFullCompactStep DEF Compact!Next

LEMMA CompactHolds == Compact!IInv => Compact!TypeOK /\ Compact!HistoryStands
<1> SUFFICES ASSUME Compact!IInv PROVE Compact!TypeOK /\ Compact!HistoryStands
  OBVIOUS
<1>1. /\ Compact!TypeOK
      /\ ~Compact_mistaken => Compact!History(Compact_messages, Compact_turns, Compact_failed, Compact_garbled)
      /\ Compact!Remnant(Compact_messages, Compact_turns, (Compact_failed \ Compact_mixed) \cup Compact_swallowed, Compact_overwritten)
  BY Zenon DEF Compact!IInv
<1>2. /\ Compact!Shaped(Compact_messages) /\ Compact!Verbatim(Compact_messages, Compact_turns)
      /\ \A n \in 1 .. Compact_turns : \/ n \in (Compact_failed \ Compact_mixed) \cup Compact_swallowed \/ n \in Compact_overwritten
                               \/ Compact!TellsAll(Compact_messages, n)
  BY <1>1 DEF Compact!Remnant
<1>3. ~Compact_mistaken => Compact!Single(Compact_messages) /\ Compact!Remembered(Compact_messages, Compact_turns, Compact_failed, Compact_garbled)
  BY <1>1 DEF Compact!History
<1>4. Compact_mixed \subseteq Compact_failed /\ Compact_swallowed \subseteq Compact_mixed
  BY <1>1 DEF Compact!TypeOK
<1>5. ASSUME NEW n \in 1 .. Compact_turns
      PROVE  \/ Compact!Reads(Compact_messages, n) \/ n \in Compact_garbled \/ n \in Compact_overwritten
             \/ n \in Compact_failed /\ (Compact_mistaken \/ Compact!DrivenOut(Compact_messages, n))
  <2>1. CASE Compact_mistaken
    <3>1. Compact!TellsAll(Compact_messages, n) => Compact!Reads(Compact_messages, n)
      BY Zenon DEF Compact!TellsAll, Compact!Reads
    <3> QED BY <1>2, <1>4, <2>1, <3>1
  <2>2. CASE ~Compact_mistaken
    BY <1>3, <2>2 DEF Compact!Remembered
  <2> QED BY <2>1, <2>2
<1>6. ASSUME NEW n \in 1 .. Compact_turns, n \in Compact_mixed
      PROVE  Compact!TellsAll(Compact_messages, n) \/ n \in Compact_swallowed \/ n \in Compact_overwritten
  BY <1>2, <1>6
<1>7. Compact!NothingForgotten
  BY Zenon, <1>5, <1>6 DEF Compact!NothingForgotten
<1>8. Compact!WellFormed
  <2>1. ASSUME NEW i \in DOMAIN Compact_messages
        PROVE  /\ Compact_messages[i].kind = "use" => i < Len(Compact_messages) /\ Compact_messages[i + 1].kind = "result"
                                              /\ Compact_messages[i + 1].turn = Compact_messages[i].turn
               /\ Compact_messages[i].kind = "result" => Compact_messages[i - 1].kind = "use"
    BY Zenon, <1>2 DEF Compact!Shaped
  <2>2. ASSUME NEW i \in DOMAIN Compact_messages, Compact_messages[i].kind = "result", Compact_turns - Compact_messages[i].turn < CompactKeepRecentPairs
        PROVE  ~Compact!Compacted(Compact_messages[i])
    <3>1. /\ Compact_messages[i].turn \in 1 .. Compact_turns
          /\ Compact_turns < Compact_messages[i].turn + CompactKeepRecentPairs => ~Compact!Compacted(Compact_messages[i])
      BY <1>2, <2>2 DEF Compact!Verbatim
    <3>2. Compact_turns \in Nat /\ CompactKeepRecentPairs \in Nat /\ Compact_messages[i].turn \in Nat
      BY <1>1, <3>1, CompactionAssumption DEF Compact!TypeOK
    <3>3. Compact_turns < Compact_messages[i].turn + CompactKeepRecentPairs
      BY <2>2, <3>2
    <3> QED BY <3>1, <3>3
  <2> QED BY Zenon, <1>3, <2>1, <2>2 DEF Compact!WellFormed
<1> QED BY <1>1, <1>7, <1>8 DEF Compact!HistoryStands

(* compaction.py: however the two layers follow one another, every turn can still be read off *)
(* the conversation, but for what newer dead ends drove out, what a model's reply left out,    *)
(* what else a failed turn brought, and what a full summary mistaken for the dead ends told,   *)
(* and every use keeps its result, for any turns, failures and summaries.                      *)
THEOREM HistoryAlwaysStands == Spec => []HistoryStands
<1> DEFINE Inv == part = "compaction" => Compact!IInv
<1>1. Init => Inv
  BY CompactInitIInv DEF Init
<1>2. Inv /\ [Next]_vars => Inv'
  <2>1. ASSUME part = "compaction", Compact!IInv, [Next]_vars PROVE Compact!IInv'
    BY <2>1, CompactNextIInv DEF Next, vars, Compact!vars
  <2>2. [Next]_vars => part' = part
    BY DEF Next, vars
  <2> QED BY <2>1, <2>2
<1>3. Inv => HistoryStands
  BY CompactHolds DEF HistoryStands
<1> QED
  BY <1>1, <1>2, <1>3, PTL DEF Spec

HIDE CompactCardinality
HIDE DEF Compact_messages, Compact_pc, Compact_turns, Compact_failed, Compact_mixed,
  Compact_garbled, Compact_swallowed, Compact_mistaken, Compact_overwritten

-----------------------------------------------------------------------------
(* PatternGuard. *)
Guard_recent == x1
Guard_nudged == x2
Guard_action == x3
Guard_reads == x4
Guard_batches == x5
USE DEF Guard_recent, Guard_nudged, Guard_action, Guard_reads, Guard_batches

(* Sets have one cardinality, inside and outside of PatternGuard. *)
LEMMA GuardCardinality == \A S : Guard!Cardinality(S) = Cardinality(S)
BY DEF Guard!Cardinality, Cardinality
USE GuardCardinality

(* What the guard keeps of a call is a file, or that there was none.           *)
LEMMA GuardEventIs == \A call \in GuardPath \cup {"none"} : Guard!Event(call) \in GuardFile \cup {0}
BY GuardAssumption DEF Guard!Event

(* The guard finds a file in its window no oftener than the agent read it.     *)
LEMMA GuardCounted ==
  ASSUME NEW seq, NEW done, Guard!Windowed(seq, done), NEW f \in GuardFile
  PROVE  Guard!Times(seq, f) \in Nat /\ Guard!ReadsIn(done, f) \in Nat /\ Guard!Times(seq, f) <= Guard!ReadsIn(done, f)
<1> DEFINE S == {i \in DOMAIN seq : seq[i] = f}
<1> DEFINE T == {i \in DOMAIN done : done[i] \in Guard!Spelled(f)}
<1> DEFINE off == Len(done) - Len(seq)
<1> DEFINE g == [i \in S |-> off + i]
<1>0. /\ seq \in Seq(GuardFile \cup {0}) /\ done \in Seq(GuardPath \cup {"none"}) /\ Len(seq) <= Len(done)
      /\ DOMAIN seq = 1 .. Len(seq) /\ DOMAIN done = 1 .. Len(done) /\ Len(seq) \in Nat /\ Len(done) \in Nat
  BY DEF Guard!Windowed
<1>1. off \in Nat
  BY <1>0
<1>2. IsFiniteSet(1 .. Len(done))
  BY <1>0, FS_Interval
<1>3. IsFiniteSet(T)
  BY <1>0, <1>2, FS_Subset
<1>4. ASSUME NEW i \in S PROVE off + i \in T
  <2>1. i \in 1 .. Len(seq) /\ seq[i] = f /\ off + i \in 1 .. Len(done)
    BY <1>0
  <2>2. Guard!Event(done[off + i]) = f
    BY <2>1 DEF Guard!Windowed
  <2>3. f # 0
    BY GuardAssumption
  <2>4. done[off + i] # "none" /\ done[off + i] \in GuardPath \cup {"none"}
    BY <1>0, <2>1, <2>2, <2>3 DEF Guard!Event
  <2>5. GuardNormal[done[off + i]] = f
    BY <2>2, <2>4 DEF Guard!Event
  <2> QED BY <1>0, <2>1, <2>4, <2>5 DEF Guard!Spelled
<1>5. g \in [S -> T]
  BY <1>4
<1>6. \A a, b \in S : g[a] = g[b] => a = b
  <2> SUFFICES ASSUME NEW a \in S, NEW b \in S, off + a = off + b PROVE a = b
    OBVIOUS
  <2>1. a \in Nat /\ b \in Nat
    BY <1>0
  <2> HIDE DEF off
  <2> QED BY <2>1, <1>1
<1>7. g \in Injection(S, T)
  BY <1>5, <1>6 DEF Injection, IsInjective
<1>8. IsFiniteSet(S) /\ Cardinality(S) <= Cardinality(T)
  BY <1>3, <1>7, FS_Injection
<1>9. Cardinality(S) \in Nat /\ Cardinality(T) \in Nat
  BY <1>3, <1>8, FS_CardinalityType
<1> QED BY <1>8, <1>9 DEF Guard!Times, Guard!ReadsIn

(* A sequence that follows another one.                                        *)
LEMMA GuardJoined == ASSUME NEW S, NEW s \in Seq(S), NEW t \in Seq(S)
                PROVE  s \o t \in Seq(S) /\ Len(s \o t) = Len(s) + Len(t)
OBVIOUS

(* What is done more is added to the window and to what was done.              *)
LEMMA GuardExtended ==
  ASSUME NEW seq, NEW done, Guard!Windowed(seq, done), NEW events \in Seq(GuardFile \cup {0}),
         NEW more \in Seq(GuardPath \cup {"none"}), Len(events) = Len(more),
         \A i \in 1 .. Len(more) : events[i] = Guard!Event(more[i])
  PROVE  Guard!Windowed(seq \o events, done \o more)
<1>1. /\ seq \in Seq(GuardFile \cup {0}) /\ done \in Seq(GuardPath \cup {"none"}) /\ Len(seq) <= Len(done)
      /\ Len(seq) \in Nat /\ Len(done) \in Nat /\ Len(more) \in Nat
  BY DEF Guard!Windowed
<1>2. seq \o events \in Seq(GuardFile \cup {0}) /\ Len(seq \o events) = Len(seq) + Len(more)
  <2>1. seq \o events \in Seq(GuardFile \cup {0}) /\ Len(seq \o events) = Len(seq) + Len(events)
    BY Zenon, <1>1, GuardJoined
  <2> QED BY <2>1
<1>3. done \o more \in Seq(GuardPath \cup {"none"}) /\ Len(done \o more) = Len(done) + Len(more)
  BY <1>1, GuardJoined
<1>4. ASSUME NEW i \in 1 .. Len(seq \o events)
      PROVE  (seq \o events)[i] = Guard!Event((done \o more)[Len(done \o more) - Len(seq \o events) + i])
  <2>1. i \in 1 .. Len(seq) + Len(more) /\ i \in Nat
    BY <1>1, <1>2
  <2>2. Len(done \o more) - Len(seq \o events) + i = Len(done) - Len(seq) + i
    BY <1>1, <1>2, <1>3, <2>1
  <2>3. CASE i <= Len(seq)
    <3>1. (seq \o events)[i] = seq[i]
      BY <1>1, <2>1, <2>3
    <3>2. seq[i] = Guard!Event(done[Len(done) - Len(seq) + i])
      BY <1>1, <2>1, <2>3 DEF Guard!Windowed
    <3>3. Len(done) - Len(seq) + i \in 1 .. Len(done)
      BY <1>1, <2>1, <2>3
    <3>4. (done \o more)[Len(done) - Len(seq) + i] = done[Len(done) - Len(seq) + i]
      BY <1>1, <3>3
    <3> QED BY <2>2, <3>1, <3>2, <3>4
  <2>4. CASE i > Len(seq)
    <3>1. i - Len(seq) \in 1 .. Len(more)
      BY <1>1, <2>1, <2>4
    <3>2. (seq \o events)[i] = events[i - Len(seq)]
      BY <1>1, <2>1, <2>4
    <3>3. Len(done) - Len(seq) + i = Len(done) + (i - Len(seq))
      BY <1>1, <2>1
    <3>4. (done \o more)[Len(done) + (i - Len(seq))] = more[i - Len(seq)]
      BY <1>1, <3>1
    <3> QED BY <2>2, <3>1, <3>2, <3>3, <3>4
  <2> QED BY <1>1, <2>1, <2>3, <2>4
<1> QED BY <1>1, <1>2, <1>3, <1>4 DEF Guard!Windowed

(* The end of a sequence.                                                      *)
LEMMA GuardEnded ==
  ASSUME NEW S, NEW s \in Seq(S), NEW k \in Nat, NEW n \in Nat, k + n = Len(s)
  PROVE  /\ SubSeq(s, k + 1, Len(s)) \in Seq(S) /\ Len(SubSeq(s, k + 1, Len(s))) = n
         /\ \A i \in 1 .. n : SubSeq(s, k + 1, Len(s))[i] = s[k + i]
<1>1. SubSeq(s, k + 1, Len(s)) \in Seq(S)
  OBVIOUS
<1>2. Len(SubSeq(s, k + 1, Len(s))) = n
  OBVIOUS
<1>3. \A i \in 1 .. n : SubSeq(s, k + 1, Len(s))[i] = s[k + i]
  OBVIOUS
<1> QED BY <1>1, <1>2, <1>3

(* The window keeps the end.                                                   *)
LEMMA GuardTrimmed ==
  ASSUME NEW seq, NEW done, Guard!Windowed(seq, done)
  PROVE  Guard!Windowed(Guard!Latest(seq), done) /\ Len(Guard!Latest(seq)) <= GuardWindow
<1>1. /\ seq \in Seq(GuardFile \cup {0}) /\ Len(seq) <= Len(done) /\ done \in Seq(GuardPath \cup {"none"})
      /\ Len(seq) \in Nat /\ Len(done) \in Nat /\ GuardWindow \in Nat
  BY GuardAssumption DEF Guard!Windowed
<1>2. CASE Len(seq) <= GuardWindow
  BY <1>1, <1>2 DEF Guard!Latest
<1>3. CASE ~(Len(seq) <= GuardWindow)
  <2> DEFINE k == Len(seq) - GuardWindow
  <2>1. Guard!Latest(seq) = SubSeq(seq, k + 1, Len(seq))
    BY <1>1, <1>3 DEF Guard!Latest
  <2>2. k \in Nat /\ k + GuardWindow = Len(seq)
    BY <1>1, <1>3
  <2> HIDE DEF k
  <2>3. /\ Guard!Latest(seq) \in Seq(GuardFile \cup {0}) /\ Len(Guard!Latest(seq)) = GuardWindow
        /\ \A i \in 1 .. GuardWindow : Guard!Latest(seq)[i] = seq[k + i]
    BY <1>1, <2>1, <2>2, GuardEnded
  <2>4. ASSUME NEW i \in 1 .. GuardWindow PROVE Guard!Latest(seq)[i] = Guard!Event(done[Len(done) - GuardWindow + i])
    <3>1. i \in Nat /\ k + i \in 1 .. Len(seq) /\ Len(done) - GuardWindow + i = Len(done) - Len(seq) + (k + i)
      <4> DEFINE l == Len(seq)
                 m == Len(done)
      <4>1. l \in Nat /\ m \in Nat /\ GuardWindow \in Nat /\ k \in Nat /\ k + GuardWindow = l
        BY <1>1, <2>2
      <4> HIDE DEF l, m
      <4>2. i \in Nat /\ k + i \in 1 .. l /\ m - GuardWindow + i = m - l + (k + i)
        BY <4>1
      <4> QED BY <4>2 DEF l, m
    <3>2. Guard!Latest(seq)[i] = seq[k + i]
      BY <2>3
    <3>3. seq[k + i] = Guard!Event(done[Len(done) - Len(seq) + (k + i)])
      BY <3>1 DEF Guard!Windowed
    <3> QED BY <3>1, <3>2, <3>3
  <2>5. Len(Guard!Latest(seq)) <= Len(done) /\ Len(Guard!Latest(seq)) <= GuardWindow
    BY <1>1, <1>3, <2>3
  <2> QED BY <1>1, <2>3, <2>4, <2>5 DEF Guard!Windowed
<1> QED BY <1>2, <1>3

(* A file that is due is there, and its reads are counted in the window.       *)
LEMMA GuardDueIs ==
  ASSUME NEW seq
  PROVE  \A a \in Guard!Due(seq) :
           /\ a.kind \in {"nudge", "terminate"} /\ a.file \in GuardFile
           /\ a.kind = "nudge" => Guard!Times(seq, a.file) >= GuardThreshold
           /\ a.kind = "terminate" => Guard!Times(seq, a.file) >= GuardTerminateAt
BY DEF Guard!Due

(* The first that is due is one that is due.                                   *)
LEMMA GuardFirstDueIs == ASSUME NEW seq PROVE Guard!FirstDue(seq) = Guard!NoAction \/ Guard!FirstDue(seq) \in Guard!Due(seq)
<1>1. CASE Guard!Due(seq) = {}
  BY <1>1 DEF Guard!FirstDue
<1>2. CASE Guard!Due(seq) # {}
  <2> DEFINE T == {a.file : a \in Guard!Due(seq)}
  <2>1. T \subseteq Nat /\ T # {}
    BY <1>2, GuardDueIs, GuardAssumption
  <2>2. PICK x \in T : \A y \in T : x <= y
    BY <2>1, HasLowest
  <2>3. \E a \in Guard!Due(seq) : \A b \in Guard!Due(seq) : a.file <= b.file
    BY <2>2
  <2> QED BY <1>2, <2>3 DEF Guard!FirstDue
<1> QED BY <1>1, <1>2

(* The run begins with nothing done, and nothing is due.                       *)
LEMMA GuardBegun == Guard!Windowed(<<>>, <<>>) /\ Len(<<>>) <= GuardWindow
BY GuardAssumption DEF Guard!Windowed
LEMMA GuardInitIInv == Guard!Init => Guard!IInv
BY GuardBegun DEF Guard!Init, Guard!IInv, Guard!Acted, Guard!ActsAreEarned, Guard!NoAction

(* The window follows what the agent does, and what is due was done.           *)
LEMMA GuardNextIInv == Guard!IInv /\ [Guard!Next]_Guard!vars => Guard!IInv'
<1> SUFFICES ASSUME Guard!IInv, [Guard!Next]_Guard!vars PROVE Guard!IInv'
  OBVIOUS
<1>1. CASE Guard!Observe
  <2>1. PICK n \in 1 .. GuardMaxBatch : \E calls \in [1 .. n -> GuardPath \cup {"none"}] :
          /\ Guard_recent' = Guard!Latest(Guard_recent \o [i \in 1 .. n |-> Guard!Event(calls[i])])
          /\ Guard_action' = Guard!FirstDue(Guard_recent')
          /\ Guard_nudged' = IF Guard_action'.kind = "nudge" THEN Guard_nudged \cup {Guard_action'.file} ELSE Guard_nudged
          /\ Guard_reads' = Guard_reads \o calls
    BY <1>1 DEF Guard!Observe
  <2>0. PICK calls \in [1 .. n -> GuardPath \cup {"none"}] :
          /\ Guard_recent' = Guard!Latest(Guard_recent \o [i \in 1 .. n |-> Guard!Event(calls[i])])
          /\ Guard_action' = Guard!FirstDue(Guard_recent')
          /\ Guard_nudged' = IF Guard_action'.kind = "nudge" THEN Guard_nudged \cup {Guard_action'.file} ELSE Guard_nudged
          /\ Guard_reads' = Guard_reads \o calls
    BY <2>1
  <2>2. Guard!Windowed(Guard_recent', Guard_reads') /\ Len(Guard_recent') <= GuardWindow
    <3> DEFINE events == [i \in 1 .. n |-> Guard!Event(calls[i])]
    <3>1. n \in Nat
      BY GuardAssumption
    <3>2. calls \in Seq(GuardPath \cup {"none"}) /\ Len(calls) = n
      BY <3>1
    <3>3. \A i \in 1 .. n : events[i] = Guard!Event(calls[i]) /\ events[i] \in GuardFile \cup {0}
      BY GuardEventIs
    <3>4. events \in Seq(GuardFile \cup {0}) /\ Len(events) = n
      BY <3>1, <3>3
    <3> HIDE DEF events
    <3>5. Guard!Windowed(Guard_recent, Guard_reads)
      BY DEF Guard!IInv
    <3>6. Guard!Windowed(Guard_recent \o events, Guard_reads \o calls)
      BY <3>2, <3>3, <3>4, <3>5, GuardExtended
    <3>7. Guard_recent' = Guard!Latest(Guard_recent \o events) /\ Guard_reads' = Guard_reads \o calls
      BY <2>0 DEF events
    <3> QED BY <3>6, <3>7, GuardTrimmed
  <2>3. \/ Guard_action' = Guard!NoAction
        \/ /\ Guard_action'.kind \in {"nudge", "terminate"} /\ Guard_action'.file \in GuardFile
           /\ Guard_action'.kind = "nudge" => Guard!Times(Guard_recent', Guard_action'.file) >= GuardThreshold
           /\ Guard_action'.kind = "terminate" => Guard!Times(Guard_recent', Guard_action'.file) >= GuardTerminateAt
    BY <2>0, GuardFirstDueIs, GuardDueIs
  <2>4. Guard!Acted' /\ Guard_nudged' \subseteq GuardFile
    <3>1. Guard!Acted'
      BY <2>3 DEF Guard!Acted, Guard!NoAction
    <3>2. Guard_nudged \subseteq GuardFile
      BY DEF Guard!IInv
    <3> QED BY <2>0, <3>1, <3>2 DEF Guard!Acted
  <2>5. Guard!ActsAreEarned'
    <3>1. CASE Guard_action' = Guard!NoAction
      BY <3>1 DEF Guard!NoAction, Guard!ActsAreEarned
    <3>2. CASE Guard_action' # Guard!NoAction
      <4> DEFINE f == Guard_action'.file
      <4>1. f \in GuardFile
        BY <2>3, <3>2
      <4> HIDE DEF f
      <4>2. Guard!Times(Guard_recent', f) \in Nat /\ Guard!ReadsIn(Guard_reads', f) \in Nat /\ Guard!Times(Guard_recent', f) <= Guard!ReadsIn(Guard_reads', f)
        BY <2>2, <4>1, GuardCounted
      <4> QED BY <2>3, <3>2, <4>2, GuardAssumption DEF Guard!ActsAreEarned, f
    <3> QED BY <3>1, <3>2
  <2> QED BY <2>2, <2>4, <2>5 DEF Guard!IInv, Guard!Windowed, Guard!Event
<1>2. CASE Guard!ObserveChange \/ Guard!NewRun
  <2>1. Guard_recent' = <<>> /\ Guard_nudged' = {} /\ Guard_action' = Guard!NoAction /\ Guard_reads' = <<>>
    BY <1>2 DEF Guard!ObserveChange, Guard!NewRun, Guard!AfterChange
  <2> QED BY <2>1, GuardBegun, GuardAssumption DEF Guard!IInv, Guard!Acted, Guard!ActsAreEarned, Guard!NoAction
<1>3. CASE UNCHANGED Guard!vars
  BY <1>3 DEF Guard!vars, Guard!IInv, Guard!Windowed, Guard!Event, Guard!Acted, Guard!ActsAreEarned,
       Guard!ReadsIn, Guard!Spelled
<1> QED BY <1>1, <1>2, <1>3 DEF Guard!Next

(* The files of the window are numbers of files.                               *)
LEMMA GuardHolds == Guard!IInv => Guard!TypeOK /\ Guard!ActsAreEarned
BY DEF Guard!IInv, Guard!TypeOK, Guard!Windowed

(* loop_guards.py: neither a warning nor an end of the run before as many small reads of the *)
(* file, since the last change, as each takes, for any files, spellings, batches, limits and *)
(* windows.                                                                                  *)
THEOREM ActsAreAlwaysEarned == Spec => []ActsAreEarned
<1> DEFINE Inv == part = "guard" => Guard!IInv
<1>1. Init => Inv
  BY GuardInitIInv DEF Init
<1>2. Inv /\ [Next]_vars => Inv'
  <2>1. ASSUME part = "guard", Guard!IInv, [Next]_vars PROVE Guard!IInv'
    BY <2>1, GuardNextIInv DEF Next, vars, Guard!vars
  <2>2. [Next]_vars => part' = part
    BY DEF Next, vars
  <2> QED BY <2>1, <2>2
<1>3. Inv => ActsAreEarned
  BY GuardHolds DEF ActsAreEarned
<1> QED
  BY <1>1, <1>2, <1>3, PTL DEF Spec

HIDE GuardCardinality
HIDE DEF Guard_recent, Guard_nudged, Guard_action, Guard_reads, Guard_batches

-----------------------------------------------------------------------------
(* SessionRows. *)
Rows_now == x1
Rows_row == x2
Rows_hint == x3
Rows_log == x4
Rows_trace == x5
Rows_rollups == x6
Rows_alertsFile == x7
Rows_pc == x8
Rows_offset == x9
Rows_loaded == x10
Rows_since == x11
Rows_report == x12
Rows_failed == x13
Rows_everywhere == x14
Rows_moved == x15
Rows_events == x16
USE DEF Rows_now, Rows_row, Rows_hint, Rows_log, Rows_trace, Rows_rollups, Rows_alertsFile, Rows_pc,
  Rows_offset, Rows_loaded, Rows_since, Rows_report, Rows_failed, Rows_everywhere, Rows_moved,
  Rows_events

(* Sets have one cardinality, inside and outside of SessionRows. *)
LEMMA RowsCardinality == \A S : Rows!Cardinality(S) = Cardinality(S)
BY DEF Rows!Cardinality, Cardinality
USE RowsCardinality

(* Only finitely many rows are listed, and a place is a number above zero.      *)
LEMMA RowsListedFinite ==
  /\ IsFiniteSet(Rows!Listed) /\ Cardinality(Rows!Listed) \in Nat
  /\ \A s \in Rows!Listed : /\ {t \in Rows!Listed : Rows!Newer(t, s)} \subseteq Rows!Listed
                       /\ IsFiniteSet({t \in Rows!Listed : Rows!Newer(t, s)})
                       /\ Cardinality({t \in Rows!Listed : Rows!Newer(t, s)}) \in Nat
                       /\ Rows!Place(s) = 1 + Cardinality({t \in Rows!Listed : Rows!Newer(t, s)})
<1>1. Rows!Listed \subseteq RowsSession
  BY DEF Rows!Listed
<1>2. IsFiniteSet(Rows!Listed)
  BY <1>1, RowsAssumption, FS_Subset
<1>3. Cardinality(Rows!Listed) \in Nat
  BY <1>2, FS_CardinalityType
<1>4. ASSUME NEW s \in Rows!Listed
      PROVE  /\ {t \in Rows!Listed : Rows!Newer(t, s)} \subseteq Rows!Listed
             /\ IsFiniteSet({t \in Rows!Listed : Rows!Newer(t, s)})
             /\ Cardinality({t \in Rows!Listed : Rows!Newer(t, s)}) \in Nat
             /\ Rows!Place(s) = 1 + Cardinality({t \in Rows!Listed : Rows!Newer(t, s)})
  <2> DEFINE T == {t \in Rows!Listed : Rows!Newer(t, s)}
  <2>1. T \subseteq Rows!Listed
    OBVIOUS
  <2>2. Rows!Place(s) = 1 + Cardinality(T)
    BY DEF Rows!Place
  <2> HIDE DEF T
  <2>3. IsFiniteSet(T)
    BY <1>2, <2>1, FS_Subset
  <2>4. Cardinality(T) \in Nat
    BY <2>3, FS_CardinalityType
  <2> QED BY <2>1, <2>2, <2>3, <2>4 DEF T
<1> QED BY <1>2, <1>3, <1>4

(* A set with fewer members than one that it is part of.                        *)
LEMMA RowsFewer ==
  ASSUME NEW S, IsFiniteSet(S), NEW T \in SUBSET S, T # S
  PROVE  Cardinality(T) \in Nat /\ Cardinality(S) \in Nat /\ Cardinality(T) < Cardinality(S)
<1>1. IsFiniteSet(T) /\ Cardinality(T) <= Cardinality(S) /\ (Cardinality(S) = Cardinality(T) => S = T)
  BY FS_Subset
<1>2. Cardinality(T) \in Nat /\ Cardinality(S) \in Nat
  BY <1>1, FS_CardinalityType
<1> QED BY <1>1, <1>2

(* The rows have one order.                                                     *)
LEMMA RowsOrdered ==
  ASSUME Rows_row \in [RowsSession -> Rows!SessionRecord]
  PROVE  /\ \A a \in Rows!Listed : ~Rows!Newer(a, a)
         /\ \A a, b \in Rows!Listed : a # b => Rows!Newer(a, b) \/ Rows!Newer(b, a)
         /\ \A a, b, c \in Rows!Listed : Rows!Newer(a, b) /\ Rows!Newer(b, c) => Rows!Newer(a, c)
<1>1. \A a \in Rows!Listed : a \in Nat /\ Rows_row[a].created \in Nat
  <2>1. 0 .. RowsMaxTime \subseteq Nat
    BY RowsAssumption
  <2> QED BY <2>1, RowsAssumption DEF Rows!Listed, Rows!SessionRecord
<1> QED BY <1>1 DEF Rows!Newer

(* No two rows have one place, and the places are those of the table.           *)
LEMMA RowsPlaces ==
  ASSUME Rows_row \in [RowsSession -> Rows!SessionRecord]
  PROVE  /\ \A s \in Rows!Listed : Rows!Place(s) \in 1 .. Cardinality(Rows!Listed)
         /\ \A s, t \in Rows!Listed : Rows!Place(s) = Rows!Place(t) => s = t
<1>1. ASSUME NEW s \in Rows!Listed PROVE Rows!Place(s) \in 1 .. Cardinality(Rows!Listed)
  <2> DEFINE T == {t \in Rows!Listed : Rows!Newer(t, s)}
  <2>1. T \subseteq Rows!Listed /\ s \notin T
    BY RowsOrdered
  <2>2. Rows!Place(s) = 1 + Cardinality(T)
    BY RowsListedFinite
  <2> HIDE DEF T
  <2>3. Cardinality(T) \in Nat /\ Cardinality(Rows!Listed) \in Nat /\ Cardinality(T) < Cardinality(Rows!Listed)
    BY <2>1, RowsListedFinite, RowsFewer
  <2> QED BY <2>2, <2>3
<1>2. ASSUME NEW s \in Rows!Listed, NEW t \in Rows!Listed, Rows!Newer(s, t) PROVE Rows!Place(s) # Rows!Place(t)
  <2> DEFINE S == {u \in Rows!Listed : Rows!Newer(u, s)}
             T == {u \in Rows!Listed : Rows!Newer(u, t)}
  <2>1. S \subseteq T /\ s \in T /\ s \notin S
    BY <1>2, RowsOrdered
  <2>2. Rows!Place(s) = 1 + Cardinality(S) /\ Rows!Place(t) = 1 + Cardinality(T) /\ IsFiniteSet(T)
    BY RowsListedFinite
  <2> HIDE DEF S, T
  <2>3. Cardinality(S) \in Nat /\ Cardinality(T) \in Nat /\ Cardinality(S) < Cardinality(T)
    BY <2>1, <2>2, RowsFewer
  <2> QED BY <2>2, <2>3
<1>3. ASSUME NEW s \in Rows!Listed, NEW t \in Rows!Listed, Rows!Place(s) = Rows!Place(t) PROVE s = t
  <2> SUFFICES ASSUME s # t PROVE FALSE
    OBVIOUS
  <2>1. Rows!Newer(s, t) \/ Rows!Newer(t, s)
    BY RowsOrdered
  <2>2. CASE Rows!Newer(s, t)
    BY <1>2, <1>3, <2>2
  <2>3. CASE Rows!Newer(t, s)
    BY <1>2, <1>3, <2>3
  <2> QED BY <2>1, <2>2, <2>3
<1> QED BY <1>1, <1>3

(* Each row is in the table, at its place.                                      *)
LEMMA RowsTableIs ==
  ASSUME Rows_row \in [RowsSession -> Rows!SessionRecord]
  PROVE  /\ Rows!Table \in Seq(RowsSession) /\ Len(Rows!Table) = Cardinality(Rows!Listed) /\ Len(Rows!Table) \in Nat
         /\ \A s \in Rows!Listed : Rows!Table[Rows!Place(s)] = s
<1> DEFINE N == Cardinality(Rows!Listed)
           f == [s \in Rows!Listed |-> Rows!Place(s)]
<1>1. N \in Nat /\ IsFiniteSet(Rows!Listed) /\ IsFiniteSet(1 .. N) /\ Cardinality(1 .. N) = N
  <2>1. N \in Nat /\ IsFiniteSet(Rows!Listed)
    BY RowsListedFinite
  <2> HIDE DEF N
  <2>2. IsFiniteSet(1 .. N) /\ Cardinality(1 .. N) = IF 1 > N THEN 0 ELSE N - 1 + 1
    BY <2>1, FS_Interval
  <2> QED BY <2>1, <2>2
<1>2. f \in Injection(Rows!Listed, 1 .. N)
  BY RowsPlaces DEF Injection, IsInjective
<1>3. f \in Surjection(Rows!Listed, 1 .. N)
  <2> HIDE DEF f
  <2>1. Cardinality(Rows!Listed) = Cardinality(1 .. N)
    BY <1>1
  <2> QED BY <1>1, <1>2, <2>1, FS_Injection
<1>4. \A i \in 1 .. N : \E s \in Rows!Listed : Rows!Place(s) = i
  BY <1>3 DEF Surjection
<1>5. Rows!Listed \subseteq RowsSession
  BY DEF Rows!Listed
<1>6. \A i \in 1 .. N : Rows!Table[i] \in Rows!Listed /\ Rows!Place(Rows!Table[i]) = i
  BY <1>4 DEF Rows!Table
<1>7. Rows!Table \in [1 .. N -> RowsSession] /\ DOMAIN Rows!Table = 1 .. N
  BY <1>5, <1>6 DEF Rows!Table
<1>8. Rows!Table \in Seq(RowsSession) /\ Len(Rows!Table) = N
  <2> HIDE DEF N
  <2> QED BY <1>1, <1>7
<1>9. ASSUME NEW s \in Rows!Listed PROVE Rows!Table[Rows!Place(s)] = s
  BY <1>6, RowsPlaces
<1> QED BY <1>1, <1>8, <1>9

(* As rows keep their dates, others can only push them back.                    *)
LEMMA RowsPushedBack ==
  ASSUME Rows_row \in [RowsSession -> Rows!SessionRecord], Rows_row' \in [RowsSession -> Rows!SessionRecord],
         \A s \in Rows!Listed : s \in Rows!Listed' /\ Rows_row'[s].created = Rows_row[s].created,
         NEW s \in Rows!Listed
  PROVE  Rows!Place(s) \in Nat /\ Rows!Place(s)' \in Nat /\ Rows!Place(s) <= Rows!Place(s)'
<1> DEFINE S == {t \in Rows!Listed : Rows!Newer(t, s)}
           T == {t \in Rows!Listed' : Rows!Newer(t, s)'}
<1>1. S \subseteq T
  BY DEF Rows!Newer
<1>2. Rows!Place(s) = 1 + Cardinality(S)
  BY RowsListedFinite
<1>3. Rows!Place(s)' = 1 + Cardinality(T)
  BY DEF Rows!Place
<1>4. IsFiniteSet(T)
  <2>1. T \subseteq RowsSession
    BY DEF Rows!Listed
  <2> HIDE DEF T
  <2> QED BY <2>1, RowsAssumption, FS_Subset
<1> HIDE DEF S, T
<1>5. IsFiniteSet(S) /\ Cardinality(S) <= Cardinality(T)
  BY <1>1, <1>4, FS_Subset
<1>6. Cardinality(S) \in Nat /\ Cardinality(T) \in Nat
  BY <1>4, <1>5, FS_CardinalityType
<1> QED BY <1>2, <1>3, <1>5, <1>6

(* A row as it is first written.                                               *)
LEMMA RowsNewRowIs ==
  ASSUME NEW t \in 0 .. RowsMaxTime, NEW status \in {"none", "running", "paused"}
  PROVE  /\ Rows!NewRow(status, t) \in Rows!SessionRecord /\ Rows!NewRow(status, t).status = status
         /\ Rows!NewRow(status, t).errors = 0 /\ Rows!NewRow(status, t).calls = 0
<1>1. -1 \in -1 .. RowsMaxTime /\ FALSE \in BOOLEAN /\ TRUE \in BOOLEAN
  BY RowsAssumption
<1> QED BY <1>1 DEF Rows!NewRow, Rows!SessionRecord

(* Nobody has begun.                                                           *)
LEMMA RowsInitIInv == Rows!Init => Rows!IInv
<1> SUFFICES ASSUME Rows!Init PROVE Rows!IInv
  OBVIOUS
<1>1. /\ Rows_now = 0 /\ Rows_row = [s \in RowsSession |-> Rows!NoRow] /\ Rows_log = [s \in RowsSession |-> Rows!NoCalls]
      /\ Rows_trace = [s \in RowsSession |-> Rows!NoTrace] /\ Rows_rollups = {} /\ Rows_alertsFile = {}
      /\ Rows_pc = "idle" /\ Rows_offset = 0 /\ Rows_loaded = <<>> /\ Rows_since = {} /\ Rows_report = {}
      /\ Rows_everywhere = FALSE /\ Rows_moved = FALSE
  BY DEF Rows!Init
<1>2. Rows!NoRow \in Rows!SessionRecord
  BY RowsAssumption, RowsNewRowIs DEF Rows!NoRow
<1>3. Rows!NoTrace \in Rows!Stats
  BY RowsAssumption DEF Rows!NoTrace, Rows!Stats
<1>4. Rows!NoCalls \in [calls : Nat, errors : Nat] /\ Rows!NoCalls.errors <= Rows!NoCalls.calls /\ Rows!NoRow.errors <= Rows!NoRow.calls
  BY DEF Rows!NoCalls, Rows!NoRow, Rows!NewRow
<1>5. Rows!Noted
  BY <1>1, <1>2, <1>3, <1>4 DEF Rows!Noted
<1>6. Rows!TypeOK
  BY <1>1, <1>2, <1>3, <1>4, RowsAssumption DEF Rows!TypeOK
<1>7. Rows!Paging
  <2>1. Rows_moved \in BOOLEAN /\ Rows_everywhere \in BOOLEAN
    BY <1>1, Zenon
  <2>2. Rows_offset \in Nat /\ Rows_loaded \in Seq([session : RowsSession, row : Rows!SessionRecord]) /\ Rows_since = {} /\ Rows_pc # "page"
    BY <1>1
  <2> QED BY <2>1, <2>2 DEF Rows!Paging
<1> QED BY <1>5, <1>6, <1>7 DEF Rows!IInv

(* What sessions do leaves the run as it is, and its rows in their places or behind them. *)
LEMMA RowsSessionKeeps ==
  ASSUME Rows!IInv, UNCHANGED <<Rows_alertsFile, Rows!run>>, Rows_now' \in 0 .. RowsMaxTime, Rows!Noted',
         \A s \in RowsSession : Rows_row'[s].errors <= Rows_row'[s].calls,
         Rows_moved' \in BOOLEAN, Rows_moved => Rows_moved',
         ~Rows_moved' /\ Rows_pc = "page" => \A s \in Rows!Listed : s \in Rows!Listed' /\ Rows_row'[s].created = Rows_row[s].created
  PROVE  Rows!IInv'
<1>1. UNCHANGED <<Rows_pc, Rows_offset, Rows_loaded, Rows_since, Rows_report, Rows_failed, Rows_everywhere>> /\ Rows_alertsFile' = Rows_alertsFile
  BY DEF Rows!run
<1>2. Rows!TypeOK'
  BY <1>1 DEF Rows!IInv, Rows!TypeOK, Rows!Noted
<1>3. Rows!Paging'
  <2>1. Rows_row \in [RowsSession -> Rows!SessionRecord] /\ Rows_row' \in [RowsSession -> Rows!SessionRecord]
    BY DEF Rows!IInv, Rows!Noted
  <2>2. ASSUME ~Rows_moved', Rows_pc = "page" PROVE Rows_since \subseteq Rows!Listed /\ Rows_since' \subseteq Rows!Listed'
    BY <1>1, <2>2 DEF Rows!IInv, Rows!Paging
  <2>3. ASSUME ~Rows_moved', NEW s \in Rows_since PROVE Rows!Loaded(s)' \/ (Rows_pc' = "page" /\ Rows_offset' < Rows!Place(s)')
    <3>1. CASE Rows!Loaded(s)
      BY <1>1, <3>1 DEF Rows!Loaded
    <3>2. CASE Rows_pc = "page" /\ Rows_offset < Rows!Place(s)
      <4>1. Rows!Place(s) \in Nat /\ Rows!Place(s)' \in Nat /\ Rows!Place(s) <= Rows!Place(s)'
        BY <2>1, <2>2, <2>3, <3>2, RowsPushedBack
      <4> QED BY <1>1, <3>2, <4>1 DEF Rows!IInv, Rows!Paging
    <3> QED BY <2>3, <3>1, <3>2 DEF Rows!IInv, Rows!Paging
  <2> QED BY <1>1, <2>2, <2>3 DEF Rows!IInv, Rows!Paging
<1> QED BY <1>2, <1>3 DEF Rows!IInv

(* A change of one row that leaves it listed, with its date, or is noted.       *)
LEMMA RowsRowKeeps ==
  ASSUME Rows!IInv, UNCHANGED <<Rows_alertsFile, Rows!run>>, Rows_now' \in 0 .. RowsMaxTime, NEW s \in RowsSession, NEW r \in Rows!SessionRecord,
         Rows_row' = [Rows_row EXCEPT ![s] = r], r.errors <= r.calls, r.status # "none",
         Rows_row[s].status # "none" => r.created = Rows_row[s].created,
         Rows_moved' \in BOOLEAN, Rows_moved => Rows_moved',
         ~Rows_moved' /\ Rows_pc = "page" => (s \in Rows!Listed => Rows_everywhere \/ r.here),
         Rows_trace' \in [RowsSession -> Rows!Stats], Rows_log' \in [RowsSession -> [calls : Nat, errors : Nat]],
         \A t \in RowsSession : Rows_log'[t].errors <= Rows_log'[t].calls
  PROVE  Rows!IInv'
<1>1. Rows_row \in [RowsSession -> Rows!SessionRecord] /\ \A t \in RowsSession : Rows_row[t].errors <= Rows_row[t].calls
  BY DEF Rows!IInv, Rows!Noted, Rows!TypeOK
<1>2. Rows_row' \in [RowsSession -> Rows!SessionRecord] /\ Rows_row'[s] = r /\ \A t \in RowsSession : t # s => Rows_row'[t] = Rows_row[t]
  BY <1>1
<1>3. \A t \in RowsSession : Rows_row'[t].errors <= Rows_row'[t].calls
  BY <1>1, <1>2
<1>4. ~Rows_moved' /\ Rows_pc = "page" => \A t \in Rows!Listed : t \in Rows!Listed' /\ Rows_row'[t].created = Rows_row[t].created
  BY <1>2 DEF Rows!Listed, Rows!run
<1>5. Rows!Noted'
  BY <1>2 DEF Rows!Noted
<1> QED BY <1>3, <1>4, <1>5, RowsSessionKeeps

(* A change of one row in its workspace.                                        *)
LEMMA RowsRowStays ==
  ASSUME Rows!IInv, UNCHANGED <<Rows_alertsFile, Rows!run>>, Rows_now' \in 0 .. RowsMaxTime, NEW s \in RowsSession, NEW r \in Rows!SessionRecord,
         Rows_row' = [Rows_row EXCEPT ![s] = r], r.errors <= r.calls, r.status # "none",
         Rows_row[s].status # "none" => r.created = Rows_row[s].created /\ r.here = Rows_row[s].here,
         Rows_moved' = Rows_moved,
         Rows_trace' \in [RowsSession -> Rows!Stats], Rows_log' \in [RowsSession -> [calls : Nat, errors : Nat]],
         \A t \in RowsSession : Rows_log'[t].errors <= Rows_log'[t].calls
  PROVE  Rows!IInv'
<1>1. s \in Rows!Listed => Rows_everywhere \/ r.here
  BY DEF Rows!Listed
<1>2. Rows_moved \in BOOLEAN
  BY DEF Rows!IInv, Rows!Paging
<1> QED BY <1>1, <1>2, RowsRowKeeps

(* What is known of a row.                                           *)
LEMMA RowsTyped ==
  ASSUME Rows!IInv, NEW s \in RowsSession
  PROVE  /\ Rows_row[s] \in Rows!SessionRecord /\ Rows_row[s].errors <= Rows_row[s].calls /\ Rows_trace[s] \in Rows!Stats
         /\ Rows_row[s].status \in {"none", "running", "paused", "completed", "stopped", "error"}
         /\ Rows_row[s].created \in 0 .. RowsMaxTime /\ Rows_row[s].ended \in -1 .. RowsMaxTime /\ Rows_row[s].calls \in Nat /\ Rows_row[s].errors \in Nat
         /\ Rows_row[s].maxed \in BOOLEAN /\ Rows_row[s].here \in BOOLEAN
         /\ Rows_trace \in [RowsSession -> Rows!Stats] /\ Rows_log \in [RowsSession -> [calls : Nat, errors : Nat]]
         /\ Rows_log[s].calls \in Nat /\ Rows_log[s].errors \in Nat /\ Rows_log[s].errors <= Rows_log[s].calls
         /\ \A t \in RowsSession : Rows_log[t].errors <= Rows_log[t].calls
         /\ Rows_now \in 0 .. RowsMaxTime /\ Rows_now \in -1 .. RowsMaxTime /\ Rows_now \in Nat
<1>1. Rows_row[s] \in Rows!SessionRecord /\ Rows_row[s].errors <= Rows_row[s].calls /\ Rows_trace[s] \in Rows!Stats /\ Rows_log[s] \in [calls : Nat, errors : Nat]
  BY DEF Rows!IInv, Rows!TypeOK, Rows!Noted
<1>2. Rows_now \in 0 .. RowsMaxTime /\ Rows_now \in Nat /\ Rows_now \in -1 .. RowsMaxTime
  BY RowsAssumption DEF Rows!IInv, Rows!TypeOK
<1> QED BY <1>1, <1>2 DEF Rows!IInv, Rows!Noted, Rows!SessionRecord

(* Time passes.                                                                 *)
LEMMA RowsTickKeeps == ASSUME Rows!IInv, Rows!Tick PROVE Rows!IInv'
<1>1. /\ Rows_now' = Rows_now + 1 /\ Rows_now < RowsMaxTime /\ UNCHANGED <<Rows_row, Rows_log, Rows_trace, Rows_moved>> /\ UNCHANGED <<Rows_alertsFile, Rows!run>>
  BY DEF Rows!Tick, Rows!Others, Rows!sessions
<1>2. Rows_now' \in 0 .. RowsMaxTime
  BY <1>1, RowsAssumption DEF Rows!IInv, Rows!TypeOK
<1>3. Rows!Noted' /\ (\A s \in Rows!Listed : s \in Rows!Listed' /\ Rows_row'[s].created = Rows_row[s].created) /\ Rows_moved \in BOOLEAN
  BY <1>1 DEF Rows!IInv, Rows!Noted, Rows!Listed, Rows!run, Rows!Paging
<1>4. \A s \in RowsSession : Rows_row'[s].errors <= Rows_row'[s].calls
  BY <1>1 DEF Rows!IInv, Rows!TypeOK
<1> QED BY <1>1, <1>2, <1>3, <1>4, RowsSessionKeeps

(* What the steps of one session leave alone.                                   *)
LEMMA RowsOfRowIs ==
  ASSUME Rows!IInv, NEW s \in RowsSession, NEW status, Rows!OfRow(s, status)
  PROVE  Rows_row[s].status = status /\ Rows_now' = Rows_now /\ Rows_moved' = Rows_moved /\ Rows_now' \in 0 .. RowsMaxTime /\ UNCHANGED <<Rows_alertsFile, Rows!run>>
BY RowsTyped DEF Rows!OfRow, Rows!Others

(* A session begins.                                                            *)
LEMMA RowsBeginKeeps == ASSUME Rows!IInv, NEW s \in RowsSession, Rows!Begin(s) PROVE Rows!IInv'
<1> DEFINE r == Rows!NewRow("running", Rows_now)
<1>1. Rows!OfRow(s, "none") /\ Rows_row' = [Rows_row EXCEPT ![s] = r] /\ UNCHANGED <<Rows_log, Rows_trace>>
  BY DEF Rows!Begin
<1>2. r \in Rows!SessionRecord /\ r.errors <= r.calls /\ r.status # "none"
  BY RowsTyped, RowsNewRowIs
<1>3. Rows_row[s].status = "none" /\ "none" # "running"
  BY <1>1, RowsOfRowIs
<1> HIDE DEF r
<1> QED BY <1>1, <1>2, <1>3, RowsTyped, RowsOfRowIs, RowsRowStays

(* A paused session comes from elsewhere.                                       *)
LEMMA RowsRelocateKeeps == ASSUME Rows!IInv, NEW s \in RowsSession, Rows!Relocate(s) PROVE Rows!IInv'
<1>1. PICK t \in 0 .. Rows_now : Rows_row' = [Rows_row EXCEPT ![s] = Rows!NewRow("paused", t)]
  BY DEF Rows!Relocate
<1> DEFINE r == Rows!NewRow("paused", t)
<1>2. Rows!OfRow(s, "none") /\ Rows_row' = [Rows_row EXCEPT ![s] = r] /\ UNCHANGED <<Rows_log, Rows_trace>>
  BY <1>1 DEF Rows!Relocate
<1>3. r \in Rows!SessionRecord /\ r.errors <= r.calls /\ r.status # "none"
  <2>1. t \in 0 .. RowsMaxTime
    BY <1>1, RowsTyped, RowsAssumption
  <2> QED BY <2>1, RowsNewRowIs
<1>4. Rows_row[s].status = "none"
  BY <1>2, RowsOfRowIs
<1> HIDE DEF r
<1> QED BY <1>2, <1>3, <1>4, RowsTyped, RowsOfRowIs, RowsRowStays

(* A session that was paused goes to another workspace, or comes back.          *)
LEMMA RowsRelocateAgainKeeps == ASSUME Rows!IInv, NEW s \in RowsSession, Rows!RelocateAgain(s) PROVE Rows!IInv'
<1>1. PICK here \in BOOLEAN :
        /\ Rows_row' = [Rows_row EXCEPT ![s].status = "paused", ![s].here = here]
        /\ Rows_moved' = (Rows_moved \/ (Rows_pc = "page" /\ s \in Rows!Listed /\ ~Rows_everywhere /\ ~here))
  BY DEF Rows!RelocateAgain
<1> DEFINE r == [Rows_row[s] EXCEPT !.status = "paused", !.here = here]
           w == [Rows_trace[s] EXCEPT !.end = "open"]
<1>2. /\ Rows_log' = [Rows_log EXCEPT ![s] = Rows!NoCalls] /\ Rows_trace' = [Rows_trace EXCEPT ![s] = w]
      /\ Rows_now' = Rows_now /\ UNCHANGED <<Rows_alertsFile, Rows!run>>
  BY DEF Rows!RelocateAgain, Rows!Others
<1>3. Rows_row' = [Rows_row EXCEPT ![s] = r]
  BY <1>1, RowsTyped DEF Rows!SessionRecord, Rows!IInv, Rows!Noted
<1>4. r \in Rows!SessionRecord /\ r.errors <= r.calls /\ r.status # "none" /\ r.created = Rows_row[s].created /\ r.here = here
  BY <1>1, RowsTyped DEF Rows!SessionRecord
<1>5. w \in Rows!Stats
  BY RowsTyped DEF Rows!Stats
<1>6. Rows_moved \in BOOLEAN /\ Rows_everywhere \in BOOLEAN
  BY DEF Rows!IInv, Rows!Paging
<1> HIDE DEF r, w
<1>7. Rows_trace' \in [RowsSession -> Rows!Stats]
  BY <1>2, <1>5, RowsTyped
<1>8. Rows_log' \in [RowsSession -> [calls : Nat, errors : Nat]] /\ \A t \in RowsSession : Rows_log'[t].errors <= Rows_log'[t].calls
  BY <1>2, RowsTyped DEF Rows!NoCalls
<1>9. Rows_moved' \in BOOLEAN /\ (Rows_moved => Rows_moved') /\ (~Rows_moved' /\ Rows_pc = "page" => (s \in Rows!Listed => Rows_everywhere \/ r.here))
  BY <1>1, <1>4, <1>6
<1> QED BY <1>2, <1>3, <1>4, <1>7, <1>8, <1>9, RowsTyped, RowsRowKeeps

(* Nothing of the rows changes.                                                 *)
LEMMA RowsRowsStay ==
  ASSUME Rows!IInv, NEW s \in RowsSession, NEW status, Rows!OfRow(s, status), Rows_row' = Rows_row,
         Rows_trace' \in [RowsSession -> Rows!Stats], Rows_log' \in [RowsSession -> [calls : Nat, errors : Nat]],
         \A t \in RowsSession : Rows_log'[t].errors <= Rows_log'[t].calls
  PROVE  Rows!IInv'
<1>1. Rows!Noted' /\ (\A t \in Rows!Listed : t \in Rows!Listed' /\ Rows_row'[t].created = Rows_row[t].created) /\ Rows_moved \in BOOLEAN
  BY RowsOfRowIs DEF Rows!IInv, Rows!Noted, Rows!Listed, Rows!run, Rows!Paging
<1>2. \A t \in RowsSession : Rows_row'[t].errors <= Rows_row'[t].calls
  BY DEF Rows!IInv, Rows!TypeOK
<1> QED BY <1>1, <1>2, RowsOfRowIs, RowsSessionKeeps

(* A session is told of the one before.                                         *)
LEMMA RowsBootstrapKeeps == ASSUME Rows!IInv, NEW s \in RowsSession, Rows!Bootstrap(s) PROVE Rows!IInv'
BY RowsTyped, RowsRowsStay DEF Rows!Bootstrap

(* A call is noted.                                                             *)
LEMMA RowsCallKeeps == ASSUME Rows!IInv, NEW s \in RowsSession, Rows!Call(s) PROVE Rows!IInv'
<1>1. PICK e \in {0, 1}, native \in BOOLEAN :
        /\ Rows_trace' = [Rows_trace EXCEPT ![s].calls = @ + 1, ![s].errors = @ + e]
        /\ Rows_log' = IF native \/ Rows!Resumed(s) THEN Rows_log ELSE [Rows_log EXCEPT ![s] = [calls |-> @.calls + 1, errors |-> @.errors + e]]
  BY DEF Rows!Call
<1>2. Rows!OfRow(s, "running") /\ Rows_row' = Rows_row /\ Rows_trace[s].calls < RowsMaxCalls
  BY DEF Rows!Call
<1>3. Rows_trace' \in [RowsSession -> Rows!Stats]
  <2> DEFINE w == [Rows_trace[s] EXCEPT !.calls = Rows_trace[s].calls + 1, !.errors = Rows_trace[s].errors + e]
  <2>1. Rows_trace' = [Rows_trace EXCEPT ![s] = w]
    BY <1>1, RowsTyped DEF Rows!Stats
  <2>2. w \in Rows!Stats
    <3>1. Rows_trace[s].calls \in 0 .. RowsMaxCalls /\ Rows_trace[s].errors \in Nat
      BY RowsTyped DEF Rows!Stats
    <3>2. Rows_trace[s].calls + 1 \in 0 .. RowsMaxCalls /\ Rows_trace[s].errors + e \in Nat
      BY <1>1, <1>2, <3>1, RowsAssumption
    <3> QED BY <3>2, RowsTyped DEF Rows!Stats
  <2> HIDE DEF w
  <2> QED BY <2>1, <2>2, RowsTyped
<1>4. Rows_log' \in [RowsSession -> [calls : Nat, errors : Nat]] /\ \A t \in RowsSession : Rows_log'[t].errors <= Rows_log'[t].calls
  <2> DEFINE l == [calls |-> Rows_log[s].calls + 1, errors |-> Rows_log[s].errors + e]
  <2>1. Rows_log' = Rows_log \/ Rows_log' = [Rows_log EXCEPT ![s] = l]
    BY <1>1
  <2>2. l \in [calls : Nat, errors : Nat] /\ l.errors <= l.calls
    BY <1>1, RowsTyped
  <2> HIDE DEF l
  <2> QED BY <2>1, <2>2, RowsTyped
<1> QED BY <1>2, <1>3, <1>4, RowsRowsStay

(* A session pauses.                                                            *)
LEMMA RowsPauseKeeps == ASSUME Rows!IInv, NEW s \in RowsSession, Rows!Pause(s) PROVE Rows!IInv'
<1> DEFINE r == [Rows_row[s] EXCEPT !.status = "paused"]
<1>1. Rows!OfRow(s, "running") /\ Rows_row' = [Rows_row EXCEPT ![s] = r] /\ Rows_log' = [Rows_log EXCEPT ![s] = Rows!NoCalls] /\ Rows_trace' = Rows_trace
  BY DEF Rows!Pause
<1>2. r \in Rows!SessionRecord /\ r.errors <= r.calls /\ r.status # "none" /\ r.created = Rows_row[s].created /\ r.here = Rows_row[s].here
  BY RowsTyped DEF Rows!SessionRecord
<1>3. Rows_log' \in [RowsSession -> [calls : Nat, errors : Nat]] /\ \A t \in RowsSession : Rows_log'[t].errors <= Rows_log'[t].calls
  BY <1>1, RowsTyped DEF Rows!NoCalls
<1> HIDE DEF r
<1> QED BY <1>1, <1>2, <1>3, RowsTyped, RowsOfRowIs, RowsRowStays

(* A session resumes.                                                           *)
LEMMA RowsResumeKeeps == ASSUME Rows!IInv, NEW s \in RowsSession, Rows!Resume(s) PROVE Rows!IInv'
<1> DEFINE r == [Rows_row[s] EXCEPT !.status = "running"]
           w == [Rows_trace[s] EXCEPT !.end = "resumed"]
<1>1. Rows!OfRow(s, "paused") /\ Rows_row' = [Rows_row EXCEPT ![s] = r] /\ Rows_log' = Rows_log /\ Rows_trace' = [Rows_trace EXCEPT ![s] = w]
  BY DEF Rows!Resume
<1>2. r \in Rows!SessionRecord /\ r.errors <= r.calls /\ r.status # "none" /\ r.created = Rows_row[s].created /\ r.here = Rows_row[s].here
  BY RowsTyped DEF Rows!SessionRecord
<1>3. w \in Rows!Stats
  BY RowsTyped DEF Rows!Stats
<1> HIDE DEF r, w
<1>4. Rows_trace' \in [RowsSession -> Rows!Stats]
  BY <1>1, <1>3, RowsTyped
<1> QED BY <1>1, <1>2, <1>4, RowsTyped, RowsOfRowIs, RowsRowStays

(* A session completes.                                                         *)
LEMMA RowsCompleteKeeps == ASSUME Rows!IInv, NEW s \in RowsSession, Rows!Complete(s) PROVE Rows!IInv'
<1> DEFINE counted == IF Rows!Resumed(s) THEN Rows!NoCalls ELSE Rows_log[s]
<1>1. PICK how \in {"final", "max_turns", "stopped"} :
        /\ Rows_row' = [Rows_row EXCEPT ![s] =
             [status |-> IF how = "stopped" THEN "stopped" ELSE "completed", created |-> Rows_row[s].created, ended |-> Rows_now,
              calls |-> counted.calls, errors |-> counted.errors, maxed |-> how = "max_turns",
              here |-> Rows_row[s].here]]
        /\ Rows_trace' = [Rows_trace EXCEPT ![s].end = how]
  BY DEF Rows!Complete
<1> DEFINE r == [status |-> IF how = "stopped" THEN "stopped" ELSE "completed", created |-> Rows_row[s].created, ended |-> Rows_now,
                 calls |-> counted.calls, errors |-> counted.errors, maxed |-> how = "max_turns",
                 here |-> Rows_row[s].here]
           w == [Rows_trace[s] EXCEPT !.end = how]
<1>2. Rows!OfRow(s, "running") /\ Rows_row' = [Rows_row EXCEPT ![s] = r] /\ Rows_log' = Rows_log /\ Rows_trace' = [Rows_trace EXCEPT ![s] = w]
  BY <1>1 DEF Rows!Complete
<1>3. counted.calls \in Nat /\ counted.errors \in Nat /\ counted.errors <= counted.calls
  BY RowsTyped DEF Rows!NoCalls
<1>4. r \in Rows!SessionRecord /\ r.errors <= r.calls /\ r.status # "none" /\ r.created = Rows_row[s].created /\ r.here = Rows_row[s].here
  <2> HIDE DEF counted
  <2>1. (how = "max_turns") \in BOOLEAN
    OBVIOUS
  <2> QED BY <1>1, <1>3, <2>1, RowsTyped DEF Rows!SessionRecord
<1>5. w \in Rows!Stats
  BY <1>1, RowsTyped DEF Rows!Stats
<1> HIDE DEF r, w
<1>6. Rows_trace' \in [RowsSession -> Rows!Stats]
  BY <1>2, <1>5, RowsTyped
<1> QED BY <1>2, <1>4, <1>6, RowsTyped, RowsOfRowIs, RowsRowStays

(* A session raises.                                                            *)
LEMMA RowsRaiseKeeps == ASSUME Rows!IInv, NEW s \in RowsSession, Rows!Raise(s) PROVE Rows!IInv'
<1>1. PICK status \in {"error", "running"} :
        Rows_row' = [Rows_row EXCEPT ![s].status = status, ![s].ended = IF status = "error" THEN Rows_now ELSE @]
  BY DEF Rows!Raise
<1> DEFINE r == [Rows_row[s] EXCEPT !.status = status, !.ended = IF status = "error" THEN Rows_now ELSE Rows_row[s].ended]
           w == [Rows_trace[s] EXCEPT !.end = "raised"]
<1>2. Rows!OfRow(s, "running") /\ Rows_log' = Rows_log /\ Rows_trace' = [Rows_trace EXCEPT ![s] = w]
  BY DEF Rows!Raise
<1>3. Rows_row' = [Rows_row EXCEPT ![s] = r]
  BY <1>1, RowsTyped DEF Rows!SessionRecord, Rows!IInv, Rows!Noted
<1>4. r \in Rows!SessionRecord /\ r.errors <= r.calls /\ r.status # "none" /\ r.created = Rows_row[s].created /\ r.here = Rows_row[s].here
  BY <1>1, RowsTyped DEF Rows!SessionRecord
<1>5. w \in Rows!Stats
  BY RowsTyped DEF Rows!Stats
<1> HIDE DEF r, w
<1>6. Rows_trace' \in [RowsSession -> Rows!Stats]
  BY <1>2, <1>5, RowsTyped
<1> QED BY <1>2, <1>3, <1>4, <1>6, RowsTyped, RowsOfRowIs, RowsRowStays

-----------------------------------------------------------------------------
(* The run leaves the sessions as they are.                                     *)
LEMMA RowsRunKeeps ==
  ASSUME Rows!IInv, UNCHANGED <<Rows_now, Rows!sessions>>, Rows_alertsFile' \subseteq Rows!Metric, Rows_report' \subseteq Rows!Metric,
         Rows_since' \subseteq RowsSession, Rows!Paging'
  PROVE  Rows!IInv'
<1>1. Rows!Noted' /\ UNCHANGED <<Rows_now, Rows_row, Rows_trace>>
  BY DEF Rows!IInv, Rows!Noted, Rows!sessions
<1>3. Rows!TypeOK'
  BY <1>1 DEF Rows!IInv, Rows!TypeOK
<1> QED BY <1>1, <1>3 DEF Rows!IInv

(* The rows that a run has to read are all ahead when it starts.                *)
LEMMA RowsStartKeeps == ASSUME Rows!IInv, Rows!Start PROVE Rows!IInv'
<1>1. /\ Rows_pc' = "page" /\ Rows_offset' = 0 /\ Rows_loaded' = <<>> /\ Rows_since' = {s \in Rows!Listed' : Rows!Done(Rows_row[s])}
      /\ Rows_report' = {} /\ Rows_alertsFile' = Rows_alertsFile /\ UNCHANGED <<Rows_now, Rows!sessions>> /\ Rows_row' = Rows_row
      /\ Rows_moved' = FALSE /\ Rows_everywhere' \in BOOLEAN
  BY DEF Rows!Start, Rows!sessions
<1>2. Rows!Listed' \subseteq RowsSession
  BY DEF Rows!Listed
<1>3. Rows_since' \subseteq Rows!Listed' /\ Rows_since' \subseteq RowsSession
  BY <1>1, <1>2
<1>4. \A s \in Rows_since' : Rows_offset' < Rows!Place(s)'
  <2> SUFFICES ASSUME NEW s \in Rows_since' PROVE Rows_offset' < Rows!Place(s)'
    OBVIOUS
  <2> DEFINE T == {t \in Rows!Listed' : Rows!Newer(t, s)'}
  <2>1. Rows!Place(s)' = 1 + Cardinality(T)
    BY DEF Rows!Place
  <2>2. T \subseteq RowsSession
    BY <1>2
  <2> HIDE DEF T
  <2>3. IsFiniteSet(T)
    BY <2>2, RowsAssumption, FS_Subset
  <2>4. Cardinality(T) \in Nat
    BY <2>3, FS_CardinalityType
  <2> HIDE DEF Rows!Start
  <2> QED BY <1>1, <2>1, <2>4
<1>5. Rows!Paging'
  <2>1. Rows_moved' \in BOOLEAN /\ Rows_everywhere' \in BOOLEAN
    BY <1>1, Zenon
  <2>2. Rows_offset' \in Nat /\ Rows_loaded' \in Seq([session : RowsSession, row : Rows!SessionRecord]) /\ Rows_pc' = "page"
    BY <1>1
  <2> QED BY <1>3, <1>4, <2>1, <2>2 DEF Rows!Paging
<1>6. Rows_alertsFile' \subseteq Rows!Metric /\ Rows_report' \subseteq Rows!Metric
  BY <1>1 DEF Rows!IInv, Rows!TypeOK
<1> QED BY <1>1, <1>3, <1>5, <1>6, RowsRunKeeps

(* A page is the rows at the next places.                                       *)
LEMMA RowsPageIs ==
  ASSUME NEW t \in Seq(RowsSession), NEW n \in Nat, NEW m \in Nat \ {0}
  PROVE  LET page == SubSeq(t, n + 1, IF n + m < Len(t) THEN n + m ELSE Len(t))
         IN  /\ page \in Seq(RowsSession) /\ Len(page) \in Nat
             /\ n + m < Len(t) => Len(page) = m
             /\ \A p \in 1 .. Len(t) : n < p /\ p <= n + m => p - n \in 1 .. Len(page) /\ page[p - n] = t[p]
<1> DEFINE hi == IF n + m < Len(t) THEN n + m ELSE Len(t)
           page == SubSeq(t, n + 1, hi)
<1>1. Len(t) \in Nat /\ hi \in Nat /\ hi <= Len(t) /\ n + 1 \in Nat /\ n + 1 >= 1
  OBVIOUS
<1>2. /\ page \in Seq(RowsSession) /\ Len(page) = IF n + 1 <= hi THEN hi - n ELSE 0
      /\ \A i \in 1 .. Len(page) : page[i] = t[n + i]
  <2> HIDE DEF hi
  <2>1. page \in Seq(RowsSession)
    BY <1>1
  <2>2. Len(page) = IF n + 1 <= hi THEN hi - n ELSE 0
    BY <1>1
  <2>3. \A i \in 1 .. Len(page) : page[i] = t[n + i]
    BY <1>1, <2>2
  <2> QED BY <2>1, <2>2, <2>3
<1>3. n + m < Len(t) => Len(page) = m
  <2> HIDE DEF page
  <2> QED BY <1>1, <1>2
<1>4. ASSUME NEW p \in 1 .. Len(t), n < p, p <= n + m PROVE p - n \in 1 .. Len(page) /\ page[p - n] = t[p]
  <2>1. p <= hi /\ n + 1 <= hi /\ p \in Nat
    BY <1>1, <1>4
  <2> HIDE DEF page, hi
  <2>2. p - n \in 1 .. Len(page) /\ n + (p - n) = p
    BY <1>1, <1>2, <1>4, <2>1
  <2> QED BY <1>2, <2>2
<1> QED BY <1>2, <1>3, <1>4

(* Two sequences after one another.                                             *)
LEMMA RowsJoined ==
  ASSUME NEW S, NEW s \in Seq(S), NEW t \in Seq(S)
  PROVE  /\ s \o t \in Seq(S) /\ Len(s) \in Nat /\ Len(t) \in Nat /\ Len(s \o t) = Len(s) + Len(t)
         /\ \A i \in 1 .. Len(s) : (s \o t)[i] = s[i]
         /\ \A i \in 1 .. Len(t) : (s \o t)[Len(s) + i] = t[i]
OBVIOUS

(* What a page does not hold is ahead of the next one, which there is.          *)
LEMMA RowsLoadPageKeeps == ASSUME Rows!IInv, Rows!LoadPage PROVE Rows!IInv'
<1> DEFINE page == SubSeq(Rows!Table, Rows_offset + 1, IF Rows_offset + RowsPageSize < Len(Rows!Table) THEN Rows_offset + RowsPageSize ELSE Len(Rows!Table))
           rows == [i \in DOMAIN page |-> [session |-> page[i], row |-> Rows_row[page[i]]]]
           Both == [session : RowsSession, row : Rows!SessionRecord]
<1>1. /\ Rows_pc = "page" /\ Rows_loaded' = Rows_loaded \o rows /\ Rows_pc' = (IF Len(page) = RowsPageSize THEN "page" ELSE "report")
      /\ Rows_offset' = Rows_offset + RowsPageSize /\ UNCHANGED <<Rows_now, Rows!sessions, Rows_alertsFile, Rows_since, Rows_report>> /\ Rows_row' = Rows_row
      /\ UNCHANGED <<Rows_everywhere, Rows_moved>>
  BY DEF Rows!LoadPage, Rows!More, Rows!sessions
<1>2. /\ Rows_row \in [RowsSession -> Rows!SessionRecord] /\ Rows_offset \in Nat /\ Rows_loaded \in Seq(Both)
      /\ Rows_moved \in BOOLEAN /\ Rows_everywhere \in BOOLEAN
      /\ ~Rows_moved => Rows_since \subseteq Rows!Listed /\ \A s \in Rows_since : Rows!Loaded(s) \/ Rows_offset < Rows!Place(s)
  BY <1>1 DEF Rows!IInv, Rows!Noted, Rows!Paging
<1>3. /\ Rows!Table \in Seq(RowsSession) /\ Len(Rows!Table) \in Nat /\ \A s \in Rows!Listed : Rows!Table[Rows!Place(s)] = s /\ Rows!Place(s) \in 1 .. Len(Rows!Table)
  BY <1>2, RowsTableIs, RowsPlaces
<1>4. /\ page \in Seq(RowsSession) /\ Len(page) \in Nat /\ (Rows_offset + RowsPageSize < Len(Rows!Table) => Len(page) = RowsPageSize)
      /\ \A p \in 1 .. Len(Rows!Table) :
           Rows_offset < p /\ p <= Rows_offset + RowsPageSize => p - Rows_offset \in 1 .. Len(page) /\ page[p - Rows_offset] = Rows!Table[p]
  BY <1>2, <1>3, RowsAssumption, RowsPageIs
<1> HIDE DEF page
<1>5. rows \in Seq(Both) /\ Len(rows) = Len(page) /\ \A i \in 1 .. Len(page) : rows[i].session = page[i]
  <2>1. DOMAIN page = 1 .. Len(page) /\ \A i \in 1 .. Len(page) : page[i] \in RowsSession
    BY <1>4
  <2>2. \A i \in 1 .. Len(page) : rows[i] \in Both /\ rows[i].session = page[i]
    BY <1>2, <2>1
  <2>3. rows \in [1 .. Len(page) -> Both]
    BY <2>1, <2>2
  <2> HIDE DEF rows, Both
  <2> QED BY <1>4, <2>2, <2>3
<1> HIDE DEF rows, Both
<1>6. /\ Rows_loaded' \in Seq(Both) /\ Len(Rows_loaded) \in Nat /\ Len(Rows_loaded') = Len(Rows_loaded) + Len(page)
      /\ DOMAIN Rows_loaded = 1 .. Len(Rows_loaded) /\ DOMAIN Rows_loaded' = 1 .. Len(Rows_loaded')
      /\ \A i \in 1 .. Len(Rows_loaded) : Rows_loaded'[i] = Rows_loaded[i]
      /\ \A i \in 1 .. Len(page) : Rows_loaded'[Len(Rows_loaded) + i].session = page[i]
  <2>1. /\ Rows_loaded' \in Seq(Both) /\ Len(Rows_loaded) \in Nat /\ Len(Rows_loaded') = Len(Rows_loaded) + Len(rows)
        /\ \A i \in 1 .. Len(Rows_loaded) : Rows_loaded'[i] = Rows_loaded[i]
        /\ \A i \in 1 .. Len(rows) : Rows_loaded'[Len(Rows_loaded) + i] = rows[i]
    <3>1. Rows_loaded \in Seq(Both) /\ rows \in Seq(Both)
      BY <1>2, <1>5
    <3>2. /\ Rows_loaded \o rows \in Seq(Both) /\ Len(Rows_loaded) \in Nat /\ Len(Rows_loaded \o rows) = Len(Rows_loaded) + Len(rows)
          /\ \A i \in 1 .. Len(Rows_loaded) : (Rows_loaded \o rows)[i] = Rows_loaded[i]
          /\ \A i \in 1 .. Len(rows) : (Rows_loaded \o rows)[Len(Rows_loaded) + i] = rows[i]
      BY <3>1, RowsJoined
    <3>3. Rows_loaded' = Rows_loaded \o rows
      BY <1>1
    <3> QED BY <3>2, <3>3, Zenon
  <2>2. DOMAIN Rows_loaded = 1 .. Len(Rows_loaded) /\ DOMAIN Rows_loaded' = 1 .. Len(Rows_loaded')
    BY <1>2, <2>1
  <2> QED BY <1>5, <2>1, <2>2
<1>7. Rows!Listed' = Rows!Listed /\ \A s \in Rows!Listed : Rows!Place(s)' = Rows!Place(s)
  <2>1. Rows!Listed' = Rows!Listed
    BY <1>1 DEF Rows!Listed
  <2> QED BY <1>1, <2>1 DEF Rows!Place, Rows!Newer
<1>8. ASSUME ~Rows_moved, NEW s \in Rows_since PROVE Rows!Loaded(s)' \/ (Rows_pc' = "page" /\ Rows_offset' < Rows!Place(s)')
  <2> DEFINE p == Rows!Place(s)
  <2>1. s \in Rows!Listed /\ p \in 1 .. Len(Rows!Table) /\ Rows!Table[p] = s /\ p \in Nat
    BY <1>2, <1>3, <1>8
  <2>2. CASE Rows!Loaded(s)
    <3>1. PICK i \in DOMAIN Rows_loaded : Rows_loaded[i].session = s
      BY <2>2 DEF Rows!Loaded
    <3>2. i \in DOMAIN Rows_loaded' /\ Rows_loaded'[i].session = s
      BY <1>4, <1>6, <3>1
    <3> QED BY <3>2 DEF Rows!Loaded
  <2> HIDE DEF p
  <2>3. CASE Rows_offset < p /\ p <= Rows_offset + RowsPageSize
    <3>1. p - Rows_offset \in 1 .. Len(page) /\ page[p - Rows_offset] = s
      BY <1>4, <2>1, <2>3
    <3>2. Len(Rows_loaded) + (p - Rows_offset) \in DOMAIN Rows_loaded' /\ Rows_loaded'[Len(Rows_loaded) + (p - Rows_offset)].session = s
      BY <1>4, <1>6, <3>1
    <3> QED BY <3>2 DEF Rows!Loaded
  <2>4. CASE Rows_offset + RowsPageSize < p
    <3>1. Len(page) = RowsPageSize
      BY <1>2, <1>3, <1>4, <2>1, <2>4, RowsAssumption
    <3>2. Rows!Place(s)' = p
      BY <1>7, <2>1 DEF p
    <3> QED BY <1>1, <2>4, <3>1, <3>2
  <2>5. Rows!Loaded(s) \/ Rows_offset < p
    BY <1>2, <1>8 DEF p
  <2> QED BY <1>2, <2>1, <2>2, <2>3, <2>4, <2>5, RowsAssumption
<1>9. Rows!Paging'
  <2>1. Rows_offset' \in Nat /\ (~Rows_moved' => Rows_since' \subseteq Rows!Listed')
    BY <1>1, <1>2, <1>7, RowsAssumption
  <2>2. Rows_loaded' \in Seq([session : RowsSession, row : Rows!SessionRecord])
    BY <1>6 DEF Both
  <2>3. Rows_pc' # "idle" /\ Rows_moved' \in BOOLEAN /\ Rows_everywhere' \in BOOLEAN
    BY <1>1, <1>2
  <2>4. \A s \in Rows_since' : ~Rows_moved' => Rows!Loaded(s)' \/ (Rows_pc' = "page" /\ Rows_offset' < Rows!Place(s)')
    BY <1>1, <1>8
  <2> QED BY <2>1, <2>2, <2>3, <2>4 DEF Rows!Paging
<1>10. Rows_alertsFile' \subseteq Rows!Metric /\ Rows_report' \subseteq Rows!Metric /\ Rows_since' \subseteq RowsSession
  BY <1>1 DEF Rows!IInv, Rows!TypeOK
<1> QED BY <1>1, <1>9, <1>10, RowsRunKeeps

(* The end of the run reads no more.                                            *)
LEMMA RowsEndKeeps == ASSUME Rows!IInv, Rows!Report \/ Rows!WriteOrClear \/ Rows!Finish PROVE Rows!IInv'
<1>1. UNCHANGED <<Rows_now, Rows!sessions>> /\ UNCHANGED Rows_row /\ Rows_pc' # "page" /\ Rows_pc # "page"
  BY DEF Rows!Report, Rows!WriteOrClear, Rows!Finish, Rows!sessions
<1>2. Rows_alertsFile' \subseteq Rows!Metric /\ Rows_report' \subseteq Rows!Metric
  <2>1. \A a, b : Rows!Alerts(a, b) \subseteq Rows!Metric
    BY DEF Rows!Alerts
  <2>2. Rows_alertsFile \subseteq Rows!Metric /\ Rows_report \subseteq Rows!Metric
    BY DEF Rows!IInv, Rows!TypeOK
  <2>3. CASE Rows!Report
    BY <2>1, <2>2, <2>3 DEF Rows!Report
  <2>4. CASE Rows!WriteOrClear
    BY <2>2, <2>4 DEF Rows!WriteOrClear
  <2>5. CASE Rows!Finish
    BY <2>2, <2>5 DEF Rows!Finish
  <2> QED BY <2>3, <2>4, <2>5
<1>3. Rows!Paging'
  <2>2. CASE Rows!Report \/ Rows!WriteOrClear
    <3>1. UNCHANGED <<Rows_offset, Rows_loaded, Rows_since, Rows_moved, Rows_everywhere>> /\ Rows_pc' # "idle"
      BY <2>2 DEF Rows!Report, Rows!WriteOrClear
    <3> QED BY <1>1, <3>1 DEF Rows!IInv, Rows!Paging, Rows!Loaded
  <2>3. CASE Rows!Finish
    <3>1. Rows_moved' = FALSE /\ Rows_everywhere' = FALSE /\ Rows_offset' = 0 /\ Rows_loaded' = <<>> /\ Rows_since' = {} /\ Rows_pc' = "idle"
      BY <2>3 DEF Rows!Finish
    <3>2. Rows_moved' \in BOOLEAN /\ Rows_everywhere' \in BOOLEAN
      BY <3>1, Zenon
    <3>3. Rows_offset' \in Nat /\ Rows_loaded' \in Seq([session : RowsSession, row : Rows!SessionRecord]) /\ Rows_pc' # "page"
      BY <3>1
    <3> QED BY <3>1, <3>2, <3>3 DEF Rows!Paging
  <2> QED BY <2>2, <2>3
<1>4. Rows_since' \subseteq RowsSession
  BY DEF Rows!IInv, Rows!TypeOK, Rows!Report, Rows!WriteOrClear, Rows!Finish
<1> QED BY <1>1, <1>2, <1>3, <1>4, RowsRunKeeps

(* Every step keeps what is not read ahead of the run.                          *)
LEMMA RowsNextIInv == Rows!IInv /\ [Rows!Next]_Rows!vars => Rows!IInv'
<1> SUFFICES ASSUME Rows!IInv, [Rows!Next]_Rows!vars PROVE Rows!IInv'
  OBVIOUS
<1>1. CASE UNCHANGED Rows!vars
  <2>1. UNCHANGED <<Rows_now, Rows_row, Rows_log, Rows_trace, Rows_alertsFile>> /\ UNCHANGED <<Rows_pc, Rows_offset, Rows_loaded, Rows_since, Rows_report, Rows_everywhere, Rows_moved>>
    BY <1>1 DEF Rows!vars, Rows!sessions, Rows!run
  <2>2. UNCHANGED <<Rows_now, Rows!sessions>>
    BY <1>1 DEF Rows!vars
  <2>3. Rows!Listed' = Rows!Listed
    BY <2>1 DEF Rows!Listed
  <2>4. \A s \in Rows!Listed : Rows!Place(s)' = Rows!Place(s)
    BY <2>1, <2>3 DEF Rows!Place, Rows!Newer
  <2>5. Rows!Paging'
    BY <2>1, <2>3, <2>4 DEF Rows!IInv, Rows!Paging, Rows!Loaded
  <2> QED BY <2>1, <2>2, <2>5, RowsRunKeeps DEF Rows!IInv, Rows!TypeOK
<1>2. CASE Rows!Tick
  BY <1>2, RowsTickKeeps
<1>3. ASSUME NEW s \in RowsSession,
             Rows!Begin(s) \/ Rows!Bootstrap(s) \/ Rows!Call(s) \/ Rows!Pause(s) \/ Rows!Resume(s) \/ Rows!Complete(s) \/ Rows!Raise(s) \/ Rows!Relocate(s) \/ Rows!RelocateAgain(s)
      PROVE  Rows!IInv'
  BY <1>3, RowsBeginKeeps, RowsBootstrapKeeps, RowsCallKeeps, RowsPauseKeeps, RowsResumeKeeps,
       RowsCompleteKeeps, RowsRaiseKeeps, RowsRelocateKeeps, RowsRelocateAgainKeeps
<1>4. CASE Rows!Start
  BY <1>4, RowsStartKeeps
<1>5. CASE Rows!LoadPage
  BY <1>5, RowsLoadPageKeeps
<1>6. CASE Rows!Report \/ Rows!WriteOrClear \/ Rows!Finish
  BY <1>6, RowsEndKeeps
<1> QED BY <1>1, <1>2, <1>3, <1>4, <1>5, <1>6 DEF Rows!Next

(* When the run reports, nothing is ahead.                                      *)
LEMMA RowsHolds == Rows!IInv => Rows!TypeOK /\ Rows!NoneMissed
BY DEF Rows!IInv, Rows!Paging, Rows!NoneMissed

(* cmd_drift.py, session_store.py: every session that was over when harness drift began is   *)
(* among the rows of its report, for any sessions, pages and dates, whatever begins or ends    *)
(* between two pages, unless a row was moved out of the workspace meanwhile.                   *)
THEOREM NoneIsMissed == Spec => []NoneMissed
<1> DEFINE Inv == part = "rows" => Rows!IInv
<1>1. Init => Inv
  BY RowsInitIInv DEF Init
<1>2. Inv /\ [Next]_vars => Inv'
  <2>1. ASSUME part = "rows", Rows!IInv, [Next]_vars PROVE Rows!IInv'
    BY <2>1, RowsNextIInv DEF Next, vars, Rows!vars, Rows!sessions, Rows!run
  <2>2. [Next]_vars => part' = part
    BY DEF Next, vars
  <2> QED BY <2>1, <2>2
<1>3. Inv => NoneMissed
  BY RowsHolds DEF NoneMissed
<1> QED
  BY <1>1, <1>2, <1>3, PTL DEF Spec

HIDE RowsCardinality
HIDE DEF Rows_now, Rows_row, Rows_hint, Rows_log, Rows_trace, Rows_rollups, Rows_alertsFile,
  Rows_pc, Rows_offset, Rows_loaded, Rows_since, Rows_report, Rows_failed, Rows_everywhere,
  Rows_moved, Rows_events

====

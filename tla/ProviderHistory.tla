--------------------------- MODULE ProviderHistory ---------------------------
(***************************************************************************)
(* The conversation as a provider's mode keeps it and sends it again              *)
(* (modes/native.py, modes/grok.py): one answer's items become a message of the   *)
(* history, the calls among them are extracted and answered, and every request    *)
(* is built anew from the whole history.  Native sends its messages as they are;  *)
(* Grok turns them into the items of the Responses API, leaves out what that       *)
(* refuses, and numbers searches and calls for the trace in the order of the       *)
(* answer.  A pause's reply is written into a history that was stored and read     *)
(* back (checkpoint.py).  A run that stops on an answer (loop.py) leaves its calls   *)
(* in the history without results, and the next line of the session, or the          *)
(* reflection at its end (runner.py), sends them so.                                 *)
(***************************************************************************)
EXTENDS Naturals, Sequences, FiniteSets

CONSTANTS
  Answers,    \* the answers a model may give: sequences of item kinds
  MaxAnswers

VARIABLES
  provider,   \* "native" or "grok"
  history,    \* messages
  pc,         \* "ask", "answer", "idle", "over" (a budget is spent), "paused" or "stuck"
  calls,      \* the calls extracted from the last answer
  request,    \* the items of the last request
  toolSeq, traced, \* tool_seq, and the numbers the trace holds of this run of the loop: [id, seq]
  given,      \* the items of all answers so far, numbered through
  left        \* history: the calls that nothing answers
vars == <<provider, history, pc, calls, request, toolSeq, traced, given, left>>

\* A "stray" is a call of a tool that the harness does not have; "sealed" reasoning is encrypted.
CallKind == {"call", "stray", "pause"}
Kind == CallKind \cup {"text", "reasoning", "sealed", "search"}
Items(answer) == [i \in DOMAIN answer |-> [type |-> answer[i], id |-> given + i]]
IsCall(item) == item.type \in CallKind
Ids(items) == [i \in DOMAIN items |-> items[i].id]

\* Sequences one after the other, and the items of some kinds.
Firsts(pieces) ==
  LET first[n \in 0 .. Len(pieces)] == IF n = 0 THEN <<>> ELSE first[n - 1] \o pieces[n] IN first
Flat(pieces) == Firsts(pieces)[Len(pieces)]
Only(items, kinds) == Flat([i \in DOMAIN items |-> IF items[i].type \in kinds THEN <<items[i]>> ELSE <<>>])

Said(role) == [role |-> role, saved |-> <<>>, text |-> TRUE, ids |-> <<>>]
User == Said("user")
System == Said("system")

-----------------------------------------------------------------------------
(* An answer becomes a message, and calls. *)
AsAssistantMessage(items) ==
  [role |-> "assistant", saved |-> items,
   text |-> \E i \in DOMAIN items : items[i].type = "text",
   ids |-> Ids(Only(items, CallKind))]

\* Grok passes over calls of tools it did not offer; Native hands them on, to be answered
\* with an error.
Extracted == IF provider = "grok" THEN {"call", "pause"} ELSE CallKind
ExtractToolCalls(items) == Only(items, Extracted)

AsToolResults(results) ==
  IF provider = "grok"
    THEN [i \in DOMAIN results |-> [role |-> "tool", saved |-> <<>>, text |-> FALSE, ids |-> <<results[i].id>>]]
    ELSE <<[role |-> "user", saved |-> <<>>, text |-> FALSE, ids |-> Ids(results)]>>

-----------------------------------------------------------------------------
(* The history becomes a request. *)
SavedItemSkip == {"reasoning", "search"}
Outputs(ids) == [i \in DOMAIN ids |-> [type |-> "output", id |-> ids[i]]]
Message == <<[type |-> "message", id |-> 0]>>
FunctionCalls(m) ==
  (IF m.text THEN Message ELSE <<>>) \o [i \in DOMAIN m.ids |-> [type |-> "call", id |-> m.ids[i]]]

\* Faulty variant: the calls of a saved answer are added to its saved items.
AssistantItemsTwice(m) ==
  IF m.saved = <<>> THEN FunctionCalls(m)
  ELSE Only(m.saved, Kind \ SavedItemSkip) \o FunctionCalls(m)
AssistantItems(m) ==
  IF m.saved = <<>> THEN FunctionCalls(m) ELSE Only(m.saved, Kind \ SavedItemSkip)

InputOf(prov, m) ==
  CASE m.role = "system" -> <<>>
    [] m.role = "user" -> (IF m.text THEN Message ELSE <<>>) \o Outputs(m.ids)
    [] m.role = "tool" -> Outputs(m.ids)
    [] m.role = "assistant" -> IF prov = "grok" THEN AssistantItems(m) ELSE m.saved
Input(prov, messages) == Flat([i \in DOMAIN messages |-> InputOf(prov, messages[i])])

-----------------------------------------------------------------------------
(* The numbers of the trace. *)
\* The positions of the calls that were extracted, in the order of extraction.
PositionsOf(items, kinds) ==
  LET only == Only(items, kinds) IN [k \in DOMAIN only |-> CHOOSE i \in DOMAIN items : items[i] = only[k]]
\* Faulty variant: of every call in the answer.
PositionsAll(items) == PositionsOf(items, CallKind)
Positions(items) == PositionsOf(items, {"call", "pause"})
Searches(items) == {i \in DOMAIN items : items[i].type = "search"}

\* With a search in the answer, searches and calls share the positions' order; without one
\* the calls are numbered as they come.
Numbered(items) ==
  LET extracted == ExtractToolCalls(items)
      positions == Positions(items)
      At(i) == toolSeq + Cardinality({j \in Searches(items) : j < i}) + Cardinality({k \in DOMAIN positions : positions[k] < i})
      all == Cardinality(Searches(items)) + Len(positions)
  IN  IF provider = "grok" /\ Searches(items) # {}
        THEN [events |-> {[id |-> items[i].id, seq |-> At(i)] : i \in Searches(items)}
                         \cup {[id |-> extracted[k].id, seq |-> IF k <= Len(positions) THEN At(positions[k]) ELSE toolSeq + all]
                                : k \in DOMAIN extracted},
              next |-> toolSeq + all]
        ELSE [events |-> {[id |-> extracted[k].id, seq |-> toolSeq + k - 1] : k \in DOMAIN extracted},
              next |-> toolSeq + Len(extracted)]

-----------------------------------------------------------------------------
Init ==
  /\ provider \in {"native", "grok"} /\ pc = "ask" /\ calls = <<>> /\ request = <<>>
  /\ history = IF provider = "grok" THEN <<System, User>> ELSE <<User>>
  /\ toolSeq = 0 /\ traced = {} /\ given = 0 /\ left = {}

\* A turn up to its calls.  One cut off by the limit on output (limited) is asked to go on,
\* if it has no calls and was not asked too often, or is the last of this run; neither its
\* calls nor a batch above the budget of calls (over) is ever run.
IdsOf(items, kinds) == {items[i].id : i \in {j \in DOMAIN items : items[j].type \in kinds}}
Ending(extracted, limited, over) ==
  IF extracted = <<>> THEN IF limited THEN {"ask", "idle"} ELSE {"idle"}
  ELSE {IF limited THEN "idle" ELSE IF over THEN "over" ELSE "answer"}
Leaves(items, end) == IdsOf(items, CallKind) \ (IF end = "answer" THEN IdsOf(items, Extracted) ELSE {})

Complete(answer) ==
  LET items == Items(answer)
  IN  /\ pc = "ask" /\ Cardinality({i \in DOMAIN history : history[i].role = "assistant"}) < MaxAnswers
      /\ given' = given + Len(answer)
      /\ provider = "native" => \A i \in DOMAIN answer : answer[i] # "search"
      /\ request' = Input(provider, history)
      /\ calls' = ExtractToolCalls(items)
      /\ \E limited, over \in BOOLEAN : pc' \in Ending(calls', limited, over)
      /\ history' = Append(history, AsAssistantMessage(items)) \o (IF pc' = "ask" THEN <<User>> ELSE <<>>)
      /\ left' = left \cup Leaves(items, pc')
      /\ traced' = traced \cup Numbered(items).events /\ toolSeq' = Numbered(items).next
      /\ UNCHANGED provider
\* An answer that takes the cost above its budget is not kept.
Overspend ==
  /\ pc = "ask" /\ pc' = "over" /\ request' = Input(provider, history)
  /\ UNCHANGED <<provider, history, calls, toolSeq, traced, given, left>>

\* The loop may stop behind the results: it was the last turn, or one too many alike.
Answer ==
  /\ pc = "answer" /\ history' = history \o AsToolResults(calls)
  /\ IF \E i \in DOMAIN calls : calls[i].type = "pause" THEN pc' = "paused" ELSE pc' \in {"ask", "idle"}
  /\ UNCHANGED <<provider, calls, request, toolSeq, traced, given, left>>

\* The next line of an interactive session, which runs the loop anew, and the reflection at
\* its end.
Say ==
  /\ pc = "idle" /\ pc' = "ask" /\ history' = Append(history, User) /\ toolSeq' = 0 /\ traced' = {}
  /\ UNCHANGED <<provider, calls, request, given, left>>
Reflect ==
  /\ pc \in {"idle", "over"} /\ request' = Input(provider, Append(history, User))
  /\ UNCHANGED <<provider, history, pc, calls, toolSeq, traced, given, left>>

\* The result is looked for among the blocks of the messages whose content is a list.
PauseToolResult(id) == {i \in DOMAIN history : history[i].role = "user" /\ \E k \in DOMAIN history[i].ids : history[i].ids[k] = id}
Resume ==
  /\ pc = "paused"
  /\ LET pauses == {k \in DOMAIN calls : calls[k].type = "pause"}
         asked == CHOOSE k \in pauses : \A l \in pauses : l <= k
     IN  pc' = IF PauseToolResult(calls[asked].id) = {} THEN "stuck" ELSE "ask"
  /\ UNCHANGED <<provider, history, calls, request, toolSeq, traced, given, left>>

Next == (\E answer \in Answers : Complete(answer)) \/ Overspend \/ Answer \/ Say \/ Reflect \/ Resume
Spec == Init /\ [][Next]_vars

-----------------------------------------------------------------------------
TypeOK ==
  /\ pc \in {"ask", "answer", "idle", "over", "paused", "stuck"}
  /\ \A i \in DOMAIN history : history[i].role \in {"system", "user", "assistant", "tool"}
  /\ \A i \in DOMAIN request : request[i].type \in Kind \cup {"message", "output"}

Has(type, id) == {i \in DOMAIN request : request[i].type = type /\ request[i].id = id}
CallsOf(id) == {i \in DOMAIN request : IsCall(request[i]) /\ request[i].id = id}
Paired(id) ==
  /\ Cardinality(CallsOf(id)) = 1 /\ Cardinality(Has("output", id)) = 1
  /\ \A i \in CallsOf(id), j \in Has("output", id) : i < j

\* In every request each call is sent once and answered once, after it, and no output is sent
\* without its call, whatever reasoning and searches the request leaves out; but for exactly
\* those calls that Grok passed over, or that the run of an earlier line stopped on (loop.py:392,
\* 434): they are sent once and never answered.
RequestsPair ==
  \A i \in DOMAIN request : IsCall(request[i]) \/ request[i].type = "output" =>
    IF request[i].id \in left
      THEN IsCall(request[i]) /\ Cardinality(CallsOf(request[i].id)) = 1 /\ Has("output", request[i].id) = {}
      ELSE Paired(request[i].id)

\* In one run of the loop the numbers of searches and calls in the trace follow the order of
\* the answers, and no two are alike.
TraceFollowsAnswers == \A e, f \in traced : e.id < f.id => e.seq < f.seq

\* Requests are well paired, and the trace numbers what the provider and the harness ran
\* in one order.
HistoryPairs == RequestsPair /\ TraceFollowsAnswers

\* Inductive: what a request of the history as it is would hold is well paired but for the calls
\* under way, and all numbers are below the next.
Item == [type : Kind \cup {"message", "output"}, id : Nat]
Msg == [role : {"system", "user", "assistant", "tool"}, saved : Seq(Item), text : BOOLEAN, ids : Seq(Nat)]
Open == IF pc = "answer" THEN {calls[k].id : k \in DOMAIN calls} ELSE {}
Rising(seq) == \A k, l \in DOMAIN seq : k < l => seq[k].id < seq[l].id
Once(seq, kinds) == \A i, j \in DOMAIN seq : seq[i].type \in kinds /\ seq[j].type \in kinds /\ seq[i].id = seq[j].id => i = j
PairedBut(seq, open) ==
  /\ seq \in Seq(Item) /\ Once(seq, CallKind) /\ Once(seq, {"output"})
  /\ \A i \in DOMAIN seq : seq[i].type = "output" =>
       seq[i].id \notin open /\ \E j \in DOMAIN seq : j < i /\ IsCall(seq[j]) /\ seq[j].id = seq[i].id
  /\ \A i \in DOMAIN seq : IsCall(seq[i]) =>
       seq[i].id \in open \/ \E j \in DOMAIN seq : seq[j].type = "output" /\ seq[j].id = seq[i].id
Underway ==
  \A k \in DOMAIN calls : \E i \in DOMAIN Input(provider, history) :
    IsCall(Input(provider, history)[i]) /\ Input(provider, history)[i].id = calls[k].id
Traced ==
  /\ toolSeq \in Nat /\ given \in Nat
  /\ \A e \in traced : e.id \in Nat /\ e.seq \in Nat /\ e.id <= given /\ e.seq < toolSeq
  /\ TraceFollowsAnswers
IInv ==
  /\ TypeOK /\ history \in Seq(Msg) /\ provider \in {"native", "grok"} /\ calls \in Seq(Item)
  /\ PairedBut(Input(provider, history), Open \cup left) /\ PairedBut(request, left) /\ Underway /\ Traced
  /\ Open \cap left = {} /\ left \subseteq 0 .. given /\ \A i \in DOMAIN request : request[i].id <= given
  /\ \A i \in DOMAIN Input(provider, history) : Input(provider, history)[i].id <= given
  /\ Rising(calls)

\* All calls alike: what the API demands, and the loop does not keep.
EveryCallIsAnswered == \A i \in DOMAIN request : IsCall(request[i]) => Paired(request[i].id)

\* "Their answer becomes this tool's result on resume" (pause.py:84-85).
ReplyFindsItsCall == pc # "stuck"
=============================================================================

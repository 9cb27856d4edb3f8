------------------------------ MODULE Compaction ------------------------------
(***************************************************************************)
(* The conversation of a session and its two compactions (compaction.py),   *)
(* as the loop calls them after the tools of a turn: layer 2 blanks old     *)
(* tool results and adds a summary and a block of dead ends, layer 3 cuts    *)
(* the conversation out between the task and the last turns.  A message     *)
(* says which turns can still be read off it.                               *)
(***************************************************************************)
EXTENDS Naturals, Sequences, FiniteSets

CONSTANTS
  MaxTurns,
  KeepRecentPairs,      \* DEFAULT_KEEP_RECENT_PAIRS
  FullKeepRecentPairs,  \* DEFAULT_FULL_KEEP_RECENT_PAIRS
  DeadEndsLlmMin,       \* _DEAD_ENDS_LLM_MIN
  MaxDeadEnds           \* DEFAULT_MAX_DEAD_ENDS

VARIABLES
  messages,
  pc,        \* "turn", "layer2", "layer3" or "nudge"
  turns,     \* tool turns so far
  failed,    \* those a call of which failed
  mixed,     \* failed turns whose other calls have something to tell too
  garbled,   \* history: failed turns of which a model's reply left no usable line
  swallowed, \* history: mixed turns blanked, of which the first failure has a line
  mistaken,  \* history: a full summary that held the banner of the dead ends was taken for them
  overwritten \* history: the turns that such summaries told
vars == <<messages, pc, turns, failed, mixed, garbled, swallowed, mistaken, overwritten>>
account == <<garbled, swallowed, mistaken, overwritten>>

Turn == 1 .. MaxTurns

\* kind: task, text, use, result, summary, dead, full, or echo: a full summary whose
\* text holds the banner of the dead ends, which its prompt names.  `reads`: the turns
\* whose outcome it tells; `turn`: of a use or a result; `lines`: of the dead ends, one
\* for a turn: its first call and its first failure.
Message(kind, turn, reads, lines) == [kind |-> kind, turn |-> turn, reads |-> reads, lines |-> lines]
Task == Message("task", 0, {}, <<>>)
Text == Message("text", 0, {}, <<>>)
Use(n) == Message("use", n, {}, <<>>)
Result(n) == Message("result", n, {n}, <<>>)
SummaryMessage(S) == Message("summary", 0, S, <<>>)
FullSummaryMessage(kind, S) == Message(kind, 0, S, <<>>)
DeadEndsMessage(l) == Message("dead", 0, {l[i] : i \in DOMAIN l}, l)

Init ==
  /\ messages = <<Task>> /\ pc = "turn" /\ turns = 0 /\ failed = {} /\ mixed = {}
  /\ garbled = {} /\ swallowed = {} /\ mistaken = FALSE /\ overwritten = {}

-----------------------------------------------------------------------------
\* A turn with tools.  The results of its calls are one message: one failure makes it
\* a failed pair (_is_failed_pair), whatever the other calls brought.
ToolTurn ==
  /\ pc = "turn" /\ turns < MaxTurns
  /\ turns' = turns + 1 /\ pc' = "layer2"
  /\ messages' = messages \o <<Use(turns + 1), Result(turns + 1)>>
  /\ failed' \in {failed, failed \cup {turns + 1}}
  /\ mixed' \in {mixed, mixed \cup (failed' \ failed)}
  /\ UNCHANGED account

\* A nudge of the loop, or the next question, after the compactions.
Nudge ==
  /\ pc = "nudge" /\ pc' = "turn"
  /\ messages' \in {messages, Append(messages, Text)}
  /\ UNCHANGED <<turns, failed, mixed, account>>

-----------------------------------------------------------------------------
\* The places of the uses that their results follow, and the last n of them.
IsPair(s, i) == s[i].kind = "use" /\ s[i + 1].kind = "result"
ToolPairs(s) == {i \in 1 .. Len(s) - 1 : IsPair(s, i)}
Recent(P, n) == {i \in P : Cardinality({j \in P : j >= i}) <= n}
Compacted(m) == m.reads = {}
FreshPairs(s) ==
  LET pairs == ToolPairs(s)
  IN {i \in pairs \ Recent(pairs, KeepRecentPairs) : ~Compacted(s[i + 1])}

\* The messages from a to b give way to those of new; a = b + 1 for an insertion.
Splice(s, a, b, new) ==
  [i \in 1 .. Len(s) + Len(new) + a - (b + 1) |->
     IF i < a THEN s[i] ELSE IF i < a + Len(new) THEN new[i + 1 - a] ELSE s[i + (b + 1) - (a + Len(new))]]

\* The messages that hold one of the two banners, and the first of them.
DeadEndsKinds == {"dead", "echo"}
FullKinds == {"full", "echo"}
Position(s, kinds) ==
  LET at == {i \in DOMAIN s : s[i].kind \in kinds}
  IN IF at = {} THEN 0 ELSE CHOOSE i \in at : \A j \in at : i <= j
LastOf(l, n) == IF Len(l) <= n THEN l ELSE SubSeq(l, Len(l) - n + 1, Len(l))

\* Faulty variant: the new block takes the place of the old one.
MergeOverwrites(old, new) == DeadEndsMessage(LastOf(new, MaxDeadEnds))
\* The dead ends that were there and the new ones; the oldest go.
Merge(old, new) == DeadEndsMessage(LastOf(old \o new, MaxDeadEnds))

\* What the block says of the failed turns S: one line each, except that a model
\* asked about many may answer in lines the merge does not recognise.
Lines(S) ==
  LET Go[n \in 0 .. MaxTurns] ==
        IF n = 0 THEN <<>> ELSE IF n \in S THEN Append(Go[n - 1], n) ELSE Go[n - 1]
  IN Go[MaxTurns]
Replies(S) ==
  {LastOf(Lines(S), MaxDeadEnds)} \cup (IF Cardinality(S) >= DeadEndsLlmMin THEN {<<>>} ELSE {})

\* The conversation with the old results blanked, with a summary of the turns
\* `good` at place `at`, and with the dead ends of a reply: at `at` if they are the first,
\* else in the place of the first message with their banner, of which the lines stay.
Blanked(s, fresh) ==
  [i \in DOMAIN s |-> IF i - 1 \in fresh THEN [s[i] EXCEPT !.reads = {}] ELSE s[i]]
Summed(s, at, good) == Splice(s, at, at - 1, <<SummaryMessage(good)>>)
Noted(s, at, reply) ==
  LET old == Position(s, DeadEndsKinds)
  IN IF old = 0 THEN Splice(s, at, at - 1, <<Merge(<<>>, reply)>>)
     ELSE Splice(s, old, old, <<Merge(s[old].lines, reply)>>)

\* The summary, if any, that the dead ends of a conversation overwrite.
Mistaken(s) == {i \in DOMAIN s : i = Position(s, DeadEndsKinds) /\ s[i].kind = "echo"}

\* maybe_compact, its model calls answering.
Layer2(fresh) ==
  LET told == {messages[i].turn : i \in fresh}
      bad == told \cap failed
      good == told \ failed
      at == (CHOOSE i \in fresh : \A j \in fresh : j <= i) + 2
      blank == Blanked(messages, fresh)
      summed == IF good = {} THEN blank ELSE Summed(blank, at, good)
  IN \E reply \in Replies(bad) :
       /\ messages' = IF bad = {} THEN summed
                      ELSE Noted(summed, IF good = {} THEN at ELSE at + 1, reply)
       /\ garbled' = IF bad # {} /\ reply = <<>> THEN garbled \cup bad ELSE garbled
       /\ swallowed' = swallowed \cup (told \cap mixed)
       /\ mistaken' = (mistaken \/ (bad # {} /\ Mistaken(summed) # {}))
       /\ overwritten' = IF bad = {} THEN overwritten
                         ELSE overwritten \cup UNION {summed[i].reads : i \in Mistaken(summed)}

\* Below the threshold, too few or no fresh pairs, a model that raises or says
\* nothing: the conversation stays as it is.
MaybeCompact ==
  /\ pc = "layer2" /\ pc' = "layer3" /\ UNCHANGED <<turns, failed, mixed>>
  /\ \/ FreshPairs(messages) # {} /\ Layer2(FreshPairs(messages))
     \/ UNCHANGED <<messages, account>>

-----------------------------------------------------------------------------
\* The last message of the region that is cut out: the one before the first pair kept.
FirstKept(s) ==
  LET kept == Recent(ToolPairs(s), FullKeepRecentPairs)
  IN CHOOSE i \in kept : \A j \in kept : i <= j
\* Faulty variant: the region ends one message later.
RegionEndLate(s) == FirstKept(s)
RegionEnd(s) == FirstKept(s) - 1

\* What a model is shown of the region: all but the dead ends, which go on as one message.
\* (No summary with their banner is among them: layer 3 finds none when it runs.)
Told(region) == UNION {region[i].reads : i \in {j \in DOMAIN region : region[j].kind # "dead"}}
Preserved(region) ==
  LET Go[i \in 0 .. Len(region)] ==
        IF i = 0 THEN <<>>
        ELSE IF region[i].kind # "dead" THEN Go[i - 1]
        ELSE IF Go[i - 1] = <<>> THEN <<region[i]>>
        ELSE <<Merge(Go[i - 1][1].lines, region[i].lines)>>
  IN Go[Len(region)]

Layer3(end) ==
  LET region == SubSeq(messages, 2, end)
  IN \E kind \in FullKinds :
       messages' = Splice(messages, 2, end, <<FullSummaryMessage(kind, Told(region))>> \o Preserved(region))

\* maybe_full_compact, once in a conversation, or once more when its summary was overwritten.
MaybeFullCompact ==
  /\ pc = "layer3" /\ pc' = "nudge" /\ UNCHANGED <<turns, failed, mixed, account>>
  /\ \/ /\ Position(messages, FullKinds) = 0 /\ Cardinality(ToolPairs(messages)) > FullKeepRecentPairs
        /\ RegionEnd(messages) > 1 /\ Layer3(RegionEnd(messages))
     \/ UNCHANGED messages

Next == ToolTurn \/ Nudge \/ MaybeCompact \/ MaybeFullCompact
Spec == Init /\ [][Next]_vars

-----------------------------------------------------------------------------
MessageType ==
  [kind : {"task", "text", "use", "result", "summary", "full", "echo", "dead"}, turn : 0 .. MaxTurns,
   reads : SUBSET Turn, lines : Seq(Turn)]

TypeOK ==
  /\ turns \in 0 .. MaxTurns /\ failed \subseteq Turn /\ mixed \subseteq failed
  /\ garbled \subseteq failed /\ swallowed \subseteq mixed
  /\ mistaken \in BOOLEAN /\ overwritten \subseteq Turn
  /\ pc \in {"turn", "layer2", "layer3", "nudge"}
  /\ messages \in Seq(MessageType) /\ messages # <<>> /\ messages[1] = Task

\* Whether something of turn n can be read off a conversation, whether all of it can,
\* and whether newer dead ends fill the block.
Reads(s, n) == \E i \in DOMAIN s : n \in s[i].reads
TellsAll(s, n) == \E i \in DOMAIN s : s[i].kind # "dead" /\ n \in s[i].reads
DrivesOut(m, n) ==
  m.kind = "dead" /\ Len(m.lines) = MaxDeadEnds /\ \A k \in DOMAIN m.lines : m.lines[k] > n
DrivenOut(s, n) == \E i \in DOMAIN s : DrivesOut(s[i], n)

\* However the two layers follow one another, every turn can still be read: all of it,
\* verbatim or in a summary; or, once a failed turn is blanked, its first failure among
\* the dead ends (compaction.py:689, :917).  What is lost: a failure that newer ones drove
\* out of the block or that the model's reply left out; what else a failed turn brought,
\* which layer 2 blanks and tells nobody (:684); and, when a full summary repeats the
\* banner its prompt names (:176), what it told, for the dead ends are written over it
\* (:694-704), and from then on the order of their lines.
NothingForgotten ==
  \A n \in 1 .. turns :
    /\ \/ Reads(messages, n) \/ n \in garbled \/ n \in overwritten
       \/ n \in failed /\ (mistaken \/ DrivenOut(messages, n))
    /\ n \in mixed => TellsAll(messages, n) \/ n \in swallowed \/ n \in overwritten

\* "Failures survive via the dead-ends block, not via raw text" (compaction.py:681).
FailuresSurvive == \A n \in failed : Reads(messages, n) \/ DrivenOut(messages, n)

\* One block of dead ends, and one full summary.
Unique(s, kinds) == \A i, j \in DOMAIN s : s[i].kind \in kinds /\ s[j].kind \in kinds => i = j
Single(s) == Unique(s, {"dead"}) /\ Unique(s, FullKinds)

\* "the conversation's tool_use <-> tool_result adjacency is preserved" (compaction.py:7-8),
\* the last turns are verbatim, and there is one task and, until a summary was taken for
\* the dead ends, one full summary and one block of dead ends.
WellFormed ==
  /\ \A i \in DOMAIN messages :
       /\ messages[i].kind = "use" => i < Len(messages) /\ messages[i + 1].kind = "result"
                                      /\ messages[i + 1].turn = messages[i].turn
       /\ messages[i].kind = "result" => messages[i - 1].kind = "use"
       /\ messages[i].kind = "result" /\ turns - messages[i].turn < KeepRecentPairs => ~Compacted(messages[i])
  /\ ~mistaken => Single(messages)

\* The two layers together lose neither an outcome nor the form of the conversation.
HistoryStands == NothingForgotten /\ WellFormed

\* The inductive invariant, part by part, of a conversation s after `now` turns of
\* which those in `bad` failed.  A use is followed by its result, in the order of turns.
Shaped(s) ==
  /\ s \in Seq(MessageType) /\ s # <<>> /\ s[1] = Task
  /\ \A i \in DOMAIN s : s[i].kind = "use" =>
       i < Len(s) /\ s[i + 1].kind = "result" /\ s[i + 1].turn = s[i].turn
  /\ \A i \in DOMAIN s : s[i].kind = "result" => i > 1 /\ s[i - 1].kind = "use"
  /\ \A i, j \in DOMAIN s :
       i < j /\ s[i].kind = "result" /\ s[j].kind = "result" => s[i].turn < s[j].turn

\* A result tells its own turn or nothing, and the last ones tell it.
Verbatim(s, now) ==
  \A i \in DOMAIN s : s[i].kind = "result" =>
    /\ s[i].turn \in 1 .. now /\ s[i].reads \subseteq {s[i].turn}
    /\ now < s[i].turn + KeepRecentPairs => ~Compacted(s[i])

\* The dead ends are failed turns, in their order, and of results that are blank by now.
Ascending(l) == \A i, j \in DOMAIN l : i < j => l[i] < l[j]
Entry(m, s, bad) ==
  /\ Len(m.lines) <= MaxDeadEnds /\ Ascending(m.lines)
  /\ m.reads = {m.lines[k] : k \in DOMAIN m.lines} /\ m.reads \subseteq bad
  /\ \A j \in DOMAIN s : s[j].kind = "result" /\ ~Compacted(s[j]) => \A k \in DOMAIN m.lines : m.lines[k] < s[j].turn
Listed(s, bad) == \A i \in DOMAIN s : s[i].kind = "dead" => Entry(s[i], s, bad)

\* Every turn can be read off s, but for those in `lost` and what newer dead ends drove out.
Remembered(s, now, bad, lost) ==
  \A n \in 1 .. now : n \in lost \/ Reads(s, n) \/ (n \in bad /\ DrivenOut(s, n))

History(s, now, bad, lost) ==
  Shaped(s) /\ Single(s) /\ Verbatim(s, now) /\ Listed(s, bad) /\ Remembered(s, now, bad, lost)

\* What is left of it whatever was mistaken for what: all of every turn can be read, but
\* for those in `partly` and those in `lost`.
Remnant(s, now, partly, lost) ==
  /\ Shaped(s) /\ Verbatim(s, now)
  /\ \A n \in 1 .. now : n \in partly \/ n \in lost \/ TellsAll(s, n)
IInv ==
  /\ TypeOK /\ failed \subseteq 1 .. turns
  /\ ~mistaken => History(messages, turns, failed, garbled)
  /\ Remnant(messages, turns, (failed \ mixed) \cup swallowed, overwritten)
=============================================================================

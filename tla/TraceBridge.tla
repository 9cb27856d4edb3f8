----------------------------- MODULE TraceBridge -----------------------------
(***************************************************************************)
(* From a finished trace to access records (trace_bridge.py).  A session    *)
(* runs the turn loop once per line of input (`repl`, with markers around   *)
(* each line, or `server`, without).  Every run numbers its calls from 0    *)
(* and records calls before results.  When the session is over the bridge   *)
(* splits the trace at the markers, pairs results with calls, derives how   *)
(* helpful each file was, appends rows that are not there yet, adds one     *)
(* rollup row, writes the other artifacts and commits.  It may be killed    *)
(* anywhere and is safe to run again.                                       *)
(*                                                                         *)
(* A score is the rank of the code's five helpfulness constants.  One       *)
(* access-tracked namespace, one day.                                       *)
(***************************************************************************)
EXTENDS Naturals, Sequences, FiniteSets

CONSTANTS
  Request,   \* tool and file of a call
  Recalled,  \* files a recall may return
  Kind,      \* subset of {"repl", "server"}
  MaxWork,   \* calls, searches and recalls of a session
  MaxLines,  \* lines of input
  MaxDeaths  \* kills of the bridge

NeverUsed == 1        \* HELPFULNESS_READ_NEVER_USED    0.15
RecallUnused == 2     \* HELPFULNESS_RECALL_NEVER_USED  0.2
Cited == 3            \* HELPFULNESS_READ_THEN_CITED    0.6
RecallUseful == 4     \* HELPFULNESS_RECALL_LED_TO_SUCCESS 0.7
Edited == 5           \* HELPFULNESS_READ_THEN_EDIT     0.85

VARIABLES
  kind, lines, inLine,  \* the driver: markers or not, lines begun, one running
  trace,     \* events: "start", "end", "search", call and result records
  recalls,   \* recall events of the memory: file and time
  batch,     \* calls of the running turn that have no result yet
  toolSeq,   \* the loop's own numbering, from 0 in every run
  place,     \* "session", then where the bridge is
  segment,   \* the segment it works on
  rows,      \* ACCESS.jsonl: file and score of this session, in order
  rollups,   \* _session-rollups.jsonl: files counted in each row
  saved,     \* rows in the last commit
  deaths,    \* kills so far
  forgot     \* the recalls of a killed process are gone

vars == <<kind, lines, inLine, trace, recalls, batch, toolSeq, place, segment,
          rows, rollups, saved, deaths, forgot>>
session == <<kind, lines, inLine, trace, recalls, batch, toolSeq>>
files == <<rows, rollups, saved>>

Start == [k |-> "start"]
End == [k |-> "end"]
Search == [k |-> "search"]
IsCall(e) == e.k = "call"
Numbered(evs, a, b) == {i \in a..b : evs[i].k \in {"call", "search"}}
Work == Cardinality(Numbered(trace, 1, Len(trace))) + Len(recalls)

Init ==
  /\ kind \in Kind /\ lines = 0 /\ inLine = FALSE
  /\ trace = <<>> /\ recalls = <<>> /\ batch = <<>> /\ toolSeq = 0
  /\ place = "session" /\ segment = 0
  /\ rows = <<>> /\ rollups = <<>> /\ saved = <<>> /\ deaths = 0 /\ forgot = FALSE

-----------------------------------------------------------------------------
\* The session: loop.py and its drivers, as far as the trace shows them.

BeginLine ==
  /\ place = "session" /\ ~inLine /\ lines < MaxLines
  /\ lines' = lines + 1 /\ inLine' = TRUE /\ toolSeq' = 0
  /\ trace' = IF kind = "repl" THEN Append(trace, Start) ELSE trace
  /\ UNCHANGED <<kind, recalls, batch, place, segment, files, deaths, forgot>>

\* A response with calls, all of them traced before any runs; a search of the
\* provider in the same response is traced first, wherever it stood.
Respond ==
  /\ inLine /\ batch = <<>>
  /\ \E n \in 1..2, search \in BOOLEAN :
       /\ Work + n + (IF search THEN 1 ELSE 0) <= MaxWork
       /\ \E c \in [1..n -> Request] :
            \E o \in IF search THEN {0, 1} ELSE {0} :
              LET made == [i \in 1..n |-> [k |-> "call", tool |-> c[i][1], file |-> c[i][2],
                                           seq |-> toolSeq + o + i - 1]]
              IN /\ batch' = made
                 /\ trace' = trace \o (IF search THEN <<Search>> ELSE <<>>) \o made
       /\ toolSeq' = toolSeq + n + (IF search THEN 1 ELSE 0)
  /\ UNCHANGED <<kind, lines, inLine, recalls, place, segment, files, deaths, forgot>>

\* The batch runs; its results are traced together, in its order.  `of` is the
\* place of the call in the trace, which the bridge does not see.
Answer ==
  /\ inLine /\ batch # <<>> /\ batch' = <<>>
  /\ \E bad \in [DOMAIN batch -> BOOLEAN] :
       trace' = trace \o [i \in DOMAIN batch |->
                            [k |-> "result", tool |-> batch[i].tool, seq |-> batch[i].seq,
                             err |-> bad[i], of |-> Len(trace) - Len(batch) + i]]
  /\ UNCHANGED <<kind, lines, inLine, recalls, toolSeq, place, segment, files, deaths, forgot>>

\* A call to the memory, whose events are kept beside the trace.
Recall ==
  /\ inLine /\ batch = <<>> /\ Work < MaxWork
  /\ \E f \in Recalled : recalls' = Append(recalls, [file |-> f, time |-> Len(trace)])
  /\ UNCHANGED <<kind, lines, inLine, trace, batch, toolSeq, place, segment, files, deaths, forgot>>

\* The run returns, with every call answered, or with a last batch that was cut
\* short or over budget and never ran.
EndLine ==
  /\ inLine /\ inLine' = FALSE /\ batch' = <<>>
  /\ trace' = IF kind = "repl" THEN Append(trace, End) ELSE trace
  /\ UNCHANGED <<kind, lines, recalls, toolSeq, place, segment, files, deaths, forgot>>

\* The user interrupts: no end marker, and no further line.
Interrupt ==
  /\ inLine /\ kind = "repl" /\ inLine' = FALSE /\ batch' = <<>> /\ lines' = MaxLines
  /\ UNCHANGED <<kind, trace, recalls, toolSeq, place, segment, files, deaths, forgot>>

-----------------------------------------------------------------------------
\* Pure functions of the bridge.

\* _split_subsessions: first and last event of each marked segment.  A start
\* without an end is forgotten at the next start.
Marked(g, e, i) ==
  IF e.k = "start" THEN [g EXCEPT !.from = i]
  ELSE IF e.k = "end" /\ g.from # 0 THEN [done |-> Append(g.done, <<g.from, i>>), from |-> 0]
  ELSE g
Split(evs) ==
  LET Go[i \in 0..Len(evs)] ==
        IF i = 0 THEN [done |-> <<>>, from |-> 0] ELSE Marked(Go[i - 1], evs[i], i)
  IN Go
SegmentSeq(evs) == Split(evs)[Len(evs)].done

\* Faulty variant: a search of the provider takes no number.
AfterSearchUncounted(own) == own
AfterSearch(own) == own + 1

\* _extract_tool_calls: the place of the result's call among those that wait.  It has the
\* result's number, or else is the first of the same name; 0 if there is none.
\* Numbers here run through the events given.
Lowest(D) == CHOOSE d \in D : \A e \in D : d <= e
Match(waiting, r) ==
  LET same == {i \in DOMAIN waiting : waiting[i].own = r.seq}
      alike == {i \in DOMAIN waiting : waiting[i].tool = r.tool}
  IN IF same # {} THEN Lowest(same) ELSE IF alike # {} THEN Lowest(alike) ELSE 0

Answered(g, r, p) ==
  [g EXCEPT !.waiting = [i \in 1..Len(@) - 1 |-> IF i < p THEN @[i] ELSE @[i + 1]],
            !.calls = [j \in DOMAIN @ |-> IF @[j].own = g.waiting[p].own
                                             THEN [@[j] EXCEPT !.err = r.err] ELSE @[j]]]
Paired(g, e, i) ==
  LET new == [own |-> g.own, tool |-> e.tool, file |-> e.file, time |-> i, err |-> FALSE]
  IN CASE e.k = "call" -> [calls |-> Append(g.calls, new), waiting |-> Append(g.waiting, new),
                           own |-> g.own + 1]
       [] e.k = "search" -> [g EXCEPT !.own = AfterSearch(@)]
       [] e.k = "result" /\ Match(g.waiting, e) # 0 -> Answered(g, e, Match(g.waiting, e))
       [] OTHER -> g
Pairing(evs) ==
  LET Go[i \in 0..Len(evs)] ==
        IF i = 0 THEN [calls |-> <<>>, waiting |-> <<>>, own |-> 0] ELSE Paired(Go[i - 1], evs[i], i)
  IN Go
Extract(evs) == Pairing(evs)[Len(evs)].calls

\* _derive_read_helpfulness
ReadScore(calls, i) ==
  LET later == {j \in DOMAIN calls : j > i /\ calls[j].file = calls[i].file}
  IN IF \E j \in later : calls[j].tool = "edit_file" THEN Edited
     ELSE IF later # {} THEN Cited ELSE NeverUsed

\* _derive_recall_helpfulness; time is that of the whole trace.
RecallScore(calls, offset, r) ==
  IF \E j \in DOMAIN calls : calls[j].tool = "edit_file" /\ ~calls[j].err
                             /\ calls[j].time + offset > r.time
  THEN RecallUseful ELSE RecallUnused

\* _access_observations: reads that did not fail, then every recall of the session.
Reads(calls) ==
  LET Go[i \in 0..Len(calls)] ==
        IF i = 0 THEN <<>>
        ELSE IF calls[i].tool = "read_file" /\ ~calls[i].err
          THEN Append(Go[i - 1], [file |-> calls[i].file, score |-> ReadScore(calls, i)])
        ELSE Go[i - 1]
  IN Go
Observations(evs, offset, recalled) ==
  LET calls == Extract(evs)
  IN Reads(calls)[Len(calls)]
     \o [i \in DOMAIN recalled |-> [file |-> recalled[i].file,
                                    score |-> RecallScore(calls, offset, recalled[i])]]

\* _sidecar_dedupe_entries: one row per file and session.
Known(rs) == {rs[i].file : i \in DOMAIN rs}
Unseen(present, obs) ==
  LET Go[i \in 0..Len(obs)] ==
        IF i = 0 THEN <<>>
        ELSE IF obs[i].file \in present \cup Known(Go[i - 1]) THEN Go[i - 1]
        ELSE Append(Go[i - 1], obs[i])
  IN Go
\* Faulty variant: the rows of the file are not looked at.
FreshInBatch(present, obs) == Unseen({}, obs)[Len(obs)]
Fresh(present, obs) == Unseen(Known(present), obs)[Len(obs)]

Segmented(evs) == SegmentSeq(evs) # <<>>
Part(evs, i) ==
  IF Segmented(evs) THEN LET s == SegmentSeq(evs)[i] IN SubSeq(evs, s[1], s[2]) ELSE evs
Offset(evs, i) == IF Segmented(evs) THEN SegmentSeq(evs)[i][1] - 1 ELSE 0
Parts(evs) == IF Segmented(evs) THEN Len(SegmentSeq(evs)) ELSE 1
PartObs(evs, recalled, i) == Observations(Part(evs, i), Offset(evs, i), recalled)

-----------------------------------------------------------------------------
\* run_trace_bridge: segments first, then the artifacts of the whole session;
\* without segments the artifacts come first.

Begin ==
  /\ place' = IF Segmented(trace) THEN "rows" ELSE "artifacts"
  /\ segment' = 1
  /\ UNCHANGED <<kind, lines, inLine, trace, batch, toolSeq, files, deaths>>

RunBridge ==
  /\ place = "session" /\ ~inLine /\ lines > 0 /\ Begin /\ UNCHANGED <<recalls, forgot>>

\* Another process has the trace, and not the recall events of the dead one.
Rerun ==
  /\ place = "dead" /\ Begin
  /\ \/ UNCHANGED <<recalls, forgot>>
     \/ recalls' = <<>> /\ forgot' = (forgot \/ recalls # <<>>)

AppendRow ==
  LET fresh == Fresh(rows, PartObs(trace, recalls, segment))
  IN /\ place = "rows" /\ fresh # <<>> /\ rows' = Append(rows, Head(fresh))
     /\ UNCHANGED <<session, place, segment, rollups, saved, deaths, forgot>>

RowsWritten ==
  /\ place = "rows" /\ Fresh(rows, PartObs(trace, recalls, segment)) = <<>>
  /\ place' = "rollup"
  /\ UNCHANGED <<session, segment, files, deaths, forgot>>

\* _emit_session_rollups: a row with the files of this part, unless there is one.
\* Faulty variant: without the test of _rollup_already_recorded.
RollupAlways(obs) == obs # <<>>
NeedsRollup(obs) == obs # <<>> /\ rollups = <<>>
Rollup ==
  LET obs == PartObs(trace, recalls, segment)
  IN /\ place = "rollup"
     /\ rollups' = IF NeedsRollup(obs) THEN Append(rollups, Cardinality(Known(obs))) ELSE rollups
     /\ segment' = IF segment < Parts(trace) THEN segment + 1 ELSE segment
     /\ place' = IF segment < Parts(trace) THEN "rows" ELSE IF Segmented(trace) THEN "artifacts" ELSE "commit"
     /\ UNCHANGED <<session, rows, saved, deaths, forgot>>

\* Summary, reflection, spans and candidates are written over; the links are LinkGraph's.
Artifacts ==
  /\ place = "artifacts" /\ place' = IF Segmented(trace) THEN "commit" ELSE "rows"
  /\ UNCHANGED <<session, segment, files, deaths, forgot>>

\* _access_paths: the access file is committed when the trace has a read or a recall.
Touched == recalls # <<>> \/ \E i \in DOMAIN trace : IsCall(trace[i]) /\ trace[i].tool = "read_file"
Commit ==
  /\ place = "commit" /\ place' = "done"
  /\ \/ saved' = IF Touched THEN rows ELSE saved
     \/ UNCHANGED saved
  /\ UNCHANGED <<session, segment, rows, rollups, deaths, forgot>>

Die ==
  /\ place \notin {"session", "dead", "done"} /\ deaths < MaxDeaths
  /\ place' = "dead" /\ deaths' = deaths + 1
  /\ UNCHANGED <<session, segment, files, forgot>>

Next == \/ BeginLine \/ Respond \/ Answer \/ Recall \/ EndLine \/ Interrupt
        \/ RunBridge \/ Rerun \/ AppendRow \/ RowsWritten \/ Rollup \/ Artifacts \/ Commit \/ Die
Spec == Init /\ [][Next]_vars

-----------------------------------------------------------------------------
Tool == {q[1] : q \in Request}
File == {q[2] : q \in Request}
Event ==
  [k : {"start", "end", "search"}]
  \cup [k : {"call"}, tool : Tool, file : File, seq : Nat]
  \cup [k : {"result"}, tool : Tool, seq : Nat, err : BOOLEAN, of : Nat]
Row == [file : Recalled \cup File, score : NeverUsed..Edited]

TypeOK ==
  /\ kind \in {"repl", "server"} /\ lines \in 0..MaxLines /\ inLine \in BOOLEAN
  /\ trace \in Seq(Event) /\ recalls \in Seq([file : Recalled, time : Nat]) /\ Work <= MaxWork
  /\ batch \in Seq(Event) /\ toolSeq \in Nat
  /\ place \in {"session", "rows", "rollup", "artifacts", "commit", "done", "dead"} /\ segment \in Nat
  /\ rows \in Seq(Row) /\ saved \in Seq(Row) /\ rollups \in Seq(Nat) /\ Len(rollups) <= 1
  /\ deaths \in 0..MaxDeaths /\ forgot \in BOOLEAN

\* A result is credited to the call it answers, though the trace and the loop
\* number calls differently (searches, several runs), as long as every call of
\* the part was answered (trace_bridge.py:395-450).
ResultOf(t) == {trace[i] : i \in {j \in DOMAIN trace : trace[j].k = "result" /\ trace[j].of = t}}
PairedRight(i) ==
  LET calls == Extract(Part(trace, i))
      times == {calls[j].time + Offset(trace, i) : j \in DOMAIN calls}
  IN (\A t \in times : ResultOf(t) # {}) =>
       \A j \in DOMAIN calls : \A r \in ResultOf(calls[j].time + Offset(trace, i)) : calls[j].err = r.err
PairingExact == place = "rows" => \A i \in 1..Parts(trace) : PairedRight(i)

\* Killed anywhere and run again, the bridge leaves the rows and the one rollup
\* that a single run leaves, and what it commits is all of them
\* (trace_bridge.py:87-240, 1253-1315).
RowsAfter(evs, recalled) ==
  LET Go[i \in 0..Parts(evs)] ==
        IF i = 0 THEN <<>> ELSE Go[i - 1] \o Fresh(Go[i - 1], PartObs(evs, recalled, i))
  IN Go
SingleRun == RowsAfter(trace, recalls)[Parts(trace)]
RerunSafe ==
  /\ \A i, j \in DOMAIN rows : rows[i].file = rows[j].file => i = j
  /\ place = "done" /\ ~forgot => rows = SingleRun /\ saved \in {<<>>, rows}

\* Both at once.
BridgeStands == PairingExact /\ RerunSafe

\* "Recall events get higher helpfulness when followed by a successful edit/write"
\* (trace_bridge.py:482), in whatever line of the session.
RecallCredited ==
  place = "done" => \A i \in DOMAIN recalls :
    (\E j \in DOMAIN trace : /\ trace[j].k = "result" /\ trace[j].tool = "edit_file" /\ ~trace[j].err
                             /\ trace[j].of > recalls[i].time)
    => \E n \in DOMAIN rows : rows[n].file = recalls[i].file /\ rows[n].score >= RecallUseful

-----------------------------------------------------------------------------
\* The inductive invariant.  A result stands behind its call in the same line,
\* results are in the order of their calls, and no call has a higher number than
\* there are calls and searches before it since the last start.
From(evs, a, b) == (a = 1 \/ (a <= b /\ evs[a].k = "start")) /\ \A i \in a + 1..b : evs[i].k # "start"
InOrder(evs) ==
  /\ \A i \in DOMAIN evs : evs[i].k = "result" =>
       LET t == evs[i].of
       IN /\ t \in 1..i - 1 /\ evs[t].k = "call" /\ evs[t].tool = evs[i].tool /\ evs[t].seq = evs[i].seq
          /\ \A u \in t..i : evs[u].k \notin {"start", "end"}
  /\ \A i, j \in DOMAIN evs : i < j /\ evs[i].k = "result" /\ evs[j].k = "result" => evs[i].of < evs[j].of
  /\ \A t \in DOMAIN evs : evs[t].k = "call" =>
       \A a \in 1..t : From(evs, a, t) => evs[t].seq <= Cardinality(Numbered(evs, a, t - 1))
Traced == InOrder(trace)

\* The batch is the end of the trace and has no results; the loop's number is
\* never ahead of the trace.
Counted(evs, n) ==
  \A a \in 1..Len(evs) + 1 : From(evs, a, Len(evs)) => n <= Cardinality(Numbered(evs, a, Len(evs)))
Waiting ==
  /\ batch # <<>> => inLine
  /\ Len(batch) <= Len(trace)
  /\ \A i \in DOMAIN batch : batch[i].k = "call" /\ trace[Len(trace) - Len(batch) + i] = batch[i]
  /\ \A i \in DOMAIN trace : trace[i].k = "result" => trace[i].of <= Len(trace) - Len(batch)
  /\ inLine => Counted(trace, toolSeq)

\* Markers: none of a server; otherwise one at the beginning, and each further
\* one behind an end.
Markers ==
  /\ kind = "server" => \A i \in DOMAIN trace : trace[i].k \notin {"start", "end"}
  /\ kind = "repl" =>
       /\ trace # <<>> => trace[1].k = "start"
       /\ \A i \in DOMAIN trace : i > 1 /\ trace[i].k = "start" => trace[i - 1].k = "end"
       /\ inLine => trace # <<>>
       /\ ~inLine /\ lines < MaxLines /\ trace # <<>> => trace[Len(trace)].k = "end"

\* What the bridge has done of what a single run does: the rows are the first of
\* its rows, and as many as the place says.
Begun(n) == Len(RowsAfter(trace, recalls)[n]) <= Len(rows)
Progress ==
  /\ place = "session" => rows = <<>> /\ rollups = <<>>
  /\ place # "session" => ~inLine /\ segment \in 1..Parts(trace)
  /\ place # "done" => saved = <<>>
  /\ ~forgot =>
       /\ Len(rows) <= Len(SingleRun) /\ \A i \in DOMAIN rows : rows[i] = SingleRun[i]
       /\ place = "rows" => Begun(segment - 1)
       /\ place = "rollup" => Begun(segment)
       /\ (place = "artifacts" /\ Segmented(trace)) \/ place \in {"commit", "done"} => Begun(Parts(trace))

IInv == TypeOK /\ Traced /\ Waiting /\ Markers /\ RerunSafe /\ Progress
=============================================================================

------------------------------ MODULE SessionRows ------------------------------
(***************************************************************************)
(* The rows that the sessions of one workspace leave in the session store,   *)
(* and two of their readers.  A session that starts is told of the one before *)
(* it (EngramMemory._previous_session_block).  `harness drift` (analytics.py,  *)
(* cmd_drift.py) reads the table in pages, while sessions begin, end and are   *)
(* relocated, compares two windows of time and keeps a file of alerts.  The    *)
(* clock counts half days; a mean is a pair <<sum, number>>.  What the same    *)
(* calls left in the trace is kept beside the row, because the reflection of a *)
(* session is written from the trace and must agree with it.                   *)
(***************************************************************************)
EXTENDS Integers, Sequences, FiniteSets

CONSTANTS
  Session,            \* positive numbers, the order of their rows on disk
  Window, Baseline,   \* lengths of the two windows
  Recency,            \* _PREVIOUS_SESSION_RECENCY
  ThresholdPct, MinBaselineSessions, MinBaselineRollups,
  PageSize, MaxTime, MaxCalls, MaxEvents

VARIABLES
  now,
  row,         \* the row of each session, and is it in the workspace or was it moved to another
  hint,        \* the session that each one was told of: 0 for none, -1 if not started yet
  log, trace,  \* the calls its process has noted, and those in its trace file
  rollups,     \* <<session, date, helpfulness>>: the lines of _session-rollups.jsonl
  alertsFile,  \* the metrics in _drift_alerts.md, {} if there is none
  pc, offset, loaded, since, report, failed,   \* the run of harness drift
  everywhere,  \* does it read the rows of all workspaces
  moved,       \* history: has a row left what it reads since it began
  events
sessions == <<row, hint, log, trace, rollups>>
run == <<pc, offset, loaded, since, report, failed, everywhere>>
vars == <<now, sessions, alertsFile, run, moved, events>>

NoCalls == [calls |-> 0, errors |-> 0]
NewRow(status, created) ==
  [status |-> status, created |-> created, ended |-> -1, calls |-> 0, errors |-> 0, maxed |-> FALSE,
   here |-> TRUE]
NoRow == NewRow("none", 0)
SessionRecord == [status : {"none", "running", "paused", "completed", "stopped", "error"},
                  created : 0 .. MaxTime, ended : -1 .. MaxTime, calls : Nat, errors : Nat, maxed : BOOLEAN,
                  here : BOOLEAN]
Stats == [calls : 0 .. MaxCalls, errors : Nat,
          end : {"open", "resumed", "raised", "final", "max_turns", "stopped"}]
NoTrace == [calls |-> 0, errors |-> 0, end |-> "open"]

Init ==
  /\ now = 0 /\ row = [s \in Session |-> NoRow] /\ hint = [s \in Session |-> -1] /\ log = [s \in Session |-> NoCalls]
  /\ trace = [s \in Session |-> NoTrace] /\ rollups = {} /\ alertsFile = {}
  /\ pc = "idle" /\ offset = 0 /\ loaded = <<>> /\ since = {} /\ report = {} /\ failed = FALSE
  /\ everywhere = FALSE /\ moved = FALSE /\ events = 0

-----------------------------------------------------------------------------
(* The sessions, in other processes. *)
Others == events < MaxEvents /\ events' = events + 1 /\ UNCHANGED <<alertsFile, run>>
Alive(s) == trace[s].end # "raised"
OfRow(s, status) == row[s].status = status /\ Alive(s) /\ Others /\ UNCHANGED <<now, moved>>
Resumed(s) == trace[s].end = "resumed"

Tick == now < MaxTime /\ now' = now + 1 /\ Others /\ UNCHANGED <<sessions, moved>>

Begin(s) ==
  /\ OfRow(s, "none") /\ row' = [row EXCEPT ![s] = NewRow("running", now)]
  /\ UNCHANGED <<hint, log, trace, rollups>>

\* The table that the run reads, newest first: of one workspace, if it was asked so.
Listed == {s \in Session : row[s].status # "none" /\ (everywhere \/ row[s].here)}
Newer(a, b) == row[a].created > row[b].created \/ (row[a].created = row[b].created /\ a < b)
Place(s) == 1 + Cardinality({t \in Listed : Newer(t, s)})
Table == [i \in 1 .. Cardinality(Listed) |-> CHOOSE s \in Listed : Place(s) = i]

\* The row that the provider of the memory object answers with, if the workspace has any.
Here == {s \in Session : row[s].status # "none" /\ row[s].here}
MostRecent == CHOOSE s \in Here : \A t \in Here : ~Newer(t, s)
\* start_session, in a session whose row is there by now.  The row of the session itself
\* would be left out, but the two are known by different ids.
Bootstrap(s) ==
  /\ OfRow(s, "running") /\ hint[s] = -1 /\ ~Resumed(s)
  /\ LET none == Here = {} \/ (row[MostRecent].ended # -1 /\ now - row[MostRecent].ended > Recency)
     IN hint' = [hint EXCEPT ![s] = IF none THEN 0 ELSE MostRecent]
  /\ UNCHANGED <<row, log, trace, rollups>>

\* SessionStateTrackerSink and the tracer see the same call; a search the provider runs
\* by itself is only an event of the trace.
Call(s) ==
  /\ OfRow(s, "running") /\ (hint[s] # -1 \/ Resumed(s)) /\ trace[s].calls < MaxCalls
  /\ \E e \in {0, 1}, native \in BOOLEAN :
       /\ native => e = 0
       /\ trace' = [trace EXCEPT ![s].calls = @ + 1, ![s].errors = @ + e]
       /\ log' = IF native \/ Resumed(s) THEN log ELSE [log EXCEPT ![s] = [calls |-> @.calls + 1, errors |-> @.errors + e]]
  /\ UNCHANGED <<row, hint, rollups>>

\* mark_paused: the process ends, and its log with it.
Pause(s) ==
  /\ OfRow(s, "running") /\ row' = [row EXCEPT ![s].status = "paused"]
  /\ log' = [log EXCEPT ![s] = NoCalls] /\ UNCHANGED <<hint, trace, rollups>>

\* mark_resumed; the resumed session has no tracker, so that a Call is not noted.
Resume(s) ==
  /\ OfRow(s, "paused") /\ row' = [row EXCEPT ![s].status = "running"]
  /\ trace' = [trace EXCEPT ![s].end = "resumed"] /\ UNCHANGED <<hint, log, rollups>>

\* record_completed_session, with the bridge's line in the rollups.
Complete(s) ==
  /\ OfRow(s, "running")
  /\ \E how \in {"final", "max_turns", "stopped"}, help \in {0, 10} :
       LET counted == IF Resumed(s) THEN NoCalls ELSE log[s]
       IN /\ row' = [row EXCEPT ![s] =
               [status |-> IF how = "stopped" THEN "stopped" ELSE "completed", created |-> @.created, ended |-> now,
                calls |-> counted.calls, errors |-> counted.errors, maxed |-> how = "max_turns", here |-> @.here]]
          /\ trace' = [trace EXCEPT ![s].end = how]
          /\ rollups' = rollups \cup {<<s, now \div 2, help>>}
  /\ UNCHANGED <<hint, log>>

\* A session that raises: the server writes "error", the command line leaves the row.
Raise(s) ==
  /\ OfRow(s, "running") /\ \E status \in {"error", "running"} : row' = [row EXCEPT ![s].status = status, ![s].ended = IF status = "error" THEN now ELSE @]
  /\ trace' = [trace EXCEPT ![s].end = "raised"] /\ UNCHANGED <<hint, log, rollups>>

\* register_relocated_session: a row as old as the pause of the checkpoint it came with, or
\* the row that is there already, whatever became of the session since it was paused: it
\* keeps its date, is paused again and goes with the checkpoint to another workspace, or
\* comes from there.
Relocate(s) ==
  /\ OfRow(s, "none")
  /\ \E t \in 0 .. now : row' = [row EXCEPT ![s] = NewRow("paused", t)]
  /\ UNCHANGED <<hint, log, trace, rollups>>
RelocateAgain(s) ==
  /\ row[s].status # "none" /\ (row[s].status = "running" => ~Alive(s)) /\ Others /\ UNCHANGED now
  /\ \E here \in BOOLEAN :
       /\ row' = [row EXCEPT ![s].status = "paused", ![s].here = here]
       /\ moved' = (moved \/ (pc = "page" /\ s \in Listed /\ ~everywhere /\ ~here))
  /\ log' = [log EXCEPT ![s] = NoCalls] /\ trace' = [trace EXCEPT ![s].end = "open"]
  /\ UNCHANGED <<hint, rollups>>

-----------------------------------------------------------------------------
(* What the report is made of. *)

\* classify_outcome_quality of a row, and _render_reflection's of the trace.
Dense(calls, errors) == errors * 4 > calls
Classify(r) ==
  CASE r.status = "error" -> "high error rate"
    [] r.status # "error" /\ r.maxed -> "ran out of turns"
    [] r.status # "error" /\ ~r.maxed ->
         IF r.calls > 0 /\ Dense(r.calls, r.errors) THEN "high error rate" ELSE "completed"
Reflected(t) ==
  CASE t.end = "max_turns" -> "ran out of turns"
    [] t.end # "max_turns" -> IF Dense(t.calls, t.errors) THEN "high error rate" ELSE "completed"

Done(r) == r.status \in {"completed", "error", "stopped"}
InWindow(r, start, end) == start <= r.created /\ r.created < end
Mean(marks) == <<Cardinality({i \in DOMAIN marks : marks[i]}), Len(marks)>>
Helpfulness(start, end) ==
  LET in == {u \in rollups : start \div 2 <= u[2] /\ u[2] < end \div 2}
  IN <<Cardinality({u \in in : u[3] = 10}), Cardinality(in)>>

Metrics(rows, start, end) ==
  LET in == SelectSeq([i \in DOMAIN rows |-> rows[i].row], LAMBDA r : Done(r) /\ InWindow(r, start, end))
  IN [sessions |-> Len(in),
      errorRate |-> Mean([i \in DOMAIN in |-> in[i].status = "error"]),
      lowQuality |-> Mean([i \in DOMAIN in |-> Classify(in[i]) # "completed"]),
      helpfulness |-> Helpfulness(start, end)]

Metric == {"errorRate", "lowQuality", "helpfulness"}
Empty(m) == m[2] = 0
\* The change in percent is at least the threshold, in the bad direction; the mean of
\* nothing is 0, and anything is infinitely more than 0.
Zero(m) == m[1] = 0
Up(cur, base) ==
  IF Zero(base) THEN ~Zero(cur)
  ELSE ~Empty(cur) /\ 100 * (cur[1] * base[2] - base[1] * cur[2]) >= ThresholdPct * base[1] * cur[2]
Down(cur, base) ==
  /\ ~Zero(base)
  /\ Zero(cur) \/ 100 * (base[1] * cur[2] - cur[1] * base[2]) >= ThresholdPct * base[1] * cur[2]

Alerts(cur, base) ==
  {m \in Metric :
     /\ base.sessions >= MinBaselineSessions
     /\ m = "helpfulness" => base.helpfulness[2] >= MinBaselineRollups
     /\ IF m = "helpfulness" THEN Down(cur[m], base[m]) ELSE Up(cur[m], base[m])}

CurrentOf(rows, t) == Metrics(rows, t - Window, t)
BaselineOf(rows, t) == Metrics(rows, t - Window - Baseline, t - Window)

-----------------------------------------------------------------------------
(* The run. *)
Start ==
  /\ pc = "idle" /\ events < MaxEvents /\ events' = events + 1
  /\ pc' = "page" /\ offset' = 0 /\ loaded' = <<>> /\ everywhere' \in BOOLEAN
  /\ report' = {} /\ failed' = FALSE /\ moved' = FALSE
  /\ UNCHANGED <<now, sessions, alertsFile>> /\ since' = {s \in Listed' : Done(row[s])}

\* Faulty variant: the first page is all that is read.
MoreOnce(page) == FALSE
\* Another page is read after a full one.
More(page) == Len(page) = PageSize

LoadPage ==
  LET page == SubSeq(Table, offset + 1, IF offset + PageSize < Len(Table) THEN offset + PageSize ELSE Len(Table))
      rows == [i \in DOMAIN page |-> [session |-> page[i], row |-> row[page[i]]]]
  IN /\ pc = "page" /\ loaded' = loaded \o rows
     /\ pc' = IF More(page) THEN "page" ELSE "report"
     /\ offset' = offset + PageSize
     /\ UNCHANGED <<now, sessions, alertsFile, since, report, failed, everywhere, moved, events>>

Report ==
  /\ pc = "report" /\ report' = Alerts(CurrentOf(loaded, now), BaselineOf(loaded, now)) /\ pc' = "write"
  /\ UNCHANGED <<now, sessions, alertsFile, offset, loaded, since, failed, everywhere, moved, events>>

\* The file is written, or removed when there is nothing to write.
WriteOrClear ==
  /\ pc = "write" /\ pc' = "done"
  /\ \/ alertsFile' = report /\ UNCHANGED failed
     \/ UNCHANGED alertsFile /\ failed' = TRUE
  /\ UNCHANGED <<now, sessions, offset, loaded, since, report, everywhere, moved, events>>

Finish ==
  /\ pc = "done" /\ pc' = "idle" /\ offset' = 0 /\ loaded' = <<>> /\ since' = {} /\ report' = {} /\ failed' = FALSE
  /\ everywhere' = FALSE /\ moved' = FALSE
  /\ UNCHANGED <<now, sessions, alertsFile, events>>

Next ==
  \/ Tick
  \/ \E s \in Session : Begin(s) \/ Bootstrap(s) \/ Call(s) \/ Pause(s) \/ Resume(s) \/ Complete(s) \/ Raise(s) \/ Relocate(s) \/ RelocateAgain(s)
  \/ Start \/ LoadPage \/ Report \/ WriteOrClear \/ Finish
Spec == Init /\ [][Next]_vars

-----------------------------------------------------------------------------
TypeOK ==
  /\ now \in 0 .. MaxTime /\ since \subseteq Session /\ alertsFile \subseteq Metric /\ report \subseteq Metric
  /\ \A s \in Session : row[s] \in SessionRecord /\ row[s].errors <= row[s].calls /\ trace[s] \in Stats

\* "without paging, a fixed limit can drop older rows and truncate the baseline window"
\* (cmd_drift.py:56-57): whatever begins, ends, is paused again or comes in between two
\* pages, every session that was over when the run began is among the rows of its report,
\* unless the run is of one workspace and a row was moved out of it meanwhile, which pulls
\* the others forward past the offset.
Loaded(s) == \E i \in DOMAIN loaded : loaded[i].session = s
NoneMissed == pc \in {"report", "write"} /\ ~moved => \A s \in since : Loaded(s)

\* Inductive: while it pages, what the run has not read is still ahead of it, because a row
\* keeps its date and others can only push it further back while none is moved away.
Noted ==
  /\ row \in [Session -> SessionRecord] /\ trace \in [Session -> Stats]
  /\ log \in [Session -> [calls : Nat, errors : Nat]] /\ \A s \in Session : log[s].errors <= log[s].calls
Paging ==
  /\ offset \in Nat /\ loaded \in Seq([session : Session, row : SessionRecord])
  /\ ~moved => /\ pc = "page" => since \subseteq Listed
               /\ \A s \in since : Loaded(s) \/ (pc = "page" /\ offset < Place(s))
  /\ pc = "idle" => since = {}
  /\ moved \in BOOLEAN /\ everywhere \in BOOLEAN
IInv == TypeOK /\ Noted /\ Paging

\* "so the drift metric and the reflection.md frontmatter agree on what "low outcome
\* quality" means" (analytics.py:63-65), and a resumed session has the calls of its first
\* part: "SessionStore captured these during the original run" (cmd_resume.py:584).
QualityAgrees ==
  \A s \in Session : row[s].status = "completed" => Classify(row[s]) = Reflected(trace[s])

\* "Don't surface ourselves if we were re-handed our own row" (engram_memory.py:1125-1126).
PreviousIsAnother == \A s \in Session : hint[s] # s

\* "zero means ... ``mean_recall_helpfulness`` carries no signal" (analytics.py:77-79).
NoSignalNoAlert ==
  pc = "write" /\ "helpfulness" \in report => Helpfulness(now - Window, now)[2] > 0
=============================================================================

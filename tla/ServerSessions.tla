---------------------------- MODULE ServerSessions ----------------------------
(***************************************************************************)
(* The sessions of one HTTP server together (server.py): creation against   *)
(* the quota of active sessions, eviction of settled ones, shutdown, crash  *)
(* and restart; their rows in the session store, completed by their threads *)
(* or by `harness resume`, and the rows a restart adds from the trace files *)
(* it finds (session_store.py).  What one session does between creation and *)
(* its end is ServerSession's; here it is a status and a thread.            *)
(***************************************************************************)
EXTENDS Naturals, FiniteSets

CONSTANTS
  Session,    \* ids ses_... of the sessions
  Folder,     \* names act-NNN of activity directories; every day has its own
  Day,
  MaxActive,  \* _MAX_ACTIVE_SESSIONS
  MaxEvents   \* failed writes, restarts and sub-agents together

None == "none"
NoRow == [status |-> None, trace |-> None]

VARIABLES
  server,    \* "up", "stopping" or "down"
  listed,    \* the sessions the server knows
  status,    \* ManagedSession.status
  thread,    \* "none", "turn", "ending" or "over"
  stop,      \* its stop event
  trace,     \* its trace file: where, and what its session_end says
  subs,      \* the sessions that also have a trace of a sub-agent
  row,       \* the session store: by id, a session's or a folder's
  sending,   \* the session send_message is about; None when no handler runs
  events

vars == <<server, listed, status, thread, stop, trace, subs, row, sending, events>>
files == <<trace, subs>>
memory == <<listed, status, thread, stop>>

NoTrace == [at |-> <<0, None>>, end |-> None]
Schema == [status : {None, "running", "paused", "completed", "stopped", "error", "unknown"},
           trace : Session \cup {None}]
Active == {"running", "idle", "paused"}
Terminal == {"completed", "stopped", "error"}
Free == server = "up" /\ sending = None  \* the event loop runs no handler
Event == events < MaxEvents /\ events' = events + 1

Init ==
  /\ server = "up" /\ events = 0 /\ subs = {} /\ listed = {} /\ sending = None
  /\ status = [s \in Session |-> None]
  /\ thread = [s \in Session |-> "none"] /\ stop = [s \in Session |-> FALSE]
  /\ trace = [s \in Session |-> NoTrace]
  /\ row = [i \in Session \cup Folder |-> NoRow]

-----------------------------------------------------------------------------
\* The directory a trace is put in is one that no session has.
Unused(place) == \A t \in Session : trace[t].at # place
ActiveSessions == {s \in listed : status[s] \in Active}

\* create_session: nothing awaits between the quota and the thread, so that
\* two requests are created one after the other.  The row may fail to be written.
Create(s) ==
  /\ Free /\ trace[s] = NoTrace
  /\ Cardinality(ActiveSessions) < MaxActive
  /\ \E d \in Day, f \in Folder :
       /\ Unused(<<d, f>>)
       /\ trace' = [trace EXCEPT ![s].at = <<d, f>>]
  /\ listed' = listed \cup {s} /\ status' = [status EXCEPT ![s] = "running"]
  /\ thread' = [thread EXCEPT ![s] = "turn"]
  /\ \/ row' = [row EXCEPT ![s] = [status |-> "running", trace |-> s]] /\ UNCHANGED events
     \/ UNCHANGED row /\ Event
  /\ UNCHANGED <<server, stop, subs, sending>>

\* A turn ends and the session waits.
Idle(s) ==
  /\ thread[s] = "turn" /\ status[s] = "running" /\ status' = [status EXCEPT ![s] = "idle"]
  /\ UNCHANGED <<listed, server, thread, stop, files, row, sending, events>>

\* send_message finds it idle, and says "running" at its end, whatever the
\* thread has done by then.
SendCheck(s) ==
  /\ Free /\ s \in listed /\ status[s] = "idle" /\ sending' = s
  /\ UNCHANGED <<server, memory, files, row, events>>
SendMark ==
  /\ sending # None /\ sending' = None /\ status' = [status EXCEPT ![sending] = "running"]
  /\ UNCHANGED <<listed, server, thread, stop, files, row, events>>

\* A sub-agent of a turn writes its trace beside the session's.
Spawn(s) ==
  /\ thread[s] = "turn" /\ s \notin subs /\ Event /\ subs' = subs \cup {s}
  /\ UNCHANGED <<server, memory, trace, row, sending>>

\* The session settles, or pauses and says so in its row.
Settle(s) ==
  /\ thread[s] = "turn" /\ thread' = [thread EXCEPT ![s] = "ending"]
  /\ \/ /\ status' = [status EXCEPT ![s] = IF stop[s] THEN "stopped" ELSE "completed"]
        /\ trace' = [trace EXCEPT ![s].end = IF stop[s] THEN "stopped" ELSE "completed"] /\ UNCHANGED row
     \/ status' = [status EXCEPT ![s] = "error"] /\ UNCHANGED <<trace, row>>
     \/ /\ status' = [status EXCEPT ![s] = "paused"] /\ UNCHANGED trace
        /\ row' = IF row[s] # NoRow THEN [row EXCEPT ![s].status = "paused"] ELSE row
  /\ UNCHANGED <<listed, server, stop, subs, events, sending>>

\* _store_complete_session: an UPDATE, so a row that was never inserted stays
\* away; a failure is hidden.
Store(s) ==
  /\ thread[s] = "ending" /\ thread' = [thread EXCEPT ![s] = "over"]
  /\ \/ /\ row' = IF row[s] # NoRow /\ status[s] # "paused"
                  THEN [row EXCEPT ![s].status = status[s]] ELSE row
        /\ UNCHANGED events
     \/ UNCHANGED row /\ Event
  /\ UNCHANGED <<listed, server, status, stop, files, sending>>

Stop(s) ==
  /\ Free /\ s \in listed /\ thread[s] = "turn" /\ stop' = [stop EXCEPT ![s] = TRUE]
  /\ UNCHANGED <<listed, server, status, thread, files, row, events, sending>>

-----------------------------------------------------------------------------
\* Faulty variant: whatever is old goes.
EvictableOld == listed
Evictable == {s \in listed : status[s] \in Terminal}
\* Of the settled sessions go those created before the window.
Evict ==
  /\ Free /\ \E gone \in SUBSET Evictable \ {{}} : listed' = listed \ gone
  /\ UNCHANGED <<server, status, thread, stop, files, row, events, sending>>

\* The lifespan ends: what runs is told to stop, and three seconds later the
\* store is closed and the process gone with its daemon threads.
Shutdown ==
  /\ Free /\ server' = "stopping"
  /\ stop' = [s \in Session |-> stop[s] \/ (thread[s] = "turn" /\ status[s] \in {"running", "idle"})]
  /\ UNCHANGED <<listed, status, thread, files, row, events, sending>>

Exit ==
  /\ server = "stopping" \/ (server = "up" /\ Event)
  /\ server' = "down" /\ sending' = None /\ listed' = {}
  /\ status' = [s \in Session |-> None]
  /\ thread' = [s \in Session |-> IF thread[s] = "none" THEN "none" ELSE "over"]
  /\ IF server = "stopping" THEN UNCHANGED events ELSE TRUE
  /\ UNCHANGED <<stop, files, row>>

\* harness resume, in a process of its own, of a session whose row says paused;
\* the server's own copy of the session does not hear of it.
ResumeElsewhere(s) ==
  /\ row[s].status = "paused" /\ thread[s] = "over"
  /\ \E st \in {"completed", "paused"} :
       /\ row' = [row EXCEPT ![s].status = st]
       /\ trace' = IF st = "completed" THEN [trace EXCEPT ![s].end = st] ELSE trace
  /\ UNCHANGED <<server, memory, subs, events, sending>>

-----------------------------------------------------------------------------
\* backfill_from_traces: the files of all days in any order; the id is the name
\* of the directory, the status is read off the events of the file.
Files == {<<s, "main">> : s \in {t \in Session : trace[t] # NoTrace}} \cup {<<s, "sub">> : s \in subs}
Id(x) == trace[x[1]].at[2]
Parsed(x) == IF x[2] = "sub" THEN "completed" ELSE IF trace[x[1]].end = None THEN "unknown" ELSE trace[x[1]].end
Backfilled(first) ==
  [i \in Session \cup Folder |->
     IF i \in DOMAIN first /\ row[i] = NoRow
     THEN [status |-> Parsed(first[i]), trace |-> first[i][1]] ELSE row[i]]
Restart ==
  /\ server = "down" /\ Event /\ server' = "up"
  /\ \E first \in [{Id(x) : x \in Files} -> Files] :
       /\ \A i \in DOMAIN first : Id(first[i]) = i
       /\ row' = Backfilled(first)
  /\ UNCHANGED <<memory, files, sending>>

Next ==
  \/ \E s \in Session :
       \/ Create(s) \/ Idle(s) \/ SendCheck(s) \/ Spawn(s) \/ Settle(s)
       \/ Store(s) \/ Stop(s) \/ ResumeElsewhere(s)
  \/ SendMark \/ Evict \/ Shutdown \/ Exit \/ Restart
Spec == Init /\ [][Next]_vars

-----------------------------------------------------------------------------
TypeOK ==
  /\ server \in {"up", "stopping", "down"} /\ events <= MaxEvents /\ subs \subseteq Session
  /\ status \in [Session -> Active \cup Terminal \cup {None}]
  /\ thread \in [Session -> {"none", "turn", "ending", "over"}]
  /\ \A i \in Session \cup Folder : row[i] \in Schema

\* HARNESS_SERVER_MAX_ACTIVE_SESSIONS bounds the threads that really take turns, not
\* only the list: no eviction, message or pause hides a live thread from the count.
ThreadsBounded ==
  /\ Cardinality({s \in Session : thread[s] = "turn"}) <= MaxActive
  /\ \A s \in Session : thread[s] = "turn" => s \in ActiveSessions

\* "Index any JSONL trace files not already in the database"
\* (session_store.py:510): no trace is indexed under two ids.
IndexedOnce ==
  \A i, j \in Session \cup Folder : row[i] # NoRow /\ row[j] # NoRow /\ row[i].trace = row[j].trace => i = j
-----------------------------------------------------------------------------
(* What the quota rests on, for a proof by induction: no thread takes turns  *)
(* that is not counted, and a thread that ends has left "idle" for good.     *)
TraceFile == [at : (Day \cup {0}) \X (Folder \cup {None}), end : {None, "completed", "stopped"}]
Types ==
  /\ events \in Nat /\ listed \subseteq Session /\ sending \in Session \cup {None}
  /\ trace \in [Session -> TraceFile]
  /\ row \in [Session \cup Folder -> Schema]
EndingSpeaks == \A s \in Session : thread[s] = "ending" => status[s] # "idle"
IInv == TypeOK /\ Types /\ EndingSpeaks /\ ThreadsBounded
=============================================================================

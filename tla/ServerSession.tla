---------------------------- MODULE ServerSession ----------------------------
(***************************************************************************)
(* One session of the HTTP server.  Two threads share the ManagedSession:  *)
(* the runner, which takes turns with the model, and the event loop, which *)
(* answers the requests, moves the runner's events into the bounded SSE    *)
(* queue and streams them to the clients.  A request handler does not      *)
(* await, so handlers, callbacks and streams alternate; only the runner    *)
(* comes between their statements.                                         *)
(*                                                                         *)
(* A turn is run_until_idle as AgentLoop specifies it: it returns, and it  *)
(* makes no more tool calls than it is given.                              *)
(***************************************************************************)
EXTENDS Naturals, SequencesExt

CONSTANTS
  Client,     \* the clients of the event stream
  MaxQueue,   \* maxsize of the SSE queue
  Cap,        \* max_tool_calls of the session
  MaxPosted,  \* bound on the callbacks that wait for the event loop when a
              \* delta or a message is added
  MaxInbox    \* bound on the messages that wait for the runner

ASSUME ServerSessionAssumption ==
  /\ MaxQueue \in Nat /\ MaxQueue >= 3
  /\ {Cap, MaxPosted, MaxInbox} \subseteq Nat

VARIABLES
  interactive, \* the session was created interactive
  status,      \* ManagedSession.status
  row,         \* the status in the SessionStore
  stop,        \* the stop event
  inbox,       \* messages in input_queue
  pc,          \* where the runner is
  budget,      \* result.stopped_by_budget of the last turn
  calls,       \* session_tool_calls
  api,         \* where send_message is
  posted,      \* events handed to the event loop
  queue,       \* the SSE queue
  client,      \* client[c]: c reads the stream
  made,        \* history: tool calls made by all turns
  delivered    \* history: a client has read the last event

runnerVars == <<status, row, inbox, pc, budget, calls, posted, made>>
loopVars == <<api, queue, client, delivered>>
vars == <<interactive, stop, runnerVars, loopVars>>

Terminal == {"completed", "stopped", "error"}
Event == {"data", "idle", "done", "note"}

Init ==
  /\ interactive \in BOOLEAN
  /\ status = "running" /\ row = "running"
  /\ stop = FALSE /\ inbox = 0
  /\ pc = "turn" /\ budget = FALSE /\ calls = 0
  /\ api = "free"
  /\ posted = <<>> /\ queue = <<>>
  /\ client = [c \in Client |-> FALSE]
  /\ made = 0 /\ delivered = FALSE

Post(e) == posted' = Append(posted, e)

-----------------------------------------------------------------------------
(* The runner.                                                              *)

(* Stream deltas and trace events, of a turn and around it.                 *)
Emit ==
  /\ pc \in {"turn", "got", "ending"} /\ Len(posted) < MaxPosted
  /\ Post("data")
  /\ UNCHANGED <<interactive, stop, status, row, inbox, pc, budget, calls, made, loopVars>>

(* Faulty variant: the counter keeps the last turn only.                    *)
TurnForgets ==
  /\ pc = "turn"
  /\ \E k \in 0 .. Cap - calls :
       /\ calls' = k
       /\ made' = made + k
  /\ budget' \in BOOLEAN
  /\ IF interactive THEN pc' = "told" /\ Post("idle")
                    ELSE pc' = "ending" /\ posted' = posted
  /\ UNCHANGED <<interactive, stop, status, row, inbox, loopVars>>

(* A turn returns; an interactive session tells its clients first and       *)
(* itself afterwards.                                                       *)
Turn ==
  /\ pc = "turn"
  /\ \E k \in 0 .. Cap - calls :
       /\ calls' = calls + k
       /\ made' = made + k
  /\ budget' \in BOOLEAN
  /\ IF interactive THEN pc' = "told" /\ Post("idle")
                    ELSE pc' = "ending" /\ posted' = posted
  /\ UNCHANGED <<interactive, stop, status, row, inbox, loopVars>>

SetIdle ==
  /\ pc = "told"
  /\ status' = "idle" /\ pc' = "check"
  /\ UNCHANGED <<interactive, stop, row, inbox, budget, calls, posted, made, loopVars>>

(* Faulty variant: the loop looks at the budget only.                       *)
CheckBudget ==
  /\ pc = "check"
  /\ pc' = IF budget THEN "ending" ELSE "waiting"
  /\ UNCHANGED <<interactive, stop, status, row, inbox, budget, calls, posted, made, loopVars>>

Check ==
  /\ pc = "check"
  /\ pc' = IF stop \/ budget THEN "ending" ELSE "waiting"
  /\ UNCHANGED <<interactive, stop, status, row, inbox, budget, calls, posted, made, loopVars>>

(* input_queue.get with its timeout: a message, another look at the stop    *)
(* event, or the end of an idle session.                                    *)
Take ==
  /\ pc = "waiting" /\ inbox > 0
  /\ inbox' = inbox - 1 /\ pc' = "got"
  /\ UNCHANGED <<interactive, stop, status, row, budget, calls, posted, made, loopVars>>

Empty ==
  /\ pc = "waiting" /\ inbox = 0
  /\ pc' \in {"check", "ending"}
  /\ UNCHANGED <<interactive, stop, status, row, inbox, budget, calls, posted, made, loopVars>>

Resume ==
  /\ pc = "got"
  /\ status' = "running" /\ pc' = "turn"
  /\ UNCHANGED <<interactive, stop, row, inbox, budget, calls, posted, made, loopVars>>

(* A turn pauses: the status, then checkpoint and row.  That these can fail *)
(* is in SessionPause.                                                      *)
Pause ==
  /\ pc = "turn"
  /\ \E k \in 0 .. Cap - calls :
       /\ calls' = calls + k
       /\ made' = made + k
  /\ status' = "paused" /\ pc' = "pausing"
  /\ UNCHANGED <<interactive, stop, row, inbox, budget, posted, loopVars>>

PersistPause ==
  /\ pc = "pausing"
  /\ row' = "paused" /\ pc' = "settled"
  /\ UNCHANGED <<interactive, stop, status, inbox, budget, calls, posted, made, loopVars>>

(* A turn, or what ends the session, raises.                                *)
Raise ==
  /\ pc \in {"turn", "ending"}
  /\ status' = "error" /\ pc' = "settled"
  /\ UNCHANGED <<interactive, stop, row, inbox, budget, calls, posted, made, loopVars>>

Settle ==
  /\ pc = "ending"
  /\ status' = IF stop THEN "stopped" ELSE "completed"
  /\ pc' = "settled"
  /\ UNCHANGED <<interactive, stop, row, inbox, budget, calls, posted, made, loopVars>>

(* control/done, or control/error.                                          *)
Announce ==
  /\ pc = "settled"
  /\ Post("done") /\ pc' = "bridging"
  /\ UNCHANGED <<interactive, stop, status, row, inbox, budget, calls, made, loopVars>>

(* The trace bridge, put off when the session has paused, with              *)
(* control/persistence_error when it fails; and the tracer's trace_closed.  *)
Bridge ==
  /\ pc = "bridging"
  /\ \/ row # "paused" /\ Post("note")
     \/ posted' = posted
  /\ pc' = "closing"
  /\ UNCHANGED <<interactive, stop, status, row, inbox, budget, calls, made, loopVars>>

CloseTracer ==
  /\ pc = "closing"
  /\ Post("note") /\ pc' = "storing"
  /\ UNCHANGED <<interactive, stop, status, row, inbox, budget, calls, made, loopVars>>

Store ==
  /\ pc = "storing"
  /\ row' = IF status = "paused" THEN row ELSE status
  /\ pc' = "over"
  /\ UNCHANGED <<interactive, stop, status, inbox, budget, calls, posted, made, loopVars>>

Ending ==
  \/ Turn \/ SetIdle \/ Check \/ Take \/ Empty \/ Resume \/ PersistPause
  \/ Settle \/ Announce \/ Bridge \/ CloseTracer \/ Store
-----------------------------------------------------------------------------
(* The event loop.                                                          *)

(* send_message: look, put, mark.                                           *)
SendCheck ==
  /\ api = "free" /\ interactive /\ status = "idle"
  /\ inbox < MaxInbox /\ Len(posted) < MaxPosted
  /\ api' = "checked"
  /\ UNCHANGED <<interactive, stop, runnerVars, queue, client, delivered>>

SendPut ==
  /\ api = "checked"
  /\ inbox' = inbox + 1 /\ api' = "put"
  /\ UNCHANGED <<interactive, stop, status, row, pc, budget, calls, posted, made,
                 queue, client, delivered>>

SendMark ==
  /\ api = "put"
  /\ status' = "running" /\ api' = "free"
  /\ UNCHANGED <<interactive, stop, row, inbox, pc, budget, calls, posted, made,
                 queue, client, delivered>>

Stop ==
  /\ api = "free" /\ stop' = TRUE
  /\ UNCHANGED <<interactive, runnerVars, loopVars>>

IsData(e) == e = "data"

(* Faulty variant: a full queue takes nothing, no control event either.      *)
EnqueueWhenRoom(q, e) == IF Len(q) < MaxQueue THEN Append(q, e) ELSE q

(* Faulty variant: a control event is forced into a full queue.             *)
EnqueueOverfull(q, e) ==
  IF Len(q) < MaxQueue \/ e # "data" THEN Append(q, e) ELSE q

(* A full queue drops a delta; for a control event it gives up its oldest   *)
(* delta, or its oldest event when there is none.                           *)
Enqueue(q, e) ==
  IF Len(q) < MaxQueue THEN Append(q, e)
  ELSE IF e = "data" THEN q
  ELSE IF Contains(q, "data") THEN Append(RemoveAt(q, SelectInSeq(q, IsData)), e)
  ELSE Append(Tail(q), e)

Callback ==
  /\ api = "free" /\ posted # <<>>
  /\ queue' = Enqueue(queue, Head(posted))
  /\ posted' = Tail(posted)
  /\ UNCHANGED <<interactive, stop, status, row, inbox, pc, budget, calls, made,
                 api, client, delivered>>

Connect(c) ==
  /\ api = "free" /\ ~client[c]
  /\ client' = [client EXCEPT ![c] = TRUE]
  /\ UNCHANGED <<interactive, stop, runnerVars, api, queue, delivered>>

Disconnect(c) ==
  /\ api = "free" /\ client[c]
  /\ client' = [client EXCEPT ![c] = FALSE]
  /\ UNCHANGED <<interactive, stop, runnerVars, api, queue, delivered>>

(* The stream of c ends with the done it has read.                          *)
Read(c) ==
  /\ api = "free" /\ client[c] /\ queue # <<>>
  /\ queue' = Tail(queue)
  /\ client' = [client EXCEPT ![c] = Head(queue) # "done"]
  /\ delivered' = (delivered \/ Head(queue) = "done")
  /\ UNCHANGED <<interactive, stop, runnerVars, api>>

(* Faulty variant: only a completed session counts as settled.              *)
QuietCompleted(c) ==
  /\ api = "free" /\ client[c] /\ queue = <<>>
  /\ status = "completed"
  /\ client' = [client EXCEPT ![c] = FALSE]
  /\ UNCHANGED <<interactive, stop, runnerVars, api, queue, delivered>>

(* A quiet stream ends by itself when the session has a terminal status.    *)
Quiet(c) ==
  /\ api = "free" /\ client[c] /\ queue = <<>>
  /\ status \in Terminal
  /\ client' = [client EXCEPT ![c] = FALSE]
  /\ UNCHANGED <<interactive, stop, runnerVars, api, queue, delivered>>

Next ==
  \/ Emit \/ Ending \/ Pause \/ Raise
  \/ SendCheck \/ SendPut \/ SendMark \/ Stop \/ Callback
  \/ \E c \in Client : Connect(c) \/ Disconnect(c) \/ Read(c) \/ Quiet(c)

Spec == Init /\ [][Next]_vars

(* A runner thread goes on, and its turns return (AgentLoop!EveryRunReturns;*)
(* Lanes!EveryRunEnds); the event loop finishes its handlers, runs its      *)
(* callbacks and serves its streams.                                        *)
FairSpec ==
  /\ Spec
  /\ WF_vars(Ending) /\ WF_vars(SendPut \/ SendMark) /\ WF_vars(Callback)
  /\ \A c \in Client : WF_vars(Read(c)) /\ WF_vars(Quiet(c))
-----------------------------------------------------------------------------
(* Every variable stays in its type, and the queue in its bound.            *)
TypeOK ==
  /\ interactive \in BOOLEAN /\ stop \in BOOLEAN /\ budget \in BOOLEAN
  /\ delivered \in BOOLEAN
  /\ status \in Terminal \union {"running", "idle", "paused"}
  /\ row \in Terminal \union {"running", "idle", "paused"}
  /\ inbox \in 0 .. MaxInbox
  /\ calls \in Nat /\ made \in Nat
  /\ pc \in {"turn", "told", "check", "waiting", "got", "pausing", "ending",
             "settled", "bridging", "closing", "storing", "over"}
  /\ api \in {"free", "checked", "put"}
  /\ posted \in Seq(Event)
  /\ queue \in Seq(Event) /\ Len(queue) <= MaxQueue
  /\ client \in [Client -> BOOLEAN]

Announced == pc \in {"bridging", "closing", "storing", "over"}

(* The event that ends the stream is never dropped, however full the queue: *)
(* once announced it is on its way, queued, or read.                        *)
DoneNotLost == Announced => delivered \/ Contains(posted, "done") \/ Contains(queue, "done")

(* All turns of a session together make no more tool calls than its cap.    *)
SessionCap == made <= Cap

(* A client that reads the stream of a settled session is released, even if *)
(* another one took the done or it came late; unless a message accepted at  *)
(* the very end flips the status.                                           *)
StreamsEnd ==
  \A c \in Client :
    (client[c] /\ pc = "over" /\ status \in Terminal)
      ~> (~client[c] \/ status \notin Terminal)

(* A stopped session ends, wherever its runner is.                          *)
StopEnds == stop ~> pc = "over"

(* _store_complete_session persists the final state: no row says that an    *)
(* ended session runs.                                                      *)
RowIsFinal == pc = "over" => row # "running"

(* The end of the stream is never lost, and the session keeps to its cap.   *)
SessionSound == TypeOK /\ DoneNotLost /\ SessionCap
=============================================================================

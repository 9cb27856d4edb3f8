-------------------------------- MODULE Replay --------------------------------
(***************************************************************************)
(* A session that is recorded response by response (modes/recording.py) and    *)
(* driven again from the recording (modes/replay.py, cmd_replay.py).  Neither    *)
(* side knows the other: the recorder swallows its own failures and starts its   *)
(* file anew whenever it is built, the player skips the lines it cannot read.    *)
(* The answers of the tools are left out: no response depends on them in a        *)
(* replay, whatever the tools do.                                                *)
(***************************************************************************)
EXTENDS Naturals, Sequences

CONSTANTS MaxResponses, MaxTurns, MaxOpens

VARIABLES
  given,   \* the responses that the model gave, in order, with their kinds
  file,    \* the rows of the recording, after its header
  turn,    \* RecordingMode._turn
  opens, lost,
  pc, on,  \* what runs, and what the player does when the recording ends
  served   \* the responses that the replayed loop was handed
session == <<given, file, turn, opens, lost>>
vars == <<session, pc, on, served>>

\* A response asks for tools, or ends the loop's run; a reflection is outside the loop.
Kind == {"tools", "final", "reflect"}
Response == [kind : Kind, number : 1 .. MaxResponses]
Invented == [kind |-> "final", number |-> 0]   \* "[replay exhausted]"

Init ==
  /\ given = <<>> /\ file = <<>> /\ turn = 0 /\ opens = 0 /\ lost = FALSE
  /\ pc = "idle" /\ on = "stop" /\ served = <<>>

-----------------------------------------------------------------------------
(* The recorder. *)
\* The header is written over what the file held: a session that is resumed starts it anew.
Open ==
  /\ pc = "idle" /\ opens < MaxOpens /\ opens' = opens + 1
  /\ pc' = "recording" /\ file' = <<>> /\ turn' = 0
  /\ UNCHANGED <<given, lost, on, served>>

Row == [turn : 0 .. MaxResponses, response : Response]
Serialize(response) == [turn |-> turn, response |-> response]

\* The turn is counted whether or not the row could be made and written whole.
Respond(kind) ==
  LET response == [kind |-> kind, number |-> Len(given) + 1]
  IN  /\ pc = "recording" /\ Len(given) < MaxResponses
      /\ given' = Append(given, response) /\ turn' = turn + 1
      /\ \/ (file' = Append(file, Serialize(response)) /\ UNCHANGED lost)
         \/ (lost' = TRUE /\ UNCHANGED file)
      /\ UNCHANGED <<opens, pc, on, served>>
Complete == Respond("tools") \/ Respond("final")
Reflect == Respond("reflect")

\* The end of the session, a pause, a call of the model that fails, or a kill.
Close == pc = "recording" /\ pc' = "idle" /\ UNCHANGED <<session, on, served>>

-----------------------------------------------------------------------------
(* The player. *)
Recording == [i \in DOMAIN file |-> file[i].response]
With(completes, response) == IF response.kind = "reflect" THEN completes ELSE Append(completes, response)
\* The responses of the loop's own calls, in their order, among the first n.
Firsts(responses) ==
  LET first[n \in 0 .. Len(responses)] == IF n = 0 THEN <<>> ELSE With(first[n - 1], responses[n]) IN first
Completes(responses) == Firsts(responses)[Len(responses)]
\* Faulty variant: the reflections are fed to the loop with the rest.
CompleteRecordsAll == Recording
CompleteRecords == Completes(Recording)
\* Is there a recording to be found where the command looks?
Recorded == opens > 0
Remaining == Len(CompleteRecords) - Len(served)

LoadRecording(mode) ==
  /\ pc = "idle" /\ Recorded /\ pc' = "replaying" /\ on' = mode /\ served' = <<>>
  /\ UNCHANGED session

\* The loop takes responses until one asks for no tool, or its turns are used up.
After(response) == IF response.kind = "final" THEN "replayed" ELSE "replaying"
Serve ==
  /\ pc = "replaying" /\ Len(served) < MaxTurns /\ Remaining > 0
  /\ LET response == CompleteRecords[Len(served) + 1]
     IN  served' = Append(served, response) /\ pc' = After(response)
  /\ UNCHANGED <<session, on>>
Exhausted ==
  /\ pc = "replaying" /\ Len(served) < MaxTurns /\ Remaining <= 0
  /\ \/ on = "raise" /\ pc' = "diverged" /\ UNCHANGED served
     \/ /\ on = "loop_last" /\ CompleteRecords # <<>>
        /\ served' = Append(served, CompleteRecords[Len(CompleteRecords)])
        /\ pc' = After(CompleteRecords[Len(CompleteRecords)])
     \/ /\ on = "stop" \/ (on = "loop_last" /\ CompleteRecords = <<>>)
        /\ served' = Append(served, Invented) /\ pc' = "replayed"
  /\ UNCHANGED <<session, on>>
OutOfTurns == pc = "replaying" /\ Len(served) = MaxTurns /\ pc' = "replayed" /\ UNCHANGED <<session, on, served>>
Finish == pc \in {"replayed", "diverged"} /\ pc' = "idle" /\ UNCHANGED <<session, on, served>>

Next ==
  \/ Open \/ Complete \/ Reflect \/ Close
  \/ \E mode \in {"raise", "stop", "loop_last"} : LoadRecording(mode)
  \/ Serve \/ Exhausted \/ OutOfTurns \/ Finish
Spec == Init /\ [][Next]_vars

-----------------------------------------------------------------------------
TypeOK ==
  /\ given \in Seq(Response) /\ file \in Seq(Row) /\ turn \in 0 .. MaxResponses
  /\ served \in Seq(Response \cup {Invented}) /\ Len(served) <= MaxTurns

\* What the replayed loop is handed are the responses that the model gave to the recorded
\* loop, in their order and with none left out, up to the end of the recording: if the
\* session was recorded in one piece and no row was lost, whatever was reflected between.
ReplayIsFaithful ==
  pc \in {"replaying", "replayed", "diverged"} /\ opens = 1 /\ ~lost =>
    \A i \in 1 .. Len(served) : i <= Len(Completes(given)) => served[i] = Completes(given)[i]

\* Inductive: what was recorded in one piece is what was given, and the player is where its
\* calls took it.
Recorder ==
  /\ opens \in Nat /\ turn <= Len(given) /\ Len(given) <= MaxResponses
  /\ opens = 0 => given = <<>> /\ file = <<>> /\ pc # "recording"
  /\ opens <= 1 /\ ~lost => Recording = given
Player ==
  pc \in {"replaying", "replayed", "diverged"} =>
    \A i \in 1 .. Len(served) : i <= Len(CompleteRecords) => served[i] = CompleteRecords[i]
IInv == TypeOK /\ Recorder /\ Player

\* "The recording is the ground-truth response sequence" (cmd_replay.py:8-9): also of a
\* session that was paused and resumed, or of which one row could not be written.
GroundTruth ==
  pc \in {"replaying", "replayed"} =>
    \A i \in 1 .. Len(served) : i <= Len(Completes(given)) => served[i] = Completes(given)[i]
=============================================================================

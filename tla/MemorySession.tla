---------------------------- MODULE MemorySession ----------------------------
(***************************************************************************)
(* Sessions over one memory repository (engram_memory.py): the activity     *)
(* directory each takes, on which day, and takes again after a pause; the   *)
(* replacement and promotion of memory files, written one after the other   *)
(* and committed together; the cache of the context tool.  A session is a   *)
(* process: it may be killed between any two writes.                        *)
(*                                                                         *)
(* A directory is <<day, number, "act">> or <<day, 0, id>>, named after the *)
(* id the command line gave its session (cli_...).                          *)
(***************************************************************************)
EXTENDS Naturals, FiniteSets

CONSTANTS
  Session,   \* sessions; also their command-line ids
  File,      \* memory files
  Initial,   \* those that exist at first
  MaxEvents  \* midnights, jobs, deaths and loads of context together

None == "none"
NoFile == [there |-> FALSE, by |-> None, was |-> None]
NoJob == [do |-> None, old |-> None, new |-> None, next |-> None]
NoDir == <<0, 0, None>>

VARIABLES
  today,
  dirs,      \* activity directories
  at,        \* "new", "listed", "open", "paused", "ended", "dead"
  number,    \* the next number a session tries
  home,      \* the directory of its memory object
  trace,     \* the directory of its trace file
  owners,    \* who writes to a directory
  file,      \* working tree: exists, superseded_by, supersedes
  saved,     \* last commit
  job, events,
  raced,     \* two jobs with a file in common have overlapped
  torn,      \* a job was killed between two writes
  cache      \* cached context: "none", "fresh", or "stale" since a file changed

vars == <<today, dirs, at, number, home, trace, owners, file, saved, job,
          events, raced, torn, cache>>
places == <<dirs, number, home, trace, owners>>
contents == <<file, saved, job, raced, torn>>
Event == events < MaxEvents /\ events' = events + 1

Init ==
  /\ today = 1 /\ dirs = {} /\ owners = {} /\ events = 0
  /\ at = [s \in Session |-> "new"] /\ number = [s \in Session |-> 0]
  /\ home = [s \in Session |-> NoDir] /\ trace = [s \in Session |-> NoDir]
  /\ file = [f \in File |-> [NoFile EXCEPT !.there = f \in Initial]] /\ saved = file
  /\ job = [s \in Session |-> NoJob] /\ raced = FALSE /\ torn = FALSE
  /\ cache = [s \in Session |-> "none"]

-----------------------------------------------------------------------------
Midnight ==
  /\ Event /\ today' = today + 1
  /\ UNCHANGED <<places, contents, cache, at>>

Highest(N) == CHOOSE n \in N : \A m \in N : m <= n
\* _allocate_session_id: one more than the largest number of the day.
Numbers(d) == {e[2] : e \in {x \in dirs : x[1] = d /\ x[3] = "act"}}
List(s) ==
  /\ at[s] = "new" /\ at' = [at EXCEPT ![s] = "listed"]
  /\ number' = [number EXCEPT ![s] = Highest(Numbers(today) \cup {0}) + 1]
  /\ home' = [home EXCEPT ![s] = <<today, 0, None>>]
  /\ UNCHANGED <<today, dirs, trace, owners, contents, cache, events>>

Take(s, d) ==
  /\ dirs' = dirs \cup {d} /\ home' = [home EXCEPT ![s] = d] /\ owners' = owners \cup {<<s, d>>}
  /\ at' = [at EXCEPT ![s] = "open"]

\* Faulty variant: mkdir with exist_ok.
ReserveAny(s) == LET d == <<home[s][1], number[s], "act">> IN
  /\ at[s] = "listed" /\ Take(s, d)
  /\ trace' = [trace EXCEPT ![s] = d] /\ UNCHANGED <<today, number, contents, cache, events>>
\* mkdir fails for a directory that exists, and the next number is tried.
Reserve(s) == LET d == <<home[s][1], number[s], "act">> IN
  /\ at[s] = "listed"
  /\ IF d \in dirs
     THEN number' = [number EXCEPT ![s] = @ + 1] /\ UNCHANGED <<dirs, home, trace, owners, at>>
     ELSE Take(s, d) /\ trace' = [trace EXCEPT ![s] = d] /\ UNCHANGED number
  /\ UNCHANGED <<today, contents, cache, events>>

\* The session stops for the user; its process ends.
Pause(s) ==
  /\ at[s] = "open" /\ job[s] = NoJob /\ at' = [at EXCEPT ![s] = "paused"]
  /\ cache' = [cache EXCEPT ![s] = "none"]
  /\ UNCHANGED <<today, places, contents, events>>

\* harness resume: a memory object with the session's command-line id, in a
\* directory of that name and any day, else of today; the trace stays.
Adopted(s) == {d \in dirs : d[3] = s}
Resume(s) ==
  /\ at[s] = "paused"
  /\ \E d \in IF Adopted(s) # {} THEN Adopted(s) ELSE {<<today, 0, s>>} : Take(s, d)
  /\ UNCHANGED <<today, number, trace, contents, cache, events>>

\* end_session and the bridge write what the session leaves, in `home`.
EndSession(s) ==
  /\ at[s] = "open" /\ job[s] = NoJob /\ at' = [at EXCEPT ![s] = "ended"]
  /\ UNCHANGED <<today, places, contents, cache, events>>

-----------------------------------------------------------------------------
Paths(j) == {j.old, j.new} \ {None}
Busy(s) == job[s] # NoJob
Begin(s, j) ==
  /\ at[s] = "open" /\ ~Busy(s) /\ Event
  /\ job' = [job EXCEPT ![s] = j]
  /\ raced' = (raced \/ \E t \in Session : Busy(t) /\ Paths(job[t]) \cap Paths(j) # {})
  /\ UNCHANGED <<today, at, places, file, saved, torn, cache>>

\* supersede_file: the old file exists, the new one does not.
Supersede(s) ==
  \E old, new \in File :
    /\ file[old].there /\ ~file[new].there /\ old # new
    /\ Begin(s, [do |-> "supersede", old |-> old, new |-> new, next |-> "old"])

\* promote_note: a new file from the workspace.
Promote(s) ==
  \E new \in File :
    /\ ~file[new].there
    /\ Begin(s, [do |-> "promote", old |-> None, new |-> new, next |-> "new"])

\* A file changes under every cached context.
Aged == [t \in Session |-> IF cache[t] = "fresh" THEN "stale" ELSE cache[t]]

\* Faulty variant: the old file says nothing of the new one.
WriteOldSilent(s) ==
  /\ job[s].next = "old" /\ job' = [job EXCEPT ![s].next = "new"] /\ cache' = Aged
  /\ UNCHANGED <<file, today, at, places, saved, raced, torn, events>>
\* The old file is written first: valid_to and superseded_by.
WriteOld(s) ==
  /\ job[s].next = "old" /\ job' = [job EXCEPT ![s].next = "new"] /\ cache' = Aged
  /\ file' = [file EXCEPT ![job[s].old].by = job[s].new]
  /\ UNCHANGED <<today, at, places, saved, raced, torn, events>>

WriteNew(s) ==
  /\ job[s].next = "new" /\ job' = [job EXCEPT ![s].next = "commit"] /\ cache' = Aged
  /\ file' = [file EXCEPT ![job[s].new] = [there |-> TRUE, by |-> None, was |-> job[s].old]]
  /\ UNCHANGED <<today, at, places, saved, raced, torn, events>>

\* Faulty variant: only the old file is committed.
CommittedOld(j) == IF j.old # None THEN {j.old} ELSE {j.new}
Committed(j) == Paths(j)
\* One commit of the job's paths; a git error is only logged.
Commit(s) ==
  /\ job[s].next = "commit" /\ job' = [job EXCEPT ![s] = NoJob]
  /\ \/ saved' = [f \in File |-> IF f \in Committed(job[s]) THEN file[f] ELSE saved[f]]
     \/ UNCHANGED saved
  /\ UNCHANGED <<today, at, places, file, raced, torn, cache, events>>

-----------------------------------------------------------------------------
\* context: kept for the session unless refreshed; remember throws it away,
\* writing a file does not.
Context(s) ==
  /\ at[s] = "open" /\ ~Busy(s) /\ cache' = [cache EXCEPT ![s] = "fresh"]
  /\ \E refresh \in BOOLEAN : (cache[s] = "none" \/ refresh) /\ Event
  /\ UNCHANGED <<today, at, places, contents>>

Remember(s) ==
  /\ at[s] = "open" /\ ~Busy(s) /\ cache' = [cache EXCEPT ![s] = "none"]
  /\ UNCHANGED <<today, at, places, contents, events>>

Die(s) ==
  /\ at[s] \in {"listed", "open"} /\ Event
  /\ at' = [at EXCEPT ![s] = "dead"] /\ job' = [job EXCEPT ![s] = NoJob]
  /\ torn' = (torn \/ (job[s].do = "supersede" /\ job[s].next = "new"))
  /\ cache' = [cache EXCEPT ![s] = "none"]
  /\ UNCHANGED <<today, places, file, saved, raced>>

Next ==
  \/ Midnight
  \/ \E s \in Session :
       \/ List(s) \/ Reserve(s) \/ Pause(s) \/ Resume(s) \/ EndSession(s) \/ Die(s)
       \/ Supersede(s) \/ Promote(s) \/ WriteOld(s) \/ WriteNew(s) \/ Commit(s)
       \/ Context(s) \/ Remember(s)
Spec == Init /\ [][Next]_vars

-----------------------------------------------------------------------------
TypeOK ==
  /\ events <= MaxEvents /\ raced \in BOOLEAN /\ torn \in BOOLEAN
  /\ at \in [Session -> {"new", "listed", "open", "paused", "ended", "dead"}]
  /\ \A f \in File : file[f].by \in File \cup {None} /\ saved[f].there \in BOOLEAN

\* Sessions that begin at the same moment, across midnight, after a crash or a
\* resume, never write to one directory (engram_memory.py:952-983).
OwnDirectory == \A s, t \in Session : \A d \in dirs : <<s, d>> \in owners /\ <<t, d>> \in owners => s = t

\* The commit never hides a fact without its replacement, not even when a session
\* was killed between the two writes (engram_memory.py:797-815); outside of a job
\* the working tree does not either, unless one was, and in it every successor's predecessor is hidden.
Pair(fs, f) == fs[f].by # None => fs[fs[f].by].there
Known(fs, f) == fs[f].there /\ fs[f].was # None => fs[fs[f].was].by # None
ReplacementStands ==
  ~raced => \A f \in File :
    /\ Pair(saved, f)
    /\ (\A s \in Session : ~Busy(s)) => Known(file, f) /\ (torn \/ Pair(file, f))

\* "Used to honour the original session date on B4 resume so the trace + summary
\* stay co-located with the rest of the session's artifacts" (engram_memory.py:998-1000).
ResumeGoesHome == \A s \in Session : at[s] = "ended" => home[s] = trace[s]

\* "the cache invalidates wholesale" when what it was loaded from changes
\* (engram_memory.py:583-585): no session keeps a context older than a write.
ContextCurrent == \A s \in Session : cache[s] # "stale"

\* A session's directory is its own, and no fact is hidden without its replacement.
RecordsStand == OwnDirectory /\ ReplacementStands
-----------------------------------------------------------------------------
(* What RecordsStand rests on, for a proof by induction. *)
Data == [there : BOOLEAN, by : File \cup {None}, was : File \cup {None}]
Jobs == [do : {"supersede", "promote"}, old : File \cup {None}, new : File, next : {"old", "new", "commit"}]
Types ==
  /\ file \in [File -> Data] /\ saved \in [File -> Data]
  /\ job \in [Session -> Jobs \cup {NoJob}] /\ events \in 0 .. MaxEvents
  /\ \A s \in Session : job[s].next = "old" => job[s].old # None

\* A directory with the id of a session is that session's.
Owned ==
  /\ owners \subseteq Session \X dirs
  /\ \A s \in Session, d \in dirs : <<s, d>> \in owners => d[3] \in {s, "act"}

\* Jobs that never overlapped work on files of their own, and each finds what it has written.
Apart == \A s, t \in Session : Busy(s) /\ Busy(t) /\ s # t => Paths(job[s]) \cap Paths(job[t]) = {}
InHand(j) ==
  /\ j.old # j.new /\ (j.old # None => j.do = "supersede")
  /\ IF j.next = "commit" THEN file[j.new].there /\ file[j.new].by = None ELSE ~file[j.new].there
  /\ j.old # None => file[j.old].there /\ (j.next # "old" => file[j.old].by = j.new)

\* A fact is hidden for its replacement, which is there or about to be.
Waits(f) == \E s \in Session : Busy(s) /\ job[s].next = "new" /\ job[s].old = f
Hidden(f) ==
  /\ ~file[f].there => file[f].by = None
  /\ saved[f].there => file[f].there
  /\ Known(file, f) /\ Pair(saved, f)
  /\ Pair(file, f) \/ torn \/ Waits(f)
InOrder == ~raced => Apart /\ (\A s \in Session : Busy(s) => InHand(job[s])) /\ (\A f \in File : Hidden(f))
IInv == TypeOK /\ Types /\ Owned /\ OwnDirectory /\ InOrder
=============================================================================

------------------------------- MODULE Workspace -------------------------------
(***************************************************************************)
(* The working surface that the sessions on one machine share               *)
(* (workspace.py and the tools over it): the threads and notes of           *)
(* CURRENT.md, rewritten whole under the write lock by every operation, the *)
(* archive of old closed threads, and one project with its goal and its      *)
(* questions, most of whose operations take no lock.  The lock itself is     *)
(* the subject of WriteLock; plans are that of PlanRunState.                 *)
(***************************************************************************)
EXTENDS Naturals, Sequences, FiniteSets

CONSTANTS
  Session,
  ThreadName,
  Retention,     \* CLOSED_THREAD_RETENTION in days
  MaxDay, MaxOps, MaxKills

VARIABLES
  today,
  current,    \* CURRENT.md as it would be read: [threads, closed, notes]
  archive,    \* the entries of archive/threads.md
  live,       \* whether projects/<project>/GOAL.md exists
  shelved,    \* whether projects/_archive/<project> exists
  questions,  \* questions.md of the project: [open, resolved]
  lock,       \* who holds the write lock, or nobody
  pc, doc, late, copy,   \* of each session: its step, what it is to write
  ops,        \* operations begun, which also number what they write
  written,    \* closed threads that CURRENT.md has listed in one line
  torn,       \* of these, those lost to a killed write; the project, if killed half moved
  kills
projectFiles == <<live, shelved, questions>>
files == <<current, archive, projectFiles>>
vars == <<today, files, lock, pc, doc, late, copy, ops, written, torn, kills>>

Nobody == "nobody"
Project == "project"
HalfMoved == <<0, Project>>   \* the mark in torn for the project
Empty == [threads |-> {}, closed |-> {}, notes |-> {}]
NoQuestions == [open |-> <<>>, resolved |-> <<>>]
Thread(name, project) == [name |-> name, project |-> project]
\* A closed thread; `long` if its summary has several lines.
Closed(n, long) == [n |-> n, day |-> today, long |-> long]
\* CURRENT.md as a document.
Names == ThreadName \cup {Project}
ClosedThread == [n : (1 .. MaxOps) \X Names, day : 0 .. MaxDay, long : BOOLEAN]
CurrentDoc ==
  [threads : SUBSET [name : Names, project : BOOLEAN],
   closed : SUBSET ClosedThread,
   notes : SUBSET [n : 1 .. MaxOps, tail : BOOLEAN]]
\* A jot; `tail` is what follows a "## " heading in it.
Note(n, tail) == [n |-> n, tail |-> tail]

Init ==
  /\ today = 0 /\ current = Empty /\ archive = {}
  /\ live = FALSE /\ shelved = FALSE /\ questions = NoQuestions
  /\ lock = Nobody /\ pc = [s \in Session |-> "idle"] /\ doc = [s \in Session |-> Empty]
  /\ late = [s \in Session |-> {}] /\ copy = [s \in Session |-> NoQuestions]
  /\ ops = 0 /\ written = {} /\ torn = {} /\ kills = 0

To(s, step) == pc' = [pc EXCEPT ![s] = step]
Begin(s) == pc[s] = "idle" /\ ops < MaxOps /\ ops' = ops + 1
Idle(s) == Begin(s) /\ UNCHANGED <<today, written, torn, kills>>
Locking(s) == lock = Nobody /\ lock' = s

-----------------------------------------------------------------------------
(* CURRENT.md *)

\* What parse_current finds in a document that render wrote: a closed thread
\* whose heading is not one line is not recognised, and an unknown "## " heading
\* ends the notes.
Parsed(d) ==
  [threads |-> d.threads,
   closed |-> {c \in d.closed : ~c.long},
   notes |-> {Note(n.n, FALSE) : n \in d.notes}]

Expired(d) == {c \in d.closed : today - c.day > Retention}
\* Faulty variant: the threads of the last day are in neither part.
KeptBefore(d) == [d EXCEPT !.closed = {c \in @ : today - c.day < Retention}]
Kept(d) == [d EXCEPT !.closed = @ \ Expired(d)]

\* _rotate_expired_closed and write_current: the archive is written first, in the
\* lock that the operation has taken.
Save(s, d) ==
  /\ Locking(s)
  /\ late' = [late EXCEPT ![s] = Expired(d)]
  /\ doc' = [doc EXCEPT ![s] = Kept(d)]
  /\ To(s, IF Expired(d) = {} THEN "save" ELSE "archive")
  /\ UNCHANGED <<files, copy>>

Named(d, name) == {t \in d.threads : t.name = name}

\* The project named must exist, which is looked up inside the lock.
OpenThread(s) ==
  /\ Idle(s)
  /\ \E name \in ThreadName, project \in BOOLEAN :
       /\ Named(Parsed(current), name) = {} /\ (project => live)
       /\ Save(s, [Parsed(current) EXCEPT !.threads = @ \cup {Thread(name, project)}])

UpdateThread(s) ==
  /\ Idle(s) /\ (\E name \in ThreadName : Named(Parsed(current), name) # {})
  /\ Save(s, Parsed(current))

CloseThread(s) ==
  /\ Idle(s)
  /\ \E t \in Parsed(current).threads, long \in BOOLEAN :
       Save(s, [Parsed(current) EXCEPT !.threads = @ \ {t},
                                       !.closed = @ \cup {Closed(<<ops + 1, t.name>>, long)}])

\* work_thread: one of the three by its flags.
WorkThread(s) == OpenThread(s) \/ UpdateThread(s) \/ CloseThread(s)

Jot(s) ==
  /\ Idle(s)
  /\ \E tail \in BOOLEAN :
       Save(s, [Parsed(current) EXCEPT !.notes = @ \cup {Note(ops + 1, tail)}])

AppendToArchive(s) ==
  /\ pc[s] = "archive" /\ To(s, "save")
  /\ archive' = archive \cup late[s] /\ late' = [late EXCEPT ![s] = {}]
  /\ UNCHANGED <<today, current, live, shelved, questions, lock, doc, copy, ops, written, torn, kills>>

WriteCurrent(s) ==
  /\ pc[s] = "save" /\ To(s, "idle")
  /\ current' = doc[s] /\ doc' = [doc EXCEPT ![s] = Empty] /\ lock' = Nobody
  /\ written' = written \cup {c.n : c \in {e \in doc[s].closed : ~e.long}}
  /\ UNCHANGED <<today, archive, live, shelved, questions, late, copy, ops, torn, kills>>

-----------------------------------------------------------------------------
(* The project: its operations read and write with no lock. *)

NoLock == UNCHANGED <<today, current, archive, lock, doc, late, written, torn, kills>>
First(s, to) == Begin(s) /\ To(s, to) /\ NoLock
Then(s, from, to) == pc[s] = from /\ To(s, to) /\ NoLock /\ UNCHANGED ops

CreateProject(s) ==
  \/ First(s, "create") /\ ~live /\ UNCHANGED <<live, shelved, questions, copy>>
  \/ /\ Then(s, "create", "link") /\ live' = TRUE
     /\ UNCHANGED <<shelved, questions, copy>>

\* The thread of the project, best-effort: not if there is one of the name, or
\* the project is gone again.
Link(s) ==
  /\ pc[s] = "link" /\ UNCHANGED <<today, written, torn, kills, ops>>
  /\ IF Named(Parsed(current), Project) = {} /\ live
     THEN Save(s, [Parsed(current) EXCEPT !.threads = @ \cup {Thread(Project, TRUE)}])
     ELSE lock = Nobody /\ To(s, "idle") /\ UNCHANGED <<files, lock, doc, late, copy>>

\* The goal's directory is made anew if it is gone.
UpdateGoal(s) ==
  \/ First(s, "goal") /\ live /\ UNCHANGED <<live, shelved, questions, copy>>
  \/ Then(s, "goal", "idle") /\ live' = TRUE /\ UNCHANGED <<shelved, questions, copy>>

\* questions.md as it is read; a project without one has none.
ReadQuestions == IF live THEN questions ELSE NoQuestions
Ask(s) ==
  /\ First(s, "questions") /\ live
  /\ copy' = [copy EXCEPT ![s] = [ReadQuestions EXCEPT !.open = Append(@, ops + 1)]]
  /\ UNCHANGED <<live, shelved, questions>>

\* open_questions.pop(index - 1)
Pop(open, index) == SubSeq(open, 1, index - 1) \o SubSeq(open, index + 1, Len(open))
Resolve(s) ==
  /\ First(s, "questions") /\ live
  /\ LET q == ReadQuestions
     IN \E index \in DOMAIN q.open :
          copy' = [copy EXCEPT ![s] = [open |-> Pop(q.open, index),
                                       resolved |-> <<q.open[index]>> \o q.resolved]]
  /\ UNCHANGED <<live, shelved, questions>>

\* _write_questions fails when the project has been moved away meanwhile.
WriteQuestions(s) ==
  /\ Then(s, "questions", "idle")
  /\ questions' = IF live THEN copy[s] ELSE questions
  /\ copy' = [copy EXCEPT ![s] = NoQuestions]
  /\ UNCHANGED <<live, shelved>>

\* project_archive: what it checks is checked before the lock is taken; then the
\* project moves, or the move fails, and its threads are closed.
CheckArchive(s) ==
  First(s, "move") /\ live /\ ~shelved /\ UNCHANGED <<live, shelved, questions, copy>>

\* Faulty variant: only the thread that project_create opened.
LinkedNamed(d) == {t \in d.threads : t.project /\ t.name = Project}
Linked(d) == {t \in d.threads : t.project}

Move(s) ==
  /\ pc[s] = "move" /\ lock = Nobody
  /\ IF live /\ ~shelved
     THEN /\ live' = FALSE /\ shelved' = TRUE /\ questions' = NoQuestions
          /\ To(s, "unlink") /\ lock' = s
     ELSE To(s, "idle") /\ UNCHANGED <<live, shelved, questions, lock>>
  /\ UNCHANGED <<today, current, archive, doc, late, copy, ops, written, torn, kills>>

\* No rotation here, and no write when there is nothing to close.
Unlink(s) ==
  LET linked == Linked(Parsed(current))
  IN /\ pc[s] = "unlink"
     /\ IF linked = {} THEN To(s, "idle") /\ lock' = Nobody /\ UNCHANGED doc
        ELSE /\ To(s, "save") /\ UNCHANGED lock
             /\ doc' = [doc EXCEPT ![s] =
                  [Parsed(current) EXCEPT !.threads = @ \ linked,
                     !.closed = @ \cup {Closed(<<ops, t.name>>, FALSE) : t \in linked}]]
     /\ UNCHANGED <<today, files, late, copy, ops, written, torn, kills>>

ArchiveProject(s) == CheckArchive(s) \/ Move(s) \/ Unlink(s)

-----------------------------------------------------------------------------
NewDay ==
  /\ today < MaxDay /\ today' = today + 1
  /\ UNCHANGED <<files, lock, pc, doc, late, copy, ops, written, torn, kills>>

Dangling == ~live /\ \E t \in current.threads : t.project

\* A session is killed, and goes on as another; the lock it leaves is recovered.  A
\* file that it was writing may be left empty, for write_text truncates it first.
Kill(s) ==
  /\ pc[s] \notin {"idle"} /\ kills < MaxKills /\ kills' = kills + 1
  /\ To(s, "idle") /\ lock' = IF lock = s THEN Nobody ELSE lock
  /\ doc' = [doc EXCEPT ![s] = Empty] /\ late' = [late EXCEPT ![s] = {}]
  /\ copy' = [copy EXCEPT ![s] = NoQuestions]
  /\ LET half == IF Dangling THEN {HalfMoved} ELSE {}
     IN \/ UNCHANGED <<current, archive>> /\ torn' = torn \cup half
        \/ /\ pc[s] = "archive" /\ archive' = {} /\ UNCHANGED current
           /\ torn' = torn \cup {c.n : c \in archive}
        \/ /\ pc[s] = "save" /\ current' = Empty /\ UNCHANGED archive
           /\ torn' = torn \cup {c.n : c \in current.closed}
  /\ UNCHANGED <<today, live, shelved, questions, ops, written>>

Next ==
  \/ \E s \in Session :
       \/ WorkThread(s) \/ Jot(s) \/ AppendToArchive(s) \/ WriteCurrent(s)
       \/ CreateProject(s) \/ Link(s) \/ UpdateGoal(s) \/ ArchiveProject(s)
       \/ Ask(s) \/ Resolve(s) \/ WriteQuestions(s) \/ Kill(s)
  \/ NewDay
Spec == Init /\ [][Next]_vars

-----------------------------------------------------------------------------
TypeOK ==
  /\ lock \in Session \cup {Nobody} /\ current \in CurrentDoc
  /\ \A s \in Session : pc[s] \in {"archive", "save", "unlink"} => lock = s
  /\ \A c \in current.closed \cup archive : c.n \in (1 .. ops) \X Names

\* However sessions, days and kills fall, a thread once listed as closed in one line
\* stays in CURRENT.md or goes to the archive, unless the file it was in is lost in a
\* killed write: rotation neither drops nor forgets one (workspace.py:637-676).
ClosedKept == \A n \in written \ torn : \E c \in current.closed \cup archive : c.n = n

\* No open thread is linked to a project that is gone, once a session that moves it is
\* done: not when it opened while the project was being archived, created anew or given
\* a goal, unless that session was killed between the move and the threads
\* (workspace.py:577, :915-937).
LinkedAlive == lock = Nobody /\ Dangling => HalfMoved \in torn

\* "anything that isn't a structured jot must still survive a round-trip" (workspace.py:390-392).
NotesSurvive == [][current' = Empty \/ current.notes \subseteq current'.notes]_vars

\* "Read-modify-write helpers [...] hold the same lock across their read+write so
\* concurrent helpers don't lose updates either" (workspace.py:553-556).
Asked(qs) == LET all == qs.open \o qs.resolved IN {all[i] : i \in DOMAIN all}
QuestionsKept == [][~live' \/ Asked(questions) \subseteq Asked(questions')]_vars

\* Closed threads are kept, and open ones have their project.
ThreadsStand == ClosedKept /\ LinkedAlive
-----------------------------------------------------------------------------
(* What ThreadsStand rests on, for a proof by induction: who holds the lock has *)
(* every line of CURRENT.md in what it will write or has archived, and nobody    *)
(* else writes.                                                                 *)
Types ==
  /\ ops \in 0 .. MaxOps /\ today \in 0 .. MaxDay /\ live \in BOOLEAN
  /\ archive \subseteq ClosedThread /\ late \in [Session -> SUBSET ClosedThread]
  /\ doc \in [Session -> CurrentDoc]
  /\ pc \in [Session -> {"idle", "archive", "save", "create", "link", "goal", "questions", "move", "unlink"}]

\* What is closed is numbered by an operation that has begun.
Numbered ==
  \A s \in Session :
    /\ pc[s] # "idle" => ops >= 1
    /\ \A c \in doc[s].closed \cup late[s] : c.n \in (1 .. ops) \X Names

Lines(d) == {c \in d.closed : ~c.long}
Carried ==
  /\ \A n \in written \ torn : \E c \in Lines(current) \cup archive : c.n = n
  /\ \A s \in Session :
       /\ pc[s] = "archive" => Lines(current) \subseteq doc[s].closed \cup late[s]
       /\ pc[s] = "save" => Lines(current) \subseteq doc[s].closed \cup archive

\* Only the session that has moved the project, and is to write CURRENT.md without its
\* threads, leaves them there meanwhile; nobody else brings one back.
Excused == live \/ HalfMoved \in torn
Unlinking ==
  /\ Linked(current) # {} /\ ~Excused =>
       \E s \in Session : lock = s /\ (pc[s] = "unlink" \/ (pc[s] = "save" /\ Linked(doc[s]) = {}))
  /\ \A s \in Session : pc[s] \in {"archive", "save"} => Linked(doc[s]) = {} \/ Excused

IInv == TypeOK /\ Types /\ Numbered /\ Carried /\ Unlinking
=============================================================================

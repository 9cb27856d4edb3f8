--------------------------------- MODULE Todos ---------------------------------
(***************************************************************************)
(* The todo file of a workspace (tools/todos.py).  Children of a parallel      *)
(* spawn share the file: each of their calls loads it, changes its own copy,    *)
(* writes that to a temporary file and moves it over the list, and only the     *)
(* move holds the lock.  A process can be killed between any two steps, and a   *)
(* person edits the file by hand.                                               *)
(***************************************************************************)
EXTENDS Naturals, FiniteSets, Sequences

CONSTANTS Caller, Id, Status, MaxItems, HandWritten, MaxEvents

VARIABLES
  file,        \* a sequence of rows, or why it is none
  tmp,         \* the temporary files, by their names: absent, half written, or a list
  holder,      \* who holds the lock of the path
  pc, mine,    \* each call: its step, and the list it will save
  events
vars == <<file, tmp, holder, pc, mine, events>>

Mark(why) == <<[id |-> "none", status |-> why]>>
Absent == <<>>          \* no file is read as an empty list
Torn == Mark("torn")    \* not JSON
NoOne == "no one"

Init ==
  /\ file = Absent /\ tmp = [c \in Caller |-> Absent] /\ holder = NoOne
  /\ pc = [c \in Caller |-> "idle"] /\ mine = [c \in Caller |-> <<>>] /\ events = 0

Event == events < MaxEvents /\ events' = events + 1
HandEdit == Event /\ file' \in HandWritten /\ UNCHANGED <<tmp, holder, pc, mine>>

-----------------------------------------------------------------------------
(* The calls. *)
ValidItem(row) == row.status \in Status /\ row.id \in Id
Valid(list) ==
  /\ Len(list) <= MaxItems /\ \A i \in DOMAIN list : ValidItem(list[i])
  /\ \A i, j \in DOMAIN list : list[i].id = list[j].id => i = j

\* _load, and what read_todos and analyze_todos make of it.
Loads == file # Torn
Shown == {i \in DOMAIN file : ValidItem(file[i])}
Counts == [s \in Status |-> Cardinality({i \in Shown : file[i].status = s})]

Save(c, list) ==
  /\ mine' = [mine EXCEPT ![c] = list] /\ pc' = [pc EXCEPT ![c] = "open"]
  /\ UNCHANGED <<file, tmp, holder>>

\* The list of the call is refused before anything is written unless it is valid.
WriteTodos(c) ==
  /\ pc[c] = "idle" /\ Event
  /\ \E list \in {l \in HandWritten : Valid(l)} : Save(c, list)

\* update_todo: the first row of that id; the call raises for a file it cannot load, an id
\* it does not find and a list that is not valid as a whole.
Updated(id, status) ==
  LET at == {i \in DOMAIN file : file[i].id = id}
  IN IF at = {} THEN file
     ELSE [file EXCEPT ![CHOOSE i \in at : \A j \in at : i <= j].status = status]

UpdateTodo(c) ==
  /\ pc[c] = "idle" /\ Event /\ Loads
  /\ \E id \in {file[i].id : i \in DOMAIN file}, status \in Status :
       Valid(Updated(id, status)) /\ Save(c, Updated(id, status))

-----------------------------------------------------------------------------
(* _save. *)
\* Faulty variant: one name for all.
TmpOfShared(c) == CHOOSE d \in Caller : TRUE
\* mkstemp: a name of its own for each call.
TmpOf(c) == c

Step(c, from, to) == pc[c] = from /\ pc' = [pc EXCEPT ![c] = to] /\ UNCHANGED <<mine, events>>

OpenTmp(c) ==
  /\ Step(c, "open", "fill") /\ tmp' = [tmp EXCEPT ![TmpOf(c)] = Torn] /\ UNCHANGED <<file, holder>>
FillTmp(c) ==
  /\ Step(c, "fill", "lock") /\ tmp' = [tmp EXCEPT ![TmpOf(c)] = mine[c]] /\ UNCHANGED <<file, holder>>
Lock(c) ==
  /\ Step(c, "lock", "replace") /\ holder = NoOne /\ holder' = c /\ UNCHANGED <<file, tmp>>

\* _atomic_replace, tried again and again on Windows; the last refusal removes the
\* temporary file and raises.
Replace(c) ==
  /\ holder = c /\ holder' = NoOne
  /\ \/ Step(c, "replace", "saved") /\ file' = tmp[TmpOf(c)] /\ tmp' = [tmp EXCEPT ![TmpOf(c)] = Absent]
     \/ Step(c, "replace", "idle") /\ UNCHANGED file /\ tmp' = [tmp EXCEPT ![TmpOf(c)] = Absent]

Return(c) == Step(c, "saved", "idle") /\ UNCHANGED <<file, tmp, holder>>

\* The process dies with all its calls and its locks; what is on the disk stays.
Kill ==
  /\ pc' = [c \in Caller |-> "idle"] /\ holder' = NoOne /\ pc # pc'
  /\ mine' = [c \in Caller |-> <<>>] /\ UNCHANGED <<file, tmp, events>>

Next ==
  \/ HandEdit \/ Kill
  \/ \E c \in Caller : \/ WriteTodos(c) \/ UpdateTodo(c) \/ OpenTmp(c) \/ FillTmp(c)
                       \/ Lock(c) \/ Replace(c) \/ Return(c)
Spec == Init /\ [][Next]_vars

-----------------------------------------------------------------------------
TypeOK ==
  /\ holder \in Caller \cup {NoOne} /\ \A s \in Status : Counts[s] <= Len(file)
  /\ \A c \in Caller : pc[c] \in {"idle", "open", "fill", "lock", "replace", "saved"}

\* "Unique tmp name per call so concurrent writers don't clobber each other's tmp file
\* before the atomic replace" (todos.py:112-114): whoever saves at the same time, and
\* whatever a killed process left, a call that saves puts exactly its own list there.
SaveStep == \A c \in Caller : pc[c] = "replace" /\ pc'[c] = "saved" => file' = mine[c]
SavedWhole == [][SaveStep]_vars
-----------------------------------------------------------------------------
(* What SaveStep rests on, for a proof by induction: nobody else writes to the *)
(* temporary file of a call, so that it holds the call's list until the move.  *)
Types ==
  /\ pc \in [Caller -> {"idle", "open", "fill", "lock", "replace", "saved"}]
  /\ DOMAIN tmp = Caller /\ DOMAIN mine = Caller
Filled == \A c \in Caller : pc[c] \in {"lock", "replace"} => tmp[TmpOf(c)] = mine[c]
IInv == Types /\ Filled
=============================================================================

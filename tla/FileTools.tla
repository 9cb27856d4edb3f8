------------------------------ MODULE FileTools ------------------------------
(***************************************************************************)
(* The file tools (tools/fs) under the dispatch of a turn's calls (loop.py,    *)
(* tools/subagent.py): a turn with a mutating call runs its calls one by one,     *)
(* any other turn runs them at once.  A call looks at the tree first and          *)
(* changes it later, with nothing held in between; a sub-agent is spawned by a    *)
(* call that counts as reading, and its own calls come one after another.         *)
(*                                                                         *)
(* A name is a sequence of components.  A name that begins with one of the        *)
(* memory's roots means the workspace's file if there is one, and otherwise the   *)
(* memory's.  The text of a file is a sequence of pieces.                         *)
(***************************************************************************)
EXTENDS Naturals, Sequences, FiniteSets

CONSTANTS
  Component,     \* the components of a path
  Root,          \* those that are namespaces of the memory
  Calls,         \* the calls a model may make
  Trees,         \* the trees a turn may begin with
  MaxBatch

VARIABLES
  tree,      \* tree[path]: None, Dir, or the pieces of a file
  mounted,   \* whether a memory is mounted
  first,     \* the tree the turn began with
  batch,     \* the entries of the turn: a call, or the call of a sub-agent that is spawned
  granted,   \* a child may have been given mutating tools
  seen,      \* seen[i]: what the call under way has looked up
  answers    \* answers[i]: what entry i returned, Pending before
vars == <<tree, mounted, first, batch, granted, seen, answers>>

IsPrefix(p, q) == Len(p) <= Len(q) /\ SubSeq(q, 1, Len(p)) = p
IsStrictPrefix(p, q) == IsPrefix(p, q) /\ p # q
Path == {<<home, c>> : home \in {"workspace", "memory"}, c \in Component}
        \cup {<<home, c, d>> : home \in {"workspace", "memory"}, c \in Component, d \in Component}
None == [kind |-> "none", text |-> <<>>]
Dir == [kind |-> "dir", text |-> <<>>]
File(text) == [kind |-> "file", text |-> text]

Exists(t, p) == p \in Path /\ t[p] # None
IsDir(t, p) == Len(p) = 1 \/ (p \in Path /\ t[p] = Dir)
Under(p) == {q \in Path : IsStrictPrefix(p, q)}
Children(t, p) == {q \in Under(p) : t[q] # None /\ Len(q) = Len(p) + 1}

-----------------------------------------------------------------------------
(* Names; m: whether a memory is mounted. *)
Bare(name) == Head(name) \in Root
Resolve(m, t, c) ==
  IF c.explicit \/ (Bare(c.path) /\ m /\ ~Exists(t, <<"workspace">> \o c.path))
    THEN <<"memory">> \o c.path ELSE <<"workspace">> \o c.path
ResolveTo(m, t, c) == Resolve(m, t, [c EXCEPT !.path = c.to, !.explicit = FALSE])

\* An explicit name of the memory needs one.
Resolvable(m, c) == c.explicit => m

\* The directories above p; it fails if one of them is a file.
MakeParents(t, p) == [q \in Path |-> IF IsStrictPrefix(q, p) /\ t[q] = None THEN Dir ELSE t[q]]
Placeable(t, p) == p \in Path /\ \A q \in Path : IsStrictPrefix(q, p) => t[q].kind # "file"

-----------------------------------------------------------------------------
(* What a call looks up, and what it then does to the tree. *)
Refused == [ok |-> FALSE, answer |-> {}]
Occurrences(old, text) == IF old = "" THEN Len(text) + 1 ELSE Cardinality({i \in DOMAIN text : text[i] = old})

ReadFile(t, p) == IF t[p].kind = "file" THEN [ok |-> TRUE, answer |-> {t[p].text}] ELSE Refused
ListFiles(t, p) == IF IsDir(t, p) THEN [ok |-> TRUE, answer |-> Children(t, p)] ELSE Refused
PathStat(t, p) == IF Exists(t, p) THEN [ok |-> TRUE, answer |-> {t[p].kind}] ELSE Refused
GlobFiles(m, t, c) ==
  LET In(home) == {q \in Path : t[q] # None /\ IsPrefix(<<home>> \o c.path, q)}
  IN  [ok |-> TRUE, answer |-> IF In("workspace") = {} /\ m /\ Bare(c.path) THEN In("memory") ELSE In("workspace")]

\* What is checked of the path before the tree is changed.
Look(m, t, c) ==
  LET p == Resolve(m, t, c)
      ok == CASE c.tool = "edit_file" ->
                   IF Exists(t, p) THEN t[p].kind = "file" /\ Occurrences(c.old, t[p].text) = 1 ELSE c.old = ""
              [] c.tool = "write_file" -> (c.flag = "create_only" => ~Exists(t, p)) /\ (c.flag = "must_exist" => Exists(t, p))
              [] c.tool = "append_file" -> c.flag = "must_exist" => Exists(t, p)
              [] c.tool \in {"delete_path", "move_path"} -> Exists(t, p)
              [] c.tool = "copy_path" ->
                   /\ Exists(t, p)
                   /\ t[p] = Dir => c.flag = "recursive" /\ (Exists(t, ResolveTo(m, t, c)) => IsDir(t, ResolveTo(m, t, c)))
              [] OTHER -> TRUE
  IN  [path |-> p, to |-> ResolveTo(m, t, c), ok |-> ok /\ Resolvable(m, c), was |-> IF p \in Path THEN t[p] ELSE None]

Put(t, p, text) == IF Placeable(t, p) /\ t[p] # Dir THEN [tree |-> [t EXCEPT ![p] = File(text)], ok |-> TRUE] ELSE [tree |-> t, ok |-> FALSE]
Failed(t) == [tree |-> t, ok |-> FALSE]

Replace(old, new, text) == IF old = "" THEN <<new>> ELSE [i \in DOMAIN text |-> IF text[i] = old THEN new ELSE text[i]]
\* The text written is made from the text that was read; no directory is made.
EditFile(t, c, s) ==
  IF s.was = None
    THEN IF \A q \in Path : IsStrictPrefix(q, s.path) => t[q] = Dir THEN Put(t, s.path, <<c.new>>) ELSE Failed(t)
    ELSE Put(t, s.path, Replace(c.old, c.new, s.was.text))
WriteFile(t, c, s) == IF Placeable(t, s.path) THEN Put(MakeParents(t, s.path), s.path, <<c.new>>) ELSE Failed(t)
AppendFile(t, c, s) ==
  IF Placeable(t, s.path) THEN Put(MakeParents(t, s.path), s.path, Append(t[s.path].text, c.new)) ELSE Failed(t)
Mkdir(t, c, s) ==
  IF Placeable(t, s.path) /\ t[s.path].kind # "file"
    THEN [tree |-> [MakeParents(t, s.path) EXCEPT ![s.path] = Dir], ok |-> TRUE] ELSE Failed(t)
DeletePath(t, c, s) ==
  LET gone == {s.path} \cup (IF c.flag = "recursive" THEN Under(s.path) ELSE {})
  IN  IF Exists(t, s.path) /\ (t[s.path] = Dir => c.flag = "recursive" \/ Children(t, s.path) = {})
        THEN [tree |-> [q \in Path |-> IF q \in gone THEN None ELSE t[q]], ok |-> TRUE] ELSE Failed(t)

\* The part of the tree at one path, put at another.
Graft(t, from, to) ==
  [q \in Path |-> IF IsPrefix(to, q) /\ Exists(t, from \o SubSeq(q, Len(to) + 1, Len(q)))
                    THEN t[from \o SubSeq(q, Len(to) + 1, Len(q))] ELSE t[q]]
Fits(t, from, to) == \A q \in Under(from) : t[q] # None => (to \o SubSeq(q, Len(from) + 1, Len(q))) \in Path
Inside(t, c, s) == IF IsDir(t, s.to) THEN Append(s.to, s.path[Len(s.path)]) ELSE s.to
MovePath(t, c, s) ==
  LET to == Inside(t, c, s)  made == MakeParents(t, to)
  IN  IF s.to = s.path /\ Exists(t, s.path) THEN [tree |-> t, ok |-> TRUE]
      ELSE IF /\ Exists(t, s.path) /\ Placeable(t, to) /\ Fits(t, s.path, to) /\ ~IsPrefix(s.path, to)
         /\ ~(IsDir(t, s.to) /\ Exists(t, to)) /\ ~(t[s.path] = Dir /\ Exists(t, to))
        THEN [tree |-> [q \in Path |-> IF IsPrefix(s.path, q) THEN None ELSE Graft(made, s.path, to)[q]], ok |-> TRUE]
        ELSE Failed(t)
CopyPath(t, c, s) ==
  LET to == IF t[s.path] = Dir THEN s.to ELSE Inside(t, c, s)
  IN  IF /\ Exists(t, s.path) /\ Placeable(t, to) /\ Fits(t, s.path, to) /\ ~IsPrefix(s.path, to)
         /\ \A q \in Under(s.path) \cup {s.path} : t[q] # None =>
              LET p == to \o SubSeq(q, Len(s.path) + 1, Len(q)) IN t[p] = None \/ t[p].kind = t[q].kind
        THEN [tree |-> Graft(MakeParents(t, to), s.path, to), ok |-> TRUE] ELSE Failed(t)

Act(t, c, s) ==
  IF ~s.ok THEN Failed(t)
  ELSE CASE c.tool = "edit_file" -> EditFile(t, c, s) [] c.tool = "write_file" -> WriteFile(t, c, s)
         [] c.tool = "append_file" -> AppendFile(t, c, s) [] c.tool = "mkdir" -> Mkdir(t, c, s)
         [] c.tool = "delete_path" -> DeletePath(t, c, s) [] c.tool = "move_path" -> MovePath(t, c, s)
         [] c.tool = "copy_path" -> CopyPath(t, c, s)

Mutates(c) == c.tool \in {"edit_file", "write_file", "append_file", "mkdir", "delete_path", "move_path", "copy_path"}
Answer(m, t, c) ==
  LET p == Resolve(m, t, c)
  IN  CASE ~Resolvable(m, c) -> Refused
        [] c.tool = "read_file" -> ReadFile(t, p) [] c.tool = "list_files" -> ListFiles(t, p)
        [] c.tool = "path_stat" -> PathStat(t, p) [] c.tool = "glob_files" -> GlobFiles(m, t, c)

-----------------------------------------------------------------------------
(* A turn. *)
Entry == [spawn : {FALSE}, call : Calls] \cup [spawn : {TRUE}, call : {c \in Calls : granted \/ ~Mutates(c)}]
Nothing == [path |-> <<>>, to |-> <<>>, ok |-> FALSE, was |-> None]
Pending == [ok |-> FALSE, answer |-> {"pending"}]

Init ==
  /\ tree \in Trees /\ first = tree /\ mounted \in BOOLEAN /\ granted \in BOOLEAN
  /\ batch = <<>> /\ seen = <<>> /\ answers = <<>>

\* The model answers with its calls.
Turn ==
  /\ batch = <<>>
  /\ \E b \in UNION {[1 .. n -> Entry] : n \in 1 .. MaxBatch} :
       batch' = b /\ answers' = [i \in DOMAIN b |-> Pending] /\ seen' = [i \in DOMAIN b |-> Nothing]
  /\ UNCHANGED <<tree, mounted, first, granted>>

\* Only a tool's own flag counts: a spawn is a reading tool, whatever its child may do.
EntryMutates(e) == ~e.spawn /\ Mutates(e.call)
\* Faulty variant: one reading call is enough for the calls to run at once.
HasMutationAll(b) == \A i \in DOMAIN b : EntryMutates(b[i])
HasMutation(b) == \E i \in DOMAIN b : EntryMutates(b[i])
Ended(i) == answers[i] # Pending
\* One at a time in their order, or all at once.
Runs(i) == ~Ended(i) /\ (HasMutation(batch) => \A j \in 1 .. i - 1 : Ended(j))

Reading(i) ==
  /\ Runs(i) /\ ~Mutates(batch[i].call)
  /\ answers' = [answers EXCEPT ![i] = Answer(mounted, tree, batch[i].call)]
  /\ UNCHANGED <<tree, mounted, first, batch, granted, seen>>
Looking(i) ==
  /\ Runs(i) /\ Mutates(batch[i].call) /\ seen[i] = Nothing
  /\ seen' = [seen EXCEPT ![i] = Look(mounted, tree, batch[i].call)]
  /\ UNCHANGED <<tree, mounted, first, batch, granted, answers>>
Acting(i) ==
  /\ Runs(i) /\ seen[i] # Nothing
  /\ LET done == Act(tree, batch[i].call, seen[i])
     IN  tree' = done.tree /\ answers' = [answers EXCEPT ![i] = [ok |-> done.ok, answer |-> {}]]
  /\ seen' = [seen EXCEPT ![i] = Nothing]
  /\ UNCHANGED <<mounted, first, batch, granted>>

Execute == \E i \in DOMAIN batch : Reading(i) \/ Looking(i) \/ Acting(i)
Next == Turn \/ Execute
Spec == Init /\ [][Next]_vars

-----------------------------------------------------------------------------
TypeOK ==
  /\ DOMAIN tree = Path /\ batch \in Seq(Entry)
  /\ DOMAIN seen = DOMAIN batch /\ DOMAIN answers = DOMAIN batch

\* A call as one reads it, whole.
Whole(m, t, c) ==
  LET done == Act(t, c, Look(m, t, c))
  IN  IF Mutates(c) THEN [tree |-> done.tree, answer |-> [ok |-> done.ok, answer |-> {}]]
      ELSE [tree |-> t, answer |-> Answer(m, t, c)]
\* The turn as one reads it: the trees after each of its calls, one after the other.
InOrder(m, b, t) ==
  LET after[n \in 0 .. Len(b)] == IF n = 0 THEN t ELSE Whole(m, after[n - 1], b[n].call).tree IN after
Over == batch # <<>> /\ \A i \in DOMAIN batch : Ended(i)
AsInOrder ==
  LET after == InOrder(mounted, batch, first)
  IN  /\ tree = after[Len(batch)]
      /\ \A i \in DOMAIN batch : answers[i] = Whole(mounted, after[i - 1], batch[i].call).answer

\* What a turn leaves in the tree, and what it answers, is what its calls give in the order
\* the model wrote them: as long as sub-agents have only reading tools (the default list).
TurnsAreDeterministic == Over /\ ~granted => AsInOrder

\* Inductive: one by one, what the calls so far have left is what they leave in their order,
\* and only the next one looks; at once, nothing changes.
Until(i) == \A j \in 1 .. i - 1 : Ended(j)
OneByOne ==
  HasMutation(batch) =>
    /\ \A i \in DOMAIN batch : Ended(i) => Until(i)
    /\ \A i \in DOMAIN batch : seen[i] # Nothing =>
         Until(i) /\ ~Ended(i) /\ seen[i] = Look(mounted, tree, batch[i].call)
    /\ \A n \in 0 .. Len(batch) :
         Until(n + 1) /\ (\A j \in n + 1 .. Len(batch) : ~Ended(j)) => tree = InOrder(mounted, batch, first)[n]
AtOnce == ~HasMutation(batch) => tree = first /\ \A i \in DOMAIN batch : seen[i] = Nothing
Answered ==
  \A i \in DOMAIN batch : Ended(i) => answers[i] = Whole(mounted, InOrder(mounted, batch, first)[i - 1], batch[i].call).answer
Looked == \A i \in DOMAIN batch : seen[i] # Nothing => Mutates(batch[i].call)
IInv ==
  /\ TypeOK /\ Looked
  /\ ~granted => /\ \A i \in DOMAIN batch : batch[i].spawn => ~Mutates(batch[i].call)
                 /\ OneByOne /\ AtOnce /\ Answered

\* "Execute a model-emitted tool batch with deterministic mutation semantics" (loop.py:141):
\* also when sub-agents are granted mutating tools.
MutationsAreDeterministic == Over => AsInOrder
=============================================================================

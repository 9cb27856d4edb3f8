----------------------------- MODULE SearchIndex -----------------------------
(***************************************************************************)
(* The persistent search indexes (bm25_index.py, embedding_index.py): an    *)
(* SQLite file that every session of the repository brings up to date       *)
(* before it searches.  Sessions of several processes build at the same     *)
(* time, file by file, while files are written and deleted.  kind is        *)
(* "bm25" or "vectors": the vector index is built over scopes of its own,   *)
(* whatever scopes are asked for, and leaves what it held of a file that has *)
(* lost its text.  A file that cannot be read, or embedded, is passed over.  *)
(***************************************************************************)
EXTENDS Naturals, FiniteSets

CONSTANTS
  Session, File,
  ScopeOf(_),   \* search scope of a file: its top directory
  VectorScopes, \* DEFAULT_SCOPES of embedding_index.py
  Kinds,        \* subset of {"bm25", "vectors"}
  MaxWrites, MaxBuilds

Blank == 0               \* a text without words
NoFile == [text |-> Blank, mtime |-> 0]
Scopes == {ScopeOf(f) : f \in File}

VARIABLES
  kind,
  file,     \* the working tree: text and modification time; mtime 0 is no file
  index,    \* rows of the index file; mtime 0 is no row
  writes, builds,
  at,       \* of each session: "idle", "walk", "read", "store", "prune", "found"
  scopes, todo, seen, held, stale, found,
  dropped,       \* of its build: the files that could not be read or embedded
  quiet, alone   \* of its build: no file has changed, no other build overlaps

vars == <<kind, file, index, writes, builds, at, scopes, todo, seen, held, stale,
          found, dropped, quiet, alone>>
disk == <<kind, file, writes, builds>>

Init ==
  /\ kind \in Kinds
  /\ file = [f \in File |-> NoFile] /\ index = [f \in File |-> NoFile]
  /\ writes = 0 /\ builds = 0
  /\ at = [s \in Session |-> "idle"] /\ scopes = [s \in Session |-> {}]
  /\ todo = [s \in Session |-> {}] /\ seen = [s \in Session |-> {}]
  /\ held = [s \in Session |-> NoFile] /\ stale = [s \in Session |-> {}]
  /\ found = [s \in Session |-> {}] /\ dropped = [s \in Session |-> {}]
  /\ quiet = [s \in Session |-> TRUE] /\ alone = [s \in Session |-> TRUE]

\* A row of the index, or a file as it is read.
Doc == [text : Nat, mtime : 0 .. MaxWrites]
Exists(f) == file[f].mtime > 0
Within(f, ss) == ScopeOf(f) \in ss
Building(s) == at[s] \notin {"idle", "found"}
\* A build is over: its local variables are gone.
Leave(s) ==
  /\ todo' = [todo EXCEPT ![s] = {}] /\ seen' = [seen EXCEPT ![s] = {}]
  /\ held' = [held EXCEPT ![s] = NoFile] /\ stale' = [stale EXCEPT ![s] = {}]

-----------------------------------------------------------------------------
\* Anyone writes or deletes a file; the clock has moved since the last write.
\* The text of a write is its number, or blank.
Write ==
  \E f \in File, blank \in BOOLEAN :
    /\ writes < MaxWrites /\ writes' = writes + 1
    /\ file' = [file EXCEPT ![f] = [text |-> IF blank THEN Blank ELSE writes', mtime |-> writes']]
    /\ quiet' = [s \in Session |-> FALSE]
    /\ UNCHANGED <<kind, index, builds, at, scopes, todo, seen, held, stale, found, dropped, alone>>

Delete ==
  \E f \in File :
    /\ Exists(f) /\ writes < MaxWrites /\ writes' = writes + 1
    /\ file' = [file EXCEPT ![f] = NoFile]
    /\ quiet' = [s \in Session |-> FALSE]
    /\ UNCHANGED <<kind, index, builds, at, scopes, todo, seen, held, stale, found, dropped, alone>>

-----------------------------------------------------------------------------
\* build_index: the files of the scopes are listed, then taken one by one.  The
\* recall does not tell the vector index which scopes it is asked for.
Built(k, ss) == IF k = "vectors" THEN VectorScopes ELSE ss
Start(s) ==
  /\ at[s] \in {"idle", "found"} /\ builds < MaxBuilds /\ builds' = builds + 1
  /\ \E ss \in {Scopes} \cup {{x} : x \in Scopes} :
       LET listed == {f \in File : Exists(f) /\ Within(f, Built(kind, ss))} IN
       /\ scopes' = [scopes EXCEPT ![s] = ss]
       /\ todo' = [todo EXCEPT ![s] = listed] /\ seen' = [seen EXCEPT ![s] = listed]
  /\ at' = [at EXCEPT ![s] = "walk"] /\ found' = [found EXCEPT ![s] = {}]
  /\ dropped' = [dropped EXCEPT ![s] = {}] /\ quiet' = [quiet EXCEPT ![s] = TRUE]
  /\ alone' = [t \in Session |-> IF t = s THEN \A u \in Session : ~Building(u)
                                 ELSE alone[t] /\ ~Building(t)]
  /\ UNCHANGED <<kind, file, index, writes, held, stale>>

\* Faulty variant: a file that has a row is not looked at again.
KnownOnly(f) == index[f].mtime = 0
\* _needs_reindex
NeedsReindex(f) == index[f].mtime = 0 \/ index[f].mtime < file[f].mtime

\* One file: its time is read and compared, then its text is read.
Check(s) ==
  /\ at[s] = "walk"
  /\ \E f \in todo[s] :
       /\ Exists(f) /\ todo' = [todo EXCEPT ![s] = @ \ {f}]
       /\ IF NeedsReindex(f)
          THEN /\ at' = [at EXCEPT ![s] = "read"]
               /\ held' = [held EXCEPT ![s] = [file |-> f, text |-> Blank, mtime |-> file[f].mtime]]
          ELSE UNCHANGED <<at, held>>
  /\ UNCHANGED <<disk, index, scopes, seen, stale, found, dropped, quiet, alone>>

\* The listed file is gone: one error of many, or the end of a vector build,
\* whose stat is not guarded.
Gone(s) ==
  /\ kind = "bm25" /\ at[s] = "walk"
  /\ \E f \in todo[s] : ~Exists(f) /\ todo' = [todo EXCEPT ![s] = @ \ {f}]
  /\ UNCHANGED <<disk, index, at, scopes, seen, held, stale, found, dropped, quiet, alone>>
GoneVectors(s) ==
  /\ kind = "vectors" /\ at[s] = "walk"
  /\ \E f \in todo[s] : ~Exists(f)
  /\ at' = [at EXCEPT ![s] = "idle"] /\ Leave(s)
  /\ UNCHANGED <<disk, index, scopes, found, dropped, quiet, alone>>

Read(s) ==
  /\ at[s] = "read" /\ Exists(held[s].file) /\ at' = [at EXCEPT ![s] = "store"]
  /\ held' = [held EXCEPT ![s].text = file[held[s].file].text]
  /\ UNCHANGED <<disk, index, scopes, todo, seen, stale, found, dropped, quiet, alone>>

\* The file cannot be read, or is gone, or gives no embedding, or the vector
\* index's database is locked: an error is counted and the walk goes on.
Drop(s) ==
  /\ at[s] = "read" \/ (kind = "vectors" /\ at[s] = "store")
  /\ at' = [at EXCEPT ![s] = "walk"] /\ held' = [held EXCEPT ![s] = NoFile]
  /\ dropped' = [dropped EXCEPT ![s] = @ \cup {held[s].file}]
  /\ UNCHANGED <<disk, index, scopes, todo, seen, stale, found, quiet, alone>>

\* A text that is not UTF-8 ends a BM25 build.
Undecodable(s) ==
  /\ kind = "bm25" /\ at[s] = "read" /\ Exists(held[s].file)
  /\ at' = [at EXCEPT ![s] = "idle"] /\ Leave(s)
  /\ UNCHANGED <<disk, index, scopes, found, dropped, quiet, alone>>

\* index_file: the rows of one file are replaced in one transaction; the vector
\* index leaves them when the text gives no chunk.
Row(s) == [text |-> held[s].text, mtime |-> held[s].mtime]
Stored(s) ==
  /\ at[s] = "store" /\ at' = [at EXCEPT ![s] = "walk"] /\ held' = [held EXCEPT ![s] = NoFile]
  /\ UNCHANGED <<disk, scopes, todo, seen, stale, found, dropped, quiet, alone>>
Store(s) ==
  /\ kind = "bm25" /\ Stored(s) /\ index' = [index EXCEPT ![held[s].file] = Row(s)]
StoreVectors(s) ==
  /\ kind = "vectors" /\ Stored(s)
  /\ index' = IF held[s].text = Blank THEN index ELSE [index EXCEPT ![held[s].file] = Row(s)]

\* The rows of the scopes that were not listed are dropped, one by one.
Listed(s) ==
  /\ at[s] = "walk" /\ todo[s] = {} /\ at' = [at EXCEPT ![s] = "prune"]
  /\ stale' = [stale EXCEPT ![s] = {f \in File : index[f].mtime > 0 /\ f \notin seen[s]
                                                  /\ Within(f, Built(kind, scopes[s]))}]
  /\ UNCHANGED <<disk, index, scopes, todo, seen, held, found, dropped, quiet, alone>>

Prune(s) ==
  /\ at[s] = "prune" /\ stale[s] # {}
  /\ \E f \in stale[s] : /\ index' = [index EXCEPT ![f] = NoFile]
                         /\ stale' = [stale EXCEPT ![s] = @ \ {f}]
  /\ UNCHANGED <<disk, at, scopes, todo, seen, held, found, dropped, quiet, alone>>

\* What a search ranks, and the recall keeps: rows with text, in scope; a BM25 hit
\* must still be a file, a chunk carries its text.
Rows(ss) == {f \in File : index[f].mtime > 0 /\ index[f].text # Blank /\ Within(f, ss)}
HitsBm25(ss) == {f \in Rows(ss) : Exists(f)}
HitsVectors(ss) == Rows(ss)
Search(s) ==
  /\ at[s] = "prune" /\ stale[s] = {} /\ at' = [at EXCEPT ![s] = "found"]
  /\ found' = [found EXCEPT ![s] =
       {<<f, index[f].text>> : f \in IF kind = "bm25" THEN HitsBm25(scopes[s]) ELSE HitsVectors(scopes[s])}]
  /\ Leave(s) /\ UNCHANGED <<disk, index, scopes, dropped, quiet, alone>>

\* The database is locked: the recall goes on without this back end.
Locked(s) ==
  /\ Building(s) /\ \E t \in Session \ {s} : Building(t)
  /\ at' = [at EXCEPT ![s] = "idle"] /\ Leave(s)
  /\ UNCHANGED <<disk, index, scopes, found, dropped, quiet, alone>>

Next ==
  \/ Write \/ Delete
  \/ \E s \in Session : Start(s) \/ Check(s) \/ Gone(s) \/ GoneVectors(s) \/ Read(s) \/ Drop(s) \/ Undecodable(s) \/ Store(s)
                        \/ StoreVectors(s) \/ Listed(s) \/ Prune(s) \/ Search(s) \/ Locked(s)
Spec == Init /\ [][Next]_vars

-----------------------------------------------------------------------------
TypeOK ==
  /\ index \in [File -> Doc]
  /\ at \in [Session -> {"idle", "walk", "read", "store", "prune", "found"}]

Emptied == {f \in File : Exists(f) /\ file[f].text = Blank}
Sure(s) == {f \in File : (kind = "bm25" \/ f \notin Emptied) /\ f \notin dropped[s]}
AsTheyAre(s) ==
  {<<f, file[f].text>> : f \in {g \in Sure(s) \ Emptied :
     Exists(g) /\ Within(g, scopes[s]) /\ Within(g, Built(kind, scopes[s]))}}

\* What earlier sessions left behind, half-built or overtaken by changes, does
\* not show: no row claims to be newer than its text, so a search after a build of
\* its own, undisturbed, ranks every file of its scopes with its present text and
\* nothing else (bm25_index.py:125-132, 158-226), but for the files the build has
\* dropped and, of the vector index, those outside its own scopes, of which it
\* ranks nothing, and the chunks of files that lost their text.
SearchSees ==
  /\ \A f \in File : index[f].text # Blank => index[f].text >= index[f].mtime
  /\ \A s \in Session :
       at[s] = "found" /\ quiet[s] /\ alone[s] =>
         {h \in found[s] : h[1] \in Sure(s)} = AsTheyAre(s)
-----------------------------------------------------------------------------
(* What SearchSees rests on, for a proof by induction. *)
Held == [file : File, text : Nat, mtime : Nat]
Types ==
  /\ file \in [File -> [text : Nat, mtime : Nat]] /\ held \in [Session -> Held \cup {NoFile}]
  /\ todo \in [Session -> SUBSET File] /\ seen \in [Session -> SUBSET File]
  /\ stale \in [Session -> SUBSET File] /\ scopes \in [Session -> SUBSET Scopes]
  /\ found \in [Session -> SUBSET (File \X Nat)] /\ dropped \in [Session -> SUBSET File]
  /\ quiet \in [Session -> BOOLEAN] /\ alone \in [Session -> BOOLEAN] /\ writes \in 0 .. MaxWrites
  /\ kind \in {"bm25", "vectors"}
  /\ \A s \in Session : at[s] \in {"read", "store"} => held[s] \in Held

\* What is known of a file, of the index or of a build, was so at the time it gives or
\* later, and never of a later version than the file has.
AsOf(f, text, mtime) ==
  /\ mtime <= writes /\ (text # Blank => text >= mtime)
  /\ Exists(f) => mtime <= file[f].mtime /\ (mtime = file[f].mtime => text = file[f].text)
Dated ==
  /\ \A f \in File : file[f].mtime <= writes /\ file[f].text \in {Blank, file[f].mtime}
  /\ \A f \in File : AsOf(f, index[f].text, index[f].mtime)
  /\ \A s \in Session :
       /\ at[s] = "read" => held[s].mtime \in 1 .. writes /\ (Exists(held[s].file) => held[s].mtime <= file[held[s].file].mtime)
       /\ at[s] = "store" => held[s].mtime >= 1 /\ AsOf(held[s].file, held[s].text, held[s].mtime)

\* A build that nobody disturbs has the rows of the files it is done with as the files are.
Undisturbed(s) == Building(s) /\ quiet[s] /\ alone[s]
AloneIsAlone == \A s, t \in Session : Building(s) /\ alone[s] /\ t # s => ~Building(t)
RowIsFile(f) == kind = "bm25" \/ file[f].text # Blank => index[f].mtime > 0 /\ index[f].text = file[f].text
DoneRight ==
  \A s \in Session : Undisturbed(s) =>
    /\ seen[s] = {f \in File : Exists(f) /\ Within(f, Built(kind, scopes[s]))} /\ todo[s] \subseteq seen[s]
    /\ at[s] \in {"read", "store"} =>
         held[s].file \in seen[s] /\ held[s].mtime = file[held[s].file].mtime
    /\ \A f \in seen[s] \ todo[s] :
         RowIsFile(f) \/ f \in dropped[s] \/ (at[s] \in {"read", "store"} /\ held[s].file = f)
    /\ at[s] = "prune" =>
         /\ todo[s] = {} /\ stale[s] \cap seen[s] = {}
         /\ \A f \in File : index[f].mtime > 0 /\ Within(f, Built(kind, scopes[s])) => f \in seen[s] \cup stale[s]
\* The vector index has rows in its own scopes only.
InScope ==
  kind = "vectors" =>
    /\ \A f \in File : index[f].mtime > 0 => Within(f, VectorScopes)
    /\ \A s \in Session : \A f \in todo[s] : Within(f, VectorScopes)
    /\ \A s \in Session : at[s] \in {"read", "store"} => Within(held[s].file, VectorScopes)
IInv == TypeOK /\ Types /\ Dated /\ AloneIsAlone /\ DoneRight /\ InScope /\ SearchSees
=============================================================================

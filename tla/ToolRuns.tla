------------------------------ MODULE ToolRuns ------------------------------
(***************************************************************************)
(* The tools that run programs (python_eval, python_exec, run_script, bash)     *)
(* and the dispatch that hands their output to the model.  The callers are the    *)
(* sessions and sub-agents of one workspace, whose programs share an output       *)
(* directory.  A run takes a snapshot of that directory, starts a process, waits  *)
(* for its end or its time-out, compares the directory with the snapshot, puts    *)
(* output that is too long for the model into files and answers.                  *)
(*                                                                         *)
(* A text is its length in thousands of characters; a snapshot is taken at once.  *)
(***************************************************************************)
EXTENDS Naturals, Sequences, FiniteSets

CONSTANTS
  Caller,
  Name,        \* the files that programs write to the output directory
  Sources,     \* what is run: [tool, future, last]
  Outputs,     \* what a program prints: [out, err, marks, value]
  Budget, Preview, MaxBash,   \* what fits: an answer, a stream, bash's streams
  MaxRuns, MaxEvents

VARIABLES
  python,       \* is the configured interpreter there
  clock,
  disk,         \* the output directory: disk[file] = <<run, kind of text>>
  scripts,      \* the saved scripts: scripts[stamp] = the run they were saved for
  temps,        \* the runs whose temporary script is still there
  orphans,      \* the runs that left a process behind
  pc, call, serial, stamp, pre, wrote, alone, ran,   \* of each caller: the run under way
  report,       \* its last answer
  runs, events
request == <<call, serial, stamp>>
vars == <<python, clock, disk, scripts, temps, orphans, pc, request, pre, wrote, alone, ran, report,
          runs, events>>

Tool == {"python_eval", "python_exec", "run_script", "script", "bash"}
File == {<<n, 0>> : n \in Name} \cup ({"stdout", "stderr"} \X Nat)
Composed == {"python_eval", "python_exec"}   \* the code goes to a temporary file
MayFork(tool) == tool # "python_exec"
Put(f, x, y) == [z \in DOMAIN f \cup {x} |-> IF z = x THEN y ELSE f[z]]

\* RunRequest and RunResult before anything is known.
NoRun == [tool |-> "none", future |-> "none", last |-> FALSE]
NoOutput == [out |-> 0, err |-> 0, marks |-> FALSE, value |-> 0]
NoReport == [run |-> 0, tool |-> "none", out |-> 0, err |-> 0, result |-> "none",
             value |-> 0, files |-> {}, foreign |-> {}, kept |-> {}, script |-> 0, reached |-> FALSE, alone |-> TRUE]

Init ==
  /\ python \in BOOLEAN /\ clock = 1
  /\ disk = <<>> /\ scripts = <<>> /\ temps = {} /\ orphans = {}
  /\ pc = [c \in Caller |-> "idle"] /\ call = [c \in Caller |-> NoRun]
  /\ serial = [c \in Caller |-> 0] /\ stamp = [c \in Caller |-> 0] /\ pre = [c \in Caller |-> {}]
  /\ wrote = [c \in Caller |-> {}] /\ alone = [c \in Caller |-> TRUE]
  /\ ran = [c \in Caller |-> NoOutput] /\ report = [c \in Caller |-> NoReport]
  /\ runs = 0 /\ events = 0

Event == events < MaxEvents /\ events' = events + 1

-----------------------------------------------------------------------------
(* A run begins. *)

\* Faulty variant: the scripts are named by the second.
StampOfSecond == clock \div 2
Stamp == clock

\* The code is saved for the trace by run_script, else written to a temporary file; a script
\* that is there already is run in its place.
Save(c, source) ==
  CASE source.tool = "run_script" ->
         scripts' = Put(scripts, Stamp, serial'[c]) /\ clock' = clock + 1 /\ UNCHANGED temps
    [] source.tool \in Composed -> temps' = temps \cup {serial'[c]} /\ UNCHANGED <<scripts, clock>>
    [] OTHER -> UNCHANGED <<temps, scripts, clock>>
Call(c) ==
  /\ pc[c] = "idle" /\ runs < MaxRuns /\ runs' = runs + 1
  /\ serial' = [serial EXCEPT ![c] = runs']
  /\ \E source \in Sources :
       /\ call' = [call EXCEPT ![c] = source]
       /\ Save(c, source)
       /\ stamp' = [stamp EXCEPT ![c] = IF source.tool = "run_script" THEN Stamp ELSE 0]
  /\ report' = [report EXCEPT ![c] = NoReport]
  /\ pc' = [pc EXCEPT ![c] = "saved"]
  /\ UNCHANGED <<python, disk, orphans, pre, wrote, alone, ran, events>>

\* Nothing may come before an import from __future__ but comments and a text: the prelude
\* goes after such imports if they are the first lines, and is simply put in front by
\* run_script.  The code that is rewritten for its last expression loses its comments.
Compiles(source) ==
  CASE source.tool \in Composed -> source.future \in {"none", "first"} \/ (source.future = "commented" /\ source.last)
    [] source.tool = "run_script" -> source.future = "none"
    [] OTHER -> TRUE

\* A call is over and its locals are gone.
Forget(c) ==
  /\ pc' = [pc EXCEPT ![c] = "idle"] /\ call' = [call EXCEPT ![c] = NoRun]
  /\ serial' = [serial EXCEPT ![c] = 0] /\ stamp' = [stamp EXCEPT ![c] = 0]
  /\ pre' = [pre EXCEPT ![c] = {}] /\ wrote' = [wrote EXCEPT ![c] = {}] /\ ran' = [ran EXCEPT ![c] = NoOutput]

\* An interpreter that is not there is found missing when the temporary script is written.
Missing(c) == ~python /\ call[c].tool # "bash"
Raise(c) ==
  /\ pc[c] = "saved" /\ Missing(c) /\ Forget(c)
  /\ UNCHANGED <<python, clock, disk, scripts, temps, orphans, alone, report, runs, events>>

SnapshotDir == DOMAIN disk
Start(c) ==
  /\ pc[c] = "saved" /\ ~Missing(c)
  /\ pre' = [pre EXCEPT ![c] = SnapshotDir]
  /\ wrote' = [wrote EXCEPT ![c] = {}] /\ alone' = [alone EXCEPT ![c] = TRUE]
  /\ pc' = [pc EXCEPT ![c] = "running"]
  /\ UNCHANGED <<python, clock, disk, scripts, temps, orphans, request, ran, report, runs, events>>

-----------------------------------------------------------------------------
(* The programs. *)
Live(c) == pc[c] \in {"running", "ended"}
\* The runs under way, other than c's, are not alone any more.
Disturbed(c, file) ==
  IF file \in DOMAIN disk THEN alone ELSE [d \in Caller |-> alone[d] /\ (d = c \/ ~Live(d))]

Write(c) ==
  /\ Event /\ pc[c] = "running" /\ Compiles(call[c])
  /\ \E n \in Name :
       /\ disk' = Put(disk, <<n, 0>>, <<serial[c], "file">>)
       /\ wrote' = [wrote EXCEPT ![c] = IF <<n, 0>> \in DOMAIN disk THEN @ ELSE @ \cup {<<n, 0>>}]
       /\ alone' = Disturbed(c, <<n, 0>>)
  /\ UNCHANGED <<python, clock, scripts, temps, orphans, pc, request, pre, ran, report, runs>>

Remove(c) ==
  /\ Event /\ pc[c] = "running" /\ Compiles(call[c])
  /\ \E file \in {f \in DOMAIN disk : f[2] = 0} :
       /\ disk' = [f \in DOMAIN disk \ {file} |-> disk[f]]
       /\ wrote' = [d \in Caller |-> wrote[d] \ {file}]
  /\ UNCHANGED <<python, clock, scripts, temps, orphans, pc, request, pre, alone, ran, report, runs>>

\* A process that a program started goes on when the program is killed or has ended.
Linger(run) ==
  /\ Event /\ run \in orphans
  /\ \E n \in Name :
       /\ disk' = Put(disk, <<n, 0>>, <<run, "file">>)
       /\ alone' = IF <<n, 0>> \in DOMAIN disk THEN alone ELSE [d \in Caller |-> alone[d] /\ ~Live(d)]
  /\ UNCHANGED <<python, clock, scripts, temps, orphans, pc, request, pre, wrote, ran, report, runs>>

\* The value of a last expression is printed between two marks after all else.
Captures(source) == source.tool \in Composed /\ source.last
RewriteForLastExpr(source, o) ==
  IF ~Compiles(source) THEN [NoOutput EXCEPT !.err = 1]
  ELSE IF Captures(source) THEN o ELSE [o EXCEPT !.value = 0]
Left(c) == IF MayFork(call[c].tool) THEN {orphans, orphans \cup {serial[c]}} ELSE {orphans}

Exit(c) ==
  /\ pc[c] = "running"
  /\ \E o \in Outputs : ran' = [ran EXCEPT ![c] = RewriteForLastExpr(call[c], o)]
  /\ orphans' \in (IF Compiles(call[c]) THEN Left(c) ELSE {orphans})
  /\ pc' = [pc EXCEPT ![c] = "ended"]
  /\ UNCHANGED <<python, clock, disk, scripts, temps, request, pre, wrote, alone, report, runs, events>>

\* A time-out kills the program.  What it had printed is kept where it is handed over as
\* text and lost where it is bytes; bash hands its time-out on as an error.
Expire(c) ==
  /\ pc[c] = "running" /\ Compiles(call[c])
  /\ IF call[c].tool = "bash" THEN Forget(c)
     ELSE /\ \E o \in Outputs \cup {NoOutput} :
                ran' = [ran EXCEPT ![c] = [RewriteForLastExpr(call[c], o) EXCEPT !.err = @ + 1]]
          /\ pc' = [pc EXCEPT ![c] = "ended"]
          /\ UNCHANGED <<call, serial, stamp, pre, wrote>>
  /\ orphans' \in Left(c)
  /\ UNCHANGED <<python, clock, disk, scripts, temps, alone, report, runs, events>>

-----------------------------------------------------------------------------
(* What is made of its output. *)

\* Faulty variant: the first mark is taken for the start of the value.
FirstResult(source, o) ==
  IF ~Captures(source) THEN "none" ELSE IF o.marks THEN "printed" ELSE IF o.value > 0 THEN "own" ELSE "none"
\* The value stands between the last mark of the start and the mark that follows it; what a
\* program prints that has such marks is taken for a value if there is none after it.
ExtractResult(source, o) ==
  IF source.tool \notin Composed THEN "none"
  ELSE IF o.value > 0 THEN "own" ELSE IF o.marks THEN "printed" ELSE "none"

Long(c) ==
  IF call[c].tool = "bash" THEN {}
  ELSE {label \in {"stdout", "stderr"} : (IF label = "stdout" THEN ran[c].out ELSE ran[c].err) > Preview}

\* Faulty variant: the long streams are saved before the files are counted.
CreatedAndKept(c) == (DOMAIN disk \cup {<<label, Stamp>> : label \in Long(c)}) \ pre[c]
FilesCreated(c) == IF call[c].tool = "bash" THEN {} ELSE DOMAIN disk \ pre[c]

\* The end of run_python: the temporary script is removed, the directory is compared.
Compare(c) ==
  /\ pc[c] = "ended"
  /\ temps' = temps \ {serial[c]}
  /\ report' = [report EXCEPT ![c] =
       [run |-> serial[c], tool |-> call[c].tool, out |-> ran[c].out, err |-> ran[c].err,
        result |-> ExtractResult(call[c], ran[c]), value |-> ran[c].value,
        files |-> FilesCreated(c), foreign |-> FilesCreated(c) \ wrote[c], kept |-> {}, script |-> stamp[c],
        reached |-> ran[c].value > 0, alone |-> alone[c]]]
  /\ pc' = [pc EXCEPT ![c] = "compared"]
  /\ UNCHANGED <<python, clock, disk, scripts, orphans, request, pre, wrote, alone, ran, runs, events>>

\* _preview_with_artifact, for both streams.
PreviewWithArtifact(c) ==
  LET kept == {<<label, Stamp>> : label \in Long(c)}
  IN  /\ disk' = [f \in DOMAIN disk \cup kept |-> IF f \in kept THEN <<serial[c], f[1]>> ELSE disk[f]]
      /\ report' = [report EXCEPT ![c].kept = kept]
      /\ alone' = IF kept = {} THEN alone ELSE [d \in Caller |-> alone[d] /\ ~Live(d)]
      /\ clock' = IF kept = {} THEN clock ELSE clock + 1
Return(c) ==
  /\ pc[c] = "compared" /\ PreviewWithArtifact(c) /\ Forget(c)
  /\ UNCHANGED <<python, scripts, temps, orphans, runs, events>>

\* The session's process is killed; the program goes on.
Kill(c) ==
  /\ Event /\ pc[c] # "idle" /\ pc[c] # "dead"
  /\ orphans' = IF pc[c] = "running" THEN orphans \cup {serial[c]} ELSE orphans
  /\ pc' = [pc EXCEPT ![c] = "dead"]
  /\ UNCHANGED <<python, clock, disk, scripts, temps, request, pre, wrote, alone, ran, report, runs>>

Next ==
  \/ \E c \in Caller :
       Call(c) \/ Raise(c) \/ Start(c) \/ Write(c) \/ Remove(c) \/ Exit(c) \/ Expire(c)
       \/ Compare(c) \/ Return(c) \/ Kill(c)
  \/ \E run \in orphans : Linger(run)
Spec == Init /\ [][Next]_vars

-----------------------------------------------------------------------------
(* The answer: its sections in order, each with its length. *)
Shown(length) == IF length > Preview THEN Preview + 1 ELSE length
Lines(label, length) == IF length = 0 THEN <<>> ELSE <<<<label, length>>>>

FormatResult(r) ==
  Lines("exit", 1) \o Lines("stdout", Shown(r.out)) \o Lines("stderr", Shown(r.err))
    \o Lines("result", IF r.result = "none" THEN 0 ELSE r.value + 1)
    \o Lines("artifacts", Cardinality(r.kept))
FormatScript(r) ==
  Lines("exit", 1) \o Lines("stdout", Shown(r.out)) \o Lines("stderr", Shown(r.err))
    \o Lines("files", Cardinality(r.files)) \o Lines("script", 1) \o Lines("artifacts", Cardinality(r.kept))
\* Two streams of which the end is cut.
FormatBash(r) ==
  LET out == IF r.out + 1 > MaxBash THEN MaxBash - 1 ELSE r.out
      err == IF r.out + r.err + 1 > MaxBash THEN MaxBash - 1 - out ELSE r.err
  IN  Lines("exit", 1) \o Lines("stdout", out) \o Lines("stderr", err)
Sections(r) ==
  CASE r.tool \in Composed -> FormatResult(r)
    [] r.tool \in {"run_script", "script"} -> FormatScript(r)
    [] r.tool = "bash" -> FormatBash(r)
WrapUntrusted(sections) == <<<<"prefix", 1>>>> \o sections \o <<<<"suffix", 1>>>>

\* The length of the first i sections, for each i.
Before(sections) ==
  LET sum[i \in 0..Len(sections)] == IF i = 0 THEN 0 ELSE sum[i - 1] + sections[i][2] IN sum
PickMarker(overflow) == 1

\* Faulty variant: an answer is cut at its end.
TruncateEnd(sections) ==
  LET total == Before(sections)[Len(sections)]
  IN  {sections[i][1] : i \in {j \in DOMAIN sections : total <= Budget \/ Before(sections)[j] <= Budget - PickMarker(total - Budget)}}
\* What of an answer is left whole: of one that is too long, the head and the tail that fit
\* with the marker between them.
TruncateToolOutput(sections) ==
  LET total == Before(sections)[Len(sections)]
      room == Budget - PickMarker(total - Budget)
      left == room \div 2  right == room - left
  IN  {sections[i][1] : i \in {j \in DOMAIN sections :
         total <= Budget \/ Before(sections)[j] <= left \/ Before(sections)[j - 1] >= total - right}}
Execute(r) == TruncateToolOutput(WrapUntrusted(Sections(r)))

-----------------------------------------------------------------------------
Answered(c) == pc[c] = "idle" /\ report[c].run # 0

TypeOK ==
  /\ pc \in [Caller -> {"idle", "saved", "running", "ended", "compared", "dead"}]
  /\ DOMAIN disk \subseteq File /\ temps \subseteq 1..MaxRuns /\ orphans \subseteq 1..MaxRuns
  /\ \A c \in Caller : call[c] \in Sources \cup {NoRun} /\ wrote[c] \subseteq DOMAIN disk

\* Every new file that the program made while it ran, and that is still there, is among the
\* files_created of its answer, whatever other programs did in the directory meanwhile.
FilesReported ==
  \A c \in Caller : pc[c] = "compared" /\ report[c].tool # "bash" => wrote[c] \ pre[c] \subseteq report[c].files
\* If no other program and no other run added a file meanwhile, nothing else is among them:
\* in particular not the files that the harness itself made of a long output.
OnlyItsFiles ==
  \A c \in Caller : Answered(c) /\ report[c].alone => report[c].foreign = {}
\* The path given for a stream that was cut leads to the whole of that stream, and the path
\* given for a script to the code that ran, also after later runs of anybody.
PathsLead ==
  \A c \in Caller : Answered(c) =>
    /\ \A f \in report[c].kept : f \in DOMAIN disk /\ disk[f] = <<report[c].run, f[1]>>
    /\ report[c].script # 0 => scripts[report[c].script] = report[c].run
\* The value an answer gives is that of the program's last expression once the program got
\* there, whatever the program printed before.
ResultIsItsOwn == \A c \in Caller : Answered(c) /\ report[c].reached => report[c].result = "own"
\* No temporary script outlives its run, but for a killed session or a missing interpreter.
TempsRemoved ==
  python => temps \subseteq {serial[c] : c \in {d \in Caller : pc[d] \in {"saved", "running", "ended", "dead"}}}
\* However long the streams and the value are, the model reads the exit code, the paths of
\* what was left out, and both ends of the wrapping ("the marker stays visible",
\* tools/__init__.py:306-309).
EndsAreRead ==
  \A c \in Caller : Answered(c) =>
    /\ {"prefix", "exit", "suffix"} \subseteq Execute(report[c])
    /\ report[c].kept # {} => "artifacts" \in Execute(report[c])

(* What the answers rest on, of every state: *)
Output == [out : Nat, err : Nat, marks : BOOLEAN, value : Nat]
Report ==
  [run : Nat, tool : Tool \cup {"none"}, out : Nat, err : Nat, result : {"none", "own", "printed"},
   value : Nat, files : SUBSET File, foreign : SUBSET File, kept : SUBSET File, script : Nat,
   reached : BOOLEAN, alone : BOOLEAN]
Types ==
  /\ clock \in Nat /\ clock > 0 /\ runs \in Nat /\ DOMAIN disk \subseteq File /\ IsFiniteSet(DOMAIN disk)
  /\ pc \in [Caller -> {"idle", "saved", "running", "ended", "compared", "dead"}]
  /\ call \in [Caller -> Sources \cup {NoRun}] /\ serial \in [Caller -> Nat] /\ stamp \in [Caller -> Nat]
  /\ pre \in [Caller -> SUBSET File] /\ wrote \in [Caller -> SUBSET File] /\ alone \in [Caller -> BOOLEAN]
  /\ ran \in [Caller -> Output] /\ report \in [Caller -> Report]
\* what a caller holds of its run, and of what it is to report
Holding(c) ==
  /\ pc[c] # "idle" => call[c] \in Sources
  /\ pc[c] \in {"idle", "saved", "running"} => ran[c].value = 0
  /\ ran[c].value > 0 => call[c].tool \in Composed
  /\ pc[c] = "compared" => report[c].run = serial[c] /\ report[c].tool = call[c].tool
  /\ stamp[c] # 0 => stamp[c] < clock /\ stamp[c] \in DOMAIN scripts /\ scripts[stamp[c]] = serial[c]
  /\ wrote[c] \subseteq DOMAIN disk
  /\ Live(c) /\ alone[c] => DOMAIN disk \ pre[c] \subseteq wrote[c]
\* an answer stays true: later runs neither move nor overwrite what it names
Standing(r) ==
  /\ r.run # 0 => r.tool \in Tool
  /\ IsFiniteSet(r.files) /\ (r.alone => r.foreign = {}) /\ (r.reached => r.result = "own")
  /\ r.kept # {} => r.tool # "bash"
  /\ r.script # 0 => r.script < clock /\ r.script \in DOMAIN scripts /\ scripts[r.script] = r.run
  /\ \E k \in 0 .. clock : k < clock /\ r.kept \subseteq {<<"stdout", k>>, <<"stderr", k>>} /\ (k = 0 => r.kept = {})
  /\ \A f \in r.kept : f \in DOMAIN disk /\ disk[f] = <<r.run, f[1]>>
\* a temporary script is of a composed run that is under way
TempsHeld ==
  python => \A t \in temps : \E c \in Caller :
    serial[c] = t /\ pc[c] \in {"saved", "running", "ended", "dead"} /\ call[c].tool \in Composed
Running ==
  Types /\ (\A c \in Caller : Holding(c) /\ Standing(report[c])) /\ TempsHeld /\ FilesReported
\* every run under way, and every one that left something behind, has a number
Numbered ==
  /\ temps \subseteq 1..MaxRuns /\ orphans \subseteq 1..MaxRuns
  /\ \A c \in Caller : pc[c] # "idle" => serial[c] \in 1..MaxRuns
IInv == Running /\ Numbered

RunsStand == FilesReported /\ OnlyItsFiles /\ PathsLead /\ ResultIsItsOwn /\ TempsRemoved /\ EndsAreRead
=============================================================================

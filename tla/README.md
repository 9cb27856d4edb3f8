# A verification of engram-harness

This directory models the parts of the harness whose correctness depends on the
order in which threads, processes, requests and model responses take their
turns. The models are TLA+ modules written from the Python sources. TLC checks
them on small instances; TLAPS proves the most important safety properties for
every value of the constants.

* `<Component>.tla` specifies a component: state, actions, properties.
* `MC<Component>.tla` and `*.cfg` give the constants their values for TLC.
  `MCMemory.tla`, `MCHarness.tla` and `MCWork.tla` (the unions) put many components side by side.
  `SessionPause` and `ServerSession` need no MC module.
* `<Component>Proofs.tla` holds the theorems and their proofs; those about the components
  of the unions are in `MemoryProofs.tla`, `HarnessProofs.tla` and `WorkProofs.tla`.
* `BoundedPool.tla` and `ExclusiveStore.tla` are abstract specifications that
  components are shown to implement.
* `PROJECT.json` lists the components, the runs, the faulty variants each property
  rejects, the source lines behind every definition, the findings, the hazards and
  the theorems.

To check a run: `tlc -config Lanes.cfg MCLanes`. To check the proofs:
`tlapm LanesProofs.tla`.

## 1. The system

A *session* is a conversation between a user, a model and tools. The harness
runs it from the command line (batch, or a REPL) or for a client of the HTTP
server, and keeps its memory in a git repository.

| Part | State it keeps | Operations | Talks to |
|---|---|---|---|
| Turn loop (`loop.py`) | messages, usage totals, streak of equal batches, continuations | one turn: pay for a response, answer, run tools, pause, compact | model provider, tools, pause handle, compaction |
| Session drivers (`runner.py`, `cli.py`) | what the earlier lines used | run a batch session; read lines and split the budget over them; reflect | turn loop, memory, trace |
| Lanes (`lanes.py`) and sub-agents (`tools/subagent.py`) | a semaphore and a gauge per lane; results of a batch | submit a turn; dispatch, cancel and join children | threads of the server and of the tools |
| Write locks (`workspace_parts/lock.py`, `git_repo.py`) | a lock file; owner and depth in each process | acquire, recover a stale lock, nest, release | every process that shares the workspace |
| Pause and resume (`checkpoint.py`, `cmd_resume.py`, `tools/pause.py`) | `checkpoint.json`, the pause handle | ask, write the checkpoint, resume, relocate | turn loop, store, trace bridge |
| Session store (`session_store.py`, `session_index.py`) | one row per session | insert, mark paused, mark resumed, complete | CLI, server |
| Server session (`server.py`) | status, inbox, stop event | create, send, stop, stream, end | runner thread, lanes, SSE queue |
| SSE stream (`sinks/sse.py`) | a bounded queue | enqueue with overflow policy, read | runner thread, clients |
| Trace bridge (`trace_bridge.py`) | artifacts of a session | turn a finished trace into summaries and access records | checkpoint, memory repository |
| Project plans (`workspace.py`, `work_project_plan.py`) | plan documents and run states | create, advance, approve, fail, verify | write lock, server approvals |
| Git repository (`_engram_fs/git_repo.py`) | worktree, index, commits, refs | stage, commit (porcelain or plumbing), fast-forward | git lock, every writer of the memory |
| Memory back end (`engram_memory.py`) | activity directories, memory files, cached context | start, pause, end a session; supersede, promote; recall | git repository, indexes, link graph |
| Search indexes (`bm25_index.py`, `embedding_index.py`) | SQLite files shared by all sessions | bring up to date, search | recall |
| Link graph (`link_graph.py`) | one `LINKS.jsonl` per directory | append, audit, density | trace bridge, recall, decay |
| Decay (`trust_decay.py`, `cmd_decay.py`) and consolidation (`consolidate.py`) | lists of candidates; `SUMMARY.md` files | a sweep; a run over the drifted directories | access rows, model, git repository |
| Drift (`analytics.py`, `cmd_drift.py`) | alerts file | page through the session rows, compare two windows | session store |
| Workspace (`workspace.py`) | `CURRENT.md`, its archive, projects, questions | open, close, jot, archive, ask, resolve | write lock |
| Compaction (`compaction.py`) | the message list | summarise old tool pairs, cut the middle out | turn loop |
| Provider modes (`modes/native.py`, `modes/grok.py`) | the history of messages | build a request, take an answer, number its calls | turn loop, checkpoint, trace |
| Tools (`tools/fs`, `tools/todos.py`, `tools/_python_runner.py`, `tools/bash.py`) | the workspace's files, the todo list, an output directory, processes | the calls of a turn | turn loop, sub-agents |
| Guards (`loop_guards.py`) | the last small reads | warn, end the run | turn loop |
| Recording and replay (`modes/recording.py`, `cmd_replay.py`) | a file of responses | record, load, serve | turn loop |
| Repository tooling (`src/engram/HUMANS/tooling/scripts`) | manifests, the repository, the environment | start a session, preflight a task, report capabilities, validate | people and sessions that write meanwhile |

The remaining parts (approval channels, search back ends, safety policies,
configuration, front ends, statistics, evaluation, rendering, content) are listed in
`PROJECT.json` with the reason each is left out; section 6 sums them up.

### What is hard, and what correctness means there

* **Lanes.** A semaphore and a gauge have separate locks; exceptions, cancelled
  batches and children of children take different paths through one function. No
  slot may be lost or granted twice, no run may wait for its own ancestor, and
  nobody may return before its children.
* **Turn loop.** A session's budget is shared by lines, pauses and resumes, charged
  in four places and checked in two. The model may return tool calls cut short,
  repeat itself, or pause in the middle of a batch. The totals must be exact, the
  caps must hold, the conversation must answer every tool call before the model
  sees it again, and every invocation must return.
* **Locks.** Processes judge a lock file stale, and remove it, in separate system
  calls. An update must not be lost; a dead owner must not block forever.
* **Pauses.** Checkpoint, row, trace and artifacts are written one after another
  by processes that may die in between, and resumed by other processes. Nothing
  of the session may be lost or continued twice.
* **Server.** The runner thread and the event loop write the same status field. A
  full queue must give up deltas, never the end of the stream; a stopped session
  must end; a client must be released. Evictions, pauses and late messages must not
  hide a live thread from the quota.
* **Memory.** Sessions of several processes write one repository, people and git
  processes write it too, and each of the jobs over it (bridge, sweep, consolidation,
  audit, index build, gate) reads, thinks and writes with nothing held in between and
  may be killed anywhere. A commit must stay published and take nobody else's files; a
  job that is run again must neither double nor lose what it did; a summary, a score or
  a verdict must rest on what was really there.
* **Data that is rewritten on the way.** Conversations are compacted, sent to a
  provider in another form, stored and loaded; traces are split and paired again by
  counting. Every call must keep its answer, every turn its outcome.
* **Tools.** Reading calls of a turn run at once, programs and children share
  directories and files, output is cut to what a model may read. The result must not
  depend on the interleaving, and an answer must speak of its own program.

`PROJECT.json` lists these hazards one by one at their lines, with the
property that covers each.

## 2. The modules

### Lanes (`lanes.py`, `subagent.py`)

A run is a node of a call tree: a session turn (depth 0), a child (depth 1) or a
nested child (depth 2). `pc[r]` is the place of its thread inside
`LaneRegistry.submit`, one action per lock operation: `Acquire` (semaphore),
`CountIn` (gauge up), `Finish` (the function returns or raises; gauge down),
`Release` (semaphore). A nested child bypasses the lane (`AcquireUnbounded`).
`Dispatch` is the batch call, `SkipCancelled` and `Record` the two ends of
`_run_one`. `BoundedPool` is the abstract promise: at most `Cap[l]` runs inside a
lane, each entering and leaving once.

### AgentLoop (`loop.py`, `runner.py`, `cli.py`)

One session. A turn is: `StopSeen` or `TurnsExhausted` at its top; one of the
answers of the model (over the cost budget, final, cut text continued or not, cut
calls blocked, calls over budget or accepted); `RunTools` or `Pause`; then one of
the guards (`StopAtPattern`, `StopAtLoop`, `NextTurn`, each after the compactions that are
due: `Compact` pays for both layers, of which the first may ask the model twice, and an
answer without text is billed but not counted). `StartBatch`, `ReadLine`, `FinishBatch`, `LineDone`, `Interrupt`,
`CloseRepl` and `Resume` are the callers. Money is in units; a response costs up to
`MaxTurnCost`, each call of a compaction and a reflection up to `MaxAuxCost`. A line that
the user interrupts takes its totals with it: `Interrupt` moves them to `forgotten`. Batches are records of
what the loop distinguishes: a signature, the number of calls, exemption from the
repetition guard, and whether one of them pauses. `spent`, `executed`,
`forgotten` and `warned` are history variables.

### WriteLock (`workspace_parts/lock.py`, `git_repo.py`, `workspace.py`)

Threads of several processes and one lock file. `Workspace = TRUE` is the
re-entrant workspace lock with recovery of locks older than 30 s, one action per
system call (`Create`, `Exists`, `StatOld`, `ReadAlive`/`ReadDead`, `Reclaim`,
`Hold`, ... `Release`); `Workspace = FALSE` is the git worktree lock, which has
neither nesting nor recovery. Under the lock a thread reads, truncates and writes
one document. `SaveRaises` is a write that raises after truncating (a full disk, a text that
cannot be encoded): the document is left empty and the lock is released, so the next save
builds on nothing. `wiped` counts what such a write has emptied, and `Found` the updates a
document holds before anybody takes the lock. `Age` is the passing of 30 s, `Crash` the
death of a process. `ExclusiveStore` is the abstract promise.

### SessionPause (`checkpoint.py`, `cmd_resume.py`, `tools/pause.py`, `session_store.py`, `trace_bridge.py`)

A session as a line of processes: the first and its resumes. A conversation is
counted by the events it holds, questions are numbered, checkpoints carry a
generation. The usage in a checkpoint is that of the whole session when a batch run or the
server writes it, and that of the last line when the REPL does (`NextLine`, `earlier`). Actions follow one process through working, asking, pausing
(checkpoint, then row), bridging and completing, or through a resume: look at the
row, load, restore, ask the user, mark the row resumed, run. `Relocate` is
`--relocate`; `WriteFails`, `Raise`, `ServerError` and `Crash` are the failures.
`Overlap = TRUE` allows resumes at the same time, which the code does not prevent.

### ServerSession (`server.py`, `sinks/sse.py`)

One session of the server: the runner thread (`Turn` ... `Store`) and the event
loop (`SendCheck`, `SendPut`, `SendMark`, `Stop`, `Callback`, and the streams of
clients). A handler of the event loop does not await, so only the runner comes
between its statements: `api` holds its place. `posted` are the callbacks given
to `call_soon_threadsafe`, in order; `queue` is the bounded queue with the overflow
policy `Enqueue`. A turn is what `AgentLoop` promises: it returns, within the calls
it was given.

### PlanRunState (`workspace.py`, `work_project_plan.py`)

One plan, its run state on disk, and a thread of each session under the workspace
lock: `Load`, then `VerifyFails`, `Fail`, `AskApproval` or `Complete`, then the save in
its two halves `Truncate` and `Write`; `Grant` is the user's API. A run state is a
record (`state` on disk, `view[s]` in memory), and `Failed`, `Asked`, `GrantedNow`
and `Advanced` are the changes to it as functions, so that each is proved about once.
`plan` tells a whole run state from a torn one, which no session can load.
`requests`, `named` (granted) and `acted` are history variables. The
failure history, the last checkpoint, the times and `max_sessions`, which the code
displays and does not enforce, are left out.

### GitCommit (`_engram_fs/git_repo.py`)

Sessions publish over one worktree, one step per git call: `Write`, `Stage` (outside the
lock), the question whether anything is staged, the lock, `git commit --only` with the
paths that others have staged restored afterwards, and, when git's lock files are in the
way, the plumbing path: a temporary index, a commit object, `update-ref` with the old
value, and at last the ref file written directly. In a linked worktree (`linked`) that file
is looked for, and written, in the worktree's own git directory, where git does not look
(`aside`); a ref that is not found there is not compared. A second branch is fast-forwarded in
the same way. `Outside` are git processes that the harness does not know: they lock,
commit, and die with their lock files behind them. Commits are records of parent, tree
and author. `overrode` remembers that a ref was judged free under the lock of a living
stranger. What `PublicationsStand` leaves out, such a comparison and the last direct write
of a linked worktree, is lost indeed: `NothingClobbered` is false (section 5).

### MemorySession (`engram_memory.py`)

A failure of the second write of a supersede (`engram_memory.py:825`) in a process that lives on is
left out; a kill between the two is not. Which directory a session takes (`List` looks, `Reserve` makes it and goes on to the next
number if another was faster), on which day, and again after a pause; `Supersede` and
`Promote` with their two writes and one commit; the cached context. Sessions die between
any two steps. `raced` and `torn` say that two jobs overlapped on one file, and that one
was killed half-way: the promises about the working tree hold outside of those.

### TraceBridge (`trace_bridge.py`)

First the session, which writes a trace of calls, results, searches and recalls, with
markers around each line (REPL) or without (server); then the bridge: split, pair, derive
scores, append the rows that are not there yet, the rollup, the other artifacts, the
commit. `Die` and `Rerun` at any place. The properties say that a result is credited to
its own call, and that killed and repeated bridges leave what one run would have left.

### RecallRanking, SearchIndex (`engram_memory.py`, `bm25_index.py`, `embedding_index.py`)

`RecallRanking` is one recall: fuse the lists, weigh, drop the superseded, refill, widen by
links, cut. The scores are integers in millionths, so that every comparison is exact.
`SearchIndex` are the SQLite files that all sessions bring up to date file by file, while
files change and others do the same. `quiet` and `alone` belong to one build. A build of the
vector index walks its default scopes whatever the search asks for (`VectorScopes`, `Built`),
and swallows a file whose read or embedding raises (`Drop`); a text that cannot be decoded
ends a BM25 build (`Undecodable`).

### LinkGraph, DecaySweep, Consolidation

`LinkGraph` (`link_graph.py`): the rows a bridge appends, the audit that writes the file
anew, lines cut by a kill, and the density that the sweep makes of them. `DecaySweep`
(`trust_decay.py`, `cmd_decay.py`): the view of the files, the cache, the two lists, the
commit, each of which may fail. Scores are in ten-thousandths, the cache rounds them to
thousandths (`Saved`), and the reader partitions the rows of the cache again and shows the
first `Limit` of each side (`Review`, `Shown`), so that a file near a threshold may be shown
otherwise than the sweep's own lists have it; the decay of a day is a constant (`DecayFactor`).
`Consolidation` (`consolidate.py`, `cmd_consolidate.py`): the queue of drifted directories
is fixed at the start, then one model call and one write at a time, and one commit.

### Compaction (`compaction.py`)

The list of messages and the two layers, as functions on that list. A message says which
turns can still be read off it. Every change of the list is a `Splice` (messages from one place
to another give way to new ones) or blanks old results in place (`Blanked`); `Summed`, `Noted`
and `Layer3` say which. A turn may have failed in part (`mixed`): one failed call makes it a
failed pair, of which one line is kept. A message is known for the dead ends or for the full
summary by its banner, and the prompt of the full summary names the banner of the dead ends:
a summary that repeats it (an `echo`) is taken for them and overwritten. What is lost for that
is in the history variables `garbled` (a reply without lines), `swallowed` (the rest of a mixed
turn), `mistaken` and `overwritten`. That the task, the user's texts and the summaries of the
first layer do not hold a banner, that a summary tells what it was shown, and that an echo has
no lines of its own are assumed. `AgentLoop` says when the layers run and what they cost.

### ServerSessions (`server.py`, `session_store.py`)

The registry, the quota, eviction, shutdown, a crash and the restart that adds rows from
the trace files it finds, and `harness resume` in another process. Of one session only
status, thread and row are left; `ServerSession` has the rest. A quota of zero or below means
none to the code (`server.py:357-358`) and is outside the model.

### Workspace (`workspace.py`)

`CURRENT.md` is read, changed and written whole under the lock (`WorkThread`, `Jot`,
`AppendToArchive`, `WriteCurrent`); a project is made, linked, archived; its goal and its
questions are changed without the lock. `Kill` empties the file that is being written. A write
that raises after truncating, and a failure behind the rename of `project_archive`
(`workspace.py:924-936`), leave the same files behind; the model has them as kills only.

### SubagentRun (`config.py`, `tools/subagent.py`)

The numbers, trace files and reports of the runs below a session, over pauses of parents
and children, failures and a resume that goes on at the highest number reported.

### SessionRows (`session_store.py`, `analytics.py`, `cmd_drift.py`)

The rows of many sessions, beside what their traces say; the block about the previous
session that a new one is shown; `harness drift` page by page, for one workspace or for all.
`Relocate` registers a session of another place, `RelocateAgain` changes a row that is there,
which then leaves the listing of its old workspace (`here`, `moved`).

### ProviderHistory, PatternGuard, Replay

`ProviderHistory` (`modes/native.py`, `modes/grok.py`, `checkpoint.py`): answers become
messages, calls are extracted and answered, a request is built from the whole history in
the form of each provider, a pause's reply is written into the stored one. A run may stop on an
answer that was cut off or is over the budget of calls (`Ending`), and its calls stay in the
history (`left`) that the next line (`Say`) and the closing reflection (`Reflect`) send.
`PatternGuard` (`loop_guards.py`) is the verdict that `AgentLoop` leaves free. `Replay`
(`modes/recording.py`, `cmd_replay.py`) is the recorder, whose rows may be lost, and the
loop that is driven from them.

### FileTools, Todos, ToolRuns

`FileTools` (`tools/fs`, `loop.py`): a turn of calls on a tree of two homes; each call looks
first and acts later, reading turns run at once. `Todos` (`tools/todos.py`): children that
share one file. `ToolRuns` (`tools/_python_runner.py`, `tools/bash.py`, `tools/__init__.py`): a
run from call to answer (snapshot of the output directory, process, time-out, comparison,
long streams put into files), two programs in one directory, killed sessions, programs
that outlive them, and the cutting of the answer to what fits.

### Bootstrap, TaskReadiness, Capabilities, RepoValidation

The scripts of `src/engram/HUMANS/tooling/scripts`. `Bootstrap`: the entries of the manifest
one by one against the files and the token budget, a path at most once (`overlooked` are those
that a required entry named after an optional one). `TaskReadiness`: probes one by one
while the environment changes, and the comparison with what was blocked before; `held`, `steady`
and `still` say how the host was during a preflight and since the last. `Capabilities`: the
checks of the manifest against itself and against a server, and what is promised after
them. `RepoValidation`: the gate reads manifests, notes, rows and coverage one after the
other while sessions and people write; the bridge's rows carry the path as the call wrote it,
also of calls that were never answered (`Calls`).

### How they compose

`ServerSession` takes a turn of `AgentLoop` as one step, relying on
`EveryRunReturns` and `CallsWithinCap` of that module and on `EveryRunEnds` of
`Lanes` (a turn waits for a slot of the main lane). `SessionPause` takes a run of
`AgentLoop` as the step `Work`, and relies on `CheckpointConsistent` for what a
checkpoint holds. `ServerSession!PersistPause` stands for the pause protocol that
`SessionPause` gives in full. `PlanRunState` takes the workspace lock to exclude, which
`WriteLock` shows as long as no lock file ages, and its finding refutes after that. `GitCommit` takes the worktree lock to
exclude (`WriteLock` with `Workspace = FALSE`); `MemorySession`, `DecaySweep`,
`Consolidation` and `TraceBridge` take a commit as one step that succeeds or fails, which
`GitCommit` gives in full. `LinkGraph` gives the rows that `RecallRanking` starts from.
`AgentLoop` leaves free what `PatternGuard` and `Compaction` decide, and `ProviderHistory`
starts from the answers `AgentLoop` allows. `ServerSessions` takes a session of
`ServerSession` as a status and a thread. The
modules are kept separate: their product is far
beyond TLC, and what passes between them is named in this paragraph.

## 3. The runs

Every passing run checks its module with every action taken, and each of its
properties is violated by at least one faulty variant of the code (the definitions
marked "Faulty variant" in the modules).

| Run | Instance | States | What it shows |
|---|---|---|---|
| `lanes` | two turns, a batch of three, a nested child; caps 2 and 1 | 39 480 | `LanesSound`: permits, gauge, joining, cancellation; refines `BoundedPool`; every queued run ends |
| `agent_loop` | batch and interactive, 3 turns, 4 calls, cost 2 (response up to 2, each extra call up to 1), thresholds 2 and 3, 2 lines | 1 534 175 | `BudgetsHold`: accounting, caps; `RunsSound`: conversation, checkpoint, warnings; every invocation returns |
| `write_lock` | two threads of one process, one of another that may die; nesting 1, a document of one update and one more | 823 506 | `LockSound`: the file backs its holder, no loss but to a write that raises, exact counter until a file ages; dead locks are reclaimed |
| `write_lock_git` | the same threads on the git lock, one poll, two saves | 5 980 | refines `ExclusiveStore`; an acquisition returns |
| `session_pause` | first process and three resumes, 3 events, 3 questions | 1 480 896 | `PausesSound`: nothing lost over pauses, no fork; no half artifacts; rows settle |
| `server_session` | two clients, queue of 3, cap 2, one callback or message waiting | 268 552 | `SessionSound`: done never lost, cap; release of clients; stop |
| `memory` | eleven parts, below | 2 201 186 | one property for each part |
| `harness` | seven parts, below | 2 446 070 | one property for each part |
| `work` | six parts, below | 1 257 454 | one property for each part |
| `write_lock_stomp` | three threads, nobody dies | violation | stale-lock recovery removes a young lock |
| `session_pause_bridge` | as `session_pause`, 2 events | violation | a session that paused once has no artifacts |
| `server_session_row` | as `server_session`, cap 1 | violation | a late message leaves the row running for ever |

`MCMemory` (the memory repository and the tools over it), `MCHarness` (a session and its server) and
`MCWork` (what surrounds the work of a session) each put several components into one run. In a behaviour one part,
chosen in the initial state, takes steps; the variables `x1`, `x2`, ... are that part's own,
and those it does not need stay 0. The components share no state there: what reaches one
of them from another (a file changed, a commit made, a row added) is a step of its own
environment, in its own module. So one run stands for as many separate ones, and to check a
part alone it is enough to leave its name in `PartNames`, for example
`PartNames = {"git"}`. Nothing in the unions is fixed: every constant of a component is a
constant of the union under the name of its instance (`GitWriter` is `Writer` of `GitCommit`),
the `.cfg` gives it its value, and the named assumptions on these constants are what the
proofs of section 4 use. Every property of a union is the part's type invariant together with
the property named in the table.

| Run | Part | Instance | States | Property | What it says |
|---|---|---|---|---|---|
| `memory` | `git` | two sessions, one publishes twice, one stranger; a shared and an own file | 160 115 | `PublicationsStand` | what was reported published stays on its branch, but for two direct writes; a commit changes its own files only; no older text comes back |
| `memory` | `recall` | five files, k up to 2, rankings with repeats | 112 640 | `RefillComplete` | k live files whenever so many are known, none twice |
| `memory` | `search` | two sessions, two files in two scopes of which vectors cover one, both kinds of index | 232 085 | `SearchSees` | after an undisturbed build a search ranks the texts it covers and could read, as they are |
| `memory` | `record` | two sessions, three files, three midnights, jobs, deaths or loads of context | 330 445 | `RecordsStand` | directories are one session's own; no fact is hidden without its successor in the commit |
| `memory` | `decay` | two files near the thresholds, three days, one row shown of each side | 178 762 | `SweepHeals` | a sweep without error leaves the lists of its own view, and the reader shows the rounded ones |
| `memory` | `consolidation` | two directories of three files, one directory and two files at a time | 51 596 | `OnlyDrifted` | the model is asked only about directories that have drifted |
| `memory` | `links` | two sessions of one name on two days, an audit | 72 345 | `DensityIsEarned` | no pair counts for more than the recalls that returned it |
| `memory` | `bootstrap` | up to four entries, every mode | 231 654 | `ReadyIsRoomy` | "ready" means that nothing was squeezed out or missing, but for an absent file first named as optional, and the reserve is there |
| `memory` | `readiness` | two profiles, two preflights, two changes of the environment | 549 490 | `ReportsAgree` | attempts are called off only for a failure that both preflights could see; an unchanged host is reported as it was |
| `memory` | `capabilities` | two tools, one operation, every pair of tables wrong | 129 584 | `ContractHolds` | previews, read-only servers and readiness are as an error-free manifest says |
| `memory` | `validation` | three files, one in quarantine, calls plain and not, told and not | 152 470 | `VerdictsStand` | rows of calls that named a file plainly and told it pass the gate, the gaps it reports are there |
| `harness` | `sessions` | two sessions, room for one, two crashes or resumes | 146 151 | `ThreadsBounded` | no more threads take turns than the quota, none is hidden from it |
| `harness` | `subagents` | three runs, depth 2, one pause | 311 873 | `ReportedApart` | two reported runs never share a number |
| `harness` | `rows` | two sessions, pages of one row | 822 017 | `NoneMissed` | paging misses no session that was over when it began, unless one was moved away |
| `harness` | `replay` | four responses, two openings, lost rows | 94 655 | `ReplayIsFaithful` | the replayed loop is handed the recorded responses in order |
| `harness` | `history` | two answers of up to two items, both providers | 118 347 | `HistoryPairs` | every call is sent once and answered after it, but for those passed over or stopped on; trace numbers follow the provider |
| `harness` | `compaction` | five turns, both layers, two dead ends | 898 846 | `HistoryStands` | every turn can be read, but for four losses it names; no call lacks its result |
| `harness` | `guard` | four batches of two over three spellings of two files | 54 181 | `ActsAreEarned` | no warning and no stop before as many small reads since the last change |
| `work` | `plan` | three sessions, three phases of which two need approval, three requests | 607 087 | `PlanSound` | no phase passes its gate without its own grant; the record is exact; no grant is lost |
| `work` | `workspace` | two sessions, a thread and a project, four operations, one kill | 54 950 | `ThreadsStand` | a closed thread is listed or archived; an open one has its project |
| `work` | `todos` | two callers, six files to begin with | 26 912 | `SavedWhole` | a call saves exactly its own list |
| `work` | `files` | two calls of 23 kinds, three trees | 94 677 | `TurnsAreDeterministic` | a turn leaves and answers what its calls give one by one |
| `work` | `programs` | two callers, two runs, every output too long | 291 642 | `RunsStand` | created files, values and paths in an answer are the program's own and lead to it |
| `work` | `bridge` | one session of two lines, one kill | 182 186 | `BridgeStands` | results are paired with their calls; killed and repeated, the rows are those of one run |

### Why the bounds are enough

* `lanes`: sub-agent cap 1 makes every child compete; a batch of three has one
  running, one queued and one not yet launched when a sibling fails; the nested
  child is the only way to depend on an ancestor's slot.
* `agent_loop`: two lines are the least over which a budget is split, three turns
  of a run the least for a nudge and a stop behind it, and a pause and a resume fall between any two; a batch of two calls can
  overrun a cap that a single call would not.
* `write_lock`: reentrancy needs two threads of one process, recovery a second
  process, the race a third thread; a document that holds an update before the first save
  is what a raising write can wipe.
* `session_pause`: three resumes allow a re-pause, a crash and a further resume;
  three questions allow an overwritten one between two answered ones.
* `server_session`: three places is the smallest queue for which the property holds
  (below); the second client takes the event the first is waiting for. The bound on
  `posted` applies to deltas and messages only, control events are always posted.
* Part `plan`: a first and a last phase with a gate and one between them without;
  three requests leave one to ask for again; three sessions let one be killed in a
  save, one ask and one complete.
* The other parts of the unions: two writers are enough for every race in these parts, because
  none of them looks at more than one other (a second session of the same file, the file
  between a read and a write); one kill or change of the environment is enough because
  each job starts from what the disk holds, and a job after a killed one is allowed. Two
  pages, two windows and a second opening are the least for paging, drift and replay;
  five turns the least for a summary of a summary (two turns are always kept).
  The numbers `MaxOps`, `MaxEvents`, `MaxWork`, `MaxRuns`, `MaxDay` and the like in the modules
  bound what the environment does, never the code.

`CHECK_DEADLOCK FALSE` is set everywhere because sessions end: a finished session
has no step left, and every part of a union ends at its bounds.

### Fairness

Weak fairness is assumed for code that is scheduled and nothing else: a thread past
the entry of `submit` goes on and its function returns (`Progress`); the loop
and its callers (`Invocation`, `Callers`; not the user's lines, interrupts and
resumes); the polling loop of an acquisition (`Acquiring`; not the holder's work,
and not the death of processes); a process that is ending (`Ending`; not the
agent's work, the user's reply or the resume command); and, in `ServerSession`, the
runner, the callbacks, the second half of a handler and the stream of a client that
is connected. No action whose enabling depends on a user is fair.

## 4. The proofs

The theorems hold for all constants that satisfy the named assumptions
(the `ASSUME` of each module): any call tree, caps,
batches, limits, threads, processes, clients and queue sizes.

* **`LanesProofs`**: `IInv` = types, `PermitsConserved`, `GaugeExact`, and
  `BypassOffLane`. The last is the strengthening: `Acquire` and `Release` do not
  test for a bypassing run, so the count of holders is kept only because such a run
  is never at those places. Each step is a lemma on the cardinality of `Holders`.
  `LanesImplementPool` adds that a cancelled run is over. `TreeInv` is a second inductive
  invariant, about the tree alone: a run is new until its parent dispatches it, an
  outcome once set stays, and a cancelled run has a failed sibling. From it follow
  `TreesAreJoined` (nobody returns before its children) and `CancelledForAReason`.
* **`AgentLoopProofs`**: `Bookkeeping` (a paused session equals its checkpoint,
  nothing is in flight between lines) and `Budgets` (how far the session may be over,
  place by place). From these follow the accounting (what was spent is what the session
  counts and what it has forgotten: the usage of a line that was interrupted, of a paused line's
  predecessors, of an answer without text), the call cap, the bound on the
  cost overshoot (a response, the three calls of two compactions and a reflection) and, as
  an action property, that tools never run over budget. Two
  further invariants on top give the warning and the answered conversation, a third
  (`NothingLeftOut`: between two checkpoints nothing executed is missing from the
  conversation) that checkpoints are consistent.
* **`WriteLockProofs`**: `LInv` (nobody reclaims before a file has aged, so the file
  backs its holder), then `BufFresh` for the absence of lost updates (until a file ages or a
  killed writer leaves the document torn, it holds every update but those that a raising
  write has wiped, and `wiped` counts nothing else) and `NestedInside` for the counter. `GitLockImplementsStore` maps every step of the
  git lock to a step or a stutter of `ExclusiveStore`.
* **`SessionPauseProofs`**: while no checkpoint has been continued twice the session
  is one line of runs (`OneLine`), and its latest checkpoint holds everything
  (`LatestIsComplete`), of the usage all but the earlier lines of the run that paused first
  in the REPL; `RowProtocol` says when that premise holds. The invariant
  covers overlapping resumes too, which TLC's run does not.
* **`ServerSessionProofs`**: `DoneInSight` places the final event in the callbacks
  (with at most `Notes` control events behind it) or in the queue (with as many
  places for the rest), so that at most two later events can push it, and three
  places suffice. `Enqueued`, `Removed` and `FirstData` are lemmas on the overflow
  policy.

The three proof modules of the unions have one section for each component. The inductive
invariant is in the component's module, under the properties (`IInv` and the parts it is
made of), and TLC has checked it on the instances of section 3; the lemmas
`<Instance>InitIInv` and `<Instance>NextIInv` prove it inductive from the component's `Init` and `Next`
alone, and `<Instance>Holds` draws the property from it. A theorem `Spec => []Property` of the union
then follows, because a behaviour never changes its part.

* **`HarnessProofs`**
  * `ThreadsStayBounded` (`ServerSessions`): the live threads are among the active sessions, and
    their number grows only in `Create`, which has counted the active ones in the same
    step of the event loop; a message marks a session as running and starts no thread, and an
    eviction takes only settled ones off the list (`EndingSpeaks`). Two lemmas on
    cardinality (the set shrinks, the set grows by one below the bound); `Session` only has to
    be finite.
  * `ReportsAreApart` (`SubagentRun`): live runs have numbers of their own, none of them
    reported, and the counter is never below one of either (`Distinct`, `HasHighest`); a
    resume happens only when no run is live (`BatchEnds`), so that starting again at the
    highest number reported is safe.
  * `ReplaysAreFaithful` (`Replay`): a recording that was never taken up again and lost no row is, in
    its order, what the model gave (`Recorder`), and when the recorder is done the player is at the number
    of responses it has served, each of them the one of that number (`Player`). `Firsts` leaves the loop's own
    responses when the reflections are taken out; adding a row adds its response at the end or nothing, and
    leaves the earlier ones as they are.
  * `ActsAreAlwaysEarned` (`PatternGuard`): the guard's window is the end of what the run has called
    (`Windowed`), so that the reads it counts there, since the last change, are reads of the run, each at a
    place of its own; a subset of a finite set has no more members.
  * `NoneIsMissed` (`SessionRows`): a row keeps the date it was made with, and a later row is made with a later one, so
    that others only push a row back (`PushedBack`); what the run of a listing has not read is
    behind its offset (`Paging`), unless a row was moved out of the workspace, and a full page
    means that it asks for another one. The table is
    ordered by the number of rows that are newer, and these places are a row's own.
  * `HistoriesPair` (`ProviderHistory`): `PairedBut` says of a request what it holds and lacks when some calls
    are under way, and the invariant says it of the request that the history as it is would give. The request of a longer
    history is that of the shorter one with more behind it (`Added`, `ResultsAdded`, from a lemma on `Firsts`,
    the pieces put one after the other), so that each step adds one piece: an answer's calls are new because
    items are numbered through (`AddCalls`), and results answer exactly what was under way (`AddOutputs`).
    A run that stops on an answer moves its calls from under way to `left`, for ever.
    `OnlyIs` says what a filter leaves. In an answer with searches, a number is the old one with the searches and the calls
    before the item, of which a later item has more (`Marks`).
  * `HistoryAlwaysStands` (`Compaction`): two invariants are said of any conversation, and each
    change keeps them: a turn is added, old results are blanked, a summary or a block of dead ends is put in, the
    middle is cut out. `History` holds until a full summary was mistaken for the dead ends: every turn is read
    off somewhere, but for what newer dead ends drove out. `Remnant` holds for ever: all of a turn is told, but for
    a failed turn of which one line is kept, and for what such a summary told. While a layer is at
    work some turns are told nowhere, so `Remembered` carries the set of
    those that are excepted, which the summary and the dead ends then empty again. That a new block drives
    out only what newer dead ends replace needs the order of its lines (`Ascending`) and that every line is older than any
    result not blanked yet (`Entry`); that no use loses its result needs that the region cut out ends
    before a pair (`FirstKept`), and that what is blanked is never among the last turns needs the order
    of the results (`Shaped`). That there is one block and one full summary (`Single`) is lost with the first echo, so
    that the form of the conversation (`Shaped`, `Verbatim`) has a proof of its own. `Splice` is an explicit function of
    the place, so that its lemmas are arithmetic; the lines of a reply (`Lines`) and what is kept of
    a region (`Preserved`) are recursive functions.
* **`MemoryProofs`**
  * `PublicationsAlwaysStand` (`GitCommit`): the commits form a forest in which parents come first, and
    the ancestors of an ancestor are ancestors (`Linked`); a step only appends commits, and the
    ancestors of those that are there stay (`Appended`). `Ancestors` is a recursive function; that the parents
    determine it (`OneChain`) is shown by the lowest commit at which two such functions differ. A
    branch only goes forward, unless `overrode`, and a direct write of a linked worktree leaves it
    alone; what such a worktree finds of the ref is what it has written there last. What a publication is about to write is ahead of where
    its branch is, or was when it looked (`UnderWay`), and a stranger that holds the ref lock
    has the branch to itself (`Held`). Files never go back because no commit is ahead of the
    index, nor the index of the worktree (`Behind`), which is what makes the two commit paths agree
    although one takes the worktree's text and the other the index's.
  * `SearchesSee` (`SearchIndex`): no row claims to be newer than its text (`Dated`), so a row
    whose time is the file's has the file's text; a build that nobody disturbs has right rows for
    the files it is done with and has not dropped (`DoneRight`). The versions are bounded by the writes, not by a constant.
  * `RecordsAlwaysStand` (`MemorySession`): a directory is its owner's by its name or by the
    exclusive creation (`Owned`); jobs that never overlapped have files of their own (`Apart`), each
    finds what it has written (`InHand`), and a fact is hidden for a successor that is there or about to
    be written (`Hidden`).
  * `SweepsHeal` (`DecaySweep`): without an error a sweep has left, after each of its steps,
    what that step leaves (`WrittenSoFar`), for any decay, ratings, limit and thresholds; what the
    reader shows is a partition of the rounded rows, of which each list has the first ones.
  * `OnlyDriftedIsAsked` (`Consolidation`): a directory is queued once, and nobody else takes a name out
    of a summary (`StillNamed`), so what had drifted at the start has still drifted.
  * `DensityIsAlwaysEarned` (`LinkGraph`): no two rows of a file are one session's of one pair (`Once`), each
    scores what the session's recalls earned, in the file of the pair (`Earns`), which does not change once a session
    has ended, and the rows a bridge is about to append are of no row that is there (`FreshStand`), although the test for that
    goes by the name of the session and a rerun may be another bridge's; an audit in between only takes rows away, and
    writes back rows that are in the file still (`AuditStands`). From it the score of a pair is at most what all sessions
    earned: walking through the rows, each adds what its session earned, and no session is met
    twice (`ScoreBounded`). `Total` is a recursive function; `InOrder` chooses an enumeration of a finite set.
  * `RefillsAreComplete` (`RecallRanking`): up to the selection the hits are of different files of the fused
    list, and from there on they are as many as there are files of it that are not superseded, or k
    (`Staged`). The operators on lists have one lemma each: `Picked` yields the members at some places and no
    others, `Firsts` one hit of each file, `Sorted` a permutation (by cardinality: the places are numbers up to the length, different for
    different hits), `Cut` the shorter of two lengths. A full pool before the refill, or a refill from
    all that is left of the list, both give the number that is promised.
  * `ReadyStartsAreRoomy` (`Bootstrap`): without pressure the reserve is left and nothing was squeezed
    out (`Roomy`); each path is of one kind from its first entry on, and a path that a required
    entry names later is loaded, excused or absent.
  * `ReportsAlwaysAgree` (`TaskReadiness`), an action property: what a preflight has found held at some
    moment since it began, and what the caller carries is what the last one told, which held during that
    one; on a host that stays as it is, each probe gives what it gave before.
  * `ContractsHold` (`Capabilities`): the answer is that of the manifest and the server as they
    still are (`Answered`).
  * `VerdictsAlwaysStand` (`RepoValidation`): of a call that named its file by its path, the row is written from
    the root, in the file of its folder, and of a call that told its file, about a file that was
    there (`RowsRooted`).
* **`WorkProofs`**
  * `PlanIsSound` (`PlanRunState`): `Good` is what a run state says of itself and of the
    requests made and granted; lemmas `GoodFailed`, `GoodAsked`, `GoodGranted`,
    `GoodAdvanced` show that each change keeps it. The invariant says that the saved run
    state and every one about to be saved are good (`Sound`), that a loaded one is the
    saved one (`Owner`), and what the pending save adds (`Sessions`, `Grants`).
    `RecordAgrees` is not inductive without the last three: a save replaces the whole
    record.
  * `ThreadsAlwaysStand` (`Workspace`): whoever holds the lock has every line of `CURRENT.md` in
    what it will write, or in the archive (`Carried`), and the threads of a project that is
    gone are left only while the session that moved it is about to write (`Unlinking`).
  * `ListsAreSavedWhole` (`Todos`), an action property: the temporary file of a call holds that call's list
    until the move, because its name is the caller's own (`Filled`).
  * `TurnsAreAlwaysDeterministic` (`FileTools`): in a turn that mutates, the calls that have answered are the
    first ones, the tree is what these leave in the model's order, and only the next call has looked at the
    tree (`OneByOne`), so that what it acts on is still so; in a turn that only reads the tree is the first
    one (`AtOnce`), and every order answers the same (`Answered`). With granted mutating tools neither
    holds (`MutationsAreDeterministic`, section 5).
  * `RunsAlwaysStand` (`ToolRuns`): what an answer names bears a stamp of the past, which no later
    run is given again (`Standing`, kept by every step that satisfies `Kept`); what a caller
    holds of its run says which files are its own as long as it is alone (`Holding`); a temporary
    script is of a composed run that is under way (`TempsHeld`), so that a time-out of bash,
    which leaves without an answer, leaves none. That both ends of an answer and the paths are read is a fact about
    the sections alone (`EndsStay`): `Before` is a recursive function whose existence is shown
    by the lowest length for which there is none (`HasSum`), and its value by the same argument
    (`BeforeIs`). It needs an answer of at least six thousand characters (the code's default is
    24,000), of which the head keeps two and the tail three.
  * `BridgesStand` (`TraceBridge`): of the trace, each result is of a call before it in the same run, results
    come in the order of their calls, and the loop's number of a call is never ahead of the bridge's, which also counts
    searches (`InOrder`, `Counted`). The markers cut the trace where runs begin (`Markers`), so that a part is
    such a stretch again (`PartOrdered`). The bridge's walk over a part is followed event by event: if all its calls
    were answered, those that wait are the calls whose results are still to come, in their order
    (`NextWaits`), and the first that fits a result is its own. Of the rows, what a bridge has appended is the
    beginning of what a single run appends (`Progress`): a walk over observations that starts on the first rows of
    that run goes on with the next (`FreshAfter`, `NextOfRun`).

What the constants are assumed to satisfy is mild: sets of which something is counted are finite,
limits are numbers and so are the names of listed sessions (the window of the guard is at least one, as the constructor sees to), the first tree of a turn says of every path whether something is there,
an answer is a sequence of the kinds of items there are, the names of nobody and of strangers are no session's, the name `act` is
no session's, every mode of a bootstrap manifest has a budget of at least the 500 tokens that are
always reserved (the manifest in the repository has 7000 and more; with less than that a mode
without entries would be "ready" with less than its reserve), a layout lists the places
that the validator knows, a pair of files is not empty, the full compaction keeps at least one pair and
the dead ends at least one line (the defaults are above), and the BM25 index ranks a file once, as its
table has one row for each.

For each of the first five modules the theorem `...Sound` / `...Kept` puts the parts together into
the very invariants that their runs check, so every state invariant of those runs is proved; of the
unions the twenty-four properties above, which is all they check.

Only model-checked:

* every property with fairness (`EveryRunEnds`, `EveryRunReturns`, `AcquireReturns`, `DeadLockReclaimed`,
  `RowSettles`, `StreamsEnd`, `StopEnds`), because liveness under fairness and `ENABLED` are beyond
  the prover.

No module uses `RECURSIVE`. Of the recursive functions, `Ancestors`, `Before`, `Firsts` (in two modules),
`InOrder` of `FileTools`, `Total`, `Kept`, `Joined`, `Lines`, `Preserved` and those of `TraceBridge` (`Split`, `Pairing`,
`Reads`, `Unseen`, `RowsAfter`) are reasoned about. The prover has no induction over data, so that
such a function exists, and what it yields, is shown each time by a least counterexample: the lowest length for which there is no such
function, or for which two differ, is one above a length for which all is well (`HasLowest`, a fact
of well-founded sets). What the other recursive functions compute for every input is left to TLC.

## 5. Where the code and its documents disagree

With a run (see `findings` in `PROJECT.json`): the removal of a young lock; the
missing artifacts of a session that paused; the row that stays running.

Met while modelling. Where a property is named, its module states what the document says,
and no run checks it: name it in place of the properties of a `.cfg` (for a part of a union,
add `part = "..." => I!P` to the MC module) and TLC shows the counterexample.

### Session, locks, server, plans

* `SessionCallCap` (AgentLoop): the pause of an interactive line stores the calls
  of that line alone (`loop.py:519`), so its resume has more of the budget than is left, though
  `runner.py:76-77` applies the cap "across the whole REPL". `ModelSeesAnswers` (AgentLoop): calls blocked
  after a cut response (`loop.py:304`) stay unanswered when the run ends at `:569-570` and
  the next line goes on.
* `tools/subagent.py:388` promises to stop launching children after the first
  exception; a child already queued on the lane when a sibling fails still runs
  (the test of `cancel_remaining`, line 506, comes before the queue).
* `runner.py:294-296` says that the closing reflection of the REPL is skipped under
  the conditions of a batch run; `runner.py:301` does not look at how the last line
  ended, and reflects on cut runs as well.
* A line of the REPL that the user interrupts never reports what it used (`runner.py:273-278`),
  and the pause of an interactive session stores the usage of its last line only
  (`runner.py:284-287`, `cli.py:851`): the session's totals lack both.
* The REPL treats a first line stopped by its budget as a session that never
  started, so neither `end_session` nor `session_end` happens.
* `workspace.py:534` heads its section "atomic mutate"; `workspace.py:560` truncates
  and writes the file in place, so a crash leaves, and an unlocked reader sees, an
  empty document, and a write that raises leaves it empty with the lock released. The git lock has no recovery at all: a killed holder blocks the
  worktree until somebody removes the file.
* Concurrent resumes of one session are not prevented
  (`docs/improvement-plans-2026.md:514` defers it). An exception in a resumed run
  leaves the row running and its checkpoint cleared. `--relocate` turns a completed
  row into a paused one, and looks for the checkpoint at another place than the CLI
  writes it. A second pause in one batch overwrites the question of the
  first, though `tools/pause.py` speaks of at most one.
* `ResumeGoesHome` (MemorySession, `engram_memory.py:998-1000`): the command line stores an id
  of its own in the checkpoint (`cli.py:688`), so that a resumed session writes its summary
  to `activity/<today>/cli_...` while its trace stays in `act-NNN`.
* `PreviousIsAnother` (SessionRows, `engram_memory.py:1125-1126`): the row is inserted before the
  memory starts and under another id, so the block on the previous session always shows
  the session itself as running. `QualityAgrees` (SessionRows, `cmd_resume.py:584`): a resumed
  session is stored with an empty log of calls, so its row has no calls and no errors.
* `IndexedOnce` (ServerSessions, `session_store.py:510`, `585-592`): the backfill takes the id from
  the trace's directory while rows are called `ses_` or `cli_`, so sessions are indexed twice,
  and the `act-001` of two days become one.
* Server: a message accepted after a turn that exhausted its budget, or while the
  idle time-out fires, is never read. The idle event is sent before the status is
  idle, so an immediate answer is refused with 409. A client that connects to a
  paused session after its done was read is never released (`paused` is not in
  `_TERMINAL_STATUSES`). A pause may be overwritten by the second half of
  `send_message`, after which the row says running. A queue configured to one or two
  places (`HARNESS_SERVER_SSE_QUEUE_MAXSIZE`) loses the final event behind
  `persistence_error` and `trace_closed`; with two places TLC finds it. The stop
  event is not looked at while a turn waits for its lane. A resume by the command line is not
  seen by the server, which goes on counting the session as paused.
* Plans: `tools/work_project_plan.py:425` keeps SUMMARY.md "in sync with plan state
  changes"; it regenerates it after the lock is released, so a slower session may
  write an older summary last. A grant leaves the plan `awaiting_approval` until the next
  `complete`, and `list_active_plans` does not list it. A failure while an approval is
  pending keeps the request, and the grant then holds for the retry. The test commands
  of a verification run under the workspace lock, and an update by another session
  in that time may exceed the wait for the lock and be refused. A crash in a save leaves a
  plan that can be neither advanced nor created again.
* Workspace: `QuestionsKept` (`workspace.py:553-556`): questions are read, changed and
  written without the lock. `NotesSurvive` (`:390-392`): a `## ` heading inside the notes ends
  the section, and the rest is dropped by the next write. A closed thread or an answer of
  several lines vanishes. An update of a goal that races the archiving brings the project
  back; a new project with the name of an archived one can never be archived.
* Sub-agents: `TracesAreOwn` (`config.py:1086`): a number that was not reported is given again
  after a resume, and the trace file then holds two runs. `AnswersLand` (`tools/pause.py`): a child
  that asks leaves the session at a pause whose reply lands nowhere. Every child gets
  the whole cost and call budget of its parent, and what it uses is not added.

### Memory

* `NothingClobbered` (GitCommit, `git_repo.py:633-634`, `659-665`): the last resort of the plumbing path
  compares and writes the ref file without git's lock, so a commit that another git process
  makes in between leaves the branch; from a linked worktree it writes a file that git does not look
  at, so that a commit reported as made is on no branch. The callers of a commit (`engram_memory.py`, `consolidate.py`,
  `cmd_decay.py`, `trace_bridge.py`) turn its failure into a warning and none tries again.
* `ContextCurrent` (MemorySession, `engram_memory.py:583-585`): the cached context is not dropped when a
  file changes. Supersede and promote check first and write later; a supersede that fails at
  its second write leaves `superseded_by` pointing at a missing file.
* `RecallCredited` (TraceBridge): in a session with markers every segment observes all recalls
  again, and the row of the first wins. A call that was never answered (cut, over budget)
  shifts the pairing of later runs in a session without markers. `trace_bridge.py:1168` promises
  a rollup row per root, the test for one is by session and date only.
* `NeutralKeepsFusion` (RecallRanking, `helpfulness_index.py:84-86`): a refill sorts raw scores of the back ends
  among fused ones. Neighbours found by a link are not tested for being superseded.
* The vector index keeps the chunks of a file that lost its text, is built over its default scopes
  whatever a search asks for, and leaves out a file that could not be embedded without a word; a file changed within the
  resolution of its time is not indexed again; the prune of one build may drop what another stored.
* `FreshEvidence` (LinkGraph, `link_graph.py:223-224`): rows are told apart by the name of the session's
  directory, and `act-001` comes every day, so the evidence of another day is not added. A row
  appended after a cut line is lost with it; an audit loses what is appended while it runs.
* The lifecycle review (`memory_tools.py:888-917`) partitions the rounded rows of the cache again, so that a
  file at a threshold may be shown as a candidate that the sweep's own list does not have.
  `HistoryFollows` (DecaySweep, `cmd_decay.py:325-326`): a list whose commit failed is not committed by later
  sweeps. `NoDataIsNeutral` (`trust_decay.py:327-329`): accesses without ratings count as helping nothing.
* `TrustPreserved` (Consolidation, `consolidate.py:322-325`): what a person changes while the model is asked
  is written over; a killed write leaves an empty summary, which is then "medium". A
  directory with more files than `max_files_per_dir` counts as drifted for ever.
* `FailuresSurvive` (Compaction, `compaction.py:681`): a reply of the model without the line it was asked for
  drops the failures it was to keep, and a turn that failed in one call and succeeded in another is told
  by its failure alone. A full summary that repeats the banner of the dead ends, which its prompt names
  (`:176-179`), is taken for them and overwritten. The full compaction happens once in a conversation.
* `NoSignalNoAlert` (SessionRows, `analytics.py:77-79`): an empty window has helpfulness 0.0, which is an
  alert of minus 100 percent.

### Tools, providers, replay, repository tooling

* `MutationsAreDeterministic` (FileTools, `loop.py:141`): a spawn is a reading call, so children that
  were granted mutating tools change the tree at once with others.
* Todos: an update loads, changes and saves, and only the last move holds the lock, so that
  one of two updates is lost. A list edited by hand with a repeated id refuses every update.
* Programs: what was printed before a time-out is lost (the output is bytes there); without
  `HARNESS_PYTHON` the temporary script stays; `run_script` puts its prelude before a
  `from __future__` import, which is then a syntax error; `files_created` is never reported by
  `python_eval` and `python_exec`; a child process outlives a killed program.
* `ReplyFindsItsCall` (ProviderHistory, `checkpoint.py`, `tools/pause.py:84-85`) and `EveryCallIsAnswered`: a reply is
  looked for among the blocks of messages whose content is a list, which the results of
  Grok's history are not, so that its paused sessions cannot be resumed; a call of a tool
  that the harness does not have, or of an answer that a run stopped on (`loop.py:392`, `:434`), is sent
  again without an answer.
* `ItWasOneFile` (PatternGuard, `loop_guards.py:51-53`): `.env` and `env` are one file to it. One large
  batch can end a run that was never warned; a resume starts the guard afresh.
* `GroundTruth` (Replay, `cmd_replay.py:8-9`): an interactive recording is replayed to its first final
  answer; a resume writes the header over the recording; a lost row shifts the rest. The
  option `--check` of its documentation (`:16-17`) does not exist, and only tests record.
* `PressureMeansSkipped` (Bootstrap, `resolve_bootstrap_manifest.py:556-557`): the warning is given though nothing
  was skipped. A file that is not there, listed as optional and then as required, is passed over as a
  duplicate, and the start is "ready" (`:422-451`). The automatic mode looks for directories of an older layout and always
  finds a first run.
* `ResolvedIsProbed` (TaskReadiness, `resolve_task_readiness.py:1584`): a blocker that the present profile does
  not probe is reported as resolved. `ModesAreDeclared`: checks fail in ways the profile file does
  not list.
* `SessionsPass` (RepoValidation): `superseded_by` is written without `memory/`, so the gate always warns; the
  rows of `cli_` sessions fail its pattern, as do those of a path that a call wrote with `./` in front
  (`engram_schema.py:46-47`, `trace_bridge.py:1368-1376`) and of files that a call left unanswered never read.
* Capabilities: the server it asks for is not in this repository, so the status is always
  `manifest_only`, with a semantic strategy selected all the same.

## 6. What is abstracted, and what is not modelled

Texts, prompts, file formats, timestamps, prices and printing are left out; money
and tokens are units, messages are counted, names are model values. In
`SessionPause` an error of the database is a process that dies there. In
`ServerSession` the failure of the checkpoint write is left to `SessionPause`.
`WriteLock` treats 30 s as an event (`Age`) that may come at any time, and a PID as
the identity of a process (PIDs are not reused). In the memory a text is its version, a
score is an integer of the code's own scale, and a search finds what the text says.

Not modelled:

* **Approval channels** (`safety/approval.py`): one question and one answer, kept by nobody
  after it. What outlives a process, the approval of a plan, is in `PlanRunState`.
* **Search back ends, safety policies, rate limits**: stateless, or decisions on one call at a
  time by pattern, path or role.
* **Configuration and prompts**: they build the objects a session starts with. The flags that
  change control are constants and initial choices of the modules.
* **Command-line front ends, statistics, evaluation, the rendering of the web front end**:
  parsing, printing and read-only views over the components above.
* **Content** of the memory and of the documents: data and prose.
* Within modelled parts: the texts of summaries and briefings, spans and recall candidates
  of the bridge, the reading requests of the server, the listing of plans, single keys of
  manifests, `revert` and the session branches of `git_repo.py`, which nothing calls.

## 7. The plan

What is left, in the order in which it matters:

1. The commit log as an abstract specification, to which `GitCommit` adds one entry for each
   publication unless `overrode`; a session as its client sees it (messages in, turns out, one
   end), which `ServerSession` implements but for the lost message.
2. The spans and the recall candidates of the bridge; `ServerSessions` with a reader of its
   lists; the listing of plans while others advance them.
3. A composition of `LinkGraph`, `RecallRanking` and `DecaySweep` over one small repository.

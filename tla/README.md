# Nexgent verification

TLA+ models of Nexgent, the agent runtime under `packages/` and `apps/`, with
TLC configurations that check them on small instances and TLAPS proofs of the
properties that matter most. Paths below are relative to the repository root.

1. [The system](#the-system)
2. [Modules](#modules)
3. [Runs](#runs)
4. [Fairness](#fairness)
5. [Proofs](#proofs)
6. [Where the code and its documents differ](#where-the-code-and-its-documents-differ)
7. [Not modelled](#not-modelled)
8. [Plan](#plan)

## The system

Nexgent runs agents in a Node.js process. A session is a directory with an
append-only JSON-lines file; whoever holds its lock file is its one writer. An
agent drives a session: it runs turns, each a loop of model requests and tool
calls, and records everything it does in the session before it goes on. Members
(agents started by an agent), workflows (programs that start members) and
threads (sessions started by a coordinator session) build trees of agents that
share a budget. Around a turn, `tasking` copies and merges work directories and
keeps the files a turn changed; after it, `evolve` queues what there is to learn,
and `capabilities` keeps the versions of what was learned.

Each process is single-threaded: two handlers interleave at `await`s only.
Different processes (a CLI beside the desktop application) share the session and
project directories, and interleave at every file operation.

| Component | State | Operations | Talks to | Hard behaviour | Correct when |
|---|---|---|---|---|---|
| Session lock (`session/src/lock.ts`) | `.lock`, `.lock.takeover` | acquire, take over, release | other processes, by files only | interleaved file operations, death at any of them, reused pids, two hosts | one writer at a time; a stale lock does not block for ever |
| Session log (`session/src/store.ts`, `jsonl.ts`) | `session.jsonl`; writer: size, lastSeq, pending truncation, append chain | create, lock, append, release, resume | lock, agent | writes and fsyncs that fail half way, kills, power loss | what was acknowledged is what later holders read |
| Projection and checkpoints (`projection.ts`, `checkpoint.ts`) | state folded from records; chain of incremental checkpoints | fold, checkpoint, start from checkpoint, resume, fork | session log | stale base of an increment; crash during the recovery of a turn | a state from a checkpoint equals the full fold |
| Usage ledger, summary (`ledger.ts`, `summary.ts`) | `usage.jsonl`, `summary.json` | append, read, rebuild | agent, sdk | several writers without a lock | no line of another writer is damaged |
| Agent turn loop (`kernel/src/agent.ts`) | turn, step, pending steers, abort signal, spend, outcome | run, steer, cancel, close | session, llm, tools, context, tasking | user calls between any two awaits, failing appends, retries, limits | see AgentTurn below |
| Tool batches, approvals (`agent.ts`, `approvals.ts`, `tools.ts`) | slots, pending approvals | run a batch, approve, time out, cancel | tools, user | races of answer, timeout and cancel; a handler that ends late | a call has one result, in call order |
| Agent pool, members (`agents.ts`, `task-tree.ts`, `cost-caps.ts`) | agents by session, spend per tree | open, delegate, close | sdk, subagent, workflow | members that outlive a cancelled parent; spend shared by a tree | no member without its parent; caps hold over a tree |
| SDK, threads (`sdk/src/sdk.ts`, `threads.ts`) | turn queue per session, thread runs | start, message, archive, wake, recover | agents, session | check-then-act over awaits, restart in the middle of a run | every run of a thread ends once in the coordinator's session |
| Work directories, turn files, rewind (`tasking/src`) | copies, base hashes, snapshots | copy, merge, snapshot, rewind | agent, file system | merges beside the user's own edits, half done merges | nothing of the user's is overwritten unseen |
| Workflow, subagent, ptc | slots, in-flight members, pipe | run a program, delegate, call | agents | abort against hand-over of a slot, crash of a child | each started member is awaited and recorded |
| Learning queue (`evolve/src/learning`, `lock.ts`) | `queue.json`, `worker.lock`, one host per process | queue a turn, work the queue, stop | agent, session | restart with a running item, a wake beside the end of the loop, a lock taken over by rename | a queued turn is learned from |
| Capabilities, handbook | versions, entries | draft, adopt, roll back, vote | agent, session | read-modify-write under a lock | an adopted version was evaluated |
| LLM provider, context, workspace, web, skills, spreadsheet, presets, applications | mostly none between calls | one request or call | agent | retry of a request; child processes | |

## Modules

| Module | Models |
|---|---|
| `SingleWriter` | what the lock promises: at most one writer, taken only while there is none |
| `LockFile` | `session/src/lock.ts`; implements `SingleWriter` |
| `LockFile_proofs` | its theorems |
| `AgentTurn` | `kernel/src/agent.ts`: one agent and its turns |
| `AgentTurn_proofs` | its theorems, and those of `Rewind`, the files of the same turns |
| `Journal` | what the store promises: a log that only grows |
| `SessionLog` | `session/src/store.ts` and `jsonl.ts`: the file and its writer; implements `Journal` |
| `SessionLog_proofs` | its theorems, and those of `SessionState`, what the same records mean |
| `SessionState` | what the records mean: `projection.ts`, `checkpoint.ts`, the rest of `store.ts`, and the agent's history beside it |
| `ToolCalls` | the calls of a turn: batches, limits, approvals (`agent.ts`, `contracts/tools.ts`, `approvals.ts`) |
| `ToolCalls_proofs` | its theorems |
| `Members` | the members of an agent, workflows, their records (`agents.ts`, `subagent`, `workflow`) |
| `Members_proofs` | its theorems |
| `Threads` | the sessions of an open project and the threads of its coordinator (`sdk.ts`, `threads.ts`) |
| `Threads_proofs` | its theorems |
| `Workdirs` | copies of the project and their merges (`tasking/src/workdirs.ts`) |
| `Workdirs_proofs` | the theorems of `Workdirs` and `LearningQueue` |
| `Rewind` | the snapshots of turns, the files a turn changed, and their restore (`tasking/src/task-records.ts`, `turn-files.ts`, `rewind.ts`) |
| `LearningQueue` | the queue of what there is to learn and its hosts (`evolve/src/learning`) |
| `FileLock` | the pid lock file of the queue and of other shared files (`evolve/src/lock.ts`) |
| `Ledger` | the usage ledger that every process of a project appends to (`session/src/ledger.ts`) |
| `Capabilities` | the capability versions and the sessions opened on them (`capabilities/src`, `agents.ts`); extends `Ledger` |
| `Capabilities_proofs` | the theorems of `Capabilities` and `Ledger` |
| `MC*` | the instances TLC checks |

How they meet. An agent that holds the lock of a session (`LockFile`) appends to
it (`SessionLog`) what its turns (`AgentTurn`) do; `SessionState` is what these
records mean to the next holder. `ToolCalls` opens up the step of `AgentTurn`
that runs tools, `Members` the calls that start members, and `Threads` has a
turn as what starts, is stopped and ends. `Workdirs` has the merges that turns
begin and end with, `Rewind` their snapshots and the files they changed, and
`LearningQueue` the turns that have ended; `FileLock` is
the lock under which it changes its file. `Capabilities` has what happens to a
session before its first turn, in several processes of one project, and is
composed with `Ledger`, where each of them records its decisions. Each module
takes from the one below what that one shows: that a cancelled turn ends
(`AgentTurn`, `ToolCalls`) is the fairness of `Members` and `Threads`.

### LockFile

A process is one incarnation: dead processes stay dead, and a later one
(`late`) may get the pid of a dead one. `pc` is the awaited file operation it
stands at; `lock` and `guard` are the two files, each with who created it,
whether its text is written and whether its mtime is past `ABANDONED_LOCK_MS`.
Every action is one file operation:

| Action | Code |
|---|---|
| `Create`, `Write`, `WriteFails` | `createExclusive` of `.lock` |
| `Read`, or `ReadOne` and `ReadOther` | `readExisting`: text and mtime of one file, or of two (its `Promise.all` starts both reads together) |
| `Judge` with `Stale` | the test of `acquireLockFile`: dead pid, reused pid, or an old file without a text; never a lock of another host |
| `TakeGuard`, `GuardStat`, `GuardUnlink`, `Compare`, `Unlink`, `Unguard` | `takeOver` |
| `Release`, `ReleaseUnlink` | `releaseLockFile` |
| `Start`, `Die`, `AgeLock`, `AgeGuard` | the operating system and the clock |

`env`, fixed by `Init`, says which faults a behaviour may have: where processes
may die, which files may grow old, whether a read may be torn, whether the start
time of a pid can be found. The creation and write of the guard are one step: no
one looks at its text. A file that a live process is in the middle of writing
does not grow old (that needs a process that stalls ten seconds between two
operations).

### AgentTurn

A turn is one coroutine. `phase` is the await it stands at; `Steer`, `Cancel`
and `Close` may come at each. The phases follow `runTurn` (`open`, `begin`,
`check`, `retryNote`, `finish`, `settle`, `end`, `after`) and `loop` (`top`,
`compact`, `drain`, `send`, `request`, `backoff`, `reply`, `shrink`, `tools`,
`cut`). `steer` follows each message the user sends from `queued` over
`recorded` and `sent` to `answered`, or to `lost`; `todo` counts the calls of
the last reply that have no `tool.result`.

What is abstracted: pending messages are a set, not a queue; a reply is how it
finished and how many calls it has; the tools of a reply run one by one;
members, workdir and files settle in one step; the cause of a cancel is left
out. A context service that can compact is there. The note before the last step
(`agent.ts:2145`, when `maxSteps` is 4 or more) is left out. Appends may fail
`MaxFaults` times. Locals are reset when `runTurn` leaves, so that a state holds
nothing that is out of scope.

### SessionLog and Journal

`file` is the sequence of units in `session.jsonl`. A unit is a piece of a line,
as much as one write gets to the file; the last unit of a line has the newline,
and lines of one body have a fixed number of units. `durable` is how many units
an fsync covered: a power loss keeps these and any prefix of the others, a kill
keeps all. `op` is the append under way (`writer.chain` runs one at a time), and
each of its file operations is a step which works, fails, or is the last:

| Action | Code |
|---|---|
| `Create`, `Begin` | `create`, `append` |
| `CutTail`, `CutSync` | `repairTail` |
| `WriteUnit`, `WriteFails` | one `write` of `writeFully` |
| `Sync` with `Acknowledge` | the fsync of a boundary record, and the rest of `writeRecord` |
| `Undo` | `truncate(writer.size)` after a failed write, its own failure ignored |
| `Lock`, `ScanLine`, `ScanEnd` | `lock` with `scanSessionLog`, line by line |
| `Release`, `Close` | `release`; an append that came too late loses its handle |
| `Kill`, `PowerLoss` | the machine |

A line into which two writes went (after a failed undo, the next record is
written over the rest of the broken one) counts as one that cannot be parsed. A
cut that was not synced is not undone by a power loss. That one process at a
time holds the file is what `LockFile` shows. A `create` that fails leaves a
file which can be neither created again nor, without a `session.start`, opened;
so does the code.

`promised`, `safe`, `lost` and `stray` are history: the records
acknowledged to a caller or read by a holder, how many of them an fsync covered,
whether the power went since the last holder read the file, and whether an
append was dropped with what it wrote.
`Journal` is the store as its callers know it; the mapping takes `log` to the
bodies of `promised`.

### SessionState

Where `SessionLog` has opaque records and every file operation, `SessionState`
has records with their content and whole appends, and takes from `SessionLog`
what a rejected or killed append may leave: nothing, or its record at the end of
the file, where the next one overwrites it. `log` is `session.jsonl`; a record's
`seq` is its place. `holder` is the store's `Writer` (`lastSeq`,
`lastCheckpointSeq`, `checkpointBase`, the projector). `messages` and `lastTurn`
are what the agent keeps in memory; `phase` is the append its turn stands at.

| Definition | Code |
|---|---|
| `Apply`, `Replay` | `applyRecord`, `replay` |
| `LatestCheckpoint`, `Load` | `resolveLatestCheckpoint`, `startingPoint` and the replay after it |
| `Write`, `CheckpointOf`, `Appends`, `Rejects` | `writeRecord`, `incremental`, `append` with the checkpoint that follows a `turn.end`, each of which may fail |
| `Open`, `ReadState`, `AnswerCall`, `CloseTurn`, `RecoveryFails` | `Agents.resume` and `readState`, both through `resumeDetailed`, which closes an open turn one append at a time |
| `StartTurn`, `Ask`, `Compact`, `Steer`, `Reply`, `Result`, `EndTurn`, and each with `Fails` | the appends of `runTurn`, `loop`, `maybeCompact`, `drainSteers`, `writeToolResult` |
| `Releases`, `Killed` | `release` with its closing checkpoint; the machine |
| `RepairHistory`, `Cuts` | `repairHistory`, `planCompaction` |

A message is who it is from and the record it came with; the text of a summary
is the record of its compaction; a call is named by its reply and its place
there. Injected context and notes are messages like the user's. That a read of
the file fails is left out, and so are the agent's own checkpoints
(`checkpointEvery` of the agent is 0 unless set) and the `error` records, which
the projection passes over. `rejected`, `strayed` and `split` are history: how many
appends were rejected, whether one ever left its record in the file, whether a
compaction kept other messages in memory than in the session.

### ToolCalls

A script is what the model asks for: up to two turns, each a sequence of calls.
`stage` is where `runTool` of a call stands, `hand` its handler, which may
outlive the call: a call that is cancelled and given up after its grace, or that
stops by itself (`run_code` at its deadline), leaves a handler behind that may
still ask the user something in a later turn.

| Action | Code |
|---|---|
| `StartSingle`, `StartBatch` with `NextBatch`, `SkipCall`, `SkipFails` | `runTools`, `scheduleToolCalls`: a call alone, or neighbouring concurrent ones together; a cancelled turn answers the calls it has not begun, one by one |
| `EnterSlots`, `EnterMembers`, `LeaveSlot`, `LeaveMember`, `TakeSlot`, `TakeMember` | `Limit.run` of the two limits |
| `Settle`, `GiveUp`, `Unwind`, `HandlerEnds` | `executeTool`: the race of the handler against the deadline and the grace, how a call comes back to its place in the batch, and the end of a handler that was given up |
| `FinishTool`, `FinishFails` | `finishTool`, in call order; its append may fail, and then the loop of `runTools` is left |
| `AskApproval`, `AnswerUnasked`, `Request`, `OpenQuestion`, `Answer`, `Decide` | `authorize`, `authorizeNow`, `requestApproval` and the broker's `request`, `settle` |
| `BeginTurn`, `EndTurn`, `Cancel` | the loop around them; a turn whose result could not be appended ends in error (`runTurn`, 1637) |

After a failed append the session goes on. The calls of the batch are not
cancelled: they run on, wake each other, ask and end while the next turns run, and
nothing writes their results any more. So `batch`, `slots`, `members` and `jobs`
are functions of the turn: a batch that a failed turn (`failed`) has left behind
keeps the two `Limit` objects `runTools` made for it, beside those of the next
turn, and `ResultsInCallOrder` excepts exactly the calls at the end of a failed
turn. What `settleMembers` does to the members among them is in `Members`.

`Limit` wakes a waiter by resolving a promise, so whether a newcomer gets in
before it depends on promise jobs: `jobs[t]` is that queue, first in first out. A
handler may settle, and a user cancel, between two jobs; every other step is a
timer or an answer from outside and waits until the queues are empty. There is one
queue for each turn: jobs of two batches touch nothing in common, so that their
order among each other does not matter. Nothing else
in the models needs that grain. What is asked is a subject; what a tool does is left out.

### Members

A run is one use of a member: by the `delegate` tool or by an `agent()` call of
a workflow script. `st` follows it through `createChild` (`creating`, `built`),
`runMember` (its records, its turn, its close); `open` has the calls whose
records are not yet written (`recordsOpen`), `log` the records of the parent.

| Action | Code |
|---|---|
| `Delegate`, `CallAgent`, `Build`, `BuildFails`, `StartRun`, `TurnEnds`, `EndRun`, `Return` | `createChild`, `runMember`, `runOpenMember` |
| `StartWorkflow`, `ProgramEnds`, `EndWorkflow`, `Release`, `AbortWaiter` | `runWorkflow` and its `Slots` |
| `Cancel`, `GiveUp`, `LoopOver`, `EndTurn` | a cancelled turn, the grace of a call, `settleMembers` |
| `Close`, `CloseMembers`, `ReleaseAtOnce`, `ReleaseParent` | `closeAs` |
| `Crash`, `Resume` | the process dies; `resumeSession` |
| `FindRuns`, `CloseInterruptedRun`, `FindWorkflow`, `RecoverWorkflow`, `RecoveryFails` | `closeInterruptedRuns`, `recoverWorkflows`, and the `catch` around them |

`resumeSession` puts the session into the table (`sdk.ts:750`) before it recovers
it, and `ensureSession` hands it out at once, so the recovery works beside the
first turns: it reads the records, ends the runs it found open (`found`), reads
again and ends the workflow. An error is reported and the session stays usable,
with what is still open. `overtaken` has what the recovery found open although
the new agent had started it.

Left out: members of members, what a task spends against its cap, members kept
for a second use, what a program returns.

### Threads

`sess` is where `ensureSession` and `closeSession` are with each session, and
the phase of its turn. A call is one `start_thread` or `message_thread` with all
that follows: the thread's turn, its two records in the coordinator, the note
that wakes the coordinator.

| Action | Code |
|---|---|
| `Open`, `Opened`, `ReadRuns`, `CloseRun`, `Recovered`, `RecoveryFails` | `ensureSession`, `resumeSession`, the recovery of runs, which may fail at any read or append and leaves the session open |
| `CloseSession`, `CloseAgent`, `SessionClosed`, `Restart` | `closeSession`; the end of the process |
| `StopAccepting`, `EndTurn`, `TurnDone` | the turn of a session as `startTurn` and `steer` see it |
| `Send`, `SendCheck`, `SendStart` | `turns.send` |
| `StartThread`, `CreateThread`, `MessageThread`, `SteerThread`, `BeginRun`, `RecordRun` | `start`, `message`, `runFor` |
| `RunEnded`, `ReadEnd`, `AppendEnd` | `ended`: an append that fails ends it (`failed`), with no wake |
| `ReachWake`, `Wake`, `WakeWait`, `WakeStart` | `wake` |

`left` is a ghost: runs whose end a failed append or a failed recovery did not
write, until the next recovery reads the log. Left out: an opening that fails (the
session stays closed and the next opening recovers it), the closing of a whole
project, measurements, archiving. The cause
"user" stands for the user's cancel and a cost cap.

### Workdirs

Every path is handled for itself, so the model has one file, and its content is
the set of the edits it has. `base` is what copy and parent had when they were
last in sync; `finds` is what a scan would say, which is the cache of the last
scan or write as long as nobody has written since. Merges, refreshes and closes
of all copies go through one `queue`; `job` is where the first of it stands.

| Action | Code |
|---|---|
| `Open`, `CopyIn`, `RemoveCopy`, `Close` | `open`, `copyIn`, `close` |
| `MergeScan`, `MergeScanCopy`, `Unchanged`, `TakeTheirs`, `SameChange`, `MergeBoth`, `Overlap`, `Conflict`, `Put`, `Stat`, `StatBoth`, `StatOwn`, `MergeFails` | `mergeNow`, `mergeBoth`: scan the parent, then the copy, compare, write, take the new state |
| `RefreshScan`, `RefreshScanCopy`, `RefreshLeaves`, `RefreshTakes`, `RefreshPut` | `refreshNow` |
| `BeginTurn`, `EndTurn`, `AgentEdits` | the turn of the agent; a turn that ends in error does not merge |
| `Edit` | the user and other tools, between any two steps |

`MergeText` is what a line merge does to sets of edits: what each side added or
took away. Copies are two deep: a thread has one of the project, a member one of
its thread's. Left out: the merge of lines itself (`merge3.ts`), links, the
executable bit, limits of size, pruning.

### Rewind

`writes` is all that was written to the project's files, in order; the content
of a file is named by the write that made it, and an object of the store by its
content. `now` is a clock so coarse that the racy window, the allowance for skew
and the grain of time stamps lie within one tick: two writes of one tick have
one stamp. `session` has the open turn of the tracker, `snap` where the snapshot
of a turn is, `store` the directory of snapshots (`fresh` is what is younger than
the grace of the sweep), `changes` the `turn.files` of each turn, `rewind` the
calls of `sessions.rewind` under way, any number of them for one session. Three
ghosts say what cannot be kept: `lost`, what was swept under a snapshot that had
just found it; `dropped`, the files whose owner was forgotten while a turn was
about to look at it; `crossed` of a rewind, the files that another rewind of its
session wrote after it had dealt with them.

| Action | Code |
|---|---|
| `BeginTurn`, `ToolWrites`, `ToolReports`, `ToolFails`, `LeaveFiles`, `EndFiles` | `runTurn`, `beginFiles`, `awaitSnapshot`, `writeToolResult`, `endFiles` with `beginTurn`, `observe`, `endTurn`, `scanShellChanges`, `pruneOwners` of the tracker |
| `ListFiles`, `TooLarge`, `StoreFile`, `SnapshotFails`, `StoreTree`, `WriteRecord`, `Prune` | `begin`, `storeTree`, `storeObject`, `prune`, `sweep` |
| `RewindStarts`, `RewindPlans`, `RewindFile`, `RewindFails`, `RewindEnds` | `sessions.rewind`, `planRewind`, `applyRewind` |
| `UserEdits`, `Tick`, `Ages`, `Crash` | the user, the clock, the grace, the end of the process |

`LeaveFiles` is `endTurn` up to where the turn is out of the tracker's map
(`turn-files.ts:140`); it looks at files and owners later (`EndFiles`), and the
end of another session's turn may prune the owners in between. The reads of
`EndFiles` are one step, and so are those of `planRewind`. `Prune` is one step
after the records were listed, for any age or size up to which records go; when
it notes the time of its look at the size it writes the whole index back as it
had read it, over one that another snapshot has stored since
(`task-records.ts:510`). Left out: the checks of a task, the cap of 1000 listed files, ignored
paths, links and the executable bit.

### LearningQueue

`items` and `history` are `queue.json`, `worker` is `worker.lock`; a change of
the queue is one step, made under `queue.lock`. `host` is one `LearningHost`:
where its start and its loop are, and its fields.

| Action | Code |
|---|---|
| `StartReset`, `StartPlain`, `Reset`, `Started` | `start` |
| `TurnEnds` with `EnqueueItem` and `FromTurn`, `Kicked` | `noteTurnEnd`, `enqueueItem`, `kick` |
| `Enter`, `Look`, `Forbidden`, `NoBudget`, `Claim`, `LearnEnds`, `Finish`, `Release` | `work`, `setStatus`, `claim`, `finish` |
| `LoopEnds` | the loop of `kick` with `again` |
| `Stop`, `Exit`, `Crash`, `Allow` | `stop`; the process; the switches and the budget |

Left out: what a reflection reads and writes, the races inside `lock.ts` (the
lock is taken in one step here; see FileLock), failures of the queue file itself. No turn ends
before `start` is through with the items of the process before: a turn takes a
request to the model, `start` one small file.

### FileLock

Files are numbered as they are created: `path` is the one that has the name of
the lock, `aside[u]` the one that `u` has renamed, `pid` what is written in each.
`old` has the files whose mtime is past `EMPTY_LOCK_GRACE_MS`.

| Action | Code |
|---|---|
| `Enter`, `Create`, `WritePid`, `WriteFails`, `Poll`, `Leave` | `withFileLock`, `tryCreateLock` |
| `ReadPid`, `StatAge`, `MoveAside`, `RemoveStale`, `PutBack` | `breakStaleLock`: read, stat, rename, look again, remove or link back |
| `Die`, `Age` | the operating system and the clock |

Left out: the retries of operations that fail on Windows, the reuse of pids.

### Ledger

`ledger` is the file of one month as its lines, the last one without a newline;
`pen` is where each writer's append stands. An append looks at the last byte and
writes later, in one `write` that the system keeps together; `WriteShort` is a
write that was cut short, which the code does not notice, `AppendFails` one that
is rejected, `WriterDies` the death of the process with any part of its text in
the file. `Readable` is what `read` makes of it. `excused` is history: the
records that a torn write may have cost.

### Capabilities

`chain` is the directory of revisions, each with the activation a reader has
before it; `bundle` is whether a version loads and validates, `decisions` the
files of decisions. `host` is what each process is doing, with the tail it has
looked at (`base`); `sessions` are the versions its session has recorded, and
`running` the one its agent runs on.

| Action | Code |
|---|---|
| `CreateSession`, `ResumeSession`, `ViewCapabilities`, `AskRollback`, `CloseSession` | `Agents.create`, `resume`, `capabilities.list`, `capabilities.rollback`, `close` |
| `ReadChain`, `JudgeTail` with `Adoption`, `Follows`, `Settle` | `resolveVersion`, `resolveAdopted`, `readActivationChain` |
| `CheckTail`, `Publish`, `PublishDecision`, `AppendLedger` with `TooLate`, `RolledBack` | `#commit`, `commitActivation`, `publishDecision`, `onDecision` |
| `Verify`, `RecordVersion`, `Attach`, `RecordLoadFailure` | `resumeVersion`, `session.start` and `capability.version`, `loadCapabilities` |
| `Die`, `DamageBundle`, `DamageChain`, `RepairChain` | processes, the disk, and the person the problem is reported to |

`Attach` may fail for a usable version too (a clash of tools, a plugin that cannot
be imported); the baseline attaches. A rollback names the version it returns to by itself. The code adopts nothing
any more (`data-formats.md:1014`), so adoptions are in the chain at the start. A
chain is repaired while nothing else goes on. Left out: members (which follow
their root), drafts, the components of a bundle.

## Runs

| Run | Instance | Shows |
|---|---|---|
| `lock` | three processes, three rounds, every largest fault set of `SoundEnv`, and one with a guard left behind that grows old; a reused pid, two hosts | `MutualExclusion`; `SingleWriterSpec`; an acquire that nobody disturbed is refused only because of something a dead process left (`UndisturbedRefusedOnlyByLeftover`, which looks at the files after the step that refuses); every acquire ends; `LockInv` is an invariant |
| `turn` | two turns of two steps, two messages, two calls a reply, one failing append | the invariants of a turn, and that a close ends (`CloseReleases`) |
| `log` | four records of one and two units, three failing operations, two kills or power losses | `LogInv`, `JournalSpec`, `StrayNeedsAFailure` |
| `state` | four sets of bounds: two turns killed and killed again in their recovery; two turns with two failing appends; three turns with two failing appends, compacted in the third; a turn of two steps, compacted in the second | a state from a checkpoint is the fold of the file, and the writer's bookkeeping is what a reopen computes (`StatesAgree`); a call has one result, also over a recovery, a turn one end, and turns overlap only after two failures (`TurnsAddUp`); the history sent is the one a resume would rebuild (`SentIsRebuilt`) |
| `calls` | scripts of two turns of up to five calls: questions beside `run_code`, concurrent readers, members, a batch left behind with calls that wait before another turn; two calls at a time, one member, one failing append | results in call order, none skipped but at the end of a turn that failed (`ResultsInCallOrder`); the limits of every batch hold but for one call more for each member that had to wait, and no place is lost (`LimitsHold`); nobody is asked twice for the same, a cancelled turn ends |
| `members` | two runs (two delegates at a time, or two `agent()` calls with one slot), a task of one member, two turns, one death, a recovery that may fail beside the second turn | slots are kept, records are paired but for what a recovery overtook, no member works outside its parent, a recovery that went through leaves nothing open (`RunsNested`), a close ends |
| `threads` | two calls, two threads, one message of the user, one close or restart, any append of a run's record failing, any recovery failing | a run is waited for, ended, or left by a failed append to the next recovery (`NoRunForgotten`), notes are due, come once and are lost only to turns of others (`NotesKept`), the bookkeeping of a run ends |
| `workdirs` | two threads and a member of one of them, two edits, three turns | no edit is lost (`EditsSurvive`), a merged copy is what its parent is |
| `rewind` | two files, one of them there at first, with no snapshots yet, with old ones, and with an index as young as its file; seven sets of bounds: one session with two turns, a rewind and an edit or a fault, or with two rewinds at the same time; two sessions with a turn each and a tick, with two calls or with a call and a rewind; the end of the grace and a death, in three turns or in two with an edit | what the session could know it changed is taken back (`RewindUndoes`); what a snapshot names is there (`SnapshotsWhole`); no turn is charged with what only others' write tools did (`ListedWithReason`); each with its disclosed exceptions (`crossed`, `lost`, `dropped`) |
| `learning` | a task of three turns and one of one, one process at a time, two crashes, exits or changes of what is allowed, two attempts, room for two items | no queued turn is lost, an item is worked as long as it may be |
| `capabilities` | two processes with a session each, two adopted versions that are all right or both bad, two jobs, one fault, two attempts | only what does not pass its checks is rolled back, and the user's rollback stops where he asked (`RollbacksAreMeant`); races leave the chain whole (`CapabilitiesInv`); sessions open on the adopted version and run on the recorded one (`SessionsOnAdopted`); `LedgerKeepsRecords`; every job ends (`JobsEnd`) |
| `filelock` | two users, a lock left empty by a process that died before | `OneHolder` is violated |

Why the bounds are enough. A lost takeover needs a holder that dies, one that
takes over and one that races it: three processes; `MaxAttempts` = 3 leaves room
for the two extra rounds that clearing a guard and a lock take (the code has 5;
fewer rounds refuse more, so `UndisturbedRefusedOnlyByLeftover` is stricter
here). Two turns show what one leaves for the next; `RequestCap` above
`MaxSteps` lets a turn meet either limit. Four records are `session.start`, one
before, one at and one after the place where something fails; three faults are
a failed write, its failed undo and one more in the repair that follows, and two
deaths put one into the recovery from the other.

In `state`, `CheckpointEvery` = 4 puts a checkpoint after most turns and leaves
some without one, and `MaxChain` = 1 makes the third checkpoint in a row a full
one (the code has 50 and 256). Two deaths put one into the recovery from the
other; two faults are what an overlap of turns needs; two calls are enough for
one to be answered and one not. The bounds are spread over four sets because a
behaviour that may have everything at once has too many states. Some invariants
have a condition: `~strayed`, since a record left behind by a failed undo can be
read and later be overwritten, and `~split` and `InPlace` in `SentIsRebuilt`
(see below for each).

In `calls`, two slots and one for members are the fewest with which a waiter,
a newcomer and a member meet; the last two scripts have more calls than either.
Two turns let a handler of the first ask in the second. In `members`, two
runs are a holder of the one slot and one that waits, and two delegates that pass
the limit of the task together or one after the other; two turns, since what the
first leaves behind is what the second must not meet, and the session is opened
again only with a turn left; one death, since a second one finds the same records. In `threads`, two calls of two threads are what it takes
for a note to meet another's turn; `WakeAttempts` = 3 (the code has 5) lets all
attempts be lost. In `workdirs` two edits are two sides of a conflict, and a
third copy is one that sees the result; three edits of two copies in four turns
were checked as well. In `rewind` two turns are one that leaves an index and
owners behind and one that uses them, and two sessions the least that share the
store; the bounds are spread because each fault multiplies the states. In
`learning` three turns are one that is worked on, one
that waits and one that takes a place; room for two items (50 in the code) makes
the queue overflow. In `capabilities` two processes are the two sides of every
race for the tail, two versions let a rollback find a bad version below, two jobs
are one of each process or one after the other, and a fault is any one death,
damage or short write; `MaxAttempts` = 2 (32 in the code) lets a process give up.
In `filelock` the abandoned lock is there at the start and nobody has to die: two
users and three files are enough.

Deadlock is not checked: in each model the program may stop (all processes dead
or done, the agent closed, the session closed with the bounds used up).

## Fairness

`LockFile`: weak fairness of each acquiring process, that is, an awaited file
operation is answered. No fairness of releases or of the system.

`AgentTurn`: weak fairness of the turn's own steps (they wait for appends and
for timers only) and of the release that follows a close. The model and the
tools are fair only once the turn is cancelled: `requestModel` races its stream
against the signal, and a tool is given `toolAbortGraceMs` after it
(`agent.ts`). Without a cancel they may take for ever, and no liveness is
claimed.

`ToolCalls`: the loop and the broker, and the grace of a cancelled call, which is
a timer. No handler ever has to end, no user to answer.

`Members`: the parent's own steps, those of each run, the timers that give up a
cancelled call; a cancelled turn and a cancelled script end. An uncancelled
member or script may run for ever.

`Threads`: what has begun goes on (a session opens and closes, a recovery ends or
fails, a turn that has stopped ends, `ended` takes its next step). Turns may run for ever.

`LearningQueue`: a start that has begun and a loop that was woken go on; a
reflection ends by its answer, an error or a timeout. No start is promised, and
nobody wakes the loop but the end of a turn and a start.

`Capabilities`: a process goes on with the job it has begun. No job is promised,
and no repair.

`Workdirs`, `Rewind`, `FileLock`, `SessionLog` and `SessionState` have no liveness property: every append and
every recovery ends by the shape of the code.

## Proofs

All theorems are about `Spec` (of `Rewind`, `RewindSpec`; of `SessionState`,
`StateSpec`) and hold for every value of the constants that the
named assumptions of the modules allow.

**LockFile_proofs.** `LockInvariant`: in a behaviour whose environment is sound
(`SoundEnv`), `SoundLock` is inductive; `LockInv` is the two together, and needs
no assumption. `MutualExclusion` by itself is not inductive: that no
second process gets in follows from `WriterKeepsFile` (the file of a live writer
stays, with its own text, so `wx` fails), which holds because an unlink happens
only under the guard (`GuardIsExclusive`) of a file whose text names a dead
process (`ReadIsSound`, `LockFileHasOrigin`). `OneWriter` and
`LockRefinesSingleWriter` follow, when every environment is sound. `SoundEnv` has three conditions: if a lock file
can grow old, no process dies between creating and writing one, and a read sees
one file; if a guard can grow old, no process dies while it has one. Each is
needed: without any of them TLC finds two writers.
`RefusedOnlyByLeftover` needs no `SoundEnv`, only three rounds (the code has
five). `AloneInv` says that while nobody else is active (`NobodyElse`) what an
acquire has read is still there (`Found`), and how far it has come (`Progress`):
an abandoned guard costs it one round and a stale lock one, and in the third the
file is free. What is left to refuse it is a guard that is not old, or a lock
file that it may not call stale.

**AgentTurn_proofs.** `TurnInvariant`: `TurnInv` is inductive. It says for every
phase how far a message has come (`SteersKept`, `RepliesCoverSteers`), whose
calls are open (`CallsTracked`), and how far past the cap the spend can be
(`CapTracked`: the compaction of the step, its request and its resends, the
forced compaction). The invariants of the run, and the action property
`CompletedAnswersSteers`, follow from it.

The module also has the theorems of `Rewind`. `StoreInvariant`: `StoreInv` is
inductive. `SnapshotsWhole` alone is not: a record is written from what a snapshot has
found and picked before, so `Holds` says that a snapshot under way still has the
objects it listed, those it picked, and, once stored, its tree (`WholeTree`). A
sweep keeps what the listed records need; for a record that came later
(`Late`), or a snapshot that has none yet, what it takes and was not young goes
into `lost`. So the theorem says that nothing else is ever lost, for any number of
sessions, files and concurrent snapshots. It uses of `RewindAssumption` that no
file is called `"large"`, so that no tree is `NoTree`.
`TurnsListWithReason` says why a turn lists a file. The scan after a shell skips
what `owners` gives to another session, so its reason must be found in what the
map still says: `ReportsKept` of `ListInv` says of every open turn that a file
which other sessions' write tools changed and reported since it began has an owner
reported since, or was reported by the turn itself. `PruneOwners` keeps this
because it looks at the earliest of all open turns, not at the latest; for a turn
that has left the map it does not, and what it forgets then is in `dropped`. The rest says that a call has
written its file in its turn (`CallWrote`), and so has what was reported
(`TouchedWrote`). It uses that `None` names no session.
`RewindsUndo` is the theorem about taking back, and its argument follows a file
through four stores. The index: where a stamp is older than the index, it
names what is in the file (`IndexRight`); a write in a tick that the index can
have seen has the index's stamp or `Blurs`. The snapshot: what was picked, by its
stamp or by reading it, is what the walk saw, or the file was written to since
(`PickedRight`). The record: its turn's own tools waited for it, so a difference
between its tree and the project as the turn found it is the work of another
since the turn began (`TreeRight`, `Foreign`). The lists: a whole one has each
file the turn wrote and was told of, unless another was at it since every turn a
rewind could start from, or a shell removed it unseen (`WholeRight`; `EndLists`
is the proof that the scan misses nothing else). A rewind then has, at every
step, put back or still to do what is on the lists (`PutBack`), unless another rewind of
the session, to another turn, wrote over it (`crossed`); once a new turn begins it
promises nothing more. `UndoInv` is inductive together with `StoreInv`
and `ListInv`, was checked by TLC on the instance of the run before it was
proved, and uses of `RewindAssumption` that neither `None` nor `"user"` names a
session and that the files there at first are files.

**SessionLog_proofs.** `LogInvariant`: `LogInv` is inductive, for any record
bodies and line lengths. That a holder finds what was acknowledged is a fact
about a scan that has not happened yet, so the invariant says what the file
looks like to one: the acknowledged records lie one after another below the
writer's size (`RecordsPlaced`); wherever else a line seems to begin, its number
is one that a scan there would expect (`HeadsNumbered`), and a whole line below
the size is one of the records (`WholeIsPromised`), whatever broken lines and
remains of overwritten ones lie between; nothing but the append under way writes
(`AppendInPlace`); and a scan that got to some place has found the records
before it (`ScanInPlace`). The scan is the heart of the proof: a line it stands
at is either the next record (`ScannedWholeIsNext`) or no record begins in it
(`ScannedPromiseIsNext`). `LogKeepsThePromise` is the refinement of `Journal`:
`Sync` is an `Add`, `ScanEnd` an `Open`, `PowerLoss` itself, all else a stutter.
`UndoneStaysUndone` adds `NothingAhead`: unless an append was dropped with what
it wrote, no whole line begins at the size. The assumptions are those of the
module: a body has at least one unit, and `session.start` and the error record
of a repair are synced.

The module also has the theorems of `SessionState`. `StateInvariant`: `StateInv`
is inductive, and `StatesAgree` follows (`OneState`). It needs to know nothing of
phases or turns: whatever is appended, if it is a record that is no checkpoint
(and a compaction that fits), or the checkpoint that `CheckpointOf` makes, the
file stays `Exact`. That is: the latest usable checkpoint and what follows it
fold to what the whole file folds to; and as long as no compaction follows that
checkpoint, messages were only added to it (`OnlyAdded`), so that the prefix an
increment keeps of its base is the prefix of the state (`CheckpointIsLink`).
`Held` carries the holder along: it is `Opened` of the records it knows, also
when an append, its undo or its checkpoint fails. The folds are recursive
functions. TLAPS has no induction for them here, so the lemmas take the least
place at which two of them could differ: a fold exists (`RowExists`) and there is
one (`RowsAgree`); the rest is by one more record (`ReplayOfOneMore`,
`LinkOfOneMore`, `FoldedOfOneMore`).

`TurnInvariant` is about the turns in that file, and `TurnsAddUp` follows
(`TurnsAlwaysAddUp`). It is kept apart from `StateInv`, which it uses, because it
holds only as long as no rejected append has left its record in the file
(`~strayed`); until then the file is what the holder knows, and only grows.
`TurnFacts` is of the file alone: the numbers of the turns rise with their starts;
replies, results and ends come after the start of their turn; a result is of a
call and no other result is; a turn a recovery ended has no call without one.
`InStep` relates the holder to it: the turn that runs, or is recovered, is the one
the file has open; `todo` are calls of that turn without a result, each once
(`Awaits`), and in a recovery all of them (`Covers`), which is why a recovery that
is killed and begun again answers no call twice and leaves none out. An agent finds
a turn open when it is about to start one only if appends have failed before: one
if it is idle and will look, two if its healing failed as well, which is the bound
of `TurnsOverlap`. What a record must be like for the file to keep all this is
`Admits`, and what the holder may append next is `May`; an action is then one
record, or the record before which the process died. `unansweredToolCalls` is a
list of lists, one for each reply, without the answered ones. The lemmas say what
is in it by the same rows as above (`TurnCallsListed`, `UnansweredLeft`), so it is
written as a function over the calls: TLAPS has no `SelectSeq`. Beyond `StateInv`,
only `NumbersAssumption` is used.

**ToolCalls_proofs.** `ApprovalInvariant`: `ApprovalInv` is inductive, for any
scripts, limits and faults. `NotAskedTwice` looks back at the whole log, so the
invariant says that the two sets which `authorize` looks at have forgotten
nothing of it (`AnswersRemembered`): what was allowed for the session is in
`grants`, what was refused in the turn that runs is in `denials`, also when a
handler left over from an earlier turn had asked. The log never names a later
turn (`LogOrdered`), so `BeginTurn` may empty `denials`.
`CallsInvariant` is the other half, with `ResultsStayInOrder` and `LimitsAreKept`
as its consequences. `OrderInv`: the batch is a stretch of the calls of its turn,
`written` is sorted, and both the written calls and those that have started are
closed downwards, so that what `NextResult` picks is the next call of the turn.
`TurnsWhole`: a turn that is over has all its results or is in `failed`, and
nothing of a later turn is written before it begins; that is what keeps the calls a
failed turn has left in its batch out of the order of the later ones. `TokenInv`: whoever waits or is named by a job is there once, and his
stage says so; without it a call could be woken twice. It is an invariant of each
batch (`TurnInv(at)`), and a step of one batch leaves every other as it is
(`OnlyAt`), so that two batches at once need no further argument. `CountInv`: each `active`
is the number of calls that hold a place (`InSlot`, `InMember`), and

    slots.active + woken for a slot + members waiting + members woken <= MaxCalls + Latecomers

where `Latecomers` is the number of members of the batch beyond `MaxMembers`. The
sum is at most that when the batch has entered (a fold over its calls, followed
call by call), and no step makes it grow: a member that takes a place which was
promised to somebody else was counted while it waited. No call waits in front of a
free place because `active` and the woken ones together fill the limit as long as
somebody waits. The scripts are any sequences of calls and the limits any positive numbers;
nothing else is assumed of them.

**Members_proofs.** `MembersInvariant` is three invariants, each inductive with
those before it. `LifeInv`: which states of runs, calls and their parent go
together (`CallsAreNew`, `RunsAreKnown`): a run at work is in `children`, so a
close has told it. `SlotsInv`: the queue of a workflow has each waiter once and
only waiters (`QueueInv`), and `slots.active` is the number of the runs that
hold a slot (`CountInv`), also after a slot went to a waiter whose abort comes
in the same step. `RecordsInv`: what the log of the parent shows of a run and of
its workflow agrees with where these are (`RunsLogged`, `WorkflowLogged`), and
what a recovery still has to end is open, or was overtaken, and covers what is
open of earlier agents (`RecoveryLogged`), although the turns go on beside it.
`SlotsAreKept` and `RunsAreNested` follow.

**Threads_proofs.** `ThreadsInvariant`: `ThreadsInv` is inductive, for any
threads, calls, messages, closes and ends of the process. `NoRunForgotten`
speaks of an open coordinator only; `Tended` says of one that is away who will
find the run: its recovery has still to read the log, or has read it and the run
is in `unclosed`. What a failed append or a failed recovery leaves is in `left`
until the next recovery has read the log; the theorem says that nothing else is
open. `OwnTurn` ties a call to the one turn it waits for, so that a
later turn of the thread does not settle it again. For `NotesSurviveRaces`,
`AttemptsPaid` counts: a turn that got in costs a note one attempt when it has
begun before the note's own turn could, and one when it is found ending, never a
third; twice the turns met cover the attempts made. `NeverClosed` is why nobody
holds a dead entry before the first close. `NoRunIsForgotten` and `NotesAreKept`
follow.

**Workdirs_proofs.** `WorkdirsInvariant`: `WorkdirsInv` is inductive, for any
threads, members, edits and turns. It speaks of the edits that are alive
(`Live`): not excused (taken back, or gone with a copy or a conflict copy that
`EditsSurvive` excepts), not made under a job, not in a conflict copy. `BasesTell`: what is in a base is in the copy and in its
parent, and a copy that is idle and not marked has nothing else; that is why a
close loses nothing. `FindsTell`: a scan that gives the state of its cache gives
what is there. `JobTells` says for every stage of a job what it knows of the
copy, its parent and the text it will write. Files are compared on the live
edits as soon as somebody has edited under a job, and exactly until then
(`Agree`); the exact part gives the action property `MergesAreInSync`.
`FilesHave` (each live edit is in some directory) with `BasesTell` gives
`NoEditIsLost`: from the directory that has the edit the proof climbs to the
parent until the edit is in the project or is a change that is still to be
merged. It climbs twice at most: `WorkdirsAssumption` has the parent of a member
be a thread, as members cannot start members (`agents.ts:349`). `NextIsNew`
(nothing contains the next edit) and `ConflictsCounted` (a conflict copy gets
its own number) are what the other parts rest on.

For `LearningQueue` the module has `LearningInvariant`: `LearningInv` holds for any
tasks, turns, faults, attempts and room in the queue, of `LearningSpec /\ []Alone`:
one process at a time has the project open (it may crash, and the next one
start). Without `Alone` it is false (see "Learning, two processes" below).
`HostsWork`: who has `worker.lock` puts the queue back or works it.
`RunningIsMine`: once `start` has put back what its predecessor left running, an
item runs only while its host learns from it, and has the turns of the item the
host holds; that is why `#finish`, which removes every running item of a task,
removes nothing else. `QueuedBefore`: an item and an entry of the history reach
up to a turn that was queued, so `enqueueItem` never turns away a turn that has
just ended, and the item that takes the place of a waiting one covers its turns.
`QueueStep` says what a save keeps, the turns of the items cut off being those
in `dropped`. `NoTurnIsLost` follows.

**Capabilities_proofs.** `CapabilitiesInvariant` is three invariants, for any
hosts, versions, attempts, jobs and faults. `ChainInv`: every file of the chain
follows the one before it and has a decision of its own (`Linked`,
`OwnDecision`). A process looks at the chain, judges, and publishes later; what
it has looked at is still a part of the chain (`Seen`), because nobody removes
a file while somebody works, so the comparison of digests in
`commitActivation` and the exclusive create of the next number are enough: the
digest stands for one activation only, as no two files have the same decision.
`Fresh` carries that over to the revisions on their way. `Meant` and `Composes`
say why a rollback is wanted and of which tail, from the judgement to the file;
`Published` that the file is there when its decision is recorded. `SessionInv`:
a session that attaches has recorded last the version it loads. `LedgerInv`: a
writer that has seen the end of a line still has it before it when it writes,
unless its record is excused. `CapabilitiesAssumption` and `LedgerAssumption`
are all that is used, and that the hosts are finitely many, which is why a new
decision id always exists. The four invariants of the run follow; `JobsEnd` is
a liveness property and stays with TLC.

Model-checked only:

- `SentIsRebuilt` of `SessionState`, which is about
  `RepairHistory`, a function of whole histories that TLAPS would need an
  induction over data for;
- the liveness properties: fairness and ENABLED are beyond TLAPS.

## Where the code and its documents differ

The first one has a run that TLC refutes. The next ones were refuted by TLC
in the same way, each with an invariant of one line; no run is kept for them.
The others are notes made while modelling.

- `filelock`: `evolve/src/lock.ts:125` says of several processes breaking the same
  stale lock only one removes it, and a lock that was replaced is put back. A lock
  moved aside is recognised by its pid (`lock.ts:146`). In the run a lock is there
  that a dead process left empty. Two live processes read no pid in it and find it
  old. The first moves it aside, removes it and creates the next lock; before it
  has written its pid, the second renames that new file, finds no pid in it either,
  and removes the lock of a live process as the stale one. It creates a third file,
  and both are inside; nobody dies meanwhile. An abandoned lock is not even needed:
  with `AtFirst = {<<>>}` TLC finds the same with the file of a live process that
  was read before its pid was written and looked at for its age much later.

Refuted, without a run:

- Questions: `docs/spec/permissions.md:397` says a cancel closes all open
  questions. A question of a handler that outlived its call hangs on the signal
  of its own turn (`agent.ts:2659`); a cancel of the next turn leaves it open, and
  that turn does not end while it waits behind the question (with
  `(phase = "running" /\ turn \in aborted) => q # "open"` in `calls`).
- Rewind: `sdk/src/api.ts:641` promises to put back the files the session changed
  in the turn and later. A shell that was stopped by its timeout or failed is not
  observed (`turn-files.ts:122`), so nothing is scanned, although `turn-files.ts:10`
  and `data-formats.md:298` have the scan for every turn that ran a shell. And the
  baseline of a turn is read before its deferred snapshot (`agent.ts:1586`, `2419`),
  although `tasking/src/service.ts:72` calls it the index taken at turn start: a file
  made since the last snapshot and removed by a shell is in no `turn.files`.
  `RewindUndoes` excepts both (`Knowable`).
- Rewind: `sessions.rewind` asks once whether a turn runs (`sdk.ts:1275`) and then
  waits for reads. A turn that starts meanwhile runs while its files are put back,
  and `turn.rewind` is written in the middle of it, against
  `contracts/session.ts:365` ("Never set: a rewind happens between turns") and
  `data-formats.md:265`. With two rewinds a snapshot can read the files in between:
  a later rewind to that turn puts back a state that never was (`Blurs`).
- Rewind: nothing in `sdk.ts:1275` asks whether another rewind of the session is
  under way. Of two that interleave, one can write over what the other has put
  back, so that what `sdk/src/api.ts:641` promises holds for neither: the files
  are partly as before one turn and partly as before the other. `RewindUndoes`
  excepts those files (`crossed`); without the exception TLC finds it violated.
- Rewind: `turn-files.ts:20` says that files which another session's write tool
  reported since the turn began are left to that turn, and `:191` that only owners go which no
  open turn could still need. A turn that ends is out of the map (`:140`) before it
  awaits its stats and its walk (`:145`, `:176`), so the end of another session's
  turn may forget an owner that this one is about to ask for, and the scan lists
  the other session's file. `ListedWithReason` excepts those files (`dropped`);
  without the exception TLC finds it violated.
- Rewind: `task-records.ts:130` on `writtenAtMs` has the files read again that may have
  changed without a new time stamp since. The index is stamped when it is written
  (`task-records.ts:436`), after all files were read: one that was read early,
  and written again in the tick of its stamp, is older than the window when
  the snapshot takes longer than it, and the next one takes it unread.
  `RewindUndoes` excepts such a write too (`Blurs`).
- Rewind: `task-records.ts:154` leaves young orphans for a concurrent writer. A
  writer that reuses an old tree or object does not touch it, so the sweep of
  another may take it: a snapshot whose rewind fails (`lost` in `SnapshotsWhole`).
- Lock: `session/src/lock.ts:11` says two processes that see the same stale lock
  cannot both win. An abandoned guard is removed by name (`lock.ts:224`): with four
  processes, one that died with the lock and one with the guard, two that both saw
  the old guard can remove each other's new one.
- File lock: a lock that is renamed aside while its live holder leaves is put back
  afterwards (`evolve/src/lock.ts:147`): it names a live process that does not hold
  it, and every later `withFileLock` waits until its deadline. With three users two
  can be inside although the lock left behind had its pid.
- Work directories: `data-formats.md:830` says conflict copies are kept when a copy
  is closed; their numbers start at 1 again in the next opening
  (`workdirs.ts:402`), over the files of the last one.
- Capabilities: `capability-store.ts:3` says every revision is preceded by its
  decision. `#commit` publishes the revision first (`capability-store.ts:174`), so a
  process that dies in between leaves a revision that names no decision;
  `decisions.ts:4` and `data-formats.md:623` describe this order.
- Lock: the text and the mtime of `readExisting` (`lock.ts:209`) may come from two
  files; a lock that is being written is then judged abandoned, and two processes
  hold it although nobody has died.
- Turn: `permissions.md:234` says that once a cap is met the next request is not
  sent; the cap is compared once per step (`agent.ts:2130`), before its compaction
  and its resends. `CapOverrunBounded` is what holds.
- Turn: `agent-hooks.md:37` says each call of a reply cut by the output cap gets an
  error result; the last cut returns (`agent.ts:2210`) before it writes them.
- Log: `data-formats.md:364` says a cut tail is recorded before the caller's
  record; when that record fails (`store.ts:462`) it is not written at all.
- State: `data-formats.md:301` has the results of a reply directly after it, and
  `:378` says that the results a recovery writes keep the next request from being
  rejected. When a reply whose calls are not run ended the turn, messages sent
  meanwhile were recorded, and the process died before `turn.end`, the recovery
  appends the results after those messages (`store.ts:352`), and the history it
  rebuilds has a tool result that does not follow its call.
- Members: `permissions.md:252` allows a task 16 members. `createChild` compares
  before its awaits (`agents.ts:640`) and counts after them: delegates that run
  together can all pass, up to three beyond the limit.
- Members: `recovery.ts:58` of subagent wants `closeInterruptedRuns` called before
  the first new turn, as `workflow/src/recovery.ts:3` and `boot.ts:96` say of the
  whole recovery. `resumeSession` calls it after the session was handed out
  (`sdk.ts:750`): a workflow or a member that a first turn starts before the records
  are read is taken for an interrupted one, gets an `interrupted` end beside its
  own, and its later records follow that end. Without `overtaken` TLC finds this in
  `RunsNested` in ten states. A recovery that fails (`sdk.ts:758`), or whose
  `workflow.end` meets a running turn (`agent.ts:981`), leaves runs open under the
  new turns.
- Threads: `data-formats.md:841` has one pair of records for one run. `ended` and
  the recovery of a coordinator that somebody opens again at that moment may both
  write its `subagent.end` (`threads.ts:347`; a session is handed out before its
  recovery is through).
- Threads: `threads.ts:14` and `data-formats.md:842` have the coordinator woken when
  a run ends. When the append of its `subagent.end` fails (`threads.ts:348`), the
  error is reported and nobody is woken: the coordinator waits for a run that its
  log shows as going on until it is opened again (`left`). A recovery that fails
  (`sdk.ts:758`) leaves its runs the same way.
- Learning: `queue.ts:38` calls `fromTurn` the first turn not yet learned from. When
  a reflection fails, or is aborted, while a later turn of its task waits, two
  items of the task wait; the next turn takes the place of the first one only
  (`queue.ts:132`), keeps its `fromTurn`, and the turn in the other is learned from
  twice.
- Learning, two processes on one project (`TurnsKept` and `QueueWorked` hold for
  one): a process that starts while another holds `worker.lock` does not put back
  the items of its dead predecessor (`host.ts:204`, against `queue.ts:10`), and
  `#finish` of the other removes every running item of a task (`host.ts:329`), so
  such a turn is never learned from. A process that queues a turn while the other
  is about to release `worker.lock` gives up, and nobody works the item until the
  next turn ends.

Notes:

- A `turn.end` that was rejected leaves the turn open; the same process closes it
  as `interrupted` when it reads the state for the next turn, although
  `data-formats.md:294` reserves that for the previous process. When this fails as
  well, the next turn starts inside the open one (`TurnsAddUp`).
- After such a recovery the agent's own history lacks the results that the
  recovery gave to the session (at the request they are filled in by
  `repairHistory`). A later compaction counts `keepMessages` from the end of one
  history and applies it to the other, and may keep different messages
  (`split` in `SentIsRebuilt`), which the comment at `compactionTail` and
  `data-formats.md:813` exclude.
- A rejected append whose undo failed leaves its record in the file; `readState`
  reads it although the writer goes on as if it were not there (`strayed`). A
  `turn.end` left behind like this hides that the turn is open.
- An append of a `turn.end` rejects when only the checkpoint that follows it
  failed (`store.ts:282`): the turn is ended in the file and in error to the caller.
- A message that `steer` accepted is dropped when its append fails
  (`agent.ts:2555`): `NoSteerLost` holds without failing appends.
- A cancel during the wait before a resend ends the turn as `error`, not as
  `cancelled` (`agent.ts:2153`, `2203`).
- A refused reply, and one paused too often, leave their calls without a result
  (`StoppedTurnAnsweredCalls` names the reasons for which this can be).

- More than `MAX_CONCURRENT_CALLS` calls of a batch can run together
  (`agent.ts:2412`, `permissions.md:154` and `concurrency.spec.ts:160` have 8 at
  most): one more for each member that had to wait (`LimitsHold`). `Limit.run` frees
  the place before the one it wakes has taken it, and a member that is woken by the
  other limit in between finds it free. TLC shows it with `MaxCalls` = 2 for a plain
  call, a member, a plain one, a member, a plain one: the first two settle, the
  member one promise job earlier, and all three others run; nobody cancels and
  nothing fails. Calls that wait for a slot still start their
  handler after a cancel.
- A refusal of a question left over from an earlier turn counts as a refusal in the
  turn that runs (`permissions.md:179`).
- `message_thread` does not look at `maxRunning` (`agent-hooks.md:113`,
  `data-formats.md:840`); a `start_thread` that was given up and the next one can
  make one thread more than `maxThreads`.
- Two `turns.send` to an idle session at once: the second is refused with
  `session/locked` (`api.ts:660`), where the comment at `sdk.ts:438` has it join.
- The note of a run is dropped when all five attempts of `wake` are lost
  (`sdk.ts:624`; `NotesSurviveRaces` in `NotesKept` says to whom).
- An edit of the project between the scan of a merge and its write is overwritten
  (`workdirs.ts:358`, `368`, against `data-formats.md:828`): `raced` in
  `EditsSurvive`. Changes that no merge brought in (a turn that ended in error, a
  merge that failed, a member that merges into a copy after the turn of its thread)
  go with the copy when it is closed (`data-formats.md:829`, `830`): `excused`.
- `MAX_ATTEMPTS` of `resolveAdopted` counts its own rollbacks beside lost races
  (`capability-store.ts:190`): a stack of 32 damaged versions stops the opening of
  sessions, where the comment at the top says that a damaged bundle never stops the
  app from starting. The next opening goes on from there.
- `write` of the ledger does not look at how much was written (`ledger.ts:201`), and
  a process that dies in a write between another's look and its write leaves half a
  line in front of that one's record: the two `excused` cases of
  `LedgerKeepsRecords`.
- The running item of the learning queue may be among those dropped from a full
  queue; a queue update that fails after a reflection leaves its item running until
  the next start.

## Not modelled

`PROJECT.json` lists every component with the reason. Pure functions without
state (command parsing, formats, schemas, the spreadsheet, markdown), views and
front ends are left out for good. The others are in the plan.

## Plan

1. Done: `LockFile`, `SingleWriter`, `AgentTurn`, `SessionLog`, `Journal` with their
   proofs; `SessionState` but for `fork` and `turn.rewind`; `ToolCalls`, `Members`,
   `Threads`, `Workdirs`, `Rewind`, `LearningQueue`, `FileLock`, `Ledger`,
   `Capabilities`.
2. Proofs. Done: `ToolCalls`, `Members`, `Threads`, `Workdirs`, `Capabilities`
   with `Ledger`; the three properties of `Rewind`;
   `StatesAgree` and `TurnsAddUp` of `SessionState`; `TurnsKept` of `LearningQueue`.
3. `TaskTree`: the spend of a tree against its cap, members of members.
4. `ProviderRetry`; the handbook of `Capabilities`.

# yukino-code in TLA+

yukino-code is a coding agent for the terminal. Its core is the package
`apps/yukino` (all paths below are relative to `src/apps/yukino/src/` of the
repository); the Electron application, the documentation site and the tool
server are packages around it. The agent is one Node.js process, often several
of them: teammates, a remote server, a second terminal in the same directory.
Within a process everything is interleaved at `await`; between processes it is
interleaved at every file-system call, and any of them may be killed.

The modules in this directory model the parts whose correctness depends on such
interleavings, on failures and on order. TLC checks them on small instances,
and TLAPS proves their safety properties for every value of the constants.

Contents: [inventory](#inventory), [modules](#modules), [runs](#runs),
[divergences](#divergences-found), [proofs](#proofs),
[what is not modelled](#what-is-not-modelled), [plan](#plan).

## Inventory

### Modelled

| component | state | operations | interacts with | what is hard |
| --- | --- | --- | --- | --- |
| file lock, `teams/file-lock.ts` | directory of `choosing-*` and `ticket-*` entries, `heldLocks` of the process | `withFileSyncLock`, `tryAcquireFileSyncLock`, the release closure | taken by mailbox, task board, team file, session log, histories, memory, permission rules, a2a tasks, computer use | any order of file-system calls of several processes; owners that die; recycled pids; failing calls; recursion; double release |
| team mailbox, `teams/file-mailbox.ts` | a JSON array per member, temporary files | `send`, `receive`, `receiveMatching`, `requeue` | file lock; teammates' loops; shutdown and plan protocols | lost updates, torn files, pruning of the read messages, consumers that die |
| team task board, `teams/shared-task.ts`, `todo/write.ts`, `todo/dependencies.ts` | one file with tasks, links and an id counter | TodoWrite batches, `releaseOwner`, `initEmpty` | file lock; leader and teammates | batches over stale lists, claims, acyclic and reciprocal links, all-or-nothing |
| execution coordinator, `tools/execution-coordinator.ts` | a queue per workspace, in a map that forgets it when it is empty | `acquireWorkspaceMutation`, `withCommandExecution`, `withWorkspaceMutation` | tool calls of all agents of a process; permission checker; abort signals | aborts while waiting, mode changes between approval and start, commands that outlive their call |
| background tasks, `subagent/task-manager.ts`, `subagent/task-store.ts` | map of tasks, notified ids, pending promises, a record per task on disk | `create`, `stop`, `stopAll`, `waitAll`, `drainNotifications`, `clear`, `useSession` | subagents, shell commands, workflows; the agent loop that drains | crashes between record and report, late results of stopped tasks, retention cap, tasks created while the call waits for all |
| shell tools, `tools/bash.ts`, `bootstrap/exit-cleanup.ts`, `recover.ts` | flags of one command's closure, timers, listeners, the process group | start, abort, timeout, output cap, Ctrl+B, task stop, close and error events, end of the program | execution coordinator (`processDone`), task manager | a race of seven events for one result; processes that ignore SIGTERM; process ids that are reused |
| agent loop, `agent/`; conversation, `conversation/`; compaction, `compact/`; retries, `llm/retry.ts`; follow-ups and wake-ups, `ui/` | message list, steering queue, follow-ups, calls of the response, notes drained and not recorded, abort signal | texts, recall, interrupt; request, retry, continuation; batches of tool calls; compaction; notes of hooks, teammates and tasks | session log, execution coordinator, task manager, mailbox, hooks, permission checker, providers | interrupts at any await; reminders put in from outside; compaction beside them; texts that come when the run is ending; death between draining and recording |
| session log, `session/`; file history, `file-history/`; rewind, `ui/app.tsx`, `remote/server.ts` | JSON lines, the last one perhaps torn; snapshots with backups, baselines, counter; the list a dialog shows | append, count, truncate, rebuild; `trackEdit`, `makeSnapshot`, `rewind` | agent loop, edit tools, file lock | backups deleted before the history is saved, failing copies and saves, lines glued to torn ones, rewinds of code and conversation apart |
| team lifecycle, `teams/index.ts`, `teams/tools.ts`, `subagent/agent-tool.ts` | roster, phase and flags of each member, pending plan; mailboxes and board underneath | reserve, spawn, message, assign, plan and answer, shutdown, stop, delete, restore | mailbox, task board, agent loop of the teammate | stops at any await, answers to plans of the past, messages read with a shutdown request, work of members that are gone |
| workflows, `workflow/*` | saved script, journal, state file; active runs; permits, waiters, calls in flight | launch and resume, agent calls, replay, divergence, kill, shutdown, loading of persisted runs | task manager, subagents | hand-over of permits beside aborts, asynchronous rewrite of the journal, crashes and resumes |

What makes each of them correct is stated as properties, listed with the runs.

### Not modelled yet, or left out

`PROJECT.json` lists every other component with its sources and the reason. In short:

| component | state and operations | what is hard | plan |
| --- | --- | --- | --- |
| file tools (`tools/edit-file.ts`, `write-file.ts`, `file-mutation-queue.ts`, `file-state-cache.ts`) | cache of what was read, a queue per file | an edit that goes by a stale read | FileEdits |
| goal (`goal/`) | a goal with turn and token limits that keeps the loop going | a pause or a limit beside a continuation | in AgentLoop |
| activity history (`history/`), memory (`memory/`) | append-only log with checkpoints; extraction and consolidation under a lock | repair of the tail, consolidation beside extraction and deletion | ActivityLog, Consolidation |
| remote server (`remote/`), a2a (`a2a/`), MCP client (`mcp/`) | sessions, queued prompts, event streams, connections | reconnection, cancellation beside completion | RemoteSession, McpManager |
| permissions, hooks, worktree, skills, commands, sandbox, configuration | rules, catalogues, command lines | text processing and the answers of git | parameters of the modules, or left out |
| terminal rendering, telemetry, logger, theme, images, prompts, update, VS Code client | input and output | none a model checker reaches | left out |

How the parts interact: a tool call of an agent passes the permission checker,
takes the workspace's turn from the execution coordinator and runs; a shell
command keeps the turn until its process is done or moves to a task of the task
manager. Tasks, workflows and teammates report by notifications that the agent
loop drains between turns. Every message of the loop goes to the session log, from
which a session is resumed and to whose line counts the file history ties its
snapshots. Teammates run loops of their own and share the board and the inboxes
through files, all under the file lock.

## Modules

A definition keeps the source's name where it can; `map` in `PROJECT.json` gives
the lines each one stands for. Definitions with an underscore in their name are
mutants: the code with a plausible mistake (a dropped guard, a missing reset, a
swapped order). For every property of every passing run there is one that TLC
must find to violate it, which shows that the property depends on the code.

| module | models | extends or instantiates |
| --- | --- | --- |
| `FileMutex` | what the file lock promises: one owner, released by it or taken back when its process died | |
| `FileLock` | `teams/file-lock.ts`, one action per file-system call | refines `FileMutex` |
| `Mailbox` | `teams/file-mailbox.ts` | takes its lock from `FileMutex` |
| `SharedTasks` | `teams/shared-task.ts` with `todo/write.ts` and `todo/dependencies.ts` | |
| `Turns` | what the execution coordinator promises: first come, first served, and who waits may leave | |
| `Subsequences` | what `Array.filter` leaves of an array: the elements at some positions, in order; without recursion, so that it can be reasoned about | extended by `Mailbox`, `TeamLifecycle`, `AgentLoop`, `Rewind`, `WorkspaceQueue`, `Turns` |
| `WorkspaceQueue` | `tools/execution-coordinator.ts` | refines `Turns` |
| `TaskManager` | `subagent/task-manager.ts`, `subagent/task-store.ts` | |
| `ShellCommand` | one command of `tools/bash.ts` and what it leaves to the exit cleanups | |
| `Workflow` | one run of `workflow/` from launch to its record, over several launches | |
| `Rewind` | `file-history/index.ts`, `session/index.ts` and the rewind of `ui/app.tsx` | |
| `AgentLoop` | `agent/index.ts`, `agent/streaming-executor.ts`, `conversation/`, `compact/compact.ts` and the queues of the terminal | |
| `TeamLifecycle` | `teams/index.ts` | |
| `FileLockProofs`, `MailboxProofs`, `SharedTasksProofs`, `WorkflowProofs`, `AgentLoopProofs`, `TeamLifecycleProofs`, `RewindProofs` | the theorems | extend their component |
| `ExecutionProofs` | the theorems about `WorkspaceQueue`, `ShellCommand` and `TaskManager` | extends all three |
| `MC*` | instances for TLC | extend their component |

`ShellCommand` and `TaskManager` put their component's name into `Init`, `Next`, `Spec`
and the like, so that one module of proofs can extend them beside `WorkspaceQueue`.

### FileLock

A contender is one call of `acquireLock`; several contenders may belong to one
process (`ProcOf`), and the call runs synchronously, so a second call of a
process begins only when the first is not active. `pc` follows the call through
`mkdir`, the `choosing` entry, the largest number, the ticket, the withdrawal of
the choosing entry, and then rounds of `liveLockEntries` (list, stat and perhaps
unlink every foreign entry, list again). `Empty` and `Rmdir` model the removal of
the directory, which makes the next `open` of another process fail with ENOENT
and start over (`Announce`). Any file operation of a faulty contender may fail:
`AnnounceFails` (with or without the entry left behind, which nothing unlinks),
`CreateFails` and `ScanFails`, with the clean-up steps the code takes (`UndoChoosing`,
`UndoTicket`, `GiveUp*`), whose own unlinks may fail too, swallowed in the undo and
thrown by the give-up and the release (`RemoveFails`, which leaves the lock
`unreleased`). An entry such a failure leaves is in `stuck`; it blocks the
others until its process dies. A failing unlink of a foreign entry while the
directory is swept is the case of an entry not yet old. A
process dies in `Crash`, possibly with an entry created and not yet filled
(`blank`); its pid may later belong to another process (`RecyclePid`), which only
the start tick of `/proc` can tell. The sleep between two polls is stuttering.
Time is a flag per entry (`old`, older than `LOCK_STALE_MS`) and a deadline per
contender. A listing is one atomic step.

### Mailbox

Every operation takes the lock, reads the array (`Load`), writes a temporary
file (`WriteTmp`), renames it (`Rename`), and returns after the unlock. Each of
these is an action; between any two the process may fail (`Fail`), lose the race
for the lock (`LockTimeout`) or die (`Crash`, with the lock reclaimed later).
`Prune`, `MarkRead` and `Store` are the updates of the array. The lock is the
abstract one; `FileLock` shows that the code's lock implements it.

### SharedTasks

A batch is a set of deletes and a sequence of edits; an edit is a record with
the fields it mentions, as the tool's input is. `Applied` computes the board a
batch leads to, `ValidBatch` and `ValidResult` are the checks `applyTodoWrite`
makes before and after; `Commit` renames the board into place. `Begin` takes the
lock and reloads, so what a store remembers between mutations plays no part.
Titles, descriptions and notes are left out.

### WorkspaceQueue

A call is asked for or allowed (`Ask`, `Submit`), joins the workspace's queue
(`Open`, `Wait`), is granted the turn by the release of the one before it
(`HandOver`), checks its permission again (`Start`, `Refuse`), works, returns,
and releases when its work is over (`Finish`). A call that needs no turn (`Turnless`)
skips the queue. `queues` keeps every queue object
ever made, because closures of calls refer to the object they joined while the
map may have forgotten it. `Abort` and `SetMode` happen at any moment.

### TaskManager

A task's promise goes through `created`, `started`, `settled` and is gone after
`Finally`; each is a microtask of its own, and stops, drains and `stopAll` come
between them. `disk` holds the records of every session; `Persist` may fail, and
each caller's reaction to that is modelled (a `create` that throws after the
task is in the map, a pass of `stopAll` that ends at the task it could not
record, a drain that reports nothing, a session that is loaded in part). `Put` is a
map with entries set over those it has. `Crash` loses everything but the records. Output,
tool counts and names are left out.

### ShellCommand

The flags of `startCommand`'s closure (`aborted`, `timedOut`, `sizeKilled`,
`terminating`, `settled`, `backgrounded`, `exited`) are the set `flags`; timers
and listeners are the set `armed`. The command is a group of a shell and perhaps
a child, each of which may ignore SIGTERM and may end by itself at any time.
`Configs` is the set of commands: with or without background tasks, explicit
background, timeouts, a failing or throwing spawn, an unwritable task record.
`tools/powershell.ts` repeats the scheme for Windows and is not modelled apart; the
sandbox is one asynchronous clean-up (`Finalize`).

### Workflow

A script is a pipeline: item `i` makes `Length[i]` calls one after the other and
the items overlap, which covers `parallel()`, `pipeline()` and sequential
scripts. `Unawaited` items are chains the script does not await: when it returns, only
the calls then in flight are joined (`joined`), so that a chain of several calls may
outlive its run. What it leaves at work is kept in `late` (`Leave`) and may still
append its line to the journal (`LateLine`); `loose` says that a run has left such
calls. `Fragile` items
are those whose errors the script may let through. `ready` is the order in which
promise reactions reach the script, so that agent ids are given out in the order
the real script would make its calls. `reset` and `cut` model the rewrite of the
journal at the divergence; `Acquire`, `Release` and `AbortEngine` are the
semaphore and what an abort does to its waiters. Phases follow `service.ts`:
launching, saved, created, opened, then the engine (script, joining, draining),
over, idle. `Crash` ends the process; the files stay.

### Rewind

A line of the log is the sequence of fragments written to it: an append after a
torn line continues that line (`Appended`), a line of one whole fragment can be
read (`Readable`), and a whole fragment without its newline is what a death just
before the newline leaves. `Rebuilt` is what a resumed session and a rewind make
of a log. Snapshots carry, beside what the code keeps (number, backups, line
count), history: the files and the conversation of their time. An operation of
the file history holds its lock over several steps (`op`): copy, prune, save; or
restore file by file, drop the later snapshots' backups, save; a death
comes between any two of them, a copy, a restore (`RestoreFails`) or a save may fail. The edit tools write
after `trackEdit` (`WriteFile`), a shell command or the user at any time
(`Touch`). A process is in a run, in the dialog, or in a rewind whose code part
precedes its conversation part (`After`, `Cut`). The conversation in memory is
left out: a rewind rebuilds it from the log. Snapshot numbers start at 1 here and
at 0 in the code, because 0 names baselines.

### AgentLoop

A step is what runs between two awaits or yields of the loop. Places of the run:
`top` (checks and notes of hooks), `noting`, `reading` (the notes drained, recorded
one by one), `drained` (lifecycle hooks), `summing` (a summary is awaited),
`stream`, `sleep`, `received`, `tools`, `boundary` and `answered` (texts that steer
are delivered), `closing`. A response is a number of calls, which of them are safe
to run side by side, whether words came and whether the output limit was hit. Each call is
`waiting`, `asking` (filter, hooks, rules, the user), `submitted` (let through,
waiting for its batch), `running`, or settled: `ran`, `refused`, `cut`, `bad`.
Texts, notes and reminders are numbers, so that losing one or using it twice shows.
`Say` adds a message to the conversation and then to the log, as `persistLastMessage`
does; the second may throw, with nothing or part of a line written (`torn`), and the
action that said it takes the code's way out. `saved` tells which messages of `conv` the log has,
`failed` that a write has failed, `replaced` what a summary replaced whose boundary
the log lacks, and `dropped` the notes a throwing drain or write took with it.
`Remind` is not persisted by the code. `Crash` ends the process at any point, its
last line perhaps torn, and resumes the session from `log`.

### TeamLifecycle

A member is reserved, working, planning (its plan is reviewed), idle, leaving (its
role's cleanup) or ended; the flags are those of the code (`active`, the abort
signal, `stopping`, the pending plan). `Poll` and `Review` are the two readers of a
mailbox, with the different messages they take; `box` is what is unread, in order,
which is what `Mailbox` shows of the file. A poll marks everything read; what came with a
shutdown request is `held` until `Requeue`, a write of its own, puts it back or throws,
and a death in between loses it (`lost`). `ReadFails` is a read that throws, and a
release of tasks may fail for some names (`Unreleased`). `owner`, `started` and `finished` stand
for the board of `SharedTasks`. `RunEnds` is the end of one run of the teammate's agent with
everything up to the next await. `Restart` is a process that dies and the next one
that restores the team.

## Runs

A run with `expect: violation` states what a comment or a prompt of the repository
says and shows that the code does something else; see the next section.

| run | instance | checks | states |
| --- | --- | --- | --- |
| `file_lock` | 3 contenders, two of them in one process; one faulty at any of its operations, one impatient, one process mortal; two contenders' entries age; no start ticks | `MutualExclusion`, `FirstComeFirstServed`, `ImplementsMutex`, `HeldLocksKept`, `CallsReturn` | 303,807 |
| `mailbox` | 3 processes, one mortal; 2 messages; 1 read message kept; 1 requeue | `MessagesKept`, `SnapshotFresh` | 1,540,908 |
| `shared_tasks` | 2 stores, leader and 2 teammates, 3 ids, 30-odd batches of one or two edits | `BoardLoads`, `StartedUnblocked`, `ClaimsKept`, `NoLostTask` | 21,095 |
| `workspace_queue` | 2 edits and a shell command, 3 modes, 2 abort signals | `WorkExclusive`, `Consent`, `TakesTurns`, `CallsEnd` | 520,560 |
| `task_manager` | 2 tasks of all kinds, `stopAll` and `waitAll`, 1 retained, 1 failing write, 1 crash | `ReportedOnce`, `ReportedFinal`, `NothingForgotten`, `StopAllEnds` | 555,355 |
| `shell_command` | every configuration of a command | `TurnCoversShell`, `SandboxOnce`, `EndsWhenTold` | 30,324 |
| `workflow` | two calls in a row beside two in a row not awaited, 1 permit, 2 launches with an edit in between, 1 failing write, 1 crash | `PermitsKept`, `JournalSound`, `EndsWhenKilled` | 1,632,208 |
| `rewind` | 1 process, 1 file, 3 snapshots of which 2 are kept, 4 messages, summaries and edits, 1 fault, 1 cut | `BackupsExact`, `BranchExact`, `RestoredExact`, `TargetSurvives` | 5,786,090 |
| `rewind_exact` | the same with 4 snapshots, no fault and 2 cuts | `RewindExact` (violated) | |
| `agent_loop` | responses of up to 2 calls, 1 turn with calls, 2 turns, 1 retry, 1 continuation, 3 events (texts, notes, reminders, interrupts, compactions, failing writes, deaths) | `AllAccountedFor`, `LogStandsIn`, `ResultsTrue`, `NoStartAfterAbort`, `AbortEnds`, `TextGoesOn` | 1,196,666 |
| `agent_pairing` | 1 call, 2 events | `InterruptedMeansNoResult` (violated) | |
| `team_lifecycle` | 2 teammates, 1 task, 1 ended member kept, 2 plans, 3 events (reservations, messages, stops, deletions, deaths), failing reads, requeues and releases | `NoGhostOwner`, `Conserved`, `GateHeld`, `StopEnds`, `Reached` | 397,944 |

Types are checked as the first conjunct of an invariant of the run (`MessagesKept`,
`ReportedOnce`, `TurnCoversShell`, `JournalSound`, `BranchExact`, `AllAccountedFor`,
`Conserved`; of the property `TakesTurns` in `WorkspaceQueue`), and proved with it, or
proved apart (`FileLock`, `SharedTasks`); an invariant may have further named parts that say the same thing of
another piece of state (`ToldToEnd` in `TurnCoversShell`, `EndedQuiet` in
`JournalSound`, `ToldOnce` in `Conserved`, `DecisionHeld` in `GateHeld`,
`ResultsKeepToCalls` in `ResultsTrue`).

What they show:

- **file_lock**: at most one contender owns the lock, dead owners included as
  long as their ticket stands; who had a ticket before a contender announced
  itself goes first; `heldLocks` names exactly the locks of the process however
  often a release closure is called, and the entries of a live contender are removed
  by nobody else; the directory implements `FileMutex`; every call returns, unless an
  entry blocks it whose dead owner cannot be told from the process that has its
  pid now (`Undetectable`, possible on systems without `/proc`), or one that a
  failing write or unlink left in the name of a process that lives on
  (`Abandoned`): whatever else fails is taken back.
- **mailbox**: the inbox holds as many unread copies of a message as were stored
  and not yet taken; a copy is returned to at most one consumer, and to one
  unless a process died; nobody writes an array computed from a stale one.
- **shared_tasks**: the board on disk always loads again; a started task never
  has an open blocker, whoever reopens, relinks or deletes what; claims are
  respected; no store overwrites another's tasks.
- **workspace_queue**: one mutating call works at a time, although calls return
  before their command ends; nothing starts in a mode that denies it, or that
  asks where the user was not asked; the queue objects implement `Turns`; every
  call that is let through ends.
- **task_manager**: a conversation hears of a task at most once; what it was told
  does not change afterwards, unless a restart could load its records only in part and a new
  task got the number of a reported one; no result is forgotten by restarts, stops or the
  retention cap, a step in which a write fails excepted, and a result whose own record
  could never be written over the marked one of its number; `stopAll` returns, and then nothing runs
  that was there when it was called.
- **shell_command**: the workspace turn outlasts a foreground shell; a command
  told to end is not moved to the background and conversely; its sandbox is taken
  down at most once, never under a running shell, and by whoever has the command
  when the shell ends; background commands are swept when the program ends;
  an aborted call returns, a stopped task ends, the turn is given up.
- **workflow**: permits are neither lost nor made, and nobody waits beside a free
  one; a run that is over has nothing at work, but for later calls of a chain that a
  completed script did not await; as long as no run has left such calls, the journal
  has one true entry per call through edits, crashes and failing writes, and only a
  script with such a chain leaves any; a killed run ends.
- **rewind**: a backup that a snapshot names holds what the file held at the
  snapshot, through pruning, rewinds and further snapshots; as long as nothing
  failed (a copy, a save or a restore, whose errors the code swallows), a rewind gives every file its content of the snapshot, unless the file was tracked later and
  changed by something else than the edit tools; a rewind that dies can be
  repeated; and the line count of a snapshot marks the conversation of its time
  through messages, compactions, torn lines and later rewinds, as long as the log
  was not cut below it.
- **agent_loop**: every text, note and reminder is in one place or died with a
  process, and is used once; a note may also be dropped by a throwing drain or write, a text
  never; the log always rebuilds the messages that were recorded, in their order,
  which is the whole conversation, reminders from outside excepted, until a write
  fails or a death tears a line; a response's results cover its calls, in order, say
  that a call ran exactly if it was started, and stand next to it unless a
  reminder came between or one of the two could not be recorded; no tool starts after an interrupt; an interrupted run
  ends, and the first text that waits then is sent or goes back to the editor.
- **team_lifecycle**: open work belongs to nobody or to a member that is there, a
  reservation given up and a release that failed excepted;
  every message accepted for a name is read once and in order or is still unread, or
  was read with a shutdown request and not put back because the write failed or the
  process died right there; that holds across shutdowns, plan reviews and restarts; the leader hears once of the end of each
  runtime; nobody executes a plan the leader has not approved; stops end; and a
  message reaches a teammate that lives on.

### Why the bounds are enough

- Three contenders are the least for which exclusion, order and reclaim meet: an
  owner, one that queues behind it, and one that announces itself, fails or dies
  in between. Two of them share a process, which is what the recursion guard and
  the double release need. Numbers are unbounded in the module and bounded by the
  contenders. The proofs cover every number of contenders.
- Two messages distinguish old from new and read from unread, one read message
  kept makes the cap bite, three processes let one die while two race.
- Three ids allow a chain and a cycle that is not a self-loop; batches of two
  edits create with a link and swap the direction of a link. `MaxResets` is one
  new team on an old board.
- Three calls are one at work, one waiting and one that joins, leaves or finds
  the queue forgotten. Modes: one that allows edits, one that asks, one that denies.
- Two tasks make "the oldest goes" and "a task created during `stopAll`" happen;
  one failing write and one crash each can strike at any step. Some states need more:
  a result without a record of its own takes a load that failed half-way, so that the
  numbers start over, and more failing writes. With four failures the safety
  properties were explored by hand for two sessions (3.9 million states); the theorems
  cover any number.
- A command needs no bound.
- Three snapshots with two kept make pruning and rewinding over a pruned
  list happen; four messages or edits are a compaction between two messages, or an
  edit before and after a snapshot. One fault strikes at any step. The first line of
  the log counts as one of the messages, so `MaxWrites` is at least 1.
- Two calls are the least for a batch, with one asked for while the other waits.
  Three events are, for instance, a text, a compaction and an interrupt, or a note,
  a reminder and a death. Two turns are one with calls and the answer. Without
  liveness the module was explored beyond these bounds with other mixes.
- Two teammates are needed for the cap on ended members to remove one of them and
  for one to be stopped while the other asks; two plans make one answer
  belong to the past. Safety was explored by hand with 4 and 5 events (1.6 and 9.2
  million states) without error.
- The script of the `workflow` run has a call that follows another, calls that
  overlap, a permit to fight for, an error that may be caught or let through, and
  a chain of two calls the script does not await: the join hears of the first and
  misses the second. The proofs cover every shape.

`CHECK_DEADLOCK FALSE` stands in every configuration because every system modelled may
stop: calls return, commands end, bounds are used up. That nobody is stuck before
is what the liveness properties say.

`SYMMETRY` is used for the immortal processes of the mailbox, for stores and teammates
of the task board, whose names the modules only compare, and only in runs without liveness properties.

### Fairness

- `FileLock`: a running call takes its steps (a synchronous loop), the code under
  the lock ends, and time passes for deadlines and for the age of entries. Calls,
  failures and deaths are not fair.
- `WorkspaceQueue`: the agent goes on with a call it has submitted, tools end or
  move to the background; `tools/bash.ts` arms a timeout for each command, which
  is what `EndsWhenTold` of `ShellCommand` shows. Asking, aborting and changing the
  mode are not fair.
- `TaskManager`: promise callbacks run, and a runner comes to its result. Nobody
  has to stop, drain or switch.
- `ShellCommand`: armed timers fire and events are handled while the program is
  up. Processes need not end by themselves, and nobody has to abort.
- `Workflow`: the script's reactions run, file operations end, and an agent whose
  signal was aborted comes back. Other agents may work for ever, and no crash,
  kill or failure is fair.
- `AgentLoop`: the loop goes on where it waits for nobody, and the follow-up queue
  and the wake-up timer start runs. What it awaits from a provider, a tool, a hook
  or a user may never come, but comes once the run is interrupted: streams, summaries
  and sleeps take the abort signal, `requestToolPermission` answers `deny`
  (`permissions/request.ts:7-37`), and tools and hooks get the signal and end, for the Bash
  tool as `ShellCommand` shows. Users and others are not fair.
- `TeamLifecycle`: the run of a teammate's agent ends or fails, its poll timer fires
  and its cleanup settles. The leader need not do anything, answer a plan included.

## Divergences found

Shown by a run:

1. `ui/app.tsx:2693` (`RewindExact`, run `rewind_exact`). A rewind of the
   conversation alone cuts the session log but keeps the later snapshots, which
   went with files that stay as they are. After new messages the line count of
   such a snapshot names a line of another branch, and a rewind to it restores a
   conversation that never was: the common beginning, then part of the new branch.
   `file-history/index.ts:53-56` calls the count "the authoritative rewind
   coordinate" because "its line positions are never renumbered", and
   `session/index.ts:318-321` says that replaying the truncated log "reconstructs
   exactly the rewound conversation". `BranchExact` is what does hold.
2. `ui/app.tsx:3223` (`InterruptedMeansNoResult`, run `agent_pairing`). A change of the
   mode out of plan mode while tools run adds a reminder at the end of the conversation, between the calls
   and their results, and `ensureToolPairing` (`conversation/pairing.ts:30-53`) then
   passes over the results: every later request tells the model that the calls were
   interrupted. `conversation/constants.ts:7-8` says the text is "Used to fill in
   tool calls that have no result". The remote server adds reminders in the same way
   (`remote/server.ts:602`, `2680`). `ResultsTrue` is what holds without them.

Noticed while modelling, part of the models, and not the subject of a run:

- `tools/bash.ts:641`: the close handler marks the command exited and clears the
  SIGKILL escalation as soon as the shell is gone. When the shell dies of SIGTERM
  and a child ignores it, the child lives on, while the comment at
  `tools/bash.ts:342-344` says the whole tree can be killed "with SIGKILL escalation
  for processes that ignore SIGTERM".
- `tools/bash.ts:593`: only commands moved to the background register an exit
  cleanup; a detached command in the foreground survives a program that ends by an
  uncaught exception, while `recover.ts:130-131` says "detached children must not
  survive it as orphans".
- `workflow/hooks.ts:81`: the first call without a successful entry invalidates the
  rest of the journal, also when it has no entry because it had not completed. With
  calls in parallel, completed ones run again after an interruption;
  `workflow/prompts.ts:27` says "completed agent calls replay without calling the model".
- `workflow/run-workflow.ts:93`: the join takes the calls in flight when the script
  returns. A chain nobody awaits makes its next call after that: the run completes
  while the call works, and its line may come into the journal of the next launch
  (`Leave`, `LateLine`; `JournalSound` excepts it).
- `teams/file-lock.ts:113-122`: an exclusive write that fails after it created the entry
  leaves it, in the name of a process that lives on; so do the unlinks whose errors
  `file-lock.ts:142-146` swallows and `197-199` rethrows. Nobody reclaims the entry before the
  process dies (`Abandoned`). `tools/computer-use.ts:766-778` unregisters its cleanup
  before it releases, so that nothing tries again after a release that throws.
- `tools/bash.ts`: a `spawn` that throws leaves the sandbox prepared for it standing
  (`SpawnThrows`; `SandboxOnce` says "at most once").
- `ui/app.tsx:2348-2353`, `agent/index.ts:555-557`: a drain of the task records that throws
  drops the leader's messages that were marked read a line before, and a write of the
  log that throws drops the notes drained with the one it was for (`DrainInbox`,
  `RecordNote`; `dropped` in `AllAccountedFor`). A line that a failed write tore
  swallows the next one.
- `teams/index.ts:478-486`: the messages read together with a shutdown request are
  put back by a second write; they are lost if it throws or the process dies before it
  (`Requeue`; `lost` in `Conserved`).
- `teams/index.ts:700-705`: a release of tasks that fails is logged, and the tasks stay
  with the name of the member that ended (`Unreleased`).
- `subagent/agent-tool.ts:550-571`, `teams/index.ts:198`: a task assigned to a
  reserved teammate keeps that owner when the reservation is given up
  (`orphaned` in `TeamLifecycle`).
- A switch to the background whose task record cannot be written leaves the tool
  call open (`BackgroundThrows`; `EndsWhenTold` is therefore conditioned on
  `config.records`), and a drain that fails half-way gives up the results it had
  already marked (`DrainFails`; `NothingForgotten` excepts that step).
- `subagent/task-manager.ts:91-103`: a load that fails half-way has raised the counter
  only past the records it came to, so a new task may get the number of a record on disk. When that record is
  marked and no write of the new task succeeds, its result goes unreported after the
  next load, and nothing on disk tells of it. An attempt to prove `NothingForgotten`
  without this case found it; the property now speaks of results whose record on
  disk is not marked.

## Proofs

All proofs are checked by TLAPS with its SMT, Zenon and PTL backends. Assumptions
on constants are the named `ASSUME`s of the modules; TLC evaluates them on every
run.

**FileLockProofs** (from `ContendersAssumption`, `ProcsAssumption`):
`TypeCorrect`, `LockExclusive` (mutual exclusion), `LockFair` (bakery order) and
`LockRefines` (`Spec => Mutex!Spec`). The inductive invariant is `TypeOK` with
`Safety`, three parts:

- `Registered`: where a live contender has which entries;
- `OwnerFirst`: the ticket of an owner precedes every ticket in the directory, and
  a contender that has read its number but not written it has a larger one. This
  is the heart of the bakery argument: a contender that could still write a
  smaller number is choosing, and nobody is granted while someone is choosing;
- `AheadSmaller`: tickets that stood when a contender announced itself are
  smaller than its own and are never written again.

Mutual exclusion alone is not inductive: an owner and a contender in `ticket`
with a small number satisfy it. Owners that are dead count until their ticket is
reclaimed, and reclaim (`OwnerDead`) takes only dead owners' entries, so
reclaiming does not disturb the argument. The refinement maps each step to a step
of `FileMutex` or to a stutter; it needs `OwnerFirst` for `Grant`.

`HeldLocksStay` proves the action property `HeldLocksKept`: `heldLocks` names exactly
the locks of its process, whatever closures are called twice, and only the owner
removes an entry of a live contender. Its invariant `HeldInv` adds to the exactness
of `heldLocks` that a process has one call in the lock at a time (`OneAtATime`), which
is what the synchronous code gives.

**MailboxProofs** (from `TornAssumption`, `BoundsAssumption`, and the abstract lock):
`NoLostUpdate` and `MessagesAreKept`. The invariant `FreshInv` adds to `SnapshotFresh`
that a live process past the lock is its only owner. `MessagesAreKept` is an argument
by counting: pruning selects positions of the array, marking changes one flag at some,
and storing adds one at the end, so the number of unread copies of a message changes by
what was stored and taken. `Counted` says that a copy in hands is with one process (`OneCopy`) and
that what was taken was returned, but for a copy that a living process still has
to return (`OneReturn`); `Prepared` says what a process between two file-system calls has
computed.

**SharedTasksProofs** (from `InputsAssumption`, `NamesAssumption`,
`BoundsAssumption`): `TypeCorrect`, `StartedStaysUnblocked`, `OneTaskAtATime`,
`ClaimsAreKept`. The invariant `BoardInv` says that the one store that mutates has
the board of the file in its hands and that this board is sound (consistent and
no started task blocked); for the release of an owner it needs that the release
leaves links and completed tasks alone (`SoundKept`). `TypeCorrect` rests on
`DrawnBelow`: the ids a batch draws lie below the counter it leaves behind.
`NoTaskIsLost` (`NoLostTask`: only a deletion or a new board removes a task, and ids are not
given twice) follows from `BoardInv` for each kind of batch. `BoardAlwaysLoads` (`BoardLoads`,
with the absence of cycles) needs no induction over paths: of the sets
of tasks that could not be numbered along their links there would be a smallest one, and
a task that blocks none of it comes last after a numbering of the others
(`SmallestSubset`, `AcyclicNumbered`).

**ExecutionProofs**, on what runs beside a conversation:

- `WorkspaceQueue` (from `CallsAssumption`): `ExclusiveWork`, `ConsentGiven` and
  `CallsTakeTurns`, for any number of calls, queue objects, modes and signals. The
  first rests on `ExclusiveInv`: there is one holder at most, a holder's queue is
  the one in the map, and work is done by holders. The second on `Approvals`: a
  call submitted under a mode that asks was answered by the user. The third is the
  refinement of `Turns` (`TakesTurns`, types included), the line being the holder
  followed by the calls in the queue of the map. `TurnInv` says that the map has a queue exactly
  while there is a holder, that holder and waiters refer to that queue, and that
  each waiter stands in it once. An abort takes a waiter from the middle of the
  line (`Leave`) and leaves the holder its turn.
- `ShellCommand` (from nothing beyond the shape of a configuration): `TurnOutlastsShell` (`TurnCoversShell`)
  and `SandboxTakenDown` (`SandboxOnce`). `ShellInv` has three parts: nothing is armed before there
  is a process (`BeforeSpawn`); in the foreground what told the command to end is
  followed by termination, and its outcome is open until its shell has ended
  (`InForeground`); a command that was moved was not told to end, cannot be
  reached by the timers and listeners of the foreground, and has its exit cleanup
  armed while the shell lives (`InBackground`). `KillTreeShrinks` says that a signal starts nothing.
  `InSandbox` says who has still to take the sandbox down: the call, or the background task.
- `TaskManager` (from `TaskAssumption`): `ToldOnce` (`ReportedOnce`), `ToldStaysTold`
  (`ReportedFinal`), `ResultsAreDelivered` (`NothingForgotten`) and `StopAllStopsAll`
  (`CallsSettle`, the part of `StopAllEnds` that is about one step), for any number of
  sessions, tasks, failing writes and crashes. `TaskInv` ties memory to disk: numbers
  are new to the session when all its records were loaded (`Numbered`); what is marked
  in memory is over, and what is not was never delivered (`Told`); what was delivered
  has a marked record, and a marked record is of a task that is over (`Recorded`). The steps fall
  into few kinds, one lemma each: a task changes and is saved or not, results are told and
  pruned, a session is loaded, or all is forgotten. `stopAll` looks at each task once;
  `SeenOnce` says why that is enough: numbers are not given again while the process lives,
  and what is pending of the tasks seen is awaited.

**WorkflowProofs** (from `WorkflowAssumption`): `PermitsConserved`, for any script
shape, number of permits and sequence of aborts, failures, kills and crashes. The
invariant adds to `PermitsKept` that the waiters are calls that wait, each once,
and that a call its item has not come to is nowhere, so that numbering a new call
cannot take a permit from under another. `JournalStaysSound` (`JournalSound`) holds for
any script, chains nobody awaits included; what such a chain can break is named in the
property. It rests on `LinesInv`: beside the permits, what status and end a launch may have in each phase
(`RunInv`), that calls at work have their number and no two the same (`MadeInv`), and
what the journal may hold (`JournalInv`): one copy of one line for each number; while the
journal that was read is replayed or about to be cut, nothing is written and the
lines below the cut are true; after that each line is of a call that was made and is no
longer at work. An edit of the script makes lines untrue only above the cut. `JoinInv`
says which calls a run that completes has joined, and that a call it misses is not the
first of its chain; `SoundInv` asks the journal's part only until a run has left calls.

**AgentLoopProofs** (from `BoundsAssumption`), for any number of calls, turns, retries,
texts, notes and deaths:

- `NoToolAfterAbort` (`NoStartAfterAbort`). Only `Launch` and `RunBatch` start calls, both through
  `Started`, which looks at the abort signal in the step that starts them. The lemma
  `NothingStarts` says that a call let through in an interrupted run does not start,
  and `OthersStartNothing` that no other action starts one.
- `SessionCanBeResumed` (`LogStandsIn`): what the log rebuilds is the recorded part of the
  conversation, after what a summary replaced that the log lacks. Every step does one of a few things to
  the two, which are the cases of every proof that follows: nothing, a message said to both or,
  when its write fails, to one, a reminder put into one, a compaction of both or of one, a resume.
- `ConversationIsTrue` (`ResultsTrue`). The invariant `ResultsInv` says that every result tells
  truly what became of its call, in the conversation and in what the log would rebuild
  (`ToldTruly`: a death may resume from it), which calls of the response have started
  (`StartsTrue`), that without reminders results stand next to their calls (`SideBySide`),
  and that a tail a compaction keeps does not part them (`TailWhole`).
- `EverythingIsAccountedFor` (`AllAccountedFor`): `PlacesInv` counts. Each text, note and
  reminder occurs once over all the places it can be, those a failing write leaves it in included, and the log has it as often as
  the conversation (`LogCounts`).

**TeamLifecycleProofs** (from `NobodyAssumption`, `BoundsAssumption`), for any number of
teammates, tasks, plans and events: `NoWorkWithGhosts`, `PlansAreApproved` (`GateHeld`) and
`NothingIsLost` (`Conserved`). For the first the inductive invariant adds to `NoGhostOwner` the types of roster and board and `ActiveLive`
(a member that is active runs), which is what keeps `Open` from giving work to a member that has
ended. The lemmas `Released` and `Kept` are the two ways a step keeps it: the
names that go are released, or nobody goes; `OldEnded` says that pruning takes only
members that have ended, which own nothing. For the second `GateInv` adds that the plan
that waits is a teammate's last and that nobody reads its mail as prompts meanwhile
(`PlansBelow`), and that every answer in a mailbox is to a plan submitted, an approval one
the leader gave (`AnswersKnown`): an answer to an earlier plan has another number. For the third
`TeamInv` takes these together with the order of the messages (`AllHeard`: what was
read, then what is held to be put back, then what is unread, is what was sent but for
what was lost, in order), with the order of the members
(`Listed`), the cap on ended ones (`FewEnded`) and the count of lives and reports
(`LivesInv`). What is left in a mailbox is a selection of positions; that it keeps its order rests
on the uniqueness of an increasing enumeration.

**RewindProofs** (from `BoundsAssumption`, `NamesAssumption`): `BackupsStayExact`, `TargetStays`,
`RewindRestores` and `LineCountsHold`, for any number of processes, files, snapshots and faults.
`HistoryInv` says of the history on disk and of the copy an operation works on that
the numbers of the snapshots grow along the list, start at 1 and stay below `next`,
so that no two snapshots share a backup and none shares one with a baseline, and
that the backups in the store have the right content; until something fails the
copy has all its backups, and the history has them while no operation runs. (In
between, `Prune` and `Discard` delete backups of a history whose shorter list is
not saved yet, which is why `BackupsExact` excuses these times and why the target
needs `TargetStays`.) `OperationInv` gives the steps of an operation and that a
rewind has a target. `SourceInv` adds where a file without a backup in the target
comes from: a tracked file has a baseline that suits every snapshot without the
file, an untracked one is still what it was, unless something other than the edit
tools changed it; later snapshots have the files of earlier ones.
`LineCountsHold` (`BranchExact`) rests on `BranchInv`: every checkpoint, in the history, in
the lists that dialogs show and in the hands of a process, marks the conversation of its
time in the log unless the log was cut below it, and no later line can be glued to what
it counts (`MarksIn`). The log changes in three ways only, not at all, by an append and
by a cut, and `MarksStay` says that all of them keep the marks; the rest of the invariant
is about where checkpoints come from.

Only model-checked: liveness (`CallsReturn`, `CallsEnd`, `StopAllEnds` but for
its part `CallsSettle`, `EndsWhenTold`, `EndsWhenKilled`, `AbortEnds`, `TextGoesOn`, `StopEnds`,
`Reached`), which needs fairness and ENABLED. Every other property of a passing run is
proved. Where the code filters an array the modules select positions
(`Subsequences`) instead of recurring over the sequence, so that no proof needs an
induction over data.

## What is not modelled

- `FileLock`: listings are atomic; `readdir` may in reality miss entries made while
  it runs. Clocks do not jump.
- `Mailbox`: `unreadCount` only reads. Durability across a machine's crash is the file
  system's.
- `WorkspaceQueue`: several workspaces are independent; the model has one.
- `TaskManager`: progress events and the wake-up of waiters of a single task; records
  torn within one write (the store renames).
- `ShellCommand`: two commands at once (they meet in `WorkspaceQueue`), the content of
  the output, the Windows variants of killing a tree, the reuse of a process id
  between the reaping of a shell and the event that tells of it (`killTree` looks at
  `exited` in the step that sends the signal).
- `Workflow`: what a chain that outlives its run calls after the calls in flight, a
  rewrite of the journal that is pending when its run is left behind, and how the
  permits of a run left behind and of the next one add up; workflows within workflows,
  the token budget and the cap on calls, phases and logs, torn journal lines
  (`Start` has their outcome: the journal cannot be read), two runs at once. Agents
  are one step that returns, dies or is aborted.
- `Rewind`: sessions without a log (they go by message index), the labels of
  snapshots, histories of an older format, two processes at once in the runs (the
  module has them), two files in the runs, goals' extra snapshots; a restore that
  fails half-way through the file (`RestoreFails` leaves it as it was; what is half
  written is a `Touch` to what follows); a state file that cannot be read although the
  code renames it into place, which loads as an empty history (`file-history/index.ts:421-434`) whose
  numbers start over; deletions of unneeded backups that fail, which leave files nobody names.
- `AgentLoop`: goals; the guidance and the skills announced at the head of a turn;
  token counts, and with them when a compaction comes (any time here); the breaker
  after failing compactions; subagents without a user; print mode; the remote
  server's queue, which drops what is left when a run is cancelled.
- `TeamLifecycle`: the name registry, what is shown of a teammate's progress, the
  leader's coordinator and plan modes beyond the approval, permission requests
  forwarded to the leader, reports the leader's mailbox does not take, a deletion whose
  directory cannot be removed, two processes on
  one team (the second takes the members for dead and releases their tasks, `teams/index.ts:925`).

## Plan

The modules were ordered by what the rest builds on: first the lock, then the
files it guards, the turn of the workspace, the tasks beside it, the two large
users of both, commands and workflows, and then what the user sees: the loop, its
log and its checkpoints, and the team. Next, in this order:

1. **FileEdits** (`tools/edit-file.ts`, `write-file.ts`, `file-mutation-queue.ts`,
   `file-state-cache.ts`): an edit applies to the content that was read, though
   other calls and users write the file; composes with `Rewind`, which clears the cache.
2. **Goals** in `AgentLoop` (`goal/index.ts`): limits, pauses and continuations.
3. **RemoteSession** (`remote/`): queued prompts and clients that come and go around
   one agent loop; then **McpManager** (connections, reconnection) and a2a.
4. **ActivityLog** (`history/`) with the repair of its tail, and **Consolidation** (`memory/`).
5. The composition of `TeamLifecycle` with two processes on one team file.

Proofs to add: that `Mailbox` and the users of `FileMutex` keep their theorems over
`FileLock` itself, by `LockRefines`; and the safety of the modules above as they come.

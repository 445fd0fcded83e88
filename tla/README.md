# A TLA+ model of omx-py

omx-py (`src/`, read together with `src/README.md`, `src/docs/` and `src/tests/`) is a pure-Python
port of oh-my-codex: it orchestrates several Codex or Claude CLI processes that work as a team in
tmux panes. There is no server. Leader, workers, hooks and CLI commands are separate short-lived
processes that meet in JSON files under a state directory, and most of what can go wrong goes wrong
in how those processes read, write and lock the files. This directory models that: TLA+ modules,
TLC configurations that check them on small instances, and TLAPS proofs for all instances.

All source paths below are under `src/src/omx/`.

## 1. Inventory

| component | state it keeps | operations | hard behaviour | what makes it correct |
|---|---|---|---|---|
| directory lock `team/state/locks.py` | a directory on disk; its mtime | `with_lock` and its four users | other processes at every file-system call, bodies longer than `stale_ms`, kills, timeout | exclusion; no leaked directory; every attempt ends; a dead holder is recovered |
| runtime engine `core/engine.py`, `authority.py`, `dispatch.py`, `mailbox.py`, `replay.py` | lease, dispatch log, mailbox, replay cursor, event log | `process` (12 commands), `compact`, `load`'s replay, direct lease operations | reused ids, replay swallowing errors, compaction forgetting events | lifecycle of a dispatch; a lease never changes hands while held; a replay gives the engine back |
| runtime bridge `runtime/bridge.py`, `engine.persist/load` | a cached engine per process; nine files; `engine.lock` | `exec_command`, the `read_` methods | kills between and inside file writes, failed writes, two cached engines | the flock excludes; loads are consistent; what was acknowledged is durable; the files agree |
| task rules `team/state/tasks.py`, `types.py` | one task dict: status, claim, owner | claim, transition, release, reclaim | leases lapse while their owners still hold tokens | only the owner finishes a claimed task; a running lease is respected |
| task store `team/state/io.py`, `tasks.py`, `team_ops.py` | `tasks.json`, `config.json`'s counter | create, update, the gateway's claim, transition, release, reclaim | unlocked read-modify-write of whole files, kills, torn files | ids are unique; no task is lost; the file parses; tokens authorise |
| assignment and monitoring `team/runtime*.py`, `rebalance_policy.py`, `allocation_policy.py` | tasks, worker status, monitor snapshot | assign, roll back, monitor, rebalance | a worker finishing while the leader rolls back | a task has at most one worker |
| dispatch queue `team/state/dispatch.py`, `team/mcp_comm.py` | `requests.json`: pending, notified, delivered, failed | enqueue with deduplication, mark, bump | several writers without a lock; a torn file read as empty | a receipt is true; nothing recorded is lost; direct requests are settled |
| mailbox and messaging `team/state/mailbox.py`, `team/runtime_messaging.py` | one mailbox file per worker | send, broadcast, mark notified or delivered | the same, and four writes of two files per message | marks only go forward; requests trail their messages |
| events `team/state/events.py` | append-only event log and readers' cursors | append, read since, await | first match against last cursor | no event is skipped |
| phases `team/phase_controller.py`, `team/orchestrator.py` | phase, fix attempts | transition, infer | the bound on fix attempts | the run ends in completed or failed |
| lifecycle `team/runtime_start.py`, `runtime_shutdown.py`, `runtime_resume.py`, `state/manifest.py`, `state/shutdown.py` | the team's directory, its panes and child processes, the workers' answers | start, resume, shut down | failure at each step and roll-back, kills, Ctrl-C, old answers, two calls at once | no pane without a record; nothing is left of a failed start or a finished shutdown; a refusal answers the call it stops |
| scaling `team/scaling.py`, `scaling_down.py` | config, panes, worker indices | scale up and down | failure at each step, kills, a stale copy of the config | no agent without a record, none under another's name |
| leader attention `team/state/leader.py` | attention record | stop, session end | order of stop and session end | one owner |
| mode state and workflows `state/*.py`, `modes/base.py` | one file per mode and scope, the canonical list of active skills | start, update, cancel, write, clear | kills between files, two scopes, stale entries | modes that may not overlap do not; list and files agree |
| run loop, pipeline, ralph `runtime/`, `pipeline/`, `ralph/` | outcome, stage, iteration | iterate, stage, resume | bounds, resumption | terminal is terminal |
| autoresearch `autoresearch/runtime.py` | state that is also a lock, manifest, ledger, worktree HEAD | prepare, resume, judge, stop | kills anywhere, an operator beside a live supervisor | only what was judged better is kept |
| wiki `wiki/*.py`, `mcp/wiki_server.py` | pages, index, log, environment page, lock directory | ingest, add, delete, refresh, session start and end | kills inside a lock that nobody recovers, reads made before the lock | the index follows the pages; no page is replaced; no log entry is lost; a stale environment page is noticed |
| questions, subagents `question/`, `subagents/tracker.py` | question record, thread turns | ask, answer, drain | waiting clients | an answer is not lost |
| HUD, notifications, CLI, setup, MCP front ends, prompts, tmux and git wrappers | none of their own | presentation, parsing, external commands | – | – |

How they interact: the team gateway (`team_ops.py`) calls the task rules on dicts it converts from and to
the store's records; the leader's runtime calls the gateway, the dispatch queue and tmux; hooks and
workers call the gateway from processes of their own; scaling takes the directory lock (the task,
dispatch and mailbox locks of `locks.py` exist and have no caller). Bridge and engine form a second,
parallel store of dispatches and messages behind `engine.lock`; each bridge owns an engine and caches
it. Questions, modes and the wiki each have files of their own. Starting a team splits panes in the leader's window,
writes `config.json` in several passes and dispatches the first instructions; shutting one down asks the workers
through files, waits for their answers and ends what the config names.

`PROJECT.json` lists every component with its status, and under `hazards` the places where a test
would hardly reach, each at its line, with the properties that guard it.

## 2. Modules

Modelled so far, in the order in which they were written:

| module | models | role |
|---|---|---|
| `DirLock` | `locks.py` | state machine, one action per file-system call |
| `EngineState` | `RuntimeEngine`'s state, guards and effects | operators only |
| `EngineReplay` | `_replay_event`, `load` | operators only |
| `RuntimeEngine` | one engine in memory | state machine over `EngineState` |
| `DispatchLifecycle` | what the engine promises of one dispatch request | abstract specification |
| `EngineLifecycle` | the refinement mapping from the engine to the promise, and what a load gives back | `INSTANCE ... WITH` |
| `RuntimeBridge` | several processes' bridges over one directory | composes `EngineState`, `EngineReplay` with files and the flock |
| `TaskRules` | the pure functions of `tasks.py` | operators only |
| `TaskLease` | one task dict that keeps its claim | state machine over `TaskRules` |
| `TaskStore` | `tasks.json` and the counter under the gateway's calls | state machine over `TaskRules` |
| `TeamMessaging` | a mailbox and `requests.json` under the messaging calls | state machine, one action per file operation |
| `TeamScaling` | `config.json` and the panes under scalings and `create_task` | state machine |
| `WorkflowRules` | the transition decision and its tables | operators only |
| `ModeState` | mode files and canonical lists of two scopes | state machine over `WorkflowRules` |
| `Autoresearch` | autoresearch runs, their state files and worktrees | state machine |
| `TeamLifecycle` | `start_team` and `shutdown_team` of several processes | state machine |
| `Wiki` | pages, index, log and environment page under the wiki's calls | state machine, one action per file |
| `MC...` | instances for TLC; `MCWorkflows` explores `ModeState` and `Autoresearch` in one run, `MCTaskLease` explores `TaskLease` and `TeamLifecycle`, `MCRuntimeEngine` explores `RuntimeEngine` and `Wiki` | |
| `DirLockProofs`, `EngineProofs` (engine and bridge), `TaskProofs` (store and lease), `TeamMessagingProofs`, `TeamScalingProofs`, `WorkflowProofs` (modes and autoresearch), `TeamLifecycleProofs`, `WikiProofs` | theorems and proofs | |

Operators named `...` with a comment "mutant of X" are broken variants of the definition they precede; no
specification uses them. Each exists to show that a property can fail: X is replaced by the variant and
the property must be violated.

### DirLock
`dir` is the lock directory: absent, made by a process, or left by a dead one (`Orphan`). `pc` follows
`_LockContext.__enter__`: `Mkdir`, `Exists`, `Stat`, `Rmdir`, `Remkdir`, `Timeout`, `Retry`, then `Release`
(`__exit__`). `SeesStale` is `_is_lock_stale`, which answers True when `stat` fails. The mtime is one bit, `old`:
older than `stale_ms` or not. `Age` sets it, on an orphan always and on a live holder's directory only if
`BodyOutlives`. The deadline is counted in polls (`MaxTries`). `reaped` remembers that a recovery has removed
a directory.

### The engine
`engine` holds owner and stale flag of the lease, the replay cursor, the sequence of dispatch records and the
mailbox; `log` the events since the last compaction. `Process(c)` is `process`: the guard `Accepts`, then
`Effect`, then the event is appended. Accepting depends on `_find`, which returns the first record with an id
(`IsFirst`). `Compact`, and the three lease operations the engine exposes without an event, are actions of their
own; the latter set `bypassed`. Expiry times and timestamps are left out: nothing compares them. The functions over the log are recursive
functions (`Only`, `Replays`), not `SelectSeq` or a fold, because the prover can expand them.

### RuntimeBridge
`mem[b]` is `_engine`; `pc` and `pos` follow `exec_command` through the files it writes. `write_text` truncates
and then fills, so every write is two steps with a `Torn` file in between. `Lock` and `Fill` of the third file take
and drop `engine.lock`; loads hold it shared. The five view files written last, without the lock, are
represented by one of them and by the mailbox, which is written a second time there. `Exec` is `process` inside
`exec_command`. A command that is refused, and
the `read_` methods, change nothing once the engine is cached and are no action. `WriteFails` is an `OSError`
in a write: the engine keeps the event that the caller was told had failed. `Crash` loses the engine, `Exit` ends
a process between calls. `shared` remembers that two bridges had an engine at the same time.

### Tasks
`TaskRules` translates `claim_task`, `transition_task_status`, `release_task_claim` and `reclaim_expired_task` one
by one. `TaskLease` lets workers apply them to one dict, keep every token they were ever given, and see
leases lapse (`Lapse`). `TaskStore` applies them as the gateway does: `TeamTask.from_dict` keeps the
owner and drops the claim (`Dict`), each call reads the whole list (`Change`, `Create`), opens the file
(`Open`: now it is empty), writes it (`Write`), and `create_task` then does the same to the counter
(`OpenConfig`, `WriteConfig`). `overlaps` remembers whether two `create_task`s ran at the same time and whether
two calls held copies of the list at the same time.

### TeamMessaging
`mailbox` is one recipient's file, `queue` is `requests.json`. `call[p]` is a process in one of the calls that share them:
`Send`, `Resend` (`queue_direct_mailbox_message`, broadcast, the API's post), `Instruct` (`queue_inbox_instruction`),
`Mark` (the API's two marks), `Bump` (`_redispatch_stale_pending`). After the message is written, `List`, `Join` or
`Enqueue` are `_enqueue_with_dedup`: identifiers first, then the queue, and whoever finds a pending request
joins it. `Notify` chooses what the notifier answers; `MarkMail`, `Check`, `MarkQueue` record it. A read keeps a copy, `Open`
empties the file, `Write` fills it. `races` counts the reads that meet a file somebody has open or that a kill left torn,
`heard` what notifiers have answered, `facts` what completed writes have recorded. `queue` begins absent or as
`init_team_state` leaves it (`Bare`), on which every enqueue raises.

### TeamScaling
`config` holds the workers, the next index and the task counter. The workers are a set of names with panes: the code's list never
receives a worker twice, and nothing depends on its order. `create_task` takes no lock and is three steps: `Create` reads the config, `Stored`
puts the task into `tasks.json`, `Created` counts it in `config.json`; `BringTask`, `StoredBrought` and `BroughtTask` are the same inside
a scale-up. `ScaleUp` copies the config and goes through its tasks, then for each worker through `Split` (all up to the tmux pane), `Boot`
(identity, readiness, inbox, trigger) and `Joined` (the save). What the code catches leads into `Rollback`, `Restore`, `Failed`. What no `try`
covers is `Raise`: the call ends, nothing is rolled back and the lock is free. `ScaleDown` goes through `Drain`, `KillTargets`, `RemoveTrees`,
`Removed`. `Kill` is best effort: any of the panes may live on, and the call does not learn of it; `Split` may open a pane and not learn its id. `Crash`
is SIGKILL, or a Ctrl-C, anywhere. `inside` is the scaling lock with `DirLock`'s weakness: a call that outlives `stale_ms` is joined by the
next (`crowded`). `stale` and `lost` remember out-of-date copies and whether one was written, `behind` that the counter did not follow `tasks.json`:
a `create_task` ended between the two, or a scale-up wrote its own older copy. `adrift` collects the panes that a call let go of alive; `Kept` are the others.

### Workflow modes
`WorkflowRules` is `evaluate_workflow_transition` over sets. In `ModeState`, `file[m][s]` is a mode's file in the root's or the
session's scope, reduced to what the decisions read of it; `skill[s]` the canonical list. `Start` takes the decision over
what is visible (`Visible`), completes the modes it replaces one file at a time (`TakeSource`, `Complete`, `Completing`)
and writes the new one (`Proceed`, `Write`, `Writing`); `Sync`, `Syncing` bring the list in line after each. The new state is any that the caller's
`initial_state` can make of the defaults (`Initial`), finished ones included; one that cannot be normalised is refused after the replaced modes
were completed (`RefuseState`); and the list is told that the mode is active whatever its file says (`Overridden`).
`Update`, `StateWrite`, `Clear`, `ClearAll`, `Cancel` are the other calls, `Kill` ends any of them anywhere. `bypassed`
collects the scopes in which the code no longer checks every activation, `apart` the entries it lets differ from their file.

### Autoresearch
`lock` is `autoresearch-state.json`, which is both the mode's state and the lock against a second run; `manifest`,
`ledger`, `head` belong to a run. A call in progress is a plan, the list of file operations it still has to do:
`Prepare`, `Resume`, `Stop` begin one, `Process` and `Evaluate` extend it by what they decide. `Session` is the agent
between two iterations: it commits or does not; what artifact it left is chosen where the supervisor reads it. `KillRun` ends
a supervisor and may leave the file it was writing torn. `crossed` remembers runs that were finalized or resumed beside a
live supervisor of theirs.

### TeamLifecycle
`dir`, `config` and `manifest` are the team's directory and its two files, `config` reduced to the panes it names or to
`Absent` or `Torn`. `panes` and `children` are the agents of an interactive and of a prompt team. `call[p]` is a process
in `start_team` or `shutdown_team`, with the panes it has split (`mine`), its copy of the config and, in a shutdown, what it asked.
`Start` looks whether a team is there (`Refused`), `Clean` removes what an earlier one left, `InitConfig` and `InitManifest`
are `init_team_state`, `Split` and `Spawn` launch one worker each, `OpenSave` to `FillResave` write the config twice, `Fail`
leads from anywhere in the `try` block to `Rollback`, which saves the config once more (`OpenUnhook`, `FillUnhook`), ends the
panes (`KillMine`) and removes the directory (`Wipe`); an error of that save is swallowed (`UnhookFails`). `Stop` reads the config, `AskWorker` writes the requests, `Answer` is a
worker's, `Poll` the wait, `TearDown` the kills, `Sweep` the removal. `KillCall` is SIGKILL anywhere; `SplitInterrupted` is Ctrl-C
inside `create_team_session`, which is not an `Exception` and skips its clean-up. A `Kill` of a pane may not take effect, a `Remove` may leave any of
the files (`kept`), and neither tells the caller. `SplitFails` may leave a pane whose id was not captured. `adrift` remembers the panes left by all
of these, `crossed` that a start overlapped another call. Worktrees are left out because a start that
wants them raises before it has made anything.

### Wiki
`lock` is the lock directory: free, a process's, or left by one that was killed or could not remove it, which nobody recovers. `pages` holds the contents ingested into
each page, `index` the pages that `index.md` lists, `entries` the entries of `log.md`, `env` which version of the project memory
`environment.md` holds and which one was current at its date. A call waits for the lock (`Enter`, `GiveUp`) and goes through its body:
`Read`, `Write`, `Unlink`, `WriteEnvironment`, then `Scan` and `WriteIndex` (`update_index_unsafe`) and `ReadLog` and `AppendLog`
(`append_log_unsafe`), in the order of its operation. Adds, deletions and refreshes take the lock a second time for their log
entry (`again`). `Feed` and `Stamp` are the two reads a session start makes before the lock, `Edit` another tool's replacing
the memory; `late` remembers that it came between the two. `RaiseInside` is a body that raises: `finally` frees the lock wherever the body stands. `behind`
remembers that such a body had changed a page and not written the index.

## 3. What TLC checks

Twelve runs, `tlc -workers 2 -config X.cfg M`:

| run | instance | states | what it shows |
|---|---|---|---|
| `dirlock` (`MCDirLock.cfg`) | 3 processes, 2 polls, slow bodies | 20k | until some recovery removes a directory the lock excludes; no live process leaves one behind; every attempt ends; orphans are recovered |
| `dirlock_exclusion` | 2 processes, nothing ever stale | violation | exclusion itself fails: see section 6 |
| `engine_commands` (`MCRuntimeEngine.cfg`) | 2 owners, 2 requests, 1 message, 1 cursor, logs of 3, 3 records; a wiki of 2 pages, 2 contents, 2 processes, 3 calls, 2 memory edits, kills and errors anywhere | 459k | lifecycle, shadowing of reused ids, lease hand-over, replay, refinement; index and pages agree, no page is replaced, a stale environment page is noticed |
| `bridge` (`MCRuntimeBridge.cfg`) | 2 bridges, 1 message and its marks, logs of 2, one fault | 1.7M | `engine.lock` excludes, loads are consistent, acknowledged commands are durable, the files agree |
| `bridge_mailbox` | 1 bridge, one fault | violation | a message of the log is missing after a restart |
| `task_lease` (`MCTaskLease.cfg`) | 3 workers, 4 tokens; a team of 2 under 2 processes, 2 starts, 2 shutdowns, 4 panes, one mishap: a kill, Ctrl-C or a pane not ended or without an id | 0.9M | running leases are respected, tokens are private, only the owner finishes; no pane is lost but those the code lets go of, nothing removable is left behind, a refusal is current |
| `task_store` (`MCTaskStore.cfg`) | 2 workers, 2 tasks, one kill | 3.1M | which overlaps cost what, and that nothing else does |
| `store_token` | 2 workers, 1 task | violation | the gateway's token is not compared |
| `team_messaging` (`MCTeamMessaging.cfg`) | leader and one more process, 2 messages of one content, 2 requests, one race or kill | 608k | receipts are true, requests trail messages, no duplicates, nothing recorded is undone, direct requests are settled |
| `team_start` (`MCTeamStart.cfg`) | the leader alone on a started team | violation | the first enqueue raises |
| `team_scaling` (`MCTeamScaling.cfg`) | 2 processes, a team of 1 that may have 3, 4 panes, 2 tasks, one mishap: a process killed, a pane not killed or without an id, a counter left behind | 0.6M | panes have records, names are not shared, returned errors restore, when numbers differ |
| `workflows` (`MCWorkflows.cfg`) | 3 modes, 3 calls, one kill; and a run of 2 iterations, 2 commits, one kill, one stop or clear | 2.3M | the mutex of the modes, list and files agree; what autoresearch keeps and records |

The bounds. Two processes are needed for every race here; three for a lock's waiter, holder and next holder,
which are different processes in the race of section 6. Two polls let an attempt fail, retry and time out. An
engine needs two records with one id beside another request (3 records) and a log long enough to queue, move and
compact. A bridge needs one command before a restart and one after, hence logs of 2; one fault anywhere
reaches each of the write positions; a message needs its creation and one mark. Three workers and four tokens allow
a lease to lapse, be taken over, and be taken back while both older tokens are still held. Two tasks make a
reused or skipped number visible; transitions aim at one terminal status and at `pending`, which lets a task
return. Two messages of one content and two requests are the least with which deduplication can fail and a new request can follow a
settled one; a single disturbance (a race or a kill) reaches each position, and after one the conditional
properties claim nothing. A team of one that may have three lets a scale-up add two workers and fail at the second, and
four panes let its indices be used again. Two starts and two shutdowns let each follow, meet or wait for the other, with
an answer left by the first shutdown when the second asks, and as many panes are what two starts split. Two wiki pages, of which session ends own
one, and two contents show a replaced or forgotten page; three calls are two that race and one that finds what a killed one left;
two replacements of the memory fall before and inside a session start. `ralplan`, `team` and `ralph` have a hand-over, a pair that may overlap and
pairs that may not; three calls are a start, something that leaves a trace, and a start that meets it. Two iterations let
a killed one be run again. Every bound is a named constant: `MaxTries`, `MaxLog`, `MaxQueued`, `MaxMail`,
`MaxFaults`, `MaxTasks`, `Targets`, `MaxMessages`, `MaxRequests`, `MaxDisturbances`, `MaxWorkers`, `MaxCount`,
`MaxPanes`, `MaxCalls`, `MaxKills`, `MaxIterations`, `MaxCommits`, `MaxStops`, `MaxOrders`, `MaxAgents`, `MaxStarts`,
`MaxEdits`. The engine's and `MaxDisturbances` are CONSTRAINTs of their MC modules, the others guards. Two modules have a CONSTRAINT `Explored`, which
TLC checks the properties on the border of and does not cross. `MCTaskLease` cuts off what follows a start that overlaps another call, about which
only the first part of `LeavesNothing` and `RefusalIsCurrent` say anything, and what follows a second mishap; the first shows a shutdown or
start that meets what it left. `MCTeamScaling` cuts off what follows an outdated write or a taken-over lock, where no property claims anything,
and a second mishap: the pane properties excuse kills of processes, that of the numbers has no pane in it, and one pane adrift beside later
calls meets their names, indices and room.

`MCWorkflows`, `MCTaskLease` and `MCRuntimeEngine` are sums, not products: their first state says which of two machines moves, so that one run
explores both at the cost of adding their states. A wiki or a team whose calls have all ended stutters (`Rest`).

`MCTaskStore.cfg` switches off deadlock checking because the system may really stop: when both `tasks.json` and
`config.json` have been left without valid JSON, every call raises and no code repairs them. `MCTeamStart.cfg` and
`MCWorkflows.cfg` do so because their calls and iterations are bounded and nothing has to happen afterwards.

Symmetry (bridges, store workers, scaling processes, a team's workers and its processes, the wiki's processes) is used in safety runs only.

Some properties name the circumstances they need, because without them the code breaks them: `AckedIsDurable`
and `FilesAgree` need bridges that take turns (`~shared`; a cached engine never looks at the directory
again), `UniqueIds` needs `create_task`s that do not overlap and are not killed, `Readable` and
`CounterTrails` need calls that do not hold copies of the list at the same time. `RequestTrailsMessage` and `Kept`
need reads that meet no other call's write (`races = 0`), but hold across kills; `NoFalseReceipt` and `NoDuplicates` need nothing. The scaling
properties need that no stale copy was written; those about panes also that no process was killed, and they count panes adrift separately;
`NumbersDiffer` needs that no `create_task` ended between its two files. `NoStrayPane` and `LeavesNothing` name the panes adrift and the files that could not be
removed, `IndexFollowsPages` a body that raised between page and index, `SkillFollowsMode` (among others) a start whose `initial_state` ends its run. `ModesCompatible` ends for a scope where the code itself stops
checking: `state_write` and re-activating updates ask no rule; a session may restart what the root runs; and a
session whose list a kill left torn reads the root's. The autoresearch properties exclude runs finalized beside a
live supervisor. Everything else may overlap in these runs, and does.

### Fairness
`DirLock` and `TeamMessaging` state liveness. In `DirLock`, `Fairness` is weak: a process inside `__enter__` keeps executing
(`Waiting`), a body ends (`Release`), and time passes (`Age`). The loop contains no blocking call, only
`mkdir`, `stat`, `rmdir` and a sleep, so weak fairness of the process as a whole is what the operating
system's scheduler gives; it is not assumed that any particular branch is taken, that anybody enters, or that
nobody is killed. In `TeamMessaging` it is weak fairness of `Step(p)`, a call that has begun: its steps are reads and
writes of files and one bounded notification, and none waits for another process. Nothing obliges anybody to begin a call.

## 4. What is proved

For every number of processes, every bound and every set of ids, checked by TLAPS. The inductive invariants were checked by
TLC on the instances of section 3 before they were proved.

| theorem | statement | argument |
|---|---|---|
| `DirLockProofs`: `TypeCorrect`, `Exclusion`, `OwnRelease`, `NoLeak` | `[]TypeOK`, `[]ExclusiveUntilReaped`, `[]HolderOwnsDirectory`, `[]NoLeakedDirectory` | inductive invariant: `TypeOK /\ HolderOwnsDirectory /\ NoLeakedDirectory`. Exclusion alone is not inductive: a release removes the path whoever's directory it is, so one must know that it is the holder's |
| `EngineProofs`: `TypeCorrect` | `[]TypeOK` | lemmas on typing of each effect on records and sequences |
| `MovesForward`, `LeaseHandover`, `Shadowed` | the action properties and the invariant of the run | from `TypeOK` and lemmas on `IsFirst`; appending and marking never move a first record |
| `Implements` | `Spec => ImplementsLifecycle` | every step of the engine is, for each request, a move of `DispatchLifecycle` or a stutter; needs that a known id has exactly one first record |
| `LogExplains` | `[]LogExplainsEngine` | inductive invariant `LogInv`: what the log's replay says of a request (`Account`: absent, a status, or many records) is what the engine says, or the request is finished and forgotten. Lemmas by induction on the log's length: a replay is typed, replays of a log and of the log with one more event are related (`ReplayAppend`), and dropping the events of finished requests from a log forgets exactly those (`Remembers`) |
| `BridgeTypeCorrect`, `Excludes`, `ConsistentLoads` | `[]BridgeTypeOK`, `[]LockExcludes`, `[]LoadsAreConsistent` | `LockInv /\ Engines /\ Disk /\ Clean`: who holds `engine.lock` is who is between taking and dropping it, across failures; a torn log is in the hands of one filler |
| `AckedDurable`, `OneStory` | `[]AckedIsDurable`, `[]FilesAgree` | `Durable`: the cached log and the log on disk both have every acknowledged command at its place, and are the same from the second write of a call on. `Story`: every cached engine is its log replayed, a call has written what lies behind it (`Written`), and between calls the files agree |
| `TaskProofs`: `StoreTypeCorrect`, `ReadableTheorem`, `CounterTheorem`, `UniqueTheorem` | `[]TypeOK`, `[]Readable`, `[]CounterTrails`, `[]UniqueIds` | `WriterOwnsFile`: without overlaps the one list held is its writer's, and a torn file is being filled. `CounterInv`: every number that the counter or a drawn number may reach has its task in the list and in every copy of it. `UniqueInv`: a number drawn by the one `create_task` that runs is new to the list and to every copy, overlapping calls of other kinds included |
| `TypeCorrect`, `PrivateToken`, `Respected`, `Finishes` | `[]LeaseTypeOK` and the run's three properties of the lease | `LeaseTypeOK /\ TokenIsPrivate`: a token on the task is known to the claim's owner only |
| `TeamScalingProofs`: `ScalingTypeCorrect`, `NumbersTheorem` | `[]TypeOK`, `[]NumbersDiffer` | the type with the shape of each call (`CallShape`); a copy that no write has overtaken is the file (`Fresh`), so that the number it gives is new; at most one call is between the two files, and only its task has reached the counter (`NumberInv`) |
| `NoOrphan`, `OneName`, `Restored` | `[]NoOrphanPane`, `[]OneAgentPerName`, `[]FailureRestores` | inductive invariant `ScalingInv`, for histories without a killed process, a take-over or a lost update, about the panes that are not adrift: the config is sound (`Sound`: distinct names below the next index, at most `max_workers`), one call is inside, and the call inside is at its stage (`Stage`): what a scale-up found is still there (`UpBase`), what it added has new numbers and lives (`UpAdded`), copy and panes together leave room for what is still to come (`UpRoom`). A kill that fails, a lost id and a call that raises move panes to `adrift`, and the invariant of the others stands. None of the three is inductive: each speaks of one moment of a call that others prepare |
| `TeamMessagingProofs`: `MessagingTypes`, `ReceiptsAreTrue`, `DeduplicationHolds` | `[]TypeOK`, `[]NoFalseReceipt`, `[]NoDuplicates` | `Sound`, which holds however calls overlap: each file and each copy a call holds is by itself a good list (`MailOK`, `QueueOK`), so that overwriting one by another loses entries and never makes a bad list; what a call is about to record it has heard (`Told`); an identifier stands for one topic in every list and call (`OneTopic`); and room is kept for the requests that calls under way have yet to queue (`Room`, by counting a finite set) |
| `MessagingInvariant`, `FilesKeepOrder`, `NothingIsUndone` | `[]IInv`, `[]RequestTrailsMessage`, `[]Kept` | `IInv == Sound /\ (races = 0 => Quiet)`. `Quiet`: each file has one writer, whose copy is of the file as it stands (`OneWriter`); whole files and copies say at least what was recorded (`Records`); a request and a call trail the message they are about (`Ordered`). `OneTopic` is needed here: the request a call marks notified must be the one whose message it marked |
| `WorkflowProofs`: `ResultingCompatible`, `NoRollbackToPlanning` | an allowed start keeps compatible modes compatible; no planning mode starts beside an execution mode other than `ultrawork` | case analysis over the tables |
| `TypeCorrect`, `ModesStayCompatible` | `[]TypeOK`, `[]ModesCompatible` | inductive invariant: the mutex itself, and that the mode a start is about to write fits whatever is still active and not yet completed in its scope. Stale canonical entries only make a decision stricter, so they need no invariant |
| `SkillTheorem` | `[]SkillFollowsMode` | `SkillInv`: file and entry agree wherever the call in progress has not changed one without the other (`Pending`), and what that call is about to write makes them agree (`Promise`), unless it is a start that was told to end (`Overridden`) |
| `ResearchInvariant`, `ResearchTypes`, `LedgersExplain`, `KeptWasEarned` | `[]ResearchInv`, `[]ResearchTypeOK`, `[]LedgerExplainsManifest`, `KeepsOnlyBetter` | `ResearchInv`, a part for each run. `GroundedAt` holds of every run: a run under way has its manifest, and a call never holds fewer iterations or later commits than its files allow. `SettledAt` holds of runs that were not finalized or resumed beside a live supervisor: what a supervisor holds is the manifest's iteration or the next, what it would keep is what is kept or was earned (`Earned`), what the operator holds is what is kept. Neither property is inductive: both speak of files, and a call is several steps away from the file when it decides. Lemmas say which plans the code makes (`Linked`) and what their tails and joins may begin with |
| `TeamLifecycleProofs`: `TypeCorrect`, `NoStray`, `NothingLeft`, `Refusals` | `[]LifeTypeOK`, `[]NoStrayPane`, `[]LeavesNothing`, `RefusalIsCurrent` | inductive invariant: as long as nothing crossed, a start under way is alone (`Alone`) and answers for every living pane that is not adrift, and a shutdown past its kills has left only panes adrift (`Tracked`); a start past its kills owns no other living pane (`Owned`); one past its removal has left no files, unless it could not remove all (`Wiped`). `NoStrayPane` alone is not inductive: the config is torn and removed while panes live |
| `WikiProofs`: `TypeCorrect`, `IndexTheorem`, `EnvironmentTheorem`, `Appended`, `LogTheorem` | `[]WikiTypeOK`, `[]IndexFollowsPages`, `[]EnvironmentHeals`, `NothingReplaced`, `LogOnlyGrows` | inductive invariant: whoever is inside is the holder (`Exclusive`) and at a step of its own operation (`Fitting`); the index is the pages', or its rebuilding is still ahead of the holder, or a body has raised since it was last written (`IndexKept`); what the holder has read is still there (`Knowing`); dates never run ahead of what was read (`Dated`) |

They assume only what the `ASSUME`s of the modules state, or a definition `...Parameters` where a module has it as one (then it is a
hypothesis of the theorem): special values differ from ordinary ones, bounds are natural numbers, a team and its processes are finitely many, and a
file that does not parse is none that does. TLC evaluates these in the runs.
The type invariants of `DirLock`, `RuntimeEngine`, `RuntimeBridge`, `TaskLease`, `ModeState`, `Autoresearch`, `TeamLifecycle` and `Wiki`, `HolderOwnsDirectory` and
`LogOnlyGrows` are proved and not run.

Induction. The library's induction theorems take an operator, which the provers cannot instantiate; the lemmas over logs of any
length use well-founded induction over a set of natural numbers, the set of lengths for which the lemma holds.

Model-checked only: the liveness of `DirLock` and `TeamMessaging` (liveness and ENABLED are out of this prover's reach),
and the runs that expect a violation. Every other property of a run has its theorem.

## 5. Not modelled, and why

HUD, notifications, CLI, setup, MCP front ends and hooks present or parse and hold no shared state; tmux and git
wrappers return whatever the environment answers; role routing, prompts and documentation are text. These parts are most
of the source by lines, so the models stand for a small share of it. Phases:
`transition_phase` has no caller outside the tests. Rebalancing: its decisions are carried out by nobody.
Events, approvals, snapshots, questions and the subagent tracker are logs or whole-file records with one writer at a time.
Assignment changes state through the store and the messages, which are modelled; the two are not composed. The pipeline
and the run loop call callbacks in sequence in one process. Within the modelled parts: the deduplication set of
`ReplayState` (its writers have no caller), timestamps, messages' bodies, `compute_task_readiness` and the dependency
fields (nobody asks), the locks on tasks, dispatches and mailboxes that nobody takes, the write-only records of autoresearch,
the texts and scores of wiki pages and pages that do not parse, worktrees (of a start: see section 6),
the branch of `queue_direct_mailbox_message` for a leader without a pane (no notifier answers with its reason:
`runtime_messaging.py` 399 puts it on the result of a call that has returned), and mode calls that overlap (the files have no lock, so overlapping calls simply lose each other's changes).

## 6. Where the code and its documentation differ

* `locks.py` says it "uses directory creation for mutual exclusion". `_is_lock_stale` returns True when `stat`
  fails, so a waiter that meets a just-released lock goes on to `rmdir` the path, which by then may be another
  process's fresh directory (`dirlock_exclusion`).
* `RuntimeEngine.load` says it replays events. It then replaces the mailbox by `mailbox.json`, which after a kill
  between the two writes is the older of the two (`bridge_mailbox`).
* `_dispatch_startup_inbox` says that `queue_inbox_instruction` "persists the worker inbox + enqueues a dispatch
  request". `init_team_state` has written `requests.json` as a bare list, on which `read_dispatch_requests` raises, so the
  first dispatch of a started team fails and the start is rolled back (`team_start`).
* `team_transition_task_status` promises "claim-token authorization". The claim does not survive `TeamTask`,
  so no token is ever compared (`store_token`).

Known from the same models and not run separately:

* Engine and store: two processes with cached engines both acquire the
  authority lease; a second worker may claim a task through the gateway while the first works on it;
  `create_task` killed between its two files makes the next one reuse the number; overlapping calls lose tasks;
  `update_task`'s "persist atomically" does not survive a kill; `release_task_claim` reopens a completed task.
* Messages: requests left to the hook are drained by nothing in the repository. A reader that meets an open file drops all it
  holds with its next write.
* Scaling: a failed scale-up keeps the tasks it created, although its docstring says "created tasks" are rolled back; it
  removes files nobody writes. A scale-down whose worktree removal fails keeps the killed workers in the config.
  Both save the config they read first, undoing a `create_task` beside them; a scale-up that creates tasks undoes its own.
  The drain wait is answered by the status the call has just written itself. Between the split of a pane and its save several steps are in no `try`
  (`scaling.py` 944-961, 988, 1006, 1044): an exception there leaves the pane running without a record, and its index is given again. So does a pane whose
  id was not captured, and one that tmux did not kill: kills are best effort in both directions of scaling, and the record goes all the same.
* Modes: a session may start a mode the root runs beside anything, and the root never sees a session's modes. `state_write`,
  `omx ralph` and re-activating updates bypass the mutex. `cancel_mode` and a clear of all scopes leave stale canonical entries.
  `start_mode` lets `initial_state` override `active` and the outcome and enters the mode as active all the same; it refuses a bad one only after it has
  completed the modes the new one replaces.
* Autoresearch: a stop during an iteration is undone by the supervisor's next write of the manifest; a finalizing run's
  release drops the lock of a run started in between; two preparations that both pass the check both start; `_activate`
  drops the key `mode`, so `cancel_mode("autoresearch")` writes `-state.json` and leaves the run active; without a
  baseline score, `score_improvement` keeps nothing ever.
* Lifecycle: a team that asks for worktrees never starts (`plan_worktree_target` gets keyword arguments it does not take,
  `runtime_start.py` 504, 831). Roll-back and shutdown never end prompt workers. Ctrl-C while panes are split leaves them, and
  so does a kill before the first save. A `config.json` torn by a kill makes `shutdown_team` raise, and while the
  manifest is there every start refuses. A request that could not be written has no date, and any old answer counts for it.
  Of two overlapping shutdowns the second makes the directory again; two overlapping starts, or a start under a shutdown, lose panes.
  A pane whose id was not captured is in no roll-back list; kills and the removal of the directory ignore what tmux and the file system answer, so a live pane may
  lose its only record, and a directory may stay after a start or shutdown that reports no error of it.
  The shutdown writes its phase to a file of another name than the one the next start looks at. `confirm_issues` has no effect.
  `omx team` passes `create_team_session` an argument it does not take.
* Wiki: a process killed inside the lock blocks everybody after it for good, and so does a lock whose removal fails. A body that raises after it has written a page
  frees the lock with the index as it was; no later call notices until one writes the index for itself. Two `wiki_add`s that both find no page merge, and the
  second logs an `add` of no page. A session end that waited over three seconds releases the lock and writes nothing. A memory
  replaced between a session start's read and the date it takes leaves an environment page that no later start renews. A page whose
  frontmatter does not parse is taken for missing and replaced by the next ingest into it.

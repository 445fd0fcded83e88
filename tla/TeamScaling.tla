---------------------------- MODULE TeamScaling ----------------------------
(***************************************************************************)
(* config.json, tasks.json and the workers' tmux panes under scale_up,     *)
(* scale_down (omx.team.scaling, scaling_down) and create_task             *)
(* (omx.team.state.tasks), which other processes call meanwhile.           *)
(*                                                                         *)
(* Both scalings hold the scaling lock; create_task does not.  All three   *)
(* read config.json once, keep the copy, and write the whole of it back.   *)
(* A read and a write are steps here: TaskStore looks inside them.         *)
(***************************************************************************)
EXTENDS Naturals, Sequences, FiniteSets, Functions

CONSTANTS
  Procs,       \* the processes that call
  Started,     \* workers the team was started with
  MaxWorkers,  \* config's max_workers
  MaxCount,    \* bound: workers one scale_up adds
  MaxPanes,    \* bound: panes ever opened
  MaxTasks,    \* bound: tasks ever created
  MaxFaults    \* bound: processes killed in the middle of a call

ASSUME WorkersAssumption ==
  /\ Started \in Nat \ {0} /\ MaxWorkers \in Nat /\ Started <= MaxWorkers
ASSUME BoundsAssumption ==
  /\ MaxCount \in Nat /\ MaxPanes \in Nat /\ MaxTasks \in Nat /\ MaxFaults \in Nat
  /\ Started <= MaxPanes

VARIABLES
  config,    \* config.json: workers, next_worker_index, next_task_id
  tasks,     \* the numbers of the tasks in tasks.json
  panes,     \* the workers' tmux panes that live
  inside,    \* the processes that hold the scaling lock
  call,      \* what each process is doing
  opened,    \* how many panes have been opened
  stale,     \* history: processes whose copy of the config is out of date
  lost,      \* history: an out-of-date copy, or a number from one, was written
  crowded,   \* history: the lock was taken over from a call that still ran
  behind,    \* history: the counter of tasks was left behind tasks.json
  adrift,    \* history: live panes that a call let go of without an end
  faults     \* history: processes killed so far

files   == <<config, tasks, panes, adrift>>
history == <<crowded, faults>>
vars    == <<config, tasks, panes, inside, call, opened, stale, lost,
             crowded, behind, adrift, faults>>

PaneIds == 1 .. MaxPanes

\* worker-<index> in its pane; config's list of them is kept as a set, since no worker
\* joins a copy twice
Workers == [index : Nat, pane : PaneIds]

InitialWorkers == {[index |-> k, pane |-> k] : k \in 1 .. Started}

InitialConfig == [workers |-> InitialWorkers, next |-> Started + 1, number |-> 1]

Locations == {"idle", "create", "number", "up tasks", "up number", "up count",
              "up next", "up boot", "up save", "rollback", "restore", "failed",
              "drain", "kill", "trees", "down save"}

\* where no scaling lock is held
Lockless == {"idle", "create", "number"}

\* where a task is in tasks.json and its number is not yet counted in config.json
Halfway == {"number", "up count"}

\* cfg: the copy; own: the copy of a create_task inside scale_up; base: workers,
\* index and panes when the call began
NoCall == [at |-> "idle", cfg |-> InitialConfig, own |-> InitialConfig, left |-> 0,
           bring |-> 0, next |-> 0, pane |-> 0, added |-> {},
           targets |-> {}, base |-> <<>>]

Init ==
  /\ config = InitialConfig
  /\ tasks = <<>>
  /\ panes = InitialWorkers
  /\ inside = {}
  /\ call = [p \in Procs |-> NoCall]
  /\ opened = Started
  /\ stale = {}
  /\ lost = FALSE
  /\ crowded = FALSE
  /\ behind = FALSE
  /\ adrift = {}
  /\ faults = 0

-----------------------------------------------------------------------------
\* The panes that somebody answers for. The others are adrift: tmux did not kill them,
\* or did not say which pane it had opened, or scale_up raised before it saved them.
Kept == panes \ adrift

HoldsCopy(p) == call[p].at \notin {"idle", "failed"}

Continue(p, c) == call' = [call EXCEPT ![p] = c]

\* the call returns, and with it the lock is released
Leave(p) == Continue(p, NoCall) /\ inside' = inside \ {p}

\* every write of config.json replaces all of it
Save(p, copy) ==
  /\ config' = copy
  /\ stale' = stale \cup {q \in Procs \ {p} : HoldsCopy(q)}
  /\ lost' = (lost \/ p \in stale)
  /\ behind' = (behind \/ (copy.number < config.number /\ p \notin stale))

KeepConfig == UNCHANGED <<config, stale, lost, behind>>

\* mutant of Numbered: the counter stays
NumberedOld(copy) == copy

Numbered(copy) == [copy EXCEPT !.number = @ + 1]

RoomForTasks(k) ==
  LET coming == {q \in Procs : call[q].at = "create"}
      up == {q \in Procs : call[q].bring > 0}
  IN  Len(tasks) + Cardinality(coming) + Cardinality(up) + k <= MaxTasks

-----------------------------------------------------------------------------
\* create_task
Create(p) ==
  /\ call[p].at = "idle"
  /\ RoomForTasks(1)
  /\ Continue(p, [NoCall EXCEPT !.at = "create", !.cfg = config])
  /\ stale' = stale \ {p}
  /\ UNCHANGED <<files, inside, opened, lost, behind, history>>

\* The task goes to tasks.json, read a moment ago, with the number of the copy; another
\* create_task may have taken that number already.
Store(p, copy) ==
  /\ tasks' = Append(tasks, copy.number)
  /\ lost' = (lost \/ p \in stale \/ \E q \in Procs \ {p} : call[q].at \in Halfway)

Stored(p) ==
  /\ call[p].at = "create"
  /\ Store(p, call[p].cfg)
  /\ Continue(p, [call[p] EXCEPT !.at = "number"])
  /\ UNCHANGED <<config, panes, adrift, inside, opened, stale, behind, history>>

Created(p) ==
  /\ call[p].at = "number"
  /\ Save(p, Numbered(call[p].cfg))
  /\ Continue(p, NoCall)
  /\ UNCHANGED <<tasks, panes, adrift, inside, opened, history>>

-----------------------------------------------------------------------------
\* with_scaling_lock: DirLock; a call that outlives stale_ms loses it
MayEnter(p) == call[p].at = "idle"

\* mutant of TakeLock: the lock is not taken
TakeLockNot(p) ==
  /\ inside' = inside
  /\ crowded' = (crowded \/ inside # {})
  /\ stale' = stale \ {p}

TakeLock(p) ==
  /\ inside' = inside \cup {p}
  /\ crowded' = (crowded \/ inside # {})
  /\ stale' = stale \ {p}

\* mutant of Fits: the new workers are not counted
FitsNow(n) == Cardinality(config.workers) < MaxWorkers

Fits(n) == Cardinality(config.workers) + n <= MaxWorkers

\* _scale_up_locked, up to the tasks; every earlier return changes nothing
ScaleUp(p, n, k) ==
  /\ MayEnter(p)
  /\ Fits(n)
  /\ opened + n <= MaxPanes
  /\ RoomForTasks(k)
  /\ TakeLock(p)
  /\ Continue(p, [NoCall EXCEPT
       !.at = "up tasks", !.cfg = config, !.left = n, !.bring = k,
       !.next = config.next,
       !.base = <<config.workers, config.next, Kept>>])
  /\ UNCHANGED <<files, opened, lost, behind, faults>>

Fail(p) == Continue(p, [call[p] EXCEPT !.at = "rollback", !.bring = 0])

BringTask(p) ==
  /\ call[p].at = "up tasks"
  /\ IF call[p].bring = 0
       THEN Continue(p, [call[p] EXCEPT !.at = "up next"])
       ELSE Continue(p, [call[p] EXCEPT !.at = "up number", !.own = config])
  /\ UNCHANGED <<files, inside, opened, stale, lost, behind, history>>

StoredBrought(p) ==
  LET c == call[p]
  IN  /\ c.at = "up number"
      /\ \/ /\ Store(p, c.own)
            /\ Continue(p, [c EXCEPT !.at = "up count", !.bring = @ - 1])
         \/ Fail(p) /\ UNCHANGED <<tasks, lost>>
      /\ UNCHANGED <<config, panes, adrift, inside, opened, stale, behind, history>>

\* A failure here leaves the task in tasks.json.
BroughtTask(p) ==
  LET c == call[p]
  IN  /\ c.at = "up count"
      /\ \/ /\ Save(p, Numbered(c.own))
            /\ Continue(p, [c EXCEPT !.at = "up tasks", !.own = InitialConfig])
         \/ Fail(p) /\ behind' = TRUE /\ UNCHANGED <<config, stale, lost>>
      /\ UNCHANGED <<tasks, panes, adrift, inside, opened, history>>

\* the worker that a scale_up has a pane for, and has not saved
Newest(c) == [index |-> c.next, pane |-> c.pane]

\* tmux split-window; with what goes before it (directory, worktree, instructions) it may
\* fail, or open a pane and not tell its id
Split(p) ==
  LET c == call[p]
      opening == [c EXCEPT !.pane = opened + 1]
  IN  /\ c.at = "up next"
      /\ IF c.left = 0
           THEN Leave(p) /\ UNCHANGED <<panes, adrift, opened>>
           ELSE /\ \/ /\ opened < MaxPanes
                      /\ opened' = opened + 1
                      /\ panes' = panes \cup {Newest(opening)}
                      /\ \/ /\ Continue(p, [opening EXCEPT !.at = "up boot"])
                            /\ UNCHANGED adrift
                         \/ Fail(p) /\ adrift' = adrift \cup {Newest(opening)}
                   \/ Fail(p) /\ UNCHANGED <<panes, adrift, opened>>
                /\ UNCHANGED inside
      /\ KeepConfig
      /\ UNCHANGED <<tasks, history>>

\* identity, readiness, inbox and trigger; the worker then joins the copy
Boot(p) ==
  LET c == call[p]
      worker == Newest(c)
  IN  /\ c.at = "up boot"
      /\ \/ Continue(p, [c EXCEPT
              !.at = "up save", !.added = @ \cup {worker}, !.next = @ + 1,
              !.cfg.workers = @ \cup {worker}, !.cfg.next = c.next + 1])
         \/ Fail(p)
      /\ KeepConfig
      /\ UNCHANGED <<tasks, panes, adrift, inside, opened, history>>

Joined(p) ==
  LET c == call[p]
  IN  /\ c.at = "up save"
      /\ \/ /\ Save(p, c.cfg)
            /\ Continue(p, [c EXCEPT !.at = "up next", !.left = @ - 1, !.pane = 0])
         \/ Fail(p) /\ KeepConfig
      /\ UNCHANGED <<tasks, panes, adrift, inside, opened, history>>

Doomed(c) == {c.pane} \cup {w.pane : w \in c.added}

\* mutant of Undone: the index is left where it was
UndoneButIndex(c) == [c.cfg EXCEPT !.workers = @ \ c.added]

Undone(c) == [c.cfg EXCEPT !.workers = @ \ c.added, !.next = c.base[2]]

\* kill-pane is best effort: some of the doomed may live on, and nobody is told
Kill(doomed) ==
  \E missed \in SUBSET (panes \cap doomed) :
    /\ panes' = (panes \ doomed) \cup missed
    /\ adrift' = (adrift \ doomed) \cup missed

\* _rollback: panes first, then tasks/task-<id>.json, which nobody writes: the
\* tasks are in tasks.json and stay there
Rollback(p) ==
  LET c == call[p]
  IN  /\ c.at = "rollback"
      /\ Kill({w \in panes : w.pane \in Doomed(c)})
      /\ Continue(p, [c EXCEPT !.at = "restore", !.cfg = Undone(c)])
      /\ UNCHANGED <<config, tasks, inside, opened, stale, lost, behind, history>>

\* an error in this write is swallowed
Restore(p) ==
  LET c == call[p]
  IN  /\ c.at = "restore"
      /\ \/ /\ Save(p, c.cfg)
            /\ Continue(p, [c EXCEPT !.at = "failed"])
         \/ KeepConfig /\ Continue(p, [c EXCEPT !.at = "failed", !.base = <<>>])
      /\ UNCHANGED <<tasks, panes, adrift, inside, opened, history>>

Failed(p) ==
  /\ call[p].at = "failed"
  /\ Leave(p)
  /\ UNCHANGED <<files, opened, stale, lost, behind, history>>

-----------------------------------------------------------------------------
\* at least one worker must remain in the config
Leaves(T) == Cardinality(T) < Cardinality(config.workers)

\* scale_down of named workers; a choice by count and state gives one of these sets
ScaleDown(p, T) ==
  /\ MayEnter(p)
  /\ T # {}
  /\ IF Leaves(T)
       THEN /\ TakeLock(p)
            /\ Continue(p, [NoCall EXCEPT
                 !.at = "drain", !.cfg = config, !.targets = T])
            /\ UNCHANGED <<files, opened, lost, behind, faults>>
       ELSE UNCHANGED vars

\* the targets are told to drain; the wait ends when all of them have such a
\* status, which the call has just written itself, or at the deadline
Drain(p) ==
  /\ call[p].at = "drain"
  /\ Continue(p, [call[p] EXCEPT !.at = "kill"])
  /\ UNCHANGED <<files, inside, opened, stale, lost, behind, history>>

\* mutant of KillTargets: the panes live on
KillTargetsNot(p) ==
  /\ call[p].at = "kill"
  /\ Continue(p, [call[p] EXCEPT !.at = "trees"])
  /\ UNCHANGED <<files, inside, opened, stale, lost, behind, history>>

KillTargets(p) ==
  /\ call[p].at = "kill"
  /\ Kill(call[p].targets)
  /\ Continue(p, [call[p] EXCEPT !.at = "trees"])
  /\ UNCHANGED <<config, tasks, inside, opened, stale, lost, behind, history>>

\* an error here ends the call before the config is saved
RemoveTrees(p) ==
  LET c == call[p]
  IN  /\ c.at = "trees"
      /\ \/ Continue(p, [c EXCEPT !.at = "down save"]) /\ UNCHANGED inside
         \/ Leave(p)
      /\ UNCHANGED <<files, opened, stale, lost, behind, history>>

Removed(p) ==
  LET c == call[p]
  IN  /\ c.at = "down save"
      /\ Save(p, [c.cfg EXCEPT !.workers = @ \ c.targets]) \/ KeepConfig
      /\ Leave(p)
      /\ UNCHANGED <<tasks, panes, adrift, opened, history>>

-----------------------------------------------------------------------------
\* What no try covers raises out of the call: create_task itself, the steps of scale_up
\* between the tasks and the split and between the pane and the outcome of its trigger,
\* and scale_down before its kills. Nothing is rolled back; the lock is released.
Raise(p) ==
  LET c == call[p]
  IN  /\ c.at \in {"create", "number", "up next", "up boot", "drain"}
      /\ adrift' = adrift \cup {w \in panes : c.at = "up boot" /\ w = Newest(c)}
      /\ behind' = (behind \/ c.at \in Halfway)
      /\ Leave(p)
      /\ UNCHANGED <<config, tasks, panes, opened, stale, lost, history>>

\* the process is killed; its lock directory grows old and is recovered
Crash(p) ==
  /\ call[p].at # "idle"
  /\ faults < MaxFaults
  /\ faults' = faults + 1
  /\ behind' = (behind \/ call[p].at \in Halfway)
  /\ Leave(p)
  /\ UNCHANGED <<files, opened, stale, lost, crowded>>

Next ==
  \E p \in Procs :
    \/ Create(p) \/ Stored(p) \/ Created(p)
    \/ \E n \in 1 .. MaxCount, k \in 0 .. 1 : ScaleUp(p, n, k)
    \/ BringTask(p) \/ StoredBrought(p) \/ BroughtTask(p) \/ Split(p) \/ Boot(p) \/ Joined(p)
    \/ Rollback(p) \/ Restore(p) \/ Failed(p)
    \/ \E T \in SUBSET config.workers : ScaleDown(p, T)
    \/ Drain(p) \/ KillTargets(p) \/ RemoveTrees(p) \/ Removed(p)
    \/ Raise(p) \/ Crash(p)

Spec == Init /\ [][Next]_vars

-----------------------------------------------------------------------------
Configs == [workers : SUBSET Workers, next : Nat, number : Nat \ {0}]

Calls == [at : Locations, cfg : Configs, own : Configs, left : Nat, bring : Nat, next : Nat,
          pane : 0 .. MaxPanes, added : SUBSET Workers, targets : SUBSET Workers,
          base : {<<>>} \cup (SUBSET Workers) \X Nat \X (SUBSET Workers)]

\* Files and copies hold workers with numbers and panes, and the lock is held by
\* exactly the scalings in progress.
TypeOK ==
  /\ config \in Configs
  /\ tasks \in Seq(Nat \ {0})
  /\ panes \subseteq Workers /\ adrift \subseteq panes
  /\ call \in [Procs -> Calls]
  /\ stale \subseteq Procs
  /\ inside = {p \in Procs : call[p].at \notin Lockless}
  /\ opened \in 0 .. MaxPanes /\ faults \in 0 .. MaxFaults
  /\ lost \in BOOLEAN /\ crowded \in BOOLEAN /\ behind \in BOOLEAN

\* no process was killed or overrun, and no write undid another process's
Calm == ~lost /\ ~crowded /\ faults = 0

\* Whatever step of a scaling fails or raises, no pane is left running without a record:
\* once nobody is inside, every live worker pane is a worker of the config, except those
\* the code itself lets go of: a kill that tmux did not carry out, a pane whose id was not
\* captured, a pane opened by a scale_up that raised before it saved it.
NoOrphanPane ==
  (Calm /\ inside = {}) => Kept \subseteq config.workers

\* At any moment, in the middle of calls too, the live panes, those adrift aside, have
\* different worker names and are no more than max_workers: two agents never share one
\* worker's directory, mailbox and worktree, although a roll-back gives its indices back.
\* A pane adrift may come to share its name with a later worker.
OneAgentPerName ==
  Calm => /\ \A v, w \in Kept : v.index = w.index => v = w
          /\ Cardinality(Kept) <= MaxWorkers

\* A scale_up that returns an error, and could write config.json, has put back what it
\* found: the workers, the index and the panes, whichever of its steps failed and however
\* many workers it had already added and saved; what else lives is adrift. (One that
\* raises returns no error and puts nothing back.)
FailureRestores ==
  \A p \in Procs :
    (Calm /\ call[p].at = "failed" /\ call[p].base # <<>>) =>
      <<config.workers, config.next, Kept>> = call[p].base

\* Tasks keep different numbers, and the counter stays ahead of all but the one being
\* created, in spite of kills, as long as no create_task overlaps another, none is killed
\* or fails between tasks.json and config.json, and no copy older than a create_task's
\* write is saved: another process's, or a scale_up's own, made before it created tasks.
NumbersDiffer ==
  (~lost /\ ~crowded /\ ~behind) =>
    /\ IsInjective(tasks)
    /\ \A k \in DOMAIN tasks :
         \/ tasks[k] < config.number
         \/ \E p \in Procs : call[p].at \in Halfway
=============================================================================

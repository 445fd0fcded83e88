----------------------------- MODULE TaskStore -----------------------------
(***************************************************************************)
(* A team's tasks.json and the counter in its config.json, as the gateway  *)
(* (team_ops) and the bulk CRUD of omx.team.state.tasks read and write     *)
(* them.  Every call reads the whole list, changes one task of its copy    *)
(* and writes the whole list back; no call takes a lock.  A file is        *)
(* written by opening it, which empties it, and then writing the text: two *)
(* steps, between which the file does not parse.                           *)
(*                                                                         *)
(* TeamTask keeps a task's owner but has no field for its claim, so what a *)
(* call writes carries none, and reclaim_expired_task, which the gateway   *)
(* hands a task without a claim, changes nothing.  A call begins with its  *)
(* first read; one that is refused, or that meets a file that does not     *)
(* parse, changes nothing and is not an action unless it has begun.        *)
(***************************************************************************)
EXTENDS TaskRules, Sequences, Naturals

CONSTANTS
  MaxTasks,   \* bound: tasks in the list, and numbers given out, when a
              \* create_task begins
  MaxFaults,  \* bound: processes killed in the middle of a call
  Targets,    \* bound: the statuses that transitions ask for
  Torn        \* a file that does not parse

ASSUME TasksAssumption  == MaxTasks \in Nat
ASSUME FaultsAssumption == MaxFaults \in Nat
ASSUME TargetsAssumption == Targets \subseteq Statuses

VARIABLES
  tasks,      \* tasks.json: the list of tasks, or Torn
  next_id,    \* config.json's next_task_id, or Torn
  pc,         \* where each worker's call is
  list,       \* the list the call will write
  num,        \* the next_task_id a create_task has read, or 0
  faults,     \* history: processes killed so far
  overlaps    \* history: which parts of two calls have overlapped

vars == <<tasks, next_id, pc, list, num, faults, overlaps>>

\* next_task_id may be one past the numbers given out
Ids == 1 .. MaxTasks + 1

Stored == [id : Ids, status : Statuses, owner : Workers \cup {Nobody}]

ASSUME TornAssumption == Torn \notin Seq(Stored) /\ Torn \notin Nat

IdsOf(l) == {l[k].id : k \in DOMAIN l}

\* what TeamTask.to_dict hands the rules
Dict(t) == [status |-> t.status, claim |-> NoClaim]

Kinds == {"claim", "transition", "release", "update"}

Locations == {"idle", "read", "open", "write", "open config", "write config"}

\* mutant of Init: a config without next_task_id counts from 0
InitFromZero ==
  /\ tasks = <<>>
  /\ next_id = 0
  /\ pc = [w \in Workers |-> "idle"]
  /\ list = [w \in Workers |-> <<>>]
  /\ num = [w \in Workers |-> 0]
  /\ faults = 0
  /\ overlaps = {}

Init ==
  /\ tasks = <<>>
  /\ next_id = 1
  /\ pc = [w \in Workers |-> "idle"]
  /\ list = [w \in Workers |-> <<>>]
  /\ num = [w \in Workers |-> 0]
  /\ faults = 0
  /\ overlaps = {}

-----------------------------------------------------------------------------
Goto(w, l) == pc' = [pc EXCEPT ![w] = l]

\* the call returns or raises
Return(w) ==
  /\ Goto(w, "idle")
  /\ list' = [list EXCEPT ![w] = <<>>]
  /\ num' = [num EXCEPT ![w] = 0]

Creating(w) == num[w] # 0

\* w holds a copy of the list that it will write back
HasList(w) == pc[w] \in {"open", "write"}

\* w has taken a copy of the list; it is bound to be lost, or to undo a change,
\* if somebody else holds one too
TakesList(w, l) ==
  /\ list' = [list EXCEPT ![w] = l]
  /\ overlaps' = IF \E v \in Workers : HasList(v)
                   THEN overlaps \cup {"lists"} ELSE overlaps
  /\ Goto(w, "open")

-----------------------------------------------------------------------------
(* create_task reads next_task_id, then the list *)

RoomLeft == next_id <= MaxTasks /\ (tasks # Torn => Len(tasks) < MaxTasks)

TakesNumber(w) ==
  /\ pc[w] = "idle"
  /\ next_id # Torn
  /\ RoomLeft
  /\ num' = [num EXCEPT ![w] = next_id]
  /\ overlaps' = IF \E v \in Workers : Creating(v)
                   THEN overlaps \cup {"creates"} ELSE overlaps
  /\ Goto(w, "read")
  /\ UNCHANGED <<tasks, list, faults>>

\* mutant of ReadConfig: the counter is moved when the number is drawn
ReadConfigDraws(w) == TakesNumber(w) /\ next_id' = next_id + 1

ReadConfig(w) == TakesNumber(w) /\ UNCHANGED next_id

Create(w) ==
  /\ pc[w] = "read"
  /\ IF tasks = Torn
       THEN Return(w) /\ UNCHANGED overlaps
       ELSE /\ TakesList(w, Append(tasks, [id |-> num[w], status |-> "pending",
                                           owner |-> Nobody]))
            /\ UNCHANGED num
  /\ UNCHANGED <<tasks, next_id, faults>>

-----------------------------------------------------------------------------
(* The other calls read the list and decide by the rules of TaskRules *)

\* What the call makes of a task. The worker presents a token of its own or none:
\* the rules do not look at it when the task carries no claim. update_task's one
\* caller, the team API, lets no status or owner through (api_interop.py 633-641).
Outcomes(w, kind, t) ==
  LET d == Dict(t)
      Claim == Claimed(d, w, NoToken)
  IN  CASE kind = "claim" /\ MayClaim(d, w, FALSE) ->
             {[t EXCEPT !.status = Claim.status, !.owner = Claim.claim.owner]}
        [] kind = "transition" ->
             {[t EXCEPT !.status = to] :
                to \in {s \in Targets : MayTransition(d, t.status, s, NoToken)}}
        [] kind = "release" /\ Authorizes(d, NoToken) ->
             {[t EXCEPT !.status = Unclaimed(d).status, !.owner = Nobody]}
        [] kind = "update" -> {t}
        [] OTHER -> {}

\* the loops stop at the first task with the id
IsFirst(k) == \A j \in 1 .. k - 1 : tasks[j].id # tasks[k].id

Change(w, kind, k) ==
  /\ pc[w] = "idle"
  /\ IsFirst(k)
  /\ \E t \in Outcomes(w, kind, tasks[k]) : TakesList(w, [tasks EXCEPT ![k] = t])
  /\ UNCHANGED <<tasks, next_id, num, faults>>

Changes(w) ==
  /\ tasks # Torn
  /\ \E kind \in Kinds, k \in DOMAIN tasks : Change(w, kind, k)

-----------------------------------------------------------------------------
(* write_text: the file is emptied, then filled *)

Open(w) ==
  /\ pc[w] = "open"
  /\ tasks' = Torn
  /\ Goto(w, "write")
  /\ UNCHANGED <<next_id, list, num, faults, overlaps>>

\* mutant of Overwrite: the file is filled without having been emptied
OverwriteInPlace(old, new) == {new, Torn}

\* Text written over text that another call wrote since Open leaves the other's
\* last bytes in place when it is shorter, and then the file does not parse.
Overwrite(old, new) == IF old = Torn THEN {new} ELSE {new, Torn}

Write(w) ==
  /\ pc[w] = "write"
  /\ tasks' \in Overwrite(tasks, list[w])
  /\ IF Creating(w)
       THEN /\ list' = [list EXCEPT ![w] = <<>>]
            /\ Goto(w, "open config")
            /\ UNCHANGED num
       ELSE Return(w)
  /\ UNCHANGED <<next_id, faults, overlaps>>

OpenConfig(w) ==
  /\ pc[w] = "open config"
  /\ next_id' = Torn
  /\ Goto(w, "write config")
  /\ UNCHANGED <<tasks, list, num, faults, overlaps>>

\* mutant of WriteConfig: the counter is written back as it was read
WriteConfigUnmoved(w) ==
  /\ pc[w] = "write config"
  /\ next_id' = num[w]
  /\ Return(w)
  /\ UNCHANGED <<tasks, faults, overlaps>>

\* config.json keeps its length here: one number of it changes
WriteConfig(w) ==
  /\ pc[w] = "write config"
  /\ next_id' = num[w] + 1
  /\ Return(w)
  /\ UNCHANGED <<tasks, faults, overlaps>>

-----------------------------------------------------------------------------
\* the process is killed
Crash(w) ==
  /\ pc[w] # "idle"
  /\ faults < MaxFaults
  /\ faults' = faults + 1
  /\ Return(w)
  /\ UNCHANGED <<tasks, next_id, overlaps>>

Step(w) ==
  \/ ReadConfig(w) \/ Create(w) \/ Changes(w)
  \/ Open(w) \/ Write(w) \/ OpenConfig(w) \/ WriteConfig(w)
  \/ Crash(w)

Next == \E w \in Workers : Step(w)

Spec == Init /\ [][Next]_vars

-----------------------------------------------------------------------------
TypeOK ==
  /\ tasks = Torn \/ tasks \in Seq(Stored)
  /\ next_id \in Ids \cup {Torn}
  /\ pc \in [Workers -> Locations]
  /\ list \in [Workers -> Seq(Stored)]
  /\ num \in [Workers -> Ids \cup {0}]
  /\ faults \in 0 .. MaxFaults
  /\ overlaps \subseteq {"creates", "lists"}

\* No two tasks of the list have the same id (contracts.py 77), unless two
\* create_task calls overlapped or a process was killed: the gateway's loops stop
\* at the first of two, so the second could never be claimed or finished
\* (team_ops.py 189-196).  Other calls may overlap as they like.
UniqueIds ==
  "creates" \notin overlaps /\ faults = 0 /\ tasks # Torn =>
    \A j, k \in DOMAIN tasks : tasks[j].id = tasks[k].id => j = k

\* tasks.json parses whenever no call is between opening and filling it, unless
\* two calls held copies of the list at the same time or a process was killed
\* (state/io.py 70-83).
Readable ==
  "lists" \notin overlaps /\ faults = 0 /\ tasks = Torn =>
    \E w \in Workers : pc[w] = "write"

\* Kills and overlapping create_tasks or not, a number below next_task_id has its
\* task in the list: the counter moves after the list (tasks.py 73-78).  Only two
\* calls that held copies of the list at the same time can lose a task.
CounterTrails ==
  "lists" \notin overlaps /\ tasks # Torn /\ next_id # Torn =>
    1 .. next_id - 1 \subseteq IdsOf(tasks)

\* team_transition_task_status moves a task "with claim-token authorization"
\* (team_ops.py 247): a task that a worker has claimed is moved by that worker.
TransitionsAuthorized ==
  [][tasks # Torn =>
       \A w \in Workers, k \in DOMAIN tasks :
         Change(w, "transition", k) => tasks[k].owner \in {w, Nobody}]_vars
=============================================================================

----------------------------- MODULE TaskProofs -----------------------------
(***************************************************************************)
(* Proofs about the task store and the lease of a task, for any number of  *)
(* workers, tasks, tokens and kills.                                       *)
(***************************************************************************)
EXTENDS TaskLease, TaskStore, SequenceTheorems, TLAPS

-----------------------------------------------------------------------------
(* TaskStore *)

\* a create_task has its number until it returns; others have none
Numbers ==
  /\ num \in [Workers -> 0 .. MaxTasks]
  /\ \A w \in Workers : pc[w] \in {"read", "open config", "write config"} => Creating(w)
  /\ \A w \in Workers : pc[w] = "idle" => ~Creating(w)

StoreTyped == TypeOK /\ Numbers

LEMMA NumberTyped ==
  ASSUME NEW n \in 0 .. MaxTasks
  PROVE  /\ n \in Ids \cup {0} /\ n + 1 \in Ids /\ n \in Nat
         /\ n # 0 => n \in Ids
BY TasksAssumption DEF Ids

LEMMA RoomForNumber ==
  ASSUME NEW n \in Ids, n <= MaxTasks
  PROVE  n \in 0 .. MaxTasks /\ n # 0
BY TasksAssumption DEF Ids

LEMMA RoomForFault ==
  ASSUME NEW n \in 0 .. MaxFaults, n < MaxFaults
  PROVE  n + 1 \in 0 .. MaxFaults
BY FaultsAssumption

\* Whatever a call makes of a task, it is a task with the same id.
LEMMA OutcomesTyped ==
  ASSUME NEW w \in Workers, NEW kind \in Kinds, NEW t \in Stored,
         NEW u \in Outcomes(w, kind, t)
  PROVE  u \in Stored /\ u.id = t.id
<1> DEFINE d == Dict(t)
<1>1. CASE kind = "claim"
  <2>1. u = [t EXCEPT !.status = "in_progress", !.owner = w]
    BY <1>1 DEF Outcomes, Claimed
  <2> QED BY <2>1 DEF Stored, Statuses
<1>2. CASE kind = "transition"
  <2>1. \E to \in Targets : u = [t EXCEPT !.status = to]
    BY <1>2 DEF Outcomes
  <2> QED BY <2>1, TargetsAssumption DEF Stored
<1>3. CASE kind = "release"
  <2>1. u = [t EXCEPT !.status = "pending", !.owner = Nobody]
    BY <1>3 DEF Outcomes, Unclaimed, NewTask
  <2> QED BY <2>1 DEF Stored, Statuses
<1>4. CASE kind = "update"
  BY <1>4 DEF Outcomes
<1> QED BY <1>1, <1>2, <1>3, <1>4 DEF Kinds

\* A change of one task leaves a list of tasks with the ids it had.
LEMMA ChangedList ==
  ASSUME TypeOK, NEW w \in Workers, Changes(w)
  PROVE  \E l \in Seq(Stored) :
           /\ TakesList(w, l) /\ pc[w] = "idle" /\ tasks # Torn /\ tasks \in Seq(Stored)
           /\ Len(l) = Len(tasks)
           /\ \A j \in 1 .. Len(tasks) : l[j].id = tasks[j].id
           /\ UNCHANGED <<tasks, next_id, num, faults>>
<1>1. PICK kind \in Kinds, k \in DOMAIN tasks : Change(w, kind, k)
  BY DEF Changes
<1>2. tasks \in Seq(Stored) /\ tasks # Torn
  BY DEF TypeOK, Changes
<1>3. PICK t \in Outcomes(w, kind, tasks[k]) : TakesList(w, [tasks EXCEPT ![k] = t])
  BY <1>1 DEF Change
<1>4. k \in 1 .. Len(tasks) /\ tasks[k] \in Stored
  BY <1>2
<1>5. t \in Stored /\ t.id = tasks[k].id
  BY <1>4, OutcomesTyped
<1> DEFINE l == [tasks EXCEPT ![k] = t]
<1>6. /\ l \in Seq(Stored) /\ Len(l) = Len(tasks)
      /\ \A j \in 1 .. Len(tasks) : l[j] = IF j = k THEN t ELSE tasks[j]
  BY <1>2, <1>4, <1>5, ExceptSeq
<1>7. \A j \in 1 .. Len(tasks) : l[j].id = tasks[j].id
  BY <1>5, <1>6
<1> QED BY <1>1, <1>2, <1>3, <1>6, <1>7 DEF Change

\* What create_task appends to the list it has read.
Fresh(w) == [id |-> num[w], status |-> "pending", owner |-> Nobody]

LEMMA CreatedList ==
  ASSUME StoreTyped, NEW w \in Workers, pc[w] = "read", tasks # Torn
  PROVE  /\ tasks \in Seq(Stored)
         /\ Append(tasks, Fresh(w)) \in Seq(Stored)
         /\ Len(Append(tasks, Fresh(w))) = Len(tasks) + 1
         /\ Append(tasks, Fresh(w))[Len(tasks) + 1].id = num[w]
         /\ \A j \in 1 .. Len(tasks) : Append(tasks, Fresh(w))[j] = tasks[j]
<1>1. num[w] \in Ids
  BY NumberTyped DEF StoreTyped, Numbers, Creating
<1>2. Fresh(w) \in Stored /\ Fresh(w).id = num[w]
  BY <1>1 DEF Fresh, Stored, Statuses
<1>3. tasks \in Seq(Stored)
  BY DEF StoreTyped, TypeOK
<1> QED BY <1>2, <1>3, AppendProperties

LEMMA InitTyped == Init => StoreTyped
BY TasksAssumption, FaultsAssumption, EmptySeq
DEF Init, StoreTyped, TypeOK, Numbers, Creating, Ids, Locations

LEMMA TypedStep == StoreTyped /\ [Next]_vars => StoreTyped'
<1> SUFFICES ASSUME StoreTyped, [Next]_vars PROVE StoreTyped'
  OBVIOUS
<1>0. <<>> \in Seq(Stored) /\ 0 \in 0 .. MaxTasks
  BY EmptySeq, TasksAssumption
<1> USE DEF StoreTyped, TypeOK, Numbers, Creating, Goto, Locations
<1>1. ASSUME NEW w \in Workers, ReadConfig(w) PROVE StoreTyped'
  <2>1. next_id \in Ids /\ next_id <= MaxTasks
    BY <1>1 DEF ReadConfig, TakesNumber, RoomLeft
  <2>2. next_id \in 0 .. MaxTasks /\ next_id # 0
    BY <2>1, RoomForNumber
  <2> QED BY <1>1, <2>1, <2>2 DEF ReadConfig, TakesNumber
<1>2. ASSUME NEW w \in Workers, Create(w) PROVE StoreTyped'
  <2>1. CASE tasks = Torn
    BY <1>0, <1>2, <2>1 DEF Create, Return
  <2>2. CASE tasks # Torn
    <3>1. Append(tasks, Fresh(w)) \in Seq(Stored)
      BY <1>2, <2>2, CreatedList DEF Create
    <3>2. TakesList(w, Append(tasks, Fresh(w))) /\ UNCHANGED <<num, tasks, next_id, faults>>
      BY <1>2, <2>2 DEF Create, Fresh
    <3> HIDE DEF Fresh
    <3> QED BY <3>1, <3>2 DEF TakesList
  <2> QED BY <2>1, <2>2
<1>3. ASSUME NEW w \in Workers, Changes(w) PROVE StoreTyped'
  <2>1. PICK l \in Seq(Stored) :
          TakesList(w, l) /\ pc[w] = "idle" /\ UNCHANGED <<tasks, next_id, num, faults>>
    BY <1>3, ChangedList
  <2> QED BY <2>1 DEF TakesList
<1>4. ASSUME NEW w \in Workers, Open(w) PROVE StoreTyped'
  BY <1>4 DEF Open
<1>5. ASSUME NEW w \in Workers, Write(w) PROVE StoreTyped'
  <2>1. /\ tasks' = Torn \/ tasks' \in Seq(Stored)
        /\ UNCHANGED <<next_id, faults, overlaps>>
        /\ list' = [list EXCEPT ![w] = <<>>]
    <3>1. tasks' = list[w] \/ tasks' = Torn
      BY <1>5 DEF Write, Overwrite
    <3>2. list[w] \in Seq(Stored)
      OBVIOUS
    <3>3. list' = [list EXCEPT ![w] = <<>>] /\ UNCHANGED <<next_id, faults, overlaps>>
      BY <1>5 DEF Write, Return
    <3> QED BY <3>1, <3>2, <3>3
  <2>2. CASE num[w] # 0 /\ pc' = [pc EXCEPT ![w] = "open config"] /\ num' = num
    BY <1>0, <2>1, <2>2
  <2>3. CASE pc' = [pc EXCEPT ![w] = "idle"] /\ num' = [num EXCEPT ![w] = 0]
    BY <1>0, <2>1, <2>3
  <2> QED BY <1>5, <2>2, <2>3 DEF Write, Return
<1>6. ASSUME NEW w \in Workers, OpenConfig(w) PROVE StoreTyped'
  BY <1>6 DEF OpenConfig
<1>7. ASSUME NEW w \in Workers, WriteConfig(w) PROVE StoreTyped'
  <2>1. num[w] + 1 \in Ids
    BY NumberTyped
  <2> QED BY <1>0, <1>7, <2>1 DEF WriteConfig, Return
<1>8. ASSUME NEW w \in Workers, Crash(w) PROVE StoreTyped'
  <2>1. faults' \in 0 .. MaxFaults
    BY <1>8, RoomForFault DEF Crash
  <2> QED BY <1>0, <1>8, <2>1 DEF Crash, Return
<1>9. CASE UNCHANGED vars
  BY <1>9 DEF vars
<1> QED
  BY <1>1, <1>2, <1>3, <1>4, <1>5, <1>6, <1>7, <1>8, <1>9 DEF Next, Step

\* tasks.json, config.json and the copies the calls hold keep their type.
THEOREM StoreTypeCorrect == Spec => []TypeOK
<1>1. StoreTyped => TypeOK
  BY DEF StoreTyped
<1> QED BY <1>1, InitTyped, TypedStep, PTL DEF Spec

-----------------------------------------------------------------------------
(* A file that does not parse is being written: two calls that hold copies  *)
(* overlap, so that without overlaps the one that opened the file fills it. *)

WriterOwnsFile ==
  "lists" \notin overlaps =>
    /\ \A v, w \in Workers : HasList(v) /\ HasList(w) => v = w
    /\ \A w \in Workers : pc[w] = "write" => tasks = Torn
    /\ faults = 0 /\ tasks = Torn => \E w \in Workers : pc[w] = "write"

LEMMA EmptyParses == <<>> # Torn
BY TornAssumption, EmptySeq

LEMMA WriterStep ==
  ASSUME StoreTyped, WriterOwnsFile, [Next]_vars
  PROVE  WriterOwnsFile'
<1> USE DEF WriterOwnsFile, HasList
<1>0. /\ pc \in [Workers -> Locations] /\ list \in [Workers -> Seq(Stored)]
      /\ faults \in Nat /\ tasks \in {Torn} \cup Seq(Stored)
  BY FaultsAssumption DEF StoreTyped, TypeOK
<1>1. ASSUME NEW w \in Workers, NEW l, TakesList(w, l), ~HasList(w),
             UNCHANGED <<tasks, faults>>
      PROVE  WriterOwnsFile'
  <2>1. /\ pc' = [pc EXCEPT ![w] = "open"]
        /\ overlaps \subseteq overlaps'
        /\ "lists" \notin overlaps' => \A v \in Workers : ~HasList(v)
    BY <1>1 DEF TakesList, Goto
  <2> QED BY <1>0, <1>1, <2>1
<1>2. ASSUME NEW w \in Workers, ReadConfig(w) PROVE WriterOwnsFile'
  <2>1. /\ pc' = [pc EXCEPT ![w] = "read"] /\ pc[w] = "idle"
        /\ "lists" \in overlaps => "lists" \in overlaps'
        /\ tasks' = tasks /\ faults' = faults
    BY <1>2 DEF ReadConfig, TakesNumber, Goto
  <2> QED BY <1>0, <2>1
<1>3. ASSUME NEW w \in Workers, Create(w) PROVE WriterOwnsFile'
  <2>1. CASE tasks = Torn
    BY <1>0, <1>3, <2>1 DEF Create, Return, Goto
  <2>2. CASE tasks # Torn
    BY <1>1, <1>3, <2>2 DEF Create
  <2> QED BY <2>1, <2>2
<1>4. ASSUME NEW w \in Workers, Changes(w) PROVE WriterOwnsFile'
  <2>1. PICK l : TakesList(w, l) /\ pc[w] = "idle" /\ UNCHANGED <<tasks, faults>>
    BY <1>4, ChangedList DEF StoreTyped
  <2> QED BY <1>1, <2>1
<1>5. ASSUME NEW w \in Workers, Open(w) PROVE WriterOwnsFile'
  BY <1>0, <1>5 DEF Open, Goto
<1>6. ASSUME NEW w \in Workers, Write(w) PROVE WriterOwnsFile'
  <2>1. /\ \E to \in {"idle", "open config"} : pc' = [pc EXCEPT ![w] = to]
        /\ pc[w] = "write" /\ UNCHANGED <<faults, overlaps>>
    BY <1>6 DEF Write, Return, Goto
  <2>2. "lists" \notin overlaps => tasks' # Torn
    BY <1>0, <1>6, TornAssumption DEF Write, Overwrite
  <2> QED BY <1>0, <2>1, <2>2
<1>7. ASSUME NEW w \in Workers, OpenConfig(w) \/ WriteConfig(w) PROVE WriterOwnsFile'
  <2>1. /\ \E to \in {"idle", "write config"} : pc' = [pc EXCEPT ![w] = to]
        /\ pc[w] \in {"open config", "write config"}
        /\ UNCHANGED <<tasks, faults, overlaps>>
    BY <1>7 DEF OpenConfig, WriteConfig, Return, Goto
  <2> QED BY <1>0, <2>1
<1>8. ASSUME NEW w \in Workers, Crash(w) PROVE WriterOwnsFile'
  <2>1. faults' # 0
    BY <1>0, <1>8 DEF Crash
  <2> QED BY <1>0, <1>8, <2>1 DEF Crash, Return, Goto
<1>9. CASE UNCHANGED vars
  BY <1>9 DEF vars
<1> QED
  BY <1>2, <1>3, <1>4, <1>5, <1>6, <1>7, <1>8, <1>9 DEF Next, Step

LEMMA WriterStart == Init => WriterOwnsFile
BY EmptyParses DEF Init, WriterOwnsFile, HasList

\* Unless two calls held copies or a process was killed, tasks.json parses whenever no
\* call is filling it (state/io.py 70-83).
THEOREM ReadableTheorem == Spec => []Readable
<1>1. WriterOwnsFile => Readable
  BY DEF WriterOwnsFile, Readable
<1> QED BY <1>1, WriterStart, WriterStep, InitTyped, TypedStep, PTL DEF Spec

-----------------------------------------------------------------------------
(* The counter trails the list: whatever number it may reach from what the  *)
(* calls have read has its task in the list, and in every copy of the list. *)

Positive == Nat \ {0}

\* the numbers that are, or will without a further task be, below next_task_id
Reached(n) ==
  \/ next_id # Torn /\ n < next_id
  \/ \E w \in Workers : n < num[w]
  \/ \E w \in Workers : pc[w] \in {"open config", "write config"} /\ n = num[w]

Covered(l) == \A n \in Positive : Reached(n) => n \in IdsOf(l)

CounterInv ==
  "lists" \notin overlaps =>
    /\ tasks # Torn => Covered(tasks)
    /\ \A v \in Workers : HasList(v) =>
         Covered(list[v]) /\ (Creating(v) => num[v] \in IdsOf(list[v]))

LEMMA CounterStep ==
  ASSUME StoreTyped, WriterOwnsFile, CounterInv, [Next]_vars
  PROVE  CounterInv'
<1>0. /\ pc \in [Workers -> Locations] /\ list \in [Workers -> Seq(Stored)]
      /\ num \in [Workers -> Nat] /\ next_id \in Nat \cup {Torn}
      /\ tasks \in {Torn} \cup Seq(Stored)
      /\ Torn \notin Nat
  <2>1. Ids \subseteq Nat /\ 0 .. MaxTasks \subseteq Nat
    BY TasksAssumption DEF Ids
  <2>2. num \in [Workers -> Nat] /\ next_id \in Nat \cup {Torn}
    BY <2>1 DEF StoreTyped, TypeOK, Numbers
  <2> QED BY <2>2, TornAssumption DEF StoreTyped, TypeOK
<1> DEFINE Narrows == \A n \in Positive : Reached(n)' => Reached(n)
<1>a. ASSUME Narrows, UNCHANGED tasks, "lists" \in overlaps => "lists" \in overlaps',
             \A v \in Workers : HasList(v)' =>
               HasList(v) /\ list'[v] = list[v] /\ num'[v] = num[v]
      PROVE  CounterInv'
  BY <1>a DEF CounterInv, Covered, IdsOf, Creating
<1>b. ASSUME NEW w \in Workers, NEW l \in Seq(Stored), TakesList(w, l), ~HasList(w),
             tasks # Torn, IdsOf(tasks) \subseteq IdsOf(l), Narrows,
             Creating(w) => num[w] \in IdsOf(l), UNCHANGED <<tasks, num>>
      PROVE  CounterInv'
  <2>1. /\ pc' = [pc EXCEPT ![w] = "open"] /\ list' = [list EXCEPT ![w] = l]
        /\ overlaps \subseteq overlaps'
        /\ "lists" \notin overlaps' => \A v \in Workers : ~HasList(v)
    BY <1>b DEF TakesList, Goto
  <2>2. "lists" \notin overlaps' => \A v \in Workers : HasList(v)' => v = w
    BY <1>0, <2>1 DEF HasList
  <2>3. "lists" \notin overlaps' => Covered(tasks)'
    BY <1>b, <2>1 DEF CounterInv, Covered, IdsOf
  <2>4. "lists" \notin overlaps' => Covered(list[w])'
    <3>1. list'[w] = l
      BY <1>0, <2>1
    <3> QED BY <1>b, <2>3, <3>1 DEF Covered, IdsOf
  <2> QED BY <1>0, <1>b, <2>1, <2>2, <2>3, <2>4 DEF CounterInv, IdsOf, Creating
<1>1. ASSUME NEW w \in Workers, ReadConfig(w) PROVE CounterInv'
  <2>1. /\ pc' = [pc EXCEPT ![w] = "read"] /\ pc[w] = "idle"
        /\ num' = [num EXCEPT ![w] = next_id] /\ next_id # Torn
        /\ "lists" \in overlaps => "lists" \in overlaps'
        /\ UNCHANGED <<tasks, list, next_id>>
    BY <1>1 DEF ReadConfig, TakesNumber, Goto
  <2>2. Narrows
    BY <1>0, <2>1 DEF Reached, Positive
  <2> QED BY <1>0, <1>a, <2>1, <2>2 DEF HasList
<1>2. ASSUME NEW w \in Workers, pc' = [pc EXCEPT ![w] = "idle"],
             num' = [num EXCEPT ![w] = 0], list' = [list EXCEPT ![w] = <<>>],
             \/ next_id' = next_id
             \/ next_id' = num[w] + 1 /\ pc[w] = "write config",
             UNCHANGED <<tasks, overlaps>>
      PROVE  CounterInv'
  <2>1. Narrows
    <3> SUFFICES ASSUME NEW n \in Positive, Reached(n)' PROVE Reached(n)
      OBVIOUS
    <3>0. n \in Nat /\ n # 0 /\ num[w] \in Nat
      BY <1>0 DEF Positive
    <3>1. CASE next_id' # Torn /\ n < next_id'
      <4>1. CASE next_id' = next_id
        BY <3>1, <4>1 DEF Reached
      <4>2. CASE next_id' = num[w] + 1 /\ pc[w] = "write config"
        <5>0. n < num[w] + 1
          BY <3>1, <4>2
        <5>1. n < num[w] \/ n = num[w]
          BY <3>0, <5>0
        <5> QED BY <4>2, <5>1 DEF Reached
      <4> QED BY <1>2, <4>1, <4>2
    <3>2. ASSUME NEW v \in Workers, n < num'[v] PROVE Reached(n)
      <4>1. v # w
        <5>1. num'[w] = 0
          BY <1>0, <1>2
        <5>2. ~(n < 0)
          BY <3>0
        <5> QED BY <3>2, <5>1, <5>2
      <4>2. n < num[v]
        BY <1>0, <1>2, <3>2, <4>1
      <4> QED BY <4>2 DEF Reached
    <3>3. ASSUME NEW v \in Workers, pc'[v] \in {"open config", "write config"}, n = num'[v]
          PROVE  Reached(n)
      <4>1. v # w
        BY <1>0, <1>2, <3>3
      <4>2. pc[v] \in {"open config", "write config"} /\ n = num[v]
        BY <1>0, <1>2, <3>3, <4>1
      <4> QED BY <4>2 DEF Reached
    <3> QED BY <3>1, <3>2, <3>3 DEF Reached
  <2> QED BY <1>0, <1>2, <1>a, <2>1 DEF HasList
<1>3. ASSUME NEW w \in Workers, Create(w) PROVE CounterInv'
  <2>1. CASE tasks = Torn
    BY <1>2, <1>3, <2>1 DEF Create, Return, Goto
  <2>2. CASE tasks # Torn
    <3> DEFINE l == Append(tasks, Fresh(w))
    <3>1. TakesList(w, l) /\ pc[w] = "read" /\ UNCHANGED <<tasks, num, next_id>>
      BY <1>3, <2>2 DEF Create, Fresh
    <3>2. /\ tasks \in Seq(Stored) /\ l \in Seq(Stored) /\ Len(l) = Len(tasks) + 1
          /\ l[Len(tasks) + 1].id = num[w]
          /\ \A j \in 1 .. Len(tasks) : l[j] = tasks[j]
      BY <2>2, <3>1, CreatedList
    <3> HIDE DEF l
    <3>3. num[w] \in IdsOf(l) /\ IdsOf(tasks) \subseteq IdsOf(l)
      BY <3>2 DEF IdsOf
    <3>4. Narrows
      BY <1>0, <3>1 DEF Reached, TakesList, Goto
    <3> QED BY <1>0, <1>b, <2>2, <3>1, <3>2, <3>3, <3>4 DEF HasList
  <2> QED BY <2>1, <2>2
<1>4. ASSUME NEW w \in Workers, Changes(w) PROVE CounterInv'
  <2>1. PICK l \in Seq(Stored) :
           /\ TakesList(w, l) /\ pc[w] = "idle" /\ tasks # Torn /\ tasks \in Seq(Stored)
           /\ Len(l) = Len(tasks)
           /\ \A j \in 1 .. Len(tasks) : l[j].id = tasks[j].id
           /\ UNCHANGED <<tasks, next_id, num, faults>>
    BY <1>4, ChangedList DEF StoreTyped
  <2>2. IdsOf(tasks) \subseteq IdsOf(l)
    BY <2>1 DEF IdsOf
  <2>3. Narrows
    BY <1>0, <2>1 DEF Reached, TakesList, Goto
  <2>4. ~Creating(w)
    BY <2>1 DEF StoreTyped, Numbers
  <2> QED BY <1>0, <1>b, <2>1, <2>2, <2>3, <2>4 DEF HasList
<1>5. ASSUME NEW w \in Workers, Open(w) PROVE CounterInv'
  <2>1. /\ pc' = [pc EXCEPT ![w] = "write"] /\ pc[w] = "open" /\ tasks' = Torn
        /\ UNCHANGED <<next_id, list, num, overlaps>>
    BY <1>5 DEF Open, Goto
  <2>2. Narrows
    BY <1>0, <2>1 DEF Reached
  <2> QED BY <1>0, <2>1, <2>2 DEF CounterInv, Covered, IdsOf, Creating, HasList
<1>6. ASSUME NEW w \in Workers, Write(w) PROVE CounterInv'
  <2> SUFFICES ASSUME "lists" \notin overlaps' PROVE CounterInv'
    BY DEF CounterInv
  <2>1. "lists" \notin overlaps /\ pc[w] = "write" /\ next_id' = next_id
    BY <1>6 DEF Write
  <2>2. tasks = Torn /\ \A v \in Workers : HasList(v) => v = w
    BY <2>1 DEF WriterOwnsFile, HasList
  <2>3. tasks' = list[w]
    BY <1>6, <2>2 DEF Write, Overwrite
  <2>4. \E to \in {"idle", "open config"} : pc' = [pc EXCEPT ![w] = to]
    BY <1>6 DEF Write, Return, Goto
  <2>5. \A v \in Workers : ~HasList(v)'
    BY <1>0, <2>2, <2>4 DEF HasList
  <2>6. \A n \in Positive : Reached(n)' => Reached(n) \/ (Creating(w) /\ n = num[w])
    <3>1. num' = num
      <4>1. CASE Creating(w)
        BY <1>6, <4>1 DEF Write
      <4>2. CASE ~Creating(w)
        BY <1>0, <1>6, <4>2 DEF Write, Return, Creating
      <4> QED BY <4>1, <4>2
    <3>2. pc'[w] = "open config" => Creating(w)
      BY <1>0, <1>6 DEF Write, Return, Goto
    <3>3. ASSUME NEW n \in Positive, NEW v \in Workers,
                 pc'[v] \in {"open config", "write config"}, n = num[v]
          PROVE  Reached(n) \/ (Creating(w) /\ n = num[w])
      <4>1. CASE v = w
        BY <1>0, <2>4, <3>2, <3>3, <4>1
      <4>2. CASE v # w
        BY <1>0, <2>4, <3>3, <4>2 DEF Reached
      <4> QED BY <4>1, <4>2
    <3> QED BY <2>1, <3>1, <3>3 DEF Reached
  <2>7. HasList(w)
    BY <2>1 DEF HasList
  <2>8. Covered(tasks)'
    BY <2>1, <2>3, <2>6, <2>7 DEF CounterInv, Covered, IdsOf
  <2> QED BY <2>5, <2>8 DEF CounterInv
<1>7. ASSUME NEW w \in Workers, OpenConfig(w) PROVE CounterInv'
  <2>1. /\ pc' = [pc EXCEPT ![w] = "write config"] /\ pc[w] = "open config"
        /\ next_id' = Torn /\ UNCHANGED <<tasks, list, num, overlaps>>
    BY <1>7 DEF OpenConfig, Goto
  <2>2. Narrows
    BY <1>0, <2>1 DEF Reached
  <2> QED BY <1>0, <1>a, <2>1, <2>2 DEF HasList
<1>8. ASSUME NEW w \in Workers, WriteConfig(w) PROVE CounterInv'
  BY <1>2, <1>8 DEF WriteConfig, Return, Goto
<1>9. ASSUME NEW w \in Workers, Crash(w) PROVE CounterInv'
  BY <1>2, <1>9 DEF Crash, Return, Goto
<1>10. CASE UNCHANGED vars
  BY <1>10, <1>a DEF vars, Reached, HasList
<1> QED
  BY <1>1, <1>3, <1>4, <1>5, <1>6, <1>7, <1>8, <1>9, <1>10 DEF Next, Step

LEMMA CounterStart == Init => CounterInv
BY DEF Init, CounterInv, Covered, Reached, Positive, HasList

\* Kills and overlapping create_tasks or not, every number below next_task_id has its
\* task, unless two calls held copies of the list at once (tasks.py 73-78).
THEOREM CounterTheorem == Spec => []CounterTrails
<1>1. StoreTyped /\ CounterInv => CounterTrails
  <2> SUFFICES ASSUME StoreTyped, CounterInv, "lists" \notin overlaps, tasks # Torn,
                      next_id # Torn, NEW n \in 1 .. next_id - 1
               PROVE  n \in IdsOf(tasks)
    BY DEF CounterTrails
  <2>1. next_id \in Nat
    BY TasksAssumption DEF StoreTyped, TypeOK, Ids
  <2>2. n \in Positive /\ n < next_id
    BY <2>1 DEF Positive
  <2> QED BY <2>2 DEF CounterInv, Covered, Reached
<1> QED
  BY <1>1, CounterStart, CounterStep, WriterStart, WriterStep, InitTyped, TypedStep, PTL
  DEF Spec

-----------------------------------------------------------------------------
(* While one create_task at a time draws a number, the number it has drawn  *)
(* is new to the list and to every copy of it.                              *)

\* the numbers a task may have already
Known ==
  {n \in Nat :
     \/ next_id # Torn /\ n < next_id
     \/ \E w \in Workers : pc[w] \in {"open config", "write config"} /\ n <= num[w]}

Distinct(l) == \A j, k \in DOMAIN l : l[j].id = l[k].id => j = k

OneCreator ==
  /\ \A v, w \in Workers : Creating(v) /\ Creating(w) => v = w
  /\ next_id = Torn => \E w \in Workers : pc[w] = "write config"
  /\ \A w \in Workers : pc[w] = "write config" => next_id = Torn
  /\ \A w \in Workers : Creating(w) /\ pc[w] # "write config" => next_id = num[w]

Numbered ==
  /\ tasks # Torn => Distinct(tasks) /\ \A k \in DOMAIN tasks : tasks[k].id \in Known
  /\ \A v \in Workers : HasList(v) =>
       /\ Distinct(list[v])
       /\ \A k \in DOMAIN list[v] :
            list[v][k].id \in Known \/ (Creating(v) /\ list[v][k].id = num[v])

\* overlapping create_tasks and kills end the claim
Ordered == "creates" \notin overlaps /\ faults = 0

UniqueInv == Ordered => OneCreator /\ Numbered

LEMMA OrderedBefore ==
  ASSUME StoreTyped, [Next]_vars, Ordered'
  PROVE  Ordered
<1>0. faults \in Nat
  BY FaultsAssumption DEF StoreTyped, TypeOK
<1>1. ASSUME NEW w \in Workers, Step(w) PROVE Ordered
  <2>1. faults' = faults \/ faults' = faults + 1
    BY <1>1 DEF Step, ReadConfig, TakesNumber, Create, Changes, Change, Open, Write,
       OpenConfig, WriteConfig, Crash
  <2>2. overlaps \subseteq overlaps'
    BY <1>1 DEF Step, ReadConfig, TakesNumber, Create, Changes, Change, TakesList, Open,
       Write, OpenConfig, WriteConfig, Crash
  <2> QED BY <1>0, <2>1, <2>2 DEF Ordered
<1>2. CASE UNCHANGED vars
  BY <1>2 DEF vars, Ordered
<1> QED BY <1>1, <1>2 DEF Next

LEMMA UniqueStep ==
  ASSUME StoreTyped, UniqueInv, [Next]_vars
  PROVE  UniqueInv'
<1> SUFFICES ASSUME Ordered' PROVE OneCreator' /\ Numbered'
  BY DEF UniqueInv
<1>0. /\ pc \in [Workers -> Locations] /\ list \in [Workers -> Seq(Stored)]
      /\ num \in [Workers -> Nat] /\ next_id \in Nat \cup {Torn}
      /\ tasks \in {Torn} \cup Seq(Stored)
      /\ Torn \notin Nat
  <2>1. Ids \subseteq Nat /\ 0 .. MaxTasks \subseteq Nat
    BY TasksAssumption DEF Ids
  <2>2. num \in [Workers -> Nat] /\ next_id \in Nat \cup {Torn}
    BY <2>1 DEF StoreTyped, TypeOK, Numbers
  <2> QED BY <2>2, TornAssumption DEF StoreTyped, TypeOK
<1>u. Ordered /\ OneCreator /\ Numbered
  BY OrderedBefore DEF UniqueInv
<1>n. Numbers /\ \A i \in Ids : i \in Nat
  BY TasksAssumption DEF StoreTyped, Ids
<1> DEFINE Widens == Known \subseteq Known'
           Gone(w) == /\ pc' = [pc EXCEPT ![w] = "idle"] /\ num' = [num EXCEPT ![w] = 0]
                      /\ list' = [list EXCEPT ![w] = <<>>]
<1>i. /\ tasks # Torn => \A k \in DOMAIN tasks : tasks[k].id \in Nat
      /\ \A v \in Workers : \A k \in DOMAIN list[v] : list[v][k].id \in Nat
  <2>1. ASSUME NEW l \in Seq(Stored), NEW k \in DOMAIN l PROVE l[k].id \in Nat
    <3>1. l[k] \in Stored
      BY <2>1
    <3> QED BY <3>1, <1>n DEF Stored
  <2> QED BY <1>0, <2>1
\* what is left of Numbered when no list changes
<1>a. ASSUME Widens, UNCHANGED tasks \/ tasks' = Torn,
             \A v \in Workers : HasList(v)' =>
               HasList(v) /\ list'[v] = list[v] /\ num'[v] = num[v]
      PROVE  Numbered'
  <2>1. tasks' # Torn => Distinct(tasks') /\ \A k \in DOMAIN tasks' : tasks'[k].id \in Known'
    BY <1>a, <1>i, <1>u DEF Numbered
  <2>2. ASSUME NEW v \in Workers, HasList(v)'
        PROVE  /\ Distinct(list'[v])
               /\ \A k \in DOMAIN list'[v] :
                   list'[v][k].id \in Known' \/ (num'[v] # 0 /\ list'[v][k].id = num'[v])
    BY <1>a, <1>i, <1>u, <2>2 DEF Numbered, Creating
  <2> QED BY <2>1, <2>2 DEF Numbered, Distinct, Creating
\* or when one call takes a copy
<1>b. ASSUME NEW w \in Workers, NEW l \in Seq(Stored), TakesList(w, l), Distinct(l),
             \A k \in DOMAIN l : l[k].id \in Known \/ (Creating(w) /\ l[k].id = num[w]),
             Widens, UNCHANGED <<tasks, num>>
      PROVE  Numbered'
  <2>1. pc' = [pc EXCEPT ![w] = "open"] /\ list' = [list EXCEPT ![w] = l]
    BY <1>b DEF TakesList, Goto
  <2>2. tasks' # Torn => Distinct(tasks') /\ \A k \in DOMAIN tasks' : tasks'[k].id \in Known'
    BY <1>b, <1>i, <1>u DEF Numbered
  <2>3. \A k \in DOMAIN l : l[k].id \in Nat
    <3>1. ASSUME NEW k \in DOMAIN l PROVE l[k] \in Stored
      OBVIOUS
    <3> QED BY <3>1, <1>n DEF Stored
  <2>4. ASSUME NEW v \in Workers, HasList(v)'
        PROVE  /\ Distinct(list'[v])
               /\ \A k \in DOMAIN list'[v] :
                   list'[v][k].id \in Known' \/ (num'[v] # 0 /\ list'[v][k].id = num'[v])
    <3>1. CASE v = w
      BY <1>0, <1>b, <2>1, <2>3, <3>1 DEF Creating
    <3>2. CASE v # w
      <4>1. HasList(v) /\ list'[v] = list[v]
        BY <1>0, <2>1, <2>4, <3>2 DEF HasList
      <4> QED BY <1>b, <1>i, <1>u, <4>1 DEF Numbered, Creating
    <3> QED BY <3>1, <3>2
  <2> QED BY <2>2, <2>4 DEF Numbered, Distinct, Creating
<1>1. ASSUME NEW w \in Workers, ReadConfig(w) PROVE OneCreator' /\ Numbered'
  <2>1. /\ pc' = [pc EXCEPT ![w] = "read"] /\ pc[w] = "idle"
        /\ num' = [num EXCEPT ![w] = next_id] /\ next_id # Torn
        /\ UNCHANGED <<tasks, list, next_id>>
        /\ "creates" \notin overlaps' => \A v \in Workers : ~Creating(v)
    BY <1>1 DEF ReadConfig, TakesNumber, Goto
  <2>2. \A v \in Workers : ~Creating(v)
    BY <2>1 DEF Ordered
  <2>3. Widens
    BY <1>0, <1>n, <2>1, <2>2 DEF Known, Numbers
  <2>4. OneCreator'
    BY <1>0, <1>u, <2>1, <2>2 DEF OneCreator, Creating
  <2> QED BY <1>0, <1>a, <2>1, <2>3, <2>4 DEF HasList
\* a call that is refused, or ends without having created
<1>2. ASSUME NEW w \in Workers, Gone(w), next_id' = next_id, UNCHANGED tasks,
             pc[w] = "read"
      PROVE  OneCreator' /\ Numbered'
  <2>1. Widens
    <3> SUFFICES ASSUME NEW n \in Known PROVE n \in Known'
      OBVIOUS
    <3>0. n \in Nat
      BY DEF Known
    <3>1. ASSUME NEW v \in Workers, pc[v] \in {"open config", "write config"}, n <= num[v]
          PROVE  pc'[v] \in {"open config", "write config"} /\ n <= num'[v]
      BY <1>0, <1>2, <3>1
    <3> QED BY <1>2, <3>1 DEF Known
  <2>2. OneCreator'
    BY <1>0, <1>2, <1>u DEF OneCreator, Creating
  <2> QED BY <1>0, <1>2, <1>a, <2>1, <2>2 DEF HasList
<1>3. ASSUME NEW w \in Workers, Create(w) PROVE OneCreator' /\ Numbered'
  <2>1. CASE tasks = Torn
    BY <1>2, <1>3, <2>1 DEF Create, Return, Goto
  <2>2. CASE tasks # Torn
    <3> DEFINE l == Append(tasks, Fresh(w))
    <3>1. TakesList(w, l) /\ pc[w] = "read" /\ UNCHANGED <<tasks, num, next_id>>
      BY <1>3, <2>2 DEF Create, Fresh
    <3>2. /\ tasks \in Seq(Stored) /\ l \in Seq(Stored) /\ Len(l) = Len(tasks) + 1
          /\ l[Len(tasks) + 1].id = num[w]
          /\ \A j \in 1 .. Len(tasks) : l[j] = tasks[j]
      BY <2>2, <3>1, CreatedList
    <3>3. Creating(w) /\ next_id = num[w] /\ next_id \in Nat
      BY <1>0, <1>n, <1>u, <3>1 DEF Numbers, OneCreator
    <3>4. num[w] \notin Known
      <4>1. \A v \in Workers : pc[v] \in {"open config", "write config"} => v = w
        BY <1>n, <1>u, <3>3 DEF Numbers, OneCreator
      <4>2. \A v \in Workers : pc[v] \notin {"open config", "write config"}
        BY <3>1, <4>1
      <4>3. ~(next_id < num[w])
        BY <3>3
      <4> QED BY <3>3, <4>2, <4>3 DEF Known
    <3> HIDE DEF l
    <3>5. \A j \in 1 .. Len(tasks) : l[j].id # num[w] /\ l[j].id \in Known
      BY <1>u, <2>2, <3>2, <3>4 DEF Numbered
    <3>6. \A j \in DOMAIN l : j \in 1 .. Len(tasks) \/ j = Len(tasks) + 1
      BY <3>2
    <3>7. Distinct(tasks)
      BY <1>u, <2>2 DEF Numbered
    <3>8. Distinct(l)
      <4> SUFFICES ASSUME NEW j \in DOMAIN l, NEW k \in DOMAIN l, l[j].id = l[k].id
                   PROVE  j = k
        BY DEF Distinct
      <4>1. CASE j \in 1 .. Len(tasks) /\ k \in 1 .. Len(tasks)
        BY <3>2, <3>7, <4>1 DEF Distinct
      <4>2. CASE j = Len(tasks) + 1 \/ k = Len(tasks) + 1
        BY <3>2, <3>5, <3>6, <4>2
      <4> QED BY <3>6, <4>1, <4>2
    <3>9. Widens
      BY <1>0, <3>1 DEF Known, TakesList, Goto
    <3>10. OneCreator'
      BY <1>0, <1>u, <3>1 DEF OneCreator, Creating, TakesList, Goto
    <3>11. \A k \in DOMAIN l : l[k].id \in Known \/ (Creating(w) /\ l[k].id = num[w])
      BY <3>2, <3>3, <3>5, <3>6
    <3> QED BY <1>b, <3>1, <3>2, <3>8, <3>9, <3>10, <3>11
  <2> QED BY <2>1, <2>2
<1>4. ASSUME NEW w \in Workers, Changes(w) PROVE OneCreator' /\ Numbered'
  <2>1. PICK l \in Seq(Stored) :
           /\ TakesList(w, l) /\ pc[w] = "idle" /\ tasks # Torn /\ tasks \in Seq(Stored)
           /\ Len(l) = Len(tasks)
           /\ \A j \in 1 .. Len(tasks) : l[j].id = tasks[j].id
           /\ UNCHANGED <<tasks, next_id, num, faults>>
    BY <1>4, ChangedList DEF StoreTyped
  <2>2. Distinct(l) /\ \A k \in DOMAIN l : l[k].id \in Known
    BY <1>u, <2>1 DEF Numbered, Distinct
  <2>3. Widens
    BY <1>0, <2>1 DEF Known, TakesList, Goto
  <2>4. OneCreator'
    BY <1>0, <1>n, <1>u, <2>1 DEF OneCreator, Numbers, Creating, TakesList, Goto
  <2> QED BY <1>b, <2>1, <2>2, <2>3, <2>4
<1>5. ASSUME NEW w \in Workers, Open(w) PROVE OneCreator' /\ Numbered'
  <2>1. /\ pc' = [pc EXCEPT ![w] = "write"] /\ pc[w] = "open" /\ tasks' = Torn
        /\ UNCHANGED <<next_id, list, num, overlaps>>
    BY <1>5 DEF Open, Goto
  <2>2. Widens
    BY <1>0, <2>1 DEF Known
  <2>3. OneCreator'
    BY <1>0, <1>u, <2>1 DEF OneCreator, Creating
  <2> QED BY <1>0, <1>a, <2>1, <2>2, <2>3 DEF HasList
<1>6. ASSUME NEW w \in Workers, Write(w) PROVE OneCreator' /\ Numbered'
  <2>1. /\ pc[w] = "write" /\ next_id' = next_id /\ HasList(w)
        /\ tasks' = list[w] \/ tasks' = Torn
        /\ list' = [list EXCEPT ![w] = <<>>]
    BY <1>6 DEF Write, Overwrite, Return, HasList
  <2>2. /\ num' = num
        /\ \E to \in {"idle", "open config"} : pc' = [pc EXCEPT ![w] = to]
        /\ Creating(w) => pc'[w] = "open config"
    <3>1. CASE Creating(w)
      BY <1>0, <1>6, <3>1 DEF Write, Goto
    <3>2. CASE ~Creating(w)
      BY <1>0, <1>6, <3>2 DEF Write, Return, Goto, Creating
    <3> QED BY <3>1, <3>2
  <2>3. Known \subseteq Known'
    BY <1>0, <2>1, <2>2 DEF Known
  <2>4. OneCreator'
    BY <1>0, <1>u, <2>1, <2>2 DEF OneCreator, Creating
  <2>5. Creating(w) => num[w] \in Known'
    <3>1. num[w] \in Nat /\ num[w] <= num[w]
      BY <1>0
    <3> QED BY <2>2, <3>1 DEF Known
  <2>6. Distinct(list[w]) /\ \A k \in DOMAIN list[w] : list[w][k].id \in Known'
    BY <1>i, <1>u, <2>1, <2>3, <2>5 DEF Numbered
  <2>7. tasks' # Torn => Distinct(tasks') /\ \A k \in DOMAIN tasks' : tasks'[k].id \in Known'
    BY <2>1, <2>6
  <2>8. ASSUME NEW v \in Workers, HasList(v)'
        PROVE  /\ Distinct(list'[v])
               /\ \A k \in DOMAIN list'[v] :
                   list'[v][k].id \in Known' \/ (num'[v] # 0 /\ list'[v][k].id = num'[v])
    <3>1. v # w /\ HasList(v) /\ list'[v] = list[v]
      BY <1>0, <2>1, <2>2, <2>8 DEF HasList
    <3> QED BY <1>i, <1>u, <2>2, <2>3, <3>1 DEF Numbered, Creating
  <2> QED BY <2>4, <2>7, <2>8 DEF Numbered, Distinct, Creating
<1>7. ASSUME NEW w \in Workers, OpenConfig(w) PROVE OneCreator' /\ Numbered'
  <2>1. /\ pc' = [pc EXCEPT ![w] = "write config"] /\ pc[w] = "open config"
        /\ next_id' = Torn /\ UNCHANGED <<tasks, list, num, overlaps>>
    BY <1>7 DEF OpenConfig, Goto
  <2>2. next_id = num[w] /\ num[w] \in Nat
    BY <1>0, <1>n, <1>u, <2>1 DEF Numbers, OneCreator
  <2>3. Widens
    <3> SUFFICES ASSUME NEW n \in Known PROVE n \in Known'
      OBVIOUS
    <3>0. n \in Nat
      BY DEF Known
    <3>1. CASE n < next_id
      <4>1. n <= num[w]
        BY <2>2, <3>0, <3>1
      <4>2. num'[w] = num[w] /\ pc'[w] = "write config"
        BY <1>0, <2>1
      <4> QED BY <3>0, <4>1, <4>2 DEF Known
    <3>2. CASE \E v \in Workers : pc[v] \in {"open config", "write config"} /\ n <= num[v]
      BY <1>0, <2>1, <3>2 DEF Known
    <3> QED BY <3>1, <3>2 DEF Known
  <2>4. OneCreator'
    BY <1>0, <1>n, <1>u, <2>1 DEF OneCreator, Creating, Numbers
  <2> QED BY <1>0, <1>a, <2>1, <2>3, <2>4 DEF HasList
<1>8. ASSUME NEW w \in Workers, WriteConfig(w) PROVE OneCreator' /\ Numbered'
  <2>1. Gone(w) /\ pc[w] = "write config" /\ next_id' = num[w] + 1 /\ UNCHANGED tasks
    BY <1>8 DEF WriteConfig, Return, Goto
  <2>2. \A v \in Workers : Creating(v) => v = w
    BY <1>n, <1>u, <2>1 DEF Numbers, OneCreator
  <2>3. num[w] \in Nat /\ next_id' # Torn /\ num[w] # 0
    <3>1. num[w] \in Nat /\ num[w] # 0
      BY <1>0, <1>n, <2>1 DEF Numbers, Creating
    <3>2. num[w] + 1 \in Nat
      BY <3>1
    <3> QED BY <1>0, <2>1, <3>1, <3>2
  <2>5. next_id = Torn
    BY <1>u, <2>1 DEF OneCreator
  <2>6. Widens
    <3> SUFFICES ASSUME NEW n \in Known PROVE n \in Known'
      OBVIOUS
    <3>0. n \in Nat
      BY DEF Known
    <3>1. PICK v \in Workers : pc[v] \in {"open config", "write config"} /\ n <= num[v]
      BY <2>5 DEF Known
    <3>2. v = w
      BY <1>n, <2>2, <3>1 DEF Numbers
    <3>3. n < num[w] + 1
      <4>1. n <= num[w]
        BY <3>1, <3>2
      <4> QED BY <2>3, <3>0, <4>1
    <3> QED BY <2>1, <2>3, <3>0, <3>3 DEF Known
  <2>7. OneCreator'
    <3>1. \A v \in Workers : ~Creating(v)' /\ pc'[v] # "write config"
      BY <1>0, <1>n, <2>1, <2>2 DEF Numbers, Creating
    <3> QED BY <2>3, <3>1 DEF OneCreator
  <2> QED BY <1>0, <1>a, <2>1, <2>6, <2>7 DEF HasList
<1>9. ASSUME NEW w \in Workers, Crash(w) PROVE FALSE
  <2>1. faults \in Nat /\ faults' = faults + 1 /\ faults' = 0
    BY <1>9, FaultsAssumption DEF Crash, Ordered, StoreTyped, TypeOK
  <2> QED BY <2>1
<1>10. CASE UNCHANGED vars
  <2>1. UNCHANGED <<pc, num, list, tasks, next_id>>
    BY <1>10 DEF vars
  <2>2. Known' = Known
    BY <2>1 DEF Known
  <2>3. OneCreator'
    BY <1>u, <2>1 DEF OneCreator, Creating
  <2> QED BY <1>u, <2>1, <2>2, <2>3 DEF Numbered, HasList, Creating
<1> QED
  BY <1>1, <1>3, <1>4, <1>5, <1>6, <1>7, <1>8, <1>9, <1>10 DEF Next, Step

LEMMA UniqueStart == Init => UniqueInv
BY TornAssumption DEF Init, UniqueInv, OneCreator, Numbered, Distinct, Creating, HasList

\* No two tasks share an id, unless two create_tasks overlapped or a process was
\* killed, whatever other calls overlap (contracts.py 77, team_ops.py 189-196).
THEOREM UniqueTheorem == Spec => []UniqueIds
<1>1. UniqueInv => UniqueIds
  BY DEF UniqueInv, Ordered, Numbered, Distinct, UniqueIds
<1> QED BY <1>1, UniqueStart, UniqueStep, InitTyped, TypedStep, PTL DEF Spec

-----------------------------------------------------------------------------
(* TaskLease *)

USE NobodyAssumption, NoTokenAssumption

IInv == LeaseTypeOK /\ TokenIsPrivate

\* NoClaim is no claim: a claim's owner is a worker, NoClaim's is not.
LEMMA NoClaimIsNoClaim == NoClaim \notin Claims
BY DEF NoClaim, Claims

\* Inside the invariant the claim on the task is NoClaim or a real claim, whose
\* token exactly its owner holds.
LEMMA HolderOfToken ==
  ASSUME IInv, NEW w \in Workers, NEW t \in has[w] \cup {NoToken},
         task.claim # NoClaim, Authorizes(task, t)
  PROVE  w = task.claim.owner
<1>1. task.claim \in Claims
  BY DEF IInv, LeaseTypeOK, TaskStates
<1>2. task.claim.token \in Tokens
  BY <1>1 DEF Claims
<1>3. t = task.claim.token
  BY DEF Authorizes
<1>4. t \in has[w]
  BY <1>2, <1>3
<1> QED BY <1>3, <1>4 DEF IInv, TokenIsPrivate

LEMMA NewTaskTyped == NewTask \in TaskStates /\ NewTask.claim = NoClaim
BY DEF NewTask, TaskStates, Statuses

LEMMA Start == LeaseInit => IInv
BY NewTaskTyped DEF LeaseInit, IInv, LeaseTypeOK, TokenIsPrivate

LEMMA Kept == IInv /\ [LeaseNext]_leaseVars => IInv'
<1> SUFFICES ASSUME IInv, [LeaseNext]_leaseVars PROVE IInv'
  OBVIOUS
<1> USE DEF IInv, LeaseTypeOK
<1>1. ASSUME NEW w \in Workers, Claim(w) PROVE IInv'
  <2>1. PICK t \in Tokens \ Issued :
          /\ task' = Claimed(task, w, t)
          /\ has' = [has EXCEPT ![w] = @ \cup {t}]
    BY <1>1 DEF Claim
  <2>2. LeaseTypeOK'
    <3>1. task' \in TaskStates
      BY <2>1 DEF Claimed, TaskStates, Statuses, Claims
    <3>2. has' \in [Workers -> SUBSET Tokens]
      BY <2>1
    <3> QED BY <3>1, <3>2, <1>1 DEF Claim
  <2>3. \A v \in Workers : t \notin has[v]
    BY <2>1 DEF Issued
  <2>4. \A v \in Workers : t \in has'[v] <=> v = w
    BY <2>1, <2>3
  <2>5. task'.claim.token = t /\ task'.claim.owner = w
    BY <2>1 DEF Claimed
  <2>6. TokenIsPrivate'
    BY <2>4, <2>5 DEF TokenIsPrivate
  <2> QED BY <2>2, <2>6
<1>2. ASSUME NEW w \in Workers, Transition(w) PROVE IInv'
  <2>1. PICK to \in Statuses : task' = Transitioned(task, to)
    BY <1>2 DEF Transition
  <2>2. task' \in TaskStates /\ task'.claim = task.claim
    BY <2>1 DEF Transitioned, TaskStates
  <2> QED BY <1>2, <2>2 DEF Transition, TokenIsPrivate
<1>3. ASSUME task' = NewTask, lapsed' = FALSE, UNCHANGED has PROVE IInv'
  BY <1>3, NewTaskTyped DEF TokenIsPrivate
<1>4. ASSUME NEW w \in Workers, Release(w) \/ Reclaim(w) PROVE IInv'
  BY <1>3, <1>4 DEF Release, Reclaim, Unclaimed
<1>5. CASE Lapse
  BY <1>5 DEF Lapse, TokenIsPrivate
<1>6. CASE UNCHANGED leaseVars
  BY <1>6 DEF leaseVars, TokenIsPrivate
<1> QED BY <1>1, <1>2, <1>4, <1>5, <1>6 DEF LeaseNext, LeaseStep

LEMMA Invariant == LeaseSpec => []IInv
<1> QED BY Start, Kept, PTL DEF LeaseSpec

\* The dict, the clock and the workers' tokens keep their types.
THEOREM TypeCorrect == LeaseSpec => []LeaseTypeOK
<1>1. IInv => LeaseTypeOK
  BY DEF IInv
<1> QED BY <1>1, Invariant, PTL

\* A running claim's token is known to the worker it names and to no other.
THEOREM PrivateToken == LeaseSpec => []TokenIsPrivate
<1>1. IInv => TokenIsPrivate
  BY DEF IInv
<1> QED BY <1>1, Invariant, PTL

\* What a worker other than the owner can still do to a task that carries a
\* claim: claim it or reclaim it, once the lease has lapsed.
LEMMA Others ==
  ASSUME IInv, NEW w \in Workers, LeaseStep(w),
         task.claim # NoClaim, task.claim.owner # w
  PROVE  lapsed /\ task'.status \in {"in_progress", "pending"}
<1>1. CASE Claim(w)
  BY <1>1 DEF Claim, MayClaim, Claimed
<1>2. CASE Transition(w)
  BY <1>2, HolderOfToken DEF Transition, MayTransition
<1>3. CASE Release(w)
  BY <1>3, HolderOfToken DEF Release
<1>4. CASE Reclaim(w)
  BY <1>4 DEF Reclaim, MayReclaim, Unclaimed, NewTask
<1> QED BY <1>1, <1>2, <1>3, <1>4 DEF LeaseStep

\* While a lease runs, no other worker's call changes the task.
THEOREM Respected == LeaseSpec => RunningLeaseIsRespected
<1>1. ASSUME IInv, NEW w \in Workers, LeaseStep(w), task.claim # NoClaim,
             task.claim.owner # w, ~lapsed
      PROVE  UNCHANGED task
  BY <1>1, Others
<1>2. IInv /\ [LeaseNext]_leaseVars =>
        [\A w \in Workers :
           (task.claim # NoClaim /\ task.claim.owner # w /\ ~lapsed /\ LeaseStep(w))
             => UNCHANGED task]_leaseVars
  BY <1>1
<1> QED BY <1>2, Invariant, PTL DEF LeaseSpec, RunningLeaseIsRespected

\* A task that carries a claim is finished by the worker the claim names.
THEOREM Finishes == LeaseSpec => OnlyTheOwnerFinishes
<1>1. ASSUME IInv, NEW w \in Workers, LeaseStep(w), task.claim # NoClaim,
             task'.status \in Terminal
      PROVE  w = task.claim.owner
  BY <1>1, Others DEF Terminal
<1>2. IInv /\ [LeaseNext]_leaseVars =>
        [\A w \in Workers :
           (task.claim # NoClaim /\ task'.status \in Terminal
              /\ task.status \notin Terminal /\ LeaseStep(w))
             => w = task.claim.owner]_leaseVars
  BY <1>1
<1> QED BY <1>2, Invariant, PTL DEF LeaseSpec, OnlyTheOwnerFinishes
=============================================================================

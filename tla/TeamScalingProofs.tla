------------------------- MODULE TeamScalingProofs -------------------------
(***************************************************************************)
(* Proofs about TeamScaling, for any number of processes, workers, panes,  *)
(* tasks and kills.                                                        *)
(***************************************************************************)
EXTENDS TeamScaling, FiniteSetTheorems, TLAPS

USE DEF Lockless

-----------------------------------------------------------------------------
(* Types *)

\* A scale_up that opens a pane has one to open, one that brings a task has one to
\* bring, and all of them remember what they found.
CallShape ==
  \A p \in Procs :
    /\ call[p].at = "up number" => call[p].bring # 0
    /\ call[p].at \in {"up boot", "up save"} => call[p].left # 0 /\ call[p].pane # 0
    /\ call[p].at \in {"up tasks", "up number", "up count", "up next", "up boot", "up save",
                       "rollback", "restore"} => call[p].base # <<>>

Typed == TypeOK /\ CallShape

LEMMA StartedTyped == Started \in Nat /\ Started \in 0 .. MaxPanes /\ MaxPanes \in Nat
BY WorkersAssumption, BoundsAssumption

LEMMA InitialTyped ==
  InitialWorkers \subseteq Workers /\ InitialConfig \in Configs
<1>1. InitialWorkers \subseteq Workers
  <2> SUFFICES ASSUME NEW k \in 1 .. Started
               PROVE  [index |-> k, pane |-> k] \in Workers
    BY DEF InitialWorkers
  <2>1. k \in Nat /\ k \in 1 .. MaxPanes
    BY StartedTyped
  <2> QED BY <2>1 DEF Workers, PaneIds
<1> QED BY <1>1, StartedTyped DEF InitialConfig, Configs

LEMMA NoCallTyped ==
  /\ NoCall \in Calls
  /\ NoCall.at = "idle" /\ NoCall.base = <<>> /\ NoCall.left = 0 /\ NoCall.bring = 0
BY InitialTyped, StartedTyped DEF NoCall, Calls, Locations

\* A step of one call: the others stay where they are, and the lock is held by those
\* whose calls are scalings.
LEMMA OneCall ==
  ASSUME Typed, NEW p \in Procs, NEW d \in Calls,
         call' = [call EXCEPT ![p] = d],
         inside' = IF d.at \in Lockless THEN inside \ {p} ELSE inside \cup {p},
         d.at = "up number" => d.bring # 0,
         d.at \in {"up boot", "up save"} => d.left # 0 /\ d.pane # 0,
         d.at \in {"up tasks", "up number", "up count", "up next", "up boot", "up save",
                   "rollback", "restore"} => d.base # <<>>
  PROVE  /\ call' \in [Procs -> Calls]
         /\ inside' = {q \in Procs : call'[q].at \notin Lockless}
         /\ CallShape'
         /\ call'[p] = d /\ \A q \in Procs \ {p} : call'[q] = call[q]
<1>1. call' \in [Procs -> Calls] /\ call'[p] = d /\ \A q \in Procs \ {p} : call'[q] = call[q]
  BY DEF Typed, TypeOK
<1>2. CallShape'
  BY <1>1 DEF Typed, CallShape
<1>3. inside' = {q \in Procs : call'[q].at \notin Lockless}
  BY <1>1 DEF Typed, TypeOK
<1> QED BY <1>1, <1>2, <1>3

\* Whoever continues a scaling is inside, and whoever leaves is not.
LEMMA Inside ==
  ASSUME Typed, NEW p \in Procs
  PROVE  /\ call[p] \in Calls /\ call[p].at \in Locations
         /\ p \in inside <=> call[p].at \notin Lockless
BY DEF Typed, TypeOK, Calls

LEMMA SaveTyped ==
  ASSUME Typed, NEW p \in Procs, NEW copy \in Configs, Save(p, copy)
  PROVE  config' \in Configs /\ stale' \subseteq Procs /\ lost' \in BOOLEAN /\ behind' \in BOOLEAN
BY DEF Save, Typed, TypeOK

LEMMA KeepTyped ==
  ASSUME Typed, KeepConfig
  PROVE  config' \in Configs /\ stale' \subseteq Procs /\ lost' \in BOOLEAN /\ behind' \in BOOLEAN
BY DEF KeepConfig, Typed, TypeOK

LEMMA NumberedTyped ==
  ASSUME NEW copy \in Configs
  PROVE  /\ Numbered(copy) \in Configs
         /\ Numbered(copy).workers = copy.workers /\ Numbered(copy).next = copy.next
         /\ Numbered(copy).number = copy.number + 1
         /\ copy.number \in Nat \ {0}
BY DEF Numbered, Configs

LEMMA TakeLockTyped ==
  ASSUME Typed, NEW p \in Procs, TakeLock(p)
  PROVE  inside' = inside \cup {p} /\ crowded' \in BOOLEAN /\ stale' \subseteq Procs
BY DEF TakeLock, Typed, TypeOK

LEMMA InitTyped == Init => Typed
<1> SUFFICES ASSUME Init PROVE Typed
  OBVIOUS
<1>1. call \in [Procs -> Calls] /\ \A p \in Procs : call[p].at = "idle"
  BY NoCallTyped DEF Init
<1>2. config \in Configs /\ panes \subseteq Workers /\ adrift \subseteq panes
      /\ opened \in 0 .. MaxPanes /\ faults \in 0 .. MaxFaults
  BY InitialTyped, StartedTyped, BoundsAssumption DEF Init
<1>3. tasks \in Seq(Nat \ {0})
  BY DEF Init
<1>4. TypeOK
  BY <1>1, <1>2, <1>3 DEF Init, TypeOK
<1>5. CallShape
  BY <1>1 DEF CallShape
<1> QED BY <1>4, <1>5 DEF Typed

\* The steps of create_task, and those that start a scaling.
LEMMA BeginTyped ==
  ASSUME Typed, NEW p \in Procs
  PROVE  /\ Create(p) => Typed'
         /\ Stored(p) => Typed'
         /\ Created(p) => Typed'
         /\ \A n \in 1 .. MaxCount, k \in 0 .. 1 : ScaleUp(p, n, k) => Typed'
         /\ \A T \in SUBSET config.workers : ScaleDown(p, T) => Typed'
<1> USE DEF Typed
<1>0. config \in Configs /\ config.next \in Nat /\ config.workers \in SUBSET Workers
  BY DEF TypeOK, Configs
<1>1. ASSUME Create(p) PROVE Typed'
  <2> DEFINE d == [NoCall EXCEPT !.at = "create", !.cfg = config]
  <2>1. d \in Calls /\ d.at = "create"
    BY <1>0, NoCallTyped DEF Calls, Locations
  <2>2. call' = [call EXCEPT ![p] = d] /\ p \notin inside /\ inside' = inside
    BY <1>1, Inside DEF Create, Continue
  <2> HIDE DEF d
  <2>3. CallShape' /\ call' \in [Procs -> Calls]
        /\ inside' = {q \in Procs : call'[q].at \notin Lockless}
    BY <2>1, <2>2, OneCall
  <2> QED BY <1>1, <2>3 DEF Create, TypeOK, files, history
<1>s. ASSUME Stored(p) PROVE Typed'
  <2> DEFINE d == [call[p] EXCEPT !.at = "number"]
  <2>1. call[p] \in Calls /\ call[p].cfg \in Configs
    BY Inside DEF Calls
  <2>2. d \in Calls /\ d.at = "number"
    BY <2>1 DEF Calls, Locations
  <2>3. call' = [call EXCEPT ![p] = d] /\ p \notin inside /\ inside' = inside
    BY <1>s, Inside DEF Stored, Continue
  <2> HIDE DEF d
  <2>4. CallShape' /\ call' \in [Procs -> Calls]
        /\ inside' = {q \in Procs : call'[q].at \notin Lockless}
    BY <2>2, <2>3, OneCall
  <2>5. tasks' \in Seq(Nat \ {0}) /\ lost' \in BOOLEAN
    BY <1>s, <2>1, NumberedTyped DEF Stored, Store, TypeOK
  <2> QED BY <1>s, <2>4, <2>5 DEF Stored, TypeOK, history
<1>2. ASSUME Created(p) PROVE Typed'
  <2>1. call' = [call EXCEPT ![p] = NoCall] /\ p \notin inside /\ inside' = inside
    BY <1>2, Inside DEF Created, Continue
  <2>2. CallShape' /\ call' \in [Procs -> Calls]
        /\ inside' = {q \in Procs : call'[q].at \notin Lockless}
    BY <2>1, NoCallTyped, OneCall
  <2>3. call[p].cfg \in Configs
    BY Inside DEF Calls
  <2>4. config' \in Configs /\ stale' \subseteq Procs /\ lost' \in BOOLEAN /\ behind' \in BOOLEAN
    BY <1>2, <2>3, NumberedTyped, SaveTyped DEF Created
  <2> QED BY <1>2, <2>2, <2>4 DEF Created, TypeOK, history
<1>3. ASSUME NEW n \in 1 .. MaxCount, NEW k \in 0 .. 1, ScaleUp(p, n, k) PROVE Typed'
  <2> DEFINE d == [NoCall EXCEPT
       !.at = "up tasks", !.cfg = config, !.left = n, !.bring = k,
       !.next = config.next,
       !.base = <<config.workers, config.next, Kept>>]
  <2>0. n \in Nat /\ k \in Nat /\ Kept \in SUBSET Workers
    BY BoundsAssumption DEF TypeOK, Kept
  <2>1. d \in Calls /\ d.at = "up tasks" /\ d.base # <<>>
    BY <1>0, <2>0, NoCallTyped DEF Calls, Locations
  <2>2. call' = [call EXCEPT ![p] = d] /\ inside' = inside \cup {p}
    BY <1>3 DEF ScaleUp, Continue, TakeLock
  <2> HIDE DEF d
  <2>3. CallShape' /\ call' \in [Procs -> Calls]
        /\ inside' = {q \in Procs : call'[q].at \notin Lockless}
    BY <2>1, <2>2, OneCall
  <2> QED BY <1>3, <2>3, TakeLockTyped DEF ScaleUp, TypeOK, files
<1>4. ASSUME NEW T \in SUBSET config.workers, ScaleDown(p, T) PROVE Typed'
  <2>1. CASE UNCHANGED vars
    BY <2>1 DEF TypeOK, CallShape, vars
  <2>2. CASE TakeLock(p) /\ Continue(p, [NoCall EXCEPT
                 !.at = "drain", !.cfg = config, !.targets = T])
            /\ UNCHANGED <<files, opened, lost, behind, faults>>
    <3> DEFINE d == [NoCall EXCEPT !.at = "drain", !.cfg = config, !.targets = T]
    <3>1. d \in Calls /\ d.at = "drain"
      BY <1>0, NoCallTyped DEF Calls, Locations
    <3>2. call' = [call EXCEPT ![p] = d] /\ inside' = inside \cup {p}
      BY <2>2 DEF Continue, TakeLock
    <3> HIDE DEF d
    <3>3. CallShape' /\ call' \in [Procs -> Calls]
          /\ inside' = {q \in Procs : call'[q].at \notin Lockless}
      BY <3>1, <3>2, OneCall
    <3> QED BY <2>2, <3>3, TakeLockTyped DEF TypeOK, files
  <2> QED BY <1>4, <2>1, <2>2 DEF ScaleDown
<1> QED BY <1>1, <1>s, <1>2, <1>3, <1>4

\* The steps of scale_up.
LEMMA UpTyped ==
  ASSUME Typed, NEW p \in Procs
  PROVE  /\ BringTask(p) => Typed'
         /\ StoredBrought(p) => Typed'
         /\ BroughtTask(p) => Typed'
         /\ Split(p) => Typed'
         /\ Boot(p) => Typed'
         /\ Joined(p) => Typed'
<1> USE DEF Typed
<1> DEFINE c == call[p]
<1>0. c \in Calls /\ config \in Configs
  BY Inside DEF TypeOK
<1>z. /\ c.left \in Nat /\ c.bring \in Nat /\ c.next \in Nat /\ c.pane \in 0 .. MaxPanes
      /\ MaxPanes \in Nat /\ opened \in 0 .. MaxPanes
  BY <1>0, StartedTyped DEF Calls, TypeOK
<1>y. /\ c.left # 0 => c.left - 1 \in Nat
      /\ c.bring # 0 => c.bring - 1 \in Nat
      /\ c.pane # 0 => c.pane \in PaneIds
      /\ opened < MaxPanes => opened + 1 \in 0 .. MaxPanes /\ opened + 1 \in PaneIds /\ opened + 1 # 0
      /\ 0 \in 0 .. MaxPanes
  <2> HIDE DEF c
  <2> QED BY <1>z DEF PaneIds
<1>f. ASSUME c.at \in {"up tasks", "up number", "up count", "up next", "up boot", "up save"},
             Fail(p), inside' = inside
      PROVE  /\ call' \in [Procs -> Calls] /\ CallShape'
             /\ inside' = {q \in Procs : call'[q].at \notin Lockless}
  <2> DEFINE d == [c EXCEPT !.at = "rollback", !.bring = 0]
  <2>1. d \in Calls /\ d.at = "rollback" /\ d.base = c.base /\ d.base # <<>>
    BY <1>0, <1>f DEF Calls, Locations, CallShape
  <2>2. call' = [call EXCEPT ![p] = d] /\ inside' = inside \cup {p}
    BY <1>f, Inside DEF Fail, Continue
  <2> HIDE DEF d
  <2> QED BY <2>1, <2>2, OneCall
<1>1. ASSUME BringTask(p) PROVE Typed'
  <2>1. c.at = "up tasks" /\ inside' = inside \cup {p} /\ c.base # <<>>
    BY <1>1, Inside DEF BringTask, CallShape
  <2>2. CASE c.bring = 0
    <3> DEFINE d == [c EXCEPT !.at = "up next"]
    <3>1. d \in Calls /\ d.at = "up next" /\ d.base = c.base
      BY <1>0 DEF Calls, Locations
    <3>2. call' = [call EXCEPT ![p] = d]
      BY <1>1, <2>2 DEF BringTask, Continue
    <3> HIDE DEF d
    <3>3. CallShape' /\ call' \in [Procs -> Calls]
          /\ inside' = {q \in Procs : call'[q].at \notin Lockless}
      BY <2>1, <3>1, <3>2, OneCall
    <3> QED BY <1>1, <3>3 DEF BringTask, TypeOK, files, history
  <2>3. CASE c.bring # 0
    <3> DEFINE d == [c EXCEPT !.at = "up number", !.own = config]
    <3>1. d \in Calls /\ d.at = "up number" /\ d.base = c.base /\ d.bring # 0
      BY <1>0, <2>3 DEF Calls, Locations
    <3>2. call' = [call EXCEPT ![p] = d]
      BY <1>1, <2>3 DEF BringTask, Continue
    <3> HIDE DEF d
    <3>3. CallShape' /\ call' \in [Procs -> Calls]
          /\ inside' = {q \in Procs : call'[q].at \notin Lockless}
      BY <2>1, <3>1, <3>2, OneCall
    <3> QED BY <1>1, <3>3 DEF BringTask, TypeOK, files, history
  <2> QED BY <2>2, <2>3
<1>s. ASSUME StoredBrought(p) PROVE Typed'
  <2>1. /\ c.at = "up number" /\ inside' = inside \cup {p} /\ inside' = inside
        /\ c.base # <<>> /\ c.bring # 0
    BY <1>s, Inside DEF StoredBrought, CallShape
  <2>2. CASE Fail(p) /\ UNCHANGED <<tasks, lost>>
    BY <1>s, <1>f, <2>1, <2>2 DEF StoredBrought, TypeOK, history
  <2>3. CASE /\ Store(p, c.own)
             /\ Continue(p, [c EXCEPT !.at = "up count", !.bring = @ - 1])
    <3> DEFINE d == [c EXCEPT !.at = "up count", !.bring = @ - 1]
    <3>0. c.bring - 1 \in Nat
      BY <1>y, <2>1
    <3>1. d \in Calls /\ d.at = "up count" /\ d.base = c.base
      BY <1>0, <3>0 DEF Calls, Locations
    <3>2. call' = [call EXCEPT ![p] = d]
      BY <2>3 DEF Continue
    <3> HIDE DEF d
    <3>3. CallShape' /\ call' \in [Procs -> Calls]
          /\ inside' = {q \in Procs : call'[q].at \notin Lockless}
      BY <2>1, <3>1, <3>2, OneCall
    <3>4. c.own \in Configs
      BY <1>0 DEF Calls
    <3>5. tasks' \in Seq(Nat \ {0}) /\ lost' \in BOOLEAN
      BY <2>3, <3>4, NumberedTyped DEF Store, TypeOK
    <3> QED BY <1>s, <3>3, <3>5 DEF StoredBrought, TypeOK, history
  <2> QED BY <1>s, <2>2, <2>3 DEF StoredBrought
<1>2. ASSUME BroughtTask(p) PROVE Typed'
  <2>1. /\ c.at = "up count" /\ inside' = inside \cup {p} /\ inside' = inside
        /\ c.base # <<>>
    BY <1>2, Inside DEF BroughtTask, CallShape
  <2>2. CASE Fail(p) /\ behind' = TRUE /\ UNCHANGED <<config, stale, lost>>
    BY <1>2, <1>f, <2>1, <2>2 DEF BroughtTask, TypeOK, history
  <2>3. CASE /\ Save(p, Numbered(c.own))
             /\ Continue(p, [c EXCEPT !.at = "up tasks", !.own = InitialConfig])
    <3> DEFINE d == [c EXCEPT !.at = "up tasks", !.own = InitialConfig]
    <3>1. d \in Calls /\ d.at = "up tasks" /\ d.base = c.base
      BY <1>0, InitialTyped DEF Calls, Locations
    <3>2. call' = [call EXCEPT ![p] = d]
      BY <2>3 DEF Continue
    <3> HIDE DEF d
    <3>3. CallShape' /\ call' \in [Procs -> Calls]
          /\ inside' = {q \in Procs : call'[q].at \notin Lockless}
      BY <2>1, <3>1, <3>2, OneCall
    <3>4. c.own \in Configs
      BY <1>0 DEF Calls
    <3>5. config' \in Configs /\ stale' \subseteq Procs /\ lost' \in BOOLEAN /\ behind' \in BOOLEAN
      BY <2>3, <3>4, NumberedTyped, SaveTyped
    <3> QED BY <1>2, <3>3, <3>5 DEF BroughtTask, TypeOK, history
  <2> QED BY <1>2, <2>2, <2>3 DEF BroughtTask
<1>3. ASSUME Split(p) PROVE Typed'
  <2>0. c.at = "up next" /\ c.base # <<>> /\ inside \cup {p} = inside
    BY <1>3, Inside DEF Split, CallShape
  <2>1. CASE c.left = 0
    <3>1. call' = [call EXCEPT ![p] = NoCall] /\ inside' = inside \ {p} /\ UNCHANGED <<panes, adrift, opened>>
      BY <1>3, <2>1 DEF Split, Leave, Continue
    <3>2. CallShape' /\ call' \in [Procs -> Calls]
          /\ inside' = {q \in Procs : call'[q].at \notin Lockless}
      BY <3>1, NoCallTyped, OneCall
    <3> QED BY <1>3, <3>1, <3>2, KeepTyped DEF Split, TypeOK, history
  <2>2. CASE c.left # 0 /\ Fail(p) /\ UNCHANGED <<panes, adrift, opened, inside>>
    BY <1>3, <1>f, <2>0, <2>2, KeepTyped DEF Split, TypeOK, history
  <2>3. CASE /\ c.left # 0 /\ inside' = inside
             /\ opened < MaxPanes
             /\ opened' = opened + 1
             /\ panes' = panes \cup {Newest([c EXCEPT !.pane = opened + 1])}
             /\ \/ /\ Continue(p, [[c EXCEPT !.pane = opened + 1] EXCEPT !.at = "up boot"])
                   /\ UNCHANGED adrift
                \/ Fail(p) /\ adrift' = adrift \cup {Newest([c EXCEPT !.pane = opened + 1])}
    <3> DEFINE d == [[c EXCEPT !.pane = opened + 1] EXCEPT !.at = "up boot"]
               worker == Newest([c EXCEPT !.pane = opened + 1])
    <3>0. /\ opened + 1 \in 0 .. MaxPanes /\ opened + 1 \in PaneIds /\ c.next \in Nat
          /\ opened + 1 # 0
      BY <1>y, <1>z, <2>3
    <3>1. /\ d \in Calls /\ d.at = "up boot" /\ d.base = c.base /\ d.left = c.left
          /\ d.pane # 0 /\ worker = [index |-> c.next, pane |-> opened + 1]
      BY <1>0, <3>0 DEF Calls, Locations, Newest
    <3>2. worker \in Workers
      BY <3>0, <3>1 DEF Workers
    <3>3. c.left # 0 /\ inside' = inside /\ (call' = [call EXCEPT ![p] = d] \/ Fail(p))
      BY <2>3 DEF Continue
    <3>4. ASSUME call' = [call EXCEPT ![p] = d]
          PROVE  /\ call' \in [Procs -> Calls] /\ CallShape'
                 /\ inside' = {q \in Procs : call'[q].at \notin Lockless}
      <4> HIDE DEF d
      <4> QED BY <2>0, <3>1, <3>3, <3>4, OneCall
    <3>5. /\ call' \in [Procs -> Calls] /\ CallShape'
          /\ inside' = {q \in Procs : call'[q].at \notin Lockless}
      <4>1. CASE call' = [call EXCEPT ![p] = d]
        BY <3>4, <4>1
      <4>2. CASE Fail(p)
        BY <1>f, <2>0, <3>3, <4>2
      <4> QED BY <3>3, <4>1, <4>2
    <3> HIDE DEF worker
    <3>6. /\ panes' = panes \cup {worker}
          /\ adrift' = adrift \/ adrift' = adrift \cup {worker}
      BY <2>3 DEF worker
    <3>7. panes' \subseteq Workers /\ adrift' \subseteq panes'
      BY <3>2, <3>6 DEF TypeOK
    <3>8. opened' \in 0 .. MaxPanes
      BY <2>3, <3>0
    <3> QED BY <1>3, <3>3, <3>5, <3>7, <3>8, KeepTyped DEF Split, TypeOK, history
  <2> QED BY <1>3, <2>1, <2>2, <2>3 DEF Split
<1>4. ASSUME Boot(p) PROVE Typed'
  <2>0. c.at = "up boot" /\ c.base # <<>> /\ c.left # 0 /\ c.pane # 0 /\ inside \cup {p} = inside
    BY <1>4, Inside DEF Boot, CallShape
  <2>1. CASE Fail(p)
    BY <1>4, <1>f, <2>0, <2>1, KeepTyped DEF Boot, TypeOK, history
  <2>2. CASE ~Fail(p)
    <3> DEFINE worker == Newest(c)
               d == [c EXCEPT
              !.at = "up save", !.added = @ \cup {worker}, !.next = @ + 1,
              !.cfg.workers = @ \cup {worker}, !.cfg.next = c.next + 1]
    <3>0. worker \in Workers /\ c.pane # 0
      <4>1. c.pane \in PaneIds /\ c.next \in Nat
        BY <1>y, <1>z, <2>0
      <4> QED BY <4>1 DEF Workers, PaneIds, Newest
    <3>1. /\ d \in Calls /\ d.at = "up save" /\ d.base = c.base /\ d.left = c.left
          /\ d.pane = c.pane
      <4> HIDE DEF worker
      <4>1. c.next + 1 \in Nat /\ c.added \cup {worker} \subseteq Workers
        BY <1>0, <3>0 DEF Calls
      <4>2. [c.cfg EXCEPT !.workers = @ \cup {worker}, !.next = c.next + 1] \in Configs
        BY <1>0, <3>0, <4>1 DEF Calls, Configs
      <4> QED BY <1>0, <4>1, <4>2 DEF Calls, Locations, Configs
    <3>2. call' = [call EXCEPT ![p] = d] /\ inside' = inside
      BY <1>4, <2>2 DEF Boot, Continue
    <3> HIDE DEF d
    <3>3. CallShape' /\ call' \in [Procs -> Calls]
          /\ inside' = {q \in Procs : call'[q].at \notin Lockless}
      BY <2>0, <3>1, <3>2, OneCall
    <3> QED BY <1>4, <3>3, KeepTyped DEF Boot, TypeOK, history
  <2> QED BY <2>1, <2>2
<1>5. ASSUME Joined(p) PROVE Typed'
  <2>0. c.at = "up save" /\ c.base # <<>> /\ c.left # 0 /\ c.pane # 0 /\ inside \cup {p} = inside
    BY <1>5, Inside DEF Joined, CallShape
  <2>1. CASE Fail(p) /\ KeepConfig
    BY <1>5, <1>f, <2>0, <2>1, KeepTyped DEF Joined, TypeOK, history
  <2>2. CASE Save(p, c.cfg) /\ Continue(p, [c EXCEPT !.at = "up next", !.left = @ - 1, !.pane = 0])
    <3> DEFINE d == [c EXCEPT !.at = "up next", !.left = @ - 1, !.pane = 0]
    <3>0. c.left - 1 \in Nat /\ 0 \in 0 .. MaxPanes
      BY <1>y, <2>0
    <3>1. d \in Calls /\ d.at = "up next" /\ d.base = c.base
      BY <1>0, <3>0 DEF Calls, Locations
    <3>2. call' = [call EXCEPT ![p] = d] /\ inside' = inside
      BY <1>5, <2>2 DEF Joined, Continue
    <3> HIDE DEF d
    <3>3. CallShape' /\ call' \in [Procs -> Calls]
          /\ inside' = {q \in Procs : call'[q].at \notin Lockless}
      BY <2>0, <3>1, <3>2, OneCall
    <3>4. c.cfg \in Configs
      BY <1>0 DEF Calls
    <3> QED BY <1>5, <2>2, <3>3, <3>4, SaveTyped DEF Joined, TypeOK, history
  <2> QED BY <1>5, <2>1, <2>2 DEF Joined
<1> QED BY <1>1, <1>s, <1>2, <1>3, <1>4, <1>5

\* Whatever tmux does with them, what is not doomed stays as it is.
LEMMA KillTyped ==
  ASSUME Typed, NEW doomed, Kill(doomed)
  PROVE  panes' \subseteq Workers /\ adrift' \subseteq panes' /\ Kept' = Kept \ doomed
BY DEF Kill, Kept, Typed, TypeOK

\* A roll-back, a scale_down, and a kill.
LEMMA EndTyped ==
  ASSUME Typed, NEW p \in Procs
  PROVE  /\ Rollback(p) => Typed'
         /\ Restore(p) => Typed'
         /\ Failed(p) => Typed'
         /\ Drain(p) => Typed'
         /\ KillTargets(p) => Typed'
         /\ RemoveTrees(p) => Typed'
         /\ Removed(p) => Typed'
         /\ Raise(p) => Typed'
         /\ Crash(p) => Typed'
<1> USE DEF Typed
<1> DEFINE c == call[p]
<1>0. c \in Calls /\ config \in Configs /\ c.cfg \in Configs
  BY Inside DEF TypeOK, Calls
\* leaving the lock
<1>l. ASSUME call' = [call EXCEPT ![p] = NoCall], inside' = inside \ {p}
      PROVE  /\ call' \in [Procs -> Calls] /\ CallShape'
             /\ inside' = {q \in Procs : call'[q].at \notin Lockless}
  BY <1>l, NoCallTyped, OneCall
\* going on inside
<1>m. ASSUME NEW at \in {"kill", "trees", "down save"},
             call' = [call EXCEPT ![p] = [c EXCEPT !.at = at]],
             inside' = inside, p \in inside
      PROVE  /\ call' \in [Procs -> Calls] /\ CallShape'
             /\ inside' = {q \in Procs : call'[q].at \notin Lockless}
  <2> DEFINE d == [c EXCEPT !.at = at]
  <2>1. d \in Calls /\ d.at = at
    BY <1>0 DEF Calls, Locations
  <2>2. inside' = inside \cup {p} /\ call' = [call EXCEPT ![p] = d]
    BY <1>m
  <2> HIDE DEF d
  <2> QED BY <2>1, <2>2, OneCall
<1>1. ASSUME Rollback(p) PROVE Typed'
  <2>1. c.at = "rollback" /\ inside' = inside \cup {p} /\ c.base # <<>>
    BY <1>1, Inside DEF Rollback, CallShape
  <2> DEFINE d == [c EXCEPT !.at = "restore", !.cfg = Undone(c)]
  <2>2. c.base[2] \in Nat
    BY <1>0, <2>1 DEF Calls
  <2>3. Undone(c) \in Configs
    BY <1>0, <2>2 DEF Undone, Configs
  <2>4. d \in Calls /\ d.at = "restore" /\ d.base = c.base
    BY <1>0, <2>3 DEF Calls, Locations
  <2>5. call' = [call EXCEPT ![p] = d]
    BY <1>1 DEF Rollback, Continue
  <2> HIDE DEF d
  <2>6. CallShape' /\ call' \in [Procs -> Calls]
        /\ inside' = {q \in Procs : call'[q].at \notin Lockless}
    BY <2>1, <2>4, <2>5, OneCall
  <2> QED BY <1>1, <2>6, KillTyped DEF Rollback, TypeOK, history
<1>2. ASSUME Restore(p) PROVE Typed'
  <2>1. c.at = "restore" /\ inside' = inside \cup {p}
    BY <1>2, Inside DEF Restore
  <2>2. CASE Save(p, c.cfg) /\ Continue(p, [c EXCEPT !.at = "failed"])
    <3> DEFINE d == [c EXCEPT !.at = "failed"]
    <3>1. d \in Calls /\ d.at = "failed" /\ call' = [call EXCEPT ![p] = d]
      BY <1>0, <2>2 DEF Calls, Locations, Continue
    <3> HIDE DEF d
    <3>2. CallShape' /\ call' \in [Procs -> Calls]
          /\ inside' = {q \in Procs : call'[q].at \notin Lockless}
      BY <2>1, <3>1, OneCall
    <3> QED BY <1>0, <1>2, <2>2, <3>2, SaveTyped DEF Restore, TypeOK, history
  <2>3. CASE KeepConfig /\ Continue(p, [c EXCEPT !.at = "failed", !.base = <<>>])
    <3> DEFINE d == [c EXCEPT !.at = "failed", !.base = <<>>]
    <3>1. d \in Calls /\ d.at = "failed" /\ call' = [call EXCEPT ![p] = d]
      BY <1>0, <2>3 DEF Calls, Locations, Continue
    <3> HIDE DEF d
    <3>2. CallShape' /\ call' \in [Procs -> Calls]
          /\ inside' = {q \in Procs : call'[q].at \notin Lockless}
      BY <2>1, <3>1, OneCall
    <3> QED BY <1>2, <2>3, <3>2, KeepTyped DEF Restore, TypeOK, history
  <2> QED BY <1>2, <2>2, <2>3 DEF Restore
<1>3. ASSUME Failed(p) PROVE Typed'
  BY <1>3, <1>l DEF Failed, Leave, Continue, TypeOK, files, history
<1>4. ASSUME Drain(p) PROVE Typed'
  <2>1. p \in inside
    BY <1>4, Inside DEF Drain
  <2>2. /\ call' \in [Procs -> Calls] /\ CallShape'
        /\ inside' = {q \in Procs : call'[q].at \notin Lockless}
    BY <1>4, <1>m, <2>1 DEF Drain, Continue
  <2> QED BY <1>4, <2>2 DEF Drain, TypeOK, files, history
<1>5. ASSUME KillTargets(p) PROVE Typed'
  <2>1. p \in inside
    BY <1>5, Inside DEF KillTargets
  <2>2. /\ call' \in [Procs -> Calls] /\ CallShape'
        /\ inside' = {q \in Procs : call'[q].at \notin Lockless}
    BY <1>5, <1>m, <2>1 DEF KillTargets, Continue
  <2> QED BY <1>5, <2>2, KillTyped DEF KillTargets, TypeOK, history
<1>6. ASSUME RemoveTrees(p) PROVE Typed'
  <2>1. p \in inside
    BY <1>6, Inside DEF RemoveTrees
  <2>2. CASE Leave(p)
    BY <1>6, <1>l, <2>2 DEF RemoveTrees, Leave, Continue, TypeOK, files, history
  <2>3. CASE Continue(p, [c EXCEPT !.at = "down save"]) /\ UNCHANGED inside
    <3>1. /\ call' \in [Procs -> Calls] /\ CallShape'
          /\ inside' = {q \in Procs : call'[q].at \notin Lockless}
      BY <1>m, <2>1, <2>3 DEF Continue
    <3> QED BY <1>6, <3>1 DEF RemoveTrees, TypeOK, files, history
  <2> QED BY <1>6, <2>2, <2>3 DEF RemoveTrees
<1>7. ASSUME Removed(p) PROVE Typed'
  <2>1. /\ call' \in [Procs -> Calls] /\ CallShape'
        /\ inside' = {q \in Procs : call'[q].at \notin Lockless}
    BY <1>7, <1>l DEF Removed, Leave, Continue
  <2>2. [c.cfg EXCEPT !.workers = @ \ c.targets] \in Configs
    BY <1>0 DEF Configs
  <2>3. config' \in Configs /\ stale' \subseteq Procs /\ lost' \in BOOLEAN /\ behind' \in BOOLEAN
    BY <1>7, <2>2, SaveTyped, KeepTyped DEF Removed
  <2> QED BY <1>7, <2>1, <2>3 DEF Removed, TypeOK, history
<1>9. ASSUME Raise(p) PROVE Typed'
  <2>1. adrift' \subseteq panes' /\ behind' \in BOOLEAN
    BY <1>9 DEF Raise, TypeOK
  <2> QED BY <1>9, <1>l, <2>1 DEF Raise, Leave, Continue, TypeOK, history
<1>8. ASSUME Crash(p) PROVE Typed'
  <2>1. faults' \in 0 .. MaxFaults
    BY <1>8, BoundsAssumption DEF Crash, TypeOK
  <2> QED BY <1>8, <1>l, <2>1 DEF Crash, Leave, Continue, TypeOK, files
<1> QED BY <1>1, <1>2, <1>3, <1>4, <1>5, <1>6, <1>7, <1>8, <1>9

LEMMA StepTyped == Typed /\ [Next]_vars => Typed'
<1> SUFFICES ASSUME Typed, [Next]_vars PROVE Typed'
  OBVIOUS
<1>1. CASE UNCHANGED vars
  BY <1>1 DEF vars, Typed, TypeOK, CallShape
<1>2. CASE Next
  BY <1>2, BeginTyped, UpTyped, EndTyped DEF Next
<1> QED BY <1>1, <1>2

\* Files and copies hold workers with numbers and panes, and the scaling lock is held
\* by exactly the scale_up and scale_down calls in progress, whichever step of them
\* fails and wherever they are killed.
THEOREM ScalingTypeCorrect == Spec => []TypeOK
<1>1. Typed => TypeOK
  BY DEF Typed
<1> QED BY <1>1, InitTyped, StepTyped, PTL DEF Spec

-----------------------------------------------------------------------------
(* Panes are numbered as they are opened. *)

Opened == \A w \in panes : w.pane <= opened

LEMMA InitOpened == Init => Opened
<1>1. \A k \in 1 .. Started : k <= Started
  BY StartedTyped
<1> QED BY <1>1 DEF Init, InitialWorkers, Opened

LEMMA StepOpened == Typed /\ Opened /\ [Next]_vars => Opened'
<1> SUFFICES ASSUME Typed, Opened, [Next]_vars PROVE Opened'
  OBVIOUS
<1>1. ASSUME panes' \subseteq panes, opened' = opened PROVE Opened'
  BY <1>1 DEF Opened
<1>2. ASSUME NEW p \in Procs, Split(p) PROVE Opened'
  <2> DEFINE worker == Newest([call[p] EXCEPT !.pane = opened + 1])
  <2>1. call[p] \in Calls /\ opened \in Nat
    BY Inside, BoundsAssumption DEF Typed, TypeOK
  <2>2. worker.pane = opened + 1 /\ opened + 1 <= opened + 1
    BY <2>1 DEF Newest, Calls
  <2>3. \A k \in Nat : k <= opened => k <= opened + 1
    BY <2>1
  <2>4. \A w \in panes : w.pane \in Nat
    BY BoundsAssumption DEF Typed, TypeOK, Workers, PaneIds
  <2>5. \/ panes' = panes /\ opened' = opened
        \/ panes' = panes \cup {worker} /\ opened' = opened + 1
    BY <1>2 DEF Split
  <2> HIDE DEF worker
  <2> QED BY <1>1, <2>2, <2>3, <2>4, <2>5 DEF Opened
<1>3. ASSUME NEW p \in Procs,
             \/ Create(p) \/ Stored(p) \/ Created(p)
             \/ \E n \in 1 .. MaxCount, k \in 0 .. 1 : ScaleUp(p, n, k)
             \/ BringTask(p) \/ StoredBrought(p) \/ BroughtTask(p) \/ Boot(p) \/ Joined(p)
      PROVE  Opened'
  BY <1>1, <1>3 DEF Create, Stored, Created, ScaleUp, BringTask, StoredBrought, BroughtTask,
     Boot, Joined, files, history
<1>4. ASSUME NEW p \in Procs,
             \/ Rollback(p) \/ Restore(p) \/ Failed(p)
             \/ \E T \in SUBSET config.workers : ScaleDown(p, T)
             \/ Drain(p) \/ KillTargets(p) \/ RemoveTrees(p) \/ Removed(p)
             \/ Raise(p) \/ Crash(p)
      PROVE  Opened'
  BY <1>1, <1>4 DEF Rollback, Restore, Failed, ScaleDown, Drain, KillTargets, RemoveTrees,
     Removed, Raise, Crash, Kill, files, history, vars
<1>5. CASE UNCHANGED vars
  BY <1>1, <1>5 DEF vars
<1> QED BY <1>2, <1>3, <1>4, <1>5 DEF Next

-----------------------------------------------------------------------------
(* Each step in plain equations: of the call it moves, and of the files *)

Moved(p) == \A q \in Procs \ {p} : call'[q] = call[q]

LEMMA CreateIs ==
  ASSUME Typed, NEW p \in Procs, Create(p)
  PROVE  /\ call[p].at = "idle" /\ call'[p].at = "create" /\ call'[p].cfg = config /\ Moved(p)
         /\ stale' = stale \ {p}
         /\ UNCHANGED <<config, tasks, Kept, inside, opened, lost, crowded, behind, faults>>
BY NoCallTyped, Inside DEF Kept, Create, Continue, Typed, TypeOK, Calls, files, history, Moved

LEMMA StoredIs ==
  ASSUME Typed, NEW p \in Procs, Stored(p)
  PROVE  /\ call[p].at = "create" /\ call'[p] = [call[p] EXCEPT !.at = "number"] /\ Moved(p)
         /\ Store(p, call[p].cfg)
         /\ UNCHANGED <<config, Kept, inside, opened, stale, crowded, behind, faults>>
BY DEF Kept, Stored, Continue, Typed, TypeOK, history, Moved

LEMMA CreatedIs ==
  ASSUME Typed, NEW p \in Procs, Created(p)
  PROVE  /\ call[p].at = "number" /\ call'[p] = NoCall /\ Moved(p)
         /\ Save(p, Numbered(call[p].cfg))
         /\ UNCHANGED <<tasks, Kept, inside, opened, crowded, faults>>
BY DEF Kept, Created, Continue, Typed, TypeOK, history, Moved

LEMMA ScaleUpIs ==
  ASSUME Typed, NEW p \in Procs, NEW n \in 1 .. MaxCount, NEW k \in 0 .. 1, ScaleUp(p, n, k)
  PROVE  /\ call[p].at = "idle" /\ Fits(n) /\ opened + n <= MaxPanes /\ TakeLock(p)
         /\ call'[p].at = "up tasks" /\ call'[p].cfg = config /\ call'[p].left = n
         /\ call'[p].next = config.next /\ call'[p].pane = 0 /\ call'[p].added = {}
         /\ call'[p].base = <<config.workers, config.next, Kept>> /\ Moved(p)
         /\ UNCHANGED <<config, tasks, Kept, opened, lost, behind, faults>>
BY NoCallTyped DEF Kept, ScaleUp, MayEnter, Continue, Typed, TypeOK, Calls, files, Moved, NoCall

LEMMA BringTaskIs ==
  ASSUME Typed, NEW p \in Procs, BringTask(p)
  PROVE  /\ call[p].at = "up tasks"
         /\ \E at \in {"up next", "up number"}, own \in {config, call[p].own} :
              /\ at = "up number" => own = config
              /\ call'[p] = [call[p] EXCEPT !.at = at, !.own = own]
         /\ Moved(p)
         /\ UNCHANGED <<config, tasks, Kept, inside, opened, stale, lost, crowded, behind, faults>>
<1>1. call[p] \in Calls /\ call \in [Procs -> Calls]
  BY Inside DEF Typed, TypeOK
<1>2. [call[p] EXCEPT !.at = "up next"] = [call[p] EXCEPT !.at = "up next", !.own = call[p].own]
  BY <1>1 DEF Calls
<1>3. /\ \/ call'[p] = [call[p] EXCEPT !.at = "up next"]
         \/ call'[p] = [call[p] EXCEPT !.at = "up number", !.own = config]
      /\ Moved(p)
  BY <1>1 DEF BringTask, Continue, Moved
<1> QED BY <1>2, <1>3 DEF BringTask, Kept, files, history

\* A scale_up that has failed goes on to its roll-back.
LEMMA FailIs ==
  ASSUME Typed, NEW p \in Procs, Fail(p)
  PROVE  /\ call'[p] = [call[p] EXCEPT !.at = "rollback", !.bring = 0] /\ Moved(p)
BY DEF Fail, Continue, Typed, TypeOK, Moved

LEMMA StoredBroughtIs ==
  ASSUME Typed, NEW p \in Procs, StoredBrought(p)
  PROVE  /\ call[p].at = "up number" /\ Moved(p)
         /\ \/ /\ Store(p, call[p].own)
               /\ call'[p] = [call[p] EXCEPT !.at = "up count", !.bring = @ - 1]
            \/ Fail(p) /\ UNCHANGED <<tasks, lost>>
         /\ UNCHANGED <<config, Kept, inside, opened, stale, crowded, behind, faults>>
BY FailIs DEF Kept, StoredBrought, Continue, Typed, TypeOK, history, Moved

LEMMA BroughtTaskIs ==
  ASSUME Typed, NEW p \in Procs, BroughtTask(p)
  PROVE  /\ call[p].at = "up count" /\ Moved(p)
         /\ \/ /\ Save(p, Numbered(call[p].own))
               /\ call'[p] = [call[p] EXCEPT !.at = "up tasks", !.own = InitialConfig]
            \/ Fail(p) /\ behind' = TRUE /\ UNCHANGED <<config, stale, lost>>
         /\ UNCHANGED <<tasks, Kept, inside, opened, crowded, faults>>
BY FailIs DEF Kept, BroughtTask, Continue, Typed, TypeOK, history, Moved

\* A pane whose id is not captured is adrift at once.
LEMMA SplitIs ==
  ASSUME Typed, Opened, NEW p \in Procs, Split(p)
  PROVE  /\ call[p].at = "up next" /\ Moved(p) /\ KeepConfig
         /\ \/ /\ call[p].left = 0 /\ call'[p] = NoCall /\ inside' = inside \ {p}
               /\ UNCHANGED <<Kept, opened>>
            \/ /\ call[p].left # 0 /\ opened < MaxPanes /\ opened' = opened + 1
               /\ Kept' = Kept \cup {[index |-> call[p].next, pane |-> opened + 1]}
               /\ call'[p] = [call[p] EXCEPT !.at = "up boot", !.pane = opened + 1]
               /\ UNCHANGED inside
            \/ /\ Fail(p) /\ UNCHANGED inside
               /\ opened' \in {opened, opened + 1} /\ UNCHANGED Kept
         /\ UNCHANGED <<tasks, crowded, faults>>
<1> DEFINE c == call[p]
           worker == Newest([c EXCEPT !.pane = opened + 1])
           boots == [[c EXCEPT !.pane = opened + 1] EXCEPT !.at = "up boot"]
<1>1. /\ c \in Calls /\ call \in [Procs -> Calls] /\ opened \in Nat
      /\ \A w \in panes \cup adrift : w.pane <= opened
  BY Inside, BoundsAssumption DEF Typed, TypeOK, Opened
<1>2. worker = [index |-> c.next, pane |-> opened + 1] /\ worker.pane = opened + 1
  BY <1>1 DEF Newest, Calls
<1>3. worker \notin panes \cup adrift
  BY <1>1, <1>2
<1>4. boots = [c EXCEPT !.at = "up boot", !.pane = opened + 1]
  BY <1>1 DEF Calls
<1>5. CASE c.left = 0
  <2>1. call'[p] = NoCall /\ Moved(p) /\ inside' = inside \ {p}
    BY <1>1, <1>5 DEF Split, Leave, Continue, Moved
  <2> QED BY <1>5, <2>1 DEF Split, Kept, history
<1>6. CASE /\ c.left # 0 /\ opened < MaxPanes /\ opened' = opened + 1
           /\ panes' = panes \cup {worker} /\ Continue(p, boots) /\ UNCHANGED <<adrift, inside>>
  <2>1. call'[p] = boots /\ Moved(p)
    BY <1>1, <1>6 DEF Continue, Moved
  <2> HIDE DEF worker, boots
  <2>2. Kept' = Kept \cup {worker}
    BY <1>3, <1>6 DEF Kept
  <2> QED BY <1>2, <1>4, <1>6, <2>1, <2>2 DEF Split, history
<1>7. CASE /\ c.left # 0 /\ opened < MaxPanes /\ opened' = opened + 1
           /\ panes' = panes \cup {worker} /\ Fail(p) /\ adrift' = adrift \cup {worker}
           /\ UNCHANGED inside
  <2> HIDE DEF worker, boots
  <2>1. Kept' = Kept
    BY <1>3, <1>7 DEF Kept
  <2> QED BY <1>7, <2>1, FailIs DEF Split, history
<1>8. CASE c.left # 0 /\ Fail(p) /\ UNCHANGED <<panes, adrift, opened, inside>>
  BY <1>8, FailIs DEF Split, Kept, history
<1> QED BY <1>5, <1>6, <1>7, <1>8 DEF Split

LEMMA BootIs ==
  ASSUME Typed, NEW p \in Procs, Boot(p)
  PROVE  /\ call[p].at = "up boot" /\ Moved(p) /\ KeepConfig
         /\ \/ call'[p] = [call[p] EXCEPT
                 !.at = "up save",
                 !.added = @ \cup {[index |-> call[p].next, pane |-> call[p].pane]},
                 !.next = @ + 1,
                 !.cfg.workers = @ \cup {[index |-> call[p].next, pane |-> call[p].pane]},
                 !.cfg.next = call[p].next + 1]
            \/ Fail(p)
         /\ UNCHANGED <<tasks, Kept, inside, opened, crowded, faults>>
BY FailIs DEF Kept, Boot, Newest, Continue, Typed, TypeOK, history, Moved

LEMMA JoinedIs ==
  ASSUME Typed, NEW p \in Procs, Joined(p)
  PROVE  /\ call[p].at = "up save" /\ Moved(p)
         /\ \/ /\ Save(p, call[p].cfg)
               /\ call'[p] = [call[p] EXCEPT !.at = "up next", !.left = @ - 1, !.pane = 0]
            \/ Fail(p) /\ KeepConfig
         /\ UNCHANGED <<tasks, Kept, inside, opened, crowded, faults>>
BY FailIs DEF Kept, Joined, Continue, Typed, TypeOK, history, Moved

\* What lives on is adrift.
LEMMA RollbackIs ==
  ASSUME Typed, NEW p \in Procs, Rollback(p)
  PROVE  /\ call[p].at = "rollback" /\ Moved(p)
         /\ Kept' = {w \in Kept : w.pane \notin Doomed(call[p])}
         /\ call'[p] = [call[p] EXCEPT !.at = "restore", !.cfg = Undone(call[p])]
         /\ UNCHANGED <<config, tasks, inside, opened, stale, lost, crowded, behind, faults>>
<1>1. Kept' = Kept \ {w \in panes : w.pane \in Doomed(call[p])}
  BY KillTyped DEF Rollback
<1>2. Kept' = {w \in Kept : w.pane \notin Doomed(call[p])}
  BY <1>1 DEF Kept
<1> QED BY <1>2 DEF Rollback, Continue, Typed, TypeOK, history, Moved

LEMMA RestoreIs ==
  ASSUME Typed, NEW p \in Procs, Restore(p)
  PROVE  /\ call[p].at = "restore" /\ Moved(p)
         /\ \/ Save(p, call[p].cfg) /\ call'[p] = [call[p] EXCEPT !.at = "failed"]
            \/ KeepConfig /\ call'[p] = [call[p] EXCEPT !.at = "failed", !.base = <<>>]
         /\ UNCHANGED <<tasks, Kept, inside, opened, crowded, faults>>
BY DEF Kept, Restore, Continue, Typed, TypeOK, history, Moved

LEMMA LeaveIs ==
  ASSUME Typed, NEW p \in Procs, Leave(p)
  PROVE  call'[p] = NoCall /\ Moved(p) /\ inside' = inside \ {p}
BY DEF Leave, Continue, Typed, TypeOK, Moved

LEMMA ScaleDownIs ==
  ASSUME Typed, NEW p \in Procs, NEW T \in SUBSET config.workers, ScaleDown(p, T)
  PROVE  \/ UNCHANGED vars
         \/ /\ call[p].at = "idle" /\ TakeLock(p)
            /\ call'[p].at = "drain" /\ call'[p].cfg = config /\ call'[p].targets = T /\ Moved(p)
            /\ UNCHANGED <<config, tasks, Kept, opened, lost, behind, faults>>
<1> DEFINE d == [NoCall EXCEPT !.at = "drain", !.cfg = config, !.targets = T]
<1>1. d.at = "drain" /\ d.cfg = config /\ d.targets = T
  BY NoCallTyped DEF Calls
<1> HIDE DEF d
<1>2. CASE Leaves(T)
  <2>1. call[p].at = "idle" /\ TakeLock(p) /\ call' = [call EXCEPT ![p] = d]
    BY <1>2 DEF ScaleDown, MayEnter, Continue, d
  <2>2. UNCHANGED <<config, tasks, Kept, opened, lost, behind, faults>>
    BY <1>2 DEF ScaleDown, Kept, files
  <2> QED BY <1>1, <2>1, <2>2 DEF Typed, TypeOK, Moved
<1> QED BY <1>2 DEF ScaleDown

LEMMA DrainIs ==
  ASSUME Typed, NEW p \in Procs, Drain(p)
  PROVE  /\ call[p].at = "drain" /\ call'[p] = [call[p] EXCEPT !.at = "kill"] /\ Moved(p)
         /\ UNCHANGED <<config, tasks, Kept, inside, opened, stale, lost, crowded, behind, faults>>
BY DEF Kept, Drain, Continue, Typed, TypeOK, files, history, Moved

LEMMA KillTargetsIs ==
  ASSUME Typed, NEW p \in Procs, KillTargets(p)
  PROVE  /\ call[p].at = "kill" /\ call'[p] = [call[p] EXCEPT !.at = "trees"] /\ Moved(p)
         /\ Kept' = Kept \ call[p].targets
         /\ UNCHANGED <<config, tasks, inside, opened, stale, lost, crowded, behind, faults>>
BY KillTyped DEF KillTargets, Continue, Typed, TypeOK, history, Moved

LEMMA RemoveTreesIs ==
  ASSUME Typed, NEW p \in Procs, RemoveTrees(p)
  PROVE  /\ call[p].at = "trees" /\ Moved(p)
         /\ \/ call'[p] = [call[p] EXCEPT !.at = "down save"] /\ UNCHANGED inside
            \/ call'[p] = NoCall /\ inside' = inside \ {p}
         /\ UNCHANGED <<config, tasks, Kept, opened, stale, lost, crowded, behind, faults>>
BY LeaveIs DEF Kept, RemoveTrees, Continue, Typed, TypeOK, files, history, Moved

LEMMA RemovedIs ==
  ASSUME Typed, NEW p \in Procs, Removed(p)
  PROVE  /\ call[p].at = "down save" /\ call'[p] = NoCall /\ inside' = inside \ {p} /\ Moved(p)
         /\ \/ Save(p, [call[p].cfg EXCEPT !.workers = @ \ call[p].targets])
            \/ KeepConfig
         /\ UNCHANGED <<tasks, Kept, opened, crowded, faults>>
BY LeaveIs DEF Kept, Removed, history

LEMMA RaiseIs ==
  ASSUME Typed, NEW p \in Procs, Raise(p)
  PROVE  /\ call[p].at \in {"create", "number", "up next", "up boot", "drain"}
         /\ call'[p] = NoCall /\ inside' = inside \ {p} /\ Moved(p)
         /\ Kept' = {w \in Kept : call[p].at = "up boot" => w # Newest(call[p])}
         /\ behind' = (behind \/ call[p].at \in Halfway)
         /\ UNCHANGED <<config, tasks, opened, stale, lost, crowded, faults>>
BY LeaveIs DEF Kept, Raise, history

-----------------------------------------------------------------------------
(* Copies: who has not been overtaken by another's write has what is there. *)

Fresh ==
  \A p \in Procs \ stale :
    /\ call[p].at \in {"create", "number"} => call[p].cfg = config
    /\ call[p].at \in {"up number", "up count"} => call[p].own = config

\* One call moves and no file is written.
LEMMA StillFresh ==
  ASSUME Fresh, NEW p \in Procs, Moved(p), config' = config, stale \ {p} \subseteq stale',
         call'[p].at \in {"create", "number"} => p \in stale' \/ call'[p].cfg = config,
         call'[p].at \in {"up number", "up count"} => p \in stale' \/ call'[p].own = config
  PROVE  Fresh'
BY DEF Fresh, Moved

\* One call writes: the others are overtaken.
LEMMA OthersStale ==
  ASSUME NEW p \in Procs, NEW copy, Save(p, copy), Moved(p),
         call'[p].at \notin {"create", "number", "up number", "up count"}
  PROVE  Fresh'
BY DEF Fresh, Moved, Save, HoldsCopy

LEMMA InitFresh == Init => Fresh
BY NoCallTyped DEF Init, Fresh

\* A step that changes a call's place sets it, whatever else it sets.
LEMMA StepFresh == Typed /\ Opened /\ Fresh /\ [Next]_vars => Fresh'
<1> SUFFICES ASSUME Typed, Opened, Fresh, [Next]_vars PROVE Fresh'
  OBVIOUS
<1>0. CASE UNCHANGED vars
  BY <1>0 DEF vars, Fresh
<1> SUFFICES ASSUME Next PROVE Fresh'
  BY <1>0
<1> PICK p \in Procs : 
       \/ Create(p) \/ Stored(p) \/ Created(p)
       \/ \E n \in 1 .. MaxCount, k \in 0 .. 1 : ScaleUp(p, n, k)
       \/ BringTask(p) \/ StoredBrought(p) \/ BroughtTask(p) \/ Split(p) \/ Boot(p) \/ Joined(p)
       \/ Rollback(p) \/ Restore(p) \/ Failed(p)
       \/ \E T \in SUBSET config.workers : ScaleDown(p, T)
       \/ Drain(p) \/ KillTargets(p) \/ RemoveTrees(p) \/ Removed(p)
       \/ Raise(p) \/ Crash(p)
  BY DEF Next
<1>c. call[p] \in Calls
  BY Inside
<1>n. NoCall.at = "idle"
  BY NoCallTyped
<1>1. CASE Create(p)
  BY <1>1, CreateIs, StillFresh
<1>s. CASE Stored(p)
  <2>1. call'[p].at = "number" /\ call'[p].cfg = call[p].cfg
    BY <1>s, <1>c, StoredIs DEF Calls
  <2>2. p \notin stale => call[p].cfg = config
    BY <1>s, StoredIs DEF Fresh
  <2> QED BY <1>s, <2>1, <2>2, StoredIs, StillFresh
<1>2. CASE Created(p)
  BY <1>2, <1>n, CreatedIs, OthersStale
<1>3. ASSUME NEW n \in 1 .. MaxCount, NEW k \in 0 .. 1, ScaleUp(p, n, k) PROVE Fresh'
  BY <1>3, ScaleUpIs, StillFresh DEF TakeLock
<1>4. CASE BringTask(p)
  <2>1. call'[p].at \in {"up number", "up count"} => call'[p].own = config
    BY <1>4, <1>c, BringTaskIs DEF Calls
  <2>2. call'[p].at \notin {"create", "number"}
    BY <1>4, <1>c, BringTaskIs DEF Calls
  <2> QED BY <1>4, <2>1, <2>2, BringTaskIs, StillFresh
<1>f. ASSUME Fail(p) PROVE call'[p].at = "rollback" /\ Moved(p)
  BY <1>c, <1>f, FailIs DEF Calls
<1>t. CASE StoredBrought(p)
  <2>1. CASE Fail(p)
    BY <1>f, <1>t, <2>1, StoredBroughtIs, StillFresh
  <2>2. CASE call'[p] = [call[p] EXCEPT !.at = "up count", !.bring = @ - 1]
    <3>1. call'[p].at = "up count" /\ call'[p].own = call[p].own
      BY <1>c, <2>2 DEF Calls
    <3>2. p \notin stale => call[p].own = config
      BY <1>t, StoredBroughtIs DEF Fresh
    <3> QED BY <1>t, <3>1, <3>2, StoredBroughtIs, StillFresh
  <2> QED BY <1>t, <2>1, <2>2, StoredBroughtIs
<1>5. CASE BroughtTask(p)
  <2>1. CASE Fail(p) /\ UNCHANGED <<config, stale, lost>>
    BY <1>f, <2>1, StillFresh
  <2>2. CASE /\ Save(p, Numbered(call[p].own))
             /\ call'[p] = [call[p] EXCEPT !.at = "up tasks", !.own = InitialConfig]
    <3>1. call'[p].at = "up tasks"
      BY <1>c, <2>2 DEF Calls
    <3> QED BY <1>5, <2>2, <3>1, BroughtTaskIs, OthersStale
  <2> QED BY <1>5, <2>1, <2>2, BroughtTaskIs
<1>6. CASE Split(p)
  <2>1. call'[p].at \in {"idle", "up boot", "rollback"}
    BY <1>6, <1>c, <1>f, <1>n, SplitIs DEF Calls
  <2> QED BY <1>6, <2>1, SplitIs, StillFresh DEF KeepConfig
<1>7. CASE Boot(p)
  <2>1. call'[p].at \in {"up save", "rollback"}
    BY <1>7, <1>c, <1>f, BootIs DEF Calls
  <2> QED BY <1>7, <2>1, BootIs, StillFresh DEF KeepConfig
<1>8. CASE Joined(p)
  <2>1. call'[p].at \in {"up next", "rollback"}
    BY <1>8, <1>c, <1>f, JoinedIs DEF Calls
  <2>2. Save(p, call[p].cfg) => Fresh'
    BY <1>8, <2>1, JoinedIs, OthersStale
  <2>3. KeepConfig => Fresh'
    BY <1>8, <2>1, JoinedIs, StillFresh DEF KeepConfig
  <2> QED BY <1>8, <2>2, <2>3, JoinedIs
<1>9. CASE Rollback(p)
  <2>1. call'[p].at = "restore"
    BY <1>9, <1>c, RollbackIs DEF Calls
  <2> QED BY <1>9, <2>1, RollbackIs, StillFresh
<1>10. CASE Restore(p)
  <2>1. call'[p].at = "failed"
    <3>1. \/ call'[p] = [call[p] EXCEPT !.at = "failed"]
          \/ call'[p] = [call[p] EXCEPT !.at = "failed", !.base = <<>>]
      BY <1>10, RestoreIs
    <3> QED BY <1>c, <3>1 DEF Calls
  <2>2. Save(p, call[p].cfg) => Fresh'
    BY <1>10, <2>1, RestoreIs, OthersStale
  <2>3. KeepConfig => Fresh'
    BY <1>10, <2>1, RestoreIs, StillFresh DEF KeepConfig
  <2> QED BY <1>10, <2>2, <2>3, RestoreIs
<1>11. CASE Failed(p)
  <2>1. Moved(p) /\ call'[p].at = "idle" /\ UNCHANGED <<config, stale>>
    BY <1>11, <1>n, LeaveIs DEF Failed, files
  <2> QED BY <2>1, StillFresh
<1>12. ASSUME NEW T \in SUBSET config.workers, ScaleDown(p, T) PROVE Fresh'
  BY <1>12, <1>0, ScaleDownIs, StillFresh DEF TakeLock
<1>13. CASE Drain(p)
  <2>1. call'[p].at = "kill"
    BY <1>13, <1>c, DrainIs DEF Calls
  <2> QED BY <1>13, <2>1, DrainIs, StillFresh
<1>14. CASE KillTargets(p)
  <2>1. call'[p].at = "trees"
    BY <1>14, <1>c, KillTargetsIs DEF Calls
  <2> QED BY <1>14, <2>1, KillTargetsIs, StillFresh
<1>15. CASE RemoveTrees(p)
  <2>1. call'[p].at \in {"down save", "idle"}
    BY <1>15, <1>c, <1>n, RemoveTreesIs DEF Calls
  <2> QED BY <1>15, <2>1, RemoveTreesIs, StillFresh
<1>16. CASE Removed(p)
  <2>1. KeepConfig => Fresh'
    BY <1>16, <1>n, RemovedIs, StillFresh DEF KeepConfig
  <2> QED BY <1>16, <1>n, <2>1, RemovedIs, OthersStale
<1>18. CASE Raise(p)
  BY <1>18, <1>n, RaiseIs, StillFresh
<1>17. CASE Crash(p)
  <2>1. Moved(p) /\ call'[p].at = "idle" /\ UNCHANGED <<config, stale>>
    BY <1>17, <1>n, LeaveIs DEF Crash, files
  <2> QED BY <2>1, StillFresh
<1> QED
  BY <1>1, <1>2, <1>3, <1>4, <1>5, <1>6, <1>7, <1>8, <1>9, <1>10, <1>11, <1>12, <1>13,
     <1>14, <1>15, <1>16, <1>17, <1>18, <1>s, <1>t

-----------------------------------------------------------------------------
(* Task numbers *)

\* At most one call is between tasks.json and config.json, and only its task has reached
\* the counter.
NumberInv ==
  (~lost /\ ~behind) =>
    /\ IsInjective(tasks)
    /\ \A k \in DOMAIN tasks :
         /\ tasks[k] <= config.number
         /\ tasks[k] = config.number => \E q \in Procs : call[q].at \in Halfway
    /\ \A q, r \in Procs : call[q].at \in Halfway /\ call[r].at \in Halfway => q = r

\* A task takes the number its copy of the config has, when no other is halfway.
LEMMA StoresNumber ==
  ASSUME Typed, NumberInv, NEW p \in Procs, NEW copy \in Configs, Moved(p),
         p \notin stale => copy = config, config' = config, behind' = behind,
         Store(p, copy), call[p].at \notin Halfway, call'[p].at \in Halfway
  PROVE  NumberInv'
<1> SUFFICES ASSUME ~lost', ~behind'
             PROVE  NumberInv'
  BY DEF NumberInv
<1>1. /\ ~lost /\ ~behind /\ p \notin stale
      /\ \A q \in Procs \ {p} : call[q].at \notin Halfway
  BY DEF Store
<1>2. \A q \in Procs : call[q].at \notin Halfway
  BY <1>1
<1>3. config.number \in Nat \ {0}
  BY DEF Typed, TypeOK, Configs
<1>4. tasks \in Seq(Nat \ {0}) /\ tasks' = Append(tasks, config.number)
  BY <1>1 DEF Typed, TypeOK, Store
<1>5. /\ DOMAIN tasks' = 1 .. Len(tasks) + 1
      /\ \A k \in 1 .. Len(tasks) : tasks'[k] = tasks[k] /\ tasks[k] \in Nat
      /\ tasks'[Len(tasks) + 1] = config.number /\ Len(tasks) \in Nat
      /\ DOMAIN tasks = 1 .. Len(tasks)
  BY <1>3, <1>4
<1>6. \A k \in 1 .. Len(tasks) : tasks[k] <= config.number /\ tasks[k] # config.number
  BY <1>1, <1>2, <1>5 DEF NumberInv
<1>7. \A k \in 1 .. Len(tasks) + 1 : k \in 1 .. Len(tasks) \/ k = Len(tasks) + 1
  BY <1>5
<1>8. \A k \in DOMAIN tasks' : tasks'[k] <= config'.number
  BY <1>3, <1>5, <1>6, <1>7
<1>9. \A j, k \in 1 .. Len(tasks) : tasks[j] = tasks[k] => j = k
  BY <1>1, <1>5 DEF NumberInv, IsInjective
<1>10. ASSUME NEW j \in DOMAIN tasks', NEW k \in DOMAIN tasks', tasks'[j] = tasks'[k]
       PROVE  j = k
  BY <1>3, <1>5, <1>6, <1>7, <1>9, <1>10
<1>11. IsInjective(tasks')
  BY <1>10 DEF IsInjective
<1>12. \A q, r \in Procs : call'[q].at \in Halfway /\ call'[r].at \in Halfway => q = r
  BY <1>2 DEF Moved
<1> QED BY <1>8, <1>11, <1>12 DEF NumberInv

\* The counter moves on past the number that was taken.
LEMMA CountsNumber ==
  ASSUME Typed, NumberInv, NEW p \in Procs, NEW copy \in Configs, Moved(p),
         p \notin stale => copy = config, tasks' = tasks, Save(p, Numbered(copy)),
         call[p].at \in Halfway, call'[p].at \notin Halfway
  PROVE  NumberInv'
<1> SUFFICES ASSUME ~lost', ~behind'
             PROVE  NumberInv'
  BY DEF NumberInv
<1>1. ~lost /\ ~behind /\ p \notin stale
  BY DEF Save
<1>2. config'.number = config.number + 1 /\ config.number \in Nat
  BY <1>1, NumberedTyped DEF Save
<1>3. \A k \in DOMAIN tasks : tasks[k] \in Nat /\ tasks[k] <= config.number
  BY <1>1 DEF Typed, TypeOK, NumberInv
<1>4. \A k \in DOMAIN tasks' : tasks'[k] <= config'.number /\ tasks'[k] # config'.number
  BY <1>2, <1>3
<1>5. \A q \in Procs : call'[q].at \notin Halfway
  BY <1>1 DEF NumberInv, Moved
<1>6. IsInjective(tasks')
  BY <1>1 DEF NumberInv
<1> QED BY <1>4, <1>5, <1>6 DEF NumberInv

\* Another write keeps the numbers ahead, or is known to have gone back.
LEMMA KeepsNumbers ==
  ASSUME Typed, NumberInv, NEW p \in Procs, NEW copy \in Configs, Moved(p),
         tasks' = tasks, Save(p, copy),
         call[p].at \notin Halfway, call'[p].at \notin Halfway
  PROVE  NumberInv'
<1> SUFFICES ASSUME ~lost', ~behind'
             PROVE  NumberInv'
  BY DEF NumberInv
<1>1. ~lost /\ ~behind /\ ~(copy.number < config.number) /\ config' = copy
  BY DEF Save
<1>2. copy.number \in Nat /\ config.number \in Nat /\ \A k \in DOMAIN tasks : tasks[k] \in Nat
  BY DEF Typed, TypeOK, Configs
<1>3. \A q \in Procs : call'[q].at \in Halfway <=> call[q].at \in Halfway
  BY DEF Moved
<1>4. \A k \in DOMAIN tasks : tasks[k] <= config.number
  BY <1>1 DEF NumberInv
<1>5. \A k \in DOMAIN tasks :
        /\ tasks[k] <= config'.number
        /\ tasks[k] = config'.number => tasks[k] = config.number
  BY <1>1, <1>2, <1>4
<1>6. \A k \in DOMAIN tasks' :
        /\ tasks'[k] <= config'.number
        /\ tasks'[k] = config'.number => \E q \in Procs : call'[q].at \in Halfway
  BY <1>1, <1>3, <1>5 DEF NumberInv
<1>7. \A q, r \in Procs : call'[q].at \in Halfway /\ call'[r].at \in Halfway => q = r
  BY <1>1, <1>3 DEF NumberInv
<1> QED BY <1>1, <1>6, <1>7 DEF NumberInv

\* A call that leaves between the two files is known to have left the counter behind.
LEMMA NoWriteNumbers ==
  ASSUME NumberInv, NEW p \in Procs, Moved(p), UNCHANGED <<tasks, config, lost>>,
         ~behind' => /\ ~behind
                     /\ call'[p].at \in Halfway <=> call[p].at \in Halfway
  PROVE  NumberInv'
<1> SUFFICES ASSUME ~lost', ~behind'
             PROVE  NumberInv'
  BY DEF NumberInv
<1>1. \A q \in Procs : call'[q].at \in Halfway <=> call[q].at \in Halfway
  BY DEF Moved
<1>2. \A k \in DOMAIN tasks' :
        /\ tasks'[k] <= config'.number
        /\ tasks'[k] = config'.number => \E q \in Procs : call'[q].at \in Halfway
  BY <1>1 DEF NumberInv
<1>3. \A q, r \in Procs : call'[q].at \in Halfway /\ call'[r].at \in Halfway => q = r
  BY <1>1 DEF NumberInv
<1> QED BY <1>2, <1>3 DEF NumberInv

LEMMA InitNumbers == Init => NumberInv
<1> SUFFICES ASSUME Init PROVE NumberInv
  OBVIOUS
<1>1. tasks = <<>> /\ DOMAIN tasks = {}
  BY DEF Init
<1>2. \A q \in Procs : call[q].at \notin Halfway
  BY NoCallTyped DEF Init, Halfway
<1>3. IsInjective(tasks)
  BY <1>1 DEF IsInjective
<1> QED BY <1>1, <1>2, <1>3 DEF NumberInv

LEMMA StepNumbers == Typed /\ Opened /\ Fresh /\ NumberInv /\ [Next]_vars => NumberInv'
<1> SUFFICES ASSUME Typed, Opened, Fresh, NumberInv, [Next]_vars PROVE NumberInv'
  OBVIOUS
<1>0. CASE UNCHANGED vars
  BY <1>0 DEF vars, NumberInv
<1> SUFFICES ASSUME Next PROVE NumberInv'
  BY <1>0
<1> PICK p \in Procs : 
       \/ Create(p) \/ Stored(p) \/ Created(p)
       \/ \E n \in 1 .. MaxCount, k \in 0 .. 1 : ScaleUp(p, n, k)
       \/ BringTask(p) \/ StoredBrought(p) \/ BroughtTask(p) \/ Split(p) \/ Boot(p) \/ Joined(p)
       \/ Rollback(p) \/ Restore(p) \/ Failed(p)
       \/ \E T \in SUBSET config.workers : ScaleDown(p, T)
       \/ Drain(p) \/ KillTargets(p) \/ RemoveTrees(p) \/ Removed(p)
       \/ Raise(p) \/ Crash(p)
  BY DEF Next
<1>c. call[p] \in Calls
  BY Inside
<1>d. call[p].cfg \in Configs /\ call[p].own \in Configs
  BY <1>c DEF Calls
<1>n. NoCall.at = "idle"
  BY NoCallTyped
<1>f. ASSUME Fail(p) PROVE call'[p].at = "rollback" /\ Moved(p)
  BY <1>c, <1>f, FailIs DEF Calls
<1>k. ASSUME KeepConfig, Moved(p), tasks' = tasks,
             call[p].at \notin Halfway, call'[p].at \notin Halfway
      PROVE  NumberInv'
  BY <1>k, NoWriteNumbers DEF KeepConfig
<1>w. ASSUME Moved(p), UNCHANGED <<tasks, config, lost, behind>>,
             call[p].at \notin Halfway, call'[p].at \notin Halfway
      PROVE  NumberInv'
  BY <1>w, NoWriteNumbers
<1>1. CASE Create(p)
  <2>1. call[p].at \notin Halfway /\ call'[p].at \notin Halfway
    BY <1>1, CreateIs DEF Halfway
  <2> QED BY <1>1, <1>w, <2>1, CreateIs
<1>s. CASE Stored(p)
  <2>1. call[p].at \notin Halfway /\ call'[p].at \in Halfway
    BY <1>c, <1>s, StoredIs DEF Calls, Halfway
  <2>2. p \notin stale => call[p].cfg = config
    BY <1>s, StoredIs DEF Fresh
  <2> QED BY <1>d, <1>s, <2>1, <2>2, StoredIs, StoresNumber
<1>2. CASE Created(p)
  <2>1. call[p].at \in Halfway /\ call'[p].at \notin Halfway
    BY <1>n, <1>2, CreatedIs DEF Halfway
  <2>2. p \notin stale => call[p].cfg = config
    BY <1>2, CreatedIs DEF Fresh
  <2> QED BY <1>2, <1>d, <2>1, <2>2, CreatedIs, CountsNumber
<1>3. ASSUME NEW n \in 1 .. MaxCount, NEW k \in 0 .. 1, ScaleUp(p, n, k) PROVE NumberInv'
  <2>1. call[p].at \notin Halfway /\ call'[p].at \notin Halfway
    BY <1>3, ScaleUpIs DEF Halfway
  <2> QED BY <1>3, <1>w, <2>1, ScaleUpIs
<1>4. CASE BringTask(p)
  <2>1. call[p].at \notin Halfway /\ call'[p].at \notin Halfway
    BY <1>4, <1>c, BringTaskIs DEF Calls, Halfway
  <2> QED BY <1>4, <1>w, <2>1, BringTaskIs
<1>t. CASE StoredBrought(p)
  <2>1. CASE Fail(p) /\ UNCHANGED <<tasks, lost>>
    <3>1. call[p].at \notin Halfway /\ call'[p].at \notin Halfway
      BY <1>f, <1>t, <2>1, StoredBroughtIs DEF Halfway
    <3> QED BY <1>t, <1>w, <2>1, <3>1, StoredBroughtIs
  <2>2. CASE /\ Store(p, call[p].own)
             /\ call'[p] = [call[p] EXCEPT !.at = "up count", !.bring = @ - 1]
    <3>1. call[p].at \notin Halfway /\ call'[p].at \in Halfway
      BY <1>c, <1>t, <2>2, StoredBroughtIs DEF Calls, Halfway
    <3>2. p \notin stale => call[p].own = config
      BY <1>t, StoredBroughtIs DEF Fresh
    <3> QED BY <1>d, <1>t, <2>2, <3>1, <3>2, StoredBroughtIs, StoresNumber
  <2> QED BY <1>t, <2>1, <2>2, StoredBroughtIs
<1>5. CASE BroughtTask(p)
  <2>1. CASE behind' = TRUE
    BY <2>1 DEF NumberInv
  <2>2. CASE /\ Save(p, Numbered(call[p].own))
             /\ call'[p] = [call[p] EXCEPT !.at = "up tasks", !.own = InitialConfig]
    <3>1. call[p].at \in Halfway /\ call'[p].at \notin Halfway
      BY <1>c, <1>5, <2>2, BroughtTaskIs DEF Calls, Halfway
    <3>2. p \notin stale => call[p].own = config
      BY <1>5, BroughtTaskIs DEF Fresh
    <3> QED BY <1>d, <1>5, <2>2, <3>1, <3>2, BroughtTaskIs, CountsNumber
  <2> QED BY <1>5, <2>1, <2>2, BroughtTaskIs
<1>6. CASE Split(p)
  <2>1. call[p].at \notin Halfway /\ call'[p].at \notin Halfway
    BY <1>6, <1>c, <1>f, <1>n, SplitIs DEF Calls, Halfway
  <2> QED BY <1>6, <1>k, <2>1, SplitIs
<1>7. CASE Boot(p)
  <2>1. call'[p].at \in {"up save", "rollback"}
    BY <1>7, <1>c, <1>f, BootIs DEF Calls
  <2>2. call[p].at \notin Halfway /\ call'[p].at \notin Halfway
    BY <1>7, <2>1, BootIs DEF Halfway
  <2> QED BY <1>7, <1>k, <2>2, BootIs
<1>8. CASE Joined(p)
  <2>1. call[p].at \notin Halfway /\ call'[p].at \notin Halfway
    BY <1>8, <1>c, <1>f, JoinedIs DEF Calls, Halfway
  <2> QED BY <1>8, <1>d, <1>k, <2>1, JoinedIs, KeepsNumbers
<1>9. CASE Rollback(p)
  <2>1. call[p].at \notin Halfway /\ call'[p].at \notin Halfway
    BY <1>9, <1>c, RollbackIs DEF Calls, Halfway
  <2> QED BY <1>9, <1>w, <2>1, RollbackIs
<1>10. CASE Restore(p)
  <2>1. \/ call'[p] = [call[p] EXCEPT !.at = "failed"]
        \/ call'[p] = [call[p] EXCEPT !.at = "failed", !.base = <<>>]
    BY <1>10, RestoreIs
  <2>2. call'[p].at = "failed"
    BY <1>c, <2>1 DEF Calls
  <2>3. call[p].at \notin Halfway /\ call'[p].at \notin Halfway
    BY <1>10, <2>2, RestoreIs DEF Halfway
  <2> QED BY <1>10, <1>d, <1>k, <2>3, RestoreIs, KeepsNumbers
<1>11. CASE Failed(p)
  <2>1. Moved(p) /\ call'[p].at = "idle" /\ call[p].at = "failed"
    BY <1>11, <1>n, LeaveIs DEF Failed
  <2>2. call[p].at \notin Halfway /\ call'[p].at \notin Halfway
    BY <2>1 DEF Halfway
  <2> QED BY <1>11, <1>w, <2>1, <2>2 DEF Failed, files
<1>12. ASSUME NEW T \in SUBSET config.workers, ScaleDown(p, T) PROVE NumberInv'
  <2>1. CASE call[p].at = "idle" /\ call'[p].at = "drain"
    <3>1. call[p].at \notin Halfway /\ call'[p].at \notin Halfway
      BY <2>1 DEF Halfway
    <3> QED BY <1>0, <1>12, <1>w, <3>1, ScaleDownIs
  <2> QED BY <1>0, <1>12, <2>1, ScaleDownIs
<1>13. CASE Drain(p)
  <2>1. call[p].at \notin Halfway /\ call'[p].at \notin Halfway
    BY <1>13, <1>c, DrainIs DEF Calls, Halfway
  <2> QED BY <1>13, <1>w, <2>1, DrainIs
<1>14. CASE KillTargets(p)
  <2>1. call[p].at \notin Halfway /\ call'[p].at \notin Halfway
    BY <1>14, <1>c, KillTargetsIs DEF Calls, Halfway
  <2> QED BY <1>14, <1>w, <2>1, KillTargetsIs
<1>15. CASE RemoveTrees(p)
  <2>1. call[p].at \notin Halfway /\ call'[p].at \notin Halfway
    BY <1>15, <1>c, <1>n, RemoveTreesIs DEF Calls, Halfway
  <2> QED BY <1>15, <1>w, <2>1, RemoveTreesIs
<1>16. CASE Removed(p)
  <2>1. [call[p].cfg EXCEPT !.workers = @ \ call[p].targets] \in Configs
    BY <1>d DEF Configs
  <2>2. call[p].at \notin Halfway /\ call'[p].at \notin Halfway
    BY <1>16, <1>n, RemovedIs DEF Halfway
  <2> QED BY <1>16, <1>k, <2>1, <2>2, RemovedIs, KeepsNumbers
<1>17. CASE Crash(p)
  <2>1. Moved(p) /\ call'[p].at \notin Halfway
    BY <1>17, <1>n, LeaveIs DEF Crash, Halfway
  <2>2. UNCHANGED <<tasks, config, lost>> /\ behind' = (behind \/ call[p].at \in Halfway)
    BY <1>17 DEF Crash, files
  <2> QED BY <2>1, <2>2, NoWriteNumbers
<1>18. CASE Raise(p)
  <2>1. call'[p].at \notin Halfway
    BY <1>18, <1>n, RaiseIs DEF Halfway
  <2> QED BY <1>18, <2>1, RaiseIs, NoWriteNumbers
<1> QED
  BY <1>1, <1>2, <1>3, <1>4, <1>5, <1>6, <1>7, <1>8, <1>9, <1>10, <1>11, <1>12, <1>13,
     <1>14, <1>15, <1>16, <1>17, <1>18, <1>s, <1>t

\* Tasks keep different numbers although create_task takes no lock and is called inside
\* scale_up too, as long as no create_task overlaps another, none is killed or fails
\* between tasks.json and config.json, and no copy of config.json older than a
\* create_task's write is saved. Kills and failures anywhere else are included.
THEOREM NumbersTheorem == Spec => []NumbersDiffer
<1>1. Init => Typed /\ Opened /\ Fresh /\ NumberInv
  BY InitTyped, InitOpened, InitFresh, InitNumbers
<1>2. /\ Typed /\ Opened /\ Fresh /\ NumberInv /\ [Next]_vars
      => (Typed /\ Opened /\ Fresh /\ NumberInv)'
  BY StepTyped, StepOpened, StepFresh, StepNumbers
<1>3. Typed /\ NumberInv => NumbersDiffer
  <2> SUFFICES ASSUME Typed, NumberInv, ~lost, ~behind PROVE NumbersDiffer
    BY DEF NumbersDiffer
  <2>1. config.number \in Nat /\ \A k \in DOMAIN tasks : tasks[k] \in Nat
    BY DEF Typed, TypeOK, Configs
  <2>2. \A k \in DOMAIN tasks :
          tasks[k] < config.number \/ \E q \in Procs : call[q].at \in Halfway
    BY <2>1 DEF NumberInv
  <2> QED BY <2>2 DEF NumberInv, NumbersDiffer
<1> QED BY <1>1, <1>2, <1>3, PTL DEF Spec

-----------------------------------------------------------------------------
(***************************************************************************)
(* Workers and panes.  ws and next are those of config.json, ps the live   *)
(* panes that are not adrift, op the panes ever opened, c the call of the  *)
(* process inside.                                                         *)
(***************************************************************************)
Distinct(ws) == \A v, w \in ws : v.index = w.index => v = w

Below(ws, next) == \A w \in ws : w.index < next

\* what holds of config.json whoever is inside
Sound(ws, next, ps, op) ==
  /\ IsFiniteSet(ws) /\ Cardinality(ws) <= MaxWorkers
  /\ Distinct(ws) /\ Below(ws, next)
  /\ \A w \in ws \cup ps : w.pane <= op

Early == {"up tasks", "up number", "up count", "up next"}
Up    == Early \cup {"up boot", "up save", "rollback"}
Down  == {"drain", "kill", "trees", "down save"}

\* the panes a scale_up may still open
Reserve(c) ==
  IF c.at = "rollback" THEN 0 ELSE IF c.at \in {"up boot", "up save"} THEN c.left - 1 ELSE c.left

\* what a scale_up found is still there, and its roll-back will spare it
UpBase(c, ws) ==
  /\ c.base # <<>>
  /\ c.base[3] \subseteq c.base[1] /\ c.base[1] \subseteq ws
  /\ Distinct(c.base[1]) /\ Below(c.base[1], c.base[2]) /\ c.base[2] <= c.next
  /\ \A w \in c.base[1] : w.pane \notin Doomed(c)

\* what it has added has fresh numbers, is saved worker by worker, and lives
UpAdded(c, ws, next, ps, op) ==
  /\ c.cfg.workers = c.base[1] \cup c.added /\ ws \subseteq c.cfg.workers
  /\ \A w \in c.added : c.base[2] <= w.index /\ w.index < c.next /\ w.pane <= op
  /\ Distinct(c.added)
  /\ c.base[3] \subseteq ps /\ ps \subseteq c.base[3] \cup c.added \cup {Newest(c)}
  /\ c.at # "rollback" => c.cfg.next = c.next /\ c.added \subseteq ps
  /\ c.at \in Early \cup {"up boot"} => ws = c.cfg.workers /\ next = c.next
  /\ c.at \in Early \cup {"up save"} => ps = c.base[3] \cup c.added
  /\ c.at = "up boot" => Newest(c) \in ps

UpRoom(c, ps) ==
  /\ IsFiniteSet(c.cfg.workers \cup ps)
  /\ Cardinality(c.cfg.workers \cup ps) + Reserve(c) <= MaxWorkers

Stage(c, ws, next, ps, op) ==
  /\ c.at \in Up => UpBase(c, ws) /\ UpAdded(c, ws, next, ps, op) /\ UpRoom(c, ps)
  /\ c.at = "restore" =>
       /\ c.base # <<>>
       /\ c.cfg.workers = c.base[1] /\ c.cfg.next = c.base[2] /\ ps = c.base[3]
       /\ c.base[3] \subseteq c.base[1] /\ c.base[1] \subseteq ws
       /\ Below(c.base[1], c.base[2])
  /\ c.at = "failed" =>
       /\ ps \subseteq ws
       /\ c.base # <<>> => ws = c.base[1] /\ next = c.base[2] /\ ps = c.base[3]
  /\ c.at \in Down =>
       /\ c.cfg.workers = ws /\ c.cfg.next = next
       /\ ps \subseteq ws
       /\ c.at \in {"trees", "down save"} => ps \cap c.targets = {}

\* what is found, for a call whose steps are taken one by one below
Found(c, ws, next, ps, op) ==
  /\ c \in Calls /\ ws \in SUBSET Workers /\ next \in Nat /\ ps \in SUBSET Workers /\ op \in Nat
  /\ Sound(ws, next, ps, op)
  /\ Stage(c, ws, next, ps, op)

LEMMA SoundPart ==
  ASSUME NEW ws, NEW next, NEW ps, NEW op, Sound(ws, next, ps, op),
         NEW vs \in SUBSET ws, NEW qs \in SUBSET ps, NEW n, Below(vs, n)
  PROVE  Sound(vs, n, qs, op)
BY FS_Subset, FS_CardinalityType, WorkersAssumption DEF Sound, Distinct, Below

LEMMA WorkerFields ==
  ASSUME NEW w \in Workers
  PROVE  w.index \in Nat /\ w.pane \in Nat /\ w.pane # 0
BY BoundsAssumption DEF Workers, PaneIds

LEMMA ThreeParts ==
  ASSUME NEW x, NEW y, NEW z
  PROVE  /\ <<x, y, z>> # <<>>
         /\ <<x, y, z>>[1] = x /\ <<x, y, z>>[2] = y /\ <<x, y, z>>[3] = z
<1>1. Len(<<x, y, z>>) = 3 /\ Len(<<>>) = 0
  OBVIOUS
<1> QED BY <1>1

LEMMA OneLess ==
  ASSUME NEW k \in Nat, k # 0
  PROVE  k - 1 \in Nat
OBVIOUS

LEMMA Fewer ==
  ASSUME NEW k \in Nat, NEW l \in Nat, k + l <= MaxWorkers
  PROVE  k + 0 <= MaxWorkers /\ k <= MaxWorkers
BY WorkersAssumption

LEMMA Order ==
  /\ \A j, k \in Nat : j < k => j # k
  /\ \A i, j, k \in Nat : i <= j /\ j <= k => i <= k
  /\ \A i, j, k \in Nat : i <= j /\ j < k => i <= k
  /\ \A i, j, k \in Nat : i < j /\ j < k => i < k
OBVIOUS

LEMMA NoMore == \A j, k \in Nat : j = k => j <= k
OBVIOUS

LEMMA NextPane ==
  ASSUME NEW k \in Nat, NEW op \in Nat, NEW pane \in Nat, k <= op, op < pane
  PROVE  k # pane /\ k <= pane
OBVIOUS

LEMMA CallFields ==
  ASSUME NEW c \in Calls
  PROVE  /\ c.left \in Nat /\ c.next \in Nat /\ c.pane \in Nat
         /\ c.added \subseteq Workers /\ c.targets \subseteq Workers
         /\ c.cfg.workers \subseteq Workers /\ c.cfg.next \in Nat
         /\ c.base # <<>> => c.base[1] \subseteq Workers /\ c.base[2] \in Nat /\ c.base[3] \subseteq Workers
BY BoundsAssumption DEF Calls, Configs

\* The same holds when more panes have been opened.
LEMMA MoreOpened ==
  ASSUME NEW c, NEW ws, NEW next, NEW ps, NEW op, Found(c, ws, next, ps, op),
         NEW more \in {op, op + 1}
  PROVE  Found(c, ws, next, ps, more)
<1>1. c \in Calls /\ ws \subseteq Workers /\ ps \subseteq Workers /\ op \in Nat
  BY DEF Found
<1>2. more \in Nat /\ \A k \in Nat : k <= op => k <= more
  BY <1>1
<1>3. Sound(ws, next, ps, more)
  <2>1. \A w \in ws \cup ps : w.pane \in Nat
    BY <1>1, WorkerFields
  <2> QED BY <1>2, <2>1 DEF Found, Sound
<1>4. UpAdded(c, ws, next, ps, op) => UpAdded(c, ws, next, ps, more)
  <2>1. \A w \in c.added : w.pane \in Nat
    BY <1>1, CallFields, WorkerFields
  <2> QED BY <1>2, <2>1 DEF UpAdded
<1>5. Stage(c, ws, next, ps, more)
  BY <1>4 DEF Found, Stage
<1> QED BY <1>2, <1>3, <1>5 DEF Found

\* scale_up begins
LEMMA StartsUp ==
  ASSUME NEW ws \in SUBSET Workers, NEW next \in Nat, NEW ps \in SUBSET ws, NEW op \in Nat,
         Sound(ws, next, ps, op),
         NEW d \in Calls, d.at = "up tasks", d.cfg.workers = ws, d.cfg.next = next,
         d.next = next, d.pane = 0, d.added = {},
         d.base # <<>>, d.base[1] = ws, d.base[2] = next, d.base[3] = ps,
         Cardinality(ws) + d.left <= MaxWorkers
  PROVE  Stage(d, ws, next, ps, op)
<1>1. UpBase(d, ws)
  <2>1. \A w \in ws : w.pane \notin Doomed(d)
    BY WorkerFields DEF Doomed
  <2>2. next <= next /\ Distinct(ws) /\ Below(ws, next)
    BY NoMore DEF Sound
  <2>3. Distinct(d.base[1]) /\ Below(d.base[1], d.base[2])
    BY <2>2 DEF Distinct, Below
  <2> QED BY <2>1, <2>2, <2>3 DEF UpBase
<1>2. UpAdded(d, ws, next, ps, op)
  BY DEF UpAdded, Early, Distinct
<1>3. UpRoom(d, ps)
  <2>1. ws \cup ps = ws
    OBVIOUS
  <2> QED BY <2>1 DEF UpRoom, Reserve, Sound
<1> QED BY <1>1, <1>2, <1>3 DEF Stage, Up, Early, Down

\* It goes about its tasks.
LEMMA StaysEarly ==
  ASSUME NEW c, NEW ws, NEW next, NEW ps, NEW op, Found(c, ws, next, ps, op), c.at \in Early,
         NEW d, d.at \in Early, d.cfg = c.cfg, d.left = c.left, d.next = c.next,
         d.pane = c.pane, d.added = c.added, d.base = c.base
  PROVE  Stage(d, ws, next, ps, op)
BY DEF Found, Stage, UpBase, UpAdded, UpRoom, Reserve, Newest, Doomed, Early, Up, Down

\* It fails.
LEMMA FailsUp ==
  ASSUME NEW c, NEW ws, NEW next, NEW ps, NEW op, Found(c, ws, next, ps, op),
         c.at \in Up, c.at \in {"up boot", "up save"} => c.left # 0,
         NEW d, d.at = "rollback", d.cfg = c.cfg, d.left = c.left, d.next = c.next,
         d.pane = c.pane, d.added = c.added, d.base = c.base
  PROVE  Stage(d, ws, next, ps, op)
<1>1. UpBase(c, ws) /\ UpAdded(c, ws, next, ps, op) /\ UpRoom(c, ps) /\ c.left \in Nat
  BY CallFields DEF Found, Stage
<1>2. UpBase(d, ws)
  BY <1>1 DEF UpBase, Doomed
<1>3. UpAdded(d, ws, next, ps, op)
  BY <1>1 DEF UpAdded, Newest, Early
<1>4. UpRoom(d, ps)
  <2>1. Reserve(c) \in Nat /\ Reserve(d) = 0
    <3>1. c.left # 0 => c.left - 1 \in Nat
      BY <1>1, OneLess
    <3> QED BY <1>1, <3>1 DEF Reserve
  <2>2. IsFiniteSet(c.cfg.workers \cup ps) /\ Cardinality(c.cfg.workers \cup ps) \in Nat
    BY <1>1, FS_CardinalityType DEF UpRoom
  <2>3. Cardinality(c.cfg.workers \cup ps) + Reserve(c) <= MaxWorkers
    BY <1>1 DEF UpRoom
  <2>4. Cardinality(c.cfg.workers \cup ps) + 0 <= MaxWorkers
    BY <2>1, <2>2, <2>3, Fewer
  <2> QED BY <2>1, <2>2, <2>4 DEF UpRoom
<1> QED BY <1>2, <1>3, <1>4 DEF Stage, Up, Early, Down

\* A pane that had a place kept for it.
LEMMA OneMore ==
  ASSUME NEW S, IsFiniteSet(S), NEW x, NEW left \in Nat, Cardinality(S) + left <= MaxWorkers
  PROVE  IsFiniteSet(S \cup {x}) /\ Cardinality(S \cup {x}) + (left - 1) <= MaxWorkers
<1>1. /\ IsFiniteSet(S \cup {x}) /\ Cardinality(S) \in Nat
      /\ Cardinality(S \cup {x}) \in {Cardinality(S), Cardinality(S) + 1}
  BY FS_AddElement, FS_CardinalityType
<1> DEFINE k == Cardinality(S)
           m == Cardinality(S \cup {x})
<1>2. k \in Nat /\ m \in {k, k + 1} /\ k + left <= MaxWorkers
  BY <1>1
<1> HIDE DEF k, m
<1>3. m + (left - 1) <= MaxWorkers
  BY <1>2, WorkersAssumption
<1> QED BY <1>1, <1>3 DEF m

\* It opens a pane.
LEMMA OpensPane ==
  ASSUME NEW c, NEW ws, NEW next, NEW ps, NEW op, Found(c, ws, next, ps, op),
         c.at = "up next", c.left # 0,
         NEW d, d.at = "up boot", d.cfg = c.cfg, d.left = c.left, d.next = c.next,
         NEW pane \in Nat, op < pane,
         d.pane = pane, d.added = c.added, d.base = c.base
  PROVE  /\ Stage(d, ws, next, ps \cup {Newest(d)}, pane)
         /\ Sound(ws, next, ps \cup {Newest(d)}, pane)
<1>1. /\ UpBase(c, ws) /\ UpAdded(c, ws, next, ps, op) /\ UpRoom(c, ps)
      /\ c.left \in Nat /\ c.cfg.workers \subseteq Workers /\ c.added \subseteq Workers
      /\ op \in Nat /\ ws \subseteq Workers /\ ps \subseteq Workers
      /\ Sound(ws, next, ps, op)
  BY CallFields DEF Found, Stage, Up, Early
<1>2. /\ \A w \in ws \cup ps : w.pane <= op /\ w.pane \in Nat /\ w.pane # 0
      /\ \A w \in c.added : w.pane <= op /\ w.pane \in Nat
  BY <1>1, WorkerFields DEF Sound, UpAdded
<1>n. /\ \A w \in ws \cup ps : w.pane # pane /\ w.pane <= pane
      /\ \A w \in c.added : w.pane <= pane
  BY <1>1, <1>2, NextPane
<1>3. UpBase(d, ws)
  <2>1. ASSUME NEW w \in c.base[1] PROVE w.pane \notin Doomed(d)
    <3>1. w \in ws /\ w.pane \notin Doomed(c)
      BY <1>1 DEF UpBase
    <3> QED BY <1>n, <3>1 DEF Doomed
  <2> QED BY <1>1, <2>1 DEF UpBase
<1>4. UpAdded(d, ws, next, ps \cup {Newest(d)}, pane)
  <2>1. \A w \in c.added : w.pane <= pane
    BY <1>n
  <2> QED BY <1>1, <2>1 DEF UpAdded, Early
<1>5. UpRoom(d, ps \cup {Newest(d)})
  <2>1. c.cfg.workers \cup (ps \cup {Newest(d)}) = (c.cfg.workers \cup ps) \cup {Newest(d)}
    OBVIOUS
  <2>2. IsFiniteSet(c.cfg.workers \cup ps)
    BY <1>1 DEF UpRoom
  <2>3. Cardinality(c.cfg.workers \cup ps) + c.left <= MaxWorkers
    BY <1>1 DEF UpRoom, Reserve
  <2> QED BY <1>1, <2>1, <2>2, <2>3, OneMore DEF UpRoom, Reserve
<1>6. Sound(ws, next, ps \cup {Newest(d)}, pane)
  <2>1. Newest(d).pane = pane
    BY DEF Newest
  <2>2. \A w \in ws \cup (ps \cup {Newest(d)}) : w.pane <= pane
    <3>1. pane <= pane
      BY NoMore
    <3> QED BY <1>n, <2>1, <3>1
  <2> QED BY <1>1, <2>2 DEF Sound
<1> QED BY <1>3, <1>4, <1>5, <1>6 DEF Stage, Up, Early, Down

\* Its worker boots and joins the copy.
LEMMA JoinsCopy ==
  ASSUME NEW c, NEW ws, NEW next, NEW ps, NEW op, Found(c, ws, next, ps, op),
         c.at = "up boot",
         NEW d, d.at = "up save", d.left = c.left, d.pane = c.pane, d.base = c.base,
         NEW after \in Nat, c.next < after,
         d.next = after, d.cfg.next = after,
         d.added = c.added \cup {Newest(c)},
         d.cfg.workers = c.cfg.workers \cup {Newest(c)}
  PROVE  Stage(d, ws, next, ps, op)
<1>1. /\ UpBase(c, ws) /\ UpAdded(c, ws, next, ps, op) /\ UpRoom(c, ps)
      /\ c.left \in Nat /\ c.next \in Nat /\ c.added \subseteq Workers
      /\ c.base[1] \subseteq Workers /\ c.base[2] \in Nat
      /\ Sound(ws, next, ps, op)
  BY CallFields DEF Found, Stage, Up, Early, UpBase
<1>2. Newest(c).index = c.next /\ Newest(c).pane = c.pane /\ Newest(c) \in ps /\ c.pane <= op
  <2>1. Newest(c).index = c.next /\ Newest(c).pane = c.pane
    BY DEF Newest
  <2>2. Newest(c) \in ps
    BY <1>1 DEF UpAdded
  <2>3. Newest(c).pane <= op
    BY <1>1, <2>2 DEF Sound
  <2> QED BY <2>1, <2>2, <2>3
<1>3. UpBase(d, ws)
  <2>1. Doomed(d) = Doomed(c)
    BY <1>2 DEF Doomed
  <2>2. c.base[2] <= c.next
    BY <1>1 DEF UpBase
  <2>3. c.base[2] <= after
    BY <1>1, <2>2, Order
  <2> QED BY <1>1, <2>1, <2>3 DEF UpBase
<1>4. \A w \in c.added : /\ w.index \in Nat /\ c.base[2] <= w.index /\ w.index < after
                         /\ w.index # c.next /\ w.pane <= op
  <2>1. \A w \in c.added : /\ w.index \in Nat /\ c.base[2] <= w.index /\ w.index < c.next
                           /\ w.pane <= op
    BY <1>1, WorkerFields DEF UpAdded
  <2> QED BY <1>1, <2>1, Order
<1>5. Distinct(d.added)
  <2>1. Distinct(c.added)
    BY <1>1 DEF UpAdded
  <2> QED BY <1>2, <1>4, <2>1 DEF Distinct
<1>6. \A w \in d.added : c.base[2] <= w.index /\ w.index < after /\ w.pane <= op
  <2>1. c.base[2] <= c.next
    BY <1>1 DEF UpBase
  <2> QED BY <1>2, <1>4, <2>1
<1>7. UpAdded(d, ws, next, ps, op)
  <2>1. /\ c.cfg.workers = c.base[1] \cup c.added /\ ws = c.cfg.workers
        /\ c.base[3] \subseteq ps /\ c.added \subseteq ps
        /\ ps \subseteq c.base[3] \cup c.added \cup {Newest(c)}
    BY <1>1 DEF UpAdded
  <2> QED BY <1>2, <1>5, <1>6, <2>1 DEF UpAdded, Early
<1>8. UpRoom(d, ps)
  <2>1. d.cfg.workers \cup ps = c.cfg.workers \cup ps
    BY <1>2
  <2> QED BY <1>1, <2>1 DEF UpRoom, Reserve
<1> QED BY <1>3, <1>7, <1>8 DEF Stage, Up, Early, Down

\* Numbers that a scale_up gave follow those it found.
LEMMA AddedAreNew ==
  ASSUME NEW c \in Calls, NEW ws, NEW next, NEW ps, NEW op,
         UpBase(c, ws), UpAdded(c, ws, next, ps, op)
  PROVE  /\ c.base[1] \cap c.added = {}
         /\ Distinct(c.base[1] \cup c.added) /\ Below(c.base[1] \cup c.added, c.next)
         /\ Newest(c).index = c.next
<1>1. /\ \A w \in c.base[1] : w.index \in Nat /\ w.index < c.base[2]
      /\ \A w \in c.added : w.index \in Nat /\ c.base[2] <= w.index /\ w.index < c.next
      /\ c.base[2] \in Nat /\ c.next \in Nat /\ c.base[2] <= c.next
  BY CallFields, WorkerFields DEF UpBase, UpAdded, Below
<1>2. \A v \in c.base[1], w \in c.added : v.index # w.index
  BY <1>1
<1>3. Distinct(c.base[1]) /\ Distinct(c.added)
  BY DEF UpBase, UpAdded
<1>4. Distinct(c.base[1] \cup c.added)
  BY <1>2, <1>3 DEF Distinct
<1>5. Below(c.base[1] \cup c.added, c.next)
  BY <1>1 DEF Below
<1> QED BY <1>2, <1>4, <1>5 DEF Newest

\* The workers of the copy, and the live panes, have room.
LEMMA RoomFor ==
  ASSUME NEW c \in Calls, NEW ps, UpRoom(c, ps), c.at \in {"up boot", "up save"} => c.left # 0
  PROVE  /\ IsFiniteSet(c.cfg.workers) /\ Cardinality(c.cfg.workers) <= MaxWorkers
         /\ IsFiniteSet(ps) /\ Cardinality(ps) <= MaxWorkers
<1> DEFINE all == c.cfg.workers \cup ps
<1>1. Reserve(c) \in Nat
  <2>1. c.left \in Nat /\ (c.left # 0 => c.left - 1 \in Nat)
    BY CallFields, OneLess
  <2> QED BY <2>1 DEF Reserve
<1>2. IsFiniteSet(all) /\ Cardinality(all) \in Nat /\ Cardinality(all) + Reserve(c) <= MaxWorkers
  BY FS_CardinalityType DEF UpRoom
<1> HIDE DEF all
<1>3. Cardinality(all) <= MaxWorkers
  BY <1>1, <1>2, Fewer
<1>4. ASSUME NEW S \in SUBSET all PROVE IsFiniteSet(S) /\ Cardinality(S) <= MaxWorkers
  <2>1. IsFiniteSet(S) /\ Cardinality(S) <= Cardinality(all) /\ Cardinality(S) \in Nat
    BY <1>2, FS_Subset, FS_CardinalityType
  <2> QED BY <1>2, <1>3, <2>1, Order, WorkersAssumption
<1>5. c.cfg.workers \in SUBSET all /\ ps \in SUBSET all
  BY DEF all
<1> QED BY <1>4, <1>5

\* It saves the copy.
LEMMA SavesWorker ==
  ASSUME NEW c, NEW ws, NEW next, NEW ps, NEW op, Found(c, ws, next, ps, op),
         c.at = "up save", c.left # 0,
         NEW d, d.at = "up next", d.cfg = c.cfg, d.next = c.next, d.pane = 0,
         d.left = c.left - 1, d.added = c.added, d.base = c.base
  PROVE  Stage(d, c.cfg.workers, c.cfg.next, ps, op) /\ Sound(c.cfg.workers, c.cfg.next, ps, op)
<1>1. /\ UpBase(c, ws) /\ UpAdded(c, ws, next, ps, op) /\ UpRoom(c, ps)
      /\ c \in Calls /\ c.left \in Nat /\ Sound(ws, next, ps, op)
      /\ c.added \subseteq Workers /\ c.base[1] \subseteq Workers
  BY CallFields DEF Found, Stage, Up, Early, UpBase
<1>2. /\ c.cfg.workers = c.base[1] \cup c.added /\ c.cfg.next = c.next
      /\ ps = c.base[3] \cup c.added
  BY <1>1 DEF UpAdded, Early
<1>3. UpBase(d, c.cfg.workers)
  <2>1. \A w \in c.base[1] : w.pane # 0
    BY <1>1, WorkerFields
  <2>2. \A w \in c.base[1] : w.pane \notin Doomed(d)
    BY <1>1, <2>1 DEF UpBase, Doomed
  <2> QED BY <1>1, <1>2, <2>2 DEF UpBase
<1>4. UpAdded(d, c.cfg.workers, c.cfg.next, ps, op)
  BY <1>1, <1>2 DEF UpAdded, Early
<1>5. UpRoom(d, ps)
  BY <1>1 DEF UpRoom, Reserve
<1>6. Sound(c.cfg.workers, c.cfg.next, ps, op)
  <2>1. Distinct(c.cfg.workers) /\ Below(c.cfg.workers, c.cfg.next)
    BY <1>1, <1>2, AddedAreNew
  <2>2. IsFiniteSet(c.cfg.workers) /\ Cardinality(c.cfg.workers) <= MaxWorkers
    BY <1>1, RoomFor
  <2>3. \A w \in c.cfg.workers \cup ps : w.pane <= op
    BY <1>1, <1>2 DEF Sound, UpBase, UpAdded
  <2> QED BY <2>1, <2>2, <2>3 DEF Sound
<1> QED BY <1>3, <1>4, <1>5, <1>6 DEF Stage, Up, Early, Down

\* It kills the panes of the workers it added, and takes them off its copy.
LEMMA RollsBack ==
  ASSUME NEW c, NEW ws, NEW next, NEW ps, NEW op, Found(c, ws, next, ps, op),
         c.at = "rollback",
         NEW d, d.at = "restore", d.base = c.base,
         d.cfg.workers = c.cfg.workers \ c.added, d.cfg.next = c.base[2]
  PROVE  Stage(d, ws, next, {w \in ps : w.pane \notin Doomed(c)}, op)
<1>1. UpBase(c, ws) /\ UpAdded(c, ws, next, ps, op) /\ c \in Calls
  BY DEF Found, Stage, Up, Early
<1>2. c.cfg.workers \ c.added = c.base[1]
  BY <1>1, AddedAreNew DEF UpAdded
<1>3. {w \in ps : w.pane \notin Doomed(c)} = c.base[3]
  <2>1. \A w \in c.base[3] : w \in ps /\ w.pane \notin Doomed(c)
    BY <1>1 DEF UpBase, UpAdded
  <2>2. \A w \in c.added \cup {Newest(c)} : w.pane \in Doomed(c)
    BY DEF Doomed, Newest
  <2>3. ps \subseteq c.base[3] \cup c.added \cup {Newest(c)}
    BY <1>1 DEF UpAdded
  <2> QED BY <2>1, <2>2, <2>3
<1> QED BY <1>1, <1>2, <1>3 DEF Stage, UpBase, Up, Early, Down

\* It saves that copy, or fails to.
LEMMA Restores ==
  ASSUME NEW c, NEW ws, NEW next, NEW ps, NEW op, Found(c, ws, next, ps, op),
         c.at = "restore", NEW d, d.at = "failed"
  PROVE  /\ d.base = c.base =>
              /\ Stage(d, c.cfg.workers, c.cfg.next, ps, op)
              /\ Sound(c.cfg.workers, c.cfg.next, ps, op)
         /\ d.base = <<>> => Stage(d, ws, next, ps, op)
<1>1. /\ c.cfg.workers = c.base[1] /\ c.cfg.next = c.base[2] /\ ps = c.base[3]
      /\ c.base[3] \subseteq c.base[1] /\ c.base[1] \subseteq ws
      /\ Below(c.base[1], c.base[2])
  BY DEF Found, Stage
<1>2. Sound(c.cfg.workers, c.cfg.next, ps, op)
  <2>1. Sound(ws, next, ps, op) /\ c.cfg.workers \in SUBSET ws /\ Below(c.cfg.workers, c.cfg.next)
    BY <1>1 DEF Found
  <2> QED BY <2>1, SoundPart
<1> QED BY <1>1, <1>2 DEF Stage, Up, Early, Down

\* What a scaling that ends leaves behind.
LEMMA Ends ==
  ASSUME NEW c, NEW ws, NEW next, NEW ps, NEW op, Found(c, ws, next, ps, op),
         c.at \in {"up next", "failed", "drain", "trees", "down save"}
  PROVE  ps \subseteq ws
BY DEF Found, Stage, UpBase, UpAdded, Up, Early, Down

\* One that raises lets go of the pane it has not saved.
LEMMA LetsGo ==
  ASSUME NEW c, NEW ws, NEW next, NEW ps, NEW op, Found(c, ws, next, ps, op),
         c.at = "up boot"
  PROVE  ps \ {Newest(c)} \subseteq ws
BY DEF Found, Stage, UpBase, UpAdded, Up, Early

\* At no stage do two live workers have one number, nor are there too many.
LEMMA Alike ==
  ASSUME NEW c, NEW ws, NEW next, NEW ps, NEW op, Found(c, ws, next, ps, op),
         c.at \notin Lockless, c.at \in {"up boot", "up save"} => c.left # 0
  PROVE  Distinct(ps) /\ Cardinality(ps) <= MaxWorkers
<1>1. CASE c.at \in Up
  <2>1. /\ UpBase(c, ws) /\ UpAdded(c, ws, next, ps, op) /\ UpRoom(c, ps) /\ c \in Calls
    BY <1>1 DEF Found, Stage
  <2>2. /\ Distinct(c.base[1] \cup c.added) /\ Below(c.base[1] \cup c.added, c.next)
        /\ Newest(c).index = c.next /\ ps \subseteq c.base[1] \cup c.added \cup {Newest(c)}
    BY <2>1, AddedAreNew DEF UpBase, UpAdded
  <2>3. \A w \in c.base[1] \cup c.added : w.index # c.next
    <3>1. c.next \in Nat /\ \A w \in c.base[1] \cup c.added : w.index \in Nat
      BY <2>1, CallFields, WorkerFields DEF UpBase
    <3> QED BY <2>2, <3>1, Order DEF Below
  <2>4. Distinct(ps)
    BY <2>2, <2>3 DEF Distinct
  <2> QED BY <2>1, <2>4, RoomFor
<1>2. CASE c.at \notin Up
  <2>1. ps \subseteq ws /\ Sound(ws, next, ps, op)
    BY <1>2 DEF Found, Stage, Calls, Locations, Up, Early, Down
  <2>2. IsFiniteSet(ws) /\ Cardinality(ws) <= MaxWorkers /\ ps \in SUBSET ws
    BY <2>1 DEF Sound
  <2>3. Cardinality(ps) <= Cardinality(ws) /\ Cardinality(ps) \in Nat /\ Cardinality(ws) \in Nat
    BY <2>2, FS_Subset, FS_CardinalityType
  <2>4. Cardinality(ps) <= MaxWorkers
    BY <2>2, <2>3, Order, WorkersAssumption
  <2>5. Distinct(ps)
    BY <2>1 DEF Sound, Distinct
  <2> QED BY <2>4, <2>5
<1> QED BY <1>1, <1>2

\* scale_down kills the panes of its targets.
LEMMA KillsPanes ==
  ASSUME NEW c, NEW ws, NEW next, NEW ps, NEW op, Found(c, ws, next, ps, op),
         c.at = "kill",
         NEW d, d.at = "trees", d.cfg = c.cfg, d.targets = c.targets
  PROVE  Stage(d, ws, next, ps \ c.targets, op) /\ Sound(ws, next, ps \ c.targets, op)
<1>1. c.cfg.workers = ws /\ c.cfg.next = next /\ ps \subseteq ws /\ Sound(ws, next, ps, op)
  BY DEF Found, Stage, Up, Early, Down
<1>2. Stage(d, ws, next, ps \ c.targets, op)
  BY <1>1 DEF Stage, Up, Early, Down
<1> QED BY <1>1, <1>2 DEF Sound

\* scale_down begins, goes on, and takes its targets off its copy.
LEMMA DownStages ==
  ASSUME NEW ws, NEW next, NEW ps, NEW op, NEW d
  PROVE  /\ (/\ ps \subseteq ws /\ d.at = "drain" /\ d.cfg.workers = ws /\ d.cfg.next = next)
              => Stage(d, ws, next, ps, op)
         /\ \A c : (/\ Found(c, ws, next, ps, op) /\ c.at = "drain" /\ d.at = "kill"
                    /\ d.cfg = c.cfg)
                     => Stage(d, ws, next, ps, op)
         /\ \A c : (/\ Found(c, ws, next, ps, op) /\ c.at = "trees" /\ d.at = "down save"
                    /\ d.cfg = c.cfg /\ d.targets = c.targets)
                     => Stage(d, ws, next, ps, op)
         /\ \A c : (Found(c, ws, next, ps, op) /\ c.at = "down save")
                     => /\ ps \subseteq c.cfg.workers \ c.targets /\ c.cfg.next = next
                        /\ Sound(c.cfg.workers \ c.targets, next, ps, op)
<1> USE DEF Stage, Up, Early, Down
<1>1. (/\ ps \subseteq ws /\ d.at = "drain" /\ d.cfg.workers = ws /\ d.cfg.next = next)
        => Stage(d, ws, next, ps, op)
  OBVIOUS
<1>2. ASSUME NEW c, Found(c, ws, next, ps, op), c.at = "drain", d.at = "kill", d.cfg = c.cfg
      PROVE  Stage(d, ws, next, ps, op)
  BY <1>2 DEF Found
<1>4. ASSUME NEW c, Found(c, ws, next, ps, op), c.at = "trees", d.at = "down save",
             d.cfg = c.cfg, d.targets = c.targets
      PROVE  Stage(d, ws, next, ps, op)
  BY <1>4 DEF Found
<1>5. ASSUME NEW c, Found(c, ws, next, ps, op), c.at = "down save"
      PROVE  /\ ps \subseteq c.cfg.workers \ c.targets /\ c.cfg.next = next
             /\ Sound(c.cfg.workers \ c.targets, next, ps, op)
  <2>1. c.cfg.workers = ws /\ c.cfg.next = next /\ ps \subseteq ws /\ ps \cap c.targets = {}
    BY <1>5 DEF Found
  <2>2. Below(ws \ c.targets, next) /\ Sound(ws, next, ps, op)
    BY <1>5 DEF Found, Sound, Below
  <2> QED BY <2>1, <2>2, SoundPart
<1> QED BY <1>1, <1>2, <1>4, <1>5

-----------------------------------------------------------------------------
(* The invariant of the scalings *)

ScalingInv ==
  Calm =>
    /\ Sound(config.workers, config.next, Kept, opened)
    /\ \A p, q \in inside : p = q
    /\ inside = {} => Kept \subseteq config.workers
    /\ \A p \in inside : Stage(call[p], config.workers, config.next, Kept, opened)

\* The process inside finds what is described above.
LEMMA WhatIsFound ==
  ASSUME Typed, ScalingInv, Calm, NEW p \in inside
  PROVE  /\ Found(call[p], config.workers, config.next, Kept, opened)
         /\ inside = {p} /\ p \in Procs
<1>1. p \in Procs /\ inside = {p}
  BY DEF ScalingInv, Typed, TypeOK
<1>2. /\ call[p] \in Calls /\ config.workers \in SUBSET Workers /\ config.next \in Nat
      /\ Kept \in SUBSET Workers /\ opened \in Nat
  BY <1>1, BoundsAssumption DEF Typed, TypeOK, Configs, Kept
<1> QED BY <1>1, <1>2 DEF Found, ScalingInv

\* Its step brings it to its next stage, or it leaves.
LEMMA OneInside ==
  ASSUME Typed, NEW p \in Procs, inside = {p},
         Sound(config'.workers, config'.next, Kept', opened'),
         \/ /\ inside' = inside
            /\ Stage(call'[p], config'.workers, config'.next, Kept', opened')
         \/ /\ inside' = inside \ {p}
            /\ Kept' \subseteq config'.workers
  PROVE  ScalingInv'
BY DEF ScalingInv

\* Somebody outside does what concerns nobody inside.
LEMMA Outside ==
  ASSUME Typed, ScalingInv, Calm, NEW p \in Procs \ inside, Moved(p),
         UNCHANGED <<Kept, inside, opened>>,
         config'.workers = config.workers, config'.next = config.next
  PROVE  ScalingInv'
<1>1. \A q \in inside : call'[q] = call[q]
  BY DEF Moved, Typed, TypeOK
<1>2. /\ Sound(config'.workers, config'.next, Kept', opened')
      /\ \A q, r \in inside' : q = r
      /\ inside' = {} => Kept' \subseteq config'.workers
  BY DEF ScalingInv
<1>3. \A q \in inside' : Stage(call'[q], config'.workers, config'.next, Kept', opened')
  BY <1>1 DEF ScalingInv
<1> QED BY <1>2, <1>3 DEF ScalingInv

\* Somebody enters.
LEMMA Enters ==
  ASSUME Typed, ScalingInv, NEW p \in Procs, TakeLock(p), Calm', Calm,
         UNCHANGED <<config, Kept, opened>>,
         Kept \subseteq config.workers =>
           Stage(call'[p], config.workers, config.next, Kept, opened)
  PROVE  ScalingInv'
<1>1. inside = {} /\ inside' = {p}
  BY DEF TakeLock, Calm
<1>2. Kept \subseteq config.workers /\ Sound(config.workers, config.next, Kept, opened)
  BY <1>1 DEF ScalingInv
<1> QED BY <1>1, <1>2 DEF ScalingInv

LEMMA SavesCalmly ==
  ASSUME NEW p \in Procs, NEW copy, Save(p, copy), ~lost'
  PROVE  ~lost /\ p \notin stale /\ config' = copy
BY DEF Save

LEMMA InitScaling == Init => ScalingInv
<1> SUFFICES ASSUME Init PROVE ScalingInv
  OBVIOUS
<1>1. /\ config.workers = InitialWorkers /\ config.next = Started + 1
      /\ Kept = InitialWorkers /\ opened = Started /\ inside = {}
  BY DEF Init, InitialConfig, Kept
<1>2. IsFiniteSet(InitialWorkers) /\ Cardinality(InitialWorkers) <= MaxWorkers
  <2> DEFINE f == [k \in 1 .. Started |-> [index |-> k, pane |-> k]]
  <2>1. f \in Surjection(1 .. Started, InitialWorkers)
    BY DEF InitialWorkers, Surjection
  <2>2. IsFiniteSet(1 .. Started) /\ Cardinality(1 .. Started) = Started
    BY StartedTyped, WorkersAssumption, FS_Interval
  <2> HIDE DEF f
  <2>3. IsFiniteSet(InitialWorkers) /\ Cardinality(InitialWorkers) <= Cardinality(1 .. Started)
    BY <2>1, <2>2, FS_Surjection
  <2>4. Cardinality(InitialWorkers) \in Nat
    BY <2>3, FS_CardinalityType
  <2> QED BY <2>2, <2>3, <2>4, Order, StartedTyped, WorkersAssumption
<1>3. \A w \in InitialWorkers : w.index < Started + 1 /\ w.pane <= Started
  <2>1. \A k \in 1 .. Started : k < Started + 1 /\ k <= Started
    BY StartedTyped
  <2> QED BY <2>1 DEF InitialWorkers
<1>4. Distinct(InitialWorkers)
  BY DEF Distinct, InitialWorkers
<1>5. Sound(InitialWorkers, Started + 1, InitialWorkers, Started)
  BY <1>2, <1>3, <1>4 DEF Sound, Below
<1> QED BY <1>1, <1>5 DEF ScalingInv

\* create_task, and the first steps of the scalings.
LEMMA BeginScaling ==
  ASSUME Typed, Fresh, ScalingInv, Calm', NEW p \in Procs
  PROVE  /\ Create(p) => ScalingInv'
         /\ Stored(p) => ScalingInv'
         /\ Created(p) => ScalingInv'
         /\ \A n \in 1 .. MaxCount, k \in 0 .. 1 : ScaleUp(p, n, k) => ScalingInv'
         /\ \A T \in SUBSET config.workers : ScaleDown(p, T) => ScalingInv'
<1>1. ASSUME Create(p) PROVE ScalingInv'
  <2>1. p \notin inside /\ Calm
    BY <1>1, CreateIs, Inside DEF Calm
  <2> QED BY <1>1, <2>1, CreateIs, Outside
<1>s. ASSUME Stored(p) PROVE ScalingInv'
  <2>1. p \notin inside /\ Moved(p) /\ UNCHANGED <<config, Kept, inside, opened>>
    BY <1>s, StoredIs, Inside
  <2>2. Calm
    BY <1>s, StoredIs DEF Calm, Store
  <2> QED BY <2>1, <2>2, Outside
<1>2. ASSUME Created(p) PROVE ScalingInv'
  <2>1. p \notin inside /\ Moved(p) /\ Save(p, Numbered(call[p].cfg)) /\ call[p].at = "number"
    BY <1>2, CreatedIs, Inside
  <2>2. Calm /\ p \notin stale /\ config' = Numbered(call[p].cfg)
    BY <1>2, <2>1, CreatedIs, SavesCalmly DEF Calm
  <2>3. call[p].cfg = config /\ config \in Configs
    BY <2>1, <2>2 DEF Fresh, Typed, TypeOK
  <2>4. config'.workers = config.workers /\ config'.next = config.next
    BY <2>2, <2>3, NumberedTyped
  <2> QED BY <1>2, <2>1, <2>2, <2>4, CreatedIs, Outside
<1>3. ASSUME NEW n \in 1 .. MaxCount, NEW k \in 0 .. 1, ScaleUp(p, n, k) PROVE ScalingInv'
  <2>0. Calm /\ TakeLock(p)
    BY <1>3, ScaleUpIs DEF Calm, TakeLock
  <2> DEFINE d == call'[p]
  <2>1. /\ d.at = "up tasks" /\ d.cfg.workers = config.workers /\ d.cfg.next = config.next
        /\ d.next = config.next /\ d.pane = 0 /\ d.added = {} /\ d.left = n
        /\ d.base = <<config.workers, config.next, Kept>>
        /\ Cardinality(config.workers) + n <= MaxWorkers
    BY <1>3, ScaleUpIs DEF Fits
  <2>2. /\ d.base # <<>> /\ d.base[1] = config.workers /\ d.base[2] = config.next
        /\ d.base[3] = Kept
    <3>1. ASSUME NEW b, b = <<config.workers, config.next, Kept>>
          PROVE  b # <<>> /\ b[1] = config.workers /\ b[2] = config.next /\ b[3] = Kept
      BY <3>1, ThreeParts
    <3> HIDE DEF d
    <3> QED BY <2>1, <3>1
  <2>3. d \in Calls
    BY <1>3, BeginTyped DEF Typed, TypeOK
  <2>4. /\ config.workers \in SUBSET Workers /\ config.next \in Nat /\ opened \in Nat
    BY BoundsAssumption DEF Typed, TypeOK, Configs
  <2>5. ASSUME Kept \subseteq config.workers, Sound(config.workers, config.next, Kept, opened)
        PROVE  Stage(d, config.workers, config.next, Kept, opened)
    <3> HIDE DEF d
    <3>1. Kept \in SUBSET config.workers
      BY <2>5
    <3> QED BY <2>1, <2>2, <2>3, <2>4, <2>5, <3>1, StartsUp
  <2>6. inside = {} /\ Sound(config.workers, config.next, Kept, opened)
    BY <2>0 DEF TakeLock, Calm, ScalingInv
  <2> HIDE DEF d
  <2>7. Kept \subseteq config.workers => Stage(call'[p], config.workers, config.next, Kept, opened)
    BY <2>5, <2>6 DEF d
  <2> QED BY <1>3, <2>0, <2>7, ScaleUpIs, Enters
<1>4. ASSUME NEW T \in SUBSET config.workers, ScaleDown(p, T) PROVE ScalingInv'
  <2>1. CASE UNCHANGED vars
    BY <2>1 DEF vars, files, Kept, ScalingInv, Calm
  <2>2. CASE ~UNCHANGED vars
    <3>1. /\ TakeLock(p) /\ call'[p].at = "drain" /\ call'[p].cfg = config
          /\ UNCHANGED <<config, tasks, Kept, opened, lost, behind, faults>>
      BY <1>4, <2>2, ScaleDownIs
    <3>2. Calm
      BY <3>1 DEF Calm, TakeLock
    <3>3. Kept \subseteq config.workers =>
            Stage(call'[p], config.workers, config.next, Kept, opened)
      BY <3>1, DownStages
    <3> QED BY <3>1, <3>2, <3>3, Enters
  <2> QED BY <2>1, <2>2
<1> QED BY <1>1, <1>2, <1>3, <1>4, <1>s

\* scale_up
LEMMA UpScaling ==
  ASSUME Typed, Opened, Fresh, ScalingInv, Calm', NEW p \in Procs
  PROVE  /\ BringTask(p) => ScalingInv'
         /\ StoredBrought(p) => ScalingInv'
         /\ BroughtTask(p) => ScalingInv'
         /\ Split(p) => ScalingInv'
         /\ Boot(p) => ScalingInv'
         /\ Joined(p) => ScalingInv'
<1> DEFINE c == call[p]
           ws == config.workers
           next == config.next
<1>0. c \in Calls /\ c.cfg \in Configs /\ c.own \in Configs
      /\ (c.at \in {"up boot", "up save"} => c.left # 0)
  BY Inside DEF Calls, Typed, CallShape
<1>1. ASSUME Calm, c.at \notin Lockless
      PROVE  /\ Found(c, ws, next, Kept, opened) /\ inside = {p} /\ p \in inside
             /\ Sound(ws, next, Kept, opened)
  BY <1>1, Inside, WhatIsFound DEF ScalingInv
\* any of its steps may fail
<1>f. ASSUME Calm, c.at \in Up, Fail(p), UNCHANGED <<config, Kept, inside>>,
             opened' \in {opened, opened + 1}
      PROVE  ScalingInv'
  <2>1. /\ Found(c, ws, next, Kept, opened') /\ inside = {p}
        /\ Sound(ws, next, Kept, opened')
    <3>1. Found(c, ws, next, Kept, opened) /\ inside = {p}
      BY <1>1, <1>f DEF Up, Early
    <3>2. Found(c, ws, next, Kept, opened')
      BY <1>f, <3>1, MoreOpened
    <3> QED BY <3>1, <3>2 DEF Found
  <2>2. call'[p] = [c EXCEPT !.at = "rollback", !.bring = 0]
    BY <1>f, FailIs
  <2>3. Stage(call'[p], ws, next, Kept, opened')
    <3>1. /\ call'[p].at = "rollback" /\ call'[p].cfg = c.cfg /\ call'[p].left = c.left
          /\ call'[p].next = c.next /\ call'[p].pane = c.pane
          /\ call'[p].added = c.added /\ call'[p].base = c.base
      BY <1>0, <2>2 DEF Calls
    <3> QED BY <1>0, <1>f, <2>1, <3>1, FailsUp
  <2> QED BY <1>f, <2>1, <2>3, OneInside
\* and those about its tasks leave the workers alone
<1>e. ASSUME Calm, c.at \in Early, call'[p].at \in Early,
             /\ call'[p].cfg = c.cfg /\ call'[p].left = c.left
             /\ call'[p].next = c.next /\ call'[p].pane = c.pane
             /\ call'[p].added = c.added /\ call'[p].base = c.base,
             config'.workers = ws, config'.next = next, UNCHANGED <<Kept, inside, opened>>
      PROVE  ScalingInv'
  <2>1. Found(c, ws, next, Kept, opened) /\ inside = {p} /\ Sound(ws, next, Kept, opened)
    BY <1>1, <1>e DEF Early
  <2>2. Stage(call'[p], ws, next, Kept, opened)
    <3>1. c.at \in Early
      BY <1>e
    <3> DEFINE d == call'[p]
    <3>2. /\ d.at \in Early /\ d.cfg = c.cfg /\ d.left = c.left /\ d.next = c.next
          /\ d.pane = c.pane /\ d.added = c.added /\ d.base = c.base
      BY <1>e
    <3>3. Found(c, ws, next, Kept, opened)
      BY <2>1
    <3> HIDE DEF c, ws, next, d
    <3>4. Stage(d, ws, next, Kept, opened)
      BY <3>1, <3>2, <3>3, StaysEarly
    <3> QED BY <3>4 DEF d
  <2> QED BY <1>e, <2>1, <2>2, OneInside
<1>2. ASSUME BringTask(p) PROVE ScalingInv'
  <2>1. c.at \in Early /\ Calm
    BY <1>2, BringTaskIs DEF Calm, Early
  <2>2. PICK at \in {"up next", "up number"}, own \in {config, c.own} :
          call'[p] = [c EXCEPT !.at = at, !.own = own]
    BY <1>2, BringTaskIs
  <2>3. /\ call'[p].at \in Early /\ call'[p].cfg = c.cfg /\ call'[p].left = c.left
        /\ call'[p].next = c.next /\ call'[p].pane = c.pane
        /\ call'[p].added = c.added /\ call'[p].base = c.base
    BY <1>0, <2>2 DEF Calls, Early
  <2> QED BY <1>2, <1>e, <2>1, <2>3, BringTaskIs
<1>s. ASSUME StoredBrought(p) PROVE ScalingInv'
  <2>1. /\ c.at \in Early /\ c.at \in Up
        /\ UNCHANGED <<config, Kept, inside, opened, crowded, faults>>
    BY <1>s, StoredBroughtIs DEF Early, Up
  <2>2. CASE Fail(p) /\ UNCHANGED <<tasks, lost>>
    <3>1. Calm
      BY <2>1, <2>2 DEF Calm
    <3> QED BY <1>f, <2>1, <2>2, <3>1
  <2>3. CASE /\ Store(p, c.own)
             /\ call'[p] = [c EXCEPT !.at = "up count", !.bring = @ - 1]
    <3>1. Calm
      BY <2>1, <2>3 DEF Calm, Store
    <3>2. /\ call'[p].at \in Early /\ call'[p].cfg = c.cfg /\ call'[p].left = c.left
          /\ call'[p].next = c.next /\ call'[p].pane = c.pane
          /\ call'[p].added = c.added /\ call'[p].base = c.base
      BY <1>0, <2>3 DEF Calls, Early
    <3> QED BY <1>e, <2>1, <3>1, <3>2
  <2> QED BY <1>s, <2>2, <2>3, StoredBroughtIs
<1>3. ASSUME BroughtTask(p) PROVE ScalingInv'
  <2>1. c.at = "up count" /\ c.at \in Early /\ c.at \in Up
        /\ UNCHANGED <<Kept, inside, opened, crowded, faults>>
    BY <1>3, BroughtTaskIs DEF Early, Up
  <2>2. CASE Fail(p) /\ UNCHANGED <<config, stale, lost>>
    <3>1. Calm
      BY <2>1, <2>2 DEF Calm
    <3> QED BY <1>f, <2>1, <2>2, <3>1
  <2>3. CASE /\ Save(p, Numbered(c.own))
             /\ call'[p] = [c EXCEPT !.at = "up tasks", !.own = InitialConfig]
    <3>1. Calm /\ p \notin stale /\ config' = Numbered(c.own)
      BY <2>1, <2>3, SavesCalmly DEF Calm
    <3>2. c.own = config
      BY <2>1, <3>1 DEF Fresh
    <3>3. config'.workers = ws /\ config'.next = next
      BY <1>0, <3>1, <3>2, NumberedTyped
    <3>4. /\ call'[p].at \in Early /\ call'[p].cfg = c.cfg /\ call'[p].left = c.left
          /\ call'[p].next = c.next /\ call'[p].pane = c.pane
          /\ call'[p].added = c.added /\ call'[p].base = c.base
      BY <1>0, <2>3 DEF Calls, Early
    <3> QED BY <1>e, <2>1, <3>1, <3>3, <3>4
  <2> QED BY <1>3, <2>2, <2>3, BroughtTaskIs
<1>4. ASSUME Split(p) PROVE ScalingInv'
  <2>1. c.at = "up next" /\ Calm /\ config' = config
    BY <1>4, SplitIs DEF Calm, KeepConfig
  <2>2. Found(c, ws, next, Kept, opened) /\ inside = {p} /\ Sound(ws, next, Kept, opened)
    BY <1>1, <2>1
  <2>3. CASE inside' = inside \ {p} /\ UNCHANGED <<Kept, opened>>
    <3>1. Kept \subseteq ws
      BY <2>1, <2>2, Ends
    <3> QED BY <2>1, <2>2, <2>3, <3>1, OneInside
  <2>4. CASE /\ c.left # 0 /\ opened' = opened + 1 /\ UNCHANGED inside
             /\ Kept' = Kept \cup {[index |-> c.next, pane |-> opened + 1]}
             /\ call'[p] = [c EXCEPT !.at = "up boot", !.pane = opened + 1]
    <3>1. opened' \in Nat /\ opened < opened'
      <4>1. opened \in Nat
        BY <2>2 DEF Found
      <4> QED BY <2>4, <4>1
    <3>2. /\ call'[p].at = "up boot" /\ call'[p].cfg = c.cfg /\ call'[p].left = c.left
          /\ call'[p].next = c.next /\ call'[p].pane = opened'
          /\ call'[p].added = c.added /\ call'[p].base = c.base
      BY <1>0, <2>4 DEF Calls
    <3>3. Kept' = Kept \cup {Newest(call'[p])}
      BY <2>4, <3>2 DEF Newest
    <3>4. Stage(call'[p], ws, next, Kept', opened') /\ Sound(ws, next, Kept', opened')
      <4>1. c.left # 0 /\ c.at = "up next"
        BY <2>1, <2>4
      <4> HIDE DEF c, ws, next
      <4>2. /\ Stage(call'[p], ws, next, Kept \cup {Newest(call'[p])}, opened')
            /\ Sound(ws, next, Kept \cup {Newest(call'[p])}, opened')
        BY <2>2, <3>1, <3>2, <4>1, OpensPane
      <4> QED BY <3>3, <4>2
    <3> QED BY <2>1, <2>2, <2>4, <3>4, OneInside
  <2>5. CASE Fail(p) /\ UNCHANGED <<Kept, inside>> /\ opened' \in {opened, opened + 1}
    BY <1>f, <2>1, <2>5 DEF Up, Early
  <2> QED BY <1>4, <2>3, <2>4, <2>5, SplitIs
<1>5. ASSUME Boot(p) PROVE ScalingInv'
  <2>1. c.at = "up boot" /\ Calm /\ config' = config /\ UNCHANGED <<Kept, inside, opened>>
    BY <1>5, BootIs DEF Calm, KeepConfig
  <2>2. Found(c, ws, next, Kept, opened) /\ inside = {p} /\ Sound(ws, next, Kept, opened)
    BY <1>1, <2>1
  <2>3. CASE Fail(p)
    BY <1>f, <2>1, <2>3 DEF Up, Early
  <2>4. CASE ~Fail(p)
    <3>1. call'[p] = [c EXCEPT
                 !.at = "up save",
                 !.added = @ \cup {[index |-> c.next, pane |-> c.pane]},
                 !.next = @ + 1,
                 !.cfg.workers = @ \cup {[index |-> c.next, pane |-> c.pane]},
                 !.cfg.next = c.next + 1]
      BY <1>5, <2>4, BootIs
    <3>2. /\ call'[p].at = "up save" /\ call'[p].left = c.left
          /\ call'[p].pane = c.pane /\ call'[p].base = c.base
          /\ call'[p].next = c.next + 1 /\ call'[p].cfg.next = c.next + 1
          /\ call'[p].added = c.added \cup {[index |-> c.next, pane |-> c.pane]}
          /\ call'[p].cfg.workers = c.cfg.workers \cup {[index |-> c.next, pane |-> c.pane]}
      <4> DEFINE worker == [index |-> c.next, pane |-> c.pane]
                 d == call'[p]
      <4>1. /\ DOMAIN c = {"at", "cfg", "own", "left", "bring", "next", "pane", "added",
                           "targets", "base"}
            /\ c.cfg \in Configs /\ c = [x \in DOMAIN c |-> c[x]]
        BY <1>0 DEF Calls
      <4>2. d = [c EXCEPT !.at = "up save", !.added = @ \cup {worker}, !.next = @ + 1,
                          !.cfg.workers = @ \cup {worker}, !.cfg.next = c.next + 1]
        BY <3>1
      <4> HIDE DEF c, worker, d
      <4>3. d.cfg = [c.cfg EXCEPT !.workers = @ \cup {worker}, !.next = c.next + 1]
        BY <4>1, <4>2
      <4>4. d.cfg.workers = c.cfg.workers \cup {worker} /\ d.cfg.next = c.next + 1
        BY <4>1, <4>3 DEF Configs
      <4>5. /\ d.at = "up save" /\ d.left = c.left /\ d.pane = c.pane /\ d.base = c.base
            /\ d.added = c.added \cup {worker}
        BY <4>1, <4>2
      <4>6. d.next = c.next + 1
        BY <4>1, <4>2
      <4> QED BY <4>4, <4>5, <4>6 DEF worker, d
    <3>3. c.next + 1 \in Nat /\ c.next < c.next + 1
      <4>1. c.next \in Nat
        BY <1>0, CallFields
      <4> QED BY <4>1
    <3>4. Stage(call'[p], ws, next, Kept, opened)
      BY <2>1, <2>2, <3>2, <3>3, JoinsCopy DEF Newest
    <3> QED BY <2>1, <2>2, <3>4, OneInside
  <2> QED BY <2>3, <2>4
<1>6. ASSUME Joined(p) PROVE ScalingInv'
  <2>1. c.at = "up save" /\ UNCHANGED <<Kept, inside, opened>>
    BY <1>6, JoinedIs
  <2>2. CASE Fail(p) /\ KeepConfig
    <3>1. Calm
      BY <1>6, <2>2, JoinedIs DEF Calm, KeepConfig
    <3> QED BY <1>f, <2>1, <2>2, <3>1 DEF KeepConfig, Up, Early
  <2>3. CASE ~(Fail(p) /\ KeepConfig)
    <3>1. Save(p, c.cfg) /\ call'[p] = [c EXCEPT !.at = "up next", !.left = @ - 1, !.pane = 0]
      BY <1>6, <2>3, JoinedIs
    <3>2. Calm /\ config' = c.cfg
      BY <1>6, <3>1, JoinedIs, SavesCalmly DEF Calm
    <3>3. Found(c, ws, next, Kept, opened) /\ inside = {p}
      BY <1>1, <2>1, <3>2
    <3>4. /\ call'[p].at = "up next" /\ call'[p].cfg = c.cfg /\ call'[p].left = c.left - 1
          /\ call'[p].next = c.next /\ call'[p].pane = 0
          /\ call'[p].added = c.added /\ call'[p].base = c.base
      BY <1>0, <3>1 DEF Calls
    <3>5. /\ Stage(call'[p], c.cfg.workers, c.cfg.next, Kept, opened)
          /\ Sound(c.cfg.workers, c.cfg.next, Kept, opened)
      BY <1>0, <2>1, <3>3, <3>4, SavesWorker
    <3> QED BY <2>1, <3>2, <3>3, <3>5, OneInside
  <2> QED BY <2>2, <2>3
<1> QED BY <1>2, <1>3, <1>4, <1>5, <1>6, <1>s

\* the end of a scale_up that failed, scale_down, and what raises
LEMMA EndScaling ==
  ASSUME Typed, Fresh, ScalingInv, Calm', NEW p \in Procs
  PROVE  /\ Rollback(p) => ScalingInv'
         /\ Restore(p) => ScalingInv'
         /\ Failed(p) => ScalingInv'
         /\ Drain(p) => ScalingInv'
         /\ KillTargets(p) => ScalingInv'
         /\ RemoveTrees(p) => ScalingInv'
         /\ Removed(p) => ScalingInv'
         /\ Raise(p) => ScalingInv'
<1> DEFINE c == call[p]
           ws == config.workers
           next == config.next
<1>0. c \in Calls /\ c.cfg \in Configs
  BY Inside DEF Calls
<1>1. ASSUME Calm, c.at \notin Lockless
      PROVE  /\ Found(c, ws, next, Kept, opened) /\ inside = {p} /\ p \in inside
             /\ Sound(ws, next, Kept, opened)
  BY <1>1, Inside, WhatIsFound DEF ScalingInv
<1>2. ASSUME Rollback(p) PROVE ScalingInv'
  <2>1. /\ c.at = "rollback" /\ Calm /\ config' = config /\ UNCHANGED <<inside, opened>>
        /\ Kept' = {w \in Kept : w.pane \notin Doomed(c)}
        /\ call'[p] = [c EXCEPT !.at = "restore", !.cfg = Undone(c)]
    BY <1>2, RollbackIs DEF Calm
  <2>2. Found(c, ws, next, Kept, opened) /\ inside = {p} /\ Sound(ws, next, Kept, opened)
    BY <1>1, <2>1
  <2>3. call'[p].at = "restore" /\ call'[p].base = c.base /\ call'[p].cfg = Undone(c)
    BY <1>0, <2>1 DEF Calls
  <2>4. Undone(c).workers = c.cfg.workers \ c.added /\ Undone(c).next = c.base[2]
    BY <1>0 DEF Undone, Configs
  <2>5. Stage(call'[p], ws, next, Kept', opened)
    <3>1. call'[p].cfg.workers = c.cfg.workers \ c.added /\ call'[p].cfg.next = c.base[2]
      BY <2>3, <2>4
    <3>2. c.at = "rollback" /\ Kept' = {w \in Kept : w.pane \notin Doomed(c)}
      BY <2>1
    <3> HIDE DEF c, ws, next
    <3> QED BY <2>2, <2>3, <3>1, <3>2, RollsBack
  <2>6. Kept' \in SUBSET Kept /\ Below(ws, next) /\ ws \in SUBSET ws
    BY <2>1, <2>2 DEF Sound
  <2>7. Sound(ws, next, Kept', opened)
    <3> HIDE DEF ws, next
    <3> QED BY <2>2, <2>6, SoundPart
  <2> QED BY <2>1, <2>2, <2>5, <2>7, OneInside
<1>3. ASSUME Restore(p) PROVE ScalingInv'
  <2>1. c.at = "restore" /\ UNCHANGED <<Kept, inside, opened>>
    BY <1>3, RestoreIs
  <2>2. CASE Save(p, c.cfg) /\ call'[p] = [c EXCEPT !.at = "failed"]
    <3>1. Calm /\ config' = c.cfg
      BY <1>3, <2>2, RestoreIs, SavesCalmly DEF Calm
    <3>2. Found(c, ws, next, Kept, opened) /\ inside = {p}
      BY <1>1, <2>1, <3>1
    <3>3. call'[p].at = "failed" /\ call'[p].base = c.base
      BY <1>0, <2>2 DEF Calls
    <3>4. /\ Stage(call'[p], c.cfg.workers, c.cfg.next, Kept, opened)
          /\ Sound(c.cfg.workers, c.cfg.next, Kept, opened)
      <4> HIDE DEF c, ws, next
      <4> QED BY <2>1, <3>2, <3>3, Restores
    <3> QED BY <2>1, <3>1, <3>2, <3>4, OneInside
  <2>3. CASE KeepConfig /\ call'[p] = [c EXCEPT !.at = "failed", !.base = <<>>]
    <3>1. Calm /\ config' = config
      BY <1>3, <2>3, RestoreIs DEF Calm, KeepConfig
    <3>2. Found(c, ws, next, Kept, opened) /\ inside = {p} /\ Sound(ws, next, Kept, opened)
      BY <1>1, <2>1, <3>1
    <3>3. call'[p].at = "failed" /\ call'[p].base = <<>>
      BY <1>0, <2>3 DEF Calls
    <3>4. Stage(call'[p], ws, next, Kept, opened)
      <4> HIDE DEF c, ws, next
      <4> QED BY <2>1, <3>2, <3>3, Restores
    <3> QED BY <2>1, <3>1, <3>2, <3>4, OneInside
  <2> QED BY <1>3, <2>2, <2>3, RestoreIs
<1>4. ASSUME c.at \in {"failed", "trees"}, inside' = inside \ {p},
             UNCHANGED <<config, Kept, opened, lost, crowded, faults>>
      PROVE  ScalingInv'
  <2>1. Calm
    BY <1>4 DEF Calm
  <2>2. Found(c, ws, next, Kept, opened) /\ inside = {p} /\ Sound(ws, next, Kept, opened)
    BY <1>1, <1>4, <2>1
  <2>3. Kept \subseteq ws
    BY <1>4, <2>2, Ends
  <2> QED BY <1>4, <2>2, <2>3, OneInside
<1>5. ASSUME Failed(p) PROVE ScalingInv'
  <2>1. /\ c.at = "failed" /\ inside' = inside \ {p}
        /\ UNCHANGED <<config, Kept, opened, lost, crowded, faults>>
    BY <1>5, LeaveIs DEF Failed, files, history, Kept
  <2> QED BY <1>4, <2>1
<1>6. ASSUME Drain(p) PROVE ScalingInv'
  <2>1. /\ c.at = "drain" /\ Calm /\ UNCHANGED <<config, Kept, inside, opened>>
        /\ call'[p] = [c EXCEPT !.at = "kill"]
    BY <1>6, DrainIs DEF Calm
  <2>2. Found(c, ws, next, Kept, opened) /\ inside = {p} /\ Sound(ws, next, Kept, opened)
    BY <1>1, <2>1
  <2>3. call'[p].at = "kill" /\ call'[p].cfg = c.cfg
    BY <1>0, <2>1 DEF Calls
  <2>4. Stage(call'[p], ws, next, Kept, opened)
    <3>1. c.at = "drain"
      BY <2>1
    <3> HIDE DEF c, ws, next
    <3> QED BY <2>2, <2>3, <3>1, DownStages
  <2> QED BY <2>1, <2>2, <2>4, OneInside
<1>7. ASSUME KillTargets(p) PROVE ScalingInv'
  <2>1. /\ c.at = "kill" /\ Calm /\ UNCHANGED <<config, inside, opened>>
        /\ Kept' = Kept \ c.targets /\ call'[p] = [c EXCEPT !.at = "trees"]
    BY <1>7, KillTargetsIs DEF Calm
  <2>2. Found(c, ws, next, Kept, opened) /\ inside = {p} /\ Sound(ws, next, Kept, opened)
    BY <1>1, <2>1
  <2>3. call'[p].at = "trees" /\ call'[p].cfg = c.cfg /\ call'[p].targets = c.targets
    BY <1>0, <2>1 DEF Calls
  <2>4. /\ Stage(call'[p], ws, next, Kept \ c.targets, opened)
        /\ Sound(ws, next, Kept \ c.targets, opened)
    <3> DEFINE d == call'[p]
    <3>1. c.at = "kill" /\ Found(c, ws, next, Kept, opened)
          /\ d.at = "trees" /\ d.cfg = c.cfg /\ d.targets = c.targets
      BY <2>1, <2>2, <2>3
    <3> HIDE DEF c, ws, next, d
    <3>2. /\ Stage(d, ws, next, Kept \ c.targets, opened)
          /\ Sound(ws, next, Kept \ c.targets, opened)
      BY <3>1, KillsPanes
    <3> QED BY <3>2 DEF d
  <2> QED BY <2>1, <2>2, <2>4, OneInside
<1>8. ASSUME RemoveTrees(p) PROVE ScalingInv'
  <2>1. c.at = "trees" /\ UNCHANGED <<config, Kept, opened, lost, crowded, faults>>
    BY <1>8, RemoveTreesIs
  <2>2. CASE inside' = inside \ {p}
    BY <1>4, <2>1, <2>2
  <2>3. CASE call'[p] = [c EXCEPT !.at = "down save"] /\ UNCHANGED inside
    <3>1. Calm
      BY <2>1 DEF Calm
    <3>2. Found(c, ws, next, Kept, opened) /\ inside = {p} /\ Sound(ws, next, Kept, opened)
      BY <1>1, <2>1, <3>1
    <3>3. call'[p].at = "down save" /\ call'[p].cfg = c.cfg /\ call'[p].targets = c.targets
      BY <1>0, <2>3 DEF Calls
    <3>4. Stage(call'[p], ws, next, Kept, opened)
      <4>1. c.at = "trees"
        BY <2>1
      <4> HIDE DEF c, ws, next
      <4> QED BY <3>2, <3>3, <4>1, DownStages
    <3> QED BY <2>1, <2>3, <3>2, <3>4, OneInside
  <2> QED BY <1>8, <2>2, <2>3, RemoveTreesIs
<1>9. ASSUME Removed(p) PROVE ScalingInv'
  <2> DEFINE copy == [c.cfg EXCEPT !.workers = @ \ c.targets]
  <2>1. c.at = "down save" /\ inside' = inside \ {p} /\ UNCHANGED <<Kept, opened>>
    BY <1>9, RemovedIs
  <2>2. CASE Save(p, copy)
    <3>1. Calm /\ config' = copy
      BY <1>9, <2>2, RemovedIs, SavesCalmly DEF Calm
    <3>2. Found(c, ws, next, Kept, opened) /\ inside = {p}
      BY <1>1, <2>1, <3>1
    <3>3. config'.workers = c.cfg.workers \ c.targets /\ config'.next = c.cfg.next
      BY <1>0, <3>1 DEF Configs
    <3>4. /\ Kept \subseteq c.cfg.workers \ c.targets /\ c.cfg.next = next
          /\ Sound(c.cfg.workers \ c.targets, next, Kept, opened)
      BY <2>1, <3>2, DownStages
    <3> QED BY <2>1, <3>2, <3>3, <3>4, OneInside
  <2>3. CASE KeepConfig
    <3>1. Calm /\ config' = config
      BY <1>9, <2>3, RemovedIs DEF Calm, KeepConfig
    <3>2. Found(c, ws, next, Kept, opened) /\ inside = {p} /\ Sound(ws, next, Kept, opened)
      BY <1>1, <2>1, <3>1
    <3>3. Kept \subseteq ws
      BY <2>1, <3>2, Ends
    <3> QED BY <2>1, <3>1, <3>2, <3>3, OneInside
  <2> QED BY <1>9, <2>2, <2>3, RemovedIs
<1>10. ASSUME Raise(p) PROVE ScalingInv'
  <2>1. /\ inside' = inside \ {p} /\ Moved(p) /\ Calm /\ UNCHANGED <<config, opened>>
        /\ c.at \in {"create", "number", "up next", "up boot", "drain"}
        /\ Kept' = {w \in Kept : c.at = "up boot" => w # Newest(c)}
    BY <1>10, RaiseIs DEF Calm
  <2>2. CASE c.at \in {"create", "number"}
    <3>1. p \notin inside /\ inside' = inside
      BY <2>1, <2>2, Inside
    <3>2. Kept' = Kept
      BY <2>1, <2>2
    <3> QED BY <2>1, <3>1, <3>2, Outside
  <2>3. CASE c.at \in {"up next", "drain", "up boot"}
    <3>1. Found(c, ws, next, Kept, opened) /\ inside = {p} /\ Sound(ws, next, Kept, opened)
      BY <1>1, <2>1, <2>3
    <3>2. Kept' \subseteq ws
      <4>1. CASE c.at = "up boot"
        <5>1. Kept \ {Newest(c)} \subseteq ws
          BY <3>1, <4>1, LetsGo
        <5> QED BY <2>1, <4>1, <5>1
      <4>2. CASE c.at \in {"up next", "drain"}
        <5>1. Kept \subseteq ws
          BY <3>1, <4>2, Ends
        <5> QED BY <2>1, <4>2, <5>1
      <4> QED BY <2>3, <4>1, <4>2
    <3>3. Kept' \in SUBSET Kept /\ Below(ws, next) /\ ws \in SUBSET ws
      BY <2>1, <3>1 DEF Sound
    <3>4. Sound(ws, next, Kept', opened)
      <4> HIDE DEF ws, next
      <4> QED BY <3>1, <3>3, SoundPart
    <3> QED BY <2>1, <3>1, <3>2, <3>4, OneInside
  <2> QED BY <2>1, <2>2, <2>3
<1> QED BY <1>2, <1>3, <1>5, <1>6, <1>7, <1>8, <1>9, <1>10

\* The invariant claims nothing once a process was killed.
LEMMA StepScaling == Typed /\ Opened /\ Fresh /\ ScalingInv /\ [Next]_vars => ScalingInv'
<1> SUFFICES ASSUME Typed, Opened, Fresh, ScalingInv, [Next]_vars, Calm' PROVE ScalingInv'
  BY DEF ScalingInv, Calm
<1>0. CASE UNCHANGED vars
  BY <1>0 DEF vars, files, Kept, ScalingInv, Calm
<1> SUFFICES ASSUME Next PROVE ScalingInv'
  BY <1>0
<1> PICK p \in Procs :
       \/ Create(p) \/ Stored(p) \/ Created(p)
       \/ \E n \in 1 .. MaxCount, k \in 0 .. 1 : ScaleUp(p, n, k)
       \/ BringTask(p) \/ StoredBrought(p) \/ BroughtTask(p) \/ Split(p) \/ Boot(p) \/ Joined(p)
       \/ Rollback(p) \/ Restore(p) \/ Failed(p)
       \/ \E T \in SUBSET config.workers : ScaleDown(p, T)
       \/ Drain(p) \/ KillTargets(p) \/ RemoveTrees(p) \/ Removed(p)
       \/ Raise(p) \/ Crash(p)
  BY DEF Next
<1>1. ~Crash(p)
  <2>1. faults \in Nat
    BY BoundsAssumption DEF Typed, TypeOK
  <2>2. faults + 1 # 0
    BY <2>1
  <2> QED BY <2>2 DEF Crash, Calm
<1> QED BY <1>1, BeginScaling, UpScaling, EndScaling

LEMMA ScalingTheorem == Spec => [](Typed /\ ScalingInv)
<1>1. Init => Typed /\ Opened /\ Fresh /\ ScalingInv
  BY InitTyped, InitOpened, InitFresh, InitScaling
<1>2. /\ Typed /\ Opened /\ Fresh /\ ScalingInv /\ [Next]_vars
      => (Typed /\ Opened /\ Fresh /\ ScalingInv)'
  BY StepTyped, StepOpened, StepFresh, StepScaling
<1> QED BY <1>1, <1>2, PTL DEF Spec

\* Whichever steps of scale_up and scale_down fail or raise, a pane that lives when no
\* scaling runs is recorded in config.json, for any number of workers and callers, unless
\* it is adrift: not killed by its kill, of an id that was not captured, or opened by a
\* scale_up that raised before it saved it.
THEOREM NoOrphan == Spec => []NoOrphanPane
<1>1. ScalingInv => NoOrphanPane
  BY DEF ScalingInv, NoOrphanPane
<1> QED BY <1>1, ScalingTheorem, PTL

\* In the middle of any scaling, and of its roll-back, no two live panes have one
\* worker's name, and they are at most max_workers; panes adrift are not counted.
THEOREM OneName == Spec => []OneAgentPerName
<1>1. ASSUME Typed, ScalingInv PROVE OneAgentPerName
  <2> SUFFICES ASSUME Calm PROVE Distinct(Kept) /\ Cardinality(Kept) <= MaxWorkers
    BY DEF OneAgentPerName, Distinct
  <2>1. CASE inside = {}
    <3>1. Kept \subseteq config.workers /\ Sound(config.workers, config.next, Kept, opened)
      BY <1>1, <2>1 DEF ScalingInv
    <3>2. IsFiniteSet(config.workers) /\ Cardinality(config.workers) <= MaxWorkers
      BY <3>1 DEF Sound
    <3>3. /\ Cardinality(Kept) <= Cardinality(config.workers)
          /\ Cardinality(Kept) \in Nat /\ Cardinality(config.workers) \in Nat
      BY <3>1, <3>2, FS_Subset, FS_CardinalityType
    <3>4. Cardinality(Kept) <= MaxWorkers
      BY <3>2, <3>3, Order, WorkersAssumption
    <3> QED BY <3>1, <3>4 DEF Sound, Distinct
  <2>2. ASSUME NEW p \in inside PROVE Distinct(Kept) /\ Cardinality(Kept) <= MaxWorkers
    <3>1. /\ Found(call[p], config.workers, config.next, Kept, opened) /\ p \in Procs
      BY <1>1, WhatIsFound
    <3>2. /\ call[p].at \notin Lockless
          /\ call[p].at \in {"up boot", "up save"} => call[p].left # 0
      BY <1>1, <3>1, Inside DEF Typed, CallShape
    <3> QED BY <3>1, <3>2, Alike
  <2> QED BY <2>1, <2>2
<1> QED BY <1>1, ScalingTheorem, PTL

\* A scale_up that returns an error and could write config.json has put back the
\* workers, the index and the panes it found, however far it had come, except for panes
\* adrift. One that raises, and so returns nothing, is not claimed about.
THEOREM Restored == Spec => []FailureRestores
<1>1. ASSUME Typed, ScalingInv, NEW p \in Procs,
             Calm, call[p].at = "failed", call[p].base # <<>>
      PROVE  <<config.workers, config.next, Kept>> = call[p].base
  <2>1. p \in inside /\ call[p].base \in (SUBSET Workers) \X Nat \X (SUBSET Workers)
    BY <1>1, Inside DEF Calls
  <2>2. /\ config.workers = call[p].base[1] /\ config.next = call[p].base[2]
        /\ Kept = call[p].base[3]
    BY <1>1, <2>1 DEF ScalingInv, Stage
  <2> QED BY <2>1, <2>2
<1>2. Typed /\ ScalingInv => FailureRestores
  BY <1>1 DEF FailureRestores
<1> QED BY <1>2, ScalingTheorem, PTL
=============================================================================

---------------------------- MODULE EngineProofs ----------------------------
(* Proofs about the engine and the bridge that persists it, for every set of *)
(* owners, requests, messages, cursors and bridges, and logs of any length.  *)
EXTENDS EngineLifecycle, RuntimeBridge, WellFoundedInduction, TLAPS
-----------------------------------------------------------------------------
(* What a command does to the dispatch records *)

\* Marking a dispatch rewrites statuses in place and nothing else.
LEMMA MoveShape ==
  ASSUME NEW records \in Seq(DispatchRecord),
         NEW c \in Commands, c.event \in MoveEvents
  PROVE  /\ DispatchAfter(records, c) \in Seq(DispatchRecord)
         /\ DOMAIN DispatchAfter(records, c) = DOMAIN records
         /\ Len(DispatchAfter(records, c)) = Len(records)
         /\ \A i \in DOMAIN records :
              /\ DispatchAfter(records, c)[i].id = records[i].id
              /\ DispatchAfter(records, c)[i].status =
                   IF IsFirst(records, i, c.key) THEN MovesTo(c.event)
                                                 ELSE records[i].status
<1> DEFINE after == DispatchAfter(records, c)
<1>1. after = [i \in DOMAIN records |->
                 IF IsFirst(records, i, c.key)
                   THEN [records[i] EXCEPT !.status = MovesTo(c.event)]
                   ELSE records[i]]
  BY DEF DispatchAfter, MoveEvents
<1>2. MovesTo(c.event) \in Statuses
  BY DEF MovesTo, MoveEvents, Statuses
<1>3. \A i \in DOMAIN records : records[i] \in DispatchRecord
  OBVIOUS
<1>4. \A i \in DOMAIN records :
        /\ after[i] \in DispatchRecord
        /\ after[i].id = records[i].id
        /\ after[i].status = IF IsFirst(records, i, c.key) THEN MovesTo(c.event)
                                                           ELSE records[i].status
  <2> HIDE DEF after
  <2> TAKE i \in DOMAIN records
  <2>1. after[i] = IF IsFirst(records, i, c.key)
                     THEN [records[i] EXCEPT !.status = MovesTo(c.event)]
                     ELSE records[i]
    BY <1>1
  <2> QED BY <2>1, <1>2, <1>3 DEF DispatchRecord
<1>5. DOMAIN records = 1..Len(records) /\ Len(records) \in Nat
  OBVIOUS
<1>6. after \in [1..Len(records) -> DispatchRecord]
  BY <1>1, <1>4, <1>5
<1>7. after \in Seq(DispatchRecord) /\ Len(after) = Len(records)
  <2> HIDE DEF after
  <2> QED BY <1>5, <1>6
<1> QED
  <2> HIDE DEF after
  <2>1. DOMAIN after = DOMAIN records
    BY <1>1
  <2>2. /\ after \in Seq(DispatchRecord)
        /\ DOMAIN after = DOMAIN records
        /\ Len(after) = Len(records)
        /\ \A i \in DOMAIN records :
             /\ after[i].id = records[i].id
             /\ after[i].status = IF IsFirst(records, i, c.key)
                                    THEN MovesTo(c.event) ELSE records[i].status
    BY <1>4, <1>7, <2>1
  <2> QED BY <2>2 DEF after

\* Queueing appends a pending record, even under an id that is in use.
LEMMA QueueShape ==
  ASSUME NEW records \in Seq(DispatchRecord),
         NEW c \in Commands, c.event = "DispatchQueued"
  PROVE  /\ DispatchAfter(records, c) \in Seq(DispatchRecord)
         /\ Len(DispatchAfter(records, c)) = Len(records) + 1
         /\ \A i \in DOMAIN records : DispatchAfter(records, c)[i] = records[i]
         /\ DispatchAfter(records, c)[Len(records) + 1] =
              [id |-> c.key, status |-> "pending"]
<1>1. c.key \in Requests
  BY DEF Commands, LeaseEvents, DispatchEvents, MoveEvents, MailMarks
<1>2. DispatchAfter(records, c) =
        Append(records, [id |-> c.key, status |-> "pending"])
  BY DEF DispatchAfter, MoveEvents
<1>3. [id |-> c.key, status |-> "pending"] \in DispatchRecord
  BY <1>1 DEF DispatchRecord, Statuses
<1> DEFINE new == [id |-> c.key, status |-> "pending"]
<1> HIDE DEF new
<1>4. /\ Append(records, new) \in Seq(DispatchRecord)
      /\ Len(Append(records, new)) = Len(records) + 1
      /\ \A i \in DOMAIN records : Append(records, new)[i] = records[i]
      /\ Append(records, new)[Len(records) + 1] = new
  BY <1>3 DEF new
<1> QED BY <1>2, <1>4 DEF new

\* Every other command leaves the dispatch records alone.
LEMMA OtherShape ==
  ASSUME NEW records, NEW c, c.event \notin DispatchEvents
  PROVE  DispatchAfter(records, c) = records
BY DEF DispatchAfter, DispatchEvents, MoveEvents

\* At most one record is the first of its id.
LEMMA FirstIsUnique ==
  ASSUME NEW records \in Seq(DispatchRecord), NEW r,
         NEW i \in DOMAIN records, NEW j \in DOMAIN records,
         IsFirst(records, i, r), IsFirst(records, j, r)
  PROVE  i = j
<1>1. i \in Nat /\ j \in Nat /\ i >= 1 /\ j >= 1
  OBVIOUS
<1>2. ~(i < j)
  BY <1>1 DEF IsFirst
<1>3. ~(j < i)
  BY <1>1 DEF IsFirst
<1> QED BY <1>1, <1>2, <1>3

-----------------------------------------------------------------------------
(* What a command does to the mailbox and to the whole state *)

\* Creating, notifying and delivering keep the mailbox a mailbox.
LEMMA MailboxTyped ==
  ASSUME NEW records \in Seq(MailboxRecord), NEW c \in Commands
  PROVE  MailboxAfter(records, c) \in Seq(MailboxRecord)
<1>1. CASE c.event = "MailboxMessageCreated"
  <2>1. c.key \in Messages
    BY <1>1 DEF Commands, LeaseEvents, DispatchEvents, MoveEvents, MailMarks
  <2>2. [id |-> c.key, notified |-> FALSE, delivered |-> FALSE] \in MailboxRecord
    BY <2>1 DEF MailboxRecord
  <2>3. MailboxAfter(records, c) =
          Append(records, [id |-> c.key, notified |-> FALSE, delivered |-> FALSE])
    BY <1>1 DEF MailboxAfter
  <2> QED BY <2>2, <2>3
<1>2. ASSUME NEW f, DOMAIN f = DOMAIN records,
             \A i \in DOMAIN records : f[i] \in MailboxRecord,
             f = [i \in DOMAIN records |-> f[i]]
      PROVE  f \in Seq(MailboxRecord)
  <2>1. DOMAIN records = 1..Len(records) /\ Len(records) \in Nat
    OBVIOUS
  <2>2. f \in [1..Len(records) -> MailboxRecord]
    BY <1>2, <2>1
  <2> QED BY <2>1, <2>2
<1>3. \A i \in DOMAIN records : records[i] \in MailboxRecord
  OBVIOUS
<1>4. CASE c.event = "MailboxNotified"
  <2> DEFINE f == [i \in DOMAIN records |->
                     IF IsFirst(records, i, c.key)
                       THEN [records[i] EXCEPT !.notified = TRUE]
                       ELSE records[i]]
  <2>1. MailboxAfter(records, c) = f
    BY <1>4 DEF MailboxAfter
  <2>2. \A i \in DOMAIN records : [records[i] EXCEPT !.notified = TRUE] \in MailboxRecord
    BY <1>3 DEF MailboxRecord
  <2>3. \A i \in DOMAIN records : f[i] \in MailboxRecord
    BY <1>3, <2>2
  <2>4. DOMAIN f = DOMAIN records /\ f = [i \in DOMAIN records |-> f[i]]
    OBVIOUS
  <2> HIDE DEF f
  <2> QED BY <1>2, <2>1, <2>3, <2>4
<1>5. CASE c.event = "MailboxDelivered"
  <2> DEFINE f == [i \in DOMAIN records |->
                     IF IsFirst(records, i, c.key)
                       THEN [records[i] EXCEPT !.delivered = TRUE]
                       ELSE records[i]]
  <2>1. MailboxAfter(records, c) = f
    BY <1>5 DEF MailboxAfter
  <2>2. \A i \in DOMAIN records : [records[i] EXCEPT !.delivered = TRUE] \in MailboxRecord
    BY <1>3 DEF MailboxRecord
  <2>3. \A i \in DOMAIN records : f[i] \in MailboxRecord
    BY <1>3, <2>2
  <2>4. DOMAIN f = DOMAIN records /\ f = [i \in DOMAIN records |-> f[i]]
    OBVIOUS
  <2> HIDE DEF f
  <2> QED BY <1>2, <2>1, <2>3, <2>4
<1>6. CASE c.event \notin {"MailboxMessageCreated"} \cup MailMarks
  BY <1>6 DEF MailboxAfter, MailMarks
<1> QED BY <1>1, <1>4, <1>5, <1>6 DEF MailMarks

\* A command takes a well-formed state to a well-formed state.
LEMMA EffectTyped ==
  ASSUME NEW e \in EngineStates, NEW c \in Commands
  PROVE  Effect(e, c) \in EngineStates
<1>1. DispatchAfter(e.dispatch, c) \in Seq(DispatchRecord)
  <2>0. e.dispatch \in Seq(DispatchRecord)
    BY DEF EngineStates
  <2>1. CASE c.event \in MoveEvents
    BY <2>0, <2>1, MoveShape
  <2>2. CASE c.event = "DispatchQueued"
    BY <2>0, <2>2, QueueShape
  <2>3. CASE c.event \notin DispatchEvents
    BY <2>0, <2>3, OtherShape
  <2> QED BY <2>1, <2>2, <2>3 DEF DispatchEvents
<1>2. MailboxAfter(e.mailbox, c) \in Seq(MailboxRecord)
  BY MailboxTyped DEF EngineStates
<1>3. c.event \in LeaseEvents => c.key \in Owners
  BY DEF Commands, LeaseEvents, DispatchEvents, MoveEvents, MailMarks
<1>4. c.event = "ReplayRequested" => c.key \in Cursors \cup {None}
  BY DEF Commands, LeaseEvents, DispatchEvents, MoveEvents, MailMarks
<1> QED BY <1>1, <1>2, <1>3, <1>4 DEF Effect, EngineStates

-----------------------------------------------------------------------------
(* Type correctness *)

LEMMA InitType == Init => TypeOK
<1>1. <<>> \in Seq(DispatchRecord) /\ <<>> \in Seq(MailboxRecord)
  OBVIOUS
<1>2. Fresh \in EngineStates
  BY <1>1 DEF Fresh, EngineStates
<1> QED BY <1>2 DEF Init, TypeOK

LEMMA NextType == TypeOK /\ [Next]_vars => TypeOK'
<1> SUFFICES ASSUME TypeOK, [Next]_vars PROVE TypeOK'
  OBVIOUS
<1>1. ASSUME NEW c \in Commands, Process(c) PROVE TypeOK'
  BY <1>1, EffectTyped DEF Process, TypeOK
<1>2. CASE Compact
  BY <1>2 DEF Compact, TypeOK
<1>3. CASE ForceRelease
  BY <1>3 DEF ForceRelease, TypeOK, EngineStates
<1>4. CASE MarkStale
  BY <1>4 DEF MarkStale, TypeOK, EngineStates
<1>5. CASE ClearStale
  BY <1>5 DEF ClearStale, TypeOK, EngineStates
<1>6. CASE UNCHANGED vars
  BY <1>6 DEF vars, TypeOK
<1> QED BY <1>1, <1>2, <1>3, <1>4, <1>5, <1>6 DEF Next

\* The engine's state keeps its type through every sequence of commands,
\* compactions and lease operations.
THEOREM TypeCorrect == Spec => []TypeOK
BY InitType, NextType, PTL DEF Spec

-----------------------------------------------------------------------------
(* Dispatches only move forward *)

\* An accepted marking is a step of Forward on the first record of its id.
LEMMA MoveIsForward ==
  ASSUME NEW e \in EngineStates, NEW c \in Commands,
         c.event \in MoveEvents, Accepts(e, c),
         NEW i \in DOMAIN e.dispatch, IsFirst(e.dispatch, i, c.key)
  PROVE  /\ e.dispatch[i].status \in MovesFrom(c.event)
         /\ <<e.dispatch[i].status, MovesTo(c.event)>> \in Forward
<1>1. PICK j \in DOMAIN e.dispatch :
        /\ IsFirst(e.dispatch, j, c.key)
        /\ e.dispatch[j].status \in MovesFrom(c.event)
  BY DEF Accepts, LeaseEvents, MoveEvents, MailMarks
<1>2. i = j
  BY <1>1, FirstIsUnique DEF EngineStates
<1>3. e.dispatch[i].status \in MovesFrom(c.event)
  BY <1>1, <1>2
<1>4. CASE c.event = "DispatchNotified"
  <2>1. MovesFrom(c.event) = {"pending"} /\ MovesTo(c.event) = "notified"
    BY <1>4 DEF MovesFrom, MovesTo
  <2> QED BY <1>3, <2>1 DEF Forward
<1>5. CASE c.event = "DispatchDelivered"
  <2>1. MovesFrom(c.event) = {"notified"} /\ MovesTo(c.event) = "delivered"
    BY <1>5 DEF MovesFrom, MovesTo
  <2> QED BY <1>3, <2>1 DEF Forward
<1>6. CASE c.event = "DispatchFailed"
  <2>1. MovesFrom(c.event) = {"pending", "notified"} /\ MovesTo(c.event) = "failed"
    BY <1>6 DEF MovesFrom, MovesTo
  <2> QED BY <1>3, <2>1 DEF Forward
<1> QED BY <1>3, <1>4, <1>5, <1>6 DEF MoveEvents

\* What one step does to the dispatch records: nothing, one queueing, or one
\* marking of the first record of an id.
LEMMA StepOnDispatch ==
  ASSUME TypeOK, [Next]_vars
  PROVE  \/ engine'.dispatch = engine.dispatch
         \/ \E c \in Commands :
              /\ c.event \in DispatchEvents
              /\ Accepts(engine, c)
              /\ engine'.dispatch = DispatchAfter(engine.dispatch, c)
<1>1. ASSUME NEW c \in Commands, Process(c)
      PROVE  /\ engine'.dispatch = DispatchAfter(engine.dispatch, c)
             /\ Accepts(engine, c)
  BY <1>1 DEF Process, Effect
<1>2. ASSUME NEW c \in Commands, Process(c), c.event \notin DispatchEvents
      PROVE  engine'.dispatch = engine.dispatch
  BY <1>1, <1>2, OtherShape
<1>3. ASSUME Compact \/ ForceRelease \/ MarkStale \/ ClearStale \/ UNCHANGED vars
      PROVE  engine'.dispatch = engine.dispatch
  BY <1>3 DEF Compact, ForceRelease, MarkStale, ClearStale, vars, TypeOK,
              EngineStates
<1> QED BY <1>1, <1>2, <1>3 DEF Next

\* Records are added at the end, keep their id, and move along Forward.
LEMMA StepMovesForward ==
  ASSUME TypeOK, [Next]_vars, NEW i \in DOMAIN engine.dispatch
  PROVE  /\ i \in DOMAIN engine'.dispatch
         /\ engine'.dispatch[i].id = engine.dispatch[i].id
         /\ \/ engine'.dispatch[i].status = engine.dispatch[i].status
            \/ <<engine.dispatch[i].status, engine'.dispatch[i].status>> \in Forward
<1>1. engine.dispatch \in Seq(DispatchRecord)
  BY DEF TypeOK, EngineStates
<1>2. CASE engine'.dispatch = engine.dispatch
  BY <1>2
<1>3. ASSUME NEW c \in Commands, c.event \in MoveEvents, Accepts(engine, c),
             engine'.dispatch = DispatchAfter(engine.dispatch, c)
      PROVE  /\ i \in DOMAIN engine'.dispatch
             /\ engine'.dispatch[i].id = engine.dispatch[i].id
             /\ \/ engine'.dispatch[i].status = engine.dispatch[i].status
                \/ <<engine.dispatch[i].status, engine'.dispatch[i].status>> \in Forward
  <2>1. /\ DOMAIN engine'.dispatch = DOMAIN engine.dispatch
        /\ engine'.dispatch[i].id = engine.dispatch[i].id
        /\ engine'.dispatch[i].status =
             IF IsFirst(engine.dispatch, i, c.key) THEN MovesTo(c.event)
                                                   ELSE engine.dispatch[i].status
    BY <1>1, <1>3, MoveShape
  <2>2. CASE IsFirst(engine.dispatch, i, c.key)
    <3>1. <<engine.dispatch[i].status, MovesTo(c.event)>> \in Forward
      BY <1>3, <2>2, MoveIsForward DEF TypeOK
    <3> QED BY <2>1, <2>2, <3>1
  <2>3. CASE ~IsFirst(engine.dispatch, i, c.key)
    BY <2>1, <2>3
  <2> QED BY <2>2, <2>3
<1>4. ASSUME NEW c \in Commands, c.event = "DispatchQueued",
             engine'.dispatch = DispatchAfter(engine.dispatch, c)
      PROVE  /\ i \in DOMAIN engine'.dispatch
             /\ engine'.dispatch[i] = engine.dispatch[i]
  <2>1. /\ engine'.dispatch \in Seq(DispatchRecord)
        /\ Len(engine'.dispatch) = Len(engine.dispatch) + 1
        /\ \A k \in DOMAIN engine.dispatch : engine'.dispatch[k] = engine.dispatch[k]
        /\ engine'.dispatch[Len(engine.dispatch) + 1] =
             [id |-> c.key, status |-> "pending"]
    BY <1>1, <1>4, QueueShape
  <2>2. i \in 1..Len(engine.dispatch)
    BY <1>1
  <2>3. Len(engine.dispatch) \in Nat
    BY <1>1
  <2> QED BY <2>1, <2>2, <2>3
<1> QED BY <1>2, <1>3, <1>4, StepOnDispatch DEF DispatchEvents

\* A finished dispatch stays finished and none skips its notification, over
\* every sequence of commands (core/dispatch.py, DispatchLog).
THEOREM MovesForward == Spec => DispatchMovesForward
<1>1. TypeOK /\ [Next]_vars =>
        [\A i \in DOMAIN engine.dispatch :
           /\ i \in DOMAIN engine'.dispatch
           /\ engine'.dispatch[i].id = engine.dispatch[i].id
           /\ \/ engine'.dispatch[i].status = engine.dispatch[i].status
              \/ <<engine.dispatch[i].status, engine'.dispatch[i].status>> \in Forward
        ]_vars
  BY StepMovesForward
<1> QED BY <1>1, TypeCorrect, PTL DEF Spec, DispatchMovesForward

\* The lease goes to another owner only from nobody (core/authority.py).
THEOREM LeaseHandover == Spec => LeaseChangesHandsFree
<1>1. TypeOK /\ [Next]_vars =>
        [engine.owner # None => engine'.owner \in {engine.owner, None}]_vars
  <2> SUFFICES ASSUME TypeOK, [Next]_vars, engine.owner # None
               PROVE  engine'.owner \in {engine.owner, None}
    OBVIOUS
  <2>1. ASSUME NEW c \in Commands, Process(c)
        PROVE  engine'.owner \in {engine.owner, None}
    <3>1. engine'.owner = IF c.event \in LeaseEvents THEN c.key ELSE engine.owner
      BY <2>1 DEF Process, Effect
    <3>2. c.event \in LeaseEvents => engine.owner = c.key
      BY <2>1 DEF Process, Accepts, MayAcquire, LeaseEvents, MoveEvents, MailMarks
    <3> QED BY <3>1, <3>2
  <2>2. ASSUME Compact \/ ForceRelease \/ MarkStale \/ ClearStale \/ UNCHANGED vars
        PROVE  engine'.owner \in {engine.owner, None}
    BY <2>2 DEF Compact, ForceRelease, MarkStale, ClearStale, vars, TypeOK,
                EngineStates
  <2> QED BY <2>1, <2>2 DEF Next
<1> QED BY <1>1, TypeCorrect, PTL DEF Spec, LeaseChangesHandsFree

-----------------------------------------------------------------------------
(* A record under an id already in use never moves *)

LEMMA StepShadowed ==
  ASSUME TypeOK, ShadowedNeverMoves, [Next]_vars
  PROVE  ShadowedNeverMoves'
<1> DEFINE d == engine.dispatch
           e == engine'.dispatch
<1>1. d \in Seq(DispatchRecord)
  BY DEF TypeOK, EngineStates
<1>2. CASE e = d
  BY <1>2 DEF ShadowedNeverMoves
<1>3. ASSUME NEW c \in Commands, c.event \in MoveEvents,
             e = DispatchAfter(d, c)
      PROVE  ShadowedNeverMoves'
  <2>1. /\ DOMAIN e = DOMAIN d
        /\ \A i \in DOMAIN d :
             /\ e[i].id = d[i].id
             /\ e[i].status = IF IsFirst(d, i, c.key) THEN MovesTo(c.event)
                                                      ELSE d[i].status
    BY <1>1, <1>3, MoveShape
  <2>2. SUFFICES ASSUME NEW i \in DOMAIN d, NEW j \in DOMAIN d,
                        i < j, d[i].id = d[j].id
                 PROVE  e[j].status = "pending"
    BY <2>1 DEF ShadowedNeverMoves
  <2>3. d[j].status = "pending"
    BY <2>2 DEF ShadowedNeverMoves
  <2>4. i \in 1..(j - 1)
    BY <1>1, <2>2
  <2>5. ~IsFirst(d, j, c.key)
    BY <2>2, <2>4 DEF IsFirst
  <2> QED BY <2>1, <2>3, <2>5
<1>4. ASSUME NEW c \in Commands, c.event = "DispatchQueued",
             e = DispatchAfter(d, c)
      PROVE  ShadowedNeverMoves'
  <2>1. /\ e \in Seq(DispatchRecord)
        /\ Len(e) = Len(d) + 1
        /\ \A i \in DOMAIN d : e[i] = d[i]
        /\ e[Len(d) + 1] = [id |-> c.key, status |-> "pending"]
    BY <1>1, <1>4, QueueShape
  <2>2. SUFFICES ASSUME NEW i \in DOMAIN e, NEW j \in DOMAIN e,
                        i < j, e[i].id = e[j].id
                 PROVE  e[j].status = "pending"
    BY DEF ShadowedNeverMoves
  <2>3. /\ Len(d) \in Nat
        /\ DOMAIN d = 1..Len(d)
        /\ DOMAIN e = 1..(Len(d) + 1)
    BY <1>1, <2>1
  <2>4. CASE j = Len(d) + 1
    BY <2>1, <2>4
  <2>5. CASE j # Len(d) + 1
    <3>1. i \in DOMAIN d /\ j \in DOMAIN d
      BY <2>2, <2>3, <2>5
    <3>2. d[i].id = d[j].id
      BY <2>1, <2>2, <3>1
    <3>3. d[j].status = "pending"
      BY <2>2, <3>1, <3>2 DEF ShadowedNeverMoves
    <3> QED BY <2>1, <3>1, <3>3
  <2> QED BY <2>4, <2>5
<1> QED BY <1>2, <1>3, <1>4, StepOnDispatch DEF DispatchEvents

\* Whatever is marked, a record queued under an id that is already taken stays
\* pending for good: _find never reaches it (core/dispatch.py, DispatchLog._find).
THEOREM Shadowed == Spec => []ShadowedNeverMoves
<1>1. Init => ShadowedNeverMoves
  BY DEF Init, Fresh, ShadowedNeverMoves
<1>2. TypeOK /\ ShadowedNeverMoves /\ [Next]_vars => ShadowedNeverMoves'
  BY StepShadowed
<1> QED BY <1>1, <1>2, TypeCorrect, PTL DEF Spec

-----------------------------------------------------------------------------
(* The dispatch log implements DispatchLifecycle *)

(* The strengthening the refinement needs: each record has a first record of *)
(* its id.  (True of every finite sequence; as an invariant it needs no      *)
(* induction over the sequence.)                                             *)
HasFirst ==
  \A i \in DOMAIN engine.dispatch :
    \E j \in DOMAIN engine.dispatch : IsFirst(engine.dispatch, j, engine.dispatch[i].id)

\* IsFirst depends only on the ids up to the index.
LEMMA SameFirst ==
  ASSUME NEW d \in Seq(DispatchRecord), NEW e \in Seq(DispatchRecord),
         Len(d) <= Len(e),
         \A i \in DOMAIN d : e[i].id = d[i].id,
         NEW j \in DOMAIN d, NEW r
  PROVE  IsFirst(e, j, r) <=> IsFirst(d, j, r)
<1>1. \A k \in 1..(j - 1) : k \in DOMAIN d
  OBVIOUS
<1> QED BY <1>1 DEF IsFirst

LEMMA StepHasFirst ==
  ASSUME TypeOK, HasFirst, [Next]_vars
  PROVE  HasFirst'
<1> DEFINE d == engine.dispatch
           e == engine'.dispatch
<1>1. d \in Seq(DispatchRecord)
  BY DEF TypeOK, EngineStates
<1>2. CASE e = d
  BY <1>2 DEF HasFirst
<1>3. ASSUME NEW c \in Commands, c.event \in MoveEvents, e = DispatchAfter(d, c)
      PROVE  HasFirst'
  <2>1. /\ e \in Seq(DispatchRecord)
        /\ DOMAIN e = DOMAIN d
        /\ Len(e) = Len(d)
        /\ \A i \in DOMAIN d : e[i].id = d[i].id
    BY <1>1, <1>3, MoveShape
  <2>2. SUFFICES ASSUME NEW i \in DOMAIN d
                 PROVE  \E j \in DOMAIN d : IsFirst(e, j, d[i].id)
    BY <2>1 DEF HasFirst
  <2>3. PICK j \in DOMAIN d : IsFirst(d, j, d[i].id)
    BY DEF HasFirst
  <2>4. Len(d) <= Len(e)
    BY <1>1, <2>1
  <2> HIDE DEF d, e
  <2>5. IsFirst(e, j, d[i].id)
    BY <1>1, <2>1, <2>3, <2>4, SameFirst
  <2> QED BY <2>5
<1>4. ASSUME NEW c \in Commands, c.event = "DispatchQueued", e = DispatchAfter(d, c)
      PROVE  HasFirst'
  <2>1. /\ e \in Seq(DispatchRecord)
        /\ Len(e) = Len(d) + 1
        /\ \A i \in DOMAIN d : e[i] = d[i]
        /\ e[Len(d) + 1] = [id |-> c.key, status |-> "pending"]
    BY <1>1, <1>4, QueueShape
  <2>2. /\ Len(d) \in Nat
        /\ DOMAIN d = 1..Len(d)
        /\ DOMAIN e = 1..(Len(d) + 1)
    BY <1>1, <2>1
  <2>3. ASSUME NEW j \in DOMAIN d, NEW r PROVE IsFirst(e, j, r) <=> IsFirst(d, j, r)
    <3>1. Len(d) <= Len(e) /\ \A i \in DOMAIN d : e[i].id = d[i].id
      BY <2>1, <2>2
    <3> HIDE DEF d, e
    <3> QED BY <1>1, <2>1, <3>1, SameFirst
  <2>4. SUFFICES ASSUME NEW i \in DOMAIN e
                 PROVE  \E j \in DOMAIN e : IsFirst(e, j, e[i].id)
    BY DEF HasFirst
  <2>5. CASE \E k \in DOMAIN d : d[k].id = e[i].id
    <3>1. PICK k \in DOMAIN d : d[k].id = e[i].id
      BY <2>5
    <3>2. PICK j \in DOMAIN d : IsFirst(d, j, d[k].id)
      BY DEF HasFirst
    <3>3. IsFirst(e, j, e[i].id) /\ j \in DOMAIN e
      BY <2>2, <2>3, <3>1, <3>2
    <3> QED BY <3>3
  <2>6. CASE ~\E k \in DOMAIN d : d[k].id = e[i].id
    <3>1. i = Len(d) + 1
      BY <2>1, <2>2, <2>6
    <3>2. \A j \in 1..(i - 1) : e[j].id # e[i].id
      BY <2>1, <2>2, <2>6, <3>1
    <3> QED BY <3>2 DEF IsFirst
  <2> QED BY <2>5, <2>6
<1> QED BY <1>2, <1>3, <1>4, StepOnDispatch DEF DispatchEvents

\* The status of a request is that of its first record, wherever it is.
LEMMA StatusOfFirst ==
  ASSUME NEW d \in Seq(DispatchRecord), NEW j \in DOMAIN d, NEW r,
         IsFirst(d, j, r)
  PROVE  StatusOf(d, r) = d[j].status
<1>1. \A k \in DOMAIN d : IsFirst(d, k, r) => k = j
  BY FirstIsUnique
<1>2. (CHOOSE i \in DOMAIN d : IsFirst(d, i, r)) = j
  BY <1>1
<1> QED BY <1>2 DEF StatusOf

\* A marking moves the status of the request it names, and of no other.
LEMMA MoveOnStatus ==
  ASSUME TypeOK, NEW c \in Commands, c.event \in MoveEvents, Accepts(engine, c),
         engine'.dispatch = DispatchAfter(engine.dispatch, c)
  PROVE  /\ StatusOf(engine.dispatch, c.key) \in MovesFrom(c.event)
         /\ StatusOf(engine'.dispatch, c.key) = MovesTo(c.event)
         /\ \A r \in Requests \ {c.key} :
              StatusOf(engine'.dispatch, r) = StatusOf(engine.dispatch, r)
<1> DEFINE d == engine.dispatch
           e == engine'.dispatch
<1>1. d \in Seq(DispatchRecord)
  BY DEF TypeOK, EngineStates
<1>2. /\ e \in Seq(DispatchRecord)
      /\ DOMAIN e = DOMAIN d
      /\ Len(e) = Len(d)
      /\ \A i \in DOMAIN d :
           /\ e[i].id = d[i].id
           /\ e[i].status = IF IsFirst(d, i, c.key) THEN MovesTo(c.event)
                                                    ELSE d[i].status
  BY <1>1, MoveShape
<1>3. PICK j \in DOMAIN d : /\ IsFirst(d, j, c.key)
                            /\ d[j].status \in MovesFrom(c.event)
  BY DEF Accepts, LeaseEvents, MoveEvents, MailMarks
<1>4. ASSUME NEW k \in DOMAIN d, NEW r PROVE IsFirst(e, k, r) <=> IsFirst(d, k, r)
  <2>1. Len(d) <= Len(e)
    BY <1>1, <1>2
  <2> HIDE DEF d, e
  <2> QED BY <1>1, <1>2, <2>1, SameFirst
<1> HIDE DEF d, e
<1>5. StatusOf(d, c.key) \in MovesFrom(c.event)
  BY <1>1, <1>3, StatusOfFirst
<1>6. StatusOf(e, c.key) = MovesTo(c.event)
  BY <1>2, <1>3, <1>4, StatusOfFirst
<1>7. ASSUME NEW r \in Requests \ {c.key} PROVE StatusOf(e, r) = StatusOf(d, r)
  <2>1. CASE \E k \in DOMAIN d : IsFirst(d, k, r)
    <3>1. PICK k \in DOMAIN d : IsFirst(d, k, r)
      BY <2>1
    <3>2. IsFirst(e, k, r)
      BY <1>4, <3>1
    <3>3. ~IsFirst(d, k, c.key)
      BY <3>1 DEF IsFirst
    <3>4. e[k].status = d[k].status
      BY <1>2, <3>3
    <3>5. StatusOf(e, r) = e[k].status
      BY <1>2, <3>2, StatusOfFirst
    <3>6. StatusOf(d, r) = d[k].status
      BY <1>1, <3>1, StatusOfFirst
    <3> QED BY <3>4, <3>5, <3>6
  <2>2. CASE ~\E k \in DOMAIN d : IsFirst(d, k, r)
    BY <1>2, <1>4, <2>2 DEF StatusOf
  <2> QED BY <2>1, <2>2
<1> QED BY <1>5, <1>6, <1>7 DEF d, e

\* Queueing makes an absent request pending; for a known one it changes nothing.
LEMMA QueueOnStatus ==
  ASSUME TypeOK, HasFirst, NEW c \in Commands, c.event = "DispatchQueued",
         engine'.dispatch = DispatchAfter(engine.dispatch, c)
  PROVE  /\ \/ /\ StatusOf(engine.dispatch, c.key) = "absent"
               /\ StatusOf(engine'.dispatch, c.key) = "pending"
            \/ StatusOf(engine'.dispatch, c.key) = StatusOf(engine.dispatch, c.key)
         /\ \A r \in Requests \ {c.key} :
              StatusOf(engine'.dispatch, r) = StatusOf(engine.dispatch, r)
<1> DEFINE d == engine.dispatch
           e == engine'.dispatch
<1>1. d \in Seq(DispatchRecord)
  BY DEF TypeOK, EngineStates
<1>2. /\ e \in Seq(DispatchRecord)
      /\ Len(e) = Len(d) + 1
      /\ \A i \in DOMAIN d : e[i] = d[i]
      /\ e[Len(d) + 1] = [id |-> c.key, status |-> "pending"]
  BY <1>1, QueueShape
<1>3. \A i \in DOMAIN d : \E j \in DOMAIN d : IsFirst(d, j, d[i].id)
  BY DEF HasFirst
<1>4. /\ Len(d) \in Nat
      /\ DOMAIN d = 1..Len(d)
      /\ DOMAIN e = 1..(Len(d) + 1)
  BY <1>1, <1>2
<1>5. ASSUME NEW k \in DOMAIN d, NEW r PROVE IsFirst(e, k, r) <=> IsFirst(d, k, r)
  <2>1. Len(d) <= Len(e) /\ \A i \in DOMAIN d : e[i].id = d[i].id
    BY <1>2, <1>4
  <2> HIDE DEF d, e
  <2> QED BY <1>1, <1>2, <2>1, SameFirst
<1> HIDE DEF d, e
<1>6. ASSUME NEW r, \E k \in DOMAIN d : IsFirst(d, k, r)
      PROVE  StatusOf(e, r) = StatusOf(d, r)
  <2>1. PICK k \in DOMAIN d : IsFirst(d, k, r)
    BY <1>6
  <2>2. IsFirst(e, k, r) /\ k \in DOMAIN e
    BY <1>4, <1>5, <2>1
  <2>3. StatusOf(e, r) = e[k].status
    BY <1>2, <2>2, StatusOfFirst
  <2>4. StatusOf(d, r) = d[k].status
    BY <1>1, <2>1, StatusOfFirst
  <2> QED BY <1>2, <2>3, <2>4
<1>7. ASSUME NEW r, ~\E k \in DOMAIN d : IsFirst(d, k, r), r # c.key
      PROVE  StatusOf(e, r) = StatusOf(d, r)
  <2>1. \A k \in DOMAIN e : ~IsFirst(e, k, r)
    <3> SUFFICES ASSUME NEW k \in DOMAIN e, IsFirst(e, k, r) PROVE FALSE
      OBVIOUS
    <3>1. CASE k \in DOMAIN d
      BY <1>5, <1>7, <3>1
    <3>2. CASE k = Len(d) + 1
      BY <1>2, <1>7, <3>2 DEF IsFirst
    <3> QED BY <1>4, <3>1, <3>2
  <2> QED BY <1>7, <2>1 DEF StatusOf
<1>8. ASSUME ~\E k \in DOMAIN d : IsFirst(d, k, c.key)
      PROVE  StatusOf(d, c.key) = "absent" /\ StatusOf(e, c.key) = "pending"
  <2>1. StatusOf(d, c.key) = "absent"
    BY <1>8 DEF StatusOf
  <2>2. \A k \in DOMAIN d : d[k].id # c.key
    BY <1>3, <1>8
  <2>3. IsFirst(e, Len(d) + 1, c.key)
    BY <1>2, <1>4, <2>2 DEF IsFirst
  <2>4. Len(d) + 1 \in DOMAIN e
    BY <1>4
  <2>5. StatusOf(e, c.key) = e[Len(d) + 1].status
    BY <1>2, <2>3, <2>4, StatusOfFirst
  <2> QED BY <1>2, <2>1, <2>5
<1> QED BY <1>6, <1>7, <1>8 DEF d, e

\* Each step of the engine is one step of one request's lifecycle, or none.
LEMMA StepImplements ==
  ASSUME TypeOK, HasFirst, [Next]_vars
  PROVE  [Lifecycle!Next]_([r \in Requests |-> StatusOf(engine.dispatch, r)])
<1> DEFINE s == [r \in Requests |-> StatusOf(engine.dispatch, r)]
           t == [r \in Requests |-> StatusOf(engine'.dispatch, r)]
<1>0. ASSUME NEW c \in Commands, c.event \in DispatchEvents PROVE c.key \in Requests
  BY <1>0 DEF Commands, LeaseEvents, DispatchEvents, MoveEvents, MailMarks
<1>1. ASSUME engine'.dispatch = engine.dispatch PROVE t = s
  BY <1>1
<1>2. ASSUME NEW q \in Requests, NEW v,
             StatusOf(engine'.dispatch, q) = v,
             \A r \in Requests \ {q} :
               StatusOf(engine'.dispatch, r) = StatusOf(engine.dispatch, r)
      PROVE  t = [s EXCEPT ![q] = v]
  BY <1>2
<1>3. ASSUME NEW c \in Commands, c.event = "DispatchQueued",
             engine'.dispatch = DispatchAfter(engine.dispatch, c)
      PROVE  t = s \/ (s[c.key] = "absent" /\ t = [s EXCEPT ![c.key] = "pending"])
  <2>1. c.key \in Requests
    BY <1>0, <1>3 DEF DispatchEvents
  <2>2. \A r \in Requests \ {c.key} :
          StatusOf(engine'.dispatch, r) = StatusOf(engine.dispatch, r)
    BY <1>3, QueueOnStatus
  <2>3. CASE StatusOf(engine'.dispatch, c.key) = StatusOf(engine.dispatch, c.key)
    BY <2>2, <2>3
  <2>4. CASE /\ StatusOf(engine.dispatch, c.key) = "absent"
             /\ StatusOf(engine'.dispatch, c.key) = "pending"
    <3>1. s[c.key] = "absent"
      BY <2>1, <2>4
    <3>2. t = [s EXCEPT ![c.key] = "pending"]
      BY <1>2, <2>1, <2>2, <2>4
    <3> QED BY <3>1, <3>2
  <2> QED BY <1>3, <2>3, <2>4, QueueOnStatus
<1>4. ASSUME NEW c \in Commands, c.event \in MoveEvents, Accepts(engine, c),
             engine'.dispatch = DispatchAfter(engine.dispatch, c)
      PROVE  s[c.key] \in MovesFrom(c.event) /\ t = [s EXCEPT ![c.key] = MovesTo(c.event)]
  <2>1. c.key \in Requests
    BY <1>0, <1>4 DEF DispatchEvents
  <2>2. /\ StatusOf(engine.dispatch, c.key) \in MovesFrom(c.event)
        /\ StatusOf(engine'.dispatch, c.key) = MovesTo(c.event)
        /\ \A r \in Requests \ {c.key} :
             StatusOf(engine'.dispatch, r) = StatusOf(engine.dispatch, r)
    BY <1>4, MoveOnStatus
  <2>3. s[c.key] \in MovesFrom(c.event)
    BY <2>1, <2>2
  <2>4. t = [s EXCEPT ![c.key] = MovesTo(c.event)]
    BY <1>2, <2>1, <2>2
  <2> QED BY <2>3, <2>4
<1>5. (s)' = t
  OBVIOUS
<1> HIDE DEF s, t
<1>6. ASSUME NEW c \in Commands, c.event \in DispatchEvents, Accepts(engine, c),
             engine'.dispatch = DispatchAfter(engine.dispatch, c)
      PROVE  \/ t = s
             \/ \E r \in Requests :
                  \/ s[r] \in {"absent"} /\ t = [s EXCEPT ![r] = "pending"]
                  \/ s[r] \in {"pending"} /\ t = [s EXCEPT ![r] = "notified"]
                  \/ s[r] \in {"notified"} /\ t = [s EXCEPT ![r] = "delivered"]
                  \/ s[r] \in {"pending", "notified"} /\ t = [s EXCEPT ![r] = "failed"]
  <2>0. c.key \in Requests
    BY <1>0, <1>6
  <2>1. CASE c.event = "DispatchQueued"
    BY <1>3, <1>6, <2>0, <2>1
  <2>2. CASE c.event = "DispatchNotified"
    <3>1. MovesFrom(c.event) = {"pending"} /\ MovesTo(c.event) = "notified"
      BY <2>2 DEF MovesFrom, MovesTo
    <3> QED BY <1>4, <1>6, <2>0, <2>2, <3>1 DEF MoveEvents
  <2>3. CASE c.event = "DispatchDelivered"
    <3>1. MovesFrom(c.event) = {"notified"} /\ MovesTo(c.event) = "delivered"
      BY <2>3 DEF MovesFrom, MovesTo
    <3> QED BY <1>4, <1>6, <2>0, <2>3, <3>1 DEF MoveEvents
  <2>4. CASE c.event = "DispatchFailed"
    <3>1. MovesFrom(c.event) = {"pending", "notified"} /\ MovesTo(c.event) = "failed"
      BY <2>4 DEF MovesFrom, MovesTo
    <3> QED BY <1>4, <1>6, <2>0, <2>4, <3>1 DEF MoveEvents
  <2> QED BY <1>6, <2>1, <2>2, <2>3, <2>4 DEF DispatchEvents, MoveEvents
<1>7. t = s \/ \E r \in Requests :
        \/ s[r] \in {"absent"} /\ t = [s EXCEPT ![r] = "pending"]
        \/ s[r] \in {"pending"} /\ t = [s EXCEPT ![r] = "notified"]
        \/ s[r] \in {"notified"} /\ t = [s EXCEPT ![r] = "delivered"]
        \/ s[r] \in {"pending", "notified"} /\ t = [s EXCEPT ![r] = "failed"]
  BY <1>1, <1>6, StepOnDispatch
<1>8. [Lifecycle!Next]_(s)
  BY <1>5, <1>7
  DEF Lifecycle!Next, Lifecycle!Queue, Lifecycle!Notify, Lifecycle!Deliver,
      Lifecycle!Fail, Lifecycle!Move, s, t
<1> QED BY <1>8 DEF s

\* The engine implements the lifecycle of every request: queued once, announced,
\* then delivered, or failed before delivery (core/engine.py, core/dispatch.py).
THEOREM Implements == Spec => ImplementsLifecycle
<1>1. Init => HasFirst
  BY DEF Init, Fresh, HasFirst
<1>2. Init => Lifecycle!Init
  BY DEF Init, Fresh, Lifecycle!Init, StatusOf
<1>3. TypeOK /\ HasFirst /\ [Next]_vars => HasFirst'
  BY StepHasFirst
<1>4. TypeOK /\ HasFirst /\ [Next]_vars =>
        [Lifecycle!Next]_([r \in Requests |-> StatusOf(engine.dispatch, r)])
  BY StepImplements
<1> QED BY <1>1, <1>2, <1>3, <1>4, TypeCorrect, PTL
    DEF Spec, ImplementsLifecycle, Lifecycle!Spec


-----------------------------------------------------------------------------
(* Replaying a log, event by event *)

Less == {p \in Nat \X Nat : p[1] < p[2]}
LEMMA LessWF == IsWellFoundedOn(Less, Nat)
BY NatLessThanWellFounded DEF OpToRel, Less
LEMMA NatSetInduction == ASSUME NEW S, 0 \in S, \A n \in Nat : n \in S => n+1 \in S
  PROVE Nat \subseteq S
<1> DEFINE T == Nat \ S
<1> SUFFICES ASSUME T # {} PROVE FALSE
  OBVIOUS
<1>1. PICK x \in T : \A y \in T : <<y, x>> \notin Less
  BY LessWF, WFMin
<1>2. x # 0 /\ x - 1 \in Nat
  OBVIOUS
<1>3. <<x - 1, x>> \in Less
  BY <1>2 DEF Less
<1>4. x - 1 \in S
  BY <1>1, <1>2, <1>3
<1> QED BY <1>2, <1>4

\* What the recursion of Replays says of a function on 0 .. n.
IsReplay(f, events, n) ==
  f = [i \in 0 .. n |-> IF i = 0 THEN Fresh ELSE ReplayEvent(f[i - 1], events[i])]

\* There is such a function for every n.
LEMMA ReplayExists ==
  ASSUME NEW events, NEW n \in Nat
  PROVE  \E f : IsReplay(f, events, n)
<1> DEFINE S == {k \in Nat : \E f : IsReplay(f, events, k)}
<1>1. 0 \in S
  <2> DEFINE f == [i \in 0 .. 0 |-> Fresh]
  <2>1. IsReplay(f, events, 0)
    BY DEF IsReplay
  <2> QED BY <2>1
<1>2. ASSUME NEW k \in Nat, k \in S PROVE k + 1 \in S
  <2>1. PICK f : IsReplay(f, events, k)
    BY <1>2
  <2> DEFINE g == [i \in 0 .. k + 1 |->
                     IF i = k + 1 THEN ReplayEvent(f[k], events[k + 1]) ELSE f[i]]
  <2>2. \A i \in 0 .. k : f[i] = IF i = 0 THEN Fresh ELSE ReplayEvent(f[i - 1], events[i])
    BY <2>1 DEF IsReplay
  <2>3. ASSUME NEW i \in 0 .. k + 1
        PROVE  g[i] = IF i = 0 THEN Fresh ELSE ReplayEvent(g[i - 1], events[i])
    <3>1. CASE i = k + 1
      BY <3>1
    <3>2. CASE i # k + 1
      <4>1. i \in 0 .. k /\ g[i] = f[i]
        BY <3>2
      <4>2. i # 0 => g[i - 1] = f[i - 1]
        BY <4>1
      <4> QED BY <2>2, <4>1, <4>2
    <3> QED BY <3>1, <3>2
  <2>4. g = [i \in 0 .. k + 1 |->
               IF i = 0 THEN Fresh ELSE ReplayEvent(g[i - 1], events[i])]
    <3> HIDE DEF g
    <3>1. g = [i \in 0 .. k + 1 |-> g[i]]
      BY DEF g
    <3> QED BY <2>3, <3>1
  <2> HIDE DEF g
  <2>5. IsReplay(g, events, k + 1)
    BY <2>4 DEF IsReplay
  <2> QED BY <2>5
<1>3. Nat \subseteq S
  <2> HIDE DEF S
  <2> QED BY <1>1, <1>2, NatSetInduction
<1> QED BY <1>3

\* Two of them agree where both are defined, if the events do.
LEMMA ReplayUnique ==
  ASSUME NEW f, NEW g, NEW u, NEW v, NEW m \in Nat, NEW n \in Nat,
         IsReplay(f, u, m), IsReplay(g, v, n), m <= n,
         \A i \in 1 .. m : u[i] = v[i]
  PROVE  \A i \in 0 .. m : f[i] = g[i]
<1> DEFINE S == {k \in Nat : k \in 0 .. m => f[k] = g[k]}
<1>1. 0 \in S
  BY DEF IsReplay
<1>2. ASSUME NEW k \in Nat, k \in S PROVE k + 1 \in S
  <2> SUFFICES ASSUME k + 1 \in 0 .. m PROVE f[k + 1] = g[k + 1]
    OBVIOUS
  <2>1. k \in 0 .. m /\ k + 1 \in 1 .. m /\ k + 1 \in 0 .. n /\ k + 1 # 0 /\ (k + 1) - 1 = k
    OBVIOUS
  <2>2. f[k + 1] = ReplayEvent(f[k], u[k + 1])
    BY <2>1 DEF IsReplay
  <2>3. g[k + 1] = ReplayEvent(g[k], v[k + 1])
    BY <2>1 DEF IsReplay
  <2> QED BY <1>2, <2>1, <2>2, <2>3
<1>3. Nat \subseteq S
  <2> HIDE DEF S
  <2> QED BY <1>1, <1>2, NatSetInduction
<1> QED BY <1>3

LEMMA ReplaysIs ==
  ASSUME NEW events, Len(events) \in Nat
  PROVE  IsReplay(Replays(events), events, Len(events))
<1>1. \E f : f = [n \in 0 .. Len(events) |->
                    IF n = 0 THEN Fresh ELSE ReplayEvent(f[n - 1], events[n])]
  BY ReplayExists DEF IsReplay
<1> QED BY <1>1 DEF Replays, IsReplay

\* A log of one more event is the log replayed and that event.
LEMMA ReplayAppend ==
  ASSUME NEW events \in Seq(Commands), NEW c \in Commands
  PROVE  Replay(Append(events, c)) = ReplayEvent(Replay(events), c)
<1> DEFINE more == Append(events, c)
           n    == Len(events)
<1>1. /\ n \in Nat /\ Len(more) = n + 1 /\ more[n + 1] = c
      /\ \A i \in 1 .. n : events[i] = more[i]
  OBVIOUS
<1>2. IsReplay(Replays(events), events, n) /\ IsReplay(Replays(more), more, n + 1)
  <2> HIDE DEF more
  <2> QED BY <1>1, ReplaysIs
<1>3. Replays(events)[n] = Replays(more)[n]
  <2> HIDE DEF more, n
  <2>1. n + 1 \in Nat /\ n <= n + 1 /\ n \in 0 .. n
    BY <1>1
  <2> QED BY <1>1, <1>2, <2>1, ReplayUnique
<1>4. Replays(more)[n + 1] = ReplayEvent(Replays(more)[n], more[n + 1])
  <2> HIDE DEF more, n
  <2>1. n + 1 \in 0 .. (n + 1) /\ n + 1 # 0 /\ (n + 1) - 1 = n
    BY <1>1
  <2> QED BY <1>2, <2>1 DEF IsReplay
<1> HIDE DEF more, n
<1> QED BY <1>1, <1>3, <1>4 DEF Replay, more, n

LEMMA ReplayEmpty == Replay(<<>>) = Fresh
<1>1. Len(<<>>) = 0 /\ 0 \in 0 .. 0
  OBVIOUS
<1>2. IsReplay(Replays(<<>>), <<>>, 0)
  BY <1>1, ReplaysIs
<1> QED BY <1>1, <1>2 DEF Replay, IsReplay

-----------------------------------------------------------------------------
(* Compaction, event by event *)

IsFilter(f, events, kept, n) ==
  f = [i \in 0 .. n |->
         IF i = 0 THEN <<>>
         ELSE IF events[i] \in kept THEN Append(f[i - 1], events[i]) ELSE f[i - 1]]

LEMMA FilterExists ==
  ASSUME NEW events, NEW kept, NEW n \in Nat
  PROVE  \E f : IsFilter(f, events, kept, n)
<1> DEFINE S == {k \in Nat : \E f : IsFilter(f, events, kept, k)}
<1>1. 0 \in S
  <2> DEFINE f == [i \in 0 .. 0 |-> <<>>]
  <2>1. IsFilter(f, events, kept, 0)
    BY DEF IsFilter
  <2> QED BY <2>1
<1>2. ASSUME NEW k \in Nat, k \in S PROVE k + 1 \in S
  <2>1. PICK f : IsFilter(f, events, kept, k)
    BY <1>2
  <2> DEFINE g == [i \in 0 .. k + 1 |->
                     IF i = k + 1
                       THEN IF events[k + 1] \in kept THEN Append(f[k], events[k + 1]) ELSE f[k]
                       ELSE f[i]]
  <2>2. \A i \in 0 .. k :
          f[i] = IF i = 0 THEN <<>>
                 ELSE IF events[i] \in kept THEN Append(f[i - 1], events[i]) ELSE f[i - 1]
    BY <2>1 DEF IsFilter
  <2>3. ASSUME NEW i \in 0 .. k + 1
        PROVE  g[i] = IF i = 0 THEN <<>>
                      ELSE IF events[i] \in kept THEN Append(g[i - 1], events[i]) ELSE g[i - 1]
    <3>1. CASE i = k + 1
      BY <3>1
    <3>2. CASE i # k + 1
      <4>1. i \in 0 .. k /\ g[i] = f[i]
        BY <3>2
      <4>2. i # 0 => g[i - 1] = f[i - 1]
        BY <4>1
      <4> QED BY <2>2, <4>1, <4>2
    <3> QED BY <3>1, <3>2
  <2>4. g = [i \in 0 .. k + 1 |->
               IF i = 0 THEN <<>>
               ELSE IF events[i] \in kept THEN Append(g[i - 1], events[i]) ELSE g[i - 1]]
    <3> HIDE DEF g
    <3>1. g = [i \in 0 .. k + 1 |-> g[i]]
      BY DEF g
    <3> QED BY <2>3, <3>1
  <2> HIDE DEF g
  <2>5. IsFilter(g, events, kept, k + 1)
    BY <2>4 DEF IsFilter
  <2> QED BY <2>5
<1>3. Nat \subseteq S
  <2> HIDE DEF S
  <2> QED BY <1>1, <1>2, NatSetInduction
<1> QED BY <1>3

\* Only is computed by a function that takes one event more at each step.
LEMMA OnlyIs ==
  ASSUME NEW events, NEW kept, Len(events) \in Nat
  PROVE  \E f : IsFilter(f, events, kept, Len(events)) /\ Only(events, kept) = f[Len(events)]
<1>1. \E f : f = [n \in 0 .. Len(events) |->
                    IF n = 0 THEN <<>>
                    ELSE IF events[n] \in kept THEN Append(f[n - 1], events[n]) ELSE f[n - 1]]
  <2>1. \E f : IsFilter(f, events, kept, Len(events))
    BY FilterExists
  <2> QED BY <2>1 DEF IsFilter
<1> DEFINE first == CHOOSE f : f = [n \in 0 .. Len(events) |->
                    IF n = 0 THEN <<>>
                    ELSE IF events[n] \in kept THEN Append(f[n - 1], events[n]) ELSE f[n - 1]]
<1>2. IsFilter(first, events, kept, Len(events))
  BY <1>1 DEF IsFilter
<1>3. Only(events, kept) = first[Len(events)]
  BY DEF Only
<1> HIDE DEF first
<1> QED BY <1>2, <1>3

-----------------------------------------------------------------------------
(* What a log says of one request: "absent", the status of its one record, or *)
(* "many" records, of which nothing is said.                                  *)
Holding(records, r) == {i \in DOMAIN records : records[i].id = r}

Account(records, r) ==
  IF Holding(records, r) = {} THEN "absent"
  ELSE IF \E i \in DOMAIN records : Holding(records, r) = {i}
    THEN records[CHOOSE i \in DOMAIN records : Holding(records, r) = {i}].status
    ELSE "many"

AccountAfter(a, c) ==
  IF c.event = "DispatchQueued" THEN IF a = "absent" THEN "pending" ELSE "many"
  ELSE IF a \in MovesFrom(c.event) THEN MovesTo(c.event) ELSE a

LEMMA AccountOfOne ==
  ASSUME NEW records, NEW r, NEW i \in DOMAIN records, Holding(records, r) = {i}
  PROVE  Account(records, r) = records[i].status
<1>1. (CHOOSE j \in DOMAIN records : Holding(records, r) = {j}) = i
  OBVIOUS
<1> QED BY <1>1 DEF Account

LEMMA AccountCases ==
  ASSUME NEW records, NEW r
  PROVE  \/ Holding(records, r) = {} /\ Account(records, r) = "absent"
         \/ \E i \in DOMAIN records : /\ Holding(records, r) = {i}
                                      /\ Account(records, r) = records[i].status
         \/ /\ \E i, j \in Holding(records, r) : i # j
            /\ Account(records, r) = "many"
<1>1. CASE Holding(records, r) = {}
  BY <1>1 DEF Account
<1>2. CASE \E i \in DOMAIN records : Holding(records, r) = {i}
  BY <1>2, AccountOfOne
<1>3. CASE Holding(records, r) # {} /\ ~\E i \in DOMAIN records : Holding(records, r) = {i}
  <2>1. PICK i \in Holding(records, r) : TRUE
    BY <1>3
  <2>2. i \in DOMAIN records
    BY DEF Holding
  <2>3. PICK j \in Holding(records, r) : j # i
    BY <1>3, <2>1, <2>2
  <2> QED BY <1>3, <2>1, <2>3 DEF Account
<1> QED BY <1>1, <1>2, <1>3

\* Several records make "many".
LEMMA AccountOfMany ==
  ASSUME NEW records, NEW r, NEW i \in Holding(records, r), NEW j \in Holding(records, r), i # j
  PROVE  Account(records, r) = "many"
BY AccountCases

\* The only record of an id is the first one.
LEMMA OneIsFirst ==
  ASSUME NEW records \in Seq(DispatchRecord), NEW r, NEW i \in DOMAIN records,
         Holding(records, r) = {i}
  PROVE  \A j \in DOMAIN records : IsFirst(records, j, r) <=> j = i
<1>1. records[i].id = r /\ \A j \in DOMAIN records : records[j].id = r => j = i
  BY DEF Holding
<1>2. ASSUME NEW j \in 1 .. (i - 1) PROVE records[j].id # r
  <2>1. j \in DOMAIN records /\ j # i
    OBVIOUS
  <2> QED BY <1>1, <2>1
<1> QED BY <1>1, <1>2 DEF IsFirst

\* Queueing and marking in the terms of accounts.
LEMMA AccountQueued ==
  ASSUME NEW records \in Seq(DispatchRecord), NEW c \in Commands, c.event = "DispatchQueued", NEW r
  PROVE  Account(DispatchAfter(records, c), r) =
           IF c.key = r THEN AccountAfter(Account(records, r), c) ELSE Account(records, r)
<1> DEFINE after == DispatchAfter(records, c)
           new   == Len(records) + 1
<1>1. /\ after \in Seq(DispatchRecord) /\ Len(after) = Len(records) + 1
      /\ \A i \in DOMAIN records : after[i] = records[i]
      /\ after[new] = [id |-> c.key, status |-> "pending"]
  BY QueueShape
<1>2. DOMAIN after = DOMAIN records \cup {new} /\ new \notin DOMAIN records
  BY <1>1
<1> HIDE DEF after, new
<1>3. CASE c.key # r
  <2>1. Holding(after, r) = Holding(records, r)
    BY <1>1, <1>2, <1>3 DEF Holding
  <2>2. ASSUME Holding(records, r) = {} PROVE Account(after, r) = Account(records, r)
    BY <2>1, <2>2 DEF Account
  <2>3. ASSUME NEW i \in DOMAIN records, Holding(records, r) = {i}
        PROVE  Account(after, r) = Account(records, r)
    <3>1. Account(records, r) = records[i].status
      BY <2>3, AccountOfOne
    <3>2. Account(after, r) = after[i].status
      BY <1>2, <2>1, <2>3, AccountOfOne
    <3> QED BY <1>1, <3>1, <3>2
  <2>4. ASSUME NEW i \in Holding(records, r), NEW j \in Holding(records, r), i # j
        PROVE  Account(after, r) = Account(records, r)
    BY <2>1, <2>4, AccountOfMany
  <2> QED BY <1>3, <2>2, <2>3, <2>4, AccountCases DEF after
<1>4. CASE c.key = r
  <2>1. Holding(after, r) = Holding(records, r) \cup {new}
    BY <1>1, <1>2, <1>4 DEF Holding
  <2>2. CASE Holding(records, r) = {}
    <3>1. Holding(after, r) = {new} /\ new \in DOMAIN after
      BY <1>2, <2>1, <2>2
    <3>2. Account(after, r) = "pending"
      BY <1>1, <3>1, AccountOfOne
    <3>3. Account(records, r) = "absent"
      BY <2>2 DEF Account
    <3> QED BY <1>4, <3>2, <3>3 DEF AccountAfter, after
  <2>3. CASE Holding(records, r) # {}
    <3>1. PICK i \in Holding(records, r) : TRUE
      BY <2>3
    <3>2. i # new /\ i \in Holding(after, r) /\ new \in Holding(after, r)
      BY <1>2, <2>1 DEF Holding
    <3>3. Account(after, r) = "many"
      BY <3>2, AccountOfMany
    <3>4. Account(records, r) # "absent"
      <4>1. \A j \in DOMAIN records : records[j].status # "absent"
        <5>1. \A j \in DOMAIN records : records[j] \in DispatchRecord
          OBVIOUS
        <5> QED BY <5>1 DEF DispatchRecord, Statuses
      <4> QED BY <2>3, <4>1, AccountCases
    <3> QED BY <1>4, <3>3, <3>4 DEF AccountAfter, after
  <2> QED BY <2>2, <2>3
<1> QED BY <1>3, <1>4


-----------------------------------------------------------------------------
(* What an event does to the account of a request *)

LEMMA AccountMoved ==
  ASSUME NEW e \in EngineStates, NEW c \in Commands, c.event \in MoveEvents, NEW r
  PROVE  Account(ReplayEvent(e, c).dispatch, r) =
           IF c.key = r THEN AccountAfter(Account(e.dispatch, r), c) ELSE Account(e.dispatch, r)
<1> DEFINE records == e.dispatch
           after   == DispatchAfter(records, c)
<1>1. records \in Seq(DispatchRecord)
  BY DEF EngineStates
<1>2. /\ after \in Seq(DispatchRecord) /\ DOMAIN after = DOMAIN records
      /\ \A i \in DOMAIN records :
           /\ after[i].id = records[i].id
           /\ after[i].status = IF IsFirst(records, i, c.key) THEN MovesTo(c.event)
                                                             ELSE records[i].status
  BY <1>1, MoveShape
<1>3. Accepts(e, c) <=>
        \E i \in DOMAIN records : IsFirst(records, i, c.key) /\ records[i].status \in MovesFrom(c.event)
  BY DEF Accepts, MoveEvents, MailMarks
<1>4. ReplayEvent(e, c).dispatch = IF Accepts(e, c) THEN after ELSE records
  BY DEF ReplayEvent, Effect
<1>5. c.event # "DispatchQueued" /\ MovesFrom(c.event) \subseteq Statuses
  BY DEF MoveEvents, MovesFrom, Statuses
<1> HIDE DEF records, after
<1>6. Holding(after, r) = Holding(records, r)
  BY <1>2 DEF Holding
<1>7. CASE Holding(records, r) = {}
  <2>1. Account(records, r) = "absent" /\ Account(after, r) = "absent"
    BY <1>6, <1>7 DEF Account
  <2>2. "absent" \notin MovesFrom(c.event)
    BY <1>5 DEF Statuses
  <2> QED BY <1>4, <1>5, <2>1, <2>2 DEF AccountAfter, records
<1>8. ASSUME NEW i \in Holding(records, r), NEW j \in Holding(records, r), i # j
      PROVE  Account(ReplayEvent(e, c).dispatch, r) =
               IF c.key = r THEN AccountAfter(Account(e.dispatch, r), c)
                            ELSE Account(e.dispatch, r)
  <2>1. Account(records, r) = "many" /\ Account(after, r) = "many"
    BY <1>6, <1>8, AccountOfMany
  <2>2. "many" \notin MovesFrom(c.event)
    BY <1>5 DEF Statuses
  <2> QED BY <1>4, <1>5, <2>1, <2>2 DEF AccountAfter, records
<1>9. ASSUME NEW i \in DOMAIN records, Holding(records, r) = {i}
      PROVE  Account(ReplayEvent(e, c).dispatch, r) =
               IF c.key = r THEN AccountAfter(Account(e.dispatch, r), c)
                            ELSE Account(e.dispatch, r)
  <2>1. Account(records, r) = records[i].status /\ Account(after, r) = after[i].status
    BY <1>2, <1>6, <1>9, AccountOfOne
  <2>2. CASE c.key = r
    <3>1. \A j \in DOMAIN records : IsFirst(records, j, r) <=> j = i
      BY <1>1, <1>9, OneIsFirst
    <3>2. Accepts(e, c) <=> records[i].status \in MovesFrom(c.event)
      BY <1>3, <2>2, <3>1
    <3>3. after[i].status = MovesTo(c.event)
      BY <1>2, <2>2, <3>1
    <3> QED BY <1>4, <1>5, <2>1, <2>2, <3>2, <3>3 DEF AccountAfter, records
  <2>3. CASE c.key # r
    <3>1. records[i].id = r
      BY <1>9 DEF Holding
    <3>2. after[i].status = records[i].status
      BY <1>2, <2>3, <3>1 DEF IsFirst
    <3> QED BY <1>4, <2>1, <2>3, <3>2 DEF records
  <2> QED BY <2>2, <2>3
<1> QED BY <1>7, <1>8, <1>9, AccountCases DEF records

\* A replayed event changes the account of the one request it is about.
LEMMA AccountStep ==
  ASSUME NEW e \in EngineStates, NEW c \in Commands, NEW r
  PROVE  Account(ReplayEvent(e, c).dispatch, r) =
           IF c.event \in DispatchEvents /\ c.key = r
             THEN AccountAfter(Account(e.dispatch, r), c) ELSE Account(e.dispatch, r)
<1>1. e.dispatch \in Seq(DispatchRecord)
  BY DEF EngineStates
<1>2. CASE c.event \in MoveEvents
  BY <1>2, AccountMoved DEF DispatchEvents
<1>3. CASE c.event = "DispatchQueued"
  <2>1. ReplayEvent(e, c).dispatch = DispatchAfter(e.dispatch, c)
    BY <1>3 DEF ReplayEvent, Accepts, Effect
  <2> QED BY <1>1, <1>3, <2>1, AccountQueued DEF DispatchEvents
<1>4. CASE c.event \notin DispatchEvents
  <2>1. ReplayEvent(e, c).dispatch = e.dispatch
    BY <1>4, OtherShape DEF ReplayEvent, Effect
  <2> QED BY <1>4, <2>1
<1> QED BY <1>2, <1>3, <1>4 DEF DispatchEvents

\* What an event does to the rest depends on that rest alone.
LEMMA RestStep ==
  ASSUME NEW e, NEW f, NEW c \in Commands,
         e.mailbox = f.mailbox, e.cursor = f.cursor
  PROVE  /\ ReplayEvent(e, c).mailbox = ReplayEvent(f, c).mailbox
         /\ ReplayEvent(e, c).cursor = ReplayEvent(f, c).cursor
         /\ e.owner = f.owner => ReplayEvent(e, c).owner = ReplayEvent(f, c).owner
         /\ c.event \in DispatchEvents =>
              /\ ReplayEvent(e, c).mailbox = e.mailbox /\ ReplayEvent(e, c).cursor = e.cursor
              /\ ReplayEvent(e, c).owner = e.owner
<1>1. CASE c.event \in LeaseEvents
  <2>1. MailboxAfter(e.mailbox, c) = e.mailbox /\ MailboxAfter(f.mailbox, c) = f.mailbox
    BY <1>1 DEF MailboxAfter, LeaseEvents
  <2>2. e.owner = f.owner => (Accepts(e, c) <=> Accepts(f, c))
    BY <1>1 DEF Accepts, LeaseEvents, MayAcquire, MoveEvents, MailMarks
  <2> QED BY <1>1, <2>1, <2>2 DEF ReplayEvent, Effect, LeaseEvents, DispatchEvents, MoveEvents
<1>2. CASE c.event \in MailMarks
  <2>1. Accepts(e, c) <=> Accepts(f, c)
    BY <1>2 DEF Accepts, LeaseEvents, MoveEvents, MailMarks
  <2> QED BY <1>2, <2>1 DEF ReplayEvent, Effect, LeaseEvents, MailMarks, DispatchEvents, MoveEvents
<1>3. CASE c.event \in {"ReplayRequested", "SnapshotCaptured", "MailboxMessageCreated"}
  <2>1. Accepts(e, c) /\ Accepts(f, c)
    BY <1>3 DEF Accepts
  <2> QED BY <1>3, <2>1 DEF ReplayEvent, Effect, LeaseEvents, DispatchEvents, MoveEvents
<1>4. CASE c.event \in DispatchEvents
  <2>1. MailboxAfter(e.mailbox, c) = e.mailbox /\ MailboxAfter(f.mailbox, c) = f.mailbox
    BY <1>4 DEF MailboxAfter, DispatchEvents, MoveEvents
  <2> QED BY <1>4, <2>1 DEF ReplayEvent, Effect, LeaseEvents, DispatchEvents, MoveEvents
<1> QED BY <1>1, <1>2, <1>3, <1>4
        DEF Commands, LeaseEvents, DispatchEvents, MoveEvents, MailMarks

LEMMA FreshTyped == Fresh \in EngineStates
<1>1. <<>> \in Seq(DispatchRecord) /\ <<>> \in Seq(MailboxRecord)
  OBVIOUS
<1> QED BY <1>1 DEF Fresh, EngineStates

LEMMA ReplayTyped ==
  ASSUME NEW events \in Seq(Commands)
  PROVE  /\ Replay(events) \in EngineStates
         /\ \A k \in 0 .. Len(events) : Replays(events)[k] \in EngineStates
<1> DEFINE n == Len(events)
           S == {k \in Nat : k \in 0 .. n => Replays(events)[k] \in EngineStates}
<1>1. n \in Nat /\ IsReplay(Replays(events), events, n)
  BY ReplaysIs
<1>2. \A i \in 1 .. n : events[i] \in Commands
  OBVIOUS
<1> HIDE DEF n
<1>3. 0 \in S
  BY <1>1, FreshTyped DEF IsReplay
<1>4. ASSUME NEW k \in Nat, k \in S PROVE k + 1 \in S
  <2> SUFFICES ASSUME k + 1 \in 0 .. n PROVE Replays(events)[k + 1] \in EngineStates
    OBVIOUS
  <2>1. k \in 0 .. n /\ k + 1 \in 1 .. n /\ k + 1 # 0 /\ (k + 1) - 1 = k
    BY <1>1
  <2>2. Replays(events)[k + 1] = ReplayEvent(Replays(events)[k], events[k + 1])
    BY <1>1, <2>1 DEF IsReplay
  <2> QED BY <1>2, <1>4, <2>1, <2>2, EffectTyped DEF ReplayEvent
<1>5. Nat \subseteq S
  <2> HIDE DEF S
  <2> QED BY <1>3, <1>4, NatSetInduction
<1>6. n \in 0 .. n /\ 0 .. n \subseteq Nat
  BY <1>1
<1> QED BY <1>1, <1>5, <1>6 DEF Replay, n

\* What compaction keeps: everything but the requests it drops.
Remembers(f, e, dropped) ==
  /\ f.mailbox = e.mailbox /\ f.cursor = e.cursor /\ f.owner = e.owner
  /\ \A r \in Requests : Account(f.dispatch, r) =
       IF r \in dropped THEN "absent" ELSE Account(e.dispatch, r)

LEMMA RemembersStep ==
  ASSUME NEW e \in EngineStates, NEW f \in EngineStates, NEW dropped, NEW c \in Commands,
         Remembers(f, e, dropped)
  PROVE  /\ (c.event \in DispatchEvents => c.key \notin dropped) =>
              Remembers(ReplayEvent(f, c), ReplayEvent(e, c), dropped)
         /\ c.event \in DispatchEvents /\ c.key \in dropped =>
              Remembers(f, ReplayEvent(e, c), dropped)
<1> DEFINE f1 == ReplayEvent(f, c)
           e1 == ReplayEvent(e, c)
<1>1. /\ f1.mailbox = e1.mailbox /\ f1.cursor = e1.cursor /\ f1.owner = e1.owner
      /\ c.event \in DispatchEvents =>
           e1.mailbox = e.mailbox /\ e1.cursor = e.cursor /\ e1.owner = e.owner
  BY RestStep DEF Remembers
<1>2. \A r : Account(f1.dispatch, r) = IF c.event \in DispatchEvents /\ c.key = r
                                         THEN AccountAfter(Account(f.dispatch, r), c)
                                         ELSE Account(f.dispatch, r)
  BY AccountStep
<1>3. \A r : Account(e1.dispatch, r) = IF c.event \in DispatchEvents /\ c.key = r
                                         THEN AccountAfter(Account(e.dispatch, r), c)
                                         ELSE Account(e.dispatch, r)
  BY AccountStep
<1> HIDE DEF f1, e1
<1>4. ASSUME c.event \in DispatchEvents => c.key \notin dropped PROVE Remembers(f1, e1, dropped)
  BY <1>1, <1>2, <1>3, <1>4 DEF Remembers
<1>5. ASSUME c.event \in DispatchEvents, c.key \in dropped PROVE Remembers(f, e1, dropped)
  BY <1>1, <1>3, <1>5 DEF Remembers
<1> QED BY <1>4, <1>5 DEF f1, e1

LEMMA CompactedReplay ==
  ASSUME NEW events \in Seq(Commands), NEW dropped
  PROVE  LET kept == {v \in Commands : v.event \in DispatchEvents => v.key \notin dropped}
         IN  /\ Only(events, kept) \in Seq(Commands)
             /\ Remembers(Replay(Only(events, kept)), Replay(events), dropped)
<1> DEFINE kept == {v \in Commands : v.event \in DispatchEvents => v.key \notin dropped}
           n == Len(events)
           P(k) == Replays(events)[k]
<1>1. n \in Nat /\ IsReplay(Replays(events), events, n) /\ n \in 0 .. n /\ 0 .. n \subseteq Nat
  BY ReplaysIs
<1>2. /\ \A i \in 1 .. n : events[i] \in Commands
      /\ \A k \in 0 .. n : P(k) \in EngineStates
  BY ReplayTyped
<1>3. \A v \in Commands : v \in kept <=> (v.event \in DispatchEvents => v.key \notin dropped)
  OBVIOUS
<1> HIDE DEF kept
<1>4. PICK f : IsFilter(f, events, kept, n) /\ Only(events, kept) = f[n]
  BY <1>1, OnlyIs
<1> DEFINE Good(k) == f[k] \in Seq(Commands) /\ Remembers(Replay(f[k]), P(k), dropped)
           S == {k \in Nat : k \in 0 .. n => Good(k)}
<1>5. 0 \in S
  <2>1. CASE 0 \in 0 .. n
    <3>1. f[0] = <<>> /\ P(0) = Fresh
      BY <1>1, <1>4, <2>1 DEF IsFilter, IsReplay
    <3>2. <<>> \in Seq(Commands)
      OBVIOUS
    <3>3. \A r : Account(Fresh.dispatch, r) = "absent"
      <4>1. Fresh.dispatch = <<>> /\ DOMAIN <<>> = {}
        BY DEF Fresh
      <4> QED BY <4>1 DEF Account, Holding
    <3>4. Remembers(Fresh, Fresh, dropped)
      BY <3>3 DEF Remembers
    <3> QED BY <3>1, <3>2, <3>4, ReplayEmpty
  <2>2. CASE 0 \notin 0 .. n
    BY <2>2
  <2> QED BY <2>1, <2>2
<1>6. ASSUME NEW k \in Nat, k \in S PROVE k + 1 \in S
  <2> SUFFICES ASSUME k + 1 \in 0 .. n PROVE Good(k + 1)
    OBVIOUS
  <2> DEFINE v == events[k + 1]
  <2>1. k \in 0 .. n /\ k + 1 \in 1 .. n /\ k + 1 # 0 /\ (k + 1) - 1 = k
    BY <1>1
  <2>2. P(k + 1) = ReplayEvent(P(k), v) /\ P(k) \in EngineStates /\ v \in Commands
    BY <1>1, <1>2, <2>1 DEF IsReplay
  <2>3. f[k + 1] = IF v \in kept THEN Append(f[k], v) ELSE f[k]
    BY <1>4, <2>1 DEF IsFilter
  <2>4. f[k] \in Seq(Commands) /\ Remembers(Replay(f[k]), P(k), dropped)
    BY <1>6, <2>1
  <2>5. Replay(f[k]) \in EngineStates
    BY <2>4, ReplayTyped
  <2> HIDE DEF v, P
  <2>6. CASE v \in kept
    <3>1. f[k + 1] \in Seq(Commands)
      BY <2>2, <2>3, <2>4, <2>6
    <3>2. Replay(f[k + 1]) = ReplayEvent(Replay(f[k]), v)
      BY <2>2, <2>3, <2>4, <2>6, ReplayAppend
    <3>3. Remembers(ReplayEvent(Replay(f[k]), v), ReplayEvent(P(k), v), dropped)
      BY <1>3, <2>2, <2>4, <2>5, <2>6, RemembersStep
    <3> QED BY <2>2, <3>1, <3>2, <3>3
  <2>7. CASE v \notin kept
    <3>1. Remembers(Replay(f[k]), ReplayEvent(P(k), v), dropped)
      BY <1>3, <2>2, <2>4, <2>5, <2>7, RemembersStep
    <3> QED BY <2>2, <2>3, <2>4, <2>7, <3>1
  <2> QED BY <2>6, <2>7
<1>7. Nat \subseteq S
  <2> HIDE DEF S
  <2> QED BY <1>5, <1>6, NatSetInduction
<1>8. Good(n)
  <2> HIDE DEF Good
  <2> QED BY <1>1, <1>7
<1>9. P(n) = Replay(events)
  BY DEF Replay
<1> QED BY <1>4, <1>8, <1>9 DEF kept


-----------------------------------------------------------------------------
(* The event log explains the engine: requests with one record are replayed  *)
(* as they are, or are finished and forgotten.                               *)
Explains(loaded) ==
  /\ loaded.mailbox = engine.mailbox /\ loaded.cursor = engine.cursor
  /\ ~bypassed => loaded.owner = engine.owner
  /\ \A r \in Requests :
       LET a == Account(engine.dispatch, r)
           l == Account(loaded.dispatch, r)
       IN  a = "many" \/ l = a \/ (l = "absent" /\ a \in Terminal)

LogInv == TypeOK /\ log \in Seq(Commands) /\ Explains(Replay(log))

LEMMA InitLogInv == Init => LogInv
<1> SUFFICES ASSUME Init PROVE LogInv
  OBVIOUS
<1>1. Replay(log) = engine /\ log \in Seq(Commands)
  BY ReplayEmpty DEF Init
<1> QED BY <1>1, InitType DEF LogInv, Explains

\* A command the engine accepts is explained by its event.
LEMMA ProcessExplained ==
  ASSUME LogInv, NEW c \in Commands, Process(c)
  PROVE  log' \in Seq(Commands) /\ Explains(Replay(log))'
<1> DEFINE e  == engine
           l  == Replay(log)
           l1 == ReplayEvent(l, c)
<1>1. e \in EngineStates /\ log \in Seq(Commands) /\ l \in EngineStates
  BY ReplayTyped DEF LogInv, TypeOK
<1>2. Replay(log') = l1 /\ log' \in Seq(Commands)
  BY <1>1, ReplayAppend DEF Process
<1>3. engine' = ReplayEvent(e, c) /\ Accepts(e, c) /\ bypassed' = bypassed
  BY DEF Process, ReplayEvent
<1>4. /\ l1.mailbox = engine'.mailbox /\ l1.cursor = engine'.cursor
      /\ ~bypassed' => l1.owner = engine'.owner
  BY <1>3, RestStep DEF LogInv, Explains
<1>5. ASSUME NEW r \in Requests
      PROVE  LET a1 == Account(engine'.dispatch, r)
                 m1 == Account(l1.dispatch, r)
             IN  a1 = "many" \/ m1 = a1 \/ (m1 = "absent" /\ a1 \in Terminal)
  <2> DEFINE a  == Account(e.dispatch, r)
             m  == Account(l.dispatch, r)
             a1 == Account(engine'.dispatch, r)
             m1 == Account(l1.dispatch, r)
  <2>1. a = "many" \/ m = a \/ (m = "absent" /\ a \in Terminal)
    BY DEF LogInv, Explains
  <2>2. a1 = IF c.event \in DispatchEvents /\ c.key = r THEN AccountAfter(a, c) ELSE a
    BY <1>1, <1>3, AccountStep
  <2>3. m1 = IF c.event \in DispatchEvents /\ c.key = r THEN AccountAfter(m, c) ELSE m
    BY <1>1, AccountStep
  <2>4. ASSUME c.event \in MoveEvents, c.key = r PROVE a \notin Terminal
    <3>0. e.dispatch \in Seq(DispatchRecord)
      BY <1>1 DEF EngineStates
    <3>1. PICK i \in DOMAIN e.dispatch :
            IsFirst(e.dispatch, i, r) /\ e.dispatch[i].status \in MovesFrom(c.event)
      BY <1>3, <2>4 DEF Accepts, MoveEvents, MailMarks
    <3>2. e.dispatch[i].status \notin Terminal /\ i \in Holding(e.dispatch, r)
      BY <2>4, <3>1 DEF MovesFrom, MoveEvents, Terminal, IsFirst, Holding
    <3>3. "many" \notin Terminal
      BY DEF Terminal
    <3> QED BY <3>2, <3>3, AccountCases
  <2>5. "many" \notin MovesFrom(c.event) \/ c.event \notin MoveEvents
    BY DEF MovesFrom, MoveEvents
  <2>6. "many" # "absent" /\ \A s \in Terminal : s # "absent"
    BY DEF Terminal
  <2> HIDE DEF a, m, a1, m1
  <2>7. CASE c.event = "DispatchQueued" /\ c.key = r
    BY <2>1, <2>2, <2>3, <2>6, <2>7 DEF AccountAfter, a1, m1, DispatchEvents
  <2>8. CASE c.event \in MoveEvents /\ c.key = r
    <3>1. c.event # "DispatchQueued" /\ c.event \in DispatchEvents
      BY <2>8 DEF MoveEvents, DispatchEvents
    <3>2. CASE a = "many"
      BY <2>2, <2>5, <2>8, <3>1, <3>2 DEF AccountAfter, a1
    <3>3. CASE a # "many"
      <4>1. m = a
        BY <2>1, <2>4, <2>8, <3>3
      <4> QED BY <2>2, <2>3, <4>1 DEF a1, m1
    <3> QED BY <3>2, <3>3
  <2>9. CASE ~(c.event \in DispatchEvents /\ c.key = r)
    BY <2>1, <2>2, <2>3, <2>9 DEF a1, m1
  <2> QED BY <2>7, <2>8, <2>9 DEF DispatchEvents
<1> HIDE DEF l1
<1> QED BY <1>2, <1>4, <1>5 DEF Explains

\* A compacted log explains as much as the log did.
LEMMA CompactExplained ==
  ASSUME LogInv, Compact
  PROVE  log' \in Seq(Commands) /\ Explains(Replay(log))'
<1> DEFINE dropped == TerminalIds(engine)
           l  == Replay(log)
           l1 == Replay(log')
<1>1. log \in Seq(Commands) /\ engine.dispatch \in Seq(DispatchRecord)
  BY DEF LogInv, TypeOK, EngineStates
<1>2. log' \in Seq(Commands) /\ Remembers(l1, l, dropped) /\ UNCHANGED <<engine, bypassed>>
  BY <1>1, CompactedReplay DEF Compact, CompactLog
<1>3. ASSUME NEW r \in Requests, r \in dropped
      PROVE  Account(engine.dispatch, r) \in Terminal \cup {"many"}
  <2>1. PICK i \in Holding(engine.dispatch, r) : engine.dispatch[i].status \in Terminal
    BY <1>3 DEF TerminalIds, Holding
  <2> QED BY <2>1, AccountCases
<1> HIDE DEF dropped, l, l1
<1>4. Explains(l)
  BY DEF LogInv, l
<1>5. \A r \in Requests :
        LET a == Account(engine.dispatch, r)
            m == Account(l1.dispatch, r)
        IN  a = "many" \/ m = a \/ (m = "absent" /\ a \in Terminal)
  BY <1>2, <1>3, <1>4 DEF Explains, Remembers
<1>6. /\ l1.mailbox = engine.mailbox /\ l1.cursor = engine.cursor
      /\ ~bypassed => l1.owner = engine.owner
  BY <1>2, <1>4 DEF Explains, Remembers
<1> QED BY <1>2, <1>5, <1>6 DEF Explains, l1

LEMMA StepLogInv == LogInv /\ [Next]_vars => LogInv'
<1> SUFFICES ASSUME LogInv, [Next]_vars PROVE log' \in Seq(Commands) /\ Explains(Replay(log))'
  BY NextType DEF LogInv
<1>1. ASSUME NEW c \in Commands, Process(c)
      PROVE  log' \in Seq(Commands) /\ Explains(Replay(log))'
  BY <1>1, ProcessExplained
<1>2. CASE Compact
  BY <1>2, CompactExplained
<1>3. CASE ForceRelease \/ MarkStale \/ ClearStale
  <2>1. /\ log' = log /\ bypassed' = TRUE
        /\ engine'.mailbox = engine.mailbox /\ engine'.cursor = engine.cursor
        /\ engine'.dispatch = engine.dispatch
    BY <1>3 DEF ForceRelease, MarkStale, ClearStale, LogInv, TypeOK, EngineStates
  <2>2. Replay(log') = Replay(log)
    BY <2>1
  <2> QED BY <2>1, <2>2 DEF LogInv, Explains
<1>4. CASE UNCHANGED vars
  BY <1>4 DEF vars, LogInv, Explains
<1> QED BY <1>1, <1>2, <1>3, <1>4 DEF Next

\* A load gives back what the engine had, whatever was compacted, queued twice or changed
\* behind the log (core/engine.py 210-226, 250-300).
THEOREM LogExplains == Spec => []LogExplainsEngine
<1>1. LogInv => LogExplainsEngine
  <2> SUFFICES ASSUME LogInv PROVE LogExplainsEngine
    OBVIOUS
  <2> DEFINE loaded == Replay(log)
  <2>0. /\ engine.dispatch \in Seq(DispatchRecord) /\ loaded.dispatch \in Seq(DispatchRecord)
    BY ReplayTyped DEF LogInv, TypeOK, EngineStates
  <2>1. /\ loaded.mailbox = engine.mailbox /\ loaded.cursor = engine.cursor
        /\ ~bypassed => loaded.owner = engine.owner
    BY DEF LogInv, Explains
  <2>2. ASSUME NEW i \in DOMAIN engine.dispatch,
               \A j \in DOMAIN engine.dispatch : engine.dispatch[j].id = engine.dispatch[i].id => j = i
        PROVE  LET found == {j \in DOMAIN loaded.dispatch :
                               loaded.dispatch[j].id = engine.dispatch[i].id}
               IN  /\ \A j \in found : loaded.dispatch[j] = engine.dispatch[i]
                   /\ engine.dispatch[i].status \notin Terminal => found # {}
    <3> DEFINE r == engine.dispatch[i].id
               s == engine.dispatch[i].status
    <3>1. engine.dispatch[i] \in DispatchRecord /\ r \in Requests /\ s \in Statuses
      <4>1. engine.dispatch[i] \in DispatchRecord
        BY <2>0
      <4> QED BY <4>1 DEF DispatchRecord
    <3>2. Account(engine.dispatch, r) = s
      <4>1. Holding(engine.dispatch, r) = {i}
        BY <2>2 DEF Holding
      <4> QED BY <4>1, AccountOfOne
    <3>3. s \notin {"many", "absent"}
      BY <3>1 DEF Statuses
    <3>4. \/ Account(loaded.dispatch, r) = s
          \/ Account(loaded.dispatch, r) = "absent" /\ s \in Terminal
      BY <3>1, <3>2, <3>3 DEF LogInv, Explains
    <3>5. \A j \in DOMAIN loaded.dispatch : loaded.dispatch[j] \in DispatchRecord
      BY <2>0
    <3> HIDE DEF r, s, loaded
    <3>6. \/ Holding(loaded.dispatch, r) = {} /\ s \in Terminal
          \/ \E j \in DOMAIN loaded.dispatch :
               Holding(loaded.dispatch, r) = {j} /\ loaded.dispatch[j].status = s
      <4>1. \A j \in DOMAIN loaded.dispatch : loaded.dispatch[j].status # "absent"
        BY <3>5 DEF DispatchRecord, Statuses
      <4> QED BY <3>3, <3>4, <4>1, AccountCases
    <3>7. \A j \in Holding(loaded.dispatch, r) : loaded.dispatch[j] = engine.dispatch[i]
      <4>1. \A j \in Holding(loaded.dispatch, r) :
              /\ loaded.dispatch[j] \in DispatchRecord /\ loaded.dispatch[j].id = r
              /\ loaded.dispatch[j].status = s
        BY <3>5, <3>6 DEF Holding
      <4> QED BY <3>1, <4>1 DEF DispatchRecord, r, s
    <3> QED BY <3>6, <3>7 DEF Holding, r, s
  <2> QED BY <2>1, <2>2 DEF LogExplainsEngine
<1> QED BY <1>1, InitLogInv, StepLogInv, PTL DEF Spec


-----------------------------------------------------------------------------
(* RuntimeBridge: engine.lock keeps loads and persists apart *)

Log == Seq(Commands)

(* The control part: who holds engine.lock is exactly who is between taking *)
(* and dropping it, although exceptions and crashes drop it too.            *)
LockInv ==
  /\ pc \in [Bridges -> Locations]
  /\ pos \in [Bridges -> 1..5]
  /\ writer \in Bridges \cup {Nobody}
  /\ readers \subseteq Bridges
  /\ \A b \in Bridges : pc[b] \notin {"truncate", "fill"} => pos[b] = 1
  /\ \A b \in Bridges : Persisting(b) <=> writer = b
  /\ \A b \in Bridges : Loading(b) <=> b \in readers
  /\ writer # Nobody => readers = {}

(* The data part: what is on disk and in memory is a log, and a torn log is *)
(* being filled by the one bridge that truncated it.                        *)
Engines ==
  /\ mem = [b \in Bridges |-> mem[b]]
  /\ \A b \in Bridges :
       mem[b] # NoEngine \/ pc[b] \in {"lock", "truncate", "fill"}
         => mem[b].log \in Log

Disk ==
  /\ read \in [Bridges -> Log]
  /\ files = [f \in Files |-> files[f]]
  /\ files["events.json"] \in Log \cup {Absent, Torn}
  /\ \A b \in Bridges : Loading(b) => files["events.json"] # Absent

Clean ==
  /\ faults \in Nat
  /\ faults = 0 =>
       /\ files["events.json"] = Torn =>
            \E b \in Bridges : pc[b] = "fill" /\ pos[b] = 2
       /\ \A b \in Bridges :
            pc[b] = "read mailbox" => files["events.json"] = read[b]

IInv == LockInv /\ Engines /\ Disk /\ Clean

LEMMA InitIInv == BridgeInit => IInv
<1> SUFFICES ASSUME BridgeInit PROVE IInv
  OBVIOUS
<1>0. <<>> \in Log /\ 1 \in 1..5 /\ 0 \in Nat
  BY DEF Log
<1>1. LockInv
  <2>1. pos \in [Bridges -> 1..5] /\ pc \in [Bridges -> Locations]
    BY <1>0 DEF BridgeInit, Locations
  <2> QED BY <2>1, BridgesAssumption DEF BridgeInit, LockInv, Persisting, Loading
<1>2. Engines
  BY DEF BridgeInit, Engines
<1>3. Disk
  BY <1>0 DEF BridgeInit, Disk, Loading, Files
<1>4. Clean
  <2>1. files["events.json"] = Absent
    BY DEF BridgeInit, Files
  <2> QED BY <1>0, <2>1, FilesAssumption DEF BridgeInit, Clean
<1> QED BY <1>1, <1>2, <1>3, <1>4 DEF IInv

\* The positions in Writes, and which of them are under the lock.
LEMMA Positions ==
  /\ Len(Writes) = 5 /\ PersistEnds = 3 /\ 1 \in 1..5
  /\ UnderLock(1) /\ UnderLock(2) /\ UnderLock(3) /\ ~UnderLock(5)
  /\ \A p \in 1..5 : p # 5 => p + 1 \in 1..5
  /\ ~UnderLock(3 + 1)
  /\ \A p \in 1..5 : p # 3 /\ p # 5 => (UnderLock(p + 1) <=> UnderLock(p))
BY DEF Writes, UnderLock, PersistEnds

\* What filling a file does to the control state.
LEMMA FillControl ==
  ASSUME NEW b \in Bridges, Fill(b)
  PROVE  /\ pc[b] = "fill" /\ readers' = readers
         /\ writer' = IF pos[b] = 3 THEN Nobody ELSE writer
         /\ \/ /\ pos[b] = 5 /\ pc' = [pc EXCEPT ![b] = "idle"]
               /\ pos' = [pos EXCEPT ![b] = 1]
            \/ /\ pos[b] # 5 /\ pc' = [pc EXCEPT ![b] = "truncate"]
               /\ pos' = [pos EXCEPT ![b] = pos[b] + 1]
<1>1. Len(Writes) = 5 /\ PersistEnds = 3
  BY Positions
<1> QED BY <1>1 DEF Fill, Goto

\* A bridge that goes on from a file keeps the lock just while it writes below it.
LEMMA Turn ==
  ASSUME LockInv, NEW b \in Bridges, NEW l \in {"idle", "truncate"}, NEW n \in 1..5,
         pc[b] = "fill", l = "idle" => n = 1,
         pc' = [pc EXCEPT ![b] = l], pos' = [pos EXCEPT ![b] = n],
         readers' = readers,
         writer' = writer \/ (writer = b /\ writer' = Nobody),
         writer' = b <=> (l = "truncate" /\ UnderLock(n))
  PROVE  LockInv'
<1>1. /\ pc' \in [Bridges -> Locations] /\ pos' \in [Bridges -> 1..5]
      /\ writer' \in Bridges \cup {Nobody} /\ readers' \subseteq Bridges
  BY DEF LockInv, Locations
<1>2. /\ pc'[b] = l /\ pos'[b] = n
      /\ \A d \in Bridges \ {b} : pc'[d] = pc[d] /\ pos'[d] = pos[d]
  BY DEF LockInv
<1>3. \A d \in Bridges : pc'[d] \notin {"truncate", "fill"} => pos'[d] = 1
  BY <1>2 DEF LockInv
<1>4. \A d \in Bridges : Persisting(d)' <=> writer' = d
  <2> SUFFICES ASSUME NEW d \in Bridges PROVE Persisting(d)' <=> writer' = d
    OBVIOUS
  <2>1. CASE d = b
    BY <1>2, <2>1 DEF Persisting
  <2>2. CASE d # b
    <3>1. writer' = d <=> writer = d
      BY <2>2, BridgesAssumption
    <3> QED BY <1>2, <2>2, <3>1 DEF Persisting, LockInv
  <2> QED BY <2>1, <2>2
<1>5. \A d \in Bridges : Loading(d)' <=> d \in readers'
  BY <1>2 DEF Loading, LockInv
<1>6. writer' # Nobody => readers' = {}
  BY DEF LockInv
<1> QED BY <1>1, <1>3, <1>4, <1>5, <1>6 DEF LockInv

\* The lock is taken and dropped in step with the program counters.
LEMMA StepLock == LockInv /\ [BridgeNext]_bridgeVars => LockInv'
<1> SUFFICES ASSUME LockInv, BridgeNext \/ UNCHANGED bridgeVars PROVE LockInv'
  OBVIOUS
<1> USE BridgesAssumption
<1> USE DEF LockInv, Persisting, Loading, Goto, Locations
<1>1. CASE UNCHANGED bridgeVars
  BY <1>1 DEF bridgeVars
<1>2. ASSUME NEW b \in Bridges,
             StartFresh(b) \/ Exit(b) \/ \E c \in Commands : Exec(b, c)
      PROVE  LockInv'
  BY <1>2 DEF StartFresh, Exit, Exec
<1>3. ASSUME NEW b \in Bridges, OpenForLoad(b) PROVE LockInv'
  BY <1>3 DEF OpenForLoad
<1>4. ASSUME NEW b \in Bridges, ReadEvents(b) PROVE LockInv'
  BY <1>4 DEF ReadEvents
<1>5. ASSUME NEW b \in Bridges, ReadMailbox(b) PROVE LockInv'
  BY <1>5 DEF ReadMailbox
<1>6. ASSUME NEW b \in Bridges, Lock(b) PROVE LockInv'
  <2>1. 1 \in 1..5 /\ UnderLock(1)
    BY Positions
  <2> QED BY <1>6, <2>1 DEF Lock
<1>7. ASSUME NEW b \in Bridges, Truncate(b) PROVE LockInv'
  BY <1>7 DEF Truncate
<1>8. ASSUME NEW b \in Bridges, Fill(b) PROVE LockInv'
  <2> DEFINE next == pos[b] + 1
  <2>1. /\ pc[b] = "fill" /\ readers' = readers
        /\ writer' = IF pos[b] = 3 THEN Nobody ELSE writer
        /\ \/ /\ pos[b] = 5 /\ pc' = [pc EXCEPT ![b] = "idle"]
              /\ pos' = [pos EXCEPT ![b] = 1]
           \/ /\ pos[b] # 5 /\ pc' = [pc EXCEPT ![b] = "truncate"]
              /\ pos' = [pos EXCEPT ![b] = next]
    BY <1>8, FillControl
  <2>2. /\ UnderLock(3) /\ ~UnderLock(5) /\ 1 \in 1..5
        /\ pos[b] # 5 => next \in 1..5
        /\ pos[b] = 3 => ~UnderLock(next)
        /\ pos[b] # 3 /\ pos[b] # 5 => (UnderLock(next) <=> UnderLock(pos[b]))
    BY Positions
  <2> HIDE DEF next
  <2> HIDE DEF LockInv, Persisting, Loading, Goto, Locations
  <2>w. pc \in [Bridges -> Locations] /\ pos \in [Bridges -> 1..5]
        /\ (UnderLock(pos[b]) <=> writer = b)
    BY <2>1 DEF LockInv, Persisting
  <2>3. CASE pos[b] = 5
    <3>1. /\ readers' = readers /\ writer' = writer
          /\ pc' = [pc EXCEPT ![b] = "idle"] /\ pos' = [pos EXCEPT ![b] = 1]
      BY <2>1, <2>3
    <3>2. writer # b
      BY <2>2, <2>3, <2>w
    <3> QED BY <2>1, <2>2, <3>1, <3>2, Turn
  <2>4. CASE pos[b] = 3
    <3>1. /\ readers' = readers /\ writer' = Nobody
          /\ pc' = [pc EXCEPT ![b] = "truncate"] /\ pos' = [pos EXCEPT ![b] = next]
      BY <2>1, <2>4
    <3>2. writer = b /\ next \in 1..5 /\ ~UnderLock(next)
      BY <2>2, <2>4, <2>w
    <3> QED BY <2>1, <3>1, <3>2, Turn
  <2>5. CASE pos[b] # 5 /\ pos[b] # 3
    <3>1. /\ readers' = readers /\ writer' = writer
          /\ pc' = [pc EXCEPT ![b] = "truncate"] /\ pos' = [pos EXCEPT ![b] = next]
      BY <2>1, <2>5
    <3>2. next \in 1..5 /\ (UnderLock(next) <=> writer = b)
      BY <2>2, <2>5, <2>w
    <3> QED BY <2>1, <3>1, <3>2, Turn
  <2> QED BY <2>3, <2>4, <2>5
<1>9. ASSUME NEW b \in Bridges, WriteFails(b) PROVE LockInv'
  <2>1. 1 \in 1..5
    BY Positions
  <2> QED BY <1>9, <2>1 DEF WriteFails, Unlock
<1>10. ASSUME NEW b \in Bridges, Crash(b) PROVE LockInv'
  <2>1. 1 \in 1..5
    BY Positions
  <2> QED BY <1>10, <2>1 DEF Crash, Unlock
<1> QED
  BY <1>1, <1>2, <1>3, <1>4, <1>5, <1>6, <1>7, <1>8, <1>9, <1>10 DEF BridgeNext

\* Only the second write of a call touches the event log.
LEMMA WhichFile ==
  ASSUME NEW p \in 1..5
  PROVE  Writes[p] \in Files /\ (Writes[p] = "events.json" <=> p = 2)
BY DEF Writes, Files

LEMMA TruncateOnEvents ==
  ASSUME IInv, NEW b \in Bridges, Truncate(b)
  PROVE  /\ pc[b] = "truncate" /\ pc' = [pc EXCEPT ![b] = "fill"] /\ pos' = pos
         /\ files' = [f \in Files |-> files'[f]]
         /\ files'["events.json"] = IF pos[b] = 2 THEN Torn ELSE files["events.json"]
         /\ mem' = mem /\ read' = read /\ faults' = faults
<1>1. pos[b] \in 1..5
  BY DEF IInv, LockInv
<1>2. "events.json" \in Files
  BY DEF Files
<1> QED BY <1>1, <1>2, WhichFile DEF Truncate, Goto, IInv, Disk

LEMMA FillOnEvents ==
  ASSUME IInv, NEW b \in Bridges, Fill(b)
  PROVE  /\ files' = [f \in Files |-> files'[f]]
         /\ files'["events.json"] = IF pos[b] = 2 THEN mem[b].log ELSE files["events.json"]
         /\ mem' = mem /\ read' = read /\ faults' = faults
<1>1. pos[b] \in 1..5
  BY DEF IInv, LockInv
<1>2. "events.json" \in Files
  BY DEF Files
<1>3. Contents(mem[b], "events.json") = mem[b].log
  BY DEF Contents
<1>4. files' = [files EXCEPT ![Writes[pos[b]]] = Contents(mem[b], Writes[pos[b]])]
  BY DEF Fill
<1>5. files' = [f \in Files |-> files'[f]]
  BY <1>4 DEF IInv, Disk
<1>6. files'["events.json"] = IF pos[b] = 2 THEN mem[b].log ELSE files["events.json"]
  BY <1>1, <1>2, <1>3, <1>4, WhichFile DEF IInv, Disk
<1> QED BY <1>5, <1>6 DEF Fill

\* Engines in memory have logs, the disk has a log or none, and in the absence
\* of faults a torn log is in the hands of the bridge that holds the lock.
LEMMA StepData == IInv /\ [BridgeNext]_bridgeVars => Engines' /\ Disk' /\ Clean'
<1> SUFFICES ASSUME IInv, BridgeNext \/ UNCHANGED bridgeVars PROVE Engines' /\ Disk' /\ Clean'
  OBVIOUS
<1> DEFINE Data == Engines /\ Disk /\ Clean
<1>0. /\ pc \in [Bridges -> Locations] /\ pos \in [Bridges -> 1..5]
      /\ Torn # Absent /\ Torn \notin Log /\ Absent \notin Log /\ <<>> \in Log
      /\ 2 \in 1..5 /\ UnderLock(2)
  BY FilesAssumption, Positions DEF IInv, LockInv, Log
<1> USE <1>0
<1>1. CASE UNCHANGED bridgeVars
  BY <1>1 DEF bridgeVars, IInv, Engines, Disk, Clean, Loading
<1>2. ASSUME NEW b \in Bridges, Exit(b) PROVE Data'
  BY <1>2 DEF Exit, IInv, Engines, Disk, Clean, Loading
<1>3. ASSUME NEW b \in Bridges, StartFresh(b) PROVE Data'
  BY <1>3 DEF StartFresh, IInv, Engines, Disk, Clean, Loading, Goto
<1>4. ASSUME NEW b \in Bridges, NEW c \in Commands, Exec(b, c) PROVE Data'
  <2>1. Append(mem[b].log, c) \in Log
    <3>1. mem[b].log \in Log
      BY <1>4 DEF Exec, IInv, Engines
    <3> QED BY <3>1 DEF Log
  <2>2. /\ mem' = [mem EXCEPT ![b] = [engine |-> Effect(mem[b].engine, c),
                                      log    |-> Append(mem[b].log, c)]]
        /\ pc[b] = "idle" /\ pc' = [pc EXCEPT ![b] = "lock"]
        /\ UNCHANGED <<pos, read, files, faults>>
    BY <1>4 DEF Exec, Goto
  <2> QED BY <2>1, <2>2 DEF IInv, Engines, Disk, Clean, Loading
<1>5. ASSUME NEW b \in Bridges, OpenForLoad(b) PROVE Data'
  BY <1>5 DEF OpenForLoad, IInv, Engines, Disk, Clean, Loading, Goto
<1>6. ASSUME NEW b \in Bridges, ReadEvents(b) PROVE Data'
  <2>1. files["events.json"] # Torn => files["events.json"] \in Log
    BY <1>6 DEF ReadEvents, IInv, Disk, Loading
  <2>2. CASE files["events.json"] = Torn
    BY <1>6, <2>2 DEF ReadEvents, IInv, Engines, Disk, Clean, Loading, Goto
  <2>3. CASE files["events.json"] # Torn
    BY <1>6, <2>1, <2>3 DEF ReadEvents, IInv, Engines, Disk, Clean, Loading, Goto
  <2> QED BY <2>2, <2>3
<1>7. ASSUME NEW b \in Bridges, ReadMailbox(b) PROVE Data'
  <2>1. PICK e : mem' = [mem EXCEPT ![b] = [engine |-> e, log |-> read[b]]]
    BY <1>7 DEF ReadMailbox
  <2>2. /\ pc[b] = "read mailbox" /\ pc' = [pc EXCEPT ![b] = "idle"]
        /\ read' = [read EXCEPT ![b] = <<>>]
        /\ UNCHANGED <<pos, files, faults>>
    BY <1>7 DEF ReadMailbox, Goto
  <2> QED BY <2>1, <2>2 DEF IInv, Engines, Disk, Clean, Loading
<1>8. ASSUME NEW b \in Bridges, Lock(b) PROVE Data'
  BY <1>8 DEF Lock, IInv, Engines, Disk, Clean, Loading, Goto
<1>9. ASSUME NEW b \in Bridges, Persisting(b), NEW d \in Bridges
      PROVE  ~Loading(d)
  BY <1>9, BridgesAssumption DEF IInv, LockInv
<1>10. ASSUME NEW b \in Bridges, Truncate(b) PROVE Data'
  <2>1. /\ pc[b] = "truncate" /\ pc' = [pc EXCEPT ![b] = "fill"] /\ pos' = pos
        /\ files' = [f \in Files |-> files'[f]]
        /\ files'["events.json"] = IF pos[b] = 2 THEN Torn ELSE files["events.json"]
        /\ mem' = mem /\ read' = read /\ faults' = faults
    BY <1>10, TruncateOnEvents
  <2>2. pos[b] = 2 => \A d \in Bridges : ~Loading(d)
    BY <1>9, <2>1 DEF Persisting
  <2>3. Engines'
    BY <2>1 DEF IInv, Engines
  <2>4. Disk'
    BY <2>1, <2>2 DEF IInv, Disk, Loading
  <2>5. Clean'
    <3>1. CASE pos[b] = 2
      BY <2>1, <2>2, <3>1 DEF IInv, Clean, Loading
    <3>2. CASE pos[b] # 2
      BY <2>1, <3>2 DEF IInv, Clean
    <3> QED BY <3>1, <3>2
  <2> QED BY <2>3, <2>4, <2>5
<1>11. ASSUME NEW b \in Bridges, Fill(b) PROVE Data'
  <2>1. /\ files' = [f \in Files |-> files'[f]]
        /\ files'["events.json"] = IF pos[b] = 2 THEN mem[b].log
                                                 ELSE files["events.json"]
        /\ mem' = mem /\ read' = read /\ faults' = faults
    BY <1>11, FillOnEvents
  <2>2. /\ pc[b] = "fill"
        /\ \E l \in {"idle", "truncate"} : pc' = [pc EXCEPT ![b] = l]
        /\ \A d \in Bridges \ {b} : pos'[d] = pos[d]
    BY <1>11, FillControl
  <2>3. mem[b].log \in Log
    BY <2>2 DEF IInv, Engines
  <2>4. pos[b] = 2 => \A d \in Bridges : ~Loading(d)
    BY <1>9, <2>2 DEF Persisting
  <2>5. Engines'
    BY <2>1, <2>2 DEF IInv, Engines
  <2>6. Disk'
    BY <2>1, <2>2, <2>3, <2>4 DEF IInv, Disk, Loading
  <2>7. Clean'
    <3>1. CASE pos[b] = 2
      BY <2>1, <2>2, <2>3, <2>4, <3>1 DEF IInv, Clean, Loading
    <3>2. CASE pos[b] # 2
      BY <2>1, <2>2, <3>2 DEF IInv, Clean
    <3> QED BY <3>1, <3>2
  <2> QED BY <2>5, <2>6, <2>7
<1>12. ASSUME NEW b \in Bridges, WriteFails(b) \/ Crash(b) PROVE Data'
  <2>1. faults' \in Nat /\ faults' # 0
    <3>1. faults' = faults + 1 /\ faults \in Nat
      BY <1>12 DEF WriteFails, Crash, IInv, Clean
    <3> QED BY <3>1
  <2>2. Clean'
    BY <2>1 DEF Clean
  <2>3. CASE WriteFails(b)
    BY <2>2, <2>3 DEF WriteFails, IInv, Engines, Disk, Loading, Goto
  <2>4. CASE Crash(b)
    BY <2>2, <2>4 DEF Crash, IInv, Engines, Disk, Loading, Goto
  <2> QED BY <1>12, <2>3, <2>4
<1> QED
  BY <1>1, <1>2, <1>3, <1>4, <1>5, <1>6, <1>7, <1>8, <1>10, <1>11, <1>12 DEF BridgeNext

LEMMA StepIInv == IInv /\ [BridgeNext]_bridgeVars => IInv'
BY StepLock, StepData DEF IInv

\* Whether two engines were ever cached at once is a plain yes or no.
SharedTyped == shared \in BOOLEAN

LEMMA StepShared == SharedTyped /\ [BridgeNext]_bridgeVars => SharedTyped'
<1> SUFFICES ASSUME SharedTyped, BridgeNext \/ UNCHANGED bridgeVars
             PROVE  SharedTyped'
  OBVIOUS
<1> USE DEF SharedTyped
<1>1. ASSUME NEW b \in Bridges, Shares(b) PROVE SharedTyped'
  BY <1>1 DEF Shares
<1>2. ASSUME NEW b \in Bridges, StartFresh(b) \/ ReadMailbox(b)
      PROVE  SharedTyped'
  BY <1>1, <1>2 DEF StartFresh, ReadMailbox
<1>3. ASSUME NEW b \in Bridges,
             \/ OpenForLoad(b) \/ ReadEvents(b) \/ Lock(b) \/ Truncate(b) \/ Fill(b)
             \/ WriteFails(b) \/ Crash(b) \/ Exit(b)
             \/ \E c \in Commands : Exec(b, c)
      PROVE  SharedTyped'
  BY <1>3 DEF OpenForLoad, ReadEvents, Lock, Truncate, Fill, WriteFails, Crash, Exit,
              Exec
<1>4. CASE UNCHANGED bridgeVars
  BY <1>4 DEF bridgeVars
<1> QED BY <1>2, <1>3, <1>4 DEF BridgeNext

\* Caches, reads in progress and the event log on disk are logs of commands, and
\* each bridge is at a position of exec_command (bridge.py 32-50).
THEOREM BridgeTypeCorrect == BridgeSpec => []BridgeTypeOK
<1>1. BridgeInit => SharedTyped
  BY DEF BridgeInit, SharedTyped
<1>2. IInv /\ SharedTyped => BridgeTypeOK
  BY Positions DEF IInv, LockInv, Engines, Disk, Clean, Log, SharedTyped, BridgeTypeOK
<1> QED BY InitIInv, StepIInv, StepShared, <1>1, <1>2, PTL DEF BridgeSpec

\* While one bridge persists no other persists or loads: flock on engine.lock in
\* RuntimeEngine.persist and load, across exceptions and crashes.
THEOREM Excludes == BridgeSpec => []LockExcludes
<1>1. IInv => LockExcludes
  BY BridgesAssumption DEF IInv, LockInv, LockExcludes
<1> QED BY InitIInv, StepIInv, <1>1, PTL DEF BridgeSpec

\* Until a process dies or a write fails, no load meets a torn event log, nor one
\* that changes under it (RuntimeEngine.load against persist).
THEOREM ConsistentLoads == BridgeSpec => []LoadsAreConsistent
<1>1. IInv => LoadsAreConsistent
  <2> SUFFICES ASSUME IInv, faults = 0, NEW b \in Bridges
               PROVE  /\ pc[b] = "read events" => files["events.json"] # Torn
                      /\ pc[b] = "read mailbox" => files["events.json"] = read[b]
    BY DEF LoadsAreConsistent
  <2>1. pc[b] = "read mailbox" => files["events.json"] = read[b]
    BY DEF IInv, Clean
  <2>2. ASSUME pc[b] = "read events", files["events.json"] = Torn PROVE FALSE
    <3>1. PICK d \in Bridges : pc[d] = "fill" /\ pos[d] = 2
      BY <2>2 DEF IInv, Clean
    <3>2. Persisting(d)
      BY <3>1, Positions DEF Persisting
    <3>3. Loading(b)
      BY <2>2 DEF Loading
    <3> QED BY <3>2, <3>3, BridgesAssumption DEF IInv, LockInv
  <2> QED BY <2>1, <2>2
<1> QED BY InitIInv, StepIInv, <1>1, PTL DEF BridgeSpec



-----------------------------------------------------------------------------
(* Memory and disk: a call has its engine, a load its log, and what either    *)
(* holds is well formed.                                                      *)
Caches == [engine : EngineStates, log : Log]

Called ==
  \A b \in Bridges :
    /\ pc[b] \in {"lock", "truncate", "fill"} => mem[b] # NoEngine /\ mem[b].log # <<>>
    /\ Loading(b) => mem[b] = NoEngine
    /\ mem[b] # NoEngine => mem[b] \in Caches

OnDisk ==
  /\ files["mailbox.json"] \in Seq(MailboxRecord) \cup {Absent, Torn}
  /\ \A b \in Bridges : pc[b] = "read mailbox" => files["events.json"] = read[b]

Base == IInv /\ Called /\ OnDisk

\* A write puts something into one of the files and leaves the others.
LEMMA TruncateIs ==
  ASSUME IInv, NEW b \in Bridges, Truncate(b)
  PROVE  /\ pc[b] = "truncate" /\ pc' = [pc EXCEPT ![b] = "fill"]
         /\ UNCHANGED <<mem, pos, read, faults, acked, shared>>
         /\ \A f \in Files : files'[f] = IF f = Writes[pos[b]] THEN Torn ELSE files[f]
BY DEF Truncate, Goto, IInv, Disk

LEMMA FillIs ==
  ASSUME IInv, NEW b \in Bridges, Fill(b)
  PROVE  /\ pc[b] = "fill" /\ pos[b] \in 1 .. 5
         /\ UNCHANGED <<mem, read, faults, shared>>
         /\ \A f \in Files : files'[f] = IF f = Writes[pos[b]] THEN Contents(mem[b], f)
                                                              ELSE files[f]
         /\ \/ /\ pos[b] = 5 /\ pc' = [pc EXCEPT ![b] = "idle"]
               /\ pos' = [pos EXCEPT ![b] = 1]
               /\ acked' = acked \cup {<<Len(mem[b].log), Last(mem[b].log)>>}
            \/ /\ pos[b] # 5 /\ pc' = [pc EXCEPT ![b] = "truncate"]
               /\ pos' = [pos EXCEPT ![b] = pos[b] + 1]
               /\ acked' = acked
<1>1. Len(Writes) = 5
  BY Positions
<1>2. \A f \in Files : files'[f] = IF f = Writes[pos[b]] THEN Contents(mem[b], f) ELSE files[f]
  BY DEF Fill, IInv, Disk
<1>3. pos[b] \in 1 .. 5
  BY DEF IInv, LockInv
<1> QED BY <1>1, <1>2, <1>3 DEF Fill, Goto

LEMMA ExecIs ==
  ASSUME Base, NEW b \in Bridges, NEW c \in Commands, Exec(b, c)
  PROVE  /\ pc[b] = "idle" /\ pc' = [pc EXCEPT ![b] = "lock"]
         /\ mem[b] # NoEngine /\ mem[b] \in Caches
         /\ mem' = [mem EXCEPT ![b] = mem'[b]]
         /\ mem'[b] \in Caches /\ mem'[b] # NoEngine /\ mem'[b].log # <<>>
         /\ mem'[b].log = Append(mem[b].log, c)
         /\ mem'[b].engine = Effect(mem[b].engine, c) /\ Accepts(mem[b].engine, c)
         /\ UNCHANGED <<pos, read, files, faults, acked, shared>>
<1>1. mem[b] # NoEngine /\ mem[b] \in Caches
  BY DEF Exec, Base, Called
<1>2. mem[b].engine \in EngineStates /\ mem[b].log \in Seq(Commands)
  BY <1>1 DEF Caches, Log
<1>3. Effect(mem[b].engine, c) \in EngineStates
  BY <1>2, EffectTyped
<1>4. Append(mem[b].log, c) \in Seq(Commands) /\ Append(mem[b].log, c) # <<>>
  BY <1>2
<1>5. mem'[b] = [engine |-> Effect(mem[b].engine, c), log |-> Append(mem[b].log, c)]
  BY DEF Exec, Base, IInv, Engines
<1>6. mem'[b] \in Caches
  BY <1>3, <1>4, <1>5 DEF Caches, Log
<1>7. mem'[b] # NoEngine
  BY <1>6, NoEngineAssumption DEF Caches, Log
<1>8. mem' = [mem EXCEPT ![b] = mem'[b]]
  BY <1>5 DEF Exec
<1> QED BY <1>1, <1>4, <1>5, <1>6, <1>7, <1>8 DEF Exec, Goto

\* A load yields the replayed log, with the mailbox of mailbox.json if that parses.
LEMMA ReadMailboxIs ==
  ASSUME Base, NEW b \in Bridges, ReadMailbox(b)
  PROVE  /\ pc[b] = "read mailbox" /\ pc' = [pc EXCEPT ![b] = "idle"]
         /\ mem' = [mem EXCEPT ![b] = mem'[b]]
         /\ mem'[b] \in Caches /\ mem'[b] # NoEngine /\ mem'[b].log = read[b]
         /\ read[b] \in Log
         /\ mem'[b].engine = IF files["mailbox.json"] \in {Absent, Torn}
                               THEN Replay(read[b])
                               ELSE [Replay(read[b]) EXCEPT !.mailbox = files["mailbox.json"]]
         /\ read' = [read EXCEPT ![b] = <<>>] /\ Shares(b)
         /\ UNCHANGED <<pos, files, faults, acked>>
<1> DEFINE e == IF files["mailbox.json"] \in {Absent, Torn}
                  THEN Replay(read[b])
                  ELSE [Replay(read[b]) EXCEPT !.mailbox = files["mailbox.json"]]
<1>1. read[b] \in Log /\ Replay(read[b]) \in EngineStates
  <2>1. read[b] \in Log
    BY DEF Base, IInv, Disk
  <2> QED BY <2>1, ReplayTyped DEF Log
<1>2. e \in EngineStates
  BY <1>1 DEF Base, OnDisk, EngineStates
<1> HIDE DEF e
<1>3. mem' = [mem EXCEPT ![b] = [engine |-> e, log |-> read[b]]]
  BY DEF ReadMailbox, e
<1>4. mem'[b] = [engine |-> e, log |-> read[b]]
  BY <1>3 DEF Base, IInv, Engines
<1>5. mem'[b] \in Caches
  BY <1>1, <1>2, <1>4 DEF Caches
<1>6. mem'[b] # NoEngine
  BY <1>5, NoEngineAssumption DEF Caches, Log
<1>7. mem' = [mem EXCEPT ![b] = mem'[b]]
  BY <1>3, <1>4
<1>8. mem'[b].log = read[b] /\ mem'[b].engine = e
  BY <1>4
<1>9. /\ pc[b] = "read mailbox" /\ pc' = [pc EXCEPT ![b] = "idle"]
      /\ read' = [read EXCEPT ![b] = <<>>] /\ Shares(b)
      /\ UNCHANGED <<pos, files, faults, acked>>
  BY DEF ReadMailbox, Goto
<1> QED BY <1>1, <1>5, <1>6, <1>7, <1>8, <1>9 DEF e

LEMMA StartFreshIs ==
  ASSUME Base, NEW b \in Bridges, StartFresh(b)
  PROVE  /\ pc[b] = "idle" /\ files["events.json"] = Absent
         /\ mem' = [mem EXCEPT ![b] = mem'[b]]
         /\ mem'[b] \in Caches /\ mem'[b] # NoEngine
         /\ mem'[b].log = <<>> /\ mem'[b].engine = Fresh /\ Shares(b)
         /\ UNCHANGED <<pc, pos, read, files, faults, acked>>
<1>1. mem'[b] = [engine |-> Fresh, log |-> <<>>]
  BY DEF StartFresh, Base, IInv, Engines
<1>2. mem'[b] \in Caches
  BY <1>1, FreshTyped DEF Caches, Log
<1>3. mem'[b] # NoEngine
  BY <1>2, NoEngineAssumption DEF Caches, Log
<1>4. mem' = [mem EXCEPT ![b] = mem'[b]]
  BY <1>1 DEF StartFresh
<1> QED BY <1>1, <1>2, <1>3, <1>4 DEF StartFresh
\* No step leaves a call without an engine, or a file or a cache malformed.
LEMMA StepBase == Base /\ [BridgeNext]_bridgeVars => Base'
<1> SUFFICES ASSUME Base, BridgeNext \/ UNCHANGED bridgeVars PROVE Called' /\ OnDisk'
  BY StepIInv DEF Base
<1> DEFINE Goal == Called' /\ OnDisk'
<1>0. /\ pc \in [Bridges -> Locations] /\ "mailbox.json" \in Files /\ "events.json" \in Files
      /\ \A b, d \in Bridges : Persisting(b) => ~Loading(d)
      /\ UnderLock(2)
  BY Positions, BridgesAssumption DEF Base, IInv, LockInv, Files
<1>1. CASE UNCHANGED bridgeVars
  BY <1>1 DEF bridgeVars, Base, Called, OnDisk, Loading
<1>2. ASSUME NEW b \in Bridges, Exit(b) PROVE Goal
  BY <1>0, <1>2 DEF Exit, Base, Called, OnDisk, Loading, IInv, Engines
<1>3. ASSUME NEW b \in Bridges, StartFresh(b) PROVE Goal
  <2>1. /\ pc[b] = "idle"
        /\ mem' = [mem EXCEPT ![b] = mem'[b]]
        /\ mem'[b] \in Caches /\ mem'[b] # NoEngine
        /\ UNCHANGED <<pc, read, files>>
    BY <1>3, StartFreshIs
  <2>2. mem = [d \in Bridges |-> mem[d]]
    BY DEF Base, IInv, Engines
  <2>3. Called'
    BY <1>0, <2>1, <2>2 DEF Base, Called, Loading
  <2>4. OnDisk'
    BY <2>1 DEF Base, OnDisk
  <2> QED BY <2>3, <2>4
<1>4. ASSUME NEW b \in Bridges, NEW c \in Commands, Exec(b, c) PROVE Goal
  <2>1. /\ pc[b] = "idle" /\ pc' = [pc EXCEPT ![b] = "lock"]
        /\ mem' = [mem EXCEPT ![b] = mem'[b]]
        /\ mem'[b] \in Caches /\ mem'[b] # NoEngine /\ mem'[b].log # <<>>
        /\ UNCHANGED <<read, files>>
    BY <1>4, ExecIs
  <2>2. mem = [d \in Bridges |-> mem[d]]
    BY DEF Base, IInv, Engines
  <2>3. Called'
    BY <1>0, <2>1, <2>2 DEF Base, Called, Loading
  <2>4. OnDisk'
    BY <1>0, <2>1 DEF Base, OnDisk
  <2> QED BY <2>3, <2>4
<1>5. ASSUME NEW b \in Bridges, OpenForLoad(b) PROVE Goal
  BY <1>0, <1>5 DEF OpenForLoad, Goto, Base, Called, OnDisk, Loading
<1>6. ASSUME NEW b \in Bridges, ReadEvents(b) PROVE Goal
  <2>1. /\ pc[b] = "read events" /\ UNCHANGED <<mem, files>>
        /\ \/ pc' = [pc EXCEPT ![b] = "idle"] /\ UNCHANGED read
           \/ /\ pc' = [pc EXCEPT ![b] = "read mailbox"]
              /\ read' = [read EXCEPT ![b] = files["events.json"]]
    BY <1>6 DEF ReadEvents, Goto
  <2>2. read = [d \in Bridges |-> read[d]]
    BY DEF Base, IInv, Disk
  <2>3. Called'
    BY <1>0, <2>1 DEF Base, Called, Loading
  <2>4. OnDisk'
    BY <1>0, <2>1, <2>2 DEF Base, OnDisk
  <2> QED BY <2>3, <2>4
<1>7. ASSUME NEW b \in Bridges, ReadMailbox(b) PROVE Goal
  <2>1. /\ pc[b] = "read mailbox" /\ pc' = [pc EXCEPT ![b] = "idle"]
        /\ mem' = [mem EXCEPT ![b] = mem'[b]]
        /\ mem'[b] \in Caches /\ mem'[b] # NoEngine
        /\ read' = [read EXCEPT ![b] = <<>>]
        /\ UNCHANGED files
    BY <1>7, ReadMailboxIs
  <2>2. mem = [d \in Bridges |-> mem[d]] /\ read = [d \in Bridges |-> read[d]]
    BY DEF Base, IInv, Engines, Disk
  <2>3. Called'
    BY <1>0, <2>1, <2>2 DEF Base, Called, Loading
  <2>4. OnDisk'
    BY <1>0, <2>1, <2>2 DEF Base, OnDisk
  <2> QED BY <2>3, <2>4
<1>8. ASSUME NEW b \in Bridges, Lock(b) PROVE Goal
  BY <1>0, <1>8 DEF Lock, Goto, Base, Called, OnDisk, Loading
<1>9. ASSUME NEW b \in Bridges, Truncate(b) PROVE Goal
  <2>1. /\ pc[b] = "truncate" /\ pc' = [pc EXCEPT ![b] = "fill"]
        /\ UNCHANGED <<mem, pos, read>>
        /\ \A f \in Files : files'[f] = IF f = Writes[pos[b]] THEN Torn ELSE files[f]
    BY <1>9, TruncateIs DEF Base
  <2>2. Called'
    BY <1>0, <2>1 DEF Base, Called, Loading
  <2>3. files'["mailbox.json"] \in Seq(MailboxRecord) \cup {Absent, Torn}
    BY <1>0, <2>1 DEF Base, OnDisk
  <2>4. ASSUME NEW d \in Bridges, pc'[d] = "read mailbox"
        PROVE  files'["events.json"] = read'[d]
    <3>1. pc[d] = "read mailbox" /\ Loading(d)
      BY <1>0, <2>1, <2>4 DEF Loading
    <3>2. pos[b] # 2 /\ pos[b] \in 1 .. 5
      BY <1>0, <2>1, <3>1 DEF Persisting, Base, IInv, LockInv
    <3>3. files'["events.json"] = files["events.json"]
      BY <1>0, <2>1, <3>2, WhichFile
    <3> QED BY <2>1, <3>1, <3>3 DEF Base, OnDisk
  <2> QED BY <2>2, <2>3, <2>4 DEF OnDisk
<1>10. ASSUME NEW b \in Bridges, Fill(b) PROVE Goal
  <2>1. /\ pc[b] = "fill" /\ pos[b] \in 1 .. 5
        /\ UNCHANGED <<mem, read>>
        /\ \A f \in Files : files'[f] = IF f = Writes[pos[b]] THEN Contents(mem[b], f)
                                                             ELSE files[f]
        /\ \E l \in {"idle", "truncate"} : pc' = [pc EXCEPT ![b] = l]
    BY <1>10, FillIs DEF Base
  <2>2. Called'
    BY <1>0, <2>1 DEF Base, Called, Loading
  <2>3. files'["mailbox.json"] \in Seq(MailboxRecord) \cup {Absent, Torn}
    <3>1. mem[b] \in Caches
      BY <2>1 DEF Base, Called
    <3>2. mem[b].engine.mailbox \in Seq(MailboxRecord)
      BY <3>1 DEF Caches, EngineStates
    <3>3. Contents(mem[b], "mailbox.json") = mem[b].engine.mailbox
      BY DEF Contents
    <3> QED BY <1>0, <2>1, <3>2, <3>3 DEF Base, OnDisk
  <2>4. ASSUME NEW d \in Bridges, pc'[d] = "read mailbox"
        PROVE  files'["events.json"] = read'[d]
    <3>1. pc[d] = "read mailbox" /\ Loading(d)
      BY <1>0, <2>1, <2>4 DEF Loading
    <3>2. pos[b] # 2
      BY <1>0, <2>1, <3>1 DEF Persisting
    <3>3. files'["events.json"] = files["events.json"]
      BY <1>0, <2>1, <3>2, WhichFile
    <3> QED BY <2>1, <3>1, <3>3 DEF Base, OnDisk
  <2> QED BY <2>2, <2>3, <2>4 DEF OnDisk
<1>11. ASSUME NEW b \in Bridges, WriteFails(b) PROVE Goal
  BY <1>0, <1>11 DEF WriteFails, Goto, Base, Called, OnDisk, Loading
<1>12. ASSUME NEW b \in Bridges, Crash(b) PROVE Goal
  <2>1. /\ pc' = [pc EXCEPT ![b] = "idle"] /\ mem' = [mem EXCEPT ![b] = NoEngine]
        /\ read' = [read EXCEPT ![b] = <<>>] /\ UNCHANGED files
    BY <1>12 DEF Crash, Goto
  <2>2. mem = [d \in Bridges |-> mem[d]]
    BY DEF Base, IInv, Engines
  <2>3. Called'
    BY <1>0, <2>1, <2>2 DEF Base, Called, Loading
  <2>4. OnDisk'
    BY <1>0, <2>1 DEF Base, IInv, Disk, OnDisk
  <2> QED BY <2>3, <2>4
<1> QED
  BY <1>1, <1>2, <1>3, <1>4, <1>5, <1>6, <1>7, <1>8, <1>9, <1>10, <1>11, <1>12 DEF BridgeNext

LEMMA InitBase == BridgeInit => Base
<1> SUFFICES ASSUME BridgeInit PROVE Called /\ OnDisk
  BY InitIInv DEF Base
<1>1. /\ \A b \in Bridges : mem[b] = NoEngine /\ pc[b] = "idle"
      /\ files["mailbox.json"] = Absent
  BY DEF BridgeInit, Files
<1> QED BY <1>1 DEF Called, OnDisk, Loading

-----------------------------------------------------------------------------
(* Acknowledged commands are durable as long as one engine is cached at a    *)
(* time: the log on disk and the log in the cache both have them, and from   *)
(* the second write of a call on the two are the same.                       *)
Alone == \A b, d \in Bridges : mem[b] # NoEngine /\ mem[d] # NoEngine => b = d

Covers(l) == \A a \in acked : a[1] \in 1 .. Len(l) /\ l[a[1]] = a[2]

Durable ==
  /\ Alone
  /\ files["events.json"] = Absent => acked = {}
  /\ files["events.json"] \notin {Absent, Torn} => Covers(files["events.json"])
  /\ \A b \in Bridges : mem[b] # NoEngine => Covers(mem[b].log)
  /\ \A b \in Bridges : pc[b] \in {"truncate", "fill"} /\ pos[b] > 2 =>
                          files["events.json"] = mem[b].log

\* Whoever loads or starts an engine beside another's says so.
LEMMA StepAlone ==
  ASSUME Base, Alone, [BridgeNext]_bridgeVars, ~shared'
  PROVE  Alone' /\ ~shared
<1>0. mem = [b \in Bridges |-> mem[b]]
  BY DEF Base, IInv, Engines
<1>1. CASE UNCHANGED bridgeVars
  BY <1>1 DEF bridgeVars, Alone
<1>2. ASSUME NEW b \in Bridges, StartFresh(b) PROVE Alone' /\ ~shared
  <2>1. mem' = [mem EXCEPT ![b] = mem'[b]] /\ Shares(b)
    BY <1>2, StartFreshIs
  <2> QED BY <1>0, <2>1 DEF Alone, Shares
<1>3. ASSUME NEW b \in Bridges, ReadMailbox(b) PROVE Alone' /\ ~shared
  <2>1. mem' = [mem EXCEPT ![b] = mem'[b]] /\ Shares(b)
    BY <1>3, ReadMailboxIs
  <2> QED BY <1>0, <2>1 DEF Alone, Shares
<1>4. ASSUME NEW b \in Bridges, NEW c \in Commands, Exec(b, c) PROVE Alone' /\ ~shared
  <2>1. mem[b] # NoEngine /\ mem' = [mem EXCEPT ![b] = mem'[b]] /\ UNCHANGED shared
    BY <1>4, ExecIs
  <2> QED BY <1>0, <2>1 DEF Alone
<1>5. ASSUME NEW b \in Bridges, Exit(b) \/ Crash(b) PROVE Alone' /\ ~shared
  <2>1. mem' = [mem EXCEPT ![b] = NoEngine] /\ UNCHANGED shared
    BY <1>5 DEF Exit, Crash
  <2> QED BY <1>0, <2>1 DEF Alone
<1>6. ASSUME NEW b \in Bridges,
             OpenForLoad(b) \/ ReadEvents(b) \/ Lock(b) \/ Truncate(b) \/ Fill(b) \/ WriteFails(b)
      PROVE  Alone' /\ ~shared
  <2>1. UNCHANGED <<mem, shared>>
    BY <1>6 DEF OpenForLoad, ReadEvents, Lock, Truncate, Fill, WriteFails
  <2> QED BY <2>1 DEF Alone
<1> QED BY <1>1, <1>2, <1>3, <1>4, <1>5, <1>6 DEF BridgeNext

\* A step by bridge b that leaves disk, acknowledgements and caches alone and does not put
\* b further into a call loses nothing.
LEMMA QuietStep ==
  ASSUME Base, Durable, Alone', NEW b \in Bridges,
         UNCHANGED <<files, acked>>,
         \A d \in Bridges : mem'[d] # NoEngine => mem'[d] = mem[d],
         \A d \in Bridges :
           pc'[d] \in {"truncate", "fill"} /\ pos'[d] > 2 =>
             pc[d] \in {"truncate", "fill"} /\ pos'[d] = pos[d] /\ mem'[d] = mem[d]
  PROVE  Durable'
<1>1. \A d \in Bridges : mem'[d] # NoEngine => Covers(mem'[d].log)
  BY DEF Durable
<1>2. \A l : Covers(l)' <=> \A a \in acked : a[1] \in 1 .. Len(l) /\ l[a[1]] = a[2]
  BY DEF Covers
<1> QED BY DEF Durable, Covers

LEMMA StepDurable ==
  ASSUME Base, Base', Durable, [BridgeNext]_bridgeVars, ~shared'
  PROVE  Durable'
<1>0. Alone'
  BY StepAlone DEF Durable
<1>a. mem = [b \in Bridges |-> mem[b]] /\ "events.json" \in Files
      /\ pc \in [Bridges -> Locations] /\ pos \in [Bridges -> 1 .. 5]
      /\ \A b \in Bridges : pc[b] \notin {"truncate", "fill"} => pos[b] = 1
  BY DEF Base, IInv, Engines, Files, LockInv
<1>1. CASE UNCHANGED bridgeVars
  BY <1>1 DEF bridgeVars, Durable, Alone, Covers
<1>2. ASSUME NEW b \in Bridges, StartFresh(b) PROVE Durable'
  <2>1. /\ files["events.json"] = Absent /\ mem' = [mem EXCEPT ![b] = mem'[b]]
        /\ UNCHANGED <<pc, pos, files, acked>> /\ pc[b] = "idle"
    BY <1>2, StartFreshIs
  <2>2. acked = {} /\ acked' = {}
    BY <2>1 DEF Durable
  <2> QED BY <1>0, <1>a, <2>1, <2>2 DEF Durable, Covers
<1>3. ASSUME NEW b \in Bridges, ReadMailbox(b) PROVE Durable'
  <2>1. /\ pc[b] = "read mailbox" /\ pc' = [pc EXCEPT ![b] = "idle"]
        /\ mem' = [mem EXCEPT ![b] = mem'[b]] /\ mem'[b].log = read[b]
        /\ read[b] \in Log
        /\ UNCHANGED <<pos, files, acked>>
    BY <1>3, ReadMailboxIs
  <2>2. files["events.json"] = read[b]
    BY <2>1 DEF Base, OnDisk
  <2>3. Covers(read[b])
    BY <2>1, <2>2, FilesAssumption DEF Durable, Log
  <2>4. \A d \in Bridges : mem'[d] # NoEngine => Covers(mem'[d].log)
    BY <1>a, <2>1, <2>3 DEF Durable
  <2>5. \A d \in Bridges : pc'[d] \in {"truncate", "fill"} /\ pos'[d] > 2 =>
                             files["events.json"] = mem'[d].log
    BY <1>a, <2>1 DEF Durable
  <2> QED BY <1>0, <2>1, <2>4, <2>5 DEF Durable, Covers
<1>4. ASSUME NEW b \in Bridges, NEW c \in Commands, Exec(b, c) PROVE Durable'
  <2>1. /\ pc[b] = "idle" /\ pc' = [pc EXCEPT ![b] = "lock"]
        /\ mem[b] # NoEngine /\ mem[b].log \in Seq(Commands)
        /\ mem' = [mem EXCEPT ![b] = mem'[b]] /\ mem'[b].log = Append(mem[b].log, c)
        /\ UNCHANGED <<pos, files, acked>>
    BY <1>4, ExecIs DEF Caches, Log
  <2>2. Covers(Append(mem[b].log, c))
    <3>1. Covers(mem[b].log)
      BY <2>1 DEF Durable
    <3>2. \A i \in 1 .. Len(mem[b].log) : i \in 1 .. Len(Append(mem[b].log, c))
                                       /\ Append(mem[b].log, c)[i] = mem[b].log[i]
      BY <2>1
    <3> QED BY <3>1, <3>2 DEF Covers
  <2>4. \A d \in Bridges : mem'[d] # NoEngine => Covers(mem'[d].log)
    BY <1>a, <2>1, <2>2 DEF Durable
  <2>5. \A d \in Bridges : pc'[d] \in {"truncate", "fill"} /\ pos'[d] > 2 =>
                             files["events.json"] = mem'[d].log
    BY <1>a, <2>1 DEF Durable
  <2> QED BY <1>0, <2>1, <2>4, <2>5 DEF Durable, Covers
<1>5. ASSUME NEW b \in Bridges,
             OpenForLoad(b) \/ ReadEvents(b) \/ Lock(b) \/ WriteFails(b)
      PROVE  Durable'
  <2>1. /\ UNCHANGED <<files, acked, mem>>
        /\ \/ \E l \in {"idle", "read events", "read mailbox"} : pc' = [pc EXCEPT ![b] = l]
           \/ pc' = [pc EXCEPT ![b] = "truncate"] /\ pc[b] = "lock"
        /\ UNCHANGED pos \/ pos' = [pos EXCEPT ![b] = 1]
    BY <1>5 DEF OpenForLoad, ReadEvents, Lock, WriteFails, Goto
  <2>2. \A d \in Bridges : pc'[d] \in {"truncate", "fill"} /\ pos'[d] > 2 =>
             pc[d] \in {"truncate", "fill"} /\ pos'[d] = pos[d] /\ mem'[d] = mem[d]
    <3>1. \A d \in Bridges \ {b} : pc'[d] = pc[d] /\ pos'[d] = pos[d] /\ mem'[d] = mem[d]
      BY <1>a, <2>1
    <3>2. pc'[b] \in {"truncate", "fill"} => pc[b] = "lock" /\ pos[b] = 1
      BY <1>a, <2>1
    <3>3. pc'[b] \in {"truncate", "fill"} => pos'[b] = 1
      BY <1>a, <2>1, <3>2
    <3>4. ~(1 > 2)
      OBVIOUS
    <3> QED BY <3>1, <3>3, <3>4
  <2> QED BY <1>0, <2>1, <2>2, QuietStep
<1>6. ASSUME NEW b \in Bridges, Exit(b) \/ Crash(b) PROVE Durable'
  <2>1. /\ UNCHANGED <<files, acked>> /\ mem' = [mem EXCEPT ![b] = NoEngine]
        /\ \/ pc' = [pc EXCEPT ![b] = "idle"]
           \/ UNCHANGED pc /\ pc[b] = "idle"
        /\ UNCHANGED pos \/ pos' = [pos EXCEPT ![b] = 1]
    BY <1>6 DEF Exit, Crash, Goto
  <2>2. \A d \in Bridges : pc'[d] \in {"truncate", "fill"} /\ pos'[d] > 2 =>
             pc[d] \in {"truncate", "fill"} /\ pos'[d] = pos[d] /\ mem'[d] = mem[d]
    BY <1>a, <2>1
  <2>3. \A d \in Bridges : mem'[d] # NoEngine => mem'[d] = mem[d]
    BY <1>a, <2>1
  <2> QED BY <1>0, <2>1, <2>2, <2>3, QuietStep
<1>7. ASSUME NEW b \in Bridges, Truncate(b) PROVE Durable'
  <2>1. /\ pc[b] = "truncate" /\ pc' = [pc EXCEPT ![b] = "fill"]
        /\ UNCHANGED <<mem, pos, acked>>
        /\ \A f \in Files : files'[f] = IF f = Writes[pos[b]] THEN Torn ELSE files[f]
    BY <1>7, TruncateIs DEF Base
  <2>2. files'["events.json"] = IF pos[b] = 2 THEN Torn ELSE files["events.json"]
    BY <1>a, <2>1, WhichFile
  <2>3. mem[b] # NoEngine /\ \A d \in Bridges : pc[d] \in {"truncate", "fill"} => d = b
    BY <2>1 DEF Base, Called, Durable, Alone
  <2>4. Torn # Absent
    BY FilesAssumption
  <2>5. \A d \in Bridges : pc'[d] \in {"truncate", "fill"} /\ pos'[d] > 2 =>
                             files'["events.json"] = mem'[d].log
    BY <1>a, <2>1, <2>2, <2>3 DEF Durable
  <2>6. \A d \in Bridges : mem'[d] # NoEngine => Covers(mem'[d].log)
    BY <2>1 DEF Durable
  <2> QED BY <1>0, <2>1, <2>2, <2>4, <2>5, <2>6 DEF Durable, Covers
<1>8. ASSUME NEW b \in Bridges, Fill(b) PROVE Durable'
  <2>1. /\ pc[b] = "fill" /\ pos[b] \in 1 .. 5
        /\ UNCHANGED mem
        /\ \A f \in Files : files'[f] = IF f = Writes[pos[b]] THEN Contents(mem[b], f)
                                                             ELSE files[f]
        /\ \/ /\ pos[b] = 5 /\ pc' = [pc EXCEPT ![b] = "idle"]
              /\ pos' = [pos EXCEPT ![b] = 1]
              /\ acked' = acked \cup {<<Len(mem[b].log), Last(mem[b].log)>>}
           \/ /\ pos[b] # 5 /\ pc' = [pc EXCEPT ![b] = "truncate"]
              /\ pos' = [pos EXCEPT ![b] = pos[b] + 1]
              /\ acked' = acked
    BY <1>8, FillIs DEF Base
  <2>2. files'["events.json"] = IF pos[b] = 2 THEN mem[b].log ELSE files["events.json"]
    <3>1. Contents(mem[b], "events.json") = mem[b].log
      BY DEF Contents
    <3> QED BY <1>a, <2>1, <3>1, WhichFile
  <2>3. /\ mem[b] # NoEngine
        /\ mem[b].log \in Seq(Commands) /\ mem[b].log # <<>>
        /\ \A d \in Bridges : mem[d] # NoEngine \/ pc[d] \in {"truncate", "fill"} => d = b
    BY <2>1 DEF Base, Called, Durable, Alone, Caches, Log
  <2>4. Covers(mem[b].log)
    BY <2>3 DEF Durable
  <2>5. mem[b].log \notin {Absent, Torn}
    BY <2>3, FilesAssumption
  <2>6. CASE pos[b] = 5
    <3> DEFINE l == mem[b].log
    <3>1. files["events.json"] = l /\ files'["events.json"] = l
      BY <2>1, <2>2, <2>6 DEF Durable
    <3>2. Len(l) \in 1 .. Len(l) /\ Last(l) = l[Len(l)]
      BY <2>3 DEF Last
    <3>3. Covers(l)'
      <4>1. acked' = acked \cup {<<Len(l), Last(l)>>}
        BY <2>1, <2>6
      <4>2. l' = l
        BY <2>1
      <4> QED BY <2>4, <3>2, <4>1, <4>2 DEF Covers
    <3>4. \A d \in Bridges : pc'[d] \notin {"truncate", "fill"}
      BY <1>a, <2>1, <2>3, <2>6
    <3>5. \A d \in Bridges : mem'[d] # NoEngine => d = b /\ mem'[d].log = l'
      BY <2>1, <2>3
    <3>6. l' = l
      BY <2>1
    <3> HIDE DEF l
    <3> QED BY <1>0, <2>1, <2>5, <3>1, <3>3, <3>4, <3>5, <3>6 DEF Durable
  <2>7. CASE pos[b] # 5
    <3>1. acked' = acked /\ pc' = [pc EXCEPT ![b] = "truncate"]
          /\ pos' = [pos EXCEPT ![b] = pos[b] + 1]
      BY <2>1, <2>7
    <3>2. pos[b] + 1 > 2 => files'["events.json"] = mem[b].log
      BY <1>a, <2>1, <2>2 DEF Durable
    <3>3. \A d \in Bridges : pc'[d] \in {"truncate", "fill"} /\ pos'[d] > 2 =>
                               files'["events.json"] = mem'[d].log
      <4>1. \A d \in Bridges : pc'[d] \in {"truncate", "fill"} => d = b
        BY <1>a, <2>3, <3>1
      <4>2. pos'[b] = pos[b] + 1
        BY <1>a, <3>1
      <4> QED BY <2>1, <3>2, <4>1, <4>2
    <3>4. \A d \in Bridges : mem'[d] # NoEngine => Covers(mem'[d].log)
      BY <2>1 DEF Durable
    <3> QED BY <1>0, <2>2, <2>4, <2>5, <3>1, <3>3, <3>4 DEF Durable, Covers
  <2> QED BY <2>6, <2>7
<1> QED
  BY <1>1, <1>2, <1>3, <1>4, <1>5, <1>6, <1>7, <1>8 DEF BridgeNext

\* Acknowledged commands stay where they are in the log on disk as long as one engine is
\* cached at a time, whatever crashes or fails (bridge.py 32-60, core/engine.py 165-187).
THEOREM AckedDurable == BridgeSpec => []AckedIsDurable
<1> DEFINE I == Base /\ (~shared => Durable)
<1>1. BridgeInit => I
  <2> SUFFICES ASSUME BridgeInit PROVE Durable
    BY InitBase
  <2>1. /\ \A b \in Bridges : mem[b] = NoEngine /\ pc[b] = "idle"
        /\ files["events.json"] = Absent /\ acked = {}
    BY DEF BridgeInit, Files
  <2> QED BY <2>1 DEF Durable, Alone, Covers
<1>2. I /\ [BridgeNext]_bridgeVars => I'
  <2> SUFFICES ASSUME I, [BridgeNext]_bridgeVars, ~shared' PROVE Durable'
    BY StepBase
  <2>1. ~shared
    BY DEF BridgeNext, bridgeVars, StartFresh, OpenForLoad, ReadEvents, ReadMailbox, Shares, Exec,
           Lock, Truncate, Fill, WriteFails, Crash, Exit
  <2> QED BY <2>1, StepBase, StepDurable
<1>3. I => AckedIsDurable
  BY DEF AckedIsDurable, Durable, Covers
<1> QED BY <1>1, <1>2, <1>3, PTL DEF BridgeSpec

-----------------------------------------------------------------------------
(* The files tell the story of the event log: a cached engine is its log     *)
(* replayed, a call in progress has written what lies behind it, and between *)
(* calls the files are the last engine's.                                    *)
Writing(b) == pc[b] \in {"truncate", "fill"}

Agrees ==
  files["events.json"] # Absent =>
    /\ files["snapshot.json"] = Snapshot(Replay(files["events.json"]))
    /\ files["dispatch.json"] = Replay(files["events.json"]).dispatch
    /\ files["mailbox.json"]  = Replay(files["events.json"]).mailbox

Written(b) ==
  \A p \in 1 .. pos[b] - 1 :
    Writes[p] # Writes[pos[b]] => files[Writes[p]] = Contents(mem[b], Writes[p])

Story ==
  /\ Alone
  /\ \A b \in Bridges : mem[b] # NoEngine => mem[b].engine = Replay(mem[b].log)
  /\ (\A b \in Bridges : ~Writing(b)) => Agrees
  /\ \A b \in Bridges : Writing(b) => Written(b)

\* The files a call has written once it is at its last write, and none is written twice
\* before that.
LEMMA WriteOrder ==
  /\ Writes[1] = "snapshot.json" /\ Writes[2] = "events.json" /\ Writes[3] = "mailbox.json"
  /\ Writes[4] = "dispatch.json" /\ Writes[5] = "mailbox.json"
  /\ \A p, q \in 1 .. 4 : p # q => Writes[p] # Writes[q]
  /\ \A p \in 1 .. 5 : Writes[p] \in Files
BY DEF Writes, Files

\* A bridge at the same place with the same engine has written the same.
LEMMA SameWritten ==
  ASSUME NEW d \in Bridges, Written(d), mem'[d] = mem[d], pos'[d] = pos[d], files' = files
  PROVE  Written(d)'
<1>1. \A p : Contents(mem[d], Writes[p])' = Contents(mem[d], Writes[p])
  BY DEF Contents, Snapshot, Backlog
<1> QED BY <1>1 DEF Written

\* Going through the writes keeps the story.
LEMMA StoryOnWrite ==
  ASSUME Base, Story, Alone', NEW b \in Bridges, Truncate(b) \/ Fill(b)
  PROVE  Story'
<1>0. /\ pc \in [Bridges -> Locations] /\ pos \in [Bridges -> 1 .. 5]
  BY DEF Base, IInv, LockInv
<1>1. Writing(b) /\ mem' = mem
  BY TruncateIs, FillIs DEF Base, Writing
<1>2. \A d \in Bridges : mem[d] # NoEngine \/ Writing(d) => d = b
  BY <1>1 DEF Base, Called, Writing, Story, Alone
<1>3. \A d \in Bridges : mem'[d] # NoEngine => mem'[d].engine = Replay(mem'[d].log)
  BY <1>1 DEF Story
<1>4. mem[b] # NoEngine /\ Written(b)
  BY <1>1 DEF Base, Called, Writing, Story
<1>5. CASE Truncate(b)
  <2>1. /\ pc' = [pc EXCEPT ![b] = "fill"] /\ pos' = pos
        /\ \A f \in Files : files'[f] = IF f = Writes[pos[b]] THEN Torn ELSE files[f]
    BY <1>5, TruncateIs DEF Base
  <2>2. Writing(b)' /\ \A d \in Bridges : Writing(d)' => d = b
    BY <1>0, <1>2, <2>1 DEF Writing
  <2>3. Written(b)'
    <3> SUFFICES ASSUME NEW p \in 1 .. pos[b] - 1, Writes[p] # Writes[pos[b]]
                 PROVE  files'[Writes[p]] = Contents(mem[b], Writes[p])
      BY <1>1, <2>1 DEF Written, Contents
    <3>1. p \in 1 .. 5
      BY <1>0
    <3>2. files[Writes[p]] = Contents(mem[b], Writes[p])
      BY <1>4 DEF Written
    <3> QED BY <2>1, <3>1, <3>2, WriteOrder
  <2> QED BY <1>3, <2>2, <2>3 DEF Story
<1>6. CASE Fill(b)
  <2>1. /\ pos[b] \in 1 .. 5
        /\ \A f \in Files : files'[f] = IF f = Writes[pos[b]] THEN Contents(mem[b], f)
                                                             ELSE files[f]
        /\ \/ /\ pos[b] = 5 /\ pc' = [pc EXCEPT ![b] = "idle"]
              /\ pos' = [pos EXCEPT ![b] = 1]
           \/ /\ pos[b] # 5 /\ pc' = [pc EXCEPT ![b] = "truncate"]
              /\ pos' = [pos EXCEPT ![b] = pos[b] + 1]
    BY <1>6, FillIs DEF Base
  <2>2. CASE pos[b] = 5
    <3>1. \A d \in Bridges : ~Writing(d)'
      BY <1>0, <1>2, <2>1, <2>2 DEF Writing
    <3>2. \A f \in {"snapshot.json", "events.json", "dispatch.json"} :
            files'[f] = Contents(mem[b], f)
      <4>1. \A p \in {1, 2, 4} : files[Writes[p]] = Contents(mem[b], Writes[p])
        BY <1>4, <2>2, WriteOrder DEF Written
      <4>2. \A p \in {1, 2, 4} : Writes[p] # Writes[5] /\ Writes[p] \in Files
        BY WriteOrder
      <4>3. \A p \in {1, 2, 4} : files'[Writes[p]] = Contents(mem[b], Writes[p])
        BY <2>1, <2>2, <4>1, <4>2
      <4> QED BY <4>3, WriteOrder
    <3>3. files'["mailbox.json"] = Contents(mem[b], "mailbox.json")
      BY <2>1, <2>2, WriteOrder DEF Files
    <3>4. /\ files'["snapshot.json"] = Snapshot(mem[b].engine)
          /\ files'["events.json"] = mem[b].log
          /\ files'["dispatch.json"] = mem[b].engine.dispatch
          /\ files'["mailbox.json"] = mem[b].engine.mailbox
      BY <3>2, <3>3 DEF Contents
    <3>5. mem[b].engine = Replay(mem[b].log)
      BY <1>4 DEF Story
    <3>6. Agrees'
      BY <3>4, <3>5 DEF Agrees
    <3> QED BY <1>3, <3>1, <3>6 DEF Story
  <2>3. CASE pos[b] # 5
    <3>1. /\ pc' = [pc EXCEPT ![b] = "truncate"] /\ pos'[b] = pos[b] + 1
      BY <1>0, <2>1, <2>3
    <3>2. Writing(b)' /\ \A d \in Bridges : Writing(d)' => d = b
      BY <1>0, <1>2, <3>1 DEF Writing
    <3>3. Written(b)'
      <4> SUFFICES ASSUME NEW p \in 1 .. pos[b] PROVE files'[Writes[p]] = Contents(mem[b], Writes[p])
        <5>1. pos'[b] - 1 = pos[b] /\ mem'[b] = mem[b]
          BY <1>1, <2>1, <3>1
        <5>2. \A p : Contents(mem[b], Writes[p])' = Contents(mem[b], Writes[p])
          BY <5>1 DEF Contents, Snapshot, Backlog
        <5> QED BY <5>1, <5>2 DEF Written
      <4>1. p \in 1 .. 4 /\ pos[b] \in 1 .. 4
        BY <2>1, <2>3
      <4>2. Writes[p] \in Files
        BY <4>1, WriteOrder
      <4>3. CASE p = pos[b]
        BY <2>1, <4>2, <4>3
      <4>4. CASE p # pos[b]
        <5>1. p \in 1 .. pos[b] - 1 /\ Writes[p] # Writes[pos[b]]
          BY <4>1, <4>4, WriteOrder
        <5>2. files[Writes[p]] = Contents(mem[b], Writes[p])
          BY <1>4, <5>1 DEF Written
        <5> QED BY <2>1, <4>2, <5>1, <5>2
      <4> QED BY <4>3, <4>4
    <3> QED BY <1>3, <3>2, <3>3 DEF Story
  <2> QED BY <2>2, <2>3
<1> QED BY <1>5, <1>6

LEMMA StepStory ==
  ASSUME Base, Story, [BridgeNext]_bridgeVars, ~shared', faults' = 0
  PROVE  Story'
<1>0. Alone'
  BY StepAlone DEF Story
<1>a. /\ mem = [b \in Bridges |-> mem[b]]
      /\ pc \in [Bridges -> Locations] /\ pos \in [Bridges -> 1 .. 5]
      /\ \A b \in Bridges : pc[b] \notin {"truncate", "fill"} => pos[b] = 1
      /\ faults \in Nat
  BY DEF Base, IInv, Engines, LockInv, Clean
<1>1. CASE UNCHANGED bridgeVars
  BY <1>1 DEF bridgeVars, Story, Alone, Writing, Written, Agrees, Contents
\* what happens where no file changes and nobody is taken into or out of the writes
<1>2. ASSUME UNCHANGED files,
             \A d \in Bridges : Writing(d)' <=> Writing(d),
             \A d \in Bridges : Writing(d) => mem'[d] = mem[d] /\ pos'[d] = pos[d],
             \A d \in Bridges : mem'[d] # NoEngine => mem'[d].engine = Replay(mem'[d].log)
      PROVE  Story'
  <2>1. (\A d \in Bridges : ~Writing(d)') => Agrees'
    BY <1>2 DEF Story, Agrees
  <2>2. ASSUME NEW d \in Bridges, Writing(d)' PROVE Written(d)'
    <3>1. Written(d) /\ mem'[d] = mem[d] /\ pos'[d] = pos[d] /\ files' = files
      BY <1>2, <2>2 DEF Story
    <3> QED BY <3>1, SameWritten
  <2> QED BY <1>0, <1>2, <2>1, <2>2 DEF Story
<1>3. ASSUME NEW b \in Bridges, StartFresh(b) PROVE Story'
  <2>1. /\ mem' = [mem EXCEPT ![b] = mem'[b]] /\ mem'[b].log = <<>> /\ mem'[b].engine = Fresh
        /\ pc[b] = "idle" /\ UNCHANGED <<pc, pos, files>>
    BY <1>3, StartFreshIs
  <2>2. \A d \in Bridges : mem'[d] # NoEngine => mem'[d].engine = Replay(mem'[d].log)
    BY <1>a, <2>1, ReplayEmpty DEF Story
  <2> QED BY <1>2, <1>a, <2>1, <2>2 DEF Writing
<1>4. ASSUME NEW b \in Bridges, ReadMailbox(b) PROVE Story'
  <2>1. /\ pc[b] = "read mailbox" /\ pc' = [pc EXCEPT ![b] = "idle"]
        /\ mem' = [mem EXCEPT ![b] = mem'[b]] /\ mem'[b] # NoEngine /\ mem'[b].log = read[b]
        /\ read[b] \in Log
        /\ mem'[b].engine = IF files["mailbox.json"] \in {Absent, Torn}
                              THEN Replay(read[b])
                              ELSE [Replay(read[b]) EXCEPT !.mailbox = files["mailbox.json"]]
        /\ UNCHANGED <<pos, files>>
    BY <1>4, ReadMailboxIs
  <2>2. \A d \in Bridges \ {b} : mem[d] = NoEngine
    BY <1>0, <1>a, <2>1 DEF Alone
  <2>3. \A d \in Bridges : ~Writing(d)
    BY <2>1, <2>2 DEF Base, Called, Writing
  <2>4. files["events.json"] = read[b] /\ files["events.json"] # Absent
    BY <2>1, FilesAssumption DEF Base, OnDisk, Log
  <2>5. files["mailbox.json"] = Replay(read[b]).mailbox
    BY <2>3, <2>4 DEF Story, Agrees
  <2>6. Replay(read[b]) \in EngineStates
    BY <2>1, ReplayTyped DEF Log
  <2>7. mem'[b].engine = Replay(read[b])
    <3>1. ASSUME NEW e \in EngineStates PROVE [e EXCEPT !.mailbox = e.mailbox] = e
      BY DEF EngineStates
    <3> QED BY <2>1, <2>5, <2>6, <3>1
  <2>8. \A d \in Bridges : mem'[d] # NoEngine => mem'[d].engine = Replay(mem'[d].log)
    BY <1>a, <2>1, <2>2, <2>7
  <2>9. \A d \in Bridges : ~Writing(d)'
    BY <1>a, <2>1, <2>3 DEF Writing
  <2> QED BY <1>2, <2>1, <2>3, <2>8, <2>9
<1>5. ASSUME NEW b \in Bridges, NEW c \in Commands, Exec(b, c) PROVE Story'
  <2>1. /\ pc[b] = "idle" /\ pc' = [pc EXCEPT ![b] = "lock"]
        /\ mem[b] # NoEngine /\ mem[b].log \in Seq(Commands)
        /\ mem' = [mem EXCEPT ![b] = mem'[b]]
        /\ mem'[b].log = Append(mem[b].log, c)
        /\ mem'[b].engine = Effect(mem[b].engine, c) /\ Accepts(mem[b].engine, c)
        /\ UNCHANGED <<pos, files>>
    BY <1>5, ExecIs DEF Caches, Log
  <2>2. mem[b].engine = Replay(mem[b].log)
    BY <2>1 DEF Story
  <2>3. mem'[b].engine = Replay(mem'[b].log)
    BY <2>1, <2>2, ReplayAppend DEF ReplayEvent
  <2>4. \A d \in Bridges : mem'[d] # NoEngine => mem'[d].engine = Replay(mem'[d].log)
    BY <1>a, <2>1, <2>3 DEF Story
  <2>5. \A d \in Bridges : Writing(d)' <=> Writing(d)
    BY <1>a, <2>1 DEF Writing
  <2>6. \A d \in Bridges : Writing(d) => mem'[d] = mem[d] /\ pos'[d] = pos[d]
    BY <1>a, <2>1 DEF Writing
  <2> QED BY <1>2, <2>1, <2>4, <2>5, <2>6
<1>6. ASSUME NEW b \in Bridges, OpenForLoad(b) \/ ReadEvents(b) PROVE Story'
  <2>1. /\ UNCHANGED <<files, mem, pos>> /\ pc[b] \in {"idle", "read events"}
        /\ \E l \in {"idle", "read events", "read mailbox"} : pc' = [pc EXCEPT ![b] = l]
    BY <1>6 DEF OpenForLoad, ReadEvents, Goto
  <2>2. \A d \in Bridges : Writing(d)' <=> Writing(d)
    BY <1>a, <2>1 DEF Writing
  <2> QED BY <1>2, <2>1, <2>2 DEF Story
<1>7. ASSUME NEW b \in Bridges, Lock(b) PROVE Story'
  <2>1. /\ UNCHANGED <<files, mem, pos>> /\ pc[b] = "lock"
        /\ pc' = [pc EXCEPT ![b] = "truncate"]
    BY <1>7 DEF Lock, Goto
  <2>2. Writing(b)' /\ \A d \in Bridges \ {b} : Writing(d)' <=> Writing(d)
    BY <1>a, <2>1 DEF Writing
  <2>3. pos'[b] = 1 /\ 1 .. 1 - 1 = {}
    BY <1>a, <2>1
  <2>4. Written(b)'
    BY <2>3 DEF Written
  <2>5. \A d \in Bridges \ {b} : Writing(d)' => Written(d)'
    BY <2>1, <2>2, SameWritten DEF Story
  <2> QED BY <1>0, <2>1, <2>2, <2>4, <2>5 DEF Story
<1>8. ASSUME NEW b \in Bridges, Truncate(b) \/ Fill(b) PROVE Story'
  BY <1>0, <1>8, StoryOnWrite
<1>9. ASSUME NEW b \in Bridges, WriteFails(b) \/ Crash(b) PROVE Story'
  <2>1. faults' = faults + 1
    BY <1>9 DEF WriteFails, Crash
  <2> QED BY <1>a, <2>1
<1>10. ASSUME NEW b \in Bridges, Exit(b) PROVE Story'
  <2>1. /\ UNCHANGED <<files, pc, pos>> /\ mem' = [mem EXCEPT ![b] = NoEngine] /\ pc[b] = "idle"
    BY <1>10 DEF Exit
  <2>2. \A d \in Bridges : mem'[d] # NoEngine => mem'[d].engine = Replay(mem'[d].log)
    BY <1>a, <2>1 DEF Story
  <2>3. \A d \in Bridges : Writing(d) => mem'[d] = mem[d]
    BY <1>a, <2>1 DEF Writing
  <2> QED BY <1>2, <2>1, <2>2, <2>3 DEF Writing
<1> QED
  BY <1>1, <1>3, <1>4, <1>5, <1>6, <1>7, <1>8, <1>9, <1>10 DEF BridgeNext

\* Faults and shared caches are never taken back.
LEMMA HistoryGrows ==
  ASSUME Base, [BridgeNext]_bridgeVars
  PROVE  (~shared' => ~shared) /\ (faults' = 0 => faults = 0)
<1>0. faults \in Nat
  BY DEF Base, IInv, Clean
<1> DEFINE Grows == faults' \in {faults, faults + 1} /\ (~shared' => ~shared)
<1>1. ASSUME UNCHANGED bridgeVars PROVE Grows
  BY <1>1 DEF bridgeVars
<1>2. ASSUME NEW b \in Bridges, StartFresh(b) \/ ReadMailbox(b) PROVE Grows
  BY <1>2 DEF StartFresh, ReadMailbox, Shares
<1>3. ASSUME NEW b \in Bridges,
             OpenForLoad(b) \/ ReadEvents(b) \/ (\E c \in Commands : Exec(b, c)) \/ Exit(b)
      PROVE  Grows
  <2>1. UNCHANGED <<faults, shared>>
    BY <1>3 DEF OpenForLoad, ReadEvents, Exec, Exit
  <2> QED BY <2>1
<1>4. ASSUME NEW b \in Bridges, Lock(b) \/ Truncate(b) \/ Fill(b) PROVE Grows
  <2>1. UNCHANGED <<faults, shared>>
    BY <1>4 DEF Lock, Truncate, Fill
  <2> QED BY <2>1
<1>5. ASSUME NEW b \in Bridges, WriteFails(b) \/ Crash(b) PROVE Grows
  <2>1. faults' = faults + 1 /\ UNCHANGED shared
    BY <1>5 DEF WriteFails, Crash
  <2> QED BY <2>1
<1>6. Grows
  BY <1>1, <1>2, <1>3, <1>4, <1>5 DEF BridgeNext
<1> QED BY <1>0, <1>6

\* Without faults and with one engine cached at a time all files tell between calls what the
\* event log tells (core/engine.py 165-208).
THEOREM OneStory == BridgeSpec => []FilesAgree
<1> DEFINE I == Base /\ (~shared /\ faults = 0 => Story)
<1>1. BridgeInit => I
  <2> SUFFICES ASSUME BridgeInit PROVE Story
    BY InitBase
  <2>1. /\ \A b \in Bridges : mem[b] = NoEngine /\ pc[b] = "idle"
        /\ files["events.json"] = Absent
    BY DEF BridgeInit, Files
  <2> QED BY <2>1 DEF Story, Alone, Writing, Agrees
<1>2. I /\ [BridgeNext]_bridgeVars => I'
  BY StepBase, HistoryGrows, StepStory
<1>3. I => FilesAgree
  <2> SUFFICES ASSUME Story, Quiet PROVE Agrees
    BY DEF FilesAgree, Agrees
  <2> QED BY DEF Story, Quiet, Writing
<1> QED BY <1>1, <1>2, <1>3, PTL DEF BridgeSpec
=============================================================================

--------------------------- MODULE RuntimeEngine ---------------------------
(***************************************************************************)
(* One RuntimeEngine in memory: the commands it processes, the compaction  *)
(* of its event log, and the lease operations that other code may call on  *)
(* engine.authority directly, which no event records.                      *)
(*                                                                         *)
(* Persistence and loading are in module RuntimeBridge.                    *)
(***************************************************************************)
EXTENDS EngineState

VARIABLES
  engine,        \* the value of authority, replay, dispatch and mailbox
  log,           \* event_log
  bypassed       \* history: the lease changed without an event

vars == <<engine, log, bypassed>>

Init ==
  /\ engine = Fresh
  /\ log = <<>>
  /\ bypassed = FALSE

\* process: a command that raises changes nothing and is not logged
Process(c) ==
  /\ Accepts(engine, c)
  /\ engine' = Effect(engine, c)
  /\ log' = Append(log, c)
  /\ UNCHANGED bypassed

Compact ==
  /\ log' = CompactLog(engine, log)
  /\ UNCHANGED <<engine, bypassed>>

ForceRelease ==
  /\ engine' = [engine EXCEPT !.owner = None, !.stale = FALSE]
  /\ bypassed' = TRUE
  /\ UNCHANGED log

MarkStale ==
  /\ engine' = [engine EXCEPT !.stale = TRUE]
  /\ bypassed' = TRUE
  /\ UNCHANGED log

ClearStale ==
  /\ engine' = [engine EXCEPT !.stale = FALSE]
  /\ bypassed' = TRUE
  /\ UNCHANGED log

Next ==
  \/ \E c \in Commands : Process(c)
  \/ Compact
  \/ ForceRelease
  \/ MarkStale
  \/ ClearStale

Spec == Init /\ [][Next]_vars

\* derive_readiness (its replay count is always zero)
Ready == engine.owner # None /\ ~engine.stale

-----------------------------------------------------------------------------

TypeOK ==
  /\ engine \in EngineStates
  /\ bypassed \in BOOLEAN

\* _find always answers with the first record of an id, so a record queued
\* under an id that is already taken never moves, whatever is marked later.
ShadowedNeverMoves ==
  \A i, j \in DOMAIN engine.dispatch :
    i < j /\ engine.dispatch[i].id = engine.dispatch[j].id
      => engine.dispatch[j].status = "pending"

\* Records are only ever added at the end, keep their id, and move along
\* pending -> notified -> delivered, or to failed before delivery: no sequence
\* of commands revives a finished dispatch or skips the notification.
Forward == {<<"pending", "notified">>, <<"notified", "delivered">>,
            <<"pending", "failed">>, <<"notified", "failed">>}

DispatchMovesForward ==
  [][\A i \in DOMAIN engine.dispatch :
       /\ i \in DOMAIN engine'.dispatch
       /\ engine'.dispatch[i].id = engine.dispatch[i].id
       /\ \/ engine'.dispatch[i].status = engine.dispatch[i].status
          \/ <<engine.dispatch[i].status, engine'.dispatch[i].status>> \in Forward
    ]_vars

\* The lease never passes from one owner to another in one step: another owner
\* has it only after a release.
LeaseChangesHandsFree ==
  [][engine.owner # None => engine'.owner \in {engine.owner, None}]_vars
=============================================================================

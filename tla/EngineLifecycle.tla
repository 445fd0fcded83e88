-------------------------- MODULE EngineLifecycle --------------------------
(* What holds of an engine from command to command: its dispatch log         *)
(* implements DispatchLifecycle, the status of a request being that of the   *)
(* first record with its id, and its event log explains it to a load.        *)
EXTENDS RuntimeEngine, EngineReplay

StatusOf(records, r) ==
  IF \E i \in DOMAIN records : IsFirst(records, i, r)
    THEN records[CHOOSE i \in DOMAIN records : IsFirst(records, i, r)].status
    ELSE "absent"

Lifecycle ==
  INSTANCE DispatchLifecycle WITH
    Ids    <- Requests,
    status <- [r \in Requests |-> StatusOf(engine.dispatch, r)]

\* Every command, compaction and lease operation is, for the requests, one step
\* of their lifecycle or none at all (core/dispatch.py, DispatchLog).
ImplementsLifecycle == Lifecycle!Spec

\* A load gives back what the engine had: the mailbox and the replay cursor, the
\* lease unless it was changed behind the log's back, and every dispatch whose id
\* was used once and is not finished; what compact forgot is never revived.
LogExplainsEngine ==
  LET loaded == Replay(log)
      Once(i) == \A j \in DOMAIN engine.dispatch :
                   engine.dispatch[j].id = engine.dispatch[i].id => j = i
  IN  /\ loaded.mailbox = engine.mailbox
      /\ loaded.cursor = engine.cursor
      /\ ~bypassed => loaded.owner = engine.owner
      /\ \A i \in DOMAIN engine.dispatch :
           Once(i) =>
             LET found == {j \in DOMAIN loaded.dispatch :
                             loaded.dispatch[j].id = engine.dispatch[i].id}
             IN  /\ \A j \in found : loaded.dispatch[j] = engine.dispatch[i]
                 /\ engine.dispatch[i].status \notin Terminal => found # {}
=============================================================================

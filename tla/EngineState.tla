---------------------------- MODULE EngineState ----------------------------
(***************************************************************************)
(* The state of omx.core.engine.RuntimeEngine as a value, and what one     *)
(* command or one replayed event does to it.                               *)
(*                                                                         *)
(* Timestamps, lease ids, targets, channels, reasons and message bodies    *)
(* decide nothing in the engine and are left out.  Every command is        *)
(* acknowledged by exactly one kind of event with the same key, so a       *)
(* command is named by the event it emits.                                 *)
(***************************************************************************)
EXTENDS Naturals, Sequences

CONSTANTS
  Owners,    \* who may ask for the authority lease
  Requests,  \* dispatch request ids
  Messages,  \* mailbox message ids
  Cursors    \* replay cursors

None == "none"

ASSUME NoneAssumption == None \notin Owners

LeaseEvents    == {"AuthorityAcquired", "AuthorityRenewed"}
MoveEvents     == {"DispatchNotified", "DispatchDelivered", "DispatchFailed"}
DispatchEvents == {"DispatchQueued"} \cup MoveEvents
MailMarks      == {"MailboxNotified", "MailboxDelivered"}

Commands ==
  [event : LeaseEvents, key : Owners]
    \cup [event : DispatchEvents, key : Requests]
    \cup [event : {"ReplayRequested"}, key : Cursors \cup {None}]
    \cup [event : {"SnapshotCaptured"}, key : {None}]
    \cup [event : {"MailboxMessageCreated"} \cup MailMarks, key : Messages]

Statuses == {"pending", "notified", "delivered", "failed"}
Terminal == {"delivered", "failed"}

DispatchRecord == [id : Requests, status : Statuses]
MailboxRecord  == [id : Messages, notified : BOOLEAN, delivered : BOOLEAN]

EngineStates ==
  [owner    : Owners \cup {None},
   stale    : BOOLEAN,
   cursor   : Cursors \cup {None},
   dispatch : Seq(DispatchRecord),
   mailbox  : Seq(MailboxRecord)]

Fresh ==
  [owner |-> None, stale |-> FALSE, cursor |-> None,
   dispatch |-> <<>>, mailbox |-> <<>>]

-----------------------------------------------------------------------------

\* mutant of IsFirst: every record with the id is updated
IsAny(records, i, id) == records[i].id = id

\* _find: the first record with the id; a later one with the same id is shadowed
IsFirst(records, i, id) ==
  /\ records[i].id = id
  /\ \A j \in 1..(i - 1) : records[j].id # id

\* mutant of MovesFrom: a request is delivered without having been notified
MovesFromPending(event) ==
  CASE event = "DispatchNotified"  -> {"pending"}
    [] event = "DispatchDelivered" -> {"pending", "notified"}
    [] event = "DispatchFailed"    -> {"pending", "notified"}

\* the statuses from which mark_notified, mark_delivered and mark_failed move
MovesFrom(event) ==
  CASE event = "DispatchNotified"  -> {"pending"}
    [] event = "DispatchDelivered" -> {"notified"}
    [] event = "DispatchFailed"    -> {"pending", "notified"}

MovesTo(event) ==
  CASE event = "DispatchNotified"  -> "notified"
    [] event = "DispatchDelivered" -> "delivered"
    [] event = "DispatchFailed"    -> "failed"

\* mutant of MayAcquire: a stale lease may be taken over
MayAcquireStale(e, who) == e.owner \in {None, who} \/ e.stale

\* acquire: the lease is free or already the caller's
MayAcquire(e, who) == e.owner \in {None, who}

\* the command raises no AuthorityError, DispatchError or MailboxError
Accepts(e, c) ==
  \/ /\ c.event = "AuthorityAcquired"
     /\ MayAcquire(e, c.key)
  \/ /\ c.event = "AuthorityRenewed"
     /\ e.owner = c.key
  \/ c.event \in {"DispatchQueued", "ReplayRequested", "SnapshotCaptured",
                  "MailboxMessageCreated"}
  \/ /\ c.event \in MoveEvents
     /\ \E i \in DOMAIN e.dispatch :
          /\ IsFirst(e.dispatch, i, c.key)
          /\ e.dispatch[i].status \in MovesFrom(c.event)
  \/ /\ c.event \in MailMarks
     /\ \E i \in DOMAIN e.mailbox :
          /\ IsFirst(e.mailbox, i, c.key)
          /\ ~e.mailbox[i].delivered

DispatchAfter(records, c) ==
  CASE c.event = "DispatchQueued" ->
         Append(records, [id |-> c.key, status |-> "pending"])
    [] c.event \in MoveEvents ->
         [i \in DOMAIN records |->
            IF IsFirst(records, i, c.key)
              THEN [records[i] EXCEPT !.status = MovesTo(c.event)]
              ELSE records[i]]
    [] OTHER -> records

MailboxAfter(records, c) ==
  CASE c.event = "MailboxMessageCreated" ->
         Append(records, [id |-> c.key, notified |-> FALSE, delivered |-> FALSE])
    [] c.event = "MailboxNotified" ->
         [i \in DOMAIN records |->
            IF IsFirst(records, i, c.key)
              THEN [records[i] EXCEPT !.notified = TRUE]
              ELSE records[i]]
    [] c.event = "MailboxDelivered" ->
         [i \in DOMAIN records |->
            IF IsFirst(records, i, c.key)
              THEN [records[i] EXCEPT !.delivered = TRUE]
              ELSE records[i]]
    [] OTHER -> records

\* what an accepted command does; acquiring and renewing also clear staleness
Effect(e, c) ==
  [owner    |-> IF c.event \in LeaseEvents THEN c.key ELSE e.owner,
   stale    |-> IF c.event \in LeaseEvents THEN FALSE ELSE e.stale,
   cursor   |-> IF c.event = "ReplayRequested" THEN c.key ELSE e.cursor,
   dispatch |-> DispatchAfter(e.dispatch, c),
   mailbox  |-> MailboxAfter(e.mailbox, c)]

-----------------------------------------------------------------------------

\* mutant of TerminalIds: a request counts as finished once it is notified
NotifiedIds(e) ==
  {e.dispatch[i].id : i \in {j \in DOMAIN e.dispatch :
                               e.dispatch[j].status # "pending"}}

\* the ids that have a terminal record
TerminalIds(e) ==
  {e.dispatch[i].id : i \in {j \in DOMAIN e.dispatch :
                               e.dispatch[j].status \in Terminal}}

\* the events in kept, in their order (SelectSeq as a recursive function)
Only(events, kept) ==
  LET first[n \in 0 .. Len(events)] ==
        IF n = 0 THEN <<>>
        ELSE IF events[n] \in kept THEN Append(first[n - 1], events[n]) ELSE first[n - 1]
  IN  first[Len(events)]

\* compact: forget every dispatch event of such an id
CompactLog(e, events) ==
  LET finished == TerminalIds(e)
  IN  Only(events, {v \in Commands : v.event \in DispatchEvents => v.key \notin finished})
=============================================================================

--------------------------- MODULE TeamMessaging ---------------------------
(***************************************************************************)
(* One worker's mailbox file and the team's dispatch/requests.json under   *)
(* the calls that share them: a message is sent or broadcast and its       *)
(* recipient notified (omx.team.mcp_comm), an inbox instruction is queued  *)
(* (the same, for assignments and new workers), the recipient marks its    *)
(* messages through the API, and a resuming leader bumps stale requests.   *)
(*                                                                         *)
(* Every call runs in a process of its own and takes no lock.  Each change *)
(* of a file reads it whole, changes the copy, opens the file, which       *)
(* empties it, and writes the copy; a file that does not parse is read as  *)
(* empty.  A request is identified by what it is about: kind, recipient,   *)
(* message and correlation key are equal exactly when that is.             *)
(***************************************************************************)
EXTENDS Naturals, Sequences, FiniteSets, Functions

CONSTANTS
  Procs,        \* the processes that call: leader, hooks, workers' API calls
  Leaders,      \* those of them that assign tasks and resume a team
  Readers,      \* those of them that mark messages
  Contents,     \* what is sent: sender and body
  Inbox,        \* what an inbox instruction's request is about
  Torn,         \* a file that does not parse
  Bare,         \* requests.json as init_team_state writes it: a bare list
  MaxMessages,  \* bound: messages written
  MaxRequests,  \* bound: requests queued
  MaxFaults     \* bound: processes killed in the middle of a call

ASSUME BoundsAssumption ==
  MaxMessages \in Nat /\ MaxRequests \in Nat /\ MaxFaults \in Nat
ASSUME InboxAssumption == Inbox \notin Nat /\ Torn # Bare
ASSUME ProcsAssumption == IsFiniteSet(Procs)

VARIABLES
  mailbox,   \* mailbox/<worker>.json
  queue,     \* dispatch/requests.json
  call,      \* what each process is doing
  given,     \* how many message and request identifiers have been drawn
  heard,     \* history: the answers of the notifiers for each request:
             \* confirmed or not
  facts,     \* history: what completed writes have recorded
  races,     \* history: how many reads have met a file that another call was
             \* changing, or that a kill had left torn
  faults,    \* history: processes killed so far
  raised     \* history: a call has ended with an exception

vars == <<mailbox, queue, call, given, heard, facts, races, faults, raised>>

MessageIds == 1 .. MaxMessages
RequestIds == 1 .. MaxRequests
Topics     == MessageIds \cup {Inbox}
Statuses   == {"pending", "notified", "delivered", "failed"}

Messages == [id : MessageIds, content : Contents,
             notified : BOOLEAN, delivered : BOOLEAN]

Requests == [id : RequestIds, about : Topics, hook : BOOLEAN, status : Statuses]

ASSUME FilesAssumption ==
  {Torn, Bare} \cap (Seq(Messages) \cup Seq(Requests)) = {}

Locations == {"idle", "open_mail", "write_mail", "open_queue", "write_queue",
              "list", "enqueue", "notify", "mark_mail", "check", "mark_queue"}

NoCall == [at |-> "idle", copy |-> <<>>, then |-> "idle", about |-> Inbox,
           hook |-> FALSE, before |-> {}, req |-> 0, to |-> "pending"]

Init ==
  /\ mailbox = <<>>
  /\ queue \in {<<>>, Bare}  \* absent, or as the team was started
  /\ call = [p \in Procs |-> NoCall]
  /\ given = [mail |-> 0, queue |-> 0]
  /\ heard = {}
  /\ facts = {}
  /\ races = 0
  /\ faults = 0
  /\ raised = FALSE

-----------------------------------------------------------------------------
\* read_mailbox, read_dispatch_requests: JSONDecodeError gives the empty list; the
\* AttributeError of a bare list is not caught (Raise), and nothing is read
AsRead(file) == IF file \in {Torn, Bare} THEN <<>> ELSE file

Entries(file) == {AsRead(file)[k] : k \in DOMAIN AsRead(file)}

IdsIn(file) == {e.id : e \in Entries(file)}

HasMail(p)  == call[p].at \in {"open_mail", "write_mail"}
HasQueue(p) == call[p].at \in {"open_queue", "write_queue"}

MailRaced(p) ==
  races' = races + (IF mailbox = Torn \/ \E q \in Procs \ {p} : HasMail(q) THEN 1 ELSE 0)

QueueRaced(p) ==
  races' = races + (IF queue = Torn \/ \E q \in Procs \ {p} : HasQueue(q) THEN 1 ELSE 0)

Continue(p, c) == call' = [call EXCEPT ![p] = c]
Return(p)      == Continue(p, NoCall)

\* the list with one message marked, one request moved
Marked(file, i, field) ==
  [k \in DOMAIN AsRead(file) |->
     IF AsRead(file)[k].id = i THEN [AsRead(file)[k] EXCEPT ![field] = TRUE]
     ELSE AsRead(file)[k]]

Moved(file, i, to) ==
  [k \in DOMAIN AsRead(file) |->
     IF AsRead(file)[k].id = i THEN [AsRead(file)[k] EXCEPT !.status = to]
     ELSE AsRead(file)[k]]

-----------------------------------------------------------------------------
\* mutant of Unread: a message is sent again once its recipient was notified
UnreadUnnotified(l, c) ==
  {e \in Entries(l) : e.content = c /\ ~e.delivered /\ ~e.notified}

\* send_direct_message finds the undelivered message of the same sender and body
Unread(l, c) == {e \in Entries(l) : e.content = c /\ ~e.delivered}

\* mutant of NewMessage: the identifier is the last one drawn
NewMessageOld(c) == [id |-> given.mail, content |-> c,
                     notified |-> FALSE, delivered |-> FALSE]

NewMessage(c) == [id |-> given.mail + 1, content |-> c,
                  notified |-> FALSE, delivered |-> FALSE]

\* the calls that put a message into the mailbox: queue_direct_mailbox_message
\* ("send"), queue_broadcast_mailbox_message for one recipient ("broadcast"),
\* and the API's broadcast, which notifies nobody ("post")
Kinds == {"send", "broadcast", "post"}

\* the bound on requests counts the calls that have yet to queue theirs
RoomLeft ==
  LET dispatching == {p \in Procs : /\ call[p].req = 0
                                    /\ \/ call[p].at \in {"list", "enqueue"}
                                       \/ call[p].then = "list"}
  IN  given.queue + Cardinality(dispatching) < MaxRequests

After(kind) == IF kind = "post" THEN "idle" ELSE "list"

\* the message is there already; only a send asks whether it was notified
Resend(p, kind, c, hook) ==
  /\ call[p].at = "idle"
  /\ kind # "post"
  /\ RoomLeft
  /\ \E m \in Unread(mailbox, c) :
       /\ kind = "send" => ~m.notified
       /\ Continue(p, [NoCall EXCEPT !.at = "list", !.about = m.id, !.hook = hook])
  /\ MailRaced(p)
  /\ UNCHANGED <<mailbox, queue, given, heard, facts, faults, raised>>

Send(p, kind, c, hook) ==
  /\ call[p].at = "idle"
  /\ given.mail < MaxMessages
  /\ kind = "post" \/ RoomLeft
  /\ Unread(mailbox, c) = {}
  /\ Continue(p, [NoCall EXCEPT
       !.at = "open_mail", !.copy = Append(AsRead(mailbox), NewMessage(c)),
       !.then = After(kind), !.about = given.mail + 1, !.hook = hook])
  /\ given' = [given EXCEPT !.mail = @ + 1]
  /\ MailRaced(p)
  /\ UNCHANGED <<mailbox, queue, heard, facts, faults, raised>>

\* queue_inbox_instruction, after the inbox itself is written
Instruct(p, hook) ==
  /\ call[p].at = "idle"
  /\ RoomLeft
  /\ Continue(p, [NoCall EXCEPT !.at = "list", !.hook = hook])
  /\ UNCHANGED <<mailbox, queue, given, heard, facts, races, faults, raised>>

\* data.get of a list: the call ends
Raise(p) ==
  /\ call[p].at = "list"
  /\ queue = Bare
  /\ raised' = TRUE
  /\ Return(p)
  /\ UNCHANGED <<mailbox, queue, given, heard, facts, races, faults>>

\* _enqueue_with_dedup: first the identifiers that are there already
List(p) ==
  /\ call[p].at = "list"
  /\ queue # Bare
  /\ Continue(p, [call[p] EXCEPT !.at = "enqueue", !.before = IdsIn(queue)])
  /\ QueueRaced(p)
  /\ UNCHANGED <<mailbox, queue, given, heard, facts, faults, raised>>

Waiting(l, topic) == {r \in Entries(l) : r.about = topic /\ r.status = "pending"}

\* enqueue_dispatch_request returns a pending request about the same; whether
\* that is a duplicate depends on the list taken before
Join(p) ==
  /\ call[p].at = "enqueue"
  /\ \E r \in Waiting(queue, call[p].about) :
       IF r.id \in call[p].before
         THEN Return(p)
         ELSE Continue(p, [call[p] EXCEPT
                !.at = "notify", !.req = r.id, !.before = {}])
  /\ QueueRaced(p)
  /\ UNCHANGED <<mailbox, queue, given, heard, facts, faults, raised>>

Enqueue(p) ==
  /\ call[p].at = "enqueue"
  /\ Waiting(queue, call[p].about) = {}
  /\ Continue(p, [call[p] EXCEPT
       !.at = "open_queue", !.then = "notify", !.req = given.queue + 1, !.before = {},
       !.copy = Append(AsRead(queue), [id |-> given.queue + 1, about |-> call[p].about,
                                       hook |-> call[p].hook, status |-> "pending"])])
  /\ given' = [given EXCEPT !.queue = @ + 1]
  /\ QueueRaced(p)
  /\ UNCHANGED <<mailbox, queue, heard, facts, faults, raised>>

\* a hook-preferred notifier answers that the request is queued; a direct one
\* has sent it or failed; the one assign_task passes always answers "queued"
Outcomes(c) ==
  CASE c.hook                      -> {"queued"}
    [] ~c.hook /\ c.about = Inbox  -> {"confirmed", "failed", "queued"}
    [] OTHER                       -> {"confirmed", "failed"}

\* mutant of IsConfirmed: a request queued for the hook counts as notified
IsConfirmedQueued(outcome) == outcome # "failed"

\* _is_confirmed_notification
IsConfirmed(outcome) == outcome = "confirmed"

\* mutant of Notify: the request is marked and the message is not
NotifyQueueOnly(p, outcome) ==
  LET c == call[p]
  IN  /\ c.at = "notify"
      /\ outcome \in Outcomes(c)
      /\ heard' = heard \cup {<<c.req, outcome = "confirmed">>}
      /\ IF IsConfirmed(outcome)
           THEN Continue(p, [c EXCEPT !.to = "notified", !.at = "mark_queue"])
           ELSE Continue(p, [c EXCEPT !.to = "failed", !.hook = FALSE, !.at = "check"])
      /\ UNCHANGED <<mailbox, queue, given, facts, races, faults, raised>>

\* the answer decides what is recorded; a request left to the hook is not
\* touched.  The preference asked for here is the call's own: a request that was
\* joined has its owner's.  The branch for a leader without a pane is left out: no
\* notifier answers with its reason, which runtime_messaging.py 399 puts on the result
\* of a call that has returned.
Notify(p, outcome) ==
  LET c == call[p]
  IN  /\ c.at = "notify"
      /\ outcome \in Outcomes(c)
      /\ heard' = heard \cup {<<c.req, outcome = "confirmed">>}
      /\ IF IsConfirmed(outcome)
           THEN Continue(p, [c EXCEPT !.to = "notified", !.hook = FALSE,
                  !.at = IF c.about = Inbox THEN "mark_queue" ELSE "mark_mail"])
           ELSE Continue(p, [c EXCEPT !.to = "failed", !.hook = FALSE, !.at = "check"])
      /\ UNCHANGED <<mailbox, queue, given, facts, races, faults, raised>>

\* mark_message_notified finds the message, or does nothing
MarkMail(p) ==
  LET c == call[p]
  IN  /\ c.at = "mark_mail"
      /\ IF c.about \in IdsIn(mailbox)
           THEN Continue(p, [c EXCEPT !.at = "open_mail", !.then = "mark_queue",
                  !.copy = Marked(mailbox, c.about, "notified")])
           ELSE Continue(p, [c EXCEPT !.at = "mark_queue"])
      /\ MailRaced(p)
      /\ UNCHANGED <<mailbox, queue, given, heard, facts, faults, raised>>

\* mutant of Check: only the hook's requests are failed
CheckHook(p) ==
  LET c == call[p]
  IN  /\ c.at = "check"
      /\ IF \E r \in Entries(queue) : r.id = c.req /\ r.hook /\ r.status = "pending"
           THEN Continue(p, [c EXCEPT !.at = "mark_queue"])
           ELSE Return(p)
      /\ QueueRaced(p)
      /\ UNCHANGED <<mailbox, queue, given, heard, facts, faults, raised>>

\* _mark_immediate_dispatch_failure: not for the hook's, and only if pending
Check(p) ==
  LET c == call[p]
  IN  /\ c.at = "check"
      /\ IF \E r \in Entries(queue) : r.id = c.req /\ ~r.hook /\ r.status = "pending"
           THEN Continue(p, [c EXCEPT !.at = "mark_queue"])
           ELSE Return(p)
      /\ QueueRaced(p)
      /\ UNCHANGED <<mailbox, queue, given, heard, facts, faults, raised>>

\* mutant of CanTransition: a settled request can be settled again
CanTransitionBack(from, to) == from # to \/ from = "pending"

\* VALID_DISPATCH_TRANSITIONS
CanTransition(from, to) ==
  \/ from = "pending"
  \/ from = "notified" /\ to \in {"delivered", "failed"}

\* transition_dispatch_request to c.to; the call returns after it
MarkQueue(p) ==
  LET c == call[p]
  IN  /\ c.at = "mark_queue"
      /\ IF \E r \in Entries(queue) : r.id = c.req /\ CanTransition(r.status, c.to)
           THEN Continue(p, [NoCall EXCEPT !.at = "open_queue",
                  !.copy = Moved(queue, c.req, c.to)])
           ELSE Return(p)
      /\ QueueRaced(p)
      /\ UNCHANGED <<mailbox, queue, given, heard, facts, faults, raised>>

-----------------------------------------------------------------------------
\* mailbox-mark-delivered and mailbox-mark-notified; an unknown id is no change
Mark(p, m, field) ==
  /\ call[p].at = "idle"
  /\ IF m \in IdsIn(mailbox)
       THEN Continue(p, [NoCall EXCEPT !.at = "open_mail",
              !.copy = Marked(mailbox, m, field)])
       ELSE Return(p)
  /\ MailRaced(p)
  /\ UNCHANGED <<mailbox, queue, given, heard, facts, faults, raised>>

\* _redispatch_stale_pending: pending to pending, for one of the requests in a
\* list read before; by now it may be settled
Bump(p, r) ==
  /\ call[p].at = "idle"
  /\ r \in IdsIn(queue)
  /\ Continue(p, [NoCall EXCEPT !.at = "mark_queue", !.req = r])
  /\ UNCHANGED <<mailbox, queue, given, heard, facts, races, faults, raised>>

\* write_text opens the file, which empties it
Open(p) ==
  /\ \/ /\ call[p].at = "open_mail"
        /\ mailbox' = Torn
        /\ Continue(p, [call[p] EXCEPT !.at = "write_mail"])
        /\ UNCHANGED queue
     \/ /\ call[p].at = "open_queue"
        /\ queue' = Torn
        /\ Continue(p, [call[p] EXCEPT !.at = "write_queue"])
        /\ UNCHANGED mailbox
  /\ UNCHANGED <<given, heard, facts, races, faults, raised>>

\* what the files say: who was sent what, what was marked, what is settled
MailFacts(l) ==
  {<<"sent", e.id>> : e \in Entries(l)}
  \cup {<<"notified", e.id>> : e \in {f \in Entries(l) : f.notified}}
  \cup {<<"delivered", e.id>> : e \in {f \in Entries(l) : f.delivered}}

QueueFacts(l) ==
  {<<"queued", e.id>> : e \in Entries(l)}
  \cup {<<"settled", e.id>> : e \in {f \in Entries(l) : f.status # "pending"}}

Write(p) ==
  LET c == call[p]
      next == IF c.then = "idle" THEN NoCall
              ELSE [c EXCEPT !.at = c.then, !.copy = <<>>, !.then = "idle"]
  IN  /\ Continue(p, next)
      /\ \/ /\ c.at = "write_mail"
            /\ mailbox' = c.copy
            /\ facts' = IF races > 0 THEN {} ELSE facts \cup MailFacts(c.copy)
            /\ UNCHANGED queue
         \/ /\ c.at = "write_queue"
            /\ queue' = c.copy
            /\ facts' = IF races > 0 THEN {} ELSE facts \cup QueueFacts(c.copy)
            /\ UNCHANGED mailbox
      /\ UNCHANGED <<given, heard, races, faults, raised>>

\* the process is killed in the middle of the call
Crash(p) ==
  /\ call[p].at # "idle"
  /\ faults < MaxFaults
  /\ faults' = faults + 1
  /\ Return(p)
  /\ UNCHANGED <<mailbox, queue, given, heard, facts, races, raised>>

-----------------------------------------------------------------------------
Begin(p) ==
  \/ \E kind \in Kinds, c \in Contents, hook \in BOOLEAN :
       /\ kind = "post" => ~hook
       /\ Send(p, kind, c, hook) \/ Resend(p, kind, c, hook)
  \/ p \in Leaders /\ \E hook \in BOOLEAN : Instruct(p, hook)
  \/ p \in Leaders /\ \E r \in RequestIds : Bump(p, r)
  \/ /\ p \in Readers
     /\ \E m \in MessageIds, field \in {"notified", "delivered"} : Mark(p, m, field)

\* a call in progress goes on; nothing in it waits for another process
Step(p) ==
  \/ List(p) \/ Raise(p) \/ Join(p) \/ Enqueue(p)
  \/ \E outcome \in {"queued", "confirmed", "failed"} : Notify(p, outcome)
  \/ MarkMail(p) \/ Check(p) \/ MarkQueue(p)
  \/ Open(p) \/ Write(p)

Next == \E p \in Procs : Begin(p) \/ Step(p) \/ Crash(p)

Spec == Init /\ [][Next]_vars

Fairness == \A p \in Procs : WF_vars(Step(p))

FairSpec == Spec /\ Fairness

-----------------------------------------------------------------------------
TypeOK ==
  /\ mailbox = Torn \/ Entries(mailbox) \subseteq Messages
  /\ queue \in {Torn, Bare} \/ Entries(queue) \subseteq Requests
  /\ \A p \in Procs :
       /\ call[p].at \in Locations /\ call[p].then \in Locations
       /\ call[p].about \in Topics /\ call[p].hook \in BOOLEAN
       /\ call[p].before \subseteq RequestIds
       /\ call[p].req \in RequestIds \cup {0} /\ call[p].to \in Statuses
       /\ HasMail(p) => Range(call[p].copy) \subseteq Messages
       /\ HasQueue(p) => Range(call[p].copy) \subseteq Requests
  /\ given \in [mail : 0 .. MaxMessages, queue : 0 .. MaxRequests]
  /\ heard \subseteq RequestIds \X BOOLEAN
  /\ races \in Nat
  /\ faults \in 0 .. MaxFaults /\ raised \in BOOLEAN

\* No race, torn file or kill makes requests.json claim what no notifier said: a
\* request that reads notified was confirmed, and one that reads failed was tried
\* and not confirmed.  Whoever joins a request records only what it heard.
NoFalseReceipt ==
  \A r \in Entries(queue) :
    /\ r.status = "notified" => <<r.id, TRUE>> \in heard
    /\ r.status = "failed" => <<r.id, FALSE>> \in heard

\* As long as no read meets another call's write or a torn file, the two files keep
\* their order across kills: a request's message is in the mailbox, and is marked
\* notified when the request is.
RequestTrailsMessage ==
  (races = 0 /\ mailbox # Torn) =>
    \A r \in {q \in Entries(queue) : q.about # Inbox} :
      \E m \in Entries(mailbox) :
        m.id = r.about /\ (r.status = "notified" => m.notified)

\* The deduplication holds whatever the calls do to each other, and over torn files:
\* one pending request about each topic, one undelivered message of each content,
\* whoever sends it how often.
NoDuplicates ==
  /\ \A q, r \in Entries(queue) :
       (q.about = r.about /\ q.status = "pending" /\ r.status = "pending") => q = r
  /\ \A m, n \in Entries(mailbox) :
       (m.content = n.content /\ ~m.delivered /\ ~n.delivered) => m = n

\* As long as no read meets another call's write, nothing recorded is lost or undone: a message stays,
\* its marks stay, a request stays and is never pending again once settled, even
\* by a leader that bumps it when it resumes.
Kept ==
  (races = 0 /\ mailbox # Torn /\ queue # Torn) =>
    facts \subseteq MailFacts(mailbox) \cup QueueFacts(queue)

\* A pending request of the direct transport is settled by the call that queued it,
\* unless a kill or a race interferes; one left to the hook waits for ever, since
\* nothing in the repository drains those.
DirectSettles ==
  \A i \in RequestIds :
    (\E r \in Entries(queue) : r.id = i /\ r.status = "pending" /\ ~r.hook)
      ~> \/ \E r \in Entries(queue) : r.id = i /\ r.status # "pending"
         \/ races > 0 \/ faults > 0

\* _dispatch_startup_inbox: queue_inbox_instruction "already persists the worker
\* inbox + enqueues a dispatch request", so that starting a team can rely on it.
InstructionsAreQueued == ~raised
=============================================================================

------------------------ MODULE TeamMessagingProofs ------------------------
(***************************************************************************)
(* What holds of TeamMessaging for any number of processes, messages and   *)
(* requests.  The invariant has two halves: what holds however the calls   *)
(* interleave (Sound), and what holds while no read has met another call's *)
(* write or a torn file (Quiet).                                           *)
(***************************************************************************)
EXTENDS TeamMessaging, FiniteSetTheorems, SequenceTheorems, TLAPS

MailAt  == {"open_mail", "write_mail"}
QueueAt == {"open_queue", "write_queue"}

Lists == Seq(Messages) \cup Seq(Requests)

Calls ==
  [at : Locations, copy : Lists,
   then : {"idle", "list", "notify", "mark_queue"}, about : Topics, hook : BOOLEAN,
   before : SUBSET RequestIds, req : RequestIds \cup {0},
   to : {"pending", "notified", "failed"}]

-----------------------------------------------------------------------------
\* what is true of every list of messages and of requests, on disk or in a copy
OneUnread(l) ==
  \A j, k \in DOMAIN l :
    (l[j].content = l[k].content /\ ~l[j].delivered /\ ~l[k].delivered) => l[j] = l[k]

Distinct(l) == \A j, k \in DOMAIN l : l[j].id = l[k].id => j = k

OnePending(l) ==
  \A j, k \in DOMAIN l :
    (l[j].about = l[k].about /\ l[j].status = "pending" /\ l[k].status = "pending")
      => j = k

Receipts(l, answers) ==
  \A k \in DOMAIN l :
    /\ l[k].status = "notified" => <<l[k].id, TRUE>> \in answers
    /\ l[k].status = "failed" => <<l[k].id, FALSE>> \in answers

MailOK(l) == l \in Seq(Messages) /\ OneUnread(l)

QueueOK(l, drawn, answers) ==
  /\ l \in Seq(Requests)
  /\ Distinct(l) /\ OnePending(l) /\ Receipts(l, answers)
  /\ \A k \in DOMAIN l : l[k].id <= drawn

\* what is true of a call, by the stage it has reached
Control(c, drawn) ==
  /\ c.then # "idle" => c.at \in MailAt \cup QueueAt
  /\ c.then \in {"list", "mark_queue"} => c.at \in MailAt
  /\ c.then = "notify" => c.at \in QueueAt
  /\ c.at \in {"list", "enqueue"} \/ c.then = "list" => c.req = 0
  /\ c.at \in {"notify", "check", "mark_mail", "mark_queue"} => c.req # 0
  /\ c.then \in {"notify", "mark_queue"} => c.req # 0
  /\ c.req <= drawn
  /\ c.to # "pending" => \/ c.at \in {"check", "mark_mail", "mark_queue"}
                         \/ c.then = "mark_queue"

Copied(c, drawn, answers) ==
  /\ c.at \in MailAt => MailOK(c.copy)
  /\ c.at \in QueueAt => QueueOK(c.copy, drawn, answers)

Told(c, answers) ==
  /\ c.to = "notified" => <<c.req, TRUE>> \in answers
  /\ c.to = "failed" => <<c.req, FALSE>> \in answers

CallOK(c, drawn, answers) ==
  c \in Calls /\ Control(c, drawn) /\ Copied(c, drawn, answers) /\ Told(c, answers)

\* the calls that may still queue a request, for which room is kept
Due(c) == c.req = 0 /\ (c.at \in {"list", "enqueue"} \/ c.then = "list")

Room ==
  given.queue + Cardinality({p \in Procs : Due(call[p])}) <= MaxRequests

\* a request's identifier stands for one topic, in every list and in every call
Answering(c) == c.at = "notify" \/ c.then = "notify" \/ c.to # "pending"

Bound(i, a) ==
  \/ \E r \in Entries(queue) : r.id = i /\ r.about = a
  \/ \E p \in Procs :
       /\ HasQueue(p)
       /\ \E k \in DOMAIN call[p].copy : call[p].copy[k].id = i /\ call[p].copy[k].about = a
  \/ \E p \in Procs : Answering(call[p]) /\ call[p].req = i /\ call[p].about = a

OneTopic == \A i \in RequestIds : \A a, b \in Topics : Bound(i, a) /\ Bound(i, b) => a = b

Sound ==
  /\ mailbox = Torn \/ MailOK(mailbox)
  /\ queue \in {Torn, Bare} \/ QueueOK(queue, given.queue, heard)
  /\ call \in [Procs -> Calls]
  /\ \A p \in Procs : CallOK(call[p], given.queue, heard)
  /\ given \in [mail : 0 .. MaxMessages, queue : 0 .. MaxRequests]
  /\ heard \subseteq RequestIds \X BOOLEAN
  /\ races \in Nat /\ faults \in 0 .. MaxFaults /\ raised \in BOOLEAN
  /\ Room
  /\ OneTopic

-----------------------------------------------------------------------------
\* while no call has read what another was writing, or what a kill had torn
MailKinds  == {"sent", "notified", "delivered"}
QueueKinds == {"queued", "settled"}

\* each file has one writer, whose copy is of the file as it stands
OneWriter ==
  /\ \A p, q \in Procs : HasMail(p) /\ HasMail(q) => p = q
  /\ \A p, q \in Procs : HasQueue(p) /\ HasQueue(q) => p = q
  /\ \A p \in Procs :
       /\ call[p].at = "open_mail" => mailbox # Torn
       /\ call[p].at = "open_queue" => queue # Torn

\* a whole file says what was recorded, a copy at least that
Records ==
  /\ \A f \in facts : f[1] \in MailKinds \cup QueueKinds
  /\ mailbox # Torn => /\ MailFacts(mailbox) \subseteq facts
                       /\ \A f \in facts : f[1] \in MailKinds => f \in MailFacts(mailbox)
  /\ queue # Torn => \A f \in facts : f[1] \in QueueKinds => f \in QueueFacts(queue)
  /\ \A p \in Procs :
       /\ HasMail(p) =>
            \A f \in facts : f[1] \in MailKinds => f \in MailFacts(call[p].copy)
       /\ HasQueue(p) =>
            \A f \in facts : f[1] \in QueueKinds => f \in QueueFacts(call[p].copy)

\* a request trails the message it is about
Trails(l, said) ==
  \A k \in DOMAIN l :
    l[k].about # Inbox =>
      /\ <<"sent", l[k].about>> \in said
      /\ l[k].status = "notified" => <<"notified", l[k].about>> \in said

Trailing(c, said) ==
  /\ c.at \in MailAt /\ c.then # "idle" => <<"sent", c.about>> \in MailFacts(c.copy)
  /\ c.then = "mark_queue" => <<"notified", c.about>> \in MailFacts(c.copy)
  /\ c.at \notin MailAt \cup {"idle"} /\ c.about # Inbox => <<"sent", c.about>> \in said
  /\ c.at = "mark_mail" \/ c.then = "mark_queue" => c.to = "notified" /\ c.about # Inbox
  /\ c.at = "check" => c.to = "failed"
  /\ c.at = "mark_queue" /\ c.to = "notified" /\ c.about # Inbox
       => <<"notified", c.about>> \in said
  /\ c.at \in QueueAt => Trails(c.copy, said)

Ordered ==
  /\ Trails(AsRead(queue), facts)
  /\ \A p \in Procs : Trailing(call[p], facts)

Quiet == OneWriter /\ Records /\ Ordered

IInv == Sound /\ (races = 0 => Quiet)

-----------------------------------------------------------------------------
(* Lists of messages and of requests *)

LEMMA WholeMail ==
  ASSUME NEW l \in Seq(Messages)
  PROVE  l # Torn /\ l # Bare /\ AsRead(l) = l
BY FilesAssumption DEF AsRead

LEMMA WholeQueue ==
  ASSUME NEW l \in Seq(Requests)
  PROVE  l # Torn /\ l # Bare /\ AsRead(l) = l
BY FilesAssumption DEF AsRead

LEMMA NothingRead == AsRead(Torn) = <<>> /\ AsRead(Bare) = <<>>
BY DEF AsRead

LEMMA EmptyOK ==
  ASSUME NEW n, NEW S
  PROVE  MailOK(<<>>) /\ QueueOK(<<>>, n, S)
BY DEF MailOK, OneUnread, QueueOK, Distinct, OnePending, Receipts

LEMMA MailRead ==
  ASSUME mailbox = Torn \/ MailOK(mailbox)
  PROVE  MailOK(AsRead(mailbox))
<1>1. CASE mailbox = Torn
  BY <1>1, NothingRead, EmptyOK
<1>2. CASE MailOK(mailbox)
  BY <1>2, WholeMail DEF MailOK
<1> QED BY <1>1, <1>2

LEMMA QueueRead ==
  ASSUME NEW n, NEW S, queue \in {Torn, Bare} \/ QueueOK(queue, n, S)
  PROVE  QueueOK(AsRead(queue), n, S)
<1>1. CASE queue \in {Torn, Bare}
  BY <1>1, NothingRead, EmptyOK
<1>2. CASE QueueOK(queue, n, S)
  BY <1>2, WholeQueue DEF QueueOK
<1> QED BY <1>1, <1>2

\* a message is added when no undelivered one has its content
LEMMA AppendMail ==
  ASSUME NEW l, MailOK(l), NEW m \in Messages,
         \A k \in DOMAIN l : l[k].content = m.content => l[k].delivered
  PROVE  /\ MailOK(Append(l, m))
         /\ \A k \in DOMAIN l : k \in DOMAIN Append(l, m) /\ Append(l, m)[k] = l[k]
         /\ Len(l) + 1 \in DOMAIN Append(l, m) /\ Append(l, m)[Len(l) + 1] = m
<1>1. /\ Append(l, m) \in Seq(Messages) /\ DOMAIN Append(l, m) = 1 .. Len(l) + 1
      /\ DOMAIN l = 1 .. Len(l) /\ Len(l) \in Nat
      /\ \A k \in 1 .. Len(l) : Append(l, m)[k] = l[k]
      /\ Append(l, m)[Len(l) + 1] = m
  BY DEF MailOK
<1>2. OneUnread(Append(l, m))
  <2> SUFFICES ASSUME NEW j \in 1 .. Len(l) + 1, NEW k \in 1 .. Len(l) + 1,
                      Append(l, m)[j].content = Append(l, m)[k].content,
                      ~Append(l, m)[j].delivered, ~Append(l, m)[k].delivered
               PROVE  Append(l, m)[j] = Append(l, m)[k]
    BY <1>1 DEF OneUnread
  <2>1. CASE j \in 1 .. Len(l) /\ k \in 1 .. Len(l)
    BY <1>1, <2>1 DEF MailOK, OneUnread
  <2>2. CASE j = Len(l) + 1 \/ k = Len(l) + 1
    BY <1>1, <2>2
  <2> QED BY <1>1, <2>1, <2>2
<1> QED BY <1>1, <1>2 DEF MailOK

\* a request is added under a new identifier when none about its topic is pending
LEMMA AppendQueue ==
  ASSUME NEW l, NEW n \in Nat, NEW S, QueueOK(l, n, S), NEW r \in Requests,
         r.id = n + 1, r.status = "pending",
         \A k \in DOMAIN l : l[k].about = r.about => l[k].status # "pending"
  PROVE  /\ QueueOK(Append(l, r), n + 1, S)
         /\ \A k \in DOMAIN l : k \in DOMAIN Append(l, r) /\ Append(l, r)[k] = l[k]
         /\ DOMAIN Append(l, r) = DOMAIN l \cup {Len(l) + 1}
         /\ Append(l, r)[Len(l) + 1] = r
<1>1. /\ Append(l, r) \in Seq(Requests) /\ DOMAIN Append(l, r) = 1 .. Len(l) + 1
      /\ DOMAIN l = 1 .. Len(l) /\ Len(l) \in Nat
      /\ \A k \in 1 .. Len(l) : Append(l, r)[k] = l[k] /\ l[k] \in Requests
      /\ Append(l, r)[Len(l) + 1] = r
  BY DEF QueueOK
<1>2. \A k \in 1 .. Len(l) : l[k].id <= n /\ l[k].id \in Nat
  BY <1>1 DEF QueueOK, Requests, RequestIds
<1>3. Distinct(Append(l, r))
  <2> SUFFICES ASSUME NEW j \in 1 .. Len(l) + 1, NEW k \in 1 .. Len(l) + 1,
                      Append(l, r)[j].id = Append(l, r)[k].id
               PROVE  j = k
    BY <1>1 DEF Distinct
  <2>1. CASE j \in 1 .. Len(l) /\ k \in 1 .. Len(l)
    BY <1>1, <2>1 DEF QueueOK, Distinct
  <2>2. CASE j = Len(l) + 1 \/ k = Len(l) + 1
    BY <1>1, <1>2, <2>2
  <2> QED BY <1>1, <2>1, <2>2
<1>4. OnePending(Append(l, r))
  <2> SUFFICES ASSUME NEW j \in 1 .. Len(l) + 1, NEW k \in 1 .. Len(l) + 1,
                      Append(l, r)[j].about = Append(l, r)[k].about,
                      Append(l, r)[j].status = "pending", Append(l, r)[k].status = "pending"
               PROVE  j = k
    BY <1>1 DEF OnePending
  <2>1. CASE j \in 1 .. Len(l) /\ k \in 1 .. Len(l)
    BY <1>1, <2>1 DEF QueueOK, OnePending
  <2>2. CASE j = Len(l) + 1 \/ k = Len(l) + 1
    BY <1>1, <2>2
  <2> QED BY <1>1, <2>1, <2>2
<1>5. Receipts(Append(l, r), S)
  <2> SUFFICES ASSUME NEW k \in 1 .. Len(l) + 1
               PROVE  /\ Append(l, r)[k].status = "notified"
                           => <<Append(l, r)[k].id, TRUE>> \in S
                      /\ Append(l, r)[k].status = "failed"
                           => <<Append(l, r)[k].id, FALSE>> \in S
    BY <1>1 DEF Receipts
  <2>1. CASE k \in 1 .. Len(l)
    <3>1. Append(l, r)[k] = l[k] /\ k \in DOMAIN l
      BY <1>1, <2>1
    <3>2. /\ l[k].status = "notified" => <<l[k].id, TRUE>> \in S
          /\ l[k].status = "failed" => <<l[k].id, FALSE>> \in S
      BY <3>1 DEF QueueOK, Receipts
    <3> QED BY <3>1, <3>2, Zenon
  <2>2. CASE k = Len(l) + 1
    BY <1>1, <2>2
  <2>3. k \in 1 .. Len(l) \/ k = Len(l) + 1
    BY <1>1
  <2> QED BY <2>1, <2>2, <2>3, Zenon
<1>6. \A k \in 1 .. Len(l) + 1 : Append(l, r)[k].id <= n + 1
  BY <1>1, <1>2
<1>7. DOMAIN Append(l, r) = DOMAIN l \cup {Len(l) + 1}
  BY <1>1
<1> QED BY <1>1, <1>3, <1>4, <1>5, <1>6, <1>7 DEF QueueOK

\* marking a message changes that field of that message only
MarkedOne(e, field) == [e EXCEPT ![field] = TRUE]

LEMMA MarkedIs ==
  ASSUME NEW e \in Messages, NEW field \in {"notified", "delivered"}
  PROVE  /\ MarkedOne(e, field) \in Messages
         /\ MarkedOne(e, field).id = e.id /\ MarkedOne(e, field).content = e.content
         /\ e.notified => MarkedOne(e, field).notified
         /\ e.delivered => MarkedOne(e, field).delivered
         /\ MarkedOne(e, field)[field]
<1>1. CASE field = "notified"
  <2>1. MarkedOne(e, field) = [e EXCEPT !.notified = TRUE]
    BY <1>1, Zenon DEF MarkedOne
  <2>2. MarkedOne(e, field).notified = TRUE
    BY <2>1 DEF Messages
  <2> QED BY <1>1, <2>1, <2>2 DEF Messages
<1>2. CASE field = "delivered"
  <2>1. MarkedOne(e, field) = [e EXCEPT !.delivered = TRUE]
    BY <1>2, Zenon DEF MarkedOne
  <2>2. MarkedOne(e, field).delivered = TRUE
    BY <2>1 DEF Messages
  <2> QED BY <1>2, <2>1, <2>2 DEF Messages
<1> QED BY <1>1, <1>2

MarkedAs(m, l, i, field) ==
  /\ DOMAIN m = DOMAIN l
  /\ \A k \in DOMAIN l :
       /\ m[k].id = l[k].id
       /\ l[k].notified => m[k].notified
       /\ l[k].delivered => m[k].delivered
       /\ l[k].id = i => m[k][field]

LEMMA MarkMailOK ==
  ASSUME NEW file, MailOK(AsRead(file)), NEW i, NEW field \in {"notified", "delivered"}
  PROVE  /\ MailOK(Marked(file, i, field))
         /\ MarkedAs(Marked(file, i, field), AsRead(file), i, field)
<1> DEFINE l == AsRead(file)
           m == Marked(file, i, field)
<1>1. l \in Seq(Messages) /\ \A k \in DOMAIN l : l[k] \in Messages
  BY DEF MailOK
<1>2. /\ DOMAIN m = DOMAIN l
      /\ \A k \in DOMAIN l : m[k] = IF l[k].id = i THEN MarkedOne(l[k], field) ELSE l[k]
  BY DEF Marked, MarkedOne
<1>3. \A k \in DOMAIN l :
        /\ m[k] \in Messages /\ m[k].id = l[k].id /\ m[k].content = l[k].content
        /\ l[k].notified => m[k].notified
        /\ l[k].delivered => m[k].delivered
        /\ l[k].id = i => m[k][field]
  <2> SUFFICES ASSUME NEW k \in DOMAIN l
               PROVE  /\ m[k] \in Messages /\ m[k].id = l[k].id
                      /\ m[k].content = l[k].content
                      /\ l[k].notified => m[k].notified
                      /\ l[k].delivered => m[k].delivered
                      /\ l[k].id = i => m[k][field]
    OBVIOUS
  <2>1. CASE l[k].id # i
    BY <1>1, <1>2, <2>1
  <2>2. CASE l[k].id = i
    <3>1. m[k] = MarkedOne(l[k], field) /\ l[k] \in Messages
      BY <1>1, <1>2, <2>2
    <3> HIDE DEF l, m
    <3> QED BY <3>1, MarkedIs
  <2> QED BY <2>1, <2>2
<1>4. m \in Seq(Messages)
  <2>1. Len(l) \in Nat /\ DOMAIN l = 1 .. Len(l)
    BY <1>1
  <2>2. m \in [1 .. Len(l) -> Messages]
    BY <1>2, <1>3, <2>1 DEF Marked
  <2> QED BY <2>1, <2>2
<1>5. OneUnread(m)
  <2> SUFFICES ASSUME NEW j \in DOMAIN l, NEW k \in DOMAIN l,
                      m[j].content = m[k].content, ~m[j].delivered, ~m[k].delivered
               PROVE  m[j] = m[k]
    BY <1>2 DEF OneUnread
  <2>1. l[j] = l[k]
    BY <1>3 DEF MailOK, OneUnread
  <2> HIDE DEF l, m
  <2> QED BY <1>2, <2>1
<1>6. MarkedAs(m, l, i, field)
  BY <1>2, <1>3 DEF MarkedAs
<1> QED BY <1>4, <1>5, <1>6, <1>2 DEF MailOK

\* moving a request along a transition that its state allows
Movable(l, i, to) == \E k \in DOMAIN l : l[k].id = i /\ CanTransition(l[k].status, to)

MovedIs(m, l, i, to) ==
  /\ DOMAIN m = DOMAIN l
  /\ \A k \in DOMAIN l :
       /\ m[k].id = l[k].id /\ m[k].about = l[k].about
       /\ m[k].status # l[k].status => l[k].id = i /\ m[k].status = to
       /\ l[k].status # "pending" => m[k].status # "pending"

LEMMA MoveQueueOK ==
  ASSUME NEW n, NEW S, QueueOK(AsRead(queue), n, S), NEW i,
         NEW to \in {"pending", "notified", "failed"}, Movable(AsRead(queue), i, to),
         to = "notified" => <<i, TRUE>> \in S, to = "failed" => <<i, FALSE>> \in S
  PROVE  /\ QueueOK(Moved(queue, i, to), n, S)
         /\ MovedIs(Moved(queue, i, to), AsRead(queue), i, to)
<1> DEFINE l == AsRead(queue)
           m == Moved(queue, i, to)
<1>1. l \in Seq(Requests) /\ \A k \in DOMAIN l : l[k] \in Requests
  BY DEF QueueOK
<1>2. DOMAIN m = DOMAIN l
  BY DEF Moved
<1>3. \A k \in DOMAIN l :
        m[k] = IF l[k].id = i THEN [l[k] EXCEPT !.status = to] ELSE l[k]
  BY DEF Moved
<1>4. \A k \in DOMAIN l :
        /\ m[k] \in Requests /\ m[k].id = l[k].id /\ m[k].about = l[k].about
        /\ m[k].status = IF l[k].id = i THEN to ELSE l[k].status
  <2> HIDE DEF l, m
  <2> QED BY <1>1, <1>3 DEF Requests, Statuses
<1>5. \A k \in DOMAIN l : l[k].status # "pending" => m[k].status # "pending"
  <2> SUFFICES ASSUME NEW k \in DOMAIN l, l[k].status # "pending", l[k].id = i, to = "pending"
               PROVE  FALSE
    BY <1>4
  <2>1. PICK j \in DOMAIN l : l[j].id = i /\ CanTransition(l[j].status, to)
    BY DEF Movable
  <2>2. j = k
    BY <2>1 DEF QueueOK, Distinct
  <2> QED BY <2>1, <2>2 DEF CanTransition
<1>6. m \in Seq(Requests)
  <2>1. Len(l) \in Nat /\ DOMAIN l = 1 .. Len(l)
    BY <1>1
  <2>2. m \in [1 .. Len(l) -> Requests]
    BY <1>2, <1>4, <2>1 DEF Moved
  <2> QED BY <2>1, <2>2
<1>7. Distinct(m) /\ OnePending(m) /\ \A k \in DOMAIN m : m[k].id <= n
  BY <1>2, <1>4, <1>5 DEF QueueOK, Distinct, OnePending
<1>8. Receipts(m, S)
  <2> SUFFICES ASSUME NEW k \in DOMAIN l
               PROVE  /\ m[k].status = "notified" => <<m[k].id, TRUE>> \in S
                      /\ m[k].status = "failed" => <<m[k].id, FALSE>> \in S
    BY <1>2 DEF Receipts
  <2>1. CASE l[k].id = i
    BY <1>4, <2>1
  <2>2. CASE l[k].id # i
    BY <1>4, <2>2 DEF QueueOK, Receipts
  <2> QED BY <2>1, <2>2
<1>9. MovedIs(m, l, i, to)
  BY <1>2, <1>4, <1>5 DEF MovedIs
<1> QED BY <1>6, <1>7, <1>8, <1>9 DEF QueueOK

-----------------------------------------------------------------------------
(* What the invariant needs of a step of one call *)

LEMMA IdsAreNat ==
  /\ \A i \in RequestIds \cup {0} : i \in Nat
  /\ 0 \notin RequestIds
  /\ \A r \in Requests : r.id \in Nat
BY BoundsAssumption DEF RequestIds, Requests

LEMMA Grows ==
  ASSUME NEW n \in Nat, NEW m \in Nat, n <= m, NEW S, NEW T, S \subseteq T
  PROVE  /\ \A l : QueueOK(l, n, S) => QueueOK(l, m, T)
         /\ \A c : CallOK(c, n, S) => CallOK(c, m, T)
<1>1. ASSUME NEW l, QueueOK(l, n, S) PROVE QueueOK(l, m, T)
  <2>1. \A k \in DOMAIN l : l[k].id \in Nat
    <3>1. l \in Seq(Requests)
      BY <1>1 DEF QueueOK
    <3> QED BY <3>1, IdsAreNat
  <2>2. \A k \in DOMAIN l : l[k].id <= m
    BY <1>1, <2>1 DEF QueueOK
  <2>3. Receipts(l, T)
    BY <1>1, Zenon DEF QueueOK, Receipts
  <2> QED BY <1>1, <2>2, <2>3 DEF QueueOK
<1>2. ASSUME NEW c, CallOK(c, n, S) PROVE CallOK(c, m, T)
  <2>1. c.req \in Nat
    <3>1. c \in Calls
      BY <1>2 DEF CallOK
    <3>2. c.req \in RequestIds \cup {0}
      BY <3>1 DEF Calls
    <3> QED BY <3>2, IdsAreNat
  <2>2. Control(c, m)
    <3>1. c.req <= n
      BY <1>2, Zenon DEF CallOK, Control
    <3>2. c.req <= m
      BY <2>1, <3>1
    <3> QED BY <1>2, <3>2, Zenon DEF CallOK, Control
  <2>3. Copied(c, m, T)
    BY <1>1, <1>2, Zenon DEF CallOK, Copied
  <2>4. Told(c, T)
    BY <1>2, Zenon DEF CallOK, Told
  <2> QED BY <1>2, <2>2, <2>3, <2>4 DEF CallOK
<1> QED BY <1>1, <1>2

\* the calls with a request to queue are as many as before, or one more or less
LEMMA RoomKept ==
  ASSUME Sound, NEW p \in Procs, NEW c, call' = [call EXCEPT ![p] = c],
         \/ given'.queue = given.queue /\ (Due(c) => Due(call[p]) \/ RoomLeft)
         \/ given'.queue = given.queue + 1 /\ Due(call[p]) /\ ~Due(c)
  PROVE  Room'
<1> DEFINE D == {q \in Procs : Due(call[q])}
           E == {q \in Procs : Due(call'[q])}
<1>1. IsFiniteSet(D) /\ Cardinality(D) \in Nat
  BY ProcsAssumption, FS_Subset, FS_CardinalityType
<1>2. E = IF Due(c) THEN D \cup {p} ELSE D \ {p}
  BY DEF Sound
<1>3. /\ Cardinality(D \cup {p}) = IF p \in D THEN Cardinality(D) ELSE Cardinality(D) + 1
      /\ Cardinality(D \ {p}) = IF p \in D THEN Cardinality(D) - 1 ELSE Cardinality(D)
  BY <1>1, FS_AddElement, FS_RemoveElement
<1>4. given.queue \in Nat /\ MaxRequests \in Nat /\ given.queue + Cardinality(D) <= MaxRequests
  BY BoundsAssumption DEF Sound, Room
<1>5. Room' <=> given'.queue + Cardinality(E) <= MaxRequests
  BY DEF Room
<1>6. CASE given'.queue = given.queue + 1 /\ Due(call[p]) /\ ~Due(c)
  <2>1. p \in D
    BY <1>6
  <2> HIDE DEF D, E
  <2> QED BY <1>1, <1>2, <1>3, <1>4, <1>5, <1>6, <2>1
<1>7. CASE given'.queue = given.queue /\ (Due(c) => Due(call[p]) \/ RoomLeft)
  <2>1. RoomLeft => given.queue + Cardinality(D) < MaxRequests
    <3>1. D = {q \in Procs : /\ call[q].req = 0
                             /\ \/ call[q].at \in {"list", "enqueue"}
                                \/ call[q].then = "list"}
      BY DEF Due
    <3> QED BY <3>1 DEF RoomLeft
  <2>2. Due(call[p]) <=> p \in D
    OBVIOUS
  <2> HIDE DEF D, E
  <2> QED BY <1>1, <1>2, <1>3, <1>4, <1>5, <1>7, <2>1, <2>2
<1> QED BY <1>6, <1>7

\* a call that only passes on what was bound leaves every identifier its topic
LEMMA TopicKept ==
  ASSUME Sound, NEW p \in Procs, NEW c, call' = [call EXCEPT ![p] = c],
         \A r \in Entries(queue') : Bound(r.id, r.about),
         c.at \in QueueAt => \A k \in DOMAIN c.copy : Bound(c.copy[k].id, c.copy[k].about),
         Answering(c) => Bound(c.req, c.about)
  PROVE  OneTopic'
<1>1. call'[p] = c /\ \A q \in Procs : q # p => call'[q] = call[q]
  BY DEF Sound
<1>2. ASSUME NEW i, NEW a, Bound(i, a)' PROVE Bound(i, a)
  <2>1. CASE \E r \in Entries(queue') : r.id = i /\ r.about = a
    BY <2>1
  <2>2. ASSUME NEW q \in Procs, HasQueue(q)', NEW k \in DOMAIN call'[q].copy,
               call'[q].copy[k].id = i, call'[q].copy[k].about = a
        PROVE  Bound(i, a)
    <3>1. CASE q = p
      BY <1>1, <2>2, <3>1 DEF HasQueue, QueueAt
    <3>2. CASE q # p
      BY <1>1, <2>2, <3>2 DEF HasQueue, Bound
    <3> QED BY <3>1, <3>2
  <2>3. ASSUME NEW q \in Procs, Answering(call'[q]), call'[q].req = i, call'[q].about = a
        PROVE  Bound(i, a)
    <3>1. CASE q = p
      BY <1>1, <2>3, <3>1
    <3>2. CASE q # p
      BY <1>1, <2>3, <3>2 DEF Bound
    <3> QED BY <3>1, <3>2
  <2> QED BY <1>2, <2>1, <2>2, <2>3 DEF Bound
<1> QED BY <1>2 DEF Sound, OneTopic

LEMMA SoundKept ==
  ASSUME Sound, NEW p \in Procs, NEW c, call' = [call EXCEPT ![p] = c],
         mailbox' = Torn \/ MailOK(mailbox'),
         queue' \in {Torn, Bare} \/ QueueOK(queue', given'.queue, heard'),
         given' \in [mail : 0 .. MaxMessages, queue : 0 .. MaxRequests],
         given.queue <= given'.queue,
         heard \subseteq heard', heard' \subseteq RequestIds \X BOOLEAN,
         races' \in Nat, faults' \in 0 .. MaxFaults, raised' \in BOOLEAN,
         CallOK(c, given'.queue, heard'), Room', OneTopic'
  PROVE  Sound'
<1>1. given.queue \in Nat /\ given'.queue \in Nat
  BY BoundsAssumption DEF Sound
<1>2. call' \in [Procs -> Calls]
  BY DEF Sound, CallOK
<1>3. ASSUME NEW q \in Procs PROVE CallOK(call'[q], given'.queue, heard')
  <2>1. CASE q = p
    BY <2>1 DEF Sound
  <2>2. CASE q # p
    <3>1. call'[q] = call[q] /\ CallOK(call[q], given.queue, heard)
      BY <2>2 DEF Sound
    <3> QED BY <1>1, <3>1, Grows
  <2> QED BY <2>1, <2>2
<1> QED BY <1>2, <1>3 DEF Sound

\* the stages of a call, and the facts about it that its next step needs
LEMMA CallIs ==
  ASSUME Sound, NEW p \in Procs
  PROVE  /\ call[p] \in Calls /\ CallOK(call[p], given.queue, heard)
         /\ given.queue \in Nat /\ given.queue <= MaxRequests
         /\ given.mail \in Nat /\ given.mail <= MaxMessages
         /\ races \in Nat
         /\ MailOK(AsRead(mailbox)) /\ QueueOK(AsRead(queue), given.queue, heard)
BY BoundsAssumption, MailRead, QueueRead DEF Sound

LEMMA ReqIs ==
  ASSUME Sound, NEW p \in Procs
  PROVE  call[p].req \in RequestIds \cup {0} /\ call[p].req <= given.queue
<1>1. call[p] \in Calls /\ Control(call[p], given.queue)
  BY CallIs DEF CallOK
<1>2. call[p].req <= given.queue
  BY <1>1, Zenon DEF Control
<1> QED BY <1>1, <1>2 DEF Calls

LEMMA BetweenFiles ==
  ASSUME Sound, NEW p \in Procs, call[p].at \notin MailAt \cup QueueAt
  PROVE  /\ call[p].then = "idle"
         /\ call[p].at \in {"notify", "check", "mark_mail", "mark_queue"}
              => call[p].req # 0 /\ call[p].req \in RequestIds
         /\ call[p].at \in {"list", "enqueue"} => call[p].req = 0
         /\ call[p].at \in {"list", "enqueue", "notify"} => call[p].to = "pending"
<1>1. call[p] \in Calls /\ Control(call[p], given.queue)
  BY CallIs DEF CallOK
<1>2. call[p].then = "idle"
  BY <1>1, Zenon DEF Control
<1>3. call[p].at \in {"notify", "check", "mark_mail", "mark_queue"} => call[p].req # 0
  BY <1>1 DEF Control
<1>4. call[p].at \in {"list", "enqueue"} => call[p].req = 0
  BY <1>1, Zenon DEF Control
<1>5. call[p].to = "pending" \/ call[p].at \in {"check", "mark_mail", "mark_queue"}
  BY <1>1, <1>2 DEF Control
<1> QED BY <1>2, <1>3, <1>4, <1>5, ReqIs

LEMMA NoCallOK ==
  ASSUME NEW n \in Nat, NEW S
  PROVE  NoCall \in Calls /\ CallOK(NoCall, n, S) /\ ~Due(NoCall) /\ ~Answering(NoCall)
BY DEF NoCall, Calls, CallOK, Control, Copied, Told, MailAt, QueueAt, Locations, Lists,
       Topics, Due, Answering

LEMMA Stages ==
  /\ {"idle", "open_mail", "write_mail", "open_queue", "write_queue", "list", "enqueue",
      "notify", "mark_mail", "check", "mark_queue"} \subseteq Locations
  /\ "idle" \in Locations /\ "open_mail" \in Locations /\ "write_mail" \in Locations
  /\ "open_queue" \in Locations /\ "write_queue" \in Locations /\ "list" \in Locations
  /\ "enqueue" \in Locations /\ "notify" \in Locations /\ "mark_mail" \in Locations
  /\ "check" \in Locations /\ "mark_queue" \in Locations
BY DEF Locations

LEMMA ListsAre ==
  /\ \A l : MailOK(l) => l \in Lists
  /\ \A l, n, S : QueueOK(l, n, S) => l \in Lists
BY DEF MailOK, QueueOK, Lists

\* the steps that write no file and queue no request
LEMMA ReadStep ==
  ASSUME Sound, NEW p \in Procs, NEW c, call' = [call EXCEPT ![p] = c],
         UNCHANGED <<mailbox, queue, heard>>,
         given' \in [mail : 0 .. MaxMessages, queue : 0 .. MaxRequests],
         given'.queue = given.queue,
         races' \in Nat, raised' \in BOOLEAN, faults' \in 0 .. MaxFaults,
         CallOK(c, given.queue, heard),
         Due(c) => Due(call[p]) \/ RoomLeft,
         c.at \in QueueAt => \A k \in DOMAIN c.copy : Bound(c.copy[k].id, c.copy[k].about),
         Answering(c) => Bound(c.req, c.about)
  PROVE  Sound'
<1>1. Room'
  BY RoomKept
<1>2. \A r \in Entries(queue') : Bound(r.id, r.about)
  BY DEF Bound
<1>3. OneTopic'
  BY <1>2, TopicKept
<1>4. /\ mailbox' = Torn \/ MailOK(mailbox')
      /\ queue' \in {Torn, Bare} \/ QueueOK(queue', given'.queue, heard')
      /\ heard \subseteq heard' /\ heard' \subseteq RequestIds \X BOOLEAN
  BY DEF Sound
<1>5. given.queue <= given'.queue /\ CallOK(c, given'.queue, heard')
  BY CallIs
<1> QED BY <1>1, <1>3, <1>4, <1>5, SoundKept

\* a call that returns
LEMMA ReturnSound ==
  ASSUME Sound, NEW p \in Procs, call' = [call EXCEPT ![p] = NoCall],
         UNCHANGED <<mailbox, queue, given, heard>>,
         races' \in Nat, faults' \in 0 .. MaxFaults, raised' \in BOOLEAN
  PROVE  Sound'
<1>1. NoCall.at \notin QueueAt
  BY DEF NoCall, QueueAt
<1>2. given' \in [mail : 0 .. MaxMessages, queue : 0 .. MaxRequests]
  BY DEF Sound
<1> QED BY <1>1, <1>2, CallIs, NoCallOK, ReadStep

\* counting a race leaves a number
LEMMA RacedIs ==
  ASSUME Sound, NEW p \in Procs
  PROVE  (MailRaced(p) \/ QueueRaced(p)) => races' \in Nat
BY CallIs DEF MailRaced, QueueRaced

\* what a request in the queue is about is bound to its identifier
LEMMA EntryIs ==
  ASSUME Sound, NEW r \in Entries(queue)
  PROVE  /\ r \in Requests /\ r.id \in RequestIds /\ r.about \in Topics
         /\ r.id <= given.queue /\ Bound(r.id, r.about)
<1>1. QueueOK(AsRead(queue), given.queue, heard)
  BY QueueRead DEF Sound
<1>2. PICK k \in DOMAIN AsRead(queue) : r = AsRead(queue)[k]
  BY DEF Entries
<1>3. r \in Requests /\ r.id <= given.queue
  BY <1>1, <1>2 DEF QueueOK
<1> QED BY <1>3 DEF Requests, Bound

LEMMA MailEntryIs ==
  ASSUME Sound, NEW m \in Entries(mailbox)
  PROVE  m \in Messages /\ m.id \in MessageIds /\ m.id \in Topics
<1>1. MailOK(AsRead(mailbox))
  BY MailRead DEF Sound
<1>2. PICK k \in DOMAIN AsRead(mailbox) : m = AsRead(mailbox)[k]
  BY DEF Entries
<1>3. m \in Messages
  BY <1>1, <1>2 DEF MailOK
<1> QED BY <1>3 DEF Messages, Topics

LEMMA ResendSound ==
  ASSUME Sound, NEW p \in Procs, NEW kind \in Kinds, NEW x \in Contents, NEW hook \in BOOLEAN,
         Resend(p, kind, x, hook)
  PROVE  Sound'
<1>1. PICK m \in Unread(mailbox, x) :
        call' = [call EXCEPT ![p] = [NoCall EXCEPT !.at = "list", !.about = m.id, !.hook = hook]]
  BY DEF Resend, Continue
<1> DEFINE c == [NoCall EXCEPT !.at = "list", !.about = m.id, !.hook = hook]
<1>2. CallOK(c, given.queue, heard) /\ ~Answering(c) /\ c.at \notin QueueAt
  <2>1. m.id \in Topics
    BY MailEntryIs DEF Unread
  <2>2. c \in Calls
    BY <2>1, CallIs, NoCallOK, Stages DEF Calls
  <2>3. Control(c, given.queue)
    BY CallIs DEF NoCall, Control, MailAt, QueueAt
  <2>4. Copied(c, given.queue, heard) /\ Told(c, heard) /\ ~Answering(c) /\ c.at \notin QueueAt
    BY DEF NoCall, Copied, Told, MailAt, QueueAt, Answering
  <2> QED BY <2>2, <2>3, <2>4 DEF CallOK
<1>3. RoomLeft /\ races' \in Nat
  BY RacedIs DEF Resend
<1>4. UNCHANGED <<mailbox, queue, given, heard, faults, raised>>
  BY DEF Resend
<1> QED BY <1>1, <1>2, <1>3, <1>4, ReadStep DEF Sound

LEMMA InstructSound ==
  ASSUME Sound, NEW p \in Procs, NEW hook \in BOOLEAN, Instruct(p, hook)
  PROVE  Sound'
<1> DEFINE c == [NoCall EXCEPT !.at = "list", !.hook = hook]
<1>1. CallOK(c, given.queue, heard) /\ ~Answering(c) /\ c.at \notin QueueAt
  <2>1. c \in Calls
    BY CallIs, NoCallOK, Stages DEF Calls
  <2>2. Control(c, given.queue)
    BY CallIs DEF NoCall, Control, MailAt, QueueAt
  <2>3. Copied(c, given.queue, heard) /\ Told(c, heard) /\ ~Answering(c) /\ c.at \notin QueueAt
    BY DEF NoCall, Copied, Told, MailAt, QueueAt, Answering
  <2> QED BY <2>1, <2>2, <2>3 DEF CallOK
<1>2. /\ call' = [call EXCEPT ![p] = c] /\ RoomLeft
      /\ UNCHANGED <<mailbox, queue, given, heard, races, faults, raised>>
  BY DEF Instruct, Continue
<1> QED BY <1>1, <1>2, ReadStep DEF Sound

LEMMA BumpSound ==
  ASSUME Sound, NEW p \in Procs, NEW r \in RequestIds, Bump(p, r)
  PROVE  Sound'
<1> DEFINE c == [NoCall EXCEPT !.at = "mark_queue", !.req = r]
<1>1. r <= given.queue /\ r # 0
  BY EntryIs, IdsAreNat DEF Bump, IdsIn
<1>2. CallOK(c, given.queue, heard) /\ ~Answering(c) /\ ~Due(c) /\ c.at \notin QueueAt
  <2>1. c \in Calls
    BY CallIs, NoCallOK, Stages DEF Calls
  <2>2. Control(c, given.queue)
    BY <1>1 DEF NoCall, Control, MailAt, QueueAt
  <2>3. Copied(c, given.queue, heard) /\ Told(c, heard) /\ ~Answering(c) /\ c.at \notin QueueAt
        /\ ~Due(c)
    BY DEF NoCall, Copied, Told, MailAt, QueueAt, Answering, Due
  <2> QED BY <2>1, <2>2, <2>3 DEF CallOK
<1>3. /\ call' = [call EXCEPT ![p] = c]
      /\ UNCHANGED <<mailbox, queue, given, heard, races, faults, raised>>
  BY DEF Bump, Continue
<1> QED BY <1>2, <1>3, ReadStep DEF Sound

LEMMA MarkSound ==
  ASSUME Sound, NEW p \in Procs, NEW m \in MessageIds, NEW field \in {"notified", "delivered"},
         Mark(p, m, field)
  PROVE  Sound'
<1>1. CASE m \in IdsIn(mailbox)
  <2> DEFINE l == Marked(mailbox, m, field)
             c == [NoCall EXCEPT !.at = "open_mail", !.copy = l]
  <2>1. MailOK(l)
    BY CallIs, MarkMailOK
  <2> HIDE DEF l
  <2>2. c \in Calls
    BY <2>1, CallIs, NoCallOK, Stages, ListsAre DEF Calls
  <2>3. Control(c, given.queue)
    BY CallIs DEF NoCall, Control, MailAt, QueueAt
  <2>4. Copied(c, given.queue, heard) /\ Told(c, heard) /\ ~Answering(c) /\ c.at \notin QueueAt
        /\ ~Due(c)
    BY <2>1 DEF NoCall, Copied, Told, MailAt, QueueAt, Answering, Due
  <2>5. CallOK(c, given.queue, heard)
    BY <2>2, <2>3, <2>4 DEF CallOK
  <2>6. /\ call' = [call EXCEPT ![p] = c]
        /\ UNCHANGED <<mailbox, queue, given, heard, faults, raised>>
    BY <1>1 DEF Mark, Continue, l
  <2>7. races' \in Nat
    BY RacedIs DEF Mark
  <2> QED BY <2>4, <2>5, <2>6, <2>7, ReadStep DEF Sound
<1>2. CASE m \notin IdsIn(mailbox)
  <2>1. /\ call' = [call EXCEPT ![p] = NoCall]
        /\ UNCHANGED <<mailbox, queue, given, heard, faults, raised>>
    BY <1>2 DEF Mark, Continue, Return
  <2>2. races' \in Nat
    BY RacedIs DEF Mark
  <2> QED BY <2>1, <2>2, ReturnSound DEF Sound
<1> QED BY <1>1, <1>2

LEMMA SendSound ==
  ASSUME Sound, NEW p \in Procs, NEW kind \in Kinds, NEW x \in Contents, NEW hook \in BOOLEAN,
         Send(p, kind, x, hook)
  PROVE  Sound'
<1> DEFINE m == NewMessage(x)
           l == Append(AsRead(mailbox), m)
           c == [NoCall EXCEPT !.at = "open_mail", !.copy = l, !.then = After(kind),
                               !.about = given.mail + 1, !.hook = hook]
<1>1. given.mail + 1 \in MessageIds /\ given.mail + 1 \in Topics
  BY BoundsAssumption, CallIs DEF Send, MessageIds, Topics
<1>2. m \in Messages /\ m.content = x
  BY <1>1 DEF NewMessage, Messages
<1>3. \A k \in DOMAIN AsRead(mailbox) :
        AsRead(mailbox)[k].content = x => AsRead(mailbox)[k].delivered
  BY DEF Send, Unread, Entries
<1>4. MailOK(l)
  <2> HIDE DEF m
  <2> QED BY <1>2, <1>3, CallIs, AppendMail
<1>5. /\ call' = [call EXCEPT ![p] = c] /\ (kind = "post" \/ RoomLeft)
      /\ given' = [given EXCEPT !.mail = @ + 1] /\ MailRaced(p)
      /\ UNCHANGED <<mailbox, queue, heard, facts, faults, raised>>
  BY DEF Send, Continue
<1> HIDE DEF l
<1>6. c \in Calls
  BY <1>1, <1>4, CallIs, NoCallOK, Stages, ListsAre DEF Calls, After
<1>7. Control(c, given.queue)
  BY CallIs DEF NoCall, Control, MailAt, QueueAt, After
<1>8. Copied(c, given.queue, heard) /\ Told(c, heard) /\ ~Answering(c) /\ c.at \notin QueueAt
  BY <1>4 DEF NoCall, Copied, Told, MailAt, QueueAt, Answering, After
<1>9. Due(c) => RoomLeft
  BY <1>5 DEF NoCall, Due, After
<1>10. /\ given' \in [mail : 0 .. MaxMessages, queue : 0 .. MaxRequests]
       /\ given'.queue = given.queue
  BY <1>1, <1>5 DEF Sound, MessageIds
<1>11. CallOK(c, given.queue, heard)
  BY <1>6, <1>7, <1>8 DEF CallOK
<1> HIDE DEF c
<1> QED BY <1>5, <1>8, <1>9, <1>10, <1>11, RacedIs, ReadStep DEF Sound

LEMMA ListSound ==
  ASSUME Sound, NEW p \in Procs, List(p)
  PROVE  Sound'
<1> DEFINE c == [call[p] EXCEPT !.at = "enqueue", !.before = IdsIn(queue)]
<1>1. IdsIn(queue) \subseteq RequestIds
  BY EntryIs DEF IdsIn
<1>2. /\ call[p].at = "list" /\ call' = [call EXCEPT ![p] = c] /\ QueueRaced(p)
      /\ UNCHANGED <<mailbox, queue, given, heard, faults, raised>>
  BY DEF List, Continue
<1>3. call[p].then = "idle" /\ call[p].to = "pending" /\ call[p].req = 0
  BY <1>2, CallIs DEF CallOK, Calls, Control, MailAt, QueueAt
<1>4. c \in Calls
  BY <1>1, CallIs, Stages DEF Calls
<1>5. c.at = "enqueue" /\ c.then = "idle" /\ c.to = "pending" /\ c.req = 0
  BY <1>3, CallIs DEF Calls
<1> HIDE DEF c
<1>6. Control(c, given.queue)
  BY <1>5, CallIs DEF Control, MailAt, QueueAt
<1>7. Copied(c, given.queue, heard) /\ Told(c, heard) /\ ~Answering(c) /\ c.at \notin QueueAt
  BY <1>5 DEF Copied, Told, MailAt, QueueAt, Answering
<1>8. Due(call[p])
  BY <1>2, <1>3 DEF Due
<1>9. CallOK(c, given.queue, heard)
  BY <1>4, <1>6, <1>7 DEF CallOK
<1> QED BY <1>2, <1>7, <1>8, <1>9, RacedIs, ReadStep DEF Sound

LEMMA RaiseSound ==
  ASSUME Sound, NEW p \in Procs, Raise(p)
  PROVE  Sound'
BY CallIs, ReturnSound DEF Raise, Continue, Return, Sound

LEMMA CrashSound ==
  ASSUME Sound, NEW p \in Procs, Crash(p)
  PROVE  Sound'
<1>1. faults' \in 0 .. MaxFaults
  BY BoundsAssumption DEF Crash, Sound
<1> QED BY <1>1, CallIs, ReturnSound DEF Crash, Continue, Return, Sound

LEMMA JoinSound ==
  ASSUME Sound, NEW p \in Procs, Join(p)
  PROVE  Sound'
<1>1. PICK r \in Waiting(queue, call[p].about) :
        IF r.id \in call[p].before
          THEN Return(p)
          ELSE Continue(p, [call[p] EXCEPT !.at = "notify", !.req = r.id, !.before = {}])
  BY DEF Join
<1>2. /\ call[p].at = "enqueue" /\ QueueRaced(p)
      /\ UNCHANGED <<mailbox, queue, given, heard, faults, raised>>
  BY DEF Join
<1>3. races' \in Nat
  BY <1>2, RacedIs
<1>4. CASE r.id \in call[p].before
  BY <1>1, <1>2, <1>3, <1>4, ReturnSound DEF Return, Continue, Sound
<1>5. CASE r.id \notin call[p].before
  <2> DEFINE c == [call[p] EXCEPT !.at = "notify", !.req = r.id, !.before = {}]
  <2>1. /\ r.id \in RequestIds /\ r.id <= given.queue /\ r.id # 0
        /\ Bound(r.id, r.about) /\ r.about = call[p].about
    BY EntryIs, IdsAreNat DEF Waiting
  <2>2. call[p].then = "idle" /\ call[p].to = "pending"
    BY <1>2, CallIs DEF CallOK, Calls, Control, MailAt, QueueAt
  <2>3. c \in Calls
    BY <2>1, CallIs, Stages DEF Calls
  <2>4. c.at = "notify" /\ c.then = "idle" /\ c.to = "pending" /\ c.req = r.id
        /\ c.about = call[p].about
    BY <2>2, CallIs DEF Calls
  <2>5. call' = [call EXCEPT ![p] = c]
    BY <1>1, <1>5 DEF Continue
  <2> HIDE DEF c
  <2>6. Control(c, given.queue)
    BY <2>1, <2>4 DEF Control, MailAt, QueueAt
  <2>7. Copied(c, given.queue, heard) /\ Told(c, heard) /\ c.at \notin QueueAt /\ ~Due(c)
    BY <2>4 DEF Copied, Told, MailAt, QueueAt, Due
  <2>8. Answering(c) => Bound(c.req, c.about)
    BY <2>1, <2>4
  <2>9. CallOK(c, given.queue, heard)
    BY <2>3, <2>6, <2>7 DEF CallOK
  <2> QED BY <1>2, <1>3, <2>5, <2>7, <2>8, <2>9, ReadStep DEF Sound
<1> QED BY <1>4, <1>5

LEMMA BoundIs ==
  ASSUME Sound, NEW i \in RequestIds, NEW a, Bound(i, a)
  PROVE  i <= given.queue
<1>1. CASE \E r \in Entries(queue) : r.id = i /\ r.about = a
  BY <1>1, EntryIs
<1>2. ASSUME NEW q \in Procs, HasQueue(q), NEW k \in DOMAIN call[q].copy,
             call[q].copy[k].id = i
      PROVE  i <= given.queue
  <2>1. QueueOK(call[q].copy, given.queue, heard)
    BY <1>2, CallIs DEF HasQueue, CallOK, Copied, QueueAt
  <2> QED BY <1>2, <2>1 DEF QueueOK
<1>3. ASSUME NEW q \in Procs, call[q].req = i PROVE i <= given.queue
  BY <1>3, CallIs DEF CallOK, Control
<1> QED BY <1>1, <1>2, <1>3 DEF Bound

LEMMA EnqueueSound ==
  ASSUME Sound, NEW p \in Procs, Enqueue(p)
  PROVE  Sound'
<1> DEFINE n == given.queue
           r == [id |-> n + 1, about |-> call[p].about, hook |-> call[p].hook,
                 status |-> "pending"]
           l == Append(AsRead(queue), r)
           c == [call[p] EXCEPT !.at = "open_queue", !.then = "notify", !.req = n + 1,
                                !.before = {}, !.copy = l]
<1>1. /\ call[p].at = "enqueue" /\ Waiting(queue, call[p].about) = {}
      /\ call' = [call EXCEPT ![p] = c] /\ QueueRaced(p)
      /\ given' = [given EXCEPT !.queue = @ + 1]
      /\ UNCHANGED <<mailbox, queue, heard, facts, faults, raised>>
  BY DEF Enqueue, Continue
<1>2. call[p].then = "idle" /\ call[p].to = "pending" /\ call[p].req = 0
      /\ call[p].about \in Topics /\ call[p].hook \in BOOLEAN /\ Due(call[p])
  BY <1>1, CallIs DEF CallOK, Calls, Control, MailAt, QueueAt, Due
<1>3. n \in Nat /\ n + 1 <= MaxRequests /\ n + 1 \in RequestIds /\ n + 1 # 0
  <2> DEFINE D == {q \in Procs : Due(call[q])}
  <2>1. IsFiniteSet(D) /\ Cardinality(D) \in Nat /\ p \in D
    BY <1>2, ProcsAssumption, FS_Subset, FS_CardinalityType
  <2>2. Cardinality(D) # 0
    BY <2>1, FS_EmptySet
  <2>3. n + Cardinality(D) <= MaxRequests
    BY DEF Sound, Room
  <2> HIDE DEF D
  <2> QED BY <2>1, <2>2, <2>3, CallIs, BoundsAssumption DEF RequestIds
<1>4. r \in Requests /\ r.id = n + 1 /\ r.about = call[p].about /\ r.status = "pending"
  BY <1>2, <1>3 DEF Requests, Statuses
<1> HIDE DEF r
<1>5. \A k \in DOMAIN AsRead(queue) :
        AsRead(queue)[k].about = r.about => AsRead(queue)[k].status # "pending"
  BY <1>1, <1>4 DEF Waiting, Entries
<1>6. /\ QueueOK(l, n + 1, heard)
      /\ DOMAIN l = DOMAIN AsRead(queue) \cup {Len(AsRead(queue)) + 1}
      /\ \A k \in DOMAIN AsRead(queue) : l[k] = AsRead(queue)[k]
      /\ l[Len(AsRead(queue)) + 1] = r
  <2>1. QueueOK(AsRead(queue), n, heard)
    BY CallIs
  <2> HIDE DEF n
  <2> QED BY <1>3, <1>4, <1>5, <2>1, AppendQueue
<1> HIDE DEF l
<1>7. c \in Calls
  <2>1. call[p] \in Calls /\ n + 1 \in RequestIds \cup {0} /\ l \in Lists
    BY <1>3, <1>6, CallIs, ListsAre
  <2>2. "open_queue" \in Locations /\ {} \in SUBSET RequestIds
    BY Stages
  <2> HIDE DEF n
  <2> QED BY <2>1, <2>2 DEF Calls
<1>8. /\ c.at = "open_queue" /\ c.then = "notify" /\ c.to = "pending" /\ c.req = n + 1
      /\ c.about = call[p].about /\ c.copy = l
  BY <1>2, CallIs DEF Calls
<1> HIDE DEF c
<1>9. given'.queue = n + 1 /\ given' \in [mail : 0 .. MaxMessages, queue : 0 .. MaxRequests]
  BY <1>1, <1>3 DEF Sound
<1>10. CallOK(c, n + 1, heard)
  <2>1. Control(c, n + 1)
    <3>1. n + 1 <= n + 1 /\ n + 1 # 0
      BY <1>3
    <3> QED BY <1>8, <3>1, Zenon DEF Control, MailAt, QueueAt
  <2>2. Copied(c, n + 1, heard) /\ Told(c, heard)
    BY <1>6, <1>8 DEF Copied, Told, MailAt, QueueAt
  <2> QED BY <1>7, <2>1, <2>2 DEF CallOK
<1>11. Room'
  <2>1. ~Due(c)
    BY <1>8 DEF Due
  <2> QED BY <1>1, <1>2, <1>9, <2>1, RoomKept
<1>12. OneTopic'
  <2>1. call'[p] = c /\ \A q \in Procs : q # p => call'[q] = call[q]
    BY <1>1 DEF Sound
  <2>2. ASSUME NEW i, NEW a, Bound(i, a)'
        PROVE  Bound(i, a) \/ (i = n + 1 /\ a = call[p].about)
    <3>1. CASE \E x \in Entries(queue') : x.id = i /\ x.about = a
      BY <1>1, <3>1 DEF Bound
    <3>2. ASSUME NEW q \in Procs, HasQueue(q)', NEW k \in DOMAIN call'[q].copy,
                 call'[q].copy[k].id = i, call'[q].copy[k].about = a
          PROVE  Bound(i, a) \/ (i = n + 1 /\ a = call[p].about)
      <4>1. CASE q = p /\ k \in DOMAIN AsRead(queue)
        <5>1. AsRead(queue)[k].id = i /\ AsRead(queue)[k].about = a
          BY <1>6, <1>8, <2>1, <3>2, <4>1
        <5> QED BY <4>1, <5>1 DEF Bound, Entries
      <4>2. CASE q = p /\ k \notin DOMAIN AsRead(queue)
        BY <1>4, <1>6, <1>8, <2>1, <3>2, <4>2
      <4>3. CASE q # p
        BY <2>1, <3>2, <4>3 DEF HasQueue, Bound
      <4> QED BY <4>1, <4>2, <4>3
    <3>3. ASSUME NEW q \in Procs, Answering(call'[q]), call'[q].req = i, call'[q].about = a
          PROVE  Bound(i, a) \/ (i = n + 1 /\ a = call[p].about)
      <4>1. CASE q = p
        BY <1>8, <2>1, <3>3, <4>1
      <4>2. CASE q # p
        BY <2>1, <3>3, <4>2 DEF Bound
      <4> QED BY <4>1, <4>2
    <3> QED BY <2>2, <3>1, <3>2, <3>3 DEF Bound
  <2>3. \A i \in RequestIds : \A a : Bound(i, a) => i # n + 1
    BY <1>3, BoundIs, IdsAreNat
  <2> QED BY <2>2, <2>3 DEF Sound, OneTopic
<1>13. mailbox' = Torn \/ MailOK(mailbox')
  BY <1>1 DEF Sound
<1>14. queue' \in {Torn, Bare} \/ QueueOK(queue', given'.queue, heard')
  <2>1. \A x : QueueOK(x, n, heard) => QueueOK(x, n + 1, heard)
    BY <1>3, Grows
  <2> QED BY <1>1, <1>9, <2>1 DEF Sound
<1>15. /\ heard \subseteq heard' /\ heard' \subseteq RequestIds \X BOOLEAN
       /\ races' \in Nat /\ faults' \in 0 .. MaxFaults /\ raised' \in BOOLEAN
       /\ given.queue <= given'.queue /\ CallOK(c, given'.queue, heard')
  BY <1>1, <1>3, <1>9, <1>10, RacedIs DEF Sound
<1> QED BY <1>1, <1>9, <1>11, <1>12, <1>13, <1>14, <1>15, SoundKept

LEMMA NotifySound ==
  ASSUME Sound, NEW p \in Procs, NEW outcome \in {"queued", "confirmed", "failed"},
         Notify(p, outcome)
  PROVE  Sound'
<1> DEFINE c == IF outcome = "confirmed"
                  THEN [call[p] EXCEPT !.to = "notified", !.hook = FALSE,
                          !.at = IF call[p].about = Inbox THEN "mark_queue" ELSE "mark_mail"]
                  ELSE [call[p] EXCEPT !.to = "failed", !.hook = FALSE, !.at = "check"]
<1>1. /\ call[p].at = "notify" /\ call' = [call EXCEPT ![p] = c]
      /\ heard' = heard \cup {<<call[p].req, outcome = "confirmed">>}
      /\ UNCHANGED <<mailbox, queue, given, races, faults, raised>>
  BY DEF Notify, Continue, IsConfirmed
<1>2. call[p].then = "idle" /\ call[p].req # 0 /\ call[p].req <= given.queue
      /\ call[p].req \in RequestIds
  BY <1>1, ReqIs, BetweenFiles DEF MailAt, QueueAt
<1>3. c \in Calls
  BY CallIs, Stages DEF Calls
<1>4. /\ c.at \in {"mark_queue", "mark_mail", "check"} /\ c.then = "idle"
      /\ c.req = call[p].req /\ c.about = call[p].about
      /\ \/ outcome = "confirmed" /\ c.to = "notified"
         \/ outcome # "confirmed" /\ c.to = "failed"
  BY <1>2, CallIs DEF Calls
<1> HIDE DEF c
<1>5. heard \subseteq heard' /\ heard' \subseteq RequestIds \X BOOLEAN
  <2>1. <<call[p].req, outcome = "confirmed">> \in RequestIds \X BOOLEAN
    BY <1>2
  <2>2. heard \subseteq RequestIds \X BOOLEAN
    BY DEF Sound
  <2> QED BY <1>1, <2>1, <2>2
<1>6. Control(c, given.queue)
  BY <1>2, <1>4 DEF Control, MailAt, QueueAt
<1>7. Told(c, heard')
  <2>1. CASE outcome = "confirmed"
    <3>1. <<c.req, TRUE>> \in heard' /\ c.to = "notified"
      BY <1>1, <1>4, <2>1
    <3> QED BY <3>1 DEF Told
  <2>2. CASE outcome # "confirmed"
    <3>1. <<c.req, FALSE>> \in heard' /\ c.to = "failed"
      BY <1>1, <1>4, <2>2
    <3> QED BY <3>1 DEF Told
  <2> QED BY <2>1, <2>2
<1>8. Copied(c, given.queue, heard') /\ c.at \notin QueueAt /\ ~Due(c)
  BY <1>4 DEF Copied, MailAt, QueueAt, Due
<1>9. CallOK(c, given'.queue, heard')
  BY <1>1, <1>3, <1>6, <1>7, <1>8 DEF CallOK
<1>10. Room'
  BY <1>1, <1>8, RoomKept
<1>11. OneTopic'
  <2>1. Bound(c.req, c.about)
    BY <1>1, <1>4 DEF Bound, Answering
  <2>2. \A r \in Entries(queue') : Bound(r.id, r.about)
    BY <1>1 DEF Bound
  <2> QED BY <1>1, <1>8, <2>1, <2>2, TopicKept
<1>12. /\ mailbox' = Torn \/ MailOK(mailbox')
       /\ queue' \in {Torn, Bare} \/ QueueOK(queue', given'.queue, heard')
  <2>1. \A x : QueueOK(x, given.queue, heard) => QueueOK(x, given.queue, heard')
    BY <1>5, CallIs, Grows
  <2> QED BY <1>1, <2>1 DEF Sound
<1>13. /\ given' \in [mail : 0 .. MaxMessages, queue : 0 .. MaxRequests]
       /\ given.queue <= given'.queue
       /\ races' \in Nat /\ faults' \in 0 .. MaxFaults /\ raised' \in BOOLEAN
  BY <1>1, CallIs DEF Sound
<1> QED BY <1>1, <1>5, <1>9, <1>10, <1>11, <1>12, <1>13, SoundKept

LEMMA MarkMailSound ==
  ASSUME Sound, NEW p \in Procs, MarkMail(p)
  PROVE  Sound'
<1> DEFINE l == Marked(mailbox, call[p].about, "notified")
           c == IF call[p].about \in IdsIn(mailbox)
                  THEN [call[p] EXCEPT !.at = "open_mail", !.then = "mark_queue", !.copy = l]
                  ELSE [call[p] EXCEPT !.at = "mark_queue"]
<1>1. /\ call[p].at = "mark_mail" /\ call' = [call EXCEPT ![p] = c] /\ MailRaced(p)
      /\ UNCHANGED <<mailbox, queue, given, heard, faults, raised>>
  BY DEF MarkMail, Continue
<1>2. call[p].then = "idle" /\ call[p].req # 0 /\ call[p].req <= given.queue
  BY <1>1, ReqIs, BetweenFiles DEF MailAt, QueueAt
<1>3. MailOK(l)
  BY CallIs, MarkMailOK
<1> HIDE DEF l
<1>4. c \in Calls
  BY <1>3, CallIs, Stages, ListsAre DEF Calls
<1>5. /\ \/ c.at = "open_mail" /\ c.then = "mark_queue" /\ c.copy = l
         \/ c.at = "mark_queue" /\ c.then = "idle"
      /\ c.req = call[p].req /\ c.about = call[p].about /\ c.to = call[p].to
  BY <1>2, CallIs DEF Calls
<1> HIDE DEF c
<1>6. Control(c, given.queue)
  BY <1>2, <1>5 DEF Control, MailAt, QueueAt
<1>7. Copied(c, given.queue, heard) /\ c.at \notin QueueAt /\ ~Due(c)
  BY <1>3, <1>5 DEF Copied, MailAt, QueueAt, Due
<1>8. Told(c, heard)
  BY <1>5, CallIs DEF CallOK, Told
<1>9. Answering(c) => Bound(c.req, c.about)
  BY <1>5 DEF Answering, Bound
<1>10. CallOK(c, given.queue, heard)
  BY <1>4, <1>6, <1>7, <1>8 DEF CallOK
<1> QED BY <1>1, <1>7, <1>9, <1>10, RacedIs, ReadStep DEF Sound

LEMMA CheckSound ==
  ASSUME Sound, NEW p \in Procs, Check(p)
  PROVE  Sound'
<1>1. /\ call[p].at = "check" /\ QueueRaced(p)
      /\ \/ call' = [call EXCEPT ![p] = [call[p] EXCEPT !.at = "mark_queue"]]
         \/ call' = [call EXCEPT ![p] = NoCall]
      /\ UNCHANGED <<mailbox, queue, given, heard, faults, raised>>
  BY DEF Check, Continue, Return
<1>2. races' \in Nat
  BY <1>1, RacedIs
<1>3. CASE call' = [call EXCEPT ![p] = NoCall]
  BY <1>1, <1>2, <1>3, ReturnSound DEF Sound
<1>4. CASE call' = [call EXCEPT ![p] = [call[p] EXCEPT !.at = "mark_queue"]]
  <2> DEFINE c == [call[p] EXCEPT !.at = "mark_queue"]
  <2>1. call[p].then = "idle" /\ call[p].req # 0 /\ call[p].req <= given.queue
    BY <1>1, ReqIs, BetweenFiles DEF MailAt, QueueAt
  <2>2. c \in Calls
    BY CallIs, Stages DEF Calls
  <2>3. /\ c.at = "mark_queue" /\ c.then = "idle"
        /\ c.req = call[p].req /\ c.about = call[p].about /\ c.to = call[p].to
    BY <2>1, CallIs DEF Calls
  <2>4. call' = [call EXCEPT ![p] = c]
    BY <1>4
  <2> HIDE DEF c
  <2>5. Control(c, given.queue)
    BY <2>1, <2>3 DEF Control, MailAt, QueueAt
  <2>6. Copied(c, given.queue, heard) /\ c.at \notin QueueAt /\ ~Due(c)
    BY <2>3 DEF Copied, MailAt, QueueAt, Due
  <2>7. Told(c, heard)
    BY <2>3, CallIs DEF CallOK, Told
  <2>8. Answering(c) => Bound(c.req, c.about)
    BY <2>3 DEF Answering, Bound
  <2>9. CallOK(c, given.queue, heard)
    BY <2>2, <2>5, <2>6, <2>7 DEF CallOK
  <2> QED BY <1>1, <1>2, <2>4, <2>6, <2>8, <2>9, ReadStep DEF Sound
<1> QED BY <1>1, <1>3, <1>4

LEMMA MarkQueueSound ==
  ASSUME Sound, NEW p \in Procs, MarkQueue(p)
  PROVE  Sound'
<1>1. /\ call[p].at = "mark_queue" /\ QueueRaced(p)
      /\ UNCHANGED <<mailbox, queue, given, heard, faults, raised>>
  BY DEF MarkQueue
<1>2. races' \in Nat
  BY <1>1, RacedIs
<1>3. CASE ~ \E r \in Entries(queue) : r.id = call[p].req /\ CanTransition(r.status, call[p].to)
  <2>1. call' = [call EXCEPT ![p] = NoCall]
    BY <1>3 DEF MarkQueue, Return, Continue
  <2> QED BY <1>1, <1>2, <2>1, ReturnSound DEF Sound
<1>4. CASE \E r \in Entries(queue) : r.id = call[p].req /\ CanTransition(r.status, call[p].to)
  <2> DEFINE l == Moved(queue, call[p].req, call[p].to)
             c == [NoCall EXCEPT !.at = "open_queue", !.copy = l]
  <2>1. Movable(AsRead(queue), call[p].req, call[p].to)
    BY <1>4 DEF Movable, Entries
  <2>2. /\ call[p].to \in {"pending", "notified", "failed"}
        /\ call[p].to = "notified" => <<call[p].req, TRUE>> \in heard
        /\ call[p].to = "failed" => <<call[p].req, FALSE>> \in heard
    BY CallIs DEF CallOK, Calls, Told
  <2>3. /\ QueueOK(l, given.queue, heard) /\ DOMAIN l = DOMAIN AsRead(queue)
        /\ \A k \in DOMAIN l : l[k].id = AsRead(queue)[k].id /\ l[k].about = AsRead(queue)[k].about
    <3>1. QueueOK(AsRead(queue), given.queue, heard)
      BY CallIs
    <3>2. QueueOK(l, given.queue, heard) /\ MovedIs(l, AsRead(queue), call[p].req, call[p].to)
      BY <2>1, <2>2, <3>1, MoveQueueOK
    <3> QED BY <3>2 DEF MovedIs
  <2>4. call' = [call EXCEPT ![p] = c]
    BY <1>4 DEF MarkQueue, Continue
  <2> HIDE DEF l
  <2>5. c \in Calls
    BY <2>3, CallIs, NoCallOK, Stages, ListsAre DEF Calls
  <2>6. c.copy = l /\ ~Answering(c) /\ ~Due(c) /\ Told(c, heard)
    BY DEF NoCall, Answering, Due, Told
  <2>7. Control(c, given.queue)
    BY CallIs DEF NoCall, Control, MailAt, QueueAt
  <2>8. Copied(c, given.queue, heard)
    BY <2>3 DEF NoCall, Copied, MailAt, QueueAt
  <2> HIDE DEF c
  <2>9. CallOK(c, given.queue, heard)
    BY <2>5, <2>6, <2>7, <2>8 DEF CallOK
  <2>10. \A k \in DOMAIN c.copy : Bound(c.copy[k].id, c.copy[k].about)
    BY <2>3, <2>6 DEF Bound, Entries
  <2> QED BY <1>1, <1>2, <2>4, <2>6, <2>9, <2>10, ReadStep DEF Sound
<1> QED BY <1>3, <1>4

LEMMA OpenSound ==
  ASSUME Sound, NEW p \in Procs, Open(p)
  PROVE  Sound'
<1>1. PICK at \in {"write_mail", "write_queue"} :
        /\ call' = [call EXCEPT ![p] = [call[p] EXCEPT !.at = at]]
        /\ \/ at = "write_mail" /\ call[p].at = "open_mail" /\ mailbox' = Torn /\ queue' = queue
           \/ at = "write_queue" /\ call[p].at = "open_queue" /\ queue' = Torn
              /\ mailbox' = mailbox
        /\ UNCHANGED <<given, heard, facts, races, faults, raised>>
  BY DEF Open, Continue
<1> DEFINE c == [call[p] EXCEPT !.at = at]
<1>2. c \in Calls
  BY CallIs, Stages DEF Calls
<1>3. /\ c.at = at /\ c.then = call[p].then /\ c.copy = call[p].copy
      /\ c.req = call[p].req /\ c.about = call[p].about /\ c.to = call[p].to
  BY CallIs DEF Calls
<1> HIDE DEF c
<1>4. CallOK(c, given.queue, heard)
  <2>1. CallOK(call[p], given.queue, heard)
    BY CallIs
  <2>2. Control(c, given.queue)
    BY <1>1, <1>3, <2>1 DEF CallOK, Control, MailAt, QueueAt
  <2>3. Copied(c, given.queue, heard)
    BY <1>1, <1>3, <2>1 DEF CallOK, Copied, MailAt, QueueAt
  <2>4. Told(c, heard)
    BY <1>3, <2>1 DEF CallOK, Told
  <2> QED BY <1>2, <2>2, <2>3, <2>4 DEF CallOK
<1>5. Room'
  <2>1. Due(c) => Due(call[p])
    BY <1>1, <1>3 DEF Due
  <2> QED BY <1>1, <2>1, RoomKept DEF c
<1>6. OneTopic'
  <2>1. \A r \in Entries(queue') : Bound(r.id, r.about)
    <3>1. CASE queue' = Torn
      BY <3>1, NothingRead DEF Entries
    <3>2. CASE queue' = queue
      <4>1. Entries(queue') = Entries(queue)
        BY <3>2
      <4> QED BY <4>1, EntryIs
    <3> QED BY <1>1, <3>1, <3>2
  <2>2. c.at \in QueueAt => \A k \in DOMAIN c.copy : Bound(c.copy[k].id, c.copy[k].about)
    BY <1>1, <1>3 DEF QueueAt, HasQueue, Bound
  <2>3. Answering(c) => Bound(c.req, c.about)
    BY <1>1, <1>3 DEF Answering, Bound
  <2> QED BY <1>1, <2>1, <2>2, <2>3, TopicKept DEF c
<1>7. /\ mailbox' = Torn \/ MailOK(mailbox')
      /\ queue' \in {Torn, Bare} \/ QueueOK(queue', given'.queue, heard')
  BY <1>1 DEF Sound
<1>8. given.queue <= given'.queue /\ CallOK(c, given'.queue, heard')
  <2>1. given'.queue = given.queue /\ heard' = heard
    BY <1>1
  <2>2. given.queue \in Nat
    BY CallIs
  <2>3. given.queue <= given'.queue
    <3>1. given.queue <= given.queue
      BY <2>2
    <3> QED BY <2>1, <3>1, Zenon
  <2>4. CallOK(c, given'.queue, heard')
    BY <1>4, <2>1
  <2> QED BY <2>3, <2>4
<1>9. /\ given' \in [mail : 0 .. MaxMessages, queue : 0 .. MaxRequests]
      /\ heard \subseteq heard' /\ heard' \subseteq RequestIds \X BOOLEAN
      /\ races' \in Nat /\ faults' \in 0 .. MaxFaults /\ raised' \in BOOLEAN
  BY <1>1 DEF Sound
<1> QED BY <1>1, <1>5, <1>6, <1>7, <1>8, <1>9, SoundKept DEF c

\* a file becomes a call's copy of it
LEMMA WroteSound ==
  ASSUME Sound, NEW p \in Procs, NEW c, call' = [call EXCEPT ![p] = c],
         \/ call[p].at = "write_mail" /\ mailbox' = call[p].copy /\ queue' = queue
         \/ call[p].at = "write_queue" /\ queue' = call[p].copy /\ mailbox' = mailbox,
         UNCHANGED <<given, heard, races, faults, raised>>,
         call[p].at = "write_mail" => MailOK(call[p].copy),
         call[p].at = "write_queue" => QueueOK(call[p].copy, given.queue, heard),
         CallOK(c, given.queue, heard), c.at \notin QueueAt,
         Due(c) => Due(call[p]), Answering(c) => Bound(c.req, c.about)
  PROVE  Sound'
<1>1. Room'
  BY RoomKept
<1>2. OneTopic'
  <2>1. \A r \in Entries(queue') : Bound(r.id, r.about)
    <3>1. CASE queue' = queue
      BY <3>1 DEF Bound
    <3>2. CASE call[p].at = "write_queue" /\ queue' = call[p].copy
      <4>1. AsRead(queue') = call[p].copy
        BY <3>2, WholeQueue DEF QueueOK
      <4> QED BY <3>2, <4>1 DEF Entries, Bound, HasQueue
    <3> QED BY <3>1, <3>2
  <2> QED BY <2>1, TopicKept
<1>3. /\ mailbox' = Torn \/ MailOK(mailbox')
      /\ queue' \in {Torn, Bare} \/ QueueOK(queue', given'.queue, heard')
  BY DEF Sound
<1>4. given.queue <= given'.queue /\ CallOK(c, given'.queue, heard')
  <2>1. given'.queue = given.queue /\ heard' = heard
    OBVIOUS
  <2>2. given.queue \in Nat
    BY CallIs
  <2>3. given.queue <= given'.queue
    <3>1. given.queue <= given.queue
      BY <2>2
    <3> QED BY <2>1, <3>1, Zenon
  <2>4. CallOK(c, given'.queue, heard')
    BY <2>1
  <2> QED BY <2>3, <2>4
<1>5. /\ given' \in [mail : 0 .. MaxMessages, queue : 0 .. MaxRequests]
      /\ heard \subseteq heard' /\ heard' \subseteq RequestIds \X BOOLEAN
      /\ races' \in Nat /\ faults' \in 0 .. MaxFaults /\ raised' \in BOOLEAN
  BY DEF Sound
<1> QED BY <1>1, <1>2, <1>3, <1>4, <1>5, SoundKept

\* the call after its write: back, or at the stage it was to go on to
Returned(c) == IF c.then = "idle" THEN NoCall
            ELSE [c EXCEPT !.at = c.then, !.copy = <<>>, !.then = "idle"]

LEMMA WriteSound ==
  ASSUME Sound, NEW p \in Procs, Write(p)
  PROVE  Sound'
<1>1. /\ call' = [call EXCEPT ![p] = Returned(call[p])]
      /\ \/ call[p].at = "write_mail" /\ mailbox' = call[p].copy /\ queue' = queue
         \/ call[p].at = "write_queue" /\ queue' = call[p].copy /\ mailbox' = mailbox
      /\ UNCHANGED <<given, heard, races, faults, raised>>
  BY DEF Write, Continue, Returned
<1> DEFINE c == Returned(call[p])
<1>2. CallOK(call[p], given.queue, heard) /\ call[p] \in Calls
  BY CallIs
<1>3. /\ call[p].at = "write_mail" => MailOK(call[p].copy)
      /\ call[p].at = "write_queue" => QueueOK(call[p].copy, given.queue, heard)
  BY <1>2 DEF CallOK, Copied, MailAt, QueueAt
<1>4. CASE call[p].then = "idle"
  <2>1. c = NoCall
    BY <1>4 DEF Returned
  <2> QED BY <1>1, <1>3, <2>1, WroteSound, NoCallOK, CallIs DEF NoCall, QueueAt
<1>5. CASE call[p].then # "idle"
  <2>1. /\ c = [call[p] EXCEPT !.at = call[p].then, !.copy = <<>>, !.then = "idle"]
        /\ call[p].then \in {"list", "notify", "mark_queue"}
    BY <1>2, <1>5 DEF Returned, Calls
  <2>2. <<>> \in Lists
    BY DEF Lists
  <2>3. c \in Calls
    BY <1>2, <2>1, <2>2, Stages DEF Calls
  <2>4. /\ c.at = call[p].then /\ c.then = "idle"
        /\ c.req = call[p].req /\ c.about = call[p].about /\ c.to = call[p].to
    BY <1>2, <2>1 DEF Calls
  <2> HIDE DEF c
  <2>5. /\ c.at \notin MailAt \cup QueueAt
        /\ c.at = "list" => call[p].then = "list" /\ c.req = 0
        /\ c.at \in {"notify", "mark_queue"} => c.req # 0
        /\ c.to # "pending" => c.at = "mark_queue"
    <3>1. Control(call[p], given.queue) /\ call[p].at \in MailAt \cup QueueAt
      BY <1>1, <1>2 DEF CallOK, MailAt, QueueAt
    <3>2. call[p].then = "list" => call[p].req = 0
      BY <3>1 DEF Control
    <3>3. call[p].then \in {"notify", "mark_queue"} => call[p].req # 0
      BY <3>1 DEF Control
    <3>4. call[p].to # "pending" => call[p].then = "mark_queue"
      BY <3>1 DEF Control, MailAt, QueueAt
    <3> QED BY <2>1, <2>4, <3>2, <3>3, <3>4 DEF MailAt, QueueAt
  <2>6. c.req <= given.queue
    BY <2>4, ReqIs
  <2>7. Control(c, given.queue)
    BY <2>1, <2>4, <2>5, <2>6 DEF Control, MailAt, QueueAt
  <2>8. Copied(c, given.queue, heard)
    BY <2>5 DEF Copied
  <2>9. Told(c, heard)
    BY <1>2, <2>4 DEF CallOK, Told
  <2>10. CallOK(c, given.queue, heard)
    BY <2>3, <2>7, <2>8, <2>9 DEF CallOK
  <2>11. Due(c) => Due(call[p])
    BY <2>1, <2>4, <2>5 DEF Due
  <2>12. Answering(c) => Bound(c.req, c.about)
    BY <2>4, <2>5 DEF Answering, Bound
  <2> QED BY <1>1, <1>3, <2>5, <2>10, <2>11, <2>12, WroteSound DEF c
<1> QED BY <1>4, <1>5

-----------------------------------------------------------------------------
(* What the files record *)

LEMMA MailFactIs ==
  ASSUME NEW l
  PROVE  /\ \A f \in MailFacts(l) : f[1] \in MailKinds
         /\ \A i : <<"sent", i>> \in MailFacts(l) <=> \E e \in Entries(l) : e.id = i
         /\ \A i : <<"notified", i>> \in MailFacts(l)
                     <=> \E e \in Entries(l) : e.notified /\ e.id = i
BY DEF MailFacts, MailKinds

LEMMA QueueFactIs ==
  ASSUME NEW l
  PROVE  \A f \in QueueFacts(l) : f[1] \in QueueKinds
BY DEF QueueFacts, QueueKinds

\* a longer list, or one with more marks, records more
LEMMA MailGrows ==
  ASSUME NEW l, NEW m,
         \A e \in Entries(l) : \E f \in Entries(m) :
           /\ f.id = e.id
           /\ e.notified => f.notified
           /\ e.delivered => f.delivered
  PROVE  MailFacts(l) \subseteq MailFacts(m)
BY DEF MailFacts

LEMMA QueueGrows ==
  ASSUME NEW l, NEW m,
         \A e \in Entries(l) : \E f \in Entries(m) :
           /\ f.id = e.id
           /\ e.status # "pending" => f.status # "pending"
  PROVE  QueueFacts(l) \subseteq QueueFacts(m)
BY DEF QueueFacts

\* no race in this step: there was none before, and what was read is whole
LEMMA Unraced ==
  ASSUME Sound, NEW p \in Procs, races' = 0
  PROVE  /\ MailRaced(p) => /\ races = 0 /\ mailbox # Torn
                            /\ \A q \in Procs : q # p => ~HasMail(q)
         /\ QueueRaced(p) => /\ races = 0 /\ queue # Torn
                             /\ \A q \in Procs : q # p => ~HasQueue(q)
<1>1. races \in Nat
  BY DEF Sound
<1>2. ASSUME MailRaced(p)
      PROVE  races = 0 /\ mailbox # Torn /\ \A q \in Procs : q # p => ~HasMail(q)
  BY <1>1, <1>2 DEF MailRaced
<1>3. ASSUME QueueRaced(p)
      PROVE  races = 0 /\ queue # Torn /\ \A q \in Procs : q # p => ~HasQueue(q)
  BY <1>1, <1>3 DEF QueueRaced
<1> QED BY <1>2, <1>3

\* a step that writes nothing: its call may take a copy of a whole file, alone
LEMMA QuietKept ==
  ASSUME Sound, Quiet, NEW p \in Procs, NEW c, call' = [call EXCEPT ![p] = c],
         UNCHANGED <<mailbox, queue, facts>>,
         c.at \in MailAt =>
           /\ mailbox # Torn /\ MailFacts(mailbox) \subseteq MailFacts(c.copy)
           /\ \A q \in Procs : q # p => ~HasMail(q),
         c.at \in QueueAt =>
           /\ queue # Torn /\ QueueFacts(queue) \subseteq QueueFacts(c.copy)
           /\ \A q \in Procs : q # p => ~HasQueue(q),
         Trailing(c, facts)
  PROVE  Quiet'
<1>1. call'[p] = c /\ \A q \in Procs : q # p => call'[q] = call[q]
  BY DEF Sound
<1>2. \A q \in Procs : /\ HasMail(q)' <=> call'[q].at \in MailAt
                       /\ HasQueue(q)' <=> call'[q].at \in QueueAt
                       /\ q # p => (HasMail(q)' <=> HasMail(q)) /\ (HasQueue(q)' <=> HasQueue(q))
  BY <1>1 DEF HasMail, HasQueue, MailAt, QueueAt
<1>3. OneWriter'
  <2>1. \A q, r \in Procs : HasMail(q)' /\ HasMail(r)' => q = r
    BY <1>1, <1>2 DEF Quiet, OneWriter
  <2>2. \A q, r \in Procs : HasQueue(q)' /\ HasQueue(r)' => q = r
    BY <1>1, <1>2 DEF Quiet, OneWriter
  <2>3. \A q \in Procs : /\ call'[q].at = "open_mail" => mailbox' # Torn
                         /\ call'[q].at = "open_queue" => queue' # Torn
    BY <1>1 DEF Quiet, OneWriter, MailAt, QueueAt
  <2> QED BY <2>1, <2>2, <2>3 DEF OneWriter
<1>4. Records'
  <2>1. /\ \A f \in facts' : f[1] \in MailKinds \cup QueueKinds
        /\ mailbox' # Torn => /\ MailFacts(mailbox') \subseteq facts'
                              /\ \A f \in facts' : f[1] \in MailKinds => f \in MailFacts(mailbox')
        /\ queue' # Torn => \A f \in facts' : f[1] \in QueueKinds => f \in QueueFacts(queue')
    BY DEF Quiet, Records
  <2>2. ASSUME NEW q \in Procs, HasMail(q)', NEW f \in facts, f[1] \in MailKinds
        PROVE  f \in MailFacts(call'[q].copy)
    <3>1. CASE q = p
      BY <1>1, <1>2, <2>2, <3>1 DEF Quiet, Records
    <3>2. CASE q # p
      BY <1>1, <1>2, <2>2, <3>2 DEF Quiet, Records
    <3> QED BY <3>1, <3>2
  <2>3. ASSUME NEW q \in Procs, HasQueue(q)', NEW f \in facts, f[1] \in QueueKinds
        PROVE  f \in QueueFacts(call'[q].copy)
    <3>1. CASE q = p
      BY <1>1, <1>2, <2>3, <3>1 DEF Quiet, Records
    <3>2. CASE q # p
      BY <1>1, <1>2, <2>3, <3>2 DEF Quiet, Records
    <3> QED BY <3>1, <3>2
  <2> QED BY <2>1, <2>2, <2>3 DEF Records
<1>5. Ordered'
  <2>1. Trails(AsRead(queue'), facts')
    BY DEF Quiet, Ordered
  <2>2. \A q \in Procs : Trailing(call'[q], facts')
    BY <1>1 DEF Quiet, Ordered
  <2> QED BY <2>1, <2>2 DEF Ordered
<1> QED BY <1>3, <1>4, <1>5 DEF Quiet

\* a call with no copy that goes on, about what its message says
LEMMA PlainQuiet ==
  ASSUME Sound, Quiet, NEW p \in Procs, NEW c, call' = [call EXCEPT ![p] = c],
         UNCHANGED <<mailbox, queue, facts>>,
         c.at \notin MailAt \cup QueueAt, Trailing(c, facts)
  PROVE  Quiet'
BY QuietKept

LEMMA ReturnQuiet ==
  ASSUME Sound, Quiet, NEW p \in Procs, call' = [call EXCEPT ![p] = NoCall],
         UNCHANGED <<mailbox, queue, facts>>
  PROVE  Quiet'
<1>1. NoCall.at \notin MailAt \cup QueueAt /\ Trailing(NoCall, facts)
  BY DEF NoCall, MailAt, QueueAt, Trailing
<1> QED BY <1>1, PlainQuiet

LEMMA ResendQuiet ==
  ASSUME Sound, races = 0 => Quiet, races' = 0, NEW p \in Procs, NEW kind \in Kinds,
         NEW x \in Contents, NEW hook \in BOOLEAN, Resend(p, kind, x, hook)
  PROVE  Quiet'
<1>1. PICK m \in Unread(mailbox, x) :
        call' = [call EXCEPT ![p] = [NoCall EXCEPT !.at = "list", !.about = m.id, !.hook = hook]]
  BY DEF Resend, Continue
<1> DEFINE c == [NoCall EXCEPT !.at = "list", !.about = m.id, !.hook = hook]
<1>2. Quiet /\ mailbox # Torn /\ UNCHANGED <<mailbox, queue, facts>>
  BY Unraced DEF Resend
<1>3. <<"sent", m.id>> \in facts
  <2>1. <<"sent", m.id>> \in MailFacts(mailbox)
    BY MailFactIs DEF Unread
  <2> QED BY <1>2, <2>1 DEF Quiet, Records
<1>4. c.at = "list" /\ c.then = "idle" /\ c.about = m.id /\ c.to = "pending"
  BY DEF NoCall
<1> HIDE DEF c
<1>5. Trailing(c, facts) /\ c.at \notin MailAt \cup QueueAt
  BY <1>3, <1>4 DEF Trailing, MailAt, QueueAt
<1> QED BY <1>1, <1>2, <1>5, PlainQuiet DEF c

LEMMA SendQuiet ==
  ASSUME Sound, races = 0 => Quiet, races' = 0, NEW p \in Procs, NEW kind \in Kinds,
         NEW x \in Contents, NEW hook \in BOOLEAN, Send(p, kind, x, hook)
  PROVE  Quiet'
<1> DEFINE m == NewMessage(x)
           l == Append(AsRead(mailbox), m)
           c == [NoCall EXCEPT !.at = "open_mail", !.copy = l, !.then = After(kind),
                               !.about = given.mail + 1, !.hook = hook]
<1>1. Quiet /\ mailbox # Torn /\ \A q \in Procs : q # p => ~HasMail(q)
  BY Unraced DEF Send
<1>2. call' = [call EXCEPT ![p] = c] /\ UNCHANGED <<mailbox, queue, facts>>
  BY DEF Send, Continue
<1>3. m \in Messages /\ m.content = x /\ m.id = given.mail + 1
  BY BoundsAssumption, CallIs DEF Send, MessageIds, NewMessage, Messages
<1>4. /\ MailOK(l) /\ m \in Entries(l)
      /\ \A e \in Entries(AsRead(mailbox)) : e \in Entries(l)
  <2> HIDE DEF m
  <2>1. \A k \in DOMAIN AsRead(mailbox) :
          AsRead(mailbox)[k].content = x => AsRead(mailbox)[k].delivered
    BY DEF Send, Unread, Entries
  <2>2. MailOK(AsRead(mailbox))
    BY CallIs
  <2>3. /\ MailOK(l)
        /\ \A k \in DOMAIN AsRead(mailbox) : k \in DOMAIN l /\ l[k] = AsRead(mailbox)[k]
        /\ Len(AsRead(mailbox)) + 1 \in DOMAIN l /\ l[Len(AsRead(mailbox)) + 1] = m
    BY <1>3, <2>1, <2>2, AppendMail
  <2> HIDE DEF l
  <2>4. AsRead(l) = l /\ AsRead(AsRead(mailbox)) = AsRead(mailbox)
    BY <2>2, <2>3, WholeMail DEF MailOK
  <2> QED BY <2>3, <2>4 DEF Entries
<1>5. MailFacts(mailbox) \subseteq MailFacts(l)
  <2>1. Entries(AsRead(mailbox)) = Entries(mailbox)
    BY CallIs, WholeMail DEF Entries, MailOK
  <2> HIDE DEF l
  <2> QED BY <1>4, <2>1, MailGrows
<1>6. <<"sent", given.mail + 1>> \in MailFacts(l)
  <2> HIDE DEF l, m
  <2> QED BY <1>3, <1>4, MailFactIs
<1> HIDE DEF l, m
<1>7. /\ c.at = "open_mail" /\ c.copy = l /\ c.about = given.mail + 1 /\ c.to = "pending"
      /\ c.then \in {"idle", "list"}
  BY DEF NoCall, After
<1> HIDE DEF c
<1>8. Trailing(c, facts)
  BY <1>6, <1>7 DEF Trailing, MailAt, QueueAt
<1>9. c.at \notin QueueAt
  BY <1>7 DEF QueueAt
<1> QED BY <1>1, <1>2, <1>5, <1>7, <1>8, <1>9, QuietKept

LEMMA InstructQuiet ==
  ASSUME Sound, races = 0 => Quiet, races' = 0, NEW p \in Procs, NEW hook \in BOOLEAN,
         Instruct(p, hook)
  PROVE  Quiet'
<1> DEFINE c == [NoCall EXCEPT !.at = "list", !.hook = hook]
<1>1. Quiet /\ call' = [call EXCEPT ![p] = c] /\ UNCHANGED <<mailbox, queue, facts>>
  BY DEF Instruct, Continue
<1>2. Trailing(c, facts) /\ c.at \notin MailAt \cup QueueAt
  BY DEF NoCall, Trailing, MailAt, QueueAt
<1> QED BY <1>1, <1>2, PlainQuiet

LEMMA BumpQuiet ==
  ASSUME Sound, races = 0 => Quiet, races' = 0, NEW p \in Procs, NEW r \in RequestIds,
         Bump(p, r)
  PROVE  Quiet'
<1> DEFINE c == [NoCall EXCEPT !.at = "mark_queue", !.req = r]
<1>1. Quiet /\ call' = [call EXCEPT ![p] = c] /\ UNCHANGED <<mailbox, queue, facts>>
  BY DEF Bump, Continue
<1>2. Trailing(c, facts) /\ c.at \notin MailAt \cup QueueAt
  BY DEF NoCall, Trailing, MailAt, QueueAt
<1> QED BY <1>1, <1>2, PlainQuiet

\* marking a message loses nothing and records the mark
LEMMA MarkedRecords ==
  ASSUME Sound, NEW i, NEW field \in {"notified", "delivered"}
  PROVE  /\ MailFacts(mailbox) \subseteq MailFacts(Marked(mailbox, i, field))
         /\ i \in IdsIn(mailbox) /\ field = "notified" =>
              /\ <<"sent", i>> \in MailFacts(Marked(mailbox, i, field))
              /\ <<"notified", i>> \in MailFacts(Marked(mailbox, i, field))
<1> DEFINE l == AsRead(mailbox)
           m == Marked(mailbox, i, field)
<1>1. /\ MailOK(m) /\ DOMAIN m = DOMAIN l
      /\ \A k \in DOMAIN l :
           /\ m[k].id = l[k].id
           /\ l[k].notified => m[k].notified
           /\ l[k].delivered => m[k].delivered
           /\ l[k].id = i => m[k][field]
  <2>1. MailOK(l)
    BY MailRead DEF Sound
  <2>2. MailOK(m) /\ MarkedAs(m, l, i, field)
    BY <2>1, MarkMailOK
  <2> HIDE DEF m
  <2> QED BY <2>2 DEF MarkedAs
<1> HIDE DEF m
<1>2. AsRead(m) = m
  BY <1>1, WholeMail DEF MailOK
<1>3. /\ Entries(m) = {m[k] : k \in DOMAIN l}
      /\ Entries(mailbox) = {l[k] : k \in DOMAIN l}
  BY <1>1, <1>2 DEF Entries
<1>4. MailFacts(mailbox) \subseteq MailFacts(m)
  <2>1. \A e \in Entries(mailbox) : \E f \in Entries(m) :
          /\ f.id = e.id
          /\ e.notified => f.notified
          /\ e.delivered => f.delivered
    BY <1>1, <1>3
  <2> QED BY <2>1, MailGrows
<1>5. ASSUME i \in IdsIn(mailbox), field = "notified"
      PROVE  <<"sent", i>> \in MailFacts(m) /\ <<"notified", i>> \in MailFacts(m)
  <2>1. PICK k \in DOMAIN l : l[k].id = i
    BY <1>3, <1>5 DEF IdsIn
  <2>2. m[k] \in Entries(m) /\ m[k].id = i /\ m[k].notified
    BY <1>1, <1>3, <1>5, <2>1
  <2> QED BY <2>2, MailFactIs
<1> QED BY <1>4, <1>5 DEF m

LEMMA MarkQuiet ==
  ASSUME Sound, races = 0 => Quiet, races' = 0, NEW p \in Procs, NEW m \in MessageIds,
         NEW field \in {"notified", "delivered"}, Mark(p, m, field)
  PROVE  Quiet'
<1>1. /\ Quiet /\ mailbox # Torn /\ \A q \in Procs : q # p => ~HasMail(q)
      /\ UNCHANGED <<mailbox, queue, facts>>
  BY Unraced DEF Mark
<1>2. CASE m \in IdsIn(mailbox)
  <2> DEFINE l == Marked(mailbox, m, field)
             c == [NoCall EXCEPT !.at = "open_mail", !.copy = l]
  <2>1. call' = [call EXCEPT ![p] = c]
    BY <1>2 DEF Mark, Continue
  <2>2. MailFacts(mailbox) \subseteq MailFacts(l)
    BY MarkedRecords
  <2> HIDE DEF l
  <2>3. c.at = "open_mail" /\ c.copy = l /\ c.then = "idle" /\ c.to = "pending"
    BY DEF NoCall
  <2> HIDE DEF c
  <2>4. Trailing(c, facts) /\ c.at \notin QueueAt
    BY <2>3 DEF Trailing, MailAt, QueueAt
  <2> QED BY <1>1, <2>1, <2>2, <2>3, <2>4, QuietKept
<1>3. CASE m \notin IdsIn(mailbox)
  BY <1>1, <1>3, ReturnQuiet DEF Mark, Return, Continue
<1> QED BY <1>2, <1>3

\* a call that has gone on past its message has the message recorded
LEMMA SentIs ==
  ASSUME Quiet, NEW p \in Procs, call[p].at \notin MailAt \cup {"idle"}, call[p].about # Inbox
  PROVE  <<"sent", call[p].about>> \in facts
<1>1. Trailing(call[p], facts)
  BY DEF Quiet, Ordered
<1> QED BY <1>1, Zenon DEF Trailing

LEMMA ListQuiet ==
  ASSUME Sound, races = 0 => Quiet, races' = 0, NEW p \in Procs, List(p)
  PROVE  Quiet'
<1> DEFINE c == [call[p] EXCEPT !.at = "enqueue", !.before = IdsIn(queue)]
<1>1. /\ Quiet /\ call[p].at = "list" /\ call' = [call EXCEPT ![p] = c]
      /\ UNCHANGED <<mailbox, queue, facts>>
  BY Unraced DEF List, Continue
<1>2. c.about # Inbox => <<"sent", c.about>> \in facts
  BY <1>1, SentIs, CallIs DEF Calls, MailAt
<1>3. call[p].then = "idle" /\ call[p].to = "pending"
  BY <1>1, BetweenFiles DEF MailAt, QueueAt
<1>4. c.at = "enqueue" /\ c.then = "idle" /\ c.to = "pending"
  BY <1>3, CallIs DEF Calls
<1> HIDE DEF c
<1>5. Trailing(c, facts) /\ c.at \notin MailAt \cup QueueAt
  BY <1>2, <1>4 DEF Trailing, MailAt, QueueAt
<1> QED BY <1>1, <1>5, PlainQuiet DEF c

LEMMA JoinQuiet ==
  ASSUME Sound, races = 0 => Quiet, races' = 0, NEW p \in Procs, Join(p)
  PROVE  Quiet'
<1>1. PICK r \in Waiting(queue, call[p].about) :
        IF r.id \in call[p].before
          THEN Return(p)
          ELSE Continue(p, [call[p] EXCEPT !.at = "notify", !.req = r.id, !.before = {}])
  BY DEF Join
<1>2. Quiet /\ call[p].at = "enqueue" /\ UNCHANGED <<mailbox, queue, facts>>
  BY Unraced DEF Join
<1>3. CASE r.id \in call[p].before
  BY <1>1, <1>2, <1>3, ReturnQuiet DEF Return, Continue
<1>4. CASE r.id \notin call[p].before
  <2> DEFINE c == [call[p] EXCEPT !.at = "notify", !.req = r.id, !.before = {}]
  <2>1. call' = [call EXCEPT ![p] = c]
    BY <1>1, <1>4 DEF Continue
  <2>2. c.about # Inbox => <<"sent", c.about>> \in facts
    BY <1>2, SentIs, CallIs DEF Calls, MailAt
  <2>3. call[p].then = "idle" /\ call[p].to = "pending"
    BY <1>2, BetweenFiles DEF MailAt, QueueAt
  <2>4. c.at = "notify" /\ c.then = "idle" /\ c.to = "pending"
    BY <2>3, CallIs DEF Calls
  <2> HIDE DEF c
  <2>5. Trailing(c, facts) /\ c.at \notin MailAt \cup QueueAt
    BY <2>2, <2>4 DEF Trailing, MailAt, QueueAt
  <2> QED BY <1>2, <2>1, <2>5, PlainQuiet
<1> QED BY <1>3, <1>4

LEMMA RaiseQuiet ==
  ASSUME Sound, races = 0 => Quiet, races' = 0, NEW p \in Procs, Raise(p)
  PROVE  Quiet'
BY ReturnQuiet DEF Raise, Return, Continue

LEMMA CrashQuiet ==
  ASSUME Sound, races = 0 => Quiet, races' = 0, NEW p \in Procs, Crash(p)
  PROVE  Quiet'
BY ReturnQuiet DEF Crash, Return, Continue

LEMMA EnqueueQuiet ==
  ASSUME Sound, races = 0 => Quiet, races' = 0, NEW p \in Procs, Enqueue(p)
  PROVE  Quiet'
<1> DEFINE n == given.queue
           r == [id |-> n + 1, about |-> call[p].about, hook |-> call[p].hook,
                 status |-> "pending"]
           l == Append(AsRead(queue), r)
           c == [call[p] EXCEPT !.at = "open_queue", !.then = "notify", !.req = n + 1,
                                !.before = {}, !.copy = l]
<1>1. /\ Quiet /\ call[p].at = "enqueue" /\ call' = [call EXCEPT ![p] = c]
      /\ UNCHANGED <<mailbox, queue, facts>>
      /\ queue # Torn /\ \A q \in Procs : q # p => ~HasQueue(q)
  BY Unraced DEF Enqueue, Continue
<1>2. r.about # Inbox => <<"sent", r.about>> \in facts
  BY <1>1, SentIs DEF MailAt
<1>3. QueueOK(AsRead(queue), n, heard) /\ AsRead(queue) \in Seq(Requests)
  BY CallIs DEF QueueOK
<1>4. /\ DOMAIN l = DOMAIN AsRead(queue) \cup {Len(AsRead(queue)) + 1}
      /\ \A k \in DOMAIN AsRead(queue) : l[k] = AsRead(queue)[k]
      /\ l[Len(AsRead(queue)) + 1] = r
  <2> HIDE DEF r
  <2> QED BY <1>3
<1>5. l \in Seq(Requests)
  <2>1. Sound'
    BY EnqueueSound
  <2>2. call'[p] = c /\ call'[p] \in Calls /\ Copied(call'[p], given'.queue, heard')
    BY <1>1, <2>1 DEF Sound, CallOK
  <2>3. c.at = "open_queue" /\ c.copy = l
    BY CallIs DEF Calls
  <2> QED BY <2>2, <2>3 DEF Copied, QueueAt, QueueOK
<1>6. r.status = "pending"
  OBVIOUS
<1> HIDE DEF r, l
<1>7. Trails(l, facts)
  <2>1. Trails(AsRead(queue), facts)
    BY <1>1 DEF Quiet, Ordered
  <2> SUFFICES ASSUME NEW k \in DOMAIN l, l[k].about # Inbox
               PROVE  /\ <<"sent", l[k].about>> \in facts
                      /\ l[k].status = "notified" => <<"notified", l[k].about>> \in facts
    BY DEF Trails
  <2>2. CASE k \in DOMAIN AsRead(queue)
    <3>1. l[k] = AsRead(queue)[k]
      BY <1>4, <2>2
    <3> QED BY <2>1, <2>2, <3>1 DEF Trails
  <2>3. CASE k = Len(AsRead(queue)) + 1
    BY <1>2, <1>4, <1>6, <2>3
  <2> QED BY <1>4, <2>2, <2>3
<1>8. QueueFacts(queue) \subseteq QueueFacts(l)
  <2>1. AsRead(l) = l
    BY <1>5, WholeQueue
  <2>2. \A e \in Entries(queue) : e \in Entries(l)
    BY <1>4, <2>1 DEF Entries
  <2> QED BY <2>2, QueueGrows
<1>9. call[p].then = "idle" /\ call[p].to = "pending"
  BY <1>1, BetweenFiles DEF MailAt, QueueAt
<1>10. c.at = "open_queue" /\ c.then = "notify" /\ c.to = "pending" /\ c.copy = l
       /\ c.about = call[p].about
  BY <1>9, CallIs DEF Calls
<1>11. call[p].about # Inbox => <<"sent", call[p].about>> \in facts
  BY <1>1, SentIs DEF MailAt
<1> HIDE DEF c
<1>12. Trailing(c, facts) /\ c.at \notin MailAt
  BY <1>7, <1>10, <1>11 DEF Trailing, MailAt, QueueAt
<1> QED BY <1>1, <1>8, <1>10, <1>12, QuietKept

LEMMA NotifyQuiet ==
  ASSUME Sound, races = 0 => Quiet, races' = 0, NEW p \in Procs,
         NEW outcome \in {"queued", "confirmed", "failed"}, Notify(p, outcome)
  PROVE  Quiet'
<1> DEFINE c == IF outcome = "confirmed"
                  THEN [call[p] EXCEPT !.to = "notified", !.hook = FALSE,
                          !.at = IF call[p].about = Inbox THEN "mark_queue" ELSE "mark_mail"]
                  ELSE [call[p] EXCEPT !.to = "failed", !.hook = FALSE, !.at = "check"]
<1>1. /\ Quiet /\ call[p].at = "notify" /\ call' = [call EXCEPT ![p] = c]
      /\ UNCHANGED <<mailbox, queue, facts>>
  BY DEF Notify, Continue, IsConfirmed
<1>2. call[p].then = "idle" /\ (call[p].about # Inbox => <<"sent", call[p].about>> \in facts)
  BY <1>1, SentIs, BetweenFiles DEF MailAt, QueueAt
<1>3. /\ c.then = "idle" /\ c.about = call[p].about
      /\ \/ c.at = "mark_queue" /\ c.to = "notified" /\ c.about = Inbox
         \/ c.at = "mark_mail" /\ c.to = "notified" /\ c.about # Inbox
         \/ c.at = "check" /\ c.to = "failed"
  BY <1>2, CallIs DEF Calls
<1> HIDE DEF c
<1>4. Trailing(c, facts) /\ c.at \notin MailAt \cup QueueAt
  BY <1>2, <1>3 DEF Trailing, MailAt, QueueAt
<1> QED BY <1>1, <1>4, PlainQuiet

\* the message is in the mailbox, and is marked
LEMMA MarkMailQuiet ==
  ASSUME Sound, races = 0 => Quiet, races' = 0, NEW p \in Procs, MarkMail(p)
  PROVE  Quiet'
<1> DEFINE l == Marked(mailbox, call[p].about, "notified")
           c == [call[p] EXCEPT !.at = "open_mail", !.then = "mark_queue", !.copy = l]
<1>1. /\ Quiet /\ call[p].at = "mark_mail" /\ UNCHANGED <<mailbox, queue, facts>>
      /\ mailbox # Torn /\ \A q \in Procs : q # p => ~HasMail(q)
  BY Unraced DEF MarkMail
<1>2. Trailing(call[p], facts)
  BY <1>1 DEF Quiet, Ordered
<1>3. call[p].to = "notified" /\ call[p].about # Inbox
  BY <1>1, <1>2, Zenon DEF Trailing
<1>4. call[p].about \in IdsIn(mailbox)
  <2>1. <<"sent", call[p].about>> \in facts
    BY <1>1, <1>3, SentIs DEF MailAt
  <2>2. <<"sent", call[p].about>> \in MailFacts(mailbox)
    BY <1>1, <2>1 DEF Quiet, Records, MailKinds
  <2> QED BY <2>2, MailFactIs DEF IdsIn
<1>5. call' = [call EXCEPT ![p] = c]
  BY <1>4 DEF MarkMail, Continue
<1>6. /\ MailFacts(mailbox) \subseteq MailFacts(l)
      /\ <<"sent", call[p].about>> \in MailFacts(l)
      /\ <<"notified", call[p].about>> \in MailFacts(l)
  BY <1>4, MarkedRecords
<1> HIDE DEF l
<1>7. /\ c.at = "open_mail" /\ c.then = "mark_queue" /\ c.copy = l
      /\ c.about = call[p].about /\ c.to = call[p].to
  BY CallIs DEF Calls
<1> HIDE DEF c
<1>8. Trailing(c, facts) /\ c.at \notin QueueAt
  BY <1>3, <1>6, <1>7 DEF Trailing, MailAt, QueueAt
<1> QED BY <1>1, <1>5, <1>6, <1>7, <1>8, QuietKept

LEMMA CheckQuiet ==
  ASSUME Sound, races = 0 => Quiet, races' = 0, NEW p \in Procs, Check(p)
  PROVE  Quiet'
<1> DEFINE c == [call[p] EXCEPT !.at = "mark_queue"]
<1>1. /\ Quiet /\ call[p].at = "check" /\ UNCHANGED <<mailbox, queue, facts>>
      /\ call' = [call EXCEPT ![p] = c] \/ call' = [call EXCEPT ![p] = NoCall]
  BY Unraced DEF Check, Continue, Return
<1>2. CASE call' = [call EXCEPT ![p] = NoCall]
  BY <1>1, <1>2, ReturnQuiet
<1>3. CASE call' = [call EXCEPT ![p] = c]
  <2>1. Trailing(call[p], facts)
    BY <1>1 DEF Quiet, Ordered
  <2>2. call[p].to = "failed"
    BY <1>1, <2>1, Zenon DEF Trailing
  <2>3. call[p].then = "idle" /\ (call[p].about # Inbox => <<"sent", call[p].about>> \in facts)
    BY <1>1, SentIs, BetweenFiles DEF MailAt, QueueAt
  <2>4. c.at = "mark_queue" /\ c.then = "idle" /\ c.about = call[p].about /\ c.to = "failed"
    BY <2>2, <2>3, CallIs DEF Calls
  <2> HIDE DEF c
  <2>5. Trailing(c, facts) /\ c.at \notin MailAt \cup QueueAt
    BY <2>3, <2>4 DEF Trailing, MailAt, QueueAt
  <2> QED BY <1>1, <1>3, <2>5, PlainQuiet
<1> QED BY <1>1, <1>2, <1>3

\* the request that becomes notified is the one whose message was marked
LEMMA MarkQueueQuiet ==
  ASSUME Sound, races = 0 => Quiet, races' = 0, NEW p \in Procs, MarkQueue(p)
  PROVE  Quiet'
<1>1. /\ Quiet /\ call[p].at = "mark_queue" /\ UNCHANGED <<mailbox, queue, facts>>
      /\ queue # Torn /\ \A q \in Procs : q # p => ~HasQueue(q)
  BY Unraced DEF MarkQueue
<1>2. CASE ~ \E r \in Entries(queue) : r.id = call[p].req /\ CanTransition(r.status, call[p].to)
  BY <1>1, <1>2, ReturnQuiet DEF MarkQueue, Return, Continue
<1>3. CASE \E r \in Entries(queue) : r.id = call[p].req /\ CanTransition(r.status, call[p].to)
  <2> DEFINE l == AsRead(queue)
             m == Moved(queue, call[p].req, call[p].to)
             c == [NoCall EXCEPT !.at = "open_queue", !.copy = m]
  <2>1. call' = [call EXCEPT ![p] = c]
    BY <1>3 DEF MarkQueue, Continue
  <2>2. QueueOK(m, given.queue, heard) /\ MovedIs(m, l, call[p].req, call[p].to)
    <3>1. Movable(l, call[p].req, call[p].to)
      BY <1>3 DEF Movable, Entries
    <3>2. /\ call[p].to \in {"pending", "notified", "failed"}
          /\ call[p].to = "notified" => <<call[p].req, TRUE>> \in heard
          /\ call[p].to = "failed" => <<call[p].req, FALSE>> \in heard
      BY CallIs DEF CallOK, Calls, Told
    <3>3. QueueOK(l, given.queue, heard)
      BY CallIs
    <3> QED BY <3>1, <3>2, <3>3, MoveQueueOK
  <2>3. c.at = "open_queue" /\ c.copy = m /\ c.then = "idle" /\ c.to = "pending"
        /\ c.about = Inbox
    BY DEF NoCall
  <2> HIDE DEF m, c
  <2>4. \A k \in DOMAIN l : l[k] \in Entries(queue)
    BY DEF Entries
  <2> HIDE DEF l
  <2>5. Trails(m, facts)
    <3>1. Trails(l, facts)
      BY <1>1 DEF Quiet, Ordered, l
    <3> SUFFICES ASSUME NEW k \in DOMAIN l, m[k].about # Inbox
                 PROVE  /\ <<"sent", m[k].about>> \in facts
                        /\ m[k].status = "notified" => <<"notified", m[k].about>> \in facts
      BY <2>2 DEF Trails, MovedIs
    <3>2. /\ m[k].about = l[k].about
          /\ m[k].status # l[k].status
               => l[k].id = call[p].req /\ m[k].status = call[p].to
      BY <2>2 DEF MovedIs
    <3>3. /\ <<"sent", l[k].about>> \in facts
          /\ l[k].status = "notified" => <<"notified", l[k].about>> \in facts
      BY <3>1, <3>2 DEF Trails
    <3>4. ASSUME l[k].id = call[p].req, call[p].to = "notified"
          PROVE  <<"notified", l[k].about>> \in facts
      <4>1. /\ l[k].id \in RequestIds /\ l[k].about \in Topics /\ Bound(l[k].id, l[k].about)
        BY <2>4, EntryIs
      <4>2. Bound(call[p].req, call[p].about)
        BY <3>4 DEF Bound, Answering
      <4>3. call[p].about \in Topics
        BY CallIs DEF Calls
      <4>4. call[p].about = l[k].about
        BY <3>4, <4>1, <4>2, <4>3 DEF Sound, OneTopic
      <4>5. Trailing(call[p], facts)
        BY <1>1 DEF Quiet, Ordered
      <4>6. <<"notified", call[p].about>> \in facts
        BY <1>1, <3>2, <3>4, <4>4, <4>5 DEF Trailing
      <4> QED BY <4>4, <4>6
    <3> QED BY <3>2, <3>3, <3>4
  <2>6. QueueFacts(queue) \subseteq QueueFacts(m)
    <3>1. AsRead(m) = m
      BY <2>2, WholeQueue DEF QueueOK
    <3>2. \A e \in Entries(queue) : \E f \in Entries(m) :
            /\ f.id = e.id
            /\ e.status # "pending" => f.status # "pending"
      <4> SUFFICES ASSUME NEW k \in DOMAIN l
                   PROVE  \E f \in Entries(m) : /\ f.id = l[k].id
                                                /\ l[k].status # "pending" => f.status # "pending"
        BY DEF Entries, l
      <4>1. m[k] \in Entries(m)
        BY <2>2, <3>1 DEF Entries, MovedIs
      <4> QED BY <2>2, <4>1 DEF MovedIs
    <3> QED BY <3>2, QueueGrows
  <2>7. Trailing(c, facts) /\ c.at \notin MailAt
    BY <2>3, <2>5 DEF Trailing, MailAt, QueueAt
  <2> QED BY <1>1, <2>1, <2>3, <2>6, <2>7, QuietKept
<1> QED BY <1>2, <1>3
LEMMA OpenQuiet ==
  ASSUME Sound, races = 0 => Quiet, races' = 0, NEW p \in Procs, Open(p)
  PROVE  Quiet'
<1>1. PICK at \in {"write_mail", "write_queue"} :
        /\ call' = [call EXCEPT ![p] = [call[p] EXCEPT !.at = at]]
        /\ \/ at = "write_mail" /\ call[p].at = "open_mail" /\ mailbox' = Torn /\ queue' = queue
           \/ at = "write_queue" /\ call[p].at = "open_queue" /\ queue' = Torn
              /\ mailbox' = mailbox
        /\ facts' = facts /\ Quiet
  BY DEF Open, Continue
<1> DEFINE c == [call[p] EXCEPT !.at = at]
<1>2. /\ c.at = at /\ c.then = call[p].then /\ c.copy = call[p].copy
      /\ c.about = call[p].about /\ c.to = call[p].to
  BY CallIs DEF Calls
<1>3. call'[p] = c /\ \A q \in Procs : q # p => call'[q] = call[q]
  BY <1>1 DEF Sound
<1> HIDE DEF c
<1>4. \A q \in Procs : (HasMail(q)' <=> HasMail(q)) /\ (HasQueue(q)' <=> HasQueue(q))
  BY <1>1, <1>2, <1>3 DEF HasMail, HasQueue
<1>5. OneWriter'
  <2>1. ASSUME NEW q \in Procs
        PROVE  /\ call'[q].at = "open_mail" => mailbox' # Torn
               /\ call'[q].at = "open_queue" => queue' # Torn
    <3>1. CASE q = p
      BY <1>1, <1>2, <1>3, <3>1
    <3>2. CASE q # p
      <4>1. call'[q] = call[q]
        BY <1>3, <3>2
      <4>2. /\ call[q].at = "open_mail" => call[p].at # "open_mail" /\ mailbox # Torn
            /\ call[q].at = "open_queue" => call[p].at # "open_queue" /\ queue # Torn
        BY <1>1, <3>2 DEF Quiet, OneWriter, HasMail, HasQueue
      <4> QED BY <1>1, <4>1, <4>2
    <3> QED BY <3>1, <3>2
  <2> QED BY <1>1, <1>4, <2>1 DEF Quiet, OneWriter
<1>6. Records'
  <2>1. \A q \in Procs : call'[q].copy = call[q].copy
    BY <1>2, <1>3
  <2> QED BY <1>1, <1>4, <2>1 DEF Quiet, Records
<1>7. Ordered'
  <2>1. Trails(AsRead(queue'), facts')
    BY <1>1, NothingRead DEF Quiet, Ordered, Trails
  <2>2. ASSUME NEW q \in Procs PROVE Trailing(call'[q], facts')
    <3>1. Trailing(call[q], facts)
      BY <1>1 DEF Quiet, Ordered
    <3>2. CASE q = p
      BY <1>1, <1>2, <1>3, <3>1, <3>2 DEF Trailing, MailAt, QueueAt
    <3>3. CASE q # p
      BY <1>1, <1>3, <3>1, <3>3
    <3> QED BY <3>2, <3>3
  <2> QED BY <2>1, <2>2 DEF Ordered
<1> QED BY <1>5, <1>6, <1>7 DEF Quiet

\* what was recorded stays so when more is
LEMMA TrailsGrow ==
  ASSUME NEW S, NEW T, S \subseteq T
  PROVE  /\ \A l : Trails(l, S) => Trails(l, T)
         /\ \A c : Trailing(c, S) => Trailing(c, T)
<1>1. \A l : Trails(l, S) => Trails(l, T)
  BY Zenon DEF Trails
<1>2. ASSUME NEW c, Trailing(c, S) PROVE Trailing(c, T)
  BY <1>1, <1>2, Zenon DEF Trailing
<1> QED BY <1>1, <1>2

\* the stage that a call goes on to after its write
LEMMA ReturnedIs ==
  ASSUME Sound, NEW p \in Procs, call[p].at \in {"write_mail", "write_queue"}
  PROVE  /\ Returned(call[p]).at \in {"idle", "list", "notify", "mark_queue"}
         /\ Returned(call[p]).then = "idle"
         /\ call[p].then = "idle" => Returned(call[p]) = NoCall
         /\ call[p].then # "idle" =>
              /\ Returned(call[p]).at = call[p].then
              /\ Returned(call[p]).about = call[p].about
              /\ Returned(call[p]).to = call[p].to
         /\ call[p].at = "write_mail" => call[p].then \in {"idle", "list", "mark_queue"}
         /\ call[p].at = "write_queue" =>
              call[p].then \in {"idle", "notify"} /\ call[p].to = "pending"
<1>1. call[p] \in Calls /\ Control(call[p], given.queue)
  BY CallIs DEF CallOK
<1>2. CASE call[p].then = "idle"
  BY <1>1, <1>2 DEF Returned, NoCall, Control, MailAt, QueueAt
<1>3. CASE call[p].then # "idle"
  <2>1. /\ Returned(call[p]) = [call[p] EXCEPT !.at = call[p].then, !.copy = <<>>, !.then = "idle"]
        /\ call[p].then \in {"list", "notify", "mark_queue"}
    BY <1>1, <1>3 DEF Returned, Calls
  <2>2. /\ call[p].at = "write_mail" => call[p].then \in {"idle", "list", "mark_queue"}
        /\ call[p].at = "write_queue" =>
             call[p].then \in {"idle", "notify"} /\ call[p].to = "pending"
    BY <1>1, <2>1 DEF Control, MailAt, QueueAt
  <2> QED BY <1>1, <1>3, <2>1, <2>2 DEF Calls
<1> QED BY <1>2, <1>3

\* a call that has written stands where the write allows
LEMMA ReturnedTrails ==
  ASSUME Sound, Quiet, NEW p \in Procs, call[p].at \in {"write_mail", "write_queue"}, NEW S,
         facts \subseteq S, call[p].at = "write_mail" => MailFacts(call[p].copy) \subseteq S
  PROVE  Trailing(Returned(call[p]), S)
<1> DEFINE c == Returned(call[p])
<1>1. Trailing(call[p], facts)
  BY DEF Quiet, Ordered
<1>2. CASE call[p].then = "idle"
  <2>1. c = NoCall
    BY <1>2, ReturnedIs
  <2> QED BY <2>1 DEF NoCall, Trailing, MailAt, QueueAt
<1>3. CASE call[p].then # "idle"
  <2>1. /\ c.at = call[p].then /\ c.about = call[p].about /\ c.to = call[p].to /\ c.then = "idle"
        /\ c.at \in {"list", "notify", "mark_queue"}
        /\ call[p].at = "write_queue" => c.at = "notify"
    BY <1>3, ReturnedIs
  <2>2. c.about # Inbox => <<"sent", c.about>> \in S
    BY <1>1, <1>3, <2>1 DEF Trailing, MailAt, QueueAt
  <2>3. c.at = "mark_queue" => <<"notified", c.about>> \in S
    BY <1>1, <2>1 DEF Trailing
  <2> HIDE DEF c
  <2>4. Trailing(c, S)
    BY <2>1, <2>2, <2>3 DEF Trailing, MailAt, QueueAt
  <2> QED BY <2>4 DEF c
<1> QED BY <1>2, <1>3

LEMMA WriteQuiet ==
  ASSUME Sound, races = 0 => Quiet, races' = 0, NEW p \in Procs, Write(p)
  PROVE  Quiet'
<1> DEFINE c == Returned(call[p])
<1>1. /\ call' = [call EXCEPT ![p] = c] /\ Quiet
      /\ \/ /\ call[p].at = "write_mail" /\ mailbox' = call[p].copy /\ queue' = queue
            /\ facts' = facts \cup MailFacts(call[p].copy)
         \/ /\ call[p].at = "write_queue" /\ queue' = call[p].copy /\ mailbox' = mailbox
            /\ facts' = facts \cup QueueFacts(call[p].copy)
  BY DEF Write, Continue, Returned
<1>2. /\ call[p].at = "write_mail" => MailOK(call[p].copy)
      /\ call[p].at = "write_queue" => QueueOK(call[p].copy, given.queue, heard)
  BY CallIs DEF CallOK, Copied, MailAt, QueueAt
<1>3. facts \subseteq facts' /\ Trailing(c, facts') /\ c.at \notin MailAt \cup QueueAt
  <2>1. c.at \notin MailAt \cup QueueAt
    BY <1>1, ReturnedIs DEF MailAt, QueueAt
  <2>2. facts \subseteq facts' /\ (call[p].at = "write_mail" => MailFacts(call[p].copy) \subseteq facts')
    BY <1>1
  <2>3. Trailing(c, facts')
    BY <1>1, <2>2, ReturnedTrails
  <2> QED BY <2>1, <2>2, <2>3
<1>4. call'[p] = c /\ \A q \in Procs : q # p => call'[q] = call[q]
  BY <1>1 DEF Sound
<1> HIDE DEF c
<1>5. \A q \in Procs : /\ HasMail(q)' => q # p /\ HasMail(q) /\ call'[q] = call[q]
                       /\ HasQueue(q)' => q # p /\ HasQueue(q) /\ call'[q] = call[q]
  BY <1>3, <1>4 DEF HasMail, HasQueue, MailAt, QueueAt
<1>6. MailKinds \cap QueueKinds = {}
  BY DEF MailKinds, QueueKinds
<1>7. OneWriter'
  <2>1. ASSUME NEW q \in Procs
        PROVE  /\ call'[q].at = "open_mail" => mailbox' # Torn
               /\ call'[q].at = "open_queue" => queue' # Torn
    <3>1. call'[q].at \in MailAt \cup QueueAt => call'[q] = call[q]
      BY <1>3, <1>4
    <3>2. /\ call[q].at = "open_mail" => mailbox # Torn
          /\ call[q].at = "open_queue" => queue # Torn
      BY <1>1 DEF Quiet, OneWriter
    <3>3. /\ mailbox' = mailbox \/ mailbox' # Torn
          /\ queue' = queue \/ queue' # Torn
      BY <1>1, <1>2, WholeMail, WholeQueue DEF MailOK, QueueOK
    <3> QED BY <3>1, <3>2, <3>3 DEF MailAt, QueueAt
  <2> QED BY <1>1, <1>5, <2>1 DEF Quiet, OneWriter
<1>8. Trails(AsRead(queue'), facts')
  <2>1. CASE queue' = queue
    BY <1>1, <1>3, <2>1, TrailsGrow DEF Quiet, Ordered
  <2>2. CASE call[p].at = "write_queue" /\ queue' = call[p].copy
    <3>1. AsRead(queue') = call[p].copy
      BY <1>2, <2>2, WholeQueue DEF QueueOK
    <3>2. Trailing(call[p], facts)
      BY <1>1 DEF Quiet, Ordered
    <3>3. Trails(call[p].copy, facts)
      BY <2>2, <3>2 DEF Trailing, QueueAt
    <3> QED BY <1>3, <3>1, <3>3, TrailsGrow
  <2> QED BY <1>1, <2>1, <2>2
<1>9. Ordered'
  <2>1. ASSUME NEW q \in Procs PROVE Trailing(call'[q], facts')
    <3>1. CASE q = p
      BY <1>3, <1>4, <3>1
    <3>2. CASE q # p
      <4>1. Trailing(call[q], facts)
        BY <1>1 DEF Quiet, Ordered
      <4> QED BY <1>3, <1>4, <3>2, <4>1, TrailsGrow
    <3> QED BY <3>1, <3>2
  <2> QED BY <1>8, <2>1 DEF Ordered
<1>10. Records'
  <2>1. CASE /\ call[p].at = "write_mail" /\ mailbox' = call[p].copy /\ queue' = queue
             /\ facts' = facts \cup MailFacts(call[p].copy)
    <3>1. \A f \in facts' : f \in facts \/ (f \in MailFacts(call[p].copy) /\ f[1] \in MailKinds)
      BY <2>1, MailFactIs
    <3>2. HasMail(p) /\ \A q \in Procs : ~HasMail(q)'
      BY <1>1, <1>5, <2>1 DEF HasMail, Quiet, OneWriter
    <3>3. \A f \in facts' : f[1] \in MailKinds => f \in MailFacts(mailbox')
      BY <1>1, <2>1, <3>1, <3>2 DEF Quiet, Records
    <3>4. \A f \in facts' : f[1] \in QueueKinds => f \in facts
      BY <1>6, <3>1
    <3>5. \A f \in facts' : f[1] \in QueueKinds /\ queue' # Torn => f \in QueueFacts(queue')
      BY <1>1, <2>1, <3>4 DEF Quiet, Records
    <3>6. \A q \in Procs : HasQueue(q)' =>
            \A f \in facts' : f[1] \in QueueKinds => f \in QueueFacts(call'[q].copy)
      BY <1>1, <1>5, <3>4 DEF Quiet, Records
    <3>7. \A f \in facts' : f[1] \in MailKinds \cup QueueKinds
      BY <1>1, <3>1 DEF Quiet, Records
    <3> QED BY <2>1, <3>2, <3>3, <3>5, <3>6, <3>7 DEF Records
  <2>2. CASE /\ call[p].at = "write_queue" /\ queue' = call[p].copy /\ mailbox' = mailbox
             /\ facts' = facts \cup QueueFacts(call[p].copy)
    <3>1. \A f \in facts' : f \in facts \/ (f \in QueueFacts(call[p].copy) /\ f[1] \in QueueKinds)
      BY <2>2, QueueFactIs
    <3>2. HasQueue(p) /\ \A q \in Procs : ~HasQueue(q)'
      BY <1>1, <1>5, <2>2 DEF HasQueue, Quiet, OneWriter
    <3>3. \A f \in facts' : f[1] \in QueueKinds => f \in QueueFacts(queue')
      BY <1>1, <2>2, <3>1, <3>2 DEF Quiet, Records
    <3>4. \A f \in facts' : f[1] \in MailKinds => f \in facts
      BY <1>6, <3>1
    <3>5. mailbox' # Torn => /\ MailFacts(mailbox') \subseteq facts'
                             /\ \A f \in facts' : f[1] \in MailKinds => f \in MailFacts(mailbox')
      BY <1>1, <1>3, <2>2, <3>4 DEF Quiet, Records
    <3>6. \A q \in Procs : HasMail(q)' =>
            \A f \in facts' : f[1] \in MailKinds => f \in MailFacts(call'[q].copy)
      BY <1>1, <1>5, <3>4 DEF Quiet, Records
    <3>7. \A f \in facts' : f[1] \in MailKinds \cup QueueKinds
      BY <1>1, <3>1 DEF Quiet, Records
    <3> QED BY <2>2, <3>2, <3>3, <3>5, <3>6, <3>7 DEF Records
  <2> QED BY <1>1, <2>1, <2>2
<1> QED BY <1>7, <1>9, <1>10 DEF Quiet

-----------------------------------------------------------------------------
(* The invariant *)

LEMMA Start ==
  Init => IInv
<1> SUFFICES ASSUME Init PROVE IInv
  OBVIOUS
<1>1. call \in [Procs -> Calls] /\ \A p \in Procs : call[p] = NoCall
  BY NoCallOK DEF Init
<1>2. /\ mailbox = <<>> /\ queue \in {<<>>, Bare} /\ heard = {} /\ facts = {} /\ races = 0
      /\ given = [mail |-> 0, queue |-> 0] /\ given.queue = 0 /\ faults = 0 /\ raised = FALSE
  BY DEF Init
<1>3. /\ \A p \in Procs : ~HasMail(p) /\ ~HasQueue(p) /\ ~Answering(call[p]) /\ ~Due(call[p])
      /\ Entries(queue) = {} /\ Entries(mailbox) = {} /\ AsRead(queue) = <<>>
  <2>1. AsRead(queue) = <<>> /\ AsRead(mailbox) = <<>>
    BY <1>2 DEF AsRead
  <2>2. \A p \in Procs : ~HasMail(p) /\ ~HasQueue(p)
    BY <1>1 DEF HasMail, HasQueue, NoCall
  <2> QED BY <1>1, <2>1, <2>2, NoCallOK DEF Entries
<1>4. Room
  <2>1. {p \in Procs : Due(call[p])} = {}
    BY <1>3
  <2> QED BY <1>2, <2>1, FS_EmptySet, BoundsAssumption DEF Room
<1>5. OneTopic
  BY <1>3 DEF OneTopic, Bound
<1>6. Sound
  <2>1. queue \in {Torn, Bare} \/ QueueOK(queue, given.queue, heard)
    BY <1>2, EmptyOK
  <2>2. \A p \in Procs : CallOK(call[p], given.queue, heard)
    BY <1>1, <1>2, NoCallOK
  <2>3. given \in [mail : 0 .. MaxMessages, queue : 0 .. MaxRequests] /\ faults \in 0 .. MaxFaults
    BY <1>2, BoundsAssumption
  <2>4. mailbox = Torn \/ MailOK(mailbox)
    BY <1>2, EmptyOK
  <2> QED BY <1>1, <1>2, <1>4, <1>5, <2>1, <2>2, <2>3, <2>4 DEF Sound
<1>7. Quiet
  <2>1. OneWriter
    BY <1>1, <1>3 DEF OneWriter, NoCall
  <2>2. Records
    BY <1>2, <1>3 DEF Records, MailFacts
  <2>3. Ordered
    BY <1>1, <1>3 DEF Ordered, Trails, Trailing, NoCall, MailAt, QueueAt
  <2> QED BY <2>1, <2>2, <2>3 DEF Quiet
<1> QED BY <1>6, <1>7 DEF IInv

\* what a call does next, or begins with, keeps both halves
LEMMA BeginKeeps ==
  ASSUME IInv, NEW p \in Procs, Begin(p)
  PROVE  IInv'
<1>1. Sound /\ (races = 0 => Quiet)
  BY DEF IInv
<1>2. ASSUME NEW kind \in Kinds, NEW x \in Contents, NEW hook \in BOOLEAN, Send(p, kind, x, hook)
      PROVE  IInv'
  BY <1>1, <1>2, SendSound, SendQuiet DEF IInv
<1>3. ASSUME NEW kind \in Kinds, NEW x \in Contents, NEW hook \in BOOLEAN,
             Resend(p, kind, x, hook)
      PROVE  IInv'
  BY <1>1, <1>3, ResendSound, ResendQuiet DEF IInv
<1>4. ASSUME NEW hook \in BOOLEAN, Instruct(p, hook) PROVE IInv'
  BY <1>1, <1>4, InstructSound, InstructQuiet DEF IInv
<1>5. ASSUME NEW r \in RequestIds, Bump(p, r) PROVE IInv'
  BY <1>1, <1>5, BumpSound, BumpQuiet DEF IInv
<1>6. ASSUME NEW m \in MessageIds, NEW field \in {"notified", "delivered"}, Mark(p, m, field)
      PROVE  IInv'
  BY <1>1, <1>6, MarkSound, MarkQuiet DEF IInv
<1> QED BY <1>2, <1>3, <1>4, <1>5, <1>6 DEF Begin

LEMMA StepKeeps ==
  ASSUME IInv, NEW p \in Procs, Step(p)
  PROVE  IInv'
<1>1. Sound /\ (races = 0 => Quiet)
  BY DEF IInv
<1>2. CASE List(p)
  BY <1>1, <1>2, ListSound, ListQuiet DEF IInv
<1>3. CASE Raise(p)
  BY <1>1, <1>3, RaiseSound, RaiseQuiet DEF IInv
<1>4. CASE Join(p)
  BY <1>1, <1>4, JoinSound, JoinQuiet DEF IInv
<1>5. CASE Enqueue(p)
  BY <1>1, <1>5, EnqueueSound, EnqueueQuiet DEF IInv
<1>6. ASSUME NEW outcome \in {"queued", "confirmed", "failed"}, Notify(p, outcome)
      PROVE  IInv'
  BY <1>1, <1>6, NotifySound, NotifyQuiet DEF IInv
<1>7. CASE MarkMail(p)
  BY <1>1, <1>7, MarkMailSound, MarkMailQuiet DEF IInv
<1>8. CASE Check(p)
  BY <1>1, <1>8, CheckSound, CheckQuiet DEF IInv
<1>9. CASE MarkQueue(p)
  BY <1>1, <1>9, MarkQueueSound, MarkQueueQuiet DEF IInv
<1>10. CASE Open(p)
  BY <1>1, <1>10, OpenSound, OpenQuiet DEF IInv
<1>11. CASE Write(p)
  BY <1>1, <1>11, WriteSound, WriteQuiet DEF IInv
<1> QED BY <1>2, <1>3, <1>4, <1>5, <1>6, <1>7, <1>8, <1>9, <1>10, <1>11 DEF Step

LEMMA CrashKeeps ==
  ASSUME IInv, NEW p \in Procs, Crash(p)
  PROVE  IInv'
BY CrashSound, CrashQuiet DEF IInv

LEMMA NextKeeps ==
  IInv /\ [Next]_vars => IInv'
<1>1. ASSUME IInv, Next PROVE IInv'
  BY <1>1, BeginKeeps, StepKeeps, CrashKeeps DEF Next
<1>2. ASSUME IInv, UNCHANGED vars PROVE IInv'
  BY <1>2 DEF vars, IInv, Sound, Room, OneTopic, Bound, Quiet, OneWriter, Records, Ordered,
              HasMail, HasQueue
<1> QED BY <1>1, <1>2

\* However the calls interleave, whatever is killed and whatever file is torn, every copy
\* and file is sound; and until a read meets another call's write, each file has one
\* writer, loses nothing and keeps its place behind the other.
THEOREM MessagingInvariant == Spec => []IInv
BY Start, NextKeeps, PTL DEF Spec

LEMMA HasTypes ==
  IInv => TypeOK
<1> SUFFICES ASSUME IInv PROVE TypeOK
  OBVIOUS
<1>1. Sound
  BY DEF IInv
<1>2. mailbox = Torn \/ Entries(mailbox) \subseteq Messages
  BY <1>1, MailEntryIs
<1>3. queue \in {Torn, Bare} \/ Entries(queue) \subseteq Requests
  BY <1>1, EntryIs
<1>4. ASSUME NEW p \in Procs
      PROVE  /\ call[p].at \in Locations /\ call[p].then \in Locations
             /\ call[p].about \in Topics /\ call[p].hook \in BOOLEAN
             /\ call[p].before \subseteq RequestIds
             /\ call[p].req \in RequestIds \cup {0} /\ call[p].to \in Statuses
             /\ HasMail(p) => Range(call[p].copy) \subseteq Messages
             /\ HasQueue(p) => Range(call[p].copy) \subseteq Requests
  <2>1. call[p] \in Calls /\ CallOK(call[p], given.queue, heard)
    BY <1>1, CallIs
  <2>2. /\ call[p].at \in Locations /\ call[p].then \in Locations
        /\ call[p].about \in Topics /\ call[p].hook \in BOOLEAN
        /\ call[p].before \subseteq RequestIds
        /\ call[p].req \in RequestIds \cup {0} /\ call[p].to \in Statuses
    BY <2>1, Stages DEF Calls, Statuses
  <2>3. HasMail(p) => Range(call[p].copy) \subseteq Messages
    BY <2>1 DEF CallOK, Copied, HasMail, MailAt, MailOK, Range
  <2>4. HasQueue(p) => Range(call[p].copy) \subseteq Requests
    BY <2>1 DEF CallOK, Copied, HasQueue, QueueAt, QueueOK, Range
  <2> QED BY <2>2, <2>3, <2>4
<1> QED BY <1>1, <1>2, <1>3, <1>4 DEF Sound, TypeOK

\* Every message, request and call keeps its type, and no identifier is drawn beyond the
\* bounds: the calls that have yet to queue a request are counted when they begin.
THEOREM MessagingTypes == Spec => []TypeOK
BY MessagingInvariant, HasTypes, PTL

LEMMA HasReceipts ==
  IInv => NoFalseReceipt
<1> SUFFICES ASSUME IInv, NEW r \in Entries(queue)
             PROVE  /\ r.status = "notified" => <<r.id, TRUE>> \in heard
                    /\ r.status = "failed" => <<r.id, FALSE>> \in heard
  BY DEF NoFalseReceipt
<1>1. QueueOK(AsRead(queue), given.queue, heard)
  BY QueueRead DEF IInv, Sound
<1>2. PICK k \in DOMAIN AsRead(queue) : r = AsRead(queue)[k]
  BY DEF Entries
<1> QED BY <1>1, <1>2, Zenon DEF QueueOK, Receipts

\* _mark_immediate_dispatch_failure, transition_dispatch_request: however many calls read
\* and overwrite requests.json at once, and whatever is torn or killed, a request reads
\* notified only after a notifier confirmed it and failed only after one did not.
THEOREM ReceiptsAreTrue == Spec => []NoFalseReceipt
BY MessagingInvariant, HasReceipts, PTL

LEMMA HasNoDuplicates ==
  IInv => NoDuplicates
<1> SUFFICES ASSUME IInv PROVE NoDuplicates
  OBVIOUS
<1>1. MailOK(AsRead(mailbox)) /\ QueueOK(AsRead(queue), given.queue, heard)
  BY MailRead, QueueRead DEF IInv, Sound
<1>2. ASSUME NEW q \in Entries(queue), NEW r \in Entries(queue),
             q.about = r.about, q.status = "pending", r.status = "pending"
      PROVE  q = r
  <2>1. PICK j, k \in DOMAIN AsRead(queue) : q = AsRead(queue)[j] /\ r = AsRead(queue)[k]
    BY DEF Entries
  <2> QED BY <1>1, <1>2, <2>1 DEF QueueOK, OnePending
<1>3. ASSUME NEW m \in Entries(mailbox), NEW n \in Entries(mailbox),
             m.content = n.content, ~m.delivered, ~n.delivered
      PROVE  m = n
  <2>1. PICK j, k \in DOMAIN AsRead(mailbox) : m = AsRead(mailbox)[j] /\ n = AsRead(mailbox)[k]
    BY DEF Entries
  <2> QED BY <1>1, <1>3, <2>1, Zenon DEF MailOK, OneUnread
<1> QED BY <1>2, <1>3, Zenon DEF NoDuplicates

\* send_direct_message, enqueue_dispatch_request: the deduplication needs no lock.  A call
\* that overwrites another's change replaces the whole list by one that is itself free of
\* duplicates, so a race loses entries and never doubles them.
THEOREM DeduplicationHolds == Spec => []NoDuplicates
BY MessagingInvariant, HasNoDuplicates, PTL

LEMMA HasOrder ==
  IInv => RequestTrailsMessage
<1> SUFFICES ASSUME IInv, races = 0, mailbox # Torn, NEW r \in Entries(queue), r.about # Inbox
             PROVE  \E m \in Entries(mailbox) :
                      m.id = r.about /\ (r.status = "notified" => m.notified)
  BY DEF RequestTrailsMessage
<1>1. Sound /\ Quiet
  BY DEF IInv
<1>2. PICK k \in DOMAIN AsRead(queue) : r = AsRead(queue)[k]
  BY DEF Entries
<1>3. Trails(AsRead(queue), facts)
  BY <1>1 DEF Quiet, Ordered
<1>4. /\ <<"sent", r.about>> \in facts
      /\ r.status = "notified" => <<"notified", r.about>> \in facts
  BY <1>2, <1>3, Zenon DEF Trails
<1>5. \A f \in facts : f[1] \in MailKinds => f \in MailFacts(mailbox)
  BY <1>1 DEF Quiet, Records
<1>6. <<"sent", r.about>> \in MailFacts(mailbox)
  BY <1>4, <1>5 DEF MailKinds
<1>7. r.status = "notified" => <<"notified", r.about>> \in MailFacts(mailbox)
  BY <1>4, <1>5 DEF MailKinds
<1>8. PICK m \in Entries(mailbox) : m.id = r.about
  BY <1>6, MailFactIs
<1>9. CASE r.status = "notified"
  <2>1. PICK n \in Entries(mailbox) : n.notified /\ n.id = r.about
    BY <1>7, <1>9, MailFactIs
  <2> QED BY <2>1
<1> QED BY <1>8, <1>9

\* notify_mailbox_message: as long as no read met another's write, the mailbox is written
\* before the queue, in both directions of the call: a request's message is there, and is
\* marked notified when the request is, whatever was killed in between.
THEOREM FilesKeepOrder == Spec => []RequestTrailsMessage
BY MessagingInvariant, HasOrder, PTL
LEMMA HasKept ==
  IInv => Kept
<1> SUFFICES ASSUME IInv, races = 0, mailbox # Torn, queue # Torn, NEW f \in facts
             PROVE  f \in MailFacts(mailbox) \/ f \in QueueFacts(queue)
  BY DEF Kept
<1>1. Records
  BY DEF IInv, Quiet
<1>2. f[1] \in MailKinds \/ f[1] \in QueueKinds
  BY <1>1 DEF Records
<1>3. f[1] \in MailKinds => f \in MailFacts(mailbox)
  BY <1>1, Zenon DEF Records
<1>4. f[1] \in QueueKinds => f \in QueueFacts(queue)
  BY <1>1, Zenon DEF Records
<1> QED BY <1>2, <1>3, <1>4

\* mark_message_notified, mark_message_delivered, transition_dispatch_request,
\* _redispatch_stale_pending: as long as no read met another's write, no completed write
\* is ever undone, by whatever calls and kills: messages, their marks, requests and the
\* fact that one is settled all stay.
THEOREM NothingIsUndone == Spec => []Kept
BY MessagingInvariant, HasKept, PTL

=============================================================================

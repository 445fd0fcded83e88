--------------------------- MODULE RuntimeBridge ---------------------------
(***************************************************************************)
(* RuntimeBridge objects of several processes over one state directory:    *)
(* each loads an engine once, keeps it in memory, and for every command    *)
(* processes, persists under the flock on engine.lock, and rewrites the    *)
(* compatibility view without it.                                          *)
(*                                                                         *)
(* write_text truncates a file and then fills it, so each file write is    *)
(* two steps; what lies between is Torn and does not parse.                *)
(***************************************************************************)
EXTENDS EngineReplay, SequencesExt

CONSTANTS
  Bridges,    \* the bridge objects, each in a process of its own
  MaxLog,     \* bound: events in one engine's log
  MaxFaults,  \* bound: crashes and failed writes
  Absent,     \* contents of a file that does not exist
  Torn,       \* contents of a file truncated or written in part
  NoEngine,   \* _engine is None
  Nobody      \* no bridge

ASSUME BridgesAssumption == Nobody \notin Bridges
ASSUME FilesAssumption ==
  Torn # Absent /\ {Torn, Absent} \cap Seq(Commands) = {}
ASSUME NoEngineAssumption ==
  NoEngine \notin [engine : EngineStates, log : Seq(Commands)]

\* persist writes the first three under the lock; write_compatibility_view the
\* rest, "dispatch.json" standing for its five files besides the mailbox
Writes == <<"snapshot.json", "events.json", "mailbox.json",
            "dispatch.json", "mailbox.json">>
PersistEnds == 3
UnderLock(p) == p <= PersistEnds
Files  == {"snapshot.json", "events.json", "mailbox.json", "dispatch.json"}

VARIABLES
  mem,      \* each bridge's _engine: its state and its event log
  pc,       \* where each bridge is in exec_command
  pos,      \* which of Writes it is at
  read,     \* the event log a load in progress has read
  files,    \* the contents of the state directory
  writer,   \* who holds engine.lock exclusively
  readers,  \* who holds it shared
  faults,   \* crashes and failed writes so far
  acked,    \* history: commands whose event was returned, by place in the log
  shared    \* history: two bridges had an engine in memory at the same time

bridgeVars == <<mem, pc, pos, read, files, writer, readers, faults, acked, shared>>

BridgeInit ==
  /\ mem = [b \in Bridges |-> NoEngine]
  /\ pc = [b \in Bridges |-> "idle"]
  /\ pos = [b \in Bridges |-> 1]
  /\ read = [b \in Bridges |-> <<>>]
  /\ files = [f \in Files |-> Absent]
  /\ writer = Nobody
  /\ readers = {}
  /\ faults = 0
  /\ acked = {}
  /\ shared = FALSE

Goto(b, l) == pc' = [pc EXCEPT ![b] = l]

Backlog(records) ==
  [s \in Statuses |-> Cardinality({i \in DOMAIN records : records[i].status = s})]

Snapshot(e) ==
  [owner |-> e.owner, stale |-> e.stale, cursor |-> e.cursor,
   backlog |-> Backlog(e.dispatch)]

\* mutant of Contents: the mailbox file keeps only what is not delivered yet
ContentsUndelivered(m, file) ==
  LET Undelivered(r) == ~r.delivered
  IN  CASE file = "snapshot.json" -> Snapshot(m.engine)
        [] file = "events.json"   -> m.log
        [] file = "mailbox.json"  -> SelectSeq(m.engine.mailbox, Undelivered)
        [] file = "dispatch.json" -> m.engine.dispatch

Contents(m, file) ==
  CASE file = "snapshot.json" -> Snapshot(m.engine)
    [] file = "events.json"   -> m.log
    [] file = "mailbox.json"  -> m.engine.mailbox
    [] file = "dispatch.json" -> m.engine.dispatch

-----------------------------------------------------------------------------
(* _get_engine. Once mem[b] is set it is the cache: what is on disk by then is *)
(* not looked at again, a refused command or a read changes nothing.          *)

Shares(b) ==
  shared' = (shared \/ \E d \in Bridges \ {b} : mem[d] # NoEngine)

\* mutant of StartFresh: an existing event log does not stop it
StartFreshAlways(b) ==
  /\ pc[b] = "idle"
  /\ mem[b] = NoEngine
  /\ mem' = [mem EXCEPT ![b] = [engine |-> Fresh, log |-> <<>>]]
  /\ Shares(b)
  /\ UNCHANGED <<pc, pos, read, files, writer, readers, faults, acked>>

StartFresh(b) ==
  /\ pc[b] = "idle"
  /\ mem[b] = NoEngine
  /\ files["events.json"] = Absent
  /\ mem' = [mem EXCEPT ![b] = [engine |-> Fresh, log |-> <<>>]]
  /\ Shares(b)
  /\ UNCHANGED <<pc, pos, read, files, writer, readers, faults, acked>>

\* mutant of OpenForLoad: load takes no shared lock
OpenUnlocked(b) ==
  /\ pc[b] = "idle"
  /\ mem[b] = NoEngine
  /\ files["events.json"] # Absent
  /\ Goto(b, "read events")
  /\ UNCHANGED <<mem, pos, read, files, writer, readers, faults, acked, shared>>

OpenForLoad(b) ==
  /\ pc[b] = "idle"
  /\ mem[b] = NoEngine
  /\ files["events.json"] # Absent
  /\ writer = Nobody
  /\ readers' = readers \cup {b}
  /\ Goto(b, "read events")
  /\ UNCHANGED <<mem, pos, read, files, writer, faults, acked, shared>>

\* a torn event log raises JSONDecodeError, outside exec_command's try
ReadEvents(b) ==
  /\ pc[b] = "read events"
  /\ IF files["events.json"] = Torn
       THEN /\ readers' = readers \ {b}
            /\ Goto(b, "idle")
            /\ UNCHANGED read
       ELSE /\ read' = [read EXCEPT ![b] = files["events.json"]]
            /\ Goto(b, "read mailbox")
            /\ UNCHANGED readers
  /\ UNCHANGED <<mem, pos, files, writer, faults, acked, shared>>

\* mailbox.json, when it parses, replaces the mailbox the events give
ReadMailbox(b) ==
  /\ pc[b] = "read mailbox"
  /\ LET replayed == Replay(read[b])
         stored   == files["mailbox.json"]
     IN  mem' = [mem EXCEPT ![b] =
                   [engine |-> IF stored \in {Absent, Torn}
                                 THEN replayed
                                 ELSE [replayed EXCEPT !.mailbox = stored],
                    log    |-> read[b]]]
  /\ read' = [read EXCEPT ![b] = <<>>]
  /\ readers' = readers \ {b}
  /\ Shares(b)
  /\ Goto(b, "idle")
  /\ UNCHANGED <<pos, files, writer, faults, acked>>

-----------------------------------------------------------------------------
(* exec_command *)

Exec(b, c) ==
  /\ pc[b] = "idle"
  /\ mem[b] # NoEngine
  /\ Len(mem[b].log) < MaxLog
  /\ Accepts(mem[b].engine, c)
  /\ mem' = [mem EXCEPT ![b] = [engine |-> Effect(mem[b].engine, c),
                                log    |-> Append(mem[b].log, c)]]
  /\ Goto(b, "lock")
  /\ UNCHANGED <<pos, read, files, writer, readers, faults, acked, shared>>

\* mutant of Lock: persist waits for writers only
LockPastReaders(b) ==
  /\ pc[b] = "lock"
  /\ writer = Nobody
  /\ writer' = b
  /\ Goto(b, "truncate")
  /\ UNCHANGED <<mem, pos, read, files, readers, faults, acked, shared>>

Lock(b) ==
  /\ pc[b] = "lock"
  /\ writer = Nobody
  /\ readers = {}
  /\ writer' = b
  /\ Goto(b, "truncate")
  /\ UNCHANGED <<mem, pos, read, files, readers, faults, acked, shared>>

Truncate(b) ==
  /\ pc[b] = "truncate"
  /\ files' = [files EXCEPT ![Writes[pos[b]]] = Torn]
  /\ Goto(b, "fill")
  /\ UNCHANGED <<mem, pos, read, writer, readers, faults, acked, shared>>

\* the lock is dropped after the mailbox; after the last file the event is returned
Fill(b) ==
  /\ pc[b] = "fill"
  /\ files' = [files EXCEPT ![Writes[pos[b]]] = Contents(mem[b], Writes[pos[b]])]
  /\ writer' = IF pos[b] = PersistEnds THEN Nobody ELSE writer
  /\ IF pos[b] = Len(Writes)
       THEN /\ Goto(b, "idle")
            /\ acked' = acked \cup {<<Len(mem[b].log), Last(mem[b].log)>>}
            /\ pos' = [pos EXCEPT ![b] = 1]
       ELSE /\ Goto(b, "truncate")
            /\ pos' = [pos EXCEPT ![b] = @ + 1]
            /\ UNCHANGED acked
  /\ UNCHANGED <<mem, read, readers, faults, shared>>

-----------------------------------------------------------------------------
(* Failures *)

Unlock(b) ==
  /\ writer' = IF writer = b THEN Nobody ELSE writer
  /\ readers' = readers \ {b}

\* an OSError in a write: the caller gets RuntimeBridgeError, the engine keeps
\* the event it has already applied
WriteFails(b) ==
  /\ pc[b] \in {"truncate", "fill"}
  /\ faults < MaxFaults
  /\ faults' = faults + 1
  /\ Unlock(b)
  /\ pos' = [pos EXCEPT ![b] = 1]
  /\ Goto(b, "idle")
  /\ UNCHANGED <<mem, read, files, acked, shared>>

Crash(b) ==
  /\ pc[b] # "idle"
  /\ faults < MaxFaults
  /\ faults' = faults + 1
  /\ Unlock(b)
  /\ mem' = [mem EXCEPT ![b] = NoEngine]
  /\ read' = [read EXCEPT ![b] = <<>>]
  /\ pos' = [pos EXCEPT ![b] = 1]
  /\ Goto(b, "idle")
  /\ UNCHANGED <<files, acked, shared>>

\* the process ends between two commands; another takes its place
Exit(b) ==
  /\ pc[b] = "idle"
  /\ mem[b] # NoEngine
  /\ mem' = [mem EXCEPT ![b] = NoEngine]
  /\ UNCHANGED <<pc, pos, read, files, writer, readers, faults, acked, shared>>

-----------------------------------------------------------------------------

BridgeNext ==
  \E b \in Bridges :
    \/ StartFresh(b) \/ OpenForLoad(b) \/ ReadEvents(b) \/ ReadMailbox(b)
    \/ \E c \in Commands : Exec(b, c)
    \/ Lock(b) \/ Truncate(b) \/ Fill(b)
    \/ WriteFails(b) \/ Crash(b) \/ Exit(b)

BridgeSpec == BridgeInit /\ [][BridgeNext]_bridgeVars

-----------------------------------------------------------------------------

Locations == {"idle", "read events", "read mailbox", "lock",
              "truncate", "fill"}

\* b is inside persist, where it holds engine.lock exclusively
Persisting(b) == pc[b] \in {"truncate", "fill"} /\ UnderLock(pos[b])

Loading(b) == pc[b] \in {"read events", "read mailbox"}

BridgeTypeOK ==
  /\ \A b \in Bridges : mem[b] # NoEngine => mem[b].log \in Seq(Commands)
  /\ pc \in [Bridges -> Locations]
  /\ pos \in [Bridges -> 1..Len(Writes)]
  /\ read \in [Bridges -> Seq(Commands)]
  /\ files["events.json"] \in Seq(Commands) \cup {Absent, Torn}
  /\ writer \in Bridges \cup {Nobody}
  /\ readers \subseteq Bridges
  /\ faults \in Nat
  /\ shared \in BOOLEAN

\* The flock works: nobody loads or persists while another bridge persists.
LockExcludes ==
  \A b \in Bridges : Persisting(b) =>
    \A d \in Bridges \ {b} : ~Persisting(d) /\ ~Loading(d)

\* Unless a process died or a write failed, no load meets a half-written event
\* log (which would make _get_engine raise JSONDecodeError), and what a load has
\* read stays the log on disk until it has read the mailbox too.
LoadsAreConsistent ==
  faults = 0 =>
    \A b \in Bridges :
      /\ pc[b] = "read events" => files["events.json"] # Torn
      /\ pc[b] = "read mailbox" => files["events.json"] = read[b]

Quiet == \A b \in Bridges : pc[b] = "idle"

\* Every command whose event was returned to its caller keeps its place in the
\* event log on disk through restarts, crashes and failed writes; a crash while
\* the log itself is being written is the one thing that can cost it. Two engines
\* cached at once overwrite each other's logs (bridge.py 33).
AckedIsDurable ==
  ~shared /\ files["events.json"] \notin {Absent, Torn} =>
    \A a \in acked : a[1] <= Len(files["events.json"])
                    /\ files["events.json"][a[1]] = a[2]

\* Between calls, and as long as nothing crashed or failed, all the files
\* tell the same story: the one the event log tells. It takes one engine at a
\* time: the view is written without the lock (engine.py 191-208).
FilesAgree ==
  Quiet /\ ~shared /\ faults = 0 /\ files["events.json"] # Absent =>
    LET truth == Replay(files["events.json"])
    IN  /\ files["snapshot.json"] = Snapshot(truth)
        /\ files["dispatch.json"] = truth.dispatch
        /\ files["mailbox.json"]  = truth.mailbox

\* load says it loads "engine state from disk by replaying events": the mailbox
\* in memory holds every message the engine's own event log has created.
MailboxFollowsLog ==
  \A b \in Bridges : mem[b] # NoEngine =>
    \A i \in DOMAIN mem[b].log :
      mem[b].log[i].event = "MailboxMessageCreated" =>
        \E j \in DOMAIN mem[b].engine.mailbox :
          mem[b].engine.mailbox[j].id = mem[b].log[i].key
=============================================================================

------------------------------ MODULE DirLock ------------------------------
(***************************************************************************)
(* The directory lock of omx.team.state.locks.with_lock: a process holds   *)
(* the lock by having created lock_dir; a waiter that finds a directory it *)
(* takes for stale removes it and tries again.                             *)
(*                                                                         *)
(* One action per file-system call of __enter__ and __exit__, because      *)
(* between two of them any other process may run.  The age of the          *)
(* directory is abstracted to one bit: older than stale_ms or not.         *)
(***************************************************************************)
EXTENDS Naturals, FiniteSets

CONSTANTS
  Procs,        \* the processes that use the lock
  MaxTries,     \* loop iterations that fit before the deadline (timeout_ms)
  BodyOutlives  \* may a critical section last longer than stale_ms?

ASSUME ProcsAssumption == IsFiniteSet(Procs)
ASSUME TriesAssumption == MaxTries \in Nat \ {0}
ASSUME BodyAssumption  == BodyOutlives \in BOOLEAN

NoDir  == "no directory"
Orphan == "orphan"         \* its creator is gone: nobody will release it

ASSUME MarksAssumption == NoDir \notin Procs /\ Orphan \notin Procs

VARIABLES
  dir,      \* lock_dir: NoDir, Orphan, or the process that created it
  old,      \* lock_dir's mtime is more than stale_ms ago
  pc,       \* where each process is in with_lock
  tries,    \* iterations of the while loop so far
  reaped    \* history: a recovery has removed a directory

vars == <<dir, old, pc, tries, reaped>>

Locations == {"idle", "mkdir", "exists", "stat", "rmdir", "remkdir",
              "deadline", "held"}

Init ==
  /\ dir = NoDir
  /\ old = FALSE
  /\ pc = [p \in Procs |-> "idle"]
  /\ tries = [p \in Procs |-> 0]
  /\ reaped = FALSE

Goto(p, l) == pc' = [pc EXCEPT ![p] = l]

-----------------------------------------------------------------------------
(* __enter__ *)

Enter(p) ==
  /\ pc[p] = "idle"
  /\ Goto(p, "mkdir")
  /\ tries' = [tries EXCEPT ![p] = 0]
  /\ UNCHANGED <<dir, old, reaped>>

\* mutant of TryAcquire: mkdir with exist_ok=True
TryAcquireExistOk(p, l) ==
  /\ dir' = IF dir = NoDir THEN p ELSE dir
  /\ old' = IF dir = NoDir THEN FALSE ELSE old
  /\ Goto(p, "held")

\* lock_dir.mkdir(exist_ok=False): created, or FileExistsError and go to l
TryAcquire(p, l) ==
  \/ /\ dir = NoDir
     /\ dir' = p
     /\ old' = FALSE
     /\ Goto(p, "held")
  \/ /\ dir # NoDir
     /\ Goto(p, l)
     /\ UNCHANGED <<dir, old>>

Mkdir(p) ==
  /\ pc[p] = "mkdir"
  /\ TryAcquire(p, "exists")
  /\ UNCHANGED <<tries, reaped>>

\* mutant of Exists: a directory that is gone is retried before the deadline test
ExistsSpins(p) ==
  /\ pc[p] = "exists"
  /\ Goto(p, IF dir # NoDir THEN "stat" ELSE "mkdir")
  /\ UNCHANGED <<dir, old, tries, reaped>>

Exists(p) ==
  /\ pc[p] = "exists"
  /\ Goto(p, IF dir # NoDir THEN "stat" ELSE "deadline")
  /\ UNCHANGED <<dir, old, tries, reaped>>

\* mutant of SeesStale: the age is not compared with stale_ms
SeesStaleIgnoresAge == dir = NoDir

\* _is_lock_stale: a stat that fails counts as stale
SeesStale == dir = NoDir \/ old

Stat(p) ==
  /\ pc[p] = "stat"
  /\ Goto(p, IF SeesStale THEN "rmdir" ELSE "deadline")
  /\ UNCHANGED <<dir, old, tries, reaped>>

\* the recovery's rmdir names the path, not the directory that was examined
Rmdir(p) ==
  /\ pc[p] = "rmdir"
  /\ IF dir = NoDir
       THEN /\ Goto(p, "deadline")
            /\ UNCHANGED <<dir, old, reaped>>
       ELSE /\ dir' = NoDir
            /\ old' = FALSE
            /\ reaped' = TRUE
            /\ Goto(p, "remkdir")
  /\ UNCHANGED tries

Remkdir(p) ==
  /\ pc[p] = "remkdir"
  /\ TryAcquire(p, "deadline")
  /\ UNCHANGED <<tries, reaped>>

\* the deadline has passed: TimeoutError leaves __enter__
Timeout(p) ==
  /\ pc[p] = "deadline"
  /\ Goto(p, "idle")
  /\ UNCHANGED <<dir, old, tries, reaped>>

\* it has not: sleep and go round the loop
Retry(p) ==
  /\ pc[p] = "deadline"
  /\ tries[p] + 1 < MaxTries
  /\ tries' = [tries EXCEPT ![p] = @ + 1]
  /\ Goto(p, "mkdir")
  /\ UNCHANGED <<dir, old, reaped>>

-----------------------------------------------------------------------------
(* __exit__: removes whatever directory is at the path, ignoring errors *)

\* mutant of Release: __exit__ forgets the rmdir
ReleaseKeepsDirectory(p) ==
  /\ pc[p] = "held"
  /\ Goto(p, "idle")
  /\ UNCHANGED <<dir, old, tries, reaped>>

Release(p) ==
  /\ pc[p] = "held"
  /\ dir' = NoDir
  /\ old' = FALSE
  /\ Goto(p, "idle")
  /\ UNCHANGED <<tries, reaped>>

-----------------------------------------------------------------------------
(* The environment: a process is killed, and time passes *)

Crash(p) ==
  /\ pc[p] # "idle"
  /\ Goto(p, "idle")
  /\ dir' = IF dir = p THEN Orphan ELSE dir
  /\ UNCHANGED <<old, tries, reaped>>

Age ==
  /\ dir # NoDir
  /\ ~old
  /\ dir = Orphan \/ BodyOutlives
  /\ old' = TRUE
  /\ UNCHANGED <<dir, pc, tries, reaped>>

Waiting(p) ==
  \/ Mkdir(p)
  \/ Exists(p)
  \/ Stat(p)
  \/ Rmdir(p)
  \/ Remkdir(p)
  \/ Timeout(p)
  \/ Retry(p)

Next ==
  \/ \E p \in Procs : Enter(p) \/ Waiting(p) \/ Release(p) \/ Crash(p)
  \/ Age

Spec == Init /\ [][Next]_vars

\* a process inside with_lock keeps running; bodies end; time passes.
\* Nothing is assumed about who enters or who crashes.
Fairness ==
  /\ \A p \in Procs : WF_vars(Waiting(p)) /\ WF_vars(Release(p))
  /\ WF_vars(Age)

FairSpec == Spec /\ Fairness

-----------------------------------------------------------------------------

TypeOK ==
  /\ dir \in Procs \cup {NoDir, Orphan}
  /\ old \in BOOLEAN
  /\ pc \in [Procs -> Locations]
  /\ tries \in [Procs -> 0..MaxTries]
  /\ reaped \in BOOLEAN

Holders == {p \in Procs : pc[p] = "held"}

\* "Uses directory creation for mutual exclusion" (locks.py): no two processes
\* are ever inside with_lock on one directory.
MutualExclusion == \A p, q \in Holders : p = q

\* The part of it the code does give: two processes inside together means that
\* some recovery has removed a directory.  Until then mkdir alone decides, across
\* crashes, timeouts and retries.
ExclusiveUntilReaped == ~reaped => MutualExclusion

\* Until then, too, the directory on disk is the one its holder made: a release
\* by one process never takes away the directory of another.
HolderOwnsDirectory == ~reaped => \A p \in Holders : dir = p

\* A directory that a live process still answers for was made by a process that
\* is inside: no timeout, failed attempt or finished body leaves one behind.
NoLeakedDirectory == dir \in Procs => pc[dir] = "held"

\* A process that goes for the lock gets it, gives up at its deadline or dies:
\* the loop never spins for ever.
AttemptEnds == \A p \in Procs : pc[p] = "mkdir" ~> pc[p] \in {"held", "idle"}

\* p is killed between going for the lock and removing the directory in its way
Killed(p) == pc[p] \in {"mkdir", "exists", "stat", "rmdir"} /\ Crash(p)

\* A directory left by a killed process and older than stale_ms does not block
\* the lock for ever: if attempts keep being made and from some time on nobody is
\* killed in the middle of one, it is removed (locks.py 76-82).
OrphanRecovered ==
  /\ <>[][\A p \in Procs : ~Killed(p)]_vars
  /\ []<>(\E p \in Procs : pc[p] = "mkdir")
  => (dir = Orphan /\ old ~> dir # Orphan)
=============================================================================

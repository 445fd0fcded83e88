--------------------------- MODULE DirLockProofs ---------------------------
(* Proofs about DirLock, for every set of processes, every deadline and     *)
(* whether or not critical sections may outlive stale_ms.                   *)
EXTENDS DirLock, TLAPS

(* HolderOwnsDirectory is the strengthening that makes exclusion inductive: *)
(* mkdir succeeds only on an absent directory, and until a recovery every   *)
(* holder's directory is present.                                           *)
IInv ==
  /\ TypeOK
  /\ HolderOwnsDirectory
  /\ NoLeakedDirectory

\* The initial state, with no directory and nobody inside, satisfies the
\* inductive invariant.
LEMMA InitIInv == Init => IInv
<1> SUFFICES ASSUME Init PROVE IInv
  OBVIOUS
<1>1. TypeOK
  <2>1. 0 \in 0..MaxTries
    BY TriesAssumption
  <2> QED BY <2>1 DEF Init, TypeOK, Locations
<1>2. HolderOwnsDirectory
  BY DEF Init, HolderOwnsDirectory, Holders
<1>3. NoLeakedDirectory
  BY MarksAssumption DEF Init, NoLeakedDirectory
<1> QED BY <1>1, <1>2, <1>3 DEF IInv

\* Every file-system call, crash and passage of time preserves it.
LEMMA NextIInv == IInv /\ [Next]_vars => IInv'
<1> SUFFICES ASSUME IInv, [Next]_vars PROVE IInv'
  OBVIOUS
<1> USE MarksAssumption, TriesAssumption
<1> USE DEF IInv, TypeOK, HolderOwnsDirectory, NoLeakedDirectory, Holders,
            Locations, Goto
<1>1. ASSUME NEW p \in Procs, Enter(p) PROVE IInv'
  BY <1>1 DEF Enter
<1>2. ASSUME NEW p \in Procs, Mkdir(p) PROVE IInv'
  BY <1>2 DEF Mkdir, TryAcquire
<1>3. ASSUME NEW p \in Procs, Exists(p) PROVE IInv'
  BY <1>3 DEF Exists
<1>4. ASSUME NEW p \in Procs, Stat(p) PROVE IInv'
  BY <1>4 DEF Stat, SeesStale
<1>5. ASSUME NEW p \in Procs, Rmdir(p) PROVE IInv'
  BY <1>5 DEF Rmdir
<1>6. ASSUME NEW p \in Procs, Remkdir(p) PROVE IInv'
  BY <1>6 DEF Remkdir, TryAcquire
<1>7. ASSUME NEW p \in Procs, Timeout(p) PROVE IInv'
  BY <1>7 DEF Timeout
<1>8. ASSUME NEW p \in Procs, Retry(p) PROVE IInv'
  BY <1>8 DEF Retry
<1>9. ASSUME NEW p \in Procs, Release(p) PROVE IInv'
  BY <1>9 DEF Release
<1>10. ASSUME NEW p \in Procs, Crash(p) PROVE IInv'
  BY <1>10 DEF Crash
<1>11. CASE Age
  BY <1>11 DEF Age
<1>12. CASE UNCHANGED vars
  BY <1>12 DEF vars
<1> QED
  BY <1>1, <1>2, <1>3, <1>4, <1>5, <1>6, <1>7, <1>8, <1>9, <1>10, <1>11, <1>12
  DEF Next, Waiting

\* Every variable of the lock keeps its type.
THEOREM TypeCorrect == Spec => []TypeOK
<1>1. IInv => TypeOK
  BY DEF IInv
<1> QED BY InitIInv, NextIInv, <1>1, PTL DEF Spec

\* Until a recovery has removed a directory, with_lock is mutually exclusive,
\* whatever crashes, timeouts and retries happen (locks.py, with_lock).
THEOREM Exclusion == Spec => []ExclusiveUntilReaped
<1>1. IInv => ExclusiveUntilReaped
  BY DEF IInv, HolderOwnsDirectory, ExclusiveUntilReaped, MutualExclusion, Holders
<1> QED BY InitIInv, NextIInv, <1>1, PTL DEF Spec

\* Until then a release takes away only the directory its own process made (_release_lock
\* removes the path, whoever's directory it is).
THEOREM OwnRelease == Spec => []HolderOwnsDirectory
<1>1. IInv => HolderOwnsDirectory
  BY DEF IInv
<1> QED BY InitIInv, NextIInv, <1>1, PTL DEF Spec

\* No attempt, timeout or finished body leaves behind a directory that a live
\* process would have to answer for (locks.py, __enter__ and __exit__).
THEOREM NoLeak == Spec => []NoLeakedDirectory
<1>1. IInv => NoLeakedDirectory
  BY DEF IInv
<1> QED BY InitIInv, NextIInv, <1>1, PTL DEF Spec
=============================================================================

---------------------------- MODULE MCTaskLease ----------------------------
(* Three workers and a supply of tokens that lets a lease lapse, be taken    *)
(* over and be taken back while earlier tokens are still held; and the life  *)
(* of a team of two of them, started, answering and shut down by two         *)
(* processes.  The two machines share no state and are explored in one run:  *)
(* the first state says which of them moves.                                 *)
EXTENDS TaskLease, TeamLifecycle, TLC

CONSTANTS w1, w2, w3, t1, t2, t3, t4, p1, p2

ASSUME LifeParameters

VARIABLE mover

all == <<mover, leaseVars, lifeVars>>

AllInit ==
  /\ mover \in {"lease", "life"}
  /\ LeaseInit
  /\ LifeInit

\* all the calls the bounds allow have ended
Rest == mover = "life" /\ \A p \in Procs : ~Busy(p)

AllNext ==
  /\ UNCHANGED mover
  /\ \/ mover = "lease" /\ LeaseNext /\ UNCHANGED lifeVars
     \/ mover = "life" /\ LifeNext /\ UNCHANGED leaseVars
     \/ Rest /\ UNCHANGED <<leaseVars, lifeVars>>

AllSpec == AllInit /\ [][AllNext]_all

\* What follows an overlap of a start with another call is promised nothing; and a state
\* of a team with more than one mishap is reached and checked, but not followed further.
Explored == ~crossed /\ Cardinality(adrift) + faults <= 1

Symmetry == Permutations(Team) \cup Permutations(Procs)
=============================================================================

-------------------------- MODULE MCRuntimeEngine --------------------------
(* RuntimeEngine on a small instance, and a wiki that two processes keep.   *)
(* The two machines share no state and are explored in one run: the first   *)
(* state says which of them moves.                                          *)
EXTENDS EngineLifecycle, Wiki, TLC

CONSTANTS
  k1, k2,
  MaxLog,     \* bound: events in the log at any time
  MaxQueued,  \* bound: dispatch records
  MaxMail     \* bound: mailbox records

ASSUME WikiParameters

VARIABLE mover

all == <<mover, vars, wikiVars>>

AllInit ==
  /\ mover \in {"engine", "wiki"}
  /\ Init
  /\ WikiInit

\* all the calls the bounds allow have ended
Rest == mover = "wiki" /\ calls = MaxCalls /\ \A k \in Keepers : at[k] = "idle"

AllNext ==
  /\ UNCHANGED mover
  /\ \/ mover = "engine" /\ Next /\ UNCHANGED wikiVars
     \/ mover = "wiki" /\ WikiNext /\ UNCHANGED vars
     \/ Rest /\ UNCHANGED <<vars, wikiVars>>

AllSpec == AllInit /\ [][AllNext]_all

Bounded ==
  /\ Len(log) <= MaxLog
  /\ Len(engine.dispatch) <= MaxQueued
  /\ Len(engine.mailbox) <= MaxMail

Symmetry == Permutations(Keepers)
=============================================================================

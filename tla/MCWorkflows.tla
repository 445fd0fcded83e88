---------------------------- MODULE MCWorkflows ----------------------------
(* The workflow modes and the autoresearch runs: two machines that share no  *)
(* state, explored in one run.  The first state says which of them moves.    *)
EXTENDS ModeState, Autoresearch

ASSUME ResearchParameters

VARIABLE mover

both == <<mover, vars, researchVars>>

BothInit ==
  /\ mover \in {"modes", "research"}
  /\ Init
  /\ ResearchInit

BothNext ==
  /\ UNCHANGED mover
  /\ \/ mover = "modes" /\ Next /\ UNCHANGED researchVars
     \/ mover = "research" /\ ResearchNext /\ UNCHANGED vars

BothSpec == BothInit /\ [][BothNext]_both
=============================================================================

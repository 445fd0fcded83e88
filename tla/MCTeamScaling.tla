--------------------------- MODULE MCTeamScaling ---------------------------
(* TeamScaling for TLC: two processes, a team of one that may have three.   *)
EXTENDS TeamScaling, TLC

Symmetry == Permutations(Procs)

\* Once an out-of-date copy has been written or a lock taken over, no property claims
\* anything. The pane properties excuse a crash and no task matters to them; that of the
\* numbers excuses a counter left behind and no pane matters to it; and what follows a
\* second kill that failed is what follows the first.
Explored ==
  /\ ~lost /\ ~crowded
  /\ Cardinality(adrift) + faults + (IF behind THEN 1 ELSE 0) <= 1
=============================================================================

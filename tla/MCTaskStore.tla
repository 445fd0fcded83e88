---------------------------- MODULE MCTaskStore ----------------------------
(* TaskStore for TLC: two workers over one team directory. *)
EXTENDS TaskStore, TLC

CONSTANTS w1, w2

Symmetry == Permutations(Workers)
=============================================================================

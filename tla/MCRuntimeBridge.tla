-------------------------- MODULE MCRuntimeBridge --------------------------
(* RuntimeBridge for TLC: two bridges over one state directory. *)
EXTENDS RuntimeBridge

CONSTANTS b1, b2

Symmetry == Permutations({b1, b2})
=============================================================================

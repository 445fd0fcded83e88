----------------------------- MODULE MCDirLock -----------------------------
(* DirLock for TLC: three processes, without symmetry, which fairness forbids. *)
EXTENDS DirLock

CONSTANTS p1, p2, p3

=============================================================================

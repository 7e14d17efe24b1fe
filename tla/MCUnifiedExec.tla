--------------------------- MODULE MCUnifiedExec ----------------------------
(* A small instance of UnifiedExec for TLC. *)
EXTENDS UnifiedExec, TLC

CONSTANTS p1, p2, p3, i1, i2, i3, w1

Symmetry == Permutations(Procs) \cup Permutations(Ids)
=============================================================================

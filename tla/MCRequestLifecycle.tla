------------------------- MODULE MCRequestLifecycle -------------------------
(* Small instance of RequestLifecycle. *)
EXTENDS RequestLifecycle, TLC

CONSTANTS r1, r2
Symmetry == Permutations({r1, r2})
=============================================================================

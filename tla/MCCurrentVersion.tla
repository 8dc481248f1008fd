-------------------------- MODULE MCCurrentVersion --------------------------
(* Small instance of CurrentVersion. *)
EXTENDS CurrentVersion, TLC

CONSTANTS v1, v2
Symmetry == Permutations({v1, v2})
=============================================================================

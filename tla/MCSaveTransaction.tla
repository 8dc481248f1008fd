-------------------------- MODULE MCSaveTransaction --------------------------
(* Small instance of SaveTransaction. *)
EXTENDS SaveTransaction, TLC

CONSTANTS a, b, c
Contents == {a, b, c}
Symmetry == Permutations(Contents \ {a})
=============================================================================

--------------------------- MODULE MCCloseHandshake ---------------------------
(* Small instance of CloseHandshake. *)
EXTENDS CloseHandshake, TLC

CONSTANTS r1, r2

Symmetry == Permutations(Request)
=============================================================================

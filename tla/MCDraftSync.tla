----------------------------- MODULE MCDraftSync -----------------------------
(* Small instance of DraftSync. *)
EXTENDS DraftSync, TLC

CONSTANTS i1, i2
Comments == {i1, i2}
Symmetry == Permutations(Comments)
=============================================================================

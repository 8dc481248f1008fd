--------------------------- MODULE MCSourceRename ---------------------------
(* Small instance of SourceRename. *)
EXTENDS SourceRename, TLC

CONSTANTS a, b, c, s1, s2
Symmetry == Permutations({b, c}) \cup Permutations({s1, s2})
=============================================================================

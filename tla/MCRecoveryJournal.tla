-------------------------- MODULE MCRecoveryJournal --------------------------
(* Small instance of RecoveryJournal. *)
EXTENDS RecoveryJournal, TLC

CONSTANTS h0, h1, h2, h3
=============================================================================

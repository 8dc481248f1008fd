-------------------------- MODULE MCDocumentWorkflow --------------------------
(* Small instance of DocumentWorkflow. *)
EXTENDS DocumentWorkflow, TLC

CONSTANTS c1, c2, h0, h1, h2
=============================================================================

------------------------- MODULE MCApprovalWorkflow -------------------------
(* Small instances of ApprovalWorkflow for TLC. *)
EXTENDS ApprovalWorkflow
=============================================================================

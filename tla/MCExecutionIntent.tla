------------------------- MODULE MCExecutionIntent -------------------------
(* Small instances of ExecutionIntent for TLC. *)
EXTENDS ExecutionIntent
=============================================================================

------------------------ MODULE MCPositionProtection ------------------------
(* Small instances of PositionProtection for TLC. *)
EXTENDS PositionProtection
=============================================================================

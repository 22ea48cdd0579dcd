---- MODULE MCReleaseDecision ----
(* Instance of ReleaseDecision for TLC. *)
EXTENDS ReleaseDecision
====

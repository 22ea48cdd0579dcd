---- MODULE MCReleaseRecords ----
(* Instance of ReleaseRecords for TLC. *)
EXTENDS ReleaseRecords
====

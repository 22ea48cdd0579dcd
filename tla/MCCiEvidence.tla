----------------------------- MODULE MCCiEvidence -----------------------------
(* Two commits, so that a push ends an attempt and a directory can hold the  *)
(* files of the wrong commit, and two attempts of each run.                  *)
EXTENDS CiEvidence

MCChecks == { "check_mql_static.py", "scan_release_secrets.py" }
=============================================================================

---------------------------- MODULE MCTaskSched ----------------------------
(* Small instances of TaskSched for TLC; the configurations give every      *)
(* constant its value.  Liveness is checked too, so there is no symmetry.   *)
EXTENDS TaskSched
=============================================================================

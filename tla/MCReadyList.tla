---------------------------- MODULE MCReadyList ----------------------------
(* A small instance of ReadyList for TLC. *)
EXTENDS ReadyList
=============================================================================

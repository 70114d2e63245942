------------------------------- MODULE MCMote ------------------------------
(* Small instances of Mote for TLC; the configurations give every constant  *)
(* its value.  Liveness is checked too, so there is no symmetry.            *)
EXTENDS Mote
=============================================================================

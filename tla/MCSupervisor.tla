----------------------------- MODULE MCSupervisor -----------------------------
(* Two starts of the program, with masters that keep three server processes. *)
EXTENDS Supervisor
=============================================================================

----------------------------- MODULE MCReactor -----------------------------
(* Small instances of Reactor for TLC. *)
EXTENDS Reactor, TLC

\* Connections, descriptors and workers are interchangeable.
Symmetric == Permutations(Conn) \cup Permutations(Fd) \cup Permutations(Worker)
=============================================================================

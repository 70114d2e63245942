--------------------------- MODULE MCEventTable ----------------------------
(* Small instances of EventTable for TLC. *)
EXTENDS EventTable, TLC

\* The workers are interchangeable.
Symmetric == Permutations(Worker)
=============================================================================

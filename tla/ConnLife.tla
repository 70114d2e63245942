----------------------------- MODULE ConnLife ------------------------------
(***************************************************************************)
(* What the server promises for one connection: it is read, travels        *)
(* through the task pool once, is written and is closed, in that order and *)
(* once; it may be closed at any stage.  Abstract specification of         *)
(* src/src/core/tgx_connection.c.                                          *)
(***************************************************************************)
CONSTANT Conn
VARIABLE stage

Stages == {"new", "reading", "travelling", "writing", "closed"}
After(s) == CASE s = "new"        -> {"reading", "closed"}
              [] s = "reading"    -> {"travelling", "closed"}
              [] s = "travelling" -> {"writing", "closed"}
              [] s = "writing"    -> {"closed"}
              [] s = "closed"     -> {}

Init == stage = [c \in Conn |-> "new"]
Advance(c) == \E s \in After(stage[c]) : stage' = [stage EXCEPT ![c] = s]
Next == \E c \in Conn : Advance(c)
Spec == Init /\ [][Next]_stage
=============================================================================

----------------------------- MODULE MCSensorPath -----------------------------
(* One other program beside the sensor client: enough for a descriptor to be reused. *)
EXTENDS SensorPath
=============================================================================

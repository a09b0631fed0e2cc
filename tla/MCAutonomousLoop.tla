--------------------------- MODULE MCAutonomousLoop ---------------------------
(* One task whose model may say anything within the bounds.                *)
EXTENDS AutonomousLoop

CONSTANTS c1, c2, c3, a1

MCCallIds  == {c1, c2, c3}
MCTools    == {"read_file", "complete_task"}
OneArgument == {a1}
=============================================================================

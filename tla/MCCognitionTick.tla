--------------------------- MODULE MCCognitionTick ---------------------------
(* Small instance of CognitionTick: one agent whose dwell is shorter than    *)
(* its period and one whose dwell is longer.                               *)
EXTENDS CognitionTick

MCAgents == 1..2
MCPeriod == [a \in Agents |-> a + 1]
MCDwell == [a \in Agents |-> IF a = 1 THEN 1 ELSE 4]
=============================================================================

-------------------------- MODULE MCWorldScheduler --------------------------
(* Small instance of WorldScheduler: physics every 1, heartbeat every 2 and *)
(* cognition every 5 time units, so that deadlines coincide in pairs and,   *)
(* every 10 units, all at once.                                             *)
EXTENDS WorldScheduler

MCHandlers == {"physics", "cognition", "heartbeat"}
MCPeriod == [physics |-> 1, cognition |-> 5, heartbeat |-> 2]
MCRank == [physics |-> 1, cognition |-> 2, heartbeat |-> 3]
=============================================================================

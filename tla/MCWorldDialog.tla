---------------------------- MODULE MCWorldDialog ----------------------------
(* Small instance of WorldDialog: the budgets differ, so that a dialog is   *)
(* exhausted on either speaker's turn, and a timed-out, an exhausted and an *)
(* abandoned dialog are all followed by another one of the same pair.       *)
EXTENDS WorldDialog

MCTwoAgents == 1..2
MCZones == {"study", "agora"}
MCReflectiveZones == {"agora"}
MCBudget == [a \in Agents |-> IF a = 1 THEN 2 ELSE 3]
=============================================================================

------------------------- MODULE MCDialogScheduler -------------------------
(* Small instance of DialogScheduler: three agents, so that the dialogs of  *)
(* one agent with two others overlap, and two ids per pair.                *)
EXTENDS DialogScheduler

MCAgents == 1..3
MCZones == {"study", "agora"}
MCReflectiveZones == {"agora"}
=============================================================================

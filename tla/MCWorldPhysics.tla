--------------------------- MODULE MCWorldPhysics ---------------------------
(* Two zones whose border a push can cross, a prop near it, and three      *)
(* agents of different separation radius.                                  *)
EXTENDS WorldPhysics, TLC

CONSTANTS kant, nietzsche, rikyu, study, agora

MCPairOrder == <<<<kant, nietzsche>>, <<kant, rikyu>>, <<nietzsche, rikyu>>>>
MCCentre == study :> 2 @@ agora :> 5
MCRadius == kant :> 2 @@ nietzsche :> 1 @@ rikyu :> 1
=============================================================================

---------------------------- MODULE MCIndividual ----------------------------
EXTENDS Individual, TLC

CONSTANTS kant, rikyu

(* One agent whose affinity rises fast and wears off, one that only warms. *)
MCImpact == kant :> {3, -1} @@ rikyu :> {2}

MCPrints == UNION {[D -> 1..MaxTurns] : D \in (SUBSET Dyads) \ {{}}}
=============================================================================

----------------------------- MODULE Individual -----------------------------
(***************************************************************************)
(* The individual layer of one agent over the relations of all: the beliefs *)
(* its turns earned and the bonds they left are the evidence for the world  *)
(* model its steps carry (CognitionCycle.step with the layer enabled).      *)
(***************************************************************************)
EXTENDS Relations, WorldModel, FiniteSetsExt

CONSTANT Self                \* the agent whose world model is followed

(* The entries followed are those of the env axis, one per zone; a print    *)
(* tells the counts of the bonds an entry was derived from.                *)
ASSUME IndividualAssumption ==
  /\ Keys = Zones
  /\ \A D \in SUBSET Dyads : D # {} => [D -> 1..MaxTurns] \subseteq Prints

vars == <<relVars, modelVars>>

-----------------------------------------------------------------------------
(* collect_promoted_evidence: dyads with a belief row and a bond, though    *)
(* not necessarily of the same life of the process.                        *)
Evidence == {d \in Dyads : d[1] = Self /\ copy[d] # None /\ stored[d] # None}

In(zone) == {d \in Evidence : copy[d].zone = zone}

Mean(zone) == MapThenSumSet(LAMBDA d : copy[d].affinity, In(zone)) \div Cardinality(In(zone))

(* _derive_env: an entry per zone of last interaction.  The fingerprint's   *)
(* ticks are the tick of the last turn of each dyad, which its count tells. *)
SelfFloor ==
  [k \in Zones |->
     IF In(k) = {} THEN NoEntry
     ELSE [value |-> Mean(k), print |-> [d \in In(k) |-> copy[d].count]]]

(* WorldModelEntry validates its value: a step whose floor is off the scale *)
(* raises before it has a prompt.                                          *)
Valid(floor) == \A k \in Keys : floor[k] # NoEntry => floor[k].value \in Scale

-----------------------------------------------------------------------------
Init == RelInit /\ ModelInit

Begin == \E S \in SUBSET Agents : BeginSteps(S) /\ UNCHANGED modelVars

End ==
  \E W \in SUBSET reading :
    /\ EndSteps(W)
    /\ IF Self \in W THEN Valid(SelfFloor) /\ StepWritten(SelfFloor)
       ELSE IF Self \in reading
            THEN (Valid(SelfFloor) /\ StepRaised(SelfFloor)) \/ UNCHANGED modelVars
       ELSE UNCHANGED modelVars

Speak == Turns /\ UNCHANGED modelVars

Restart == Crashes /\ Forget

Next == Begin \/ End \/ Speak \/ Restart

Spec == Init /\ [][Next]_vars

=============================================================================

------------------------------- MODULE Signed -------------------------------
(***************************************************************************)
(* The signed scale of affinities and world-model values: [-1, 1] of the    *)
(* code, measured in whole steps.                                          *)
(***************************************************************************)
EXTENDS Integers

CONSTANT One                 \* AFFINITY_UPPER = 1.0, in steps

ASSUME SignedAssumption == One \in Nat \ {0}

Scale == -One..One

(* clamp_affinity_delta and the _clamp of world_model.py *)
Clamp(x, lo, hi) == IF x < lo THEN lo ELSE IF x > hi THEN hi ELSE x

Sign(x) == IF x > 0 THEN 1 ELSE IF x < 0 THEN -1 ELSE 0

=============================================================================

----------------------------- MODULE WorldModel -----------------------------
(***************************************************************************)
(* The subjective world model one agent carries from step to step: values   *)
(* that evidence supports (the floor) and that the LLM may nudge.  Each     *)
(* step reconciles the carried nudges with a fresh floor, shows the result  *)
(* to the LLM and applies at most one verified hint.                        *)
(*                                                                         *)
(* The frozen arm carries a nudge only while its evidence is unchanged, the *)
(* stm arm carries its offset over a change for at most Horizon ticks.      *)
(***************************************************************************)
EXTENDS Signed

CONSTANTS Keys,              \* the (axis, key) an entry may have
          Prints,            \* the rest of a floor fingerprint: citations, tick
          Step,              \* VALUE_STEP
          Cap,               \* MAX_TOTAL_MODULATION
          Horizon,           \* STM_HORIZON
          NoEntry

ASSUME WorldModelAssumption ==
  Step \in Nat \ {0} /\ Cap \in Nat /\ Horizon \in Nat

Arms == {"frozen", "stm"}
Never == -1

Floor == [value : Scale, print : Prints]

(* base_floor and modulated hold the same keys, carried_since some of them; *)
(* age is current_tick - carried_since.  A step that is written raises the  *)
(* agent's tick by one, whether the LLM answered or not.                   *)
Entry == [value : Scale, print : Prints, mod : Scale, age : Nat \cup {Never}]

ASSUME NoEntryAssumption == NoEntry \notin Entry /\ NoEntry \notin Floor

VARIABLES arm,               \* individual_layer.stm_carry_enabled
          runtime,           \* AgentRuntime.world_model_runtime
          shown,             \* what the last prompt showed
          crossed            \* history: ticks an offset outlived its evidence

modelVars == <<arm, runtime, shown, crossed>>

ModelTypeOK ==
  /\ arm \in Arms
  /\ runtime \in [Keys -> Entry \cup {NoEntry}]
  /\ shown \in [Keys -> Entry \cup {NoEntry}]
  /\ crossed \in [Keys -> Nat \cup {Never}]

Nothing == [k \in Keys |-> NoEntry]

ModelInit ==
  /\ arm \in Arms
  /\ runtime = Nothing
  /\ shown = Nothing
  /\ crossed = [k \in Keys |-> Never]

-----------------------------------------------------------------------------
Grounded(new) == [value |-> new.value, print |-> new.print, mod |-> new.value, age |-> Never]

Changed(old, new) == old.value # new.value \/ old.print # new.print

(* at most Cap from the floor, and on the scale *)
CappedAtScale(x, value) == Clamp(x, -One, One)

Capped(x, value) ==
  Clamp(x, Clamp(value - Cap, -One, One), Clamp(value + Cap, -One, One))

(* _reconcile_frozen *)
FrozenEntry(old, new) ==
  IF Changed(old, new) THEN Grounded(new)
  ELSE [Grounded(new) EXCEPT !.mod = Capped(old.mod, new.value)]

(* _stm_carry_entry *)
AgeRestarted(old, new) == IF Changed(old, new) THEN 0 ELSE IF old.age # Never THEN old.age + 1 ELSE Never

Age(old, new) ==
  IF old.age # Never THEN old.age + 1 ELSE IF Changed(old, new) THEN 0 ELSE Never

Dropped(old, new) ==
  \/ old.mod = old.value
  \/ Changed(old, new) /\ Sign(old.value) # Sign(new.value)
  \/ Age(old, new) > Horizon

Offset(old, new) == Capped(new.value + (old.mod - old.value), new.value)

StmEntry(old, new) ==
  IF Dropped(old, new) \/ Offset(old, new) = new.value THEN Grounded(new)
  ELSE [Grounded(new) EXCEPT !.mod = Offset(old, new), !.age = Age(old, new)]

(* reconcile_world_model, entry by entry: the floor decides which there are *)
Reconciled(floor) ==
  [k \in Keys |->
     IF floor[k] = NoEntry THEN NoEntry
     ELSE IF runtime[k] = NoEntry THEN Grounded(floor[k])
     ELSE IF arm = "frozen" THEN FrozenEntry(runtime[k], floor[k])
     ELSE StmEntry(runtime[k], floor[k])]

(* _nudge_value: towards or away from zero, never across it *)
Strengthened(x) == IF x = 0 THEN 0 ELSE Clamp(x + Sign(x) * Step, -One, One)
WeakenedAcross(x) == IF x > 0 THEN x - Step ELSE IF x < 0 THEN x + Step ELSE 0
Weakened(x) == IF x > 0 THEN Clamp(x - Step, 0, One) ELSE Clamp(x + Step, -One, 0)

(* apply_world_model_update_hint: one entry nudged, or none if the hint is  *)
(* missing or not adopted, for whatever it targets or cites.               *)
Hints(view) ==
  {view} \cup UNION {{[view EXCEPT ![k].mod = Strengthened(view[k].mod)],
                      [view EXCEPT ![k].mod = Weakened(view[k].mod)]} :
                     k \in {j \in Keys : view[j] # NoEntry}}

(* Since when what is shown for a key differs from a floor that has changed *)
Crossing(k, floor) ==
  IF floor[k] = NoEntry \/ runtime[k] = NoEntry THEN Never
  ELSE IF Reconciled(floor)[k].mod = floor[k].value THEN Never
  ELSE IF crossed[k] # Never THEN crossed[k] + 1
  ELSE IF Changed(runtime[k], floor[k]) THEN 0 ELSE Never

-----------------------------------------------------------------------------
(* Steps 4.5 to 7.5 of CognitionCycle.step and the write-back of its result *)
StepWritten(floor) ==
  /\ shown' = Reconciled(floor)
  /\ runtime' \in Hints(Reconciled(floor))
  /\ crossed' = [k \in Keys |-> Crossing(k, floor)]
  /\ UNCHANGED arm

(* A step that raised after its prompt was built. *)
StepRaised(floor) ==
  /\ shown' = Reconciled(floor)
  /\ UNCHANGED <<arm, runtime, crossed>>

Forget ==
  /\ runtime' = Nothing
  /\ shown' = Nothing
  /\ crossed' = [k \in Keys |-> Never]
  /\ UNCHANGED arm

ModelNext ==
  \/ \E floor \in [Keys -> Floor \cup {NoEntry}] : StepWritten(floor) \/ StepRaised(floor)
  \/ Forget

ModelSpec == ModelInit /\ [][ModelNext]_modelVars

-----------------------------------------------------------------------------
(* The prompt never shows a value further than Cap from its evidence,      *)
(* however many hints were adopted and however the floor moved meanwhile.  *)
ShownWithinCap ==
  \A k \in Keys : shown[k] # NoEntry =>
    shown[k].mod - shown[k].value \in -Cap..Cap

(* An offset that outlived the evidence it was made on is gone after        *)
(* Horizon ticks, however often the evidence changes again and the LLM      *)
(* renews it.                                                              *)
CarryExpires == \A k \in Keys : crossed[k] =< Horizon

(* What the LLM's hints make of a value never has the sign opposite to its  *)
(* evidence ("it can never flip a sign", world_model.py:302).              *)
NoSignFlip ==
  \A k \in Keys : shown[k] # NoEntry =>
    Sign(shown[k].mod) \in {0, Sign(shown[k].value)}

(* ... which holds in the frozen arm. *)
NoSignFlipFrozen == arm = "frozen" => NoSignFlip

=============================================================================

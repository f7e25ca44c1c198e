----------------------------- MODULE Relations -----------------------------
(***************************************************************************)
(* What a recorded dialog turn leaves behind: the chain of turn sinks of    *)
(* bootstrap.py (a dialog_turns row, a relational memory row, the bonds of  *)
(* both agents, the beliefs they may promote), against the cognition steps  *)
(* that read an agent's whole state, await, and write the whole state back. *)
(*                                                                         *)
(* Rows and beliefs are in SQLite and survive a crash, bonds live in        *)
(* AgentRuntime.state and do not.  The chain is synchronous: one action.    *)
(***************************************************************************)
EXTENDS Signed

CONSTANTS Agents,
          Zones,
          Impact,            \* by how much a turn may move an agent's affinity
          Threshold,         \* BELIEF_THRESHOLD
          TrustFloor,        \* _TRUST_FLOOR
          MinInteractions,   \* BELIEF_MIN_INTERACTIONS
          MaxTurns,          \* bound: turns the table dialog_turns may hold
          None

ASSUME RelationsAssumption ==
  /\ Impact \in [Agents -> SUBSET Int]
  /\ Threshold \in Nat \ {0} /\ TrustFloor \in Nat \ {0}
  /\ MinInteractions \in Nat /\ MaxTurns \in Nat

Kinds == {"trust", "curious", "wary", "clash"}

ASSUME NoneAssumption == None \notin Kinds

Dyads == {d \in Agents \X Agents : d[1] # d[2]}
Back(d) == <<d[2], d[1]>>
Pair(d) == {d[1], d[2]}
Pairs == {Pair(d) : d \in Dyads}

Bond == [affinity : Scale, count : Nat \ {0}, belief : Kinds \cup {None}, zone : Zones]

ASSUME NoBondAssumption == None \notin Bond

VARIABLES turnRows,          \* rows of dialog_turns, whoever of a pair spoke
          rows,              \* rows of relational_memory, likewise
          stored,            \* the belief row of a dyad in semantic_memory
          bond,              \* AgentState.relationships
          reading,           \* the agents whose cycle.step is awaited
          copy,              \* the bonds those steps read
          boot,              \* history: rows when the process started
          unsaved            \* history: dyads whose last upsert failed

tables == <<turnRows, rows, stored>>
relVars == <<tables, bond, reading, copy, boot, unsaved>>

RelTypeOK ==
  /\ turnRows \in [Pairs -> Nat]
  /\ rows \in [Pairs -> Nat]
  /\ boot \in [Pairs -> Nat]
  /\ stored \in [Dyads -> Kinds \cup {None}]
  /\ bond \in [Dyads -> Bond \cup {None}]
  /\ copy \in [Dyads -> Bond \cup {None}]
  /\ reading \subseteq Agents
  /\ unsaved \subseteq Dyads

NoBonds == [d \in Dyads |-> None]

RelInit ==
  /\ turnRows = [p \in Pairs |-> 0]
  /\ rows = turnRows
  /\ boot = turnRows
  /\ stored = [d \in Dyads |-> None]
  /\ bond = NoBonds
  /\ copy = NoBonds
  /\ reading = {}
  /\ unsaved = {}

-----------------------------------------------------------------------------
(* get_bond_affinity, compute_affinity_delta and apply_affinity: each side  *)
(* starts from its own affinity and ends somewhere its persona may bring it *)

Affinity(d) == IF bond[d] = None THEN 0 ELSE bond[d].affinity

Feels(d) == {Clamp(Affinity(d) + i, -One, One) : i \in Impact[d[1]]}

(* apply_affinity_delta; emotional_conflict is left out *)
Turned(d, x, z) ==
  IF bond[d] = None
  THEN [affinity |-> x, count |-> 1, belief |-> None, zone |-> z]
  ELSE [affinity |-> x, count |-> bond[d].count + 1, belief |-> bond[d].belief, zone |-> z]

Classified(x) ==
  CASE x >= TrustFloor -> "trust"
    [] x \in 1..TrustFloor - 1 -> "curious"
    [] x <= -TrustFloor -> "clash"
    [] OTHER -> "wary"

(* maybe_promote_belief *)
PromotesUncounted(b) == b.affinity >= Threshold \/ b.affinity <= -Threshold

Promotes(b) == /\ b.affinity >= Threshold \/ b.affinity <= -Threshold
               /\ b.count >= MinInteractions

(* _maybe_persist_belief: the bond is stamped before the row is written *)
Stamped(b) == IF Promotes(b) THEN [b EXCEPT !.belief = Classified(b.affinity)] ELSE b

-----------------------------------------------------------------------------
(* One handler runs at a time, and it awaits the steps it gathered. *)
AnybodySteps == TRUE

NobodySteps == reading = {}

(* The gather of the cognition handler: the steps of S read their states... *)
BeginSteps(S) ==
  /\ NobodySteps
  /\ S # {}
  /\ reading' = S
  /\ copy' = bond
  /\ UNCHANGED <<tables, bond, boot, unsaved>>

(* ...and _consume_result writes back whole states, with the bonds as the   *)
(* step found them, for the agents of W; the steps of the others raised.    *)
EndSteps(W) ==
  /\ W \subseteq reading
  /\ bond' = [d \in Dyads |-> IF d[1] \in W THEN copy[d] ELSE bond[d]]
  /\ reading' = {}
  /\ copy' = NoBonds
  /\ UNCHANGED <<tables, boot, unsaved>>

-----------------------------------------------------------------------------
(* record_turn after the gather of the turns; turns are recorded by the     *)
(* handler that awaited the steps.  If the dialog_turns row fails nothing   *)
(* else happens, and if the relational row fails nothing after it.         *)

Room(d) == turnRows[Pair(d)] < MaxTurns

TurnWithoutRelation(d) ==
  /\ NobodySteps /\ Room(d)
  /\ turnRows' = [turnRows EXCEPT ![Pair(d)] = @ + 1]
  /\ UNCHANGED <<rows, stored, bond, reading, copy, boot, unsaved>>

(* The bond of each side after the turn of d: x says how each side feels. *)
Bonded(d, x, z) ==
  [e \in Dyads |-> IF e \in {d, Back(d)} THEN Stamped(Turned(e, x[e], z)) ELSE bond[e]]

Promoted(d, x, z) == {e \in {d, Back(d)} : Promotes(Turned(e, x[e], z))}

Upserted(saved, x) ==
  [e \in Dyads |-> IF e \in saved THEN Classified(x[e]) ELSE stored[e]]

Feelings(d) ==
  {[e \in {d, Back(d)} |-> IF e = d THEN x ELSE y] : x \in Feels(d), y \in Feels(Back(d))}

(* Every step of the chain, with the upserts of the dyads of failed lost. *)
Turn(d, x, z, failed) ==
  /\ NobodySteps /\ Room(d)
  /\ failed \subseteq Promoted(d, x, z)
  /\ turnRows' = [turnRows EXCEPT ![Pair(d)] = @ + 1]
  /\ rows' = [rows EXCEPT ![Pair(d)] = @ + 1]
  /\ bond' = Bonded(d, x, z)
  /\ stored' = Upserted(Promoted(d, x, z) \ failed, x)
  /\ unsaved' = (unsaved \ Promoted(d, x, z)) \cup failed
  /\ UNCHANGED <<reading, copy, boot>>

(* The process dies and starts again: states are built anew. *)
Reboot ==
  /\ bond' = NoBonds
  /\ copy' = NoBonds
  /\ reading' = {}
  /\ boot' = rows'
  /\ unsaved' = {}

Crash == UNCHANGED tables /\ Reboot

(* ... in the middle of a chain, which has committed row after row. *)
CrashInTurn(d, x, z, saved) ==
  /\ NobodySteps /\ Room(d)
  /\ saved \subseteq Promoted(d, x, z)
  /\ turnRows' = [turnRows EXCEPT ![Pair(d)] = @ + 1]
  /\ \/ rows' = [rows EXCEPT ![Pair(d)] = @ + 1] /\ stored' = Upserted(saved, x)
     \/ saved = {} /\ UNCHANGED <<rows, stored>>
  /\ Reboot

Turns ==
  \E d \in Dyads :
    \/ TurnWithoutRelation(d)
    \/ \E x \in Feelings(d), z \in Zones :
         \E lost \in SUBSET Promoted(d, x, z) : Turn(d, x, z, lost)

Crashes ==
  \/ Crash
  \/ \E d \in Dyads : \E x \in Feelings(d), z \in Zones :
       \E saved \in SUBSET Promoted(d, x, z) : CrashInTurn(d, x, z, saved)

RelNext ==
  \/ \E S \in SUBSET Agents : BeginSteps(S)
  \/ \E W \in SUBSET reading : EndSteps(W)
  \/ Turns
  \/ Crashes

RelSpec == RelInit /\ [][RelNext]_relVars

-----------------------------------------------------------------------------
Count(d) == IF bond[d] = None THEN 0 ELSE bond[d].count

(* Both sides of a pair remember the same number of turns, and it is the    *)
(* number of relational rows written since the process started: no turn is  *)
(* lost to a step that writes back the state it read before its await, none *)
(* reaches one side only, and none is felt whose row was refused.          *)
BondsMatchRows ==
  \A d \in Dyads : Count(d) = rows[Pair(d)] - boot[Pair(d)]

(* A belief in the database rests on enough recorded turns of the pair,     *)
(* though bonds are forgotten at a restart and beliefs are not; and what a  *)
(* bond shows as its belief is what the database holds, unless the last     *)
(* upsert for the dyad failed.                                             *)
BeliefsEarned ==
  \A d \in Dyads :
    /\ stored[d] # None => rows[Pair(d)] >= MinInteractions
    /\ (bond[d] # None /\ d \notin unsaved)
         => (bond[d].belief # None => stored[d] = bond[d].belief)

=============================================================================

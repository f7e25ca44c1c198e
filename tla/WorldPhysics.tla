---------------------------- MODULE WorldPhysics ----------------------------
(***************************************************************************)
(* Where agents are, and what they were told of it: the physics handler of  *)
(* WorldRuntime (walk, separate, sense) and the cognition steps that read a *)
(* position, await, write it back and set a destination.                    *)
(*                                                                         *)
(* The XZ plane is a line; distances are compared with the same thresholds  *)
(* in the same order.  Time of day is left out.                            *)
(***************************************************************************)
EXTENDS Integers, Sequences

CONSTANTS Agents,
          PairOrder,         \* combinations(_sorted_runtimes(), 2)
          Zones,
          Centre,            \* ZONE_CENTERS, also default_spawn
          Props,             \* where the props of ZONE_PROPS stand
          Speed,             \* what an agent walks in a physics tick
          Radius,            \* separation_radius_m
          Push,              \* _SEP_PUSH_M
          Near,              \* _PROXIMITY_THRESHOLD_M
          Reach,             \* _AFFORDANCE_RADIUS_M
          Extent,            \* bound: the stretch of the line looked at
          None

ASSUME WorldPhysicsAssumption ==
  /\ PairOrder \in Seq(Agents \X Agents)
  /\ Centre \in [Zones -> Int]
  /\ Props \subseteq Int
  /\ None \notin BOOLEAN

Pairs == {PairOrder[i] : i \in 1..Len(PairOrder)}

VARIABLES state,             \* AgentRuntime.state.position: [x, zone]
          kinematics,        \* AgentRuntime.kinematics.position
          destination,       \* AgentRuntime.kinematics.destination
          pairNear,          \* _pair_distances, by the side of the threshold
          propNear,          \* _agent_prop_distances, likewise
          reading,           \* the agents whose cycle.step is awaited
          copy,              \* the positions those steps read
          toldZone,          \* history: to_zone of the last zone event
          toldPair,          \* history: nearness as told by crossings
          toldProp,          \* history: an entry was told, and no leave since
          nudged             \* history: pushed since the last walk

senses == <<pairNear, propNear>>
told == <<toldZone, toldPair, toldProp, nudged>>
vars == <<state, kinematics, destination, senses, reading, copy, told>>

-----------------------------------------------------------------------------
Dist(x, y) == IF x < y THEN y - x ELSE x - y

(* locate_zone: the nearest centre *)
Located(x) == CHOOSE z \in Zones : \A w \in Zones : Dist(x, Centre[z]) =< Dist(x, Centre[w])

Unread == [a \in Agents |-> None]

(* Agents register at the spawn point of a zone, perhaps the same one. *)
Init ==
  /\ \E home \in [Agents -> Zones] :
       state = [a \in Agents |-> [x |-> Centre[home[a]], zone |-> Located(Centre[home[a]])]]
  /\ kinematics = state
  /\ destination = [a \in Agents |-> None]
  /\ pairNear = [p \in Pairs |-> None]
  /\ propNear = [r \in Agents \X Props |-> None]
  /\ reading = {}
  /\ copy = Unread
  /\ toldZone = [a \in Agents |-> state[a].zone]
  /\ toldPair = pairNear
  /\ toldProp = propNear
  /\ nudged = [a \in Agents |-> FALSE]

-----------------------------------------------------------------------------
(* step_kinematics: towards the destination, and onto it when in reach *)
Arrives(a) == destination[a] # None /\ Dist(kinematics[a].x, destination[a]) =< Speed

Advanced(a) ==
  IF Arrives(a) THEN destination[a]
  ELSE IF destination[a] < kinematics[a].x THEN kinematics[a].x - Speed
  ELSE kinematics[a].x + Speed

Walked ==
  [a \in Agents |->
     IF destination[a] = None THEN kinematics[a]
     ELSE [x |-> Advanced(a), zone |-> Located(Advanced(a))]]

(* _apply_separation_force: pair after pair, each seeing the pushes before  *)
Larger(r, s) == IF r < s THEN s ELSE r

PushedApart(at, p) ==
  LET away == IF at[p[1]].x < at[p[2]].x THEN -Push ELSE Push
  IN IF Dist(at[p[1]].x, at[p[2]].x) < Larger(Radius[p[1]], Radius[p[2]])
     THEN [at EXCEPT ![p[1]].x = @ + away, ![p[2]].x = @ - away]
     ELSE at

Separated(at) ==
  LET after[n \in 0..Len(PairOrder)] ==
        IF n = 0 THEN at ELSE PushedApart(after[n - 1], PairOrder[n])
  IN after[Len(PairOrder)]

SettledRelocated ==
  [a \in Agents |-> [x |-> Separated(Walked)[a].x, zone |-> Located(Separated(Walked)[a].x)]]

(* ... which moves x and z and leaves the zone tag as it was. *)
Settled == [a \in Agents |-> [x |-> Separated(Walked)[a].x, zone |-> Walked[a].zone]]

(* Where agents are when proximity and affordances are evaluated. *)
SensedBeforeSeparation == Walked

Sensed == Settled

PairIsNear(at, p) == Dist(at[p[1]].x, at[p[2]].x) < Near

PropIsNear(at, r) == Dist(at[r[1]].x, r[2]) < Reach

-----------------------------------------------------------------------------
AnybodySteps == TRUE

NobodySteps == reading = {}

(* A zone event goes to the agent whose walk changed its tag, a crossing to *)
(* both of a pair, an entry to the agent that came near a prop; the first   *)
(* time a distance is taken it is only remembered.                         *)
PhysicsTick ==
  /\ NobodySteps
  /\ \A a \in Agents : Settled[a].x \in 0..Extent
  /\ state' = Settled
  /\ kinematics' = Settled
  /\ destination' = [a \in Agents |-> IF Arrives(a) THEN None ELSE destination[a]]
  /\ toldZone' = [a \in Agents |->
       IF Walked[a].zone # kinematics[a].zone THEN Walked[a].zone ELSE toldZone[a]]
  /\ pairNear' = [p \in Pairs |-> PairIsNear(Sensed, p)]
  /\ toldPair' = [p \in Pairs |->
       IF pairNear[p] # PairIsNear(Sensed, p) THEN PairIsNear(Sensed, p) ELSE toldPair[p]]
  /\ propNear' = [r \in Agents \X Props |-> PropIsNear(Sensed, r)]
  /\ toldProp' = [r \in Agents \X Props |->
       IF propNear[r] # PropIsNear(Sensed, r) THEN PropIsNear(Sensed, r) ELSE toldProp[r]]
  /\ nudged' = [a \in Agents |->
       \/ Settled[a].x # Walked[a].x
       \/ nudged[a] /\ destination[a] = None]
  /\ UNCHANGED <<reading, copy>>

BeginSteps(S) ==
  /\ NobodySteps
  /\ S # {}
  /\ reading' = S
  /\ copy' = state
  /\ UNCHANGED <<state, kinematics, destination, senses, told>>

(* A MoveMsg carries the coordinates the step read and the zone to go to;   *)
(* if the coordinates are not in that zone, its spawn point is meant.      *)
Target(a, zone) == IF Located(copy[a].x) = zone THEN copy[a].x ELSE Centre[zone]

(* _consume_result for the steps of W, the others raised; goals names the   *)
(* agents that were told to move, and where.                               *)
EndSteps(W, goal) ==
  /\ W \subseteq reading
  /\ state' = [a \in Agents |-> IF a \in W THEN copy[a] ELSE state[a]]
  /\ kinematics' = [a \in Agents |-> IF a \in W THEN copy[a] ELSE kinematics[a]]
  /\ destination' = [a \in Agents |->
       IF a \in W /\ goal[a] # None THEN Target(a, goal[a]) ELSE destination[a]]
  /\ reading' = {}
  /\ copy' = Unread
  /\ UNCHANGED <<senses, told>>

Begin == \E S \in SUBSET Agents : BeginSteps(S)

End ==
  /\ reading # {}
  /\ \E W \in SUBSET reading : \E goal \in [W -> Zones \cup {None}] : EndSteps(W, goal)

Next == PhysicsTick \/ Begin \/ End

Spec == Init /\ [][Next]_vars

-----------------------------------------------------------------------------
(* An agent's zone tag is the zone its last zone event told it of, and the  *)
(* zone it stands in unless it was pushed since it last walked: the one way *)
(* the tag can be wrong.  The next event then starts from the tag, so the   *)
(* events an agent gets are a chain even across a border it was pushed over *)
ZonesTold ==
  \A a \in Agents :
    /\ toldZone[a] = state[a].zone
    /\ nudged[a] \/ state[a].zone = Located(state[a].x)

(* What two agents last heard of their distance is true of where they are   *)
(* now, pushes and written-back positions included, and so is that an agent *)
(* came near a prop and has not left it; for either, what was so when the   *)
(* distance was first taken counts as heard.                               *)
NearnessTold ==
  /\ \A p \in Pairs : pairNear[p] # None => toldPair[p] = PairIsNear(state, p)
  /\ \A r \in Agents \X Props : propNear[r] # None => toldProp[r] = PropIsNear(state, r)

=============================================================================

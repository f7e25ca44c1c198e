------------------------ MODULE WorldPhysics_proofs ------------------------
(***************************************************************************)
(* Proofs about WorldPhysics, for any number of agents and props, any       *)
(* radii, pushes and thresholds, and any order of the pairs.               *)
(***************************************************************************)
EXTENDS WorldPhysics, TLAPS

(* The two records of a position agree, a step that is awaited holds the    *)
(* position its agent still has, and what is remembered of a distance is    *)
(* what was told of it and what is so.                                     *)
PlacesAgree ==
  /\ state = kinematics
  /\ \A a \in reading : copy[a] = state[a]

PairsKnown ==
  \A p \in Pairs : pairNear[p] # None =>
    pairNear[p] = PairIsNear(state, p) /\ toldPair[p] = PairIsNear(state, p)

PropsKnown ==
  \A r \in Agents \X Props : propNear[r] # None =>
    propNear[r] = PropIsNear(state, r) /\ toldProp[r] = PropIsNear(state, r)

PhysInv == /\ reading \subseteq Agents /\ PlacesAgree
           /\ ZonesTold /\ PairsKnown /\ PropsKnown

-----------------------------------------------------------------------------
LEMMA PairsAreAgents == ASSUME NEW p \in Pairs PROVE p[1] \in Agents /\ p[2] \in Agents
<1>1. PICK i \in 1..Len(PairOrder) : p = PairOrder[i]
  BY DEF Pairs
<1>2. PairOrder[i] \in Agents \X Agents
  BY <1>1, WorldPhysicsAssumption
<1> QED
  BY <1>1, <1>2

LEMMA NearIsBoolean ==
  ASSUME NEW at
  PROVE  /\ \A p \in Pairs : PairIsNear(at, p) \in BOOLEAN
         /\ \A r \in Agents \X Props : PropIsNear(at, r) \in BOOLEAN
BY DEF PairIsNear, PropIsNear

(* A position that stays the same is told of as before. *)
LEMMA SameNear ==
  ASSUME NEW at, NEW bt, \A a \in Agents : at[a] = bt[a]
  PROVE  /\ \A p \in Pairs : PairIsNear(at, p) = PairIsNear(bt, p)
         /\ \A r \in Agents \X Props : PropIsNear(at, r) = PropIsNear(bt, r)
<1>1. ASSUME NEW p \in Pairs PROVE PairIsNear(at, p) = PairIsNear(bt, p)
  BY PairsAreAgents DEF PairIsNear
<1>2. ASSUME NEW r \in Agents \X Props PROVE PropIsNear(at, r) = PropIsNear(bt, r)
  <2>1. r[1] \in Agents
    OBVIOUS
  <2> QED
    BY <2>1 DEF PropIsNear
<1> QED
  BY <1>1, <1>2

LEMMA PhysInitInv == ASSUME Init PROVE PhysInv
<1>1. PlacesAgree /\ reading \subseteq Agents
  BY DEF Init, PlacesAgree
<1>2. ZonesTold
  <2>1. PICK home \in [Agents -> Zones] :
          state = [a \in Agents |-> [x |-> Centre[home[a]], zone |-> Located(Centre[home[a]])]]
    BY DEF Init
  <2>2. \A a \in Agents : state[a].zone = Located(state[a].x)
    BY <2>1
  <2>3. \A a \in Agents : toldZone[a] = state[a].zone
    BY DEF Init
  <2> QED
    BY <2>2, <2>3 DEF ZonesTold
<1>3. PairsKnown /\ PropsKnown
  BY DEF Init, PairsKnown, PropsKnown
<1> QED
  BY <1>1, <1>2, <1>3 DEF PhysInv

LEMMA TickKeeps == ASSUME PhysInv, PhysicsTick PROVE PhysInv'
<1>1. PlacesAgree' /\ reading' \subseteq Agents
  BY DEF PhysInv, PhysicsTick, NobodySteps, PlacesAgree
<1>2. ZonesTold'
  <2>1. ASSUME NEW a \in Agents
        PROVE  /\ toldZone'[a] = state'[a].zone
               /\ nudged'[a] \/ state'[a].zone = Located(state'[a].x)
    <3>1. /\ toldZone[a] = state[a].zone /\ kinematics[a] = state[a]
          /\ nudged[a] \/ state[a].zone = Located(state[a].x)
      BY DEF PhysInv, PlacesAgree, ZonesTold
    <3>2. state'[a].zone = Walked[a].zone /\ state'[a].x = Settled[a].x
      BY DEF PhysicsTick, Settled
    <3>3. toldZone'[a] = state'[a].zone
      BY <3>1, <3>2 DEF PhysicsTick
    <3>4. nudged'[a] <=> \/ Settled[a].x # Walked[a].x
                         \/ nudged[a] /\ destination[a] = None
      BY DEF PhysicsTick
    <3>5. CASE destination[a] = None
      <4>1. Walked[a] = kinematics[a]
        BY <3>5 DEF Walked
      <4> QED
        BY <3>1, <3>2, <3>3, <3>4, <3>5, <4>1
    <3>6. CASE destination[a] # None
      <4>1. Walked[a].zone = Located(Walked[a].x)
        BY <3>6 DEF Walked
      <4> QED
        BY <3>2, <3>3, <3>4, <4>1
    <3> QED
      BY <3>5, <3>6
  <2> QED
    BY <2>1 DEF ZonesTold
<1>3. PairsKnown'
  <2>1. ASSUME NEW p \in Pairs
        PROVE  pairNear'[p] = PairIsNear(state', p) /\ toldPair'[p] = PairIsNear(state', p)
    <3> DEFINE N == PairIsNear(Settled, p)
    <3>1. N \in BOOLEAN
      BY NearIsBoolean
    <3>2. state' = Settled
      BY DEF PhysicsTick
    <3>3. pairNear'[p] = N
      BY DEF PhysicsTick, Sensed
    <3>4. toldPair'[p] = IF pairNear[p] # N THEN N ELSE toldPair[p]
      BY DEF PhysicsTick, Sensed
    <3>5. pairNear[p] # None => toldPair[p] = pairNear[p]
      BY DEF PhysInv, PairsKnown
    <3>6. N # None
      BY <3>1, WorldPhysicsAssumption
    <3>7. PairIsNear(state', p) = N
      BY <3>2
    <3> HIDE DEF N
    <3> QED
      BY <3>3, <3>4, <3>5, <3>6, <3>7
  <2> QED
    BY <2>1 DEF PairsKnown
<1>4. PropsKnown'
  <2>1. ASSUME NEW r \in Agents \X Props
        PROVE  propNear'[r] = PropIsNear(state', r) /\ toldProp'[r] = PropIsNear(state', r)
    <3> DEFINE N == PropIsNear(Settled, r)
    <3>1. N \in BOOLEAN
      BY NearIsBoolean
    <3>2. state' = Settled
      BY DEF PhysicsTick
    <3>3. propNear'[r] = N
      BY DEF PhysicsTick, Sensed
    <3>4. toldProp'[r] = IF propNear[r] # N THEN N ELSE toldProp[r]
      BY DEF PhysicsTick, Sensed
    <3>5. propNear[r] # None => toldProp[r] = propNear[r]
      BY DEF PhysInv, PropsKnown
    <3>6. N # None
      BY <3>1, WorldPhysicsAssumption
    <3>7. PropIsNear(state', r) = N
      BY <3>2
    <3> HIDE DEF N
    <3> QED
      BY <3>3, <3>4, <3>5, <3>6, <3>7
  <2> QED
    BY <2>1 DEF PropsKnown
<1> QED
  BY <1>1, <1>2, <1>3, <1>4 DEF PhysInv

(* Beginning the steps and ending them leaves every agent where it was. *)
LEMMA SamePlaces ==
  ASSUME PhysInv, UNCHANGED <<senses, told>>, \A a \in Agents : state'[a] = state[a],
         state' = kinematics', reading' \subseteq Agents,
         \A a \in reading' : copy'[a] = state'[a]
  PROVE  PhysInv'
<1>1. /\ pairNear' = pairNear /\ propNear' = propNear /\ toldZone' = toldZone
      /\ toldPair' = toldPair /\ toldProp' = toldProp /\ nudged' = nudged
  BY DEF senses, told
<1>2. ZonesTold'
  BY <1>1 DEF PhysInv, ZonesTold
<1>3. /\ \A p \in Pairs : PairIsNear(state', p) = PairIsNear(state, p)
      /\ \A r \in Agents \X Props : PropIsNear(state', r) = PropIsNear(state, r)
  BY SameNear
<1>4. PairsKnown'
  BY <1>1, <1>3 DEF PhysInv, PairsKnown
<1>5. PropsKnown'
  BY <1>1, <1>3 DEF PhysInv, PropsKnown
<1> QED
  BY <1>2, <1>4, <1>5 DEF PhysInv, PlacesAgree

LEMMA PhysStep == ASSUME PhysInv, [Next]_vars PROVE PhysInv'
<1>1. CASE PhysicsTick
  BY <1>1, TickKeeps
<1>2. CASE Begin
  <2>1. PICK S \in SUBSET Agents : BeginSteps(S)
    BY <1>2 DEF Begin
  <2> QED
    BY <2>1, SamePlaces DEF BeginSteps, PhysInv, PlacesAgree
<1>3. CASE End
  <2>1. PICK W \in SUBSET reading : \E goal \in [W -> Zones \cup {None}] : EndSteps(W, goal)
    BY <1>3 DEF End
  <2>2. PICK goal \in [W -> Zones \cup {None}] : EndSteps(W, goal)
    BY <2>1
  <2>3. /\ state = kinematics /\ \A a \in W : copy[a] = state[a]
    BY DEF PhysInv, PlacesAgree
  <2>4. /\ state' = [a \in Agents |-> IF a \in W THEN copy[a] ELSE state[a]]
        /\ kinematics' = [a \in Agents |-> IF a \in W THEN copy[a] ELSE kinematics[a]]
        /\ reading' = {} /\ UNCHANGED <<senses, told>>
    BY <2>2 DEF EndSteps
  <2>5. state' = kinematics' /\ \A a \in Agents : state'[a] = state[a]
    BY <2>3, <2>4
  <2> QED
    BY <2>4, <2>5, SamePlaces
<1>4. CASE UNCHANGED vars
  BY <1>4, SamePlaces DEF vars, PhysInv, PlacesAgree
<1> QED
  BY <1>1, <1>2, <1>3, <1>4 DEF Next

LEMMA PhysInvKept == Spec => []PhysInv
<1>1. Init => PhysInv
  BY PhysInitInv
<1>2. PhysInv /\ [Next]_vars => PhysInv'
  BY PhysStep
<1> QED
  BY <1>1, <1>2, PTL DEF Spec

(* An agent's tag is what it was last told, and is wrong only after a push. *)
THEOREM ZonesKept == Spec => []ZonesTold
<1>1. PhysInv => ZonesTold
  BY DEF PhysInv
<1> QED
  BY <1>1, PhysInvKept, PTL

(* What was last told of a distance is true of where the agents are.       *)
THEOREM NearnessKept == Spec => []NearnessTold
<1>1. PhysInv => NearnessTold
  BY DEF PhysInv, PairsKnown, PropsKnown, NearnessTold
<1> QED
  BY <1>1, PhysInvKept, PTL

=============================================================================

------------------------- MODULE Individual_proofs -------------------------
(***************************************************************************)
(* Proofs about Relations and WorldModel, each on its own, and about their   *)
(* composition, which implements both.                                     *)
(***************************************************************************)
EXTENDS Individual, TLAPS

-----------------------------------------------------------------------------
(* Dyads and pairs *)

LEMMA DyadFacts ==
  ASSUME NEW d \in Dyads
  PROVE  /\ Back(d) \in Dyads
         /\ Back(d) # d
         /\ Pair(d) \in Pairs
         /\ Pair(Back(d)) = Pair(d)
BY DEF Dyads, Back, Pair, Pairs

LEMMA SamePair ==
  ASSUME NEW d \in Dyads, NEW e \in Dyads, Pair(e) = Pair(d)
  PROVE  e \in {d, Back(d)}
<1>1. PICK a \in Agents, b \in Agents : d = <<a, b>> /\ a # b
  BY DEF Dyads
<1>2. PICK p \in Agents, q \in Agents : e = <<p, q>> /\ p # q
  BY DEF Dyads
<1>3. {p, q} = {a, b}
  BY <1>1, <1>2 DEF Pair
<1>4. (p = a /\ q = b) \/ (p = b /\ q = a)
  BY <1>1, <1>2, <1>3
<1> QED
  BY <1>1, <1>2, <1>4 DEF Back

LEMMA ClampInScale ==
  ASSUME NEW x \in Int
  PROVE  Clamp(x, -One, One) \in Scale
BY SignedAssumption DEF Clamp, Scale

LEMMA ClassifiedType == ASSUME NEW x PROVE Classified(x) \in Kinds
<1>1. CASE x >= TrustFloor
  BY <1>1 DEF Classified, Kinds
<1>2. CASE ~(x >= TrustFloor)
  BY <1>2 DEF Classified, Kinds
<1> QED
  BY <1>1, <1>2

-----------------------------------------------------------------------------
(* What a turn makes of a bond *)

LEMMA FeelsType ==
  ASSUME RelTypeOK, NEW d \in Dyads
  PROVE  Feels(d) \subseteq Scale
<1>1. Affinity(d) \in Int
  BY SignedAssumption DEF RelTypeOK, Affinity, Bond, Scale
<1>2. ASSUME NEW i \in Impact[d[1]]
      PROVE  Clamp(Affinity(d) + i, -One, One) \in Scale
  <2>1. i \in Int
    BY RelationsAssumption DEF Dyads
  <2> QED
    BY <1>1, <2>1, ClampInScale
<1> QED
  BY <1>2 DEF Feels

LEMMA FeelingsType ==
  ASSUME RelTypeOK, NEW d \in Dyads, NEW x \in Feelings(d)
  PROVE  x \in [{d, Back(d)} -> Scale]
<1>1. Feels(d) \subseteq Scale /\ Feels(Back(d)) \subseteq Scale
  BY DyadFacts, FeelsType
<1> QED
  BY <1>1 DEF Feelings

LEMMA TurnedFacts ==
  ASSUME RelTypeOK, NEW e \in Dyads, NEW y \in Scale, NEW z \in Zones
  PROVE  /\ Turned(e, y, z) \in Bond
         /\ Turned(e, y, z).affinity = y
         /\ Turned(e, y, z).count = Count(e) + 1
         /\ Turned(e, y, z).belief = IF bond[e] = None THEN None ELSE bond[e].belief
<1>1. CASE bond[e] = None
  BY <1>1 DEF Turned, Bond, Count
<1>2. CASE bond[e] # None
  <2>1. bond[e] \in Bond
    BY <1>2 DEF RelTypeOK
  <2>2. bond[e].count \in Nat \ {0} /\ bond[e].belief \in Kinds \cup {None}
    BY <2>1 DEF Bond
  <2> QED
    BY <1>2, <2>2 DEF Turned, Bond, Count
<1> QED
  BY <1>1, <1>2

LEMMA StampedFacts ==
  ASSUME NEW b \in Bond
  PROVE  /\ Stamped(b) \in Bond
         /\ Stamped(b).count = b.count
         /\ Stamped(b).belief = IF Promotes(b) THEN Classified(b.affinity) ELSE b.belief
<1>1. Classified(b.affinity) \in Kinds
  BY ClassifiedType
<1> QED
  BY <1>1 DEF Stamped, Bond

-----------------------------------------------------------------------------
(* The inductive invariant: while steps are awaited, what they read is what *)
(* there is, so that writing it back changes no bond.                       *)

CopyKept == \A d \in Dyads : d[1] \in reading => copy[d] = bond[d]

RelInv == RelTypeOK /\ CopyKept /\ BondsMatchRows /\ BeliefsEarned

LEMMA RelInitInv == ASSUME RelInit PROVE RelInv
<1>1. RelTypeOK
  BY DEF RelInit, RelTypeOK, NoBonds
<1>2. CopyKept
  BY DEF RelInit, CopyKept
<1>3. BondsMatchRows
  <2>1. ASSUME NEW d \in Dyads
        PROVE  Count(d) = rows[Pair(d)] - boot[Pair(d)]
    <3>1. Pair(d) \in Pairs
      BY DyadFacts
    <3> QED
      BY <3>1 DEF RelInit, Count, NoBonds
  <2> QED
    BY <2>1 DEF BondsMatchRows
<1>4. BeliefsEarned
  BY DEF RelInit, BeliefsEarned, NoBonds
<1> QED
  BY <1>1, <1>2, <1>3, <1>4 DEF RelInv

LEMMA BeginKeeps ==
  ASSUME RelInv, NEW S \in SUBSET Agents, BeginSteps(S)
  PROVE  RelInv'
<1>1. RelTypeOK'
  BY DEF RelInv, RelTypeOK, BeginSteps, tables
<1>2. CopyKept'
  BY DEF BeginSteps, CopyKept
<1>3. BondsMatchRows' /\ BeliefsEarned'
  BY DEF RelInv, BeginSteps, tables, BondsMatchRows, BeliefsEarned, Count
<1> QED
  BY <1>1, <1>2, <1>3 DEF RelInv

LEMMA EndKeeps ==
  ASSUME RelInv, NEW W \in SUBSET reading, EndSteps(W)
  PROVE  RelInv'
<1>1. bond' = bond
  <2>1. bond \in [Dyads -> Bond \cup {None}]
    BY DEF RelInv, RelTypeOK
  <2>2. \A d \in Dyads : d[1] \in W => copy[d] = bond[d]
    BY DEF RelInv, CopyKept
  <2>3. bond' = [d \in Dyads |-> IF d[1] \in W THEN copy[d] ELSE bond[d]]
    BY DEF EndSteps
  <2>4. bond' = [d \in Dyads |-> bond[d]]
    BY <2>2, <2>3
  <2> QED
    BY <2>1, <2>4
<1>2. RelTypeOK'
  BY <1>1 DEF RelInv, RelTypeOK, EndSteps, tables, NoBonds
<1>3. CopyKept'
  BY DEF EndSteps, CopyKept
<1>4. BondsMatchRows' /\ BeliefsEarned'
  BY <1>1 DEF RelInv, EndSteps, tables, BondsMatchRows, BeliefsEarned, Count
<1> QED
  BY <1>2, <1>3, <1>4 DEF RelInv

LEMMA LostRowKeeps ==
  ASSUME RelInv, NEW d \in Dyads, TurnWithoutRelation(d)
  PROVE  RelInv'
<1>1. RelTypeOK'
  <2>1. Pair(d) \in Pairs /\ turnRows \in [Pairs -> Nat]
    BY DyadFacts DEF RelInv, RelTypeOK
  <2>2. turnRows' = [turnRows EXCEPT ![Pair(d)] = @ + 1]
    BY DEF TurnWithoutRelation
  <2>3. turnRows' \in [Pairs -> Nat]
    BY <2>1, <2>2
  <2> QED
    BY <2>3 DEF RelInv, RelTypeOK, TurnWithoutRelation
<1>2. CopyKept' /\ BondsMatchRows' /\ BeliefsEarned'
  BY DEF RelInv, TurnWithoutRelation, CopyKept, BondsMatchRows, BeliefsEarned, Count
<1> QED
  BY <1>1, <1>2 DEF RelInv

(* The rows of a pair after one more relational row of d. *)
LEMMA RowAdded ==
  ASSUME RelTypeOK, NEW d \in Dyads,
         rows' = [rows EXCEPT ![Pair(d)] = @ + 1]
  PROVE  /\ rows' \in [Pairs -> Nat]
         /\ \A e \in {d, Back(d)} : rows'[Pair(e)] = rows[Pair(e)] + 1
         /\ \A e \in Dyads \ {d, Back(d)} : rows'[Pair(e)] = rows[Pair(e)]
<1>1. Pair(d) \in Pairs /\ Pair(Back(d)) = Pair(d)
  BY DyadFacts
<1>2. rows \in [Pairs -> Nat]
  BY DEF RelTypeOK
<1>3. ASSUME NEW e \in Dyads \ {d, Back(d)}
      PROVE  rows'[Pair(e)] = rows[Pair(e)]
  <2>1. Pair(e) # Pair(d)
    BY SamePair
  <2>2. Pair(e) \in Pairs
    BY DyadFacts
  <2> QED
    BY <1>2, <2>1, <2>2
<1> QED
  BY <1>1, <1>2, <1>3

LEMMA UpsertedFacts ==
  ASSUME RelTypeOK, NEW saved, NEW x
  PROVE  /\ Upserted(saved, x) \in [Dyads -> Kinds \cup {None}]
         /\ \A e \in Dyads : Upserted(saved, x)[e] =
               IF e \in saved THEN Classified(x[e]) ELSE stored[e]
<1>1. \A e \in Dyads : Classified(x[e]) \in Kinds
  BY ClassifiedType
<1> QED
  BY <1>1 DEF Upserted, RelTypeOK

(* A promoted dyad has counted enough turns, and rows are never fewer. *)
LEMMA PromotedEarned ==
  ASSUME RelInv, NEW d \in Dyads, NEW x \in Feelings(d), NEW z \in Zones,
         NEW e \in Promoted(d, x, z)
  PROVE  e \in Dyads /\ e \in {d, Back(d)} /\ rows[Pair(e)] + 1 >= MinInteractions
<1>1. e \in {d, Back(d)} /\ Promotes(Turned(e, x[e], z))
  BY DEF Promoted
<1>2. e \in Dyads
  BY <1>1, DyadFacts
<1>3. x[e] \in Scale
  <2>1. RelTypeOK
    BY DEF RelInv
  <2>2. x \in [{d, Back(d)} -> Scale]
    BY <2>1, FeelingsType
  <2> QED
    BY <1>1, <2>2
<1>4. Count(e) + 1 >= MinInteractions
  <2>1. RelTypeOK
    BY DEF RelInv
  <2>2. Turned(e, x[e], z).count = Count(e) + 1
    BY <1>2, <1>3, <2>1, TurnedFacts
  <2>3. Turned(e, x[e], z).count >= MinInteractions
    BY <1>1 DEF Promotes
  <2> QED
    BY <2>2, <2>3
<1>5. Count(e) = rows[Pair(e)] - boot[Pair(e)]
  BY <1>2 DEF RelInv, BondsMatchRows
<1>6. rows[Pair(e)] \in Nat /\ boot[Pair(e)] \in Nat
  BY <1>2, DyadFacts DEF RelInv, RelTypeOK
<1>7. MinInteractions \in Nat
  BY RelationsAssumption
<1> QED
  BY <1>1, <1>2, <1>4, <1>5, <1>6, <1>7


LEMMA BondedFacts ==
  ASSUME RelInv, NEW d \in Dyads, NEW x \in Feelings(d), NEW z \in Zones
  PROVE  /\ Bonded(d, x, z) \in [Dyads -> Bond \cup {None}]
         /\ \A e \in {d, Back(d)} :
              /\ e \in Dyads
              /\ Bonded(d, x, z)[e] \in Bond
              /\ Bonded(d, x, z)[e].count = Count(e) + 1
              /\ Bonded(d, x, z)[e].belief =
                   IF e \in Promoted(d, x, z) THEN Classified(x[e])
                   ELSE IF bond[e] = None THEN None ELSE bond[e].belief
         /\ \A e \in Dyads \ {d, Back(d)} : Bonded(d, x, z)[e] = bond[e]
<1>1. RelTypeOK
  BY DEF RelInv
<1>2. ASSUME NEW e \in {d, Back(d)}
      PROVE  /\ e \in Dyads
             /\ Bonded(d, x, z)[e] \in Bond
             /\ Bonded(d, x, z)[e].count = Count(e) + 1
             /\ Bonded(d, x, z)[e].belief =
                  IF e \in Promoted(d, x, z) THEN Classified(x[e])
                  ELSE IF bond[e] = None THEN None ELSE bond[e].belief
  <2>1. e \in Dyads
    BY DyadFacts
  <2>2. x[e] \in Scale
    <3>1. x \in [{d, Back(d)} -> Scale]
      BY <1>1, FeelingsType
    <3> QED
      BY <3>1
  <2> DEFINE b == Turned(e, x[e], z)
  <2>3. /\ b \in Bond /\ b.affinity = x[e] /\ b.count = Count(e) + 1
        /\ b.belief = IF bond[e] = None THEN None ELSE bond[e].belief
    BY <1>1, <2>1, <2>2, TurnedFacts
  <2>4. e \in Promoted(d, x, z) <=> Promotes(b)
    BY DEF Promoted
  <2>5. Bonded(d, x, z)[e] = Stamped(b)
    BY <2>1 DEF Bonded
  <2> HIDE DEF b
  <2>6. /\ Stamped(b) \in Bond /\ Stamped(b).count = b.count
        /\ Stamped(b).belief = IF Promotes(b) THEN Classified(b.affinity) ELSE b.belief
    BY <2>3, StampedFacts
  <2> QED
    BY <2>1, <2>3, <2>4, <2>5, <2>6
<1>3. \A e \in Dyads \ {d, Back(d)} : Bonded(d, x, z)[e] = bond[e]
  BY DEF Bonded
<1>4. \A e \in Dyads : Bonded(d, x, z)[e] \in Bond \cup {None}
  BY <1>1, <1>2, <1>3 DEF RelTypeOK
<1>5. Bonded(d, x, z) = [e \in Dyads |-> Bonded(d, x, z)[e]]
  BY DEF Bonded
<1> QED
  BY <1>2, <1>3, <1>4, <1>5

LEMMA TurnKeeps ==
  ASSUME RelInv, NEW d \in Dyads, NEW x \in Feelings(d), NEW z \in Zones,
         NEW lost \in SUBSET Promoted(d, x, z), Turn(d, x, z, lost)
  PROVE  RelInv'
<1> DEFINE P == Promoted(d, x, z)
<1>1. /\ reading = {} /\ reading' = reading /\ copy' = copy /\ boot' = boot
      /\ bond' = Bonded(d, x, z)
      /\ stored' = Upserted(P \ lost, x)
      /\ unsaved' = (unsaved \ P) \cup lost
      /\ turnRows' = [turnRows EXCEPT ![Pair(d)] = @ + 1]
      /\ rows' = [rows EXCEPT ![Pair(d)] = @ + 1]
  BY DEF Turn, NobodySteps
<1>2. RelTypeOK /\ BondsMatchRows /\ BeliefsEarned
  BY DEF RelInv
<1>3. P \subseteq {d, Back(d)} /\ {d, Back(d)} \subseteq Dyads
  BY DyadFacts DEF Promoted
<1>4. /\ rows' \in [Pairs -> Nat]
      /\ \A e \in {d, Back(d)} : rows'[Pair(e)] = rows[Pair(e)] + 1
      /\ \A e \in Dyads \ {d, Back(d)} : rows'[Pair(e)] = rows[Pair(e)]
  BY <1>1, <1>2, RowAdded
<1>5. /\ stored' \in [Dyads -> Kinds \cup {None}]
      /\ \A e \in Dyads : stored'[e] = IF e \in P \ lost THEN Classified(x[e]) ELSE stored[e]
  BY <1>1, <1>2, UpsertedFacts
<1>6. /\ bond' \in [Dyads -> Bond \cup {None}]
      /\ \A e \in {d, Back(d)} :
           /\ bond'[e] \in Bond
           /\ bond'[e].count = Count(e) + 1
           /\ bond'[e].belief = IF e \in P THEN Classified(x[e])
                                ELSE IF bond[e] = None THEN None ELSE bond[e].belief
      /\ \A e \in Dyads \ {d, Back(d)} : bond'[e] = bond[e]
  BY <1>1, BondedFacts
<1>7. \A e \in P : rows[Pair(e)] + 1 >= MinInteractions
  BY PromotedEarned
<1> HIDE DEF P
<1>8. RelTypeOK'
  <2>1. turnRows' \in [Pairs -> Nat]
    BY <1>1, <1>2, DyadFacts DEF RelTypeOK
  <2>2. unsaved' \subseteq Dyads
    BY <1>1, <1>2, <1>3 DEF RelTypeOK, P
  <2>3. boot' \in [Pairs -> Nat] /\ copy' \in [Dyads -> Bond \cup {None}] /\ reading' \subseteq Agents
    BY <1>1, <1>2 DEF RelTypeOK
  <2> QED
    BY <1>4, <1>5, <1>6, <2>1, <2>2, <2>3 DEF RelTypeOK
<1>9. CopyKept'
  BY <1>1 DEF CopyKept
<1>10. BondsMatchRows'
  <2>1. ASSUME NEW e \in Dyads PROVE Count(e)' = rows'[Pair(e)] - boot'[Pair(e)]
    <3>1. /\ Count(e) = rows[Pair(e)] - boot[Pair(e)]
          /\ rows[Pair(e)] \in Nat /\ boot[Pair(e)] \in Nat
      BY <1>2, DyadFacts DEF BondsMatchRows, RelTypeOK
    <3>2. CASE e \in {d, Back(d)}
      <4>1. Count(e)' = Count(e) + 1
        BY <1>6, <3>2, NoBondAssumption DEF Count
      <4> QED
        BY <1>1, <1>4, <3>1, <3>2, <4>1
    <3>3. CASE e \notin {d, Back(d)}
      <4>1. Count(e)' = Count(e)
        BY <1>6, <3>3 DEF Count
      <4> QED
        BY <1>1, <1>4, <3>1, <3>3, <4>1
    <3> QED
      BY <3>2, <3>3
  <2> QED
    BY <2>1 DEF BondsMatchRows
<1>11. BeliefsEarned'
  <2>1. ASSUME NEW e \in Dyads, stored'[e] # None PROVE rows'[Pair(e)] >= MinInteractions
    <3>1. rows[Pair(e)] \in Nat /\ MinInteractions \in Nat
      BY <1>2, DyadFacts, RelationsAssumption DEF RelTypeOK
    <3>2. CASE e \in P
      BY <1>3, <1>4, <1>7, <3>2 DEF P
    <3>3. CASE e \notin P
      <4>1. rows[Pair(e)] >= MinInteractions
        BY <1>2, <1>5, <2>1, <3>3 DEF BeliefsEarned
      <4>2. rows'[Pair(e)] \in {rows[Pair(e)], rows[Pair(e)] + 1}
        BY <1>4
      <4> QED
        BY <3>1, <4>1, <4>2
    <3> QED
      BY <3>2, <3>3
  <2>2. ASSUME NEW e \in Dyads, bond'[e] # None, e \notin unsaved', bond'[e].belief # None
        PROVE  stored'[e] = bond'[e].belief
    <3>1. CASE e \in P
      <4>1. e \in {d, Back(d)} /\ e \notin lost
        BY <1>1, <1>3, <2>2, <3>1 DEF P
      <4> QED
        BY <1>5, <1>6, <3>1, <4>1
    <3>2. CASE e \notin P
      <4>1. e \notin unsaved /\ stored'[e] = stored[e]
        BY <1>1, <1>5, <2>2, <3>2
      <4>2. bond[e] # None /\ bond'[e].belief = bond[e].belief
        <5>1. CASE e \in {d, Back(d)}
          BY <1>6, <2>2, <3>2, <5>1
        <5>2. CASE e \notin {d, Back(d)}
          BY <1>6, <2>2, <5>2
        <5> QED
          BY <5>1, <5>2
      <4> QED
        BY <1>2, <2>2, <4>1, <4>2 DEF BeliefsEarned
    <3> QED
      BY <3>1, <3>2
  <2> QED
    BY <2>1, <2>2 DEF BeliefsEarned
<1> QED
  BY <1>8, <1>9, <1>10, <1>11 DEF RelInv

LEMMA CrashKeeps ==
  ASSUME RelInv, Crash
  PROVE  RelInv'
<1>1. RelTypeOK'
  BY DEF RelInv, RelTypeOK, Crash, Reboot, tables, NoBonds
<1>2. CopyKept'
  BY DEF Crash, Reboot, CopyKept
<1>3. BondsMatchRows'
  <2>1. \A e \in Dyads : Count(e)' = 0 /\ boot'[Pair(e)] = rows'[Pair(e)]
    BY DEF Crash, Reboot, NoBonds, Count
  <2>2. \A e \in Dyads : rows'[Pair(e)] \in Nat
    BY <1>1, DyadFacts DEF RelTypeOK
  <2> QED
    BY <2>1, <2>2 DEF BondsMatchRows
<1>4. BeliefsEarned'
  BY DEF RelInv, BeliefsEarned, Crash, Reboot, tables, NoBonds
<1> QED
  BY <1>1, <1>2, <1>3, <1>4 DEF RelInv

LEMMA CrashInTurnKeeps ==
  ASSUME RelInv, NEW d \in Dyads, NEW x \in Feelings(d), NEW z \in Zones,
         NEW saved \in SUBSET Promoted(d, x, z), CrashInTurn(d, x, z, saved)
  PROVE  RelInv'
<1> DEFINE Done == rows' = [rows EXCEPT ![Pair(d)] = @ + 1] /\ stored' = Upserted(saved, x)
<1>1. /\ bond' = NoBonds /\ copy' = NoBonds /\ reading' = {} /\ boot' = rows' /\ unsaved' = {}
      /\ turnRows' = [turnRows EXCEPT ![Pair(d)] = @ + 1]
      /\ Done \/ (rows' = rows /\ stored' = stored)
  BY DEF CrashInTurn, Reboot
<1>2. RelTypeOK /\ BeliefsEarned
  BY DEF RelInv
<1>3. \A e \in saved : e \in {d, Back(d)} /\ rows[Pair(e)] + 1 >= MinInteractions
  BY PromotedEarned
<1>4. Done => /\ rows' \in [Pairs -> Nat]
              /\ \A e \in {d, Back(d)} : rows'[Pair(e)] = rows[Pair(e)] + 1
              /\ \A e \in Dyads \ {d, Back(d)} : rows'[Pair(e)] = rows[Pair(e)]
  BY <1>2, RowAdded
<1>5. Done => /\ stored' \in [Dyads -> Kinds \cup {None}]
              /\ \A e \in Dyads : stored'[e] = IF e \in saved THEN Classified(x[e]) ELSE stored[e]
  BY <1>2, UpsertedFacts
<1> HIDE DEF Done
<1>6. RelTypeOK'
  <2>1. turnRows' \in [Pairs -> Nat]
    BY <1>1, <1>2, DyadFacts DEF RelTypeOK
  <2>2. rows' \in [Pairs -> Nat] /\ stored' \in [Dyads -> Kinds \cup {None}]
    BY <1>1, <1>2, <1>4, <1>5 DEF RelTypeOK
  <2> QED
    BY <1>1, <2>1, <2>2 DEF RelTypeOK, NoBonds
<1>7. CopyKept'
  BY <1>1 DEF CopyKept
<1>8. BondsMatchRows'
  <2>1. \A e \in Dyads : Count(e)' = 0
    BY <1>1 DEF NoBonds, Count
  <2>2. \A e \in Dyads : rows'[Pair(e)] \in Nat
    BY <1>6, DyadFacts DEF RelTypeOK
  <2> QED
    BY <1>1, <2>1, <2>2 DEF BondsMatchRows
<1>9. BeliefsEarned'
  <2>1. ASSUME NEW e \in Dyads, stored'[e] # None PROVE rows'[Pair(e)] >= MinInteractions
    <3>1. rows[Pair(e)] \in Nat /\ MinInteractions \in Nat
      BY <1>2, DyadFacts, RelationsAssumption DEF RelTypeOK
    <3>2. CASE ~Done
      BY <1>1, <1>2, <2>1, <3>2 DEF BeliefsEarned
    <3>3. CASE Done /\ e \in saved
      BY <1>3, <1>4, <3>3
    <3>4. CASE Done /\ e \notin saved
      <4>1. rows[Pair(e)] >= MinInteractions
        BY <1>2, <1>5, <2>1, <3>4 DEF BeliefsEarned
      <4>2. rows'[Pair(e)] \in {rows[Pair(e)], rows[Pair(e)] + 1}
        BY <1>4, <3>4
      <4> QED
        BY <3>1, <4>1, <4>2
    <3> QED
      BY <3>2, <3>3, <3>4
  <2>2. \A e \in Dyads : bond'[e] = None
    BY <1>1 DEF NoBonds
  <2> QED
    BY <2>1, <2>2 DEF BeliefsEarned
<1> QED
  BY <1>6, <1>7, <1>8, <1>9 DEF RelInv

LEMMA RelStep == ASSUME RelInv, [RelNext]_relVars PROVE RelInv'
<1>1. CASE \E S \in SUBSET Agents : BeginSteps(S)
  BY <1>1, BeginKeeps
<1>2. CASE \E W \in SUBSET reading : EndSteps(W)
  BY <1>2, EndKeeps
<1>3. CASE Turns
  <2>1. PICK d \in Dyads :
          \/ TurnWithoutRelation(d)
          \/ \E x \in Feelings(d), z \in Zones :
               \E lost \in SUBSET Promoted(d, x, z) : Turn(d, x, z, lost)
    BY <1>3 DEF Turns
  <2> QED
    BY <2>1, LostRowKeeps, TurnKeeps
<1>4. CASE Crashes
  <2>1. CASE Crash
    BY <2>1, CrashKeeps
  <2>2. CASE ~Crash
    <3>1. PICK d \in Dyads :
            \E x \in Feelings(d), z \in Zones :
              \E saved \in SUBSET Promoted(d, x, z) : CrashInTurn(d, x, z, saved)
      BY <1>4, <2>2 DEF Crashes
    <3> QED
      BY <3>1, CrashInTurnKeeps
  <2> QED
    BY <2>1, <2>2
<1>5. CASE UNCHANGED relVars
  BY <1>5 DEF relVars, tables, RelInv, RelTypeOK, CopyKept, BondsMatchRows, BeliefsEarned, Count
<1> QED
  BY <1>1, <1>2, <1>3, <1>4, <1>5 DEF RelNext

(* However dialog turns, failing sinks, crashes and the steps of any agents *)
(* follow one another, the relations keep their types, both sides of a pair *)
(* count the rows written since the start, and beliefs were earned.        *)
THEOREM RelationsKept == RelSpec => [](RelTypeOK /\ BondsMatchRows /\ BeliefsEarned)
<1>1. RelInit => RelInv
  BY RelInitInv
<1>2. RelInv /\ [RelNext]_relVars => RelInv'
  BY RelStep
<1>3. RelInv => RelTypeOK /\ BondsMatchRows /\ BeliefsEarned
  BY DEF RelInv
<1> QED
  BY <1>1, <1>2, <1>3, PTL DEF RelSpec

-----------------------------------------------------------------------------
(* The composition *)

(* The individual layer only reads the relations: with the world model of   *)
(* an agent added to its steps (bootstrap.py's chain of sinks is the same   *)
(* in both wirings), every behaviour is one of the relations alone.        *)
THEOREM LayerOnlyReads == Spec => RelSpec
<1>1. Init => RelInit
  BY DEF Init
<1>2. [Next]_vars => [RelNext]_relVars
  <2>1. Begin => RelNext
    BY DEF Begin, RelNext
  <2>2. End => RelNext
    BY DEF End, RelNext
  <2>3. Speak => RelNext
    BY DEF Speak, RelNext
  <2>4. Restart => RelNext
    BY DEF Restart, RelNext
  <2>5. UNCHANGED vars => UNCHANGED relVars
    BY DEF vars
  <2> QED
    BY <2>1, <2>2, <2>3, <2>4, <2>5 DEF Next
<1> QED
  BY <1>1, <1>2, PTL DEF Spec, RelSpec

(* Both sides of a pair remember the turns recorded since the start.       *)
THEOREM BondsCounted == Spec => []BondsMatchRows
BY LayerOnlyReads, RelationsKept, PTL

(* Every stored belief was earned, and bonds show what is stored.          *)
THEOREM BeliefsKept == Spec => []BeliefsEarned
BY LayerOnlyReads, RelationsKept, PTL

-----------------------------------------------------------------------------
(* The world model: one entry *)

LEMMA CappedFacts ==
  ASSUME NEW x \in Int, NEW v \in Scale
  PROVE  /\ Capped(x, v) \in Scale
         /\ Capped(x, v) - v \in -Cap..Cap
         /\ Sign(x) \in {0, Sign(v)} => Sign(Capped(x, v)) \in {0, Sign(v)}
<1> DEFINE lo == Clamp(v - Cap, -One, One)
           hi == Clamp(v + Cap, -One, One)
<1>1. One \in Nat \ {0} /\ Cap \in Nat /\ v \in Int /\ -One =< v /\ v =< One
  BY SignedAssumption, WorldModelAssumption DEF Scale
<1>2. /\ lo \in Int /\ -One =< lo /\ v - Cap =< lo /\ lo =< v
      /\ hi \in Int /\ hi =< One /\ hi =< v + Cap /\ v =< hi
  BY <1>1 DEF Clamp
<1>3. Capped(x, v) = Clamp(x, lo, hi)
  BY DEF Capped
<1> HIDE DEF lo, hi
<1>4. Capped(x, v) \in Int /\ lo =< Capped(x, v) /\ Capped(x, v) =< hi
  BY <1>1, <1>2, <1>3 DEF Clamp
<1>5. Capped(x, v) = x \/ (Capped(x, v) = lo /\ x < lo) \/ (Capped(x, v) = hi /\ x > hi)
  BY <1>1, <1>2, <1>3 DEF Clamp
<1> HIDE DEF Capped
<1>6. Sign(x) \in {0, Sign(v)} => Sign(Capped(x, v)) \in {0, Sign(v)}
  BY <1>1, <1>2, <1>4, <1>5 DEF Sign
<1> QED
  BY <1>1, <1>2, <1>4, <1>6 DEF Scale

LEMMA NudgeFacts ==
  ASSUME NEW x \in Scale
  PROVE  /\ Strengthened(x) \in Scale /\ Weakened(x) \in Scale
         /\ Sign(Strengthened(x)) = Sign(x)
         /\ Sign(Weakened(x)) \in {0, Sign(x)}
<1>1. One \in Nat \ {0} /\ Step \in Nat \ {0} /\ x \in Int /\ -One =< x /\ x =< One
  BY SignedAssumption, WorldModelAssumption DEF Scale
<1>2. CASE x > 0
  BY <1>1, <1>2 DEF Strengthened, Weakened, Clamp, Sign, Scale
<1>3. CASE x < 0
  BY <1>1, <1>3 DEF Strengthened, Weakened, Clamp, Sign, Scale
<1>4. CASE x = 0
  BY <1>1, <1>4 DEF Strengthened, Weakened, Clamp, Sign, Scale
<1> QED
  BY <1>1, <1>2, <1>3, <1>4

(* What one reconciliation makes of an entry, in either arm. *)
LEMMA GroundedFacts ==
  ASSUME NEW new \in Floor
  PROVE  /\ Grounded(new) \in Entry
         /\ Grounded(new).value = new.value
         /\ Grounded(new).mod = new.value
         /\ Grounded(new).age = Never
         /\ new.value \in Scale
         /\ new.value - new.value \in -Cap..Cap
<1>1. new.value \in Scale /\ new.print \in Prints
  BY DEF Floor
<1>2. new.value \in Int /\ Cap \in Nat
  BY <1>1, WorldModelAssumption, SignedAssumption DEF Scale
<1> QED
  BY <1>1, <1>2 DEF Grounded, Entry

LEMMA FrozenFacts ==
  ASSUME NEW old \in Entry, NEW new \in Floor,
         Sign(old.mod) \in {0, Sign(old.value)}
  PROVE  LET e == FrozenEntry(old, new)
         IN  /\ e \in Entry
             /\ e.value = new.value
             /\ e.mod - e.value \in -Cap..Cap
             /\ Sign(e.mod) \in {0, Sign(e.value)}
             /\ e.mod # new.value => ~Changed(old, new)
<1>1. CASE Changed(old, new)
  BY <1>1, GroundedFacts DEF FrozenEntry
<1>2. CASE ~Changed(old, new)
  <2>1. old.value = new.value /\ new.value \in Scale /\ old.mod \in Int
    BY <1>2, SignedAssumption DEF Changed, Floor, Entry, Scale
  <2> DEFINE m == Capped(old.mod, new.value)
  <2>2. m \in Scale /\ m - new.value \in -Cap..Cap /\ Sign(m) \in {0, Sign(new.value)}
    BY <2>1, CappedFacts
  <2>3. FrozenEntry(old, new) = [Grounded(new) EXCEPT !.mod = m]
    BY <1>2 DEF FrozenEntry
  <2> HIDE DEF m
  <2>4. FrozenEntry(old, new) = [value |-> new.value, print |-> new.print, mod |-> m, age |-> Never]
    BY <2>3 DEF Grounded
  <2> QED
    BY <1>2, <2>2, <2>4 DEF Entry, Floor
<1> QED
  BY <1>1, <1>2

LEMMA AgeFacts ==
  ASSUME NEW old \in Entry, NEW new
  PROVE  /\ Age(old, new) \in Nat \cup {Never}
         /\ old.age # Never => old.age \in Nat /\ Age(old, new) = old.age + 1
         /\ Changed(old, new) => Age(old, new) \in Nat
<1>1. old.age \in Nat \cup {Never}
  BY DEF Entry
<1> QED
  BY <1>1 DEF Age, Never

LEMMA StmFacts ==
  ASSUME NEW old \in Entry, NEW new \in Floor
  PROVE  LET e == StmEntry(old, new)
         IN  /\ e \in Entry
             /\ e.value = new.value
             /\ e.mod - e.value \in -Cap..Cap
             /\ e.mod # new.value => e.age = Age(old, new) /\ ~(e.age > Horizon)
<1>1. CASE Dropped(old, new) \/ Offset(old, new) = new.value
  BY <1>1, GroundedFacts DEF StmEntry
<1>2. CASE ~(Dropped(old, new) \/ Offset(old, new) = new.value)
  <2>1. new.value \in Scale /\ new.value + (old.mod - old.value) \in Int
    BY SignedAssumption DEF Floor, Entry, Scale
  <2> DEFINE m == Offset(old, new)
             a == Age(old, new)
  <2>2. m \in Scale /\ m - new.value \in -Cap..Cap
    BY <2>1, CappedFacts DEF Offset
  <2>3. a \in Nat \cup {Never}
    BY AgeFacts
  <2>4. ~(a > Horizon)
    BY <1>2 DEF Dropped
  <2>5. StmEntry(old, new) = [Grounded(new) EXCEPT !.mod = m, !.age = a]
    BY <1>2 DEF StmEntry
  <2> HIDE DEF m, a
  <2>6. StmEntry(old, new) = [value |-> new.value, print |-> new.print, mod |-> m, age |-> a]
    BY <2>5 DEF Grounded
  <2>7. StmEntry(old, new).age = a /\ a = Age(old, new)
    BY <2>6 DEF a
  <2> QED
    BY <2>2, <2>3, <2>4, <2>6, <2>7 DEF Entry, Floor
<1> QED
  BY <1>1, <1>2

-----------------------------------------------------------------------------
(* The inductive invariant of the world model: in the frozen arm what is    *)
(* carried keeps the sign of its evidence, and what outlived its evidence   *)
(* is carried in the stm arm with an age that is at least as great.        *)

FrozenCarry ==
  arm = "frozen" => \A k \in Keys : runtime[k] # NoEntry =>
                      Sign(runtime[k].mod) \in {0, Sign(runtime[k].value)}

CarryCounted ==
  \A k \in Keys : crossed[k] # Never =>
    /\ arm = "stm" /\ runtime[k] # NoEntry
    /\ runtime[k].age # Never
    /\ crossed[k] =< runtime[k].age /\ runtime[k].age =< Horizon

ModelInv == /\ ModelTypeOK /\ FrozenCarry /\ CarryCounted
            /\ ShownWithinCap /\ NoSignFlipFrozen

LEMMA ViewFacts ==
  ASSUME ModelTypeOK, FrozenCarry, NEW floor \in [Keys -> Floor \cup {NoEntry}],
         NEW k \in Keys, Reconciled(floor)[k] # NoEntry
  PROVE  LET e == Reconciled(floor)[k]
         IN  /\ floor[k] \in Floor
             /\ e \in Entry
             /\ e.value = floor[k].value
             /\ e.mod - e.value \in -Cap..Cap
             /\ arm = "frozen" => Sign(e.mod) \in {0, Sign(e.value)}
             /\ (runtime[k] # NoEntry /\ e.mod # floor[k].value) =>
                  \/ arm = "frozen" /\ ~Changed(runtime[k], floor[k])
                  \/ /\ arm = "stm" /\ e.age = Age(runtime[k], floor[k])
                     /\ ~(e.age > Horizon)
<1>1. floor[k] # NoEntry /\ floor[k] \in Floor
  BY DEF Reconciled
<1>2. arm \in {"frozen", "stm"} /\ runtime[k] \in Entry \cup {NoEntry}
  BY DEF ModelTypeOK, Arms
<1>3. CASE runtime[k] = NoEntry
  <2>1. Reconciled(floor)[k] = Grounded(floor[k])
    BY <1>1, <1>3 DEF Reconciled
  <2>2. Sign(floor[k].value) \in {0, Sign(floor[k].value)}
    OBVIOUS
  <2> QED
    BY <1>1, <1>3, <2>1, <2>2, GroundedFacts
<1>4. CASE runtime[k] # NoEntry /\ arm = "frozen"
  <2>1. Reconciled(floor)[k] = FrozenEntry(runtime[k], floor[k])
    BY <1>1, <1>4 DEF Reconciled
  <2>2. runtime[k] \in Entry /\ Sign(runtime[k].mod) \in {0, Sign(runtime[k].value)}
    BY <1>2, <1>4 DEF FrozenCarry
  <2> QED
    BY <1>1, <1>4, <2>1, <2>2, FrozenFacts
<1>5. CASE runtime[k] # NoEntry /\ arm = "stm"
  <2>1. Reconciled(floor)[k] = StmEntry(runtime[k], floor[k])
    BY <1>1, <1>5 DEF Reconciled
  <2>2. runtime[k] \in Entry
    BY <1>2, <1>5
  <2> QED
    BY <1>1, <1>5, <2>1, <2>2, StmFacts
<1> QED
  BY <1>2, <1>3, <1>4, <1>5

LEMMA ViewType ==
  ASSUME ModelTypeOK, FrozenCarry, NEW floor \in [Keys -> Floor \cup {NoEntry}]
  PROVE  Reconciled(floor) \in [Keys -> Entry \cup {NoEntry}]
<1>1. \A k \in Keys : Reconciled(floor)[k] \in Entry \cup {NoEntry}
  BY ViewFacts
<1> QED
  BY <1>1 DEF Reconciled

(* A hint changes the value of one entry, and never to the opposite sign. *)
LEMMA HintFacts ==
  ASSUME NEW view \in [Keys -> Entry \cup {NoEntry}], NEW next \in Hints(view)
  PROVE  /\ next \in [Keys -> Entry \cup {NoEntry}]
         /\ \A k \in Keys :
              /\ next[k] = NoEntry <=> view[k] = NoEntry
              /\ view[k] # NoEntry =>
                   /\ next[k].value = view[k].value
                   /\ next[k].age = view[k].age
                   /\ Sign(next[k].mod) \in {0, Sign(view[k].mod)}
<1>1. CASE next = view
  BY <1>1
<1>2. CASE next # view
  <2>1. PICK j \in Keys : /\ view[j] # NoEntry
                          /\ \/ next = [view EXCEPT ![j].mod = Strengthened(view[j].mod)]
                             \/ next = [view EXCEPT ![j].mod = Weakened(view[j].mod)]
    BY <1>2 DEF Hints
  <2>2. PICK m : next = [view EXCEPT ![j].mod = m]
                 /\ m \in {Strengthened(view[j].mod), Weakened(view[j].mod)}
    BY <2>1
  <2>3. view[j] \in Entry
    BY <2>1
  <2>4. view[j].mod \in Scale
    BY <2>3 DEF Entry
  <2>5. m \in Scale /\ Sign(m) \in {0, Sign(view[j].mod)}
    BY <2>2, <2>4, NudgeFacts
  <2> DEFINE e == [view[j] EXCEPT !.mod = m]
  <2>6. /\ e \in Entry /\ e.value = view[j].value /\ e.age = view[j].age /\ e.mod = m
    BY <2>3, <2>5 DEF Entry
  <2>7. next = [view EXCEPT ![j] = e]
    BY <2>2
  <2> HIDE DEF e
  <2>8. next[j] = e /\ \A k \in Keys \ {j} : next[k] = view[k]
    BY <2>7
  <2>9. next \in [Keys -> Entry \cup {NoEntry}]
    BY <2>6, <2>7
  <2>10. e # NoEntry
    BY <2>6, NoEntryAssumption
  <2>11. ASSUME NEW k \in Keys
         PROVE  /\ next[k] = NoEntry <=> view[k] = NoEntry
                /\ view[k] # NoEntry =>
                     /\ next[k].value = view[k].value
                     /\ next[k].age = view[k].age
                     /\ Sign(next[k].mod) \in {0, Sign(view[k].mod)}
    <3>1. CASE k = j
      BY <2>1, <2>5, <2>6, <2>8, <2>10, <3>1
    <3>2. CASE k # j
      BY <2>8, <3>2
    <3> QED
      BY <3>1, <3>2
  <2> QED
    BY <2>9, <2>11
<1> QED
  BY <1>1, <1>2

LEMMA ShownFacts ==
  ASSUME ModelTypeOK, FrozenCarry, NEW floor \in [Keys -> Floor \cup {NoEntry}],
         shown' = Reconciled(floor), arm' = arm
  PROVE  /\ shown' \in [Keys -> Entry \cup {NoEntry}]
         /\ ShownWithinCap' /\ NoSignFlipFrozen'
<1>1. shown' \in [Keys -> Entry \cup {NoEntry}]
  BY ViewType
<1>2. ShownWithinCap'
  BY ViewFacts DEF ShownWithinCap
<1>3. NoSignFlipFrozen'
  BY ViewFacts DEF NoSignFlipFrozen, NoSignFlip
<1> QED
  BY <1>1, <1>2, <1>3

LEMMA WrittenKeeps ==
  ASSUME ModelInv, NEW floor \in [Keys -> Floor \cup {NoEntry}], StepWritten(floor)
  PROVE  ModelInv'
<1> DEFINE view == Reconciled(floor)
<1>1. /\ shown' = view /\ runtime' \in Hints(view) /\ arm' = arm
      /\ crossed' = [k \in Keys |-> Crossing(k, floor)]
  BY DEF StepWritten
<1>2. ModelTypeOK /\ FrozenCarry /\ CarryCounted
  BY DEF ModelInv
<1>3. view \in [Keys -> Entry \cup {NoEntry}]
  BY <1>2, ViewType
<1>4. shown' \in [Keys -> Entry \cup {NoEntry}] /\ ShownWithinCap' /\ NoSignFlipFrozen'
  BY <1>1, <1>2, ShownFacts
<1>5. \A k \in Keys : view[k] # NoEntry =>
        /\ floor[k] \in Floor
        /\ view[k] \in Entry
        /\ view[k].value = floor[k].value
        /\ arm = "frozen" => Sign(view[k].mod) \in {0, Sign(view[k].value)}
        /\ (runtime[k] # NoEntry /\ view[k].mod # floor[k].value) =>
             \/ arm = "frozen" /\ ~Changed(runtime[k], floor[k])
             \/ /\ arm = "stm" /\ view[k].age = Age(runtime[k], floor[k])
                /\ ~(view[k].age > Horizon)
  BY <1>2, ViewFacts
<1>6. \A k \in Keys : floor[k] # NoEntry => view[k] # NoEntry
  <2>1. \A k \in Keys : floor[k] # NoEntry =>
          floor[k] \in Floor /\ (runtime[k] \in Entry \/ runtime[k] = NoEntry)
    BY <1>2 DEF ModelTypeOK
  <2>2. ASSUME NEW k \in Keys, floor[k] # NoEntry PROVE view[k] \in Entry
    <3>1. CASE runtime[k] = NoEntry
      BY <2>1, <2>2, <3>1, GroundedFacts DEF Reconciled
    <3>2. CASE runtime[k] # NoEntry /\ arm = "frozen"
      <4>1. Sign(runtime[k].mod) \in {0, Sign(runtime[k].value)}
        BY <1>2, <3>2 DEF FrozenCarry
      <4> QED
        BY <2>1, <2>2, <3>2, <4>1, FrozenFacts DEF Reconciled
    <3>3. CASE runtime[k] # NoEntry /\ arm # "frozen"
      BY <2>1, <2>2, <3>3, StmFacts DEF Reconciled
    <3> QED
      BY <3>1, <3>2, <3>3
  <2> QED
    BY <2>2, NoEntryAssumption
<1> HIDE DEF view
<1>7. /\ runtime' \in [Keys -> Entry \cup {NoEntry}]
      /\ \A k \in Keys :
           /\ runtime'[k] = NoEntry <=> view[k] = NoEntry
           /\ view[k] # NoEntry =>
                /\ runtime'[k].value = view[k].value
                /\ runtime'[k].age = view[k].age
                /\ Sign(runtime'[k].mod) \in {0, Sign(view[k].mod)}
  BY <1>1, <1>3, HintFacts
<1>8. FrozenCarry'
  <2>1. ASSUME arm' = "frozen", NEW k \in Keys, runtime'[k] # NoEntry
        PROVE  Sign(runtime'[k].mod) \in {0, Sign(runtime'[k].value)}
    <3>1. view[k] # NoEntry
      BY <1>7, <2>1
    <3>2. Sign(runtime'[k].mod) \in {0, Sign(view[k].mod)}
      BY <1>7, <3>1
    <3>3. Sign(view[k].mod) \in {0, Sign(view[k].value)}
      BY <1>1, <1>5, <2>1, <3>1
    <3>4. runtime'[k].value = view[k].value
      BY <1>7, <3>1
    <3> QED
      BY <3>2, <3>3, <3>4
  <2> QED
    BY <2>1 DEF FrozenCarry
<1>9. ASSUME NEW k \in Keys, crossed'[k] # Never
      PROVE  /\ arm' = "stm" /\ runtime'[k] # NoEntry
             /\ runtime'[k].age # Never
             /\ crossed'[k] \in Nat
             /\ crossed'[k] =< runtime'[k].age /\ runtime'[k].age =< Horizon
  <2>1. crossed'[k] = Crossing(k, floor)
    BY <1>1
  <2>2. /\ floor[k] # NoEntry /\ runtime[k] # NoEntry
        /\ view[k].mod # floor[k].value
        /\ crossed'[k] = IF crossed[k] # Never THEN crossed[k] + 1 ELSE 0
        /\ crossed[k] = Never => Changed(runtime[k], floor[k])
    BY <1>9, <2>1 DEF Crossing, view
  <2>3. view[k] # NoEntry
    BY <1>6, <2>2
  <2>4. /\ runtime[k] \in Entry /\ crossed[k] \in Nat \cup {Never} /\ Horizon \in Nat
        /\ runtime[k].age \in Nat \cup {Never}
    <3>1. runtime[k] \in Entry /\ crossed[k] \in Nat \cup {Never}
      BY <1>2, <2>2 DEF ModelTypeOK
    <3> QED
      BY <3>1, WorldModelAssumption DEF Entry
  <2> DEFINE a == Age(runtime[k], floor[k])
  <2>5. /\ runtime[k].age # Never => runtime[k].age \in Nat /\ a = runtime[k].age + 1
        /\ Changed(runtime[k], floor[k]) => a \in Nat
    BY <2>4, AgeFacts
  <2>6. \/ arm = "frozen" /\ ~Changed(runtime[k], floor[k])
        \/ arm = "stm" /\ view[k].age = a /\ ~(view[k].age > Horizon)
    BY <1>5, <2>2, <2>3
  <2>7. runtime'[k] # NoEntry /\ runtime'[k].age = view[k].age
    BY <1>7, <2>3
  <2> HIDE DEF a
  <2>8. CASE crossed[k] = Never
    <3>1. arm = "stm" /\ view[k].age = a /\ a \in Nat /\ ~(a > Horizon) /\ crossed'[k] = 0
      BY <2>2, <2>5, <2>6, <2>8
    <3> QED
      BY <1>1, <2>4, <2>7, <3>1 DEF Never
  <2>9. CASE crossed[k] # Never
    <3>1. /\ arm = "stm" /\ runtime[k].age # Never /\ crossed[k] =< runtime[k].age
      BY <1>2, <2>9 DEF CarryCounted
    <3>2. /\ view[k].age = a /\ ~(a > Horizon) /\ a = runtime[k].age + 1
          /\ crossed[k] \in Nat /\ runtime[k].age \in Nat
          /\ crossed'[k] = crossed[k] + 1
      BY <2>2, <2>4, <2>5, <2>6, <2>9, <3>1
    <3> QED
      BY <1>1, <2>4, <2>7, <3>1, <3>2 DEF Never
  <2> QED
    BY <2>8, <2>9
<1>10. CarryCounted'
  BY <1>9 DEF CarryCounted
<1>11. ModelTypeOK'
  <2>1. crossed' \in [Keys -> Nat \cup {Never}]
    <3>1. \A k \in Keys : crossed'[k] \in Nat \cup {Never}
      BY <1>9
    <3> QED
      BY <1>1, <3>1
  <2> QED
    BY <1>1, <1>2, <1>4, <1>7, <2>1 DEF ModelTypeOK
<1> QED
  BY <1>4, <1>8, <1>10, <1>11 DEF ModelInv

LEMMA RaisedKeeps ==
  ASSUME ModelInv, NEW floor \in [Keys -> Floor \cup {NoEntry}], StepRaised(floor)
  PROVE  ModelInv'
<1>1. ModelTypeOK /\ FrozenCarry /\ CarryCounted
  BY DEF ModelInv
<1>2. shown' = Reconciled(floor) /\ arm' = arm /\ runtime' = runtime /\ crossed' = crossed
  BY DEF StepRaised
<1>3. shown' \in [Keys -> Entry \cup {NoEntry}] /\ ShownWithinCap' /\ NoSignFlipFrozen'
  BY <1>1, <1>2, ShownFacts
<1>4. ModelTypeOK' /\ FrozenCarry' /\ CarryCounted'
  BY <1>1, <1>2, <1>3 DEF ModelTypeOK, FrozenCarry, CarryCounted
<1> QED
  BY <1>3, <1>4 DEF ModelInv

LEMMA NothingInv ==
  ASSUME arm \in Arms, runtime = Nothing, shown = Nothing,
         crossed = [k \in Keys |-> Never]
  PROVE  ModelInv
<1>1. ModelTypeOK
  BY DEF ModelTypeOK, Nothing
<1>2. FrozenCarry /\ CarryCounted
  BY DEF FrozenCarry, CarryCounted, Nothing
<1>3. ShownWithinCap /\ NoSignFlipFrozen
  BY DEF ShownWithinCap, NoSignFlipFrozen, NoSignFlip, Nothing
<1> QED
  BY <1>1, <1>2, <1>3 DEF ModelInv

LEMMA ForgetKeeps == ASSUME ModelInv, Forget PROVE ModelInv'
<1>1. /\ arm' \in Arms /\ runtime' = Nothing /\ shown' = Nothing
      /\ crossed' = [k \in Keys |-> Never]
  BY DEF ModelInv, ModelTypeOK, Forget
<1>2. ModelTypeOK'
  BY <1>1 DEF ModelTypeOK, Nothing
<1>3. FrozenCarry' /\ CarryCounted'
  BY <1>1 DEF FrozenCarry, CarryCounted, Nothing
<1>4. ShownWithinCap' /\ NoSignFlipFrozen'
  BY <1>1 DEF ShownWithinCap, NoSignFlipFrozen, NoSignFlip, Nothing
<1> QED
  BY <1>2, <1>3, <1>4 DEF ModelInv

LEMMA ModelKept == ModelSpec => []ModelInv
<1>1. ModelInit => ModelInv
  BY NothingInv DEF ModelInit
<1>2. ModelInv /\ [ModelNext]_modelVars => ModelInv'
  <2> SUFFICES ASSUME ModelInv, [ModelNext]_modelVars PROVE ModelInv'
    OBVIOUS
  <2>1. CASE \E floor \in [Keys -> Floor \cup {NoEntry}] : StepWritten(floor) \/ StepRaised(floor)
    BY <2>1, WrittenKeeps, RaisedKeeps
  <2>2. CASE Forget
    BY <2>2, ForgetKeeps
  <2>3. CASE UNCHANGED modelVars
    BY <2>3 DEF modelVars, ModelInv, ModelTypeOK, FrozenCarry, CarryCounted,
                ShownWithinCap, NoSignFlipFrozen, NoSignFlip
  <2> QED
    BY <2>1, <2>2, <2>3 DEF ModelNext
<1> QED
  BY <1>1, <1>2, PTL DEF ModelSpec

(* Whatever the evidence does from step to step, what the prompt shows is   *)
(* within Cap of it.                                                       *)
THEOREM ShownNearEvidence == ModelSpec => []ShownWithinCap
<1>1. ModelInv => ShownWithinCap
  BY DEF ModelInv
<1> QED
  BY <1>1, ModelKept, PTL

(* ... an offset outlives its evidence for at most Horizon ticks...         *)
THEOREM OffsetsExpire == ModelSpec => []CarryExpires
<1>1. ModelInv => CarryExpires
  <2>1. ASSUME ModelInv, NEW k \in Keys PROVE crossed[k] =< Horizon
    <3>1. /\ Horizon \in Nat /\ crossed[k] \in Nat \cup {Never}
          /\ runtime[k] # NoEntry => runtime[k] \in Entry
      BY <2>1, WorldModelAssumption DEF ModelInv, ModelTypeOK
    <3>2. CASE crossed[k] = Never
      BY <3>1, <3>2 DEF Never
    <3>3. CASE crossed[k] # Never
      <4>1. /\ runtime[k] # NoEntry /\ runtime[k].age # Never
            /\ crossed[k] =< runtime[k].age /\ runtime[k].age =< Horizon
        BY <2>1, <3>3 DEF ModelInv, CarryCounted
      <4>2. runtime[k].age \in Nat
        BY <3>1, <4>1 DEF Entry
      <4> QED
        BY <3>1, <3>3, <4>1, <4>2
    <3> QED
      BY <3>2, <3>3
  <2> QED
    BY <2>1 DEF CarryExpires
<1> QED
  BY <1>1, ModelKept, PTL

(* ... and in the frozen arm no hint ever turns the sign of what is shown.  *)
THEOREM FrozenKeepsSign == ModelSpec => []NoSignFlipFrozen
<1>1. ModelInv => NoSignFlipFrozen
  BY DEF ModelInv
<1> QED
  BY <1>1, ModelKept, PTL

-----------------------------------------------------------------------------
(* The world model in the composition *)

(* A bond counts no more turns than the table may hold. *)
RowsBounded == \A p \in Pairs : rows[p] =< turnRows[p] /\ turnRows[p] =< MaxTurns

RowsInv == RelInv /\ RowsBounded

LEMMA TurnStaysBounded ==
  ASSUME RelTypeOK, RowsBounded, NEW d \in Dyads, Room(d),
         turnRows' = [turnRows EXCEPT ![Pair(d)] = @ + 1],
         rows' = rows \/ rows' = [rows EXCEPT ![Pair(d)] = @ + 1]
  PROVE  RowsBounded'
<1> SUFFICES ASSUME NEW p \in Pairs
             PROVE  rows'[p] =< turnRows'[p] /\ turnRows'[p] =< MaxTurns
  BY DEF RowsBounded
<1>1. /\ rows[p] \in Nat /\ turnRows[p] \in Nat /\ MaxTurns \in Nat
      /\ rows[p] =< turnRows[p] /\ turnRows[p] =< MaxTurns
  BY RelationsAssumption DEF RelTypeOK, RowsBounded
<1>2. /\ turnRows'[p] = IF p = Pair(d) THEN turnRows[p] + 1 ELSE turnRows[p]
      /\ rows'[p] \in {rows[p], IF p = Pair(d) THEN rows[p] + 1 ELSE rows[p]}
  BY DEF RelTypeOK
<1>3. p = Pair(d) => turnRows[p] < MaxTurns
  BY DEF Room
<1> QED
  BY <1>1, <1>2, <1>3

LEMMA StepRows == ASSUME RowsInv, [RelNext]_relVars PROVE RowsInv'
<1>1. RelInv' /\ RelTypeOK /\ RowsBounded
  BY RelStep DEF RowsInv, RelInv
<1>2. CASE UNCHANGED tables
  BY <1>1, <1>2 DEF tables, RowsInv, RowsBounded
<1>3. CASE Turns
  <2>1. PICK d \in Dyads :
          \/ TurnWithoutRelation(d)
          \/ \E x \in Feelings(d), z \in Zones :
               \E lost \in SUBSET Promoted(d, x, z) : Turn(d, x, z, lost)
    BY <1>3 DEF Turns
  <2>2. /\ Room(d) /\ turnRows' = [turnRows EXCEPT ![Pair(d)] = @ + 1]
        /\ rows' = rows \/ rows' = [rows EXCEPT ![Pair(d)] = @ + 1]
    BY <2>1 DEF TurnWithoutRelation, Turn
  <2> QED
    BY <1>1, <2>2, TurnStaysBounded DEF RowsInv
<1>4. CASE \E d \in Dyads : \E x \in Feelings(d), z \in Zones :
             \E saved \in SUBSET Promoted(d, x, z) : CrashInTurn(d, x, z, saved)
  <2>1. PICK d \in Dyads :
          \E x \in Feelings(d), z \in Zones :
            \E saved \in SUBSET Promoted(d, x, z) : CrashInTurn(d, x, z, saved)
    BY <1>4
  <2>2. /\ Room(d) /\ turnRows' = [turnRows EXCEPT ![Pair(d)] = @ + 1]
        /\ rows' = rows \/ rows' = [rows EXCEPT ![Pair(d)] = @ + 1]
    BY <2>1 DEF CrashInTurn
  <2> QED
    BY <1>1, <2>2, TurnStaysBounded DEF RowsInv
<1>5. ASSUME NEW S \in SUBSET Agents, BeginSteps(S) PROVE UNCHANGED tables
  BY <1>5 DEF BeginSteps
<1>6. ASSUME NEW W \in SUBSET reading, EndSteps(W) PROVE UNCHANGED tables
  BY <1>6 DEF EndSteps
<1>7. Crash => UNCHANGED tables
  BY DEF Crash
<1>8. UNCHANGED relVars => UNCHANGED tables
  BY DEF relVars
<1> QED
  BY <1>2, <1>3, <1>4, <1>5, <1>6, <1>7, <1>8 DEF RelNext, Crashes

LEMMA RowsHold == RelSpec => []RowsInv
<1>1. RelInit => RowsInv
  <2> SUFFICES ASSUME RelInit PROVE RowsInv
    OBVIOUS
  <2>1. \A p \in Pairs : rows[p] = 0 /\ turnRows[p] = 0
    BY DEF RelInit
  <2> QED
    BY <2>1, RelInitInv, RelationsAssumption DEF RowsInv, RowsBounded
<1>2. RowsInv /\ [RelNext]_relVars => RowsInv'
  BY StepRows
<1> QED
  BY <1>1, <1>2, PTL DEF RelSpec

LEMMA CountBounded ==
  ASSUME RowsInv, NEW d \in Dyads, bond[d] # None
  PROVE  bond[d].count \in 1..MaxTurns
<1>1. /\ bond[d] \in Bond /\ bond[d].count = rows[Pair(d)] - boot[Pair(d)]
      /\ rows[Pair(d)] \in Nat /\ boot[Pair(d)] \in Nat
      /\ rows[Pair(d)] =< MaxTurns
  <2>1. Pair(d) \in Pairs
    BY DyadFacts
  <2>2. rows[Pair(d)] \in Nat /\ turnRows[Pair(d)] \in Nat /\ boot[Pair(d)] \in Nat
    BY <2>1 DEF RowsInv, RelInv, RelTypeOK
  <2>3. rows[Pair(d)] =< turnRows[Pair(d)] /\ turnRows[Pair(d)] =< MaxTurns
    BY <2>1 DEF RowsInv, RowsBounded
  <2>4. rows[Pair(d)] =< MaxTurns
    BY <2>2, <2>3, RelationsAssumption
  <2>5. bond[d] \in Bond
    BY DEF RowsInv, RelInv, RelTypeOK
  <2>6. bond[d].count = rows[Pair(d)] - boot[Pair(d)]
    BY DEF RowsInv, RelInv, BondsMatchRows, Count
  <2> QED
    BY <2>2, <2>4, <2>5, <2>6
<1>2. bond[d].count \in Nat \ {0}
  BY <1>1 DEF Bond
<1> QED
  BY <1>1, <1>2, RelationsAssumption

(* What a valid step takes as its floor is a floor. *)
LEMMA FloorType ==
  ASSUME RowsInv, Self \in reading, Valid(SelfFloor)
  PROVE  SelfFloor \in [Keys -> Floor \cup {NoEntry}]
<1>1. ASSUME NEW k \in Keys PROVE SelfFloor[k] \in Floor \cup {NoEntry}
  <2> DEFINE print == [d \in In(k) |-> copy[d].count]
  <2>1. SelfFloor[k] = IF In(k) = {} THEN NoEntry ELSE [value |-> Mean(k), print |-> print]
    BY IndividualAssumption DEF SelfFloor
  <2>2. CASE In(k) = {} \/ SelfFloor[k] = NoEntry
    BY <2>1, <2>2
  <2>3. CASE In(k) # {} /\ SelfFloor[k] # NoEntry
    <3>1. ASSUME NEW d \in In(k) PROVE copy[d].count \in 1..MaxTurns
      <4>1. d \in Dyads /\ d[1] \in reading /\ copy[d] # None
        BY DEF In, Evidence
      <4>2. copy[d] = bond[d]
        BY <4>1 DEF RowsInv, RelInv, CopyKept
      <4>3. bond[d] # None
        BY <4>1, <4>2
      <4>4. bond[d].count \in 1..MaxTurns
        BY ONLY RowsInv, <4>1, <4>3, CountBounded
      <4> QED
        BY <4>2, <4>4
    <3>2. In(k) \in SUBSET Dyads /\ In(k) # {}
      BY <2>3 DEF In, Evidence
    <3>3. print \in [In(k) -> 1..MaxTurns]
      BY <3>1
    <3>4. print \in Prints
      BY <3>2, <3>3, IndividualAssumption
    <3> HIDE DEF print
    <3>5. SelfFloor[k] = [value |-> Mean(k), print |-> print]
      BY <2>1, <2>3
    <3>6. SelfFloor[k].value \in Scale
      BY <2>3 DEF Valid
    <3>7. Mean(k) \in Scale
      BY <3>5, <3>6
    <3> QED
      BY <3>4, <3>5, <3>7 DEF Floor
  <2> QED
    BY <2>2, <2>3
<1>2. SelfFloor = [k \in Keys |-> SelfFloor[k]]
  BY IndividualAssumption DEF SelfFloor
<1> QED
  BY <1>1, <1>2

(* The composition adds no behaviour to the world model either: whatever    *)
(* beliefs and bonds a step reads, the floor it derives from them is one    *)
(* the world model allows (CognitionCycle.step with the layer enabled).    *)
THEOREM LayerIsModel == Spec => ModelSpec
<1>1. Init => ModelInit
  BY DEF Init
<1>2. RowsInv /\ [Next]_vars => [ModelNext]_modelVars
  <2> SUFFICES ASSUME RowsInv, [Next]_vars PROVE [ModelNext]_modelVars
    OBVIOUS
  <2>1. CASE End
    <3>1. PICK W \in SUBSET reading :
            IF Self \in W THEN Valid(SelfFloor) /\ StepWritten(SelfFloor)
            ELSE IF Self \in reading
                 THEN (Valid(SelfFloor) /\ StepRaised(SelfFloor)) \/ UNCHANGED modelVars
            ELSE UNCHANGED modelVars
      BY <2>1 DEF End
    <3>2. CASE UNCHANGED modelVars
      BY <3>2
    <3>3. CASE ~UNCHANGED modelVars
      <4>1. /\ Self \in reading /\ Valid(SelfFloor)
            /\ StepWritten(SelfFloor) \/ StepRaised(SelfFloor)
        BY <3>1, <3>3
      <4>2. SelfFloor \in [Keys -> Floor \cup {NoEntry}]
        BY <4>1, FloorType
      <4> QED
        BY <4>1, <4>2 DEF ModelNext
    <3> QED
      BY <3>2, <3>3
  <2>2. CASE Begin \/ Speak \/ UNCHANGED vars
    BY <2>2 DEF Begin, Speak, vars
  <2>3. CASE Restart
    BY <2>3 DEF Restart, ModelNext
  <2> QED
    BY <2>1, <2>2, <2>3 DEF Next
<1>3. Spec => []RowsInv
  BY LayerOnlyReads, RowsHold, PTL
<1> QED
  BY <1>1, <1>2, <1>3, PTL DEF Spec, ModelSpec

(* So the bounds on what is shown hold of the values an individual's turns, *)
(* beliefs and restarts really lead to.                                    *)
THEOREM LayerBounded == Spec => [](ShownWithinCap /\ CarryExpires /\ NoSignFlipFrozen)
BY LayerIsModel, ShownNearEvidence, OffsetsExpire, FrozenKeepsSign, PTL

=============================================================================

------------------------- MODULE CognitionTick_proofs -------------------------
(***************************************************************************)
(* Proofs about the phase wheel, for all cadences, dwells and agents.        *)
(***************************************************************************)
EXTENDS CognitionTick, TLAPS

(* The part of the type invariant the clocks rest on. *)
ClocksOK ==
  /\ stepping \subseteq Agents
  /\ ran \in Nat
  /\ \A a \in Agents : /\ untilDue[a] \in Nat /\ sinceStep[a] \in Nat
                       /\ untilAwake[a] \in Nat /\ sinceMove[a] \in Nat

(* The deadline is never nearer than the rest of the period: while a step    *)
(* runs, the time it has taken is known, and is taken off the next deadline. *)
DueAfterPeriod ==
  \A a \in Agents :
    IF a \in stepping THEN sinceStep[a] >= ran \/ sinceStep[a] >= Period[a]
                      ELSE untilDue[a] + sinceStep[a] >= Period[a]

AwakeAfterDwell == \A a \in Agents : untilAwake[a] + sinceMove[a] >= Dwell[a]

GapInv == ClocksOK /\ (~Tracing => DueAfterPeriod)
DwellInv == ClocksOK /\ AwakeAfterDwell

LEMMA Durations ==
  /\ \A a \in Agents : Period[a] \in Nat /\ Dwell[a] \in Nat
  /\ MaxRan \in Nat
  /\ \A n \in Nat : Less(n) \in Nat
  /\ \A n, m \in Nat : More(n, m) \in Nat /\ Left(m, n) \in Nat
  BY CognitionAssumption DEF CognitionAssumption, Less, More, Left

LEMMA InitClocks == Init => GapInv /\ DwellInv
<1> SUFFICES ASSUME Init PROVE GapInv /\ DwellInv
  OBVIOUS
<1>1. stepping = {} /\ ran = 0
  BY DEF Init
<1>2. \A a \in Agents : /\ untilDue[a] = 0 /\ untilAwake[a] = 0
                        /\ sinceStep[a] = Period[a] /\ sinceMove[a] = Dwell[a]
  BY DEF Init
<1>3. ASSUME NEW a \in Agents
      PROVE  /\ untilDue[a] \in Nat /\ sinceStep[a] \in Nat
             /\ untilAwake[a] \in Nat /\ sinceMove[a] \in Nat
             /\ untilDue[a] + sinceStep[a] >= Period[a]
             /\ untilAwake[a] + sinceMove[a] >= Dwell[a]
  <2>1. Period[a] \in Nat /\ Dwell[a] \in Nat
    BY Durations
  <2>2. QED
    BY <1>2, <2>1
<1>4. ClocksOK /\ DueAfterPeriod /\ AwakeAfterDwell
  BY <1>1, <1>3 DEF ClocksOK, DueAfterPeriod, AwakeAfterDwell
<1>5. QED
  BY <1>4 DEF GapInv, DwellInv

-----------------------------------------------------------------------------
(* One lemma per action that touches the clocks. *)

LEMMA ElapseClocks ==
  ASSUME ClocksOK, Elapse
  PROVE  /\ ClocksOK'
         /\ DueAfterPeriod => DueAfterPeriod'
         /\ AwakeAfterDwell => AwakeAfterDwell'
<1>1. ClocksOK'
  BY Durations DEF Elapse, ClocksOK
<1>2. ASSUME DueAfterPeriod, NEW a \in Agents
      PROVE  IF a \in stepping THEN sinceStep'[a] >= ran' \/ sinceStep'[a] >= Period[a]
                               ELSE untilDue'[a] + sinceStep'[a] >= Period[a]
  <2>1. /\ untilDue[a] \in Nat /\ sinceStep[a] \in Nat /\ ran \in Nat
        /\ Period[a] \in Nat /\ MaxRan \in Nat
    BY Durations DEF ClocksOK
  <2>2. untilDue'[a] = Less(untilDue[a]) /\ sinceStep'[a] = More(sinceStep[a], Period[a])
    BY DEF Elapse
  <2>3. CASE a \in stepping
    <3>1. ran' = More(ran, MaxRan)
      BY <2>3 DEF Elapse
    <3>2. sinceStep[a] >= ran \/ sinceStep[a] >= Period[a]
      BY <1>2, <2>3 DEF DueAfterPeriod
    <3>3. sinceStep'[a] >= ran' \/ sinceStep'[a] >= Period[a]
      BY <2>1, <2>2, <3>1, <3>2 DEF More
    <3>4. QED
      BY <2>3, <3>3
  <2>4. CASE a \notin stepping
    <3>1. untilDue[a] + sinceStep[a] >= Period[a]
      BY <1>2, <2>4 DEF DueAfterPeriod
    <3>2. untilDue'[a] + sinceStep'[a] >= Period[a]
      BY <2>1, <2>2, <3>1 DEF More, Less
    <3>3. QED
      BY <2>4, <3>2
  <2>5. QED
    BY <2>3, <2>4
<1>3. ASSUME AwakeAfterDwell, NEW a \in Agents
      PROVE  untilAwake'[a] + sinceMove'[a] >= Dwell[a]
  <2>1. untilAwake[a] \in Nat /\ sinceMove[a] \in Nat /\ Dwell[a] \in Nat
    BY Durations DEF ClocksOK
  <2>2. untilAwake'[a] = Less(untilAwake[a]) /\ sinceMove'[a] = More(sinceMove[a], Dwell[a])
    BY DEF Elapse
  <2>3. untilAwake[a] + sinceMove[a] >= Dwell[a]
    BY <1>3 DEF AwakeAfterDwell
  <2>4. QED
    BY <2>1, <2>2, <2>3 DEF More, Less
<1>4. stepping' = stepping
  BY DEF Elapse
<1>5. QED
  BY <1>1, <1>2, <1>3, <1>4 DEF DueAfterPeriod, AwakeAfterDwell

LEMMA BeginClocks ==
  ASSUME ClocksOK, BeginTick
  PROVE  /\ ClocksOK'
         /\ DueAfterPeriod => DueAfterPeriod'
         /\ AwakeAfterDwell => AwakeAfterDwell'
<1>1. ClocksOK'
  BY DEF BeginTick, ClocksOK, Due
<1>2. DueAfterPeriod => DueAfterPeriod'
  BY DEF BeginTick, ClocksOK, DueAfterPeriod
<1>3. AwakeAfterDwell => AwakeAfterDwell'
  BY DEF BeginTick, AwakeAfterDwell
<1>4. QED
  BY <1>1, <1>2, <1>3

LEMMA FinishClocks ==
  ASSUME ClocksOK, NEW moved, NEW followed, NEW failed \in SUBSET stepping,
         FinishTick(moved, followed, failed)
  PROVE  /\ ClocksOK'
         /\ ~Tracing /\ DueAfterPeriod => DueAfterPeriod'
         /\ AwakeAfterDwell => AwakeAfterDwell'
<1>1. ClocksOK'
  <2>1. \A a \in Agents : /\ untilDue'[a] \in {Left(Period[a], ran), untilDue[a]}
                          /\ untilAwake'[a] \in {Dwell[a], untilAwake[a]}
                          /\ sinceMove'[a] \in {0, sinceMove[a]}
    BY DEF FinishTick, AwakeAfterMove
  <2>2. stepping' = {} /\ ran' = 0 /\ sinceStep' = sinceStep
    BY DEF FinishTick
  <2>3. \A a \in Agents : /\ Left(Period[a], ran) \in Nat /\ untilDue[a] \in Nat
                          /\ Dwell[a] \in Nat /\ untilAwake[a] \in Nat
                          /\ sinceMove[a] \in Nat /\ sinceStep[a] \in Nat
    BY Durations DEF ClocksOK
  <2>4. \A a \in Agents : /\ untilDue'[a] \in Nat /\ sinceStep'[a] \in Nat
                          /\ untilAwake'[a] \in Nat /\ sinceMove'[a] \in Nat
    BY <2>1, <2>2, <2>3
  <2>5. QED
    BY <2>2, <2>4 DEF ClocksOK
<1>2. ASSUME ~Tracing, DueAfterPeriod, NEW a \in Agents
      PROVE  untilDue'[a] + sinceStep'[a] >= Period[a]
  <2>1. failed = {}
    BY <1>2 DEF FinishTick
  <2>2. Rearmed(failed) = stepping
    BY <2>1 DEF Rearmed, Consumed, Behind
  <2>3. untilDue'[a] = IF a \in stepping THEN Left(Period[a], ran) ELSE untilDue[a]
    BY <2>2 DEF FinishTick
  <2>4. sinceStep'[a] = sinceStep[a]
    BY DEF FinishTick
  <2>5. untilDue[a] \in Nat /\ sinceStep[a] \in Nat /\ ran \in Nat /\ Period[a] \in Nat
    BY Durations DEF ClocksOK
  <2>6. CASE a \in stepping
    <3>1. sinceStep[a] >= ran \/ sinceStep[a] >= Period[a]
      BY <1>2, <2>6 DEF DueAfterPeriod
    <3>2. QED
      BY <2>3, <2>4, <2>5, <2>6, <3>1 DEF Left
  <2>7. CASE a \notin stepping
    BY <1>2, <2>3, <2>4, <2>7 DEF DueAfterPeriod
  <2>8. QED
    BY <2>6, <2>7
<1>3. stepping' = {}
  BY DEF FinishTick
<1>4. ASSUME AwakeAfterDwell, NEW a \in Agents
      PROVE  untilAwake'[a] + sinceMove'[a] >= Dwell[a]
  <2>1. \/ untilAwake'[a] = Dwell[a] /\ sinceMove'[a] = 0
        \/ untilAwake'[a] = untilAwake[a] /\ sinceMove'[a] = sinceMove[a]
    BY DEF FinishTick, AwakeAfterMove
  <2>2. untilAwake[a] + sinceMove[a] >= Dwell[a] /\ Dwell[a] \in Nat
    BY <1>4, Durations DEF AwakeAfterDwell
  <2>3. QED
    BY <2>1, <2>2
<1>5. QED
  BY <1>1, <1>2, <1>3, <1>4 DEF DueAfterPeriod, AwakeAfterDwell

LEMMA StepClocks ==
  ASSUME ClocksOK, [Next]_vars
  PROVE  /\ ClocksOK'
         /\ ~Tracing /\ DueAfterPeriod => DueAfterPeriod'
         /\ AwakeAfterDwell => AwakeAfterDwell'
<1>1. CASE Elapse
  BY <1>1, ElapseClocks
<1>2. CASE BeginTick
  BY <1>2, BeginClocks
<1>3. CASE Finish
  <2>1. PICK moved, followed, failed \in SUBSET stepping : FinishTick(moved, followed, failed)
    BY <1>3 DEF Finish
  <2>2. QED
    BY <2>1, FinishClocks
<1>4. CASE (\E a \in Agents : Observe(a) \/ EndStep(a)) \/ UNCHANGED vars
  <2>1. UNCHANGED <<stepping, ran, untilDue, untilAwake, spacing>>
    BY <1>4 DEF Observe, EndStep, wheel, vars
  <2>2. QED
    BY <2>1 DEF spacing, ClocksOK, DueAfterPeriod, AwakeAfterDwell
<1>5. QED
  BY <1>1, <1>2, <1>3, <1>4 DEF Next

(* Only BeginTick starts a step, and only of agents that are due. *)
LEMMA BeginsWhenDue ==
  ASSUME [Next]_vars, NEW a \in Agents, Begins(a)
  PROVE  untilDue[a] = 0 /\ untilAwake[a] = 0 /\ a \notin stepping
  BY DEF Begins, Next, Elapse, Observe, EndStep, BeginTick, Finish, FinishTick, Due, wheel, vars

-----------------------------------------------------------------------------
LEMMA GapInvHolds == Spec => []GapInv
<1>1. GapInv /\ [Next]_vars => GapInv'
  BY StepClocks DEF GapInv
<1>2. QED
  BY <1>1, InitClocks, PTL DEF Spec

LEMMA DwellInvHolds == Spec => []DwellInv
<1>1. DwellInv /\ [Next]_vars => DwellInv'
  BY StepClocks DEF DwellInv
<1>2. QED
  BY <1>1, InitClocks, PTL DEF Spec

(* Without a trace sink to raise, two steps of an agent never begin within   *)
(* one period, for all cadences and however long or how badly steps end.   *)
THEOREM MinimumGapHolds == ASSUME ~Tracing PROVE Spec => MinimumGap
<1>1. ASSUME GapInv, [Next]_vars
      PROVE  [\A a \in Agents : Begins(a) => sinceStep[a] >= Period[a]]_vars
  <2> SUFFICES ASSUME NEW a \in Agents, Begins(a) PROVE sinceStep[a] >= Period[a]
    OBVIOUS
  <2>1. untilDue[a] = 0 /\ a \notin stepping
    BY <1>1, BeginsWhenDue
  <2>2. untilDue[a] + sinceStep[a] >= Period[a] /\ sinceStep[a] \in Nat
    BY <1>1, <2>1 DEF GapInv, DueAfterPeriod, ClocksOK
  <2>3. QED
    BY <2>1, <2>2
<1>2. QED
  BY <1>1, GapInvHolds, PTL DEF Spec, MinimumGap

(* A dwelling agent is never stepped, for all dwells, however long the       *)
(* gather that sent it walking took, and whatever a trace sink raises.     *)
THEOREM DwellHonouredHolds == Spec => DwellHonoured
<1>1. ASSUME DwellInv, [Next]_vars
      PROVE  [\A a \in Agents : Begins(a) => sinceMove[a] >= Dwell[a]]_vars
  <2> SUFFICES ASSUME NEW a \in Agents, Begins(a) PROVE sinceMove[a] >= Dwell[a]
    OBVIOUS
  <2>1. untilAwake[a] = 0
    BY <1>1, BeginsWhenDue
  <2>2. untilAwake[a] + sinceMove[a] >= Dwell[a] /\ sinceMove[a] \in Nat
    BY <1>1 DEF DwellInv, AwakeAfterDwell, ClocksOK
  <2>3. QED
    BY <2>1, <2>2
<1>2. QED
  BY <1>1, DwellInvHolds, PTL DEF Spec, DwellHonoured
-----------------------------------------------------------------------------
(* The buffers: what a step of each action does to the types. *)

LEMMA SequencesGrow ==
  ASSUME NEW S, NEW s \in Seq(S), NEW t \in Seq(S), NEW x \in S
  PROVE  <<>> \in Seq(S) /\ <<x>> \in Seq(S) /\ Append(s, x) \in Seq(S) /\ s \o t \in Seq(S)
  OBVIOUS

LEMMA MembersOfSequence ==
  ASSUME NEW S, NEW s \in Seq(S)
  PROVE  ToSet(s) \subseteq S
<1> SUFFICES ASSUME NEW i \in DOMAIN s PROVE s[i] \in S
  BY DEF ToSet
<1>1. QED
  OBVIOUS

(* What the follow-ups of a step add to a buffer, and the length of it. *)
LEMMA FollowUp ==
  ASSUME NEW followed, NEW a \in Agents, TypeOK, a \in followed => got[a] < MaxObs
  PROVE  LET new == IF a \in followed THEN <<got[a] + 1>> ELSE <<>>
         IN /\ new \in Seq(1..MaxObs)
            /\ Len(new) = IF a \in followed THEN 1 ELSE 0
            /\ got[a] + Len(new) \in 0..MaxObs
<1>1. got[a] \in 0..MaxObs /\ MaxObs \in Nat
  BY CognitionAssumption DEF TypeOK, CognitionAssumption
<1>2. CASE a \in followed
  <2>1. got[a] + 1 \in 1..MaxObs /\ got[a] + 1 \in 0..MaxObs
    BY <1>1, <1>2
  <2>2. <<got[a] + 1>> \in Seq(1..MaxObs) /\ Len(<<got[a] + 1>>) = 1
    BY <2>1, SequencesGrow
  <2>3. QED
    BY <1>2, <2>1, <2>2
<1>3. CASE a \notin followed
  <2>1. <<>> \in Seq(1..MaxObs) /\ Len(<<>>) = 0
    OBVIOUS
  <2>2. QED
    BY <1>1, <1>3, <2>1
<1>4. QED
  BY <1>2, <1>3

LEMMA FinishType ==
  ASSUME TypeOK, NEW moved, NEW followed, NEW failed \in SUBSET stepping,
         FinishTick(moved, followed, failed)
  PROVE  TypeOK'
<1>1. /\ stepping' = {} /\ ran' = 0 /\ outcome' = [a \in Agents |-> "none"]
      /\ MaxRan \in Nat
  BY Durations DEF FinishTick
<1>2. ASSUME NEW a \in Agents
      PROVE  /\ untilDue'[a] \in 0..Period[a] /\ sinceStep'[a] \in 0..Period[a]
             /\ untilAwake'[a] \in 0..Dwell[a] /\ sinceMove'[a] \in 0..Dwell[a]
  <2>1. /\ Period[a] \in Nat /\ Dwell[a] \in Nat /\ ran \in Nat
        /\ untilDue[a] \in 0..Period[a] /\ sinceStep[a] \in 0..Period[a]
        /\ untilAwake[a] \in 0..Dwell[a] /\ sinceMove[a] \in 0..Dwell[a]
    BY Durations DEF TypeOK
  <2>2. /\ untilDue'[a] \in {Left(Period[a], ran), untilDue[a]}
        /\ untilAwake'[a] \in {Dwell[a], untilAwake[a]}
        /\ sinceMove'[a] \in {0, sinceMove[a]} /\ sinceStep'[a] = sinceStep[a]
    BY DEF FinishTick, AwakeAfterMove
  <2>3. Left(Period[a], ran) \in 0..Period[a]
    BY <2>1 DEF Left
  <2>4. QED
    BY <2>1, <2>2, <2>3
<1>3. /\ pending \in [Agents -> Seq(1..MaxObs)] /\ inHand \in [Agents -> Seq(1..MaxObs)]
      /\ heard \in [Agents -> Seq(1..MaxObs)] /\ lost \in [Agents -> SUBSET (1..MaxObs)]
  BY DEF TypeOK
<1> DEFINE new(a) == IF a \in followed THEN <<got[a] + 1>> ELSE <<>>
<1>4. \A a \in Agents : new(a) \in Seq(1..MaxObs) /\ got[a] + Len(new(a)) \in 0..MaxObs
  <2>1. \A a \in followed : got[a] < MaxObs
    BY DEF FinishTick
  <2>2. QED
    BY <2>1, FollowUp
<1>5. pending' = [a \in Agents |-> pending[a] \o new(a)]
  BY DEF FinishTick, PendingAfter
<1>6. got' = [a \in Agents |-> got[a] + Len(new(a))]
  BY DEF FinishTick
<1> HIDE DEF new
<1>7. pending' \in [Agents -> Seq(1..MaxObs)] /\ got' \in [Agents -> 0..MaxObs]
  <2>1. \A a \in Agents : pending[a] \o new(a) \in Seq(1..MaxObs)
    BY <1>3, <1>4
  <2>2. QED
    BY <1>4, <1>5, <1>6, <2>1
<1>8. heard' \in [Agents -> Seq(1..MaxObs)]
  <2>1. heard' = [a \in Agents |-> IF a \in Traced(failed) THEN heard[a] \o inHand[a]
                                   ELSE heard[a]]
    BY DEF FinishTick
  <2>2. \A a \in Agents : heard[a] \o inHand[a] \in Seq(1..MaxObs)
    BY <1>3
  <2>3. QED
    BY <1>3, <2>1, <2>2
<1>9. lost' \in [Agents -> SUBSET (1..MaxObs)]
  <2>1. lost' = [a \in Agents |-> IF a \in stepping \ Traced(failed)
                                  THEN lost[a] \cup ToSet(inHand[a]) ELSE lost[a]]
    BY DEF FinishTick
  <2>2. \A a \in Agents : ToSet(inHand[a]) \subseteq 1..MaxObs
    BY <1>3, MembersOfSequence
  <2>3. QED
    BY <1>3, <2>1, <2>2
<1>10. inHand' \in [Agents -> Seq(1..MaxObs)]
  BY DEF FinishTick
<1>11. QED
  BY <1>1, <1>2, <1>7, <1>8, <1>9, <1>10 DEF TypeOK

LEMMA StepType == TypeOK /\ [Next]_vars => TypeOK'
<1> SUFFICES ASSUME TypeOK, [Next]_vars PROVE TypeOK'
  OBVIOUS
<1>1. CASE Elapse
  <2>1. UNCHANGED <<stepping, outcome, observations>>
    BY <1>1 DEF Elapse
  <2>2. ran' \in 0..MaxRan
    BY <1>1, Durations DEF Elapse, TypeOK, More
  <2>3. ASSUME NEW a \in Agents
        PROVE  /\ untilDue'[a] \in 0..Period[a] /\ sinceStep'[a] \in 0..Period[a]
               /\ untilAwake'[a] \in 0..Dwell[a] /\ sinceMove'[a] \in 0..Dwell[a]
    <3>1. /\ untilDue[a] \in 0..Period[a] /\ sinceStep[a] \in 0..Period[a]
          /\ untilAwake[a] \in 0..Dwell[a] /\ sinceMove[a] \in 0..Dwell[a]
          /\ Period[a] \in Nat /\ Dwell[a] \in Nat
      BY Durations DEF TypeOK
    <3>2. /\ untilDue'[a] = Less(untilDue[a]) /\ sinceStep'[a] = More(sinceStep[a], Period[a])
          /\ untilAwake'[a] = Less(untilAwake[a]) /\ sinceMove'[a] = More(sinceMove[a], Dwell[a])
      BY <1>1 DEF Elapse
    <3>3. QED
      BY <3>1, <3>2 DEF More, Less
  <2>4. QED
    BY <2>1, <2>2, <2>3 DEF TypeOK, observations
<1>2. ASSUME NEW a \in Agents, Observe(a) PROVE TypeOK'
  <2>1. UNCHANGED <<wheel, inHand, heard, lost, spacing>>
    BY <1>2 DEF Observe
  <2>2. got' \in [Agents -> 0..MaxObs] /\ got'[a] \in 1..MaxObs
    BY <1>2, CognitionAssumption DEF Observe, TypeOK, CognitionAssumption
  <2>3. pending' = [pending EXCEPT ![a] = Append(@, got'[a])]
    BY <1>2 DEF Observe
  <2>4. pending \in [Agents -> Seq(1..MaxObs)]
    BY DEF TypeOK
  <2>5. Append(pending[a], got'[a]) \in Seq(1..MaxObs)
    BY <2>2, <2>4
  <2>6. pending' \in [Agents -> Seq(1..MaxObs)]
    BY <2>3, <2>4, <2>5
  <2>7. QED
    BY <2>1, <2>2, <2>6 DEF TypeOK, wheel, spacing
<1>3. ASSUME NEW a \in Agents, EndStep(a) PROVE TypeOK'
  <2>1. UNCHANGED <<stepping, ran, untilDue, untilAwake, observations, spacing>>
    BY <1>3 DEF EndStep
  <2>2. outcome' \in [Agents -> {"none", "ok", "raised"}]
    BY <1>3 DEF EndStep, TypeOK
  <2>3. QED
    BY <2>1, <2>2 DEF TypeOK, observations, spacing
<1>4. CASE BeginTick
  <2>1. stepping' \subseteq Agents /\ ran' \in 0..MaxRan
    BY <1>4, Durations DEF BeginTick, Due
  <2>2. ASSUME NEW a \in Agents PROVE sinceStep'[a] \in 0..Period[a]
    <3>1. sinceStep[a] \in 0..Period[a] /\ Period[a] \in Nat
      BY Durations DEF TypeOK
    <3>2. sinceStep'[a] \in {0, sinceStep[a]}
      BY <1>4 DEF BeginTick
    <3>3. QED
      BY <3>1, <3>2
  <2>3. inHand' \in [Agents -> Seq(1..MaxObs)] /\ pending' \in [Agents -> Seq(1..MaxObs)]
    <3>1. \A a \in Agents : /\ pending[a] \in Seq(1..MaxObs) /\ inHand[a] \in Seq(1..MaxObs)
                            /\ <<>> \in Seq(1..MaxObs)
      BY DEF TypeOK
    <3>2. /\ inHand' = [a \in Agents |-> IF a \in Due THEN pending[a] ELSE inHand[a]]
          /\ pending' = [a \in Agents |-> IF a \in Due THEN <<>> ELSE pending[a]]
      BY <1>4 DEF BeginTick
    <3>3. QED
      BY <3>1, <3>2
  <2>4. UNCHANGED <<outcome, untilDue, untilAwake, heard, lost, got, sinceMove>>
    BY <1>4 DEF BeginTick
  <2>5. QED
    BY <2>1, <2>2, <2>3, <2>4 DEF TypeOK
<1>5. CASE Finish
  <2>1. PICK moved, followed, failed \in SUBSET stepping : FinishTick(moved, followed, failed)
    BY <1>5 DEF Finish
  <2>2. QED
    BY <2>1, FinishType
<1>6. CASE UNCHANGED vars
  BY <1>6 DEF TypeOK, vars, wheel, observations, spacing
<1>7. QED
  BY <1>1, <1>2, <1>3, <1>4, <1>5, <1>6 DEF Next

(* The clocks stay within their period or dwell, and each buffer holds       *)
(* observations there were, for all cadences, agents and bounds.           *)
THEOREM TypeCorrect == Spec => []TypeOK
<1>1. ASSUME Init PROVE TypeOK
  <2>1. ASSUME NEW a \in Agents
        PROVE  /\ untilDue[a] \in 0..Period[a] /\ sinceStep[a] \in 0..Period[a]
               /\ untilAwake[a] \in 0..Dwell[a] /\ sinceMove[a] \in 0..Dwell[a]
    <3>1. /\ untilDue[a] = 0 /\ untilAwake[a] = 0
          /\ sinceStep[a] = Period[a] /\ sinceMove[a] = Dwell[a]
      BY <1>1 DEF Init
    <3>2. Period[a] \in Nat /\ Dwell[a] \in Nat
      BY Durations
    <3>3. QED
      BY <3>1, <3>2
  <2>2. stepping \subseteq Agents /\ ran \in 0..MaxRan
    BY <1>1, Durations DEF Init
  <2>3. outcome \in [Agents -> {"none", "ok", "raised"}]
    BY <1>1 DEF Init
  <2>4. /\ pending \in [Agents -> Seq(1..MaxObs)] /\ inHand \in [Agents -> Seq(1..MaxObs)]
        /\ heard \in [Agents -> Seq(1..MaxObs)] /\ lost \in [Agents -> SUBSET (1..MaxObs)]
    BY <1>1 DEF Init
  <2>5. got \in [Agents -> 0..MaxObs]
    BY <1>1, CognitionAssumption DEF Init, CognitionAssumption
  <2>6. QED
    BY <2>1, <2>2, <2>3, <2>4, <2>5 DEF TypeOK
<1>2. QED
  BY <1>1, StepType, PTL DEF Spec
-----------------------------------------------------------------------------
(* Where the observations are.  Set by set, because a concatenation says     *)
(* little to the provers: each buffer rises, everything in one is older than *)
(* everything in the next, and together with the lost ones they are all.   *)

Rising(s) == \A i, j \in 1..Len(s) : i < j => s[i] < s[j]
Older(s, t) == \A x \in ToSet(s), y \in ToSet(t) : x < y

Accounted(h, i, p, g, l) ==
  /\ Rising(h) /\ Rising(i) /\ Rising(p)
  /\ Older(h, i) /\ Older(h, p) /\ Older(i, p)
  /\ ToSet(h) \cup ToSet(i) \cup ToSet(p) = 1..g \ l
  /\ l \subseteq 1..g

ObsInv ==
  \A a \in Agents :
    /\ a \notin stepping => inHand[a] = <<>>
    /\ Accounted(heard[a], inHand[a], pending[a], got[a], lost[a])

LEMMA ToSetEmpty == ToSet(<<>>) = {}
  BY DEF ToSet

LEMMA ToSetConcat ==
  ASSUME NEW s \in Seq(Nat), NEW t \in Seq(Nat)
  PROVE  ToSet(s \o t) = ToSet(s) \cup ToSet(t)
<1>1. /\ DOMAIN s = 1..Len(s) /\ DOMAIN t = 1..Len(t) /\ Len(s) \in Nat /\ Len(t) \in Nat
      /\ DOMAIN (s \o t) = 1..(Len(s) + Len(t))
      /\ \A k \in 1..(Len(s) + Len(t)) : (s \o t)[k] = IF k =< Len(s) THEN s[k] ELSE t[k - Len(s)]
  OBVIOUS
<1>2. ASSUME NEW k \in 1..(Len(s) + Len(t)) PROVE (s \o t)[k] \in ToSet(s) \cup ToSet(t)
  <2>1. CASE k =< Len(s)
    <3>1. k \in 1..Len(s) /\ (s \o t)[k] = s[k]
      BY <1>1, <2>1
    <3>2. QED
      BY ONLY <1>1, <3>1 DEF ToSet
  <2>2. CASE k > Len(s)
    <3>1. k - Len(s) \in 1..Len(t) /\ (s \o t)[k] = t[k - Len(s)]
      BY <1>1, <2>2
    <3>2. QED
      BY <1>1, <3>1 DEF ToSet
  <2>3. QED
    BY <1>1, <2>1, <2>2
<1>3. ASSUME NEW k \in 1..Len(s) PROVE s[k] \in ToSet(s \o t)
  <2>1. k \in 1..(Len(s) + Len(t)) /\ (s \o t)[k] = s[k]
    BY <1>1
  <2>2. QED
    BY <1>1, <2>1 DEF ToSet
<1>4. ASSUME NEW k \in 1..Len(t) PROVE t[k] \in ToSet(s \o t)
  <2>1. Len(s) + k \in 1..(Len(s) + Len(t)) /\ (s \o t)[Len(s) + k] = t[k]
    BY <1>1
  <2>2. QED
    BY <1>1, <2>1 DEF ToSet
<1>5. ToSet(s \o t) \subseteq ToSet(s) \cup ToSet(t)
  BY <1>1, <1>2 DEF ToSet
<1>6. ToSet(s) \subseteq ToSet(s \o t) /\ ToSet(t) \subseteq ToSet(s \o t)
  BY <1>1, <1>3, <1>4 DEF ToSet
<1>7. QED
  BY <1>5, <1>6

LEMMA RisingConcat ==
  ASSUME NEW s \in Seq(Nat), NEW t \in Seq(Nat), Rising(s), Rising(t), Older(s, t)
  PROVE  Rising(s \o t)
<1>1. /\ Len(s) \in Nat /\ Len(t) \in Nat /\ Len(s \o t) = Len(s) + Len(t)
      /\ \A k \in 1..(Len(s) + Len(t)) : (s \o t)[k] = IF k =< Len(s) THEN s[k] ELSE t[k - Len(s)]
  OBVIOUS
<1>2. \A i \in 1..Len(s), j \in 1..Len(t) : s[i] < t[j]
  BY DEF Older, ToSet
<1> SUFFICES ASSUME NEW i \in 1..(Len(s) + Len(t)), NEW j \in 1..(Len(s) + Len(t)), i < j
             PROVE  (s \o t)[i] < (s \o t)[j]
  BY <1>1 DEF Rising
<1>3. CASE j =< Len(s)
  BY <1>1, <1>3 DEF Rising
<1>4. CASE i =< Len(s) /\ j > Len(s)
  <2>1. j - Len(s) \in 1..Len(t) /\ i \in 1..Len(s)
    BY <1>1, <1>4
  <2>2. QED
    BY <1>1, <1>2, <1>4, <2>1
<1>5. CASE i > Len(s)
  <2>1. j - Len(s) \in 1..Len(t) /\ i - Len(s) \in 1..Len(t) /\ i - Len(s) < j - Len(s)
    BY <1>1, <1>5
  <2>2. t[i - Len(s)] < t[j - Len(s)]
    BY <2>1 DEF Rising
  <2>3. QED
    BY <1>1, <1>5, <2>1, <2>2
<1>6. i =< Len(s) \/ i > Len(s)
  BY <1>1
<1>7. j =< Len(s) \/ j > Len(s)
  BY <1>1
<1>8. QED
  BY ONLY <1>3, <1>4, <1>5, <1>6, <1>7

LEMMA EmptyAndSingle ==
  ASSUME NEW n \in Nat, NEW s \in Seq(Nat)
  PROVE  /\ Rising(<<>>) /\ Rising(<<n>>) /\ ToSet(<<n>>) = {n}
         /\ Older(<<>>, s) /\ Older(s, <<>>)
         /\ Append(s, n) = s \o <<n>> /\ s \o <<>> = s
<1>1. Rising(<<>>) /\ Rising(<<n>>)
  BY DEF Rising
<1>2. ToSet(<<n>>) = {n}
  BY DEF ToSet
<1>3. Older(<<>>, s) /\ Older(s, <<>>)
  BY ToSetEmpty DEF Older
<1>4. Append(s, n) = s \o <<n>> /\ s \o <<>> = s
  OBVIOUS
<1>5. QED
  BY <1>1, <1>2, <1>3, <1>4

-----------------------------------------------------------------------------
(* What becomes of the account: an observation arrives, a step takes the     *)
(* buffer, what it was given reaches the agent, or is lost with its result. *)

LEMMA Arrives ==
  ASSUME NEW h \in Seq(Nat), NEW i \in Seq(Nat), NEW p \in Seq(Nat), NEW g \in Nat, NEW l,
         Accounted(h, i, p, g, l)
  PROVE  Accounted(h, i, Append(p, g + 1), g + 1, l)
<1>1. Append(p, g + 1) = p \o <<g + 1>> /\ <<g + 1>> \in Seq(Nat)
      /\ Rising(<<g + 1>>) /\ ToSet(<<g + 1>>) = {g + 1}
  BY EmptyAndSingle
<1>2. ToSet(Append(p, g + 1)) = ToSet(p) \cup {g + 1}
  BY <1>1, ToSetConcat
<1>3. /\ ToSet(h) \subseteq 1..g /\ ToSet(i) \subseteq 1..g /\ ToSet(p) \subseteq 1..g
      /\ \A x \in 1..g : x < g + 1
  BY DEF Accounted
<1>4. Older(p, <<g + 1>>)
  BY <1>1, <1>3 DEF Older
<1>5. Rising(Append(p, g + 1))
  BY <1>1, <1>4, RisingConcat DEF Accounted
<1>6. Older(h, Append(p, g + 1)) /\ Older(i, Append(p, g + 1))
  BY <1>2, <1>3 DEF Accounted, Older
<1>7. ToSet(h) \cup ToSet(i) \cup ToSet(Append(p, g + 1)) = 1..(g + 1) \ l
  <2>1. 1..(g + 1) = 1..g \cup {g + 1} /\ g + 1 \notin l
    BY DEF Accounted
  <2>2. QED
    BY <1>2, <2>1 DEF Accounted
<1>8. l \subseteq 1..(g + 1)
  BY DEF Accounted
<1>9. QED
  BY <1>5, <1>6, <1>7, <1>8 DEF Accounted

LEMMA Taken ==
  ASSUME NEW h \in Seq(Nat), NEW p \in Seq(Nat), NEW g, NEW l, Accounted(h, <<>>, p, g, l)
  PROVE  Accounted(h, p, <<>>, g, l)
<1>1. Rising(<<>>) /\ Older(h, <<>>) /\ Older(p, <<>>) /\ ToSet(<<>>) = {}
  BY EmptyAndSingle, ToSetEmpty
<1>2. QED
  BY <1>1 DEF Accounted

LEMMA Reaches ==
  ASSUME NEW h \in Seq(Nat), NEW i \in Seq(Nat), NEW p \in Seq(Nat), NEW g, NEW l,
         Accounted(h, i, p, g, l)
  PROVE  Accounted(h \o i, <<>>, p, g, l)
<1>1. Rising(h \o i) /\ ToSet(h \o i) = ToSet(h) \cup ToSet(i) /\ h \o i \in Seq(Nat)
  BY RisingConcat, ToSetConcat DEF Accounted
<1>2. /\ Rising(<<>>) /\ Older(h \o i, <<>>) /\ Older(<<>>, p) /\ ToSet(<<>>) = {}
  BY <1>1, EmptyAndSingle, ToSetEmpty
<1>3. Older(h \o i, p)
  BY <1>1 DEF Accounted, Older
<1>4. QED
  BY <1>1, <1>2, <1>3 DEF Accounted

LEMMA IsLost ==
  ASSUME NEW h \in Seq(Nat), NEW i \in Seq(Nat), NEW p \in Seq(Nat), NEW g, NEW l,
         Accounted(h, i, p, g, l)
  PROVE  Accounted(h, <<>>, p, g, l \cup ToSet(i))
<1>1. Rising(<<>>) /\ Older(h, <<>>) /\ Older(<<>>, p) /\ ToSet(<<>>) = {}
  BY EmptyAndSingle, ToSetEmpty
<1>2. /\ ToSet(h) \subseteq Nat /\ ToSet(i) \subseteq Nat /\ ToSet(p) \subseteq Nat
  BY MembersOfSequence
<1>3. ToSet(h) \cap ToSet(i) = {} /\ ToSet(i) \cap ToSet(p) = {}
  BY <1>2 DEF Accounted, Older
<1>4. /\ ToSet(h) \cup ToSet(<<>>) \cup ToSet(p) = 1..g \ (l \cup ToSet(i))
      /\ l \cup ToSet(i) \subseteq 1..g
  BY <1>1, <1>3 DEF Accounted
<1>5. QED
  BY <1>1, <1>4 DEF Accounted

LEMMA BuffersAreNumbers ==
  ASSUME TypeOK, NEW a \in Agents
  PROVE  /\ heard[a] \in Seq(Nat) /\ inHand[a] \in Seq(Nat) /\ pending[a] \in Seq(Nat)
         /\ got[a] \in Nat
<1>1. /\ heard[a] \in Seq(1..MaxObs) /\ inHand[a] \in Seq(1..MaxObs)
      /\ pending[a] \in Seq(1..MaxObs) /\ got[a] \in 0..MaxObs
  BY DEF TypeOK
<1>2. MaxObs \in Nat
  BY CognitionAssumption DEF CognitionAssumption
<1>3. \A s \in Seq(1..MaxObs) : s \in Seq(Nat)
  <2>1. TAKE s \in Seq(1..MaxObs)
  <2>2. Len(s) \in Nat /\ s \in [1..Len(s) -> Nat]
    BY <1>2
  <2>3. QED
    BY <2>2
<1>4. QED
  BY <1>1, <1>2, <1>3

-----------------------------------------------------------------------------
LEMMA ObserveAccounted ==
  ASSUME TypeOK, ObsInv, NEW b \in Agents, Observe(b)
  PROVE  ObsInv'
<1> SUFFICES ASSUME NEW a \in Agents
             PROVE  /\ a \notin stepping' => inHand'[a] = <<>>
                    /\ Accounted(heard'[a], inHand'[a], pending'[a], got'[a], lost'[a])
  BY DEF ObsInv
<1>1. stepping' = stepping /\ inHand' = inHand /\ heard' = heard /\ lost' = lost
  BY DEF Observe, wheel
<1>2. /\ a \notin stepping => inHand[a] = <<>>
      /\ Accounted(heard[a], inHand[a], pending[a], got[a], lost[a])
  BY DEF ObsInv
<1>3. CASE a = b
  <2>1. got'[a] = got[a] + 1 /\ pending'[a] = Append(pending[a], got[a] + 1)
    BY <1>3 DEF Observe, TypeOK
  <2>2. Accounted(heard[a], inHand[a], Append(pending[a], got[a] + 1), got[a] + 1, lost[a])
    BY <1>2, BuffersAreNumbers, Arrives
  <2>3. QED
    BY <1>1, <1>2, <2>1, <2>2
<1>4. CASE a # b
  <2>1. got'[a] = got[a] /\ pending'[a] = pending[a]
    BY <1>4 DEF Observe, TypeOK
  <2>2. QED
    BY <1>1, <1>2, <2>1
<1>5. QED
  BY <1>3, <1>4

LEMMA BeginAccounted ==
  ASSUME TypeOK, ObsInv, BeginTick
  PROVE  ObsInv'
<1> SUFFICES ASSUME NEW a \in Agents
             PROVE  /\ a \notin stepping' => inHand'[a] = <<>>
                    /\ Accounted(heard'[a], inHand'[a], pending'[a], got'[a], lost'[a])
  BY DEF ObsInv
<1>1. heard' = heard /\ lost' = lost /\ got' = got /\ stepping' = Due
  BY DEF BeginTick
<1>2. inHand[a] = <<>> /\ Accounted(heard[a], inHand[a], pending[a], got[a], lost[a])
  BY DEF ObsInv, BeginTick
<1>3. CASE a \in Due
  <2>1. inHand'[a] = pending[a] /\ pending'[a] = <<>>
    BY <1>3 DEF BeginTick
  <2>2. Accounted(heard[a], pending[a], <<>>, got[a], lost[a])
    BY <1>2, BuffersAreNumbers, Taken
  <2>3. QED
    BY <1>1, <1>3, <2>1, <2>2
<1>4. CASE a \notin Due
  <2>1. inHand'[a] = inHand[a] /\ pending'[a] = pending[a]
    BY <1>4 DEF BeginTick
  <2>2. QED
    BY <1>1, <1>2, <2>1
<1>5. QED
  BY <1>3, <1>4

LEMMA FinishAccounted ==
  ASSUME TypeOK, ObsInv, NEW moved, NEW followed, NEW failed, FinishTick(moved, followed, failed)
  PROVE  ObsInv'
<1> SUFFICES ASSUME NEW a \in Agents
             PROVE  /\ inHand'[a] = <<>>
                    /\ Accounted(heard'[a], inHand'[a], pending'[a], got'[a], lost'[a])
  BY DEF ObsInv
<1> DEFINE new == IF a \in followed THEN <<got[a] + 1>> ELSE <<>>
<1>1. inHand'[a] = <<>>
  BY DEF FinishTick
<1>2. /\ a \notin stepping => inHand[a] = <<>>
      /\ Accounted(heard[a], inHand[a], pending[a], got[a], lost[a])
  BY DEF ObsInv
<1>3. /\ heard[a] \in Seq(Nat) /\ inHand[a] \in Seq(Nat) /\ pending[a] \in Seq(Nat)
      /\ got[a] \in Nat
  BY BuffersAreNumbers
<1>4. Accounted(heard'[a], <<>>, pending[a], got[a], lost'[a])
  <2>1. CASE a \in Traced(failed)
    <3>1. heard'[a] = heard[a] \o inHand[a] /\ lost'[a] = lost[a]
      BY <2>1 DEF FinishTick
    <3>2. QED
      BY <1>2, <1>3, <3>1, Reaches
  <2>2. CASE a \in stepping \ Traced(failed)
    <3>1. heard'[a] = heard[a] /\ lost'[a] = lost[a] \cup ToSet(inHand[a])
      BY <2>2 DEF FinishTick
    <3>2. Accounted(heard[a], <<>>, pending[a], got[a], lost[a] \cup ToSet(inHand[a]))
      BY <1>2, <1>3, IsLost
    <3>3. QED
      BY <3>1, <3>2
  <2>3. CASE a \notin stepping
    <3>1. a \notin Traced(failed)
      BY <2>3 DEF Traced
    <3>2. heard'[a] = heard[a] /\ lost'[a] = lost[a]
      BY <2>3, <3>1 DEF FinishTick
    <3>3. QED
      BY <1>2, <2>3, <3>2
  <2>4. QED
    BY <2>1, <2>2, <2>3
<1>5. /\ pending'[a] = pending[a] \o new /\ got'[a] = got[a] + Len(new)
      /\ heard'[a] \in {heard[a], heard[a] \o inHand[a]}
  BY DEF FinishTick, PendingAfter
<1>6. heard'[a] \in Seq(Nat)
  <2>1. heard[a] \o inHand[a] \in Seq(Nat)
    BY <1>3
  <2>2. QED
    BY <1>3, <1>5, <2>1
<1>7. CASE a \in followed
  <2>1. pending'[a] = Append(pending[a], got[a] + 1) /\ got'[a] = got[a] + 1
    <3>1. new = <<got[a] + 1>> /\ Len(<<got[a] + 1>>) = 1
      BY <1>7
    <3>2. Append(pending[a], got[a] + 1) = pending[a] \o <<got[a] + 1>>
      <4>1. got[a] + 1 \in Nat
        BY <1>3
      <4>2. QED
        BY ONLY <1>3, <4>1, EmptyAndSingle
    <3> HIDE DEF new
    <3>3. Len(new) = 1
      BY <3>1
    <3>4. pending'[a] = pending[a] \o <<got[a] + 1>>
      BY <1>5, <3>1
    <3>5. QED
      BY <1>5, <3>2, <3>3, <3>4
  <2>2. <<>> \in Seq(Nat)
    OBVIOUS
  <2>3. Accounted(heard'[a], <<>>, Append(pending[a], got[a] + 1), got[a] + 1, lost'[a])
    BY <1>3, <1>4, <1>6, <2>2, Arrives
  <2>4. QED
    BY <1>1, <2>1, <2>3
<1>8. CASE a \notin followed
  <2>1. pending'[a] = pending[a] /\ got'[a] = got[a]
    BY <1>3, <1>5, <1>8
  <2>2. QED
    BY <1>1, <1>4, <2>1
<1>9. QED
  BY <1>7, <1>8

LEMMA StepAccounted == TypeOK /\ ObsInv /\ [Next]_vars => ObsInv'
<1> SUFFICES ASSUME TypeOK, ObsInv, [Next]_vars PROVE ObsInv'
  OBVIOUS
<1>1. CASE Elapse \/ (\E a \in Agents : EndStep(a)) \/ UNCHANGED vars
  <2>1. stepping' = stepping /\ UNCHANGED observations
    BY <1>1 DEF Elapse, EndStep, vars, wheel
  <2>2. QED
    BY <2>1 DEF ObsInv, observations
<1>2. ASSUME NEW a \in Agents, Observe(a) PROVE ObsInv'
  BY <1>2, ObserveAccounted
<1>3. CASE BeginTick
  BY <1>3, BeginAccounted
<1>4. CASE Finish
  <2>1. PICK moved, followed \in SUBSET stepping,
             failed \in {{}} \cup {{a} : a \in stepping} : FinishTick(moved, followed, failed)
    BY <1>4 DEF Finish
  <2>2. QED
    BY <2>1, FinishAccounted
<1>5. QED
  BY <1>1, <1>2, <1>3, <1>4 DEF Next

LEMMA AccountedInOrder ==
  ASSUME TypeOK, ObsInv
  PROVE  ObservationsAccounted
<1> SUFFICES ASSUME NEW a \in Agents
             PROVE  LET all == heard[a] \o inHand[a] \o pending[a]
                    IN /\ \A i, j \in 1..Len(all) : i < j => all[i] < all[j]
                       /\ ToSet(all) = 1..got[a] \ lost[a]
  BY DEF ObservationsAccounted
<1>1. /\ heard[a] \in Seq(Nat) /\ inHand[a] \in Seq(Nat) /\ pending[a] \in Seq(Nat)
      /\ heard[a] \o inHand[a] \in Seq(Nat)
  BY BuffersAreNumbers
<1>2. Accounted(heard[a], inHand[a], pending[a], got[a], lost[a])
  BY DEF ObsInv
<1>3. /\ Rising(heard[a] \o inHand[a])
      /\ ToSet(heard[a] \o inHand[a]) = ToSet(heard[a]) \cup ToSet(inHand[a])
  BY <1>1, <1>2, RisingConcat, ToSetConcat DEF Accounted
<1>4. Older(heard[a] \o inHand[a], pending[a]) /\ Rising(pending[a])
  BY <1>2, <1>3 DEF Accounted, Older
<1>5. Rising(heard[a] \o inHand[a] \o pending[a])
  BY <1>1, <1>3, <1>4, RisingConcat
<1>6. ToSet(heard[a] \o inHand[a] \o pending[a])
        = ToSet(heard[a]) \cup ToSet(inHand[a]) \cup ToSet(pending[a])
  BY <1>1, <1>3, ToSetConcat
<1>7. QED
  BY <1>2, <1>5, <1>6 DEF Rising, Accounted

(* No observation is forgotten, repeated or put out of order, for all        *)
(* cadences and agents and whatever becomes of their steps: what arrives     *)
(* during a step waits behind what the step was given.                     *)
THEOREM ObservationsAccountedHolds == Spec => []ObservationsAccounted
<1>1. ASSUME Init PROVE ObsInv
  <2>1. ASSUME NEW a \in Agents
        PROVE  inHand[a] = <<>> /\ Accounted(heard[a], inHand[a], pending[a], got[a], lost[a])
    <3>1. /\ heard[a] = <<>> /\ inHand[a] = <<>> /\ pending[a] = <<>>
          /\ got[a] = 0 /\ lost[a] = {}
      BY <1>1 DEF Init
    <3>2. <<>> \in Seq(Nat) /\ 1..0 = {}
      OBVIOUS
    <3>3. Rising(<<>>) /\ Older(<<>>, <<>>) /\ ToSet(<<>>) = {}
      BY <3>2, EmptyAndSingle, ToSetEmpty
    <3>4. QED
      BY <3>1, <3>2, <3>3 DEF Accounted
  <2>2. QED
    BY <2>1 DEF ObsInv
<1>2. QED
  BY <1>1, StepAccounted, AccountedInOrder, TypeCorrect, PTL DEF Spec
=============================================================================

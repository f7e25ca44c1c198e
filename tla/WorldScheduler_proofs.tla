------------------------ MODULE WorldScheduler_proofs ------------------------
(***************************************************************************)
(* Proofs about the world loop, for every set of handlers, all periods and *)
(* every bound on lateness.                                                *)
(***************************************************************************)
EXTENDS WorldScheduler, TLAPS

(* While run() sleeps or works on an event, no other deadline is earlier. *)
CurrentIsEarliest ==
  phase \in {"sleeping", "handling"} => \A g \in Handlers : lead[current] =< lead[g]

IInv == TypeOK /\ Lockstep /\ OldestFirst /\ CurrentIsEarliest

LEMMA InitIInv == Init => IInv
<1> SUFFICES ASSUME Init PROVE IInv
  OBVIOUS
<1> USE SchedulerAssumption DEF Init, SchedulerAssumption
<1>1. TypeOK
  <2>1. older \subseteq Handlers \X Handlers
    OBVIOUS
  <2>2. /\ lead \in [Handlers -> Int]
        /\ \A h \in Handlers : -MaxLag =< lead[h] /\ lead[h] =< Period[h]
    OBVIOUS
  <2>3. QED
    BY <2>1, <2>2 DEF TypeOK, Phases
<1>2. Lockstep
  BY DEF Lockstep
<1>3. OldestFirst
  BY DEF OldestFirst
<1>4. CurrentIsEarliest
  BY DEF CurrentIsEarliest
<1>5. QED
  BY <1>1, <1>2, <1>3, <1>4 DEF IInv

(* Requeueing the current event is the one step that reorders the heap.    *)
(* Its new key, the deadline it just served, is at least everyone's.       *)
LEMMA RequeueKeepsOrder ==
  ASSUME IInv, phase = "handling", lead[current] =< 0,
         lead' = NextLead(current), older' = Requeued(current)
  PROVE  /\ lead' \in [Handlers -> Int]
         /\ \A h \in Handlers : -MaxLag =< lead'[h] /\ lead'[h] =< Period[h]
         /\ older' \subseteq Handlers \X Handlers
         /\ Lockstep'
         /\ OldestFirst'
<1> USE SchedulerAssumption DEF SchedulerAssumption
<1>0. current \in Handlers
  BY DEF IInv, TypeOK
<1>1. \A h \in Handlers : lead'[h] = IF h = current THEN lead[h] + Period[h] ELSE lead[h]
  BY <1>0 DEF NextLead, IInv, TypeOK
<1>2. lead' \in [Handlers -> Int]
  <2>1. Period[current] \in Int
    BY <1>0
  <2>2. QED
    BY <1>0, <2>1 DEF NextLead, IInv, TypeOK
<1>3. \A h \in Handlers : -MaxLag =< lead'[h] /\ lead'[h] =< Period[h]
  BY <1>0, <1>1 DEF IInv, TypeOK
<1>4. older' \subseteq Handlers \X Handlers
  BY <1>0 DEF Requeued, IInv, TypeOK
<1>5. Lockstep'
  BY <1>0, <1>1 DEF Lockstep, IInv, TypeOK, CurrentIsEarliest
<1>6. OldestFirst'
  <2> SUFFICES ASSUME NEW g \in Handlers, NEW h \in Handlers,
                      lead'[g] - Period[g] < lead'[h] - Period[h]
               PROVE  <<g, h>> \in older'
    BY DEF OldestFirst
  <2>1. CASE g = current
    BY <2>1, <1>0, <1>1 DEF Lockstep, IInv, TypeOK
  <2>2. CASE g # current /\ h = current
    BY <2>2 DEF Requeued
  <2>3. CASE g # current /\ h # current
    BY <2>3, <1>1 DEF Requeued, OldestFirst, IInv
  <2>4. QED
    BY <2>1, <2>2, <2>3
<1>7. QED
  BY <1>2, <1>3, <1>4, <1>5, <1>6

(* A handler is only ever at work at or after its deadline. *)
NeverEarly == phase = "handling" => lead[current] =< 0

LEMMA StepIInv == IInv /\ NeverEarly /\ [Next]_vars => IInv' /\ NeverEarly'
<1> SUFFICES ASSUME IInv, NeverEarly, [Next]_vars PROVE IInv' /\ NeverEarly'
  OBVIOUS
<1> USE SchedulerAssumption DEF SchedulerAssumption
<1>1. CASE Start
  <2>1. PICK h \in Handlers : Earliest(h, lead, older) /\ current' = h
    BY <1>1 DEF Start
  <2>2. \A g \in Handlers : lead[h] =< lead[g]
    <3>0. lead \in [Handlers -> Int]
      BY DEF IInv, TypeOK
    <3> TAKE g \in Handlers
    <3>1. lead[g] \in Int /\ lead[h] \in Int
      BY <3>0, <2>1
    <3>2. g = h \/ lead[h] < lead[g] \/ lead[h] = lead[g]
      BY <2>1 DEF Earliest
    <3>3. QED
      BY <3>1, <3>2
  <2>3. TypeOK'
    BY <1>1, <2>1 DEF Start, IInv, TypeOK, Phases
  <2>4. Lockstep' /\ OldestFirst' /\ NeverEarly'
    BY <1>1 DEF Start, IInv, Lockstep, OldestFirst, NeverEarly
  <2>5. CurrentIsEarliest'
    BY <1>1, <2>1, <2>2 DEF Start, CurrentIsEarliest
  <2>6. QED
    BY <2>3, <2>4, <2>5 DEF IInv
<1>2. CASE Elapse
  <2>1. \A h \in Handlers : lead'[h] = lead[h] - 1
    BY <1>2 DEF Elapse
  <2>2. TypeOK'
    BY <1>2, <2>1 DEF Elapse, IInv, TypeOK, Phases
  <2>3. Lockstep' /\ OldestFirst'
    BY <1>2, <2>1 DEF Elapse, IInv, TypeOK, Lockstep, OldestFirst
  <2>4. CurrentIsEarliest' /\ NeverEarly'
    BY <1>2, <2>1 DEF Elapse, IInv, TypeOK, CurrentIsEarliest, NeverEarly
  <2>5. QED
    BY <2>2, <2>3, <2>4 DEF IInv
<1>3. CASE Wake
  <2>1. TypeOK'
    BY <1>3 DEF Wake, IInv, TypeOK, Phases
  <2>2. Lockstep' /\ OldestFirst' /\ CurrentIsEarliest' /\ NeverEarly'
    BY <1>3 DEF Wake, IInv, Lockstep, OldestFirst, CurrentIsEarliest, NeverEarly
  <2>3. QED
    BY <2>1, <2>2 DEF IInv
<1>4. CASE Finish
  <2>1. /\ phase = "handling" /\ lead[current] =< 0
        /\ lead' = NextLead(current) /\ older' = Requeued(current)
    BY <1>4 DEF Finish, NeverEarly
  <2>2. /\ lead' \in [Handlers -> Int]
        /\ \A h \in Handlers : -MaxLag =< lead'[h] /\ lead'[h] =< Period[h]
        /\ older' \subseteq Handlers \X Handlers
        /\ Lockstep' /\ OldestFirst'
    BY <2>1, RequeueKeepsOrder
  <2>3. CASE ~running
    BY <1>4, <2>2, <2>3 DEF Finish, IInv, TypeOK, CurrentIsEarliest, NeverEarly, Phases
  <2>4. CASE running
    <3>1. phase' = "sleeping" /\ running' = running
      BY <1>4, <2>4 DEF Finish
    <3>2. PICK h \in Handlers : Earliest(h, lead', older') /\ current' = h
      BY <1>4, <2>4 DEF Finish
    <3>3. \A g \in Handlers : lead'[h] =< lead'[g]
      <4> TAKE g \in Handlers
      <4>1. lead'[g] \in Int /\ lead'[h] \in Int
        BY <2>2, <3>2
      <4>2. g = h \/ lead'[h] < lead'[g] \/ lead'[h] = lead'[g]
        BY <3>2 DEF Earliest
      <4>3. QED
        BY <4>1, <4>2
    <3>4. TypeOK'
      BY <2>2, <3>1, <3>2 DEF TypeOK, Phases, IInv
    <3>5. QED
      BY <2>2, <3>1, <3>2, <3>3, <3>4 DEF IInv, CurrentIsEarliest, NeverEarly
  <2>5. QED
    BY <2>3, <2>4 DEF IInv, TypeOK
<1>5. CASE Stop
  BY <1>5 DEF Stop, IInv, TypeOK, Lockstep, OldestFirst, CurrentIsEarliest, NeverEarly
<1>6. CASE Cancel
  BY <1>6 DEF Cancel, IInv, TypeOK, Lockstep, OldestFirst, CurrentIsEarliest,
              NeverEarly, Phases
<1>7. CASE UNCHANGED vars
  BY <1>7 DEF vars, IInv, TypeOK, Lockstep, OldestFirst, CurrentIsEarliest, NeverEarly
<1>8. QED
  BY <1>1, <1>2, <1>3, <1>4, <1>5, <1>6, <1>7 DEF Next

(* The inductive invariant, and that run() never starts a handler early.    *)
THEOREM SpecIInv == Spec => [](IInv /\ NeverEarly)
<1>1. Init => NeverEarly
  BY DEF Init, NeverEarly
<1>2. QED
  BY <1>1, InitIInv, StepIInv, PTL DEF Spec

(* The state of the loop is well formed, and no deadline is more than one  *)
(* period ahead of the clock.                                              *)
THEOREM TypeCorrect == Spec => []TypeOK
  BY SpecIInv, PTL DEF IInv

(* The handlers are caught up in step with each other, however late they   *)
(* are and whatever their periods.                                         *)
THEOREM LockstepHolds == Spec => []Lockstep
  BY SpecIInv, PTL DEF IInv

(* Coinciding deadlines are served in the order they were queued, the      *)
(* handler with the longer period first.                                   *)
THEOREM OldestFirstHolds == Spec => []OldestFirst
  BY SpecIInv, PTL DEF IInv

(* The heap loop implements absolute periodic timers. *)
THEOREM ImplementsTimers == Spec => NoDrift
<1>1. Init => Timer!Init
  BY DEF Init, Timer!Init
<1>2. IInv /\ NeverEarly /\ [Next]_vars => [Timer!Next]_lead
  <2> SUFFICES ASSUME IInv, NeverEarly, [Next]_vars PROVE [Timer!Next]_lead
    OBVIOUS
  <2>1. CASE Elapse
    BY <2>1 DEF Elapse, Timer!Next, Timer!Elapse
  <2>2. CASE Finish
    <3>1. current \in Handlers /\ lead[current] =< 0
      BY <2>2 DEF Finish, IInv, TypeOK, NeverEarly
    <3>2. Timer!Run(current)
      BY <2>2, <3>1 DEF Finish, NextLead, Timer!Run
    <3>3. QED
      BY <3>1, <3>2 DEF Timer!Next
  <2>3. CASE UNCHANGED lead
    BY <2>3
  <2>4. QED
    BY <2>1, <2>2, <2>3 DEF Next, Start, Wake, Stop, Cancel, vars
<1>3. QED
  BY <1>1, <1>2, SpecIInv, PTL DEF Spec, NoDrift, Timer!Spec
=============================================================================

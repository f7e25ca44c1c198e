---------------------------- MODULE CognitionTick ----------------------------
(***************************************************************************)
(* The phase wheel of WorldRuntime: which agents a cognition tick steps,     *)
(* the gather of their steps, and what comes of each result.                *)
(*                                                                         *)
(* Only the cognition handler's own steps are here; WorldScheduler shows     *)
(* that it is called again and again, WorldDialog what follows the gather.  *)
(* Deadlines are kept as the time left until them, so that only             *)
(* differences of the clock appear.                                        *)
(***************************************************************************)
EXTENDS Integers, Sequences, SequencesExt

CONSTANTS Agents,            \* registered agents, in registration order
          Period,            \* cognition_period_s of each persona
          Dwell,             \* dwell_time_s of each persona
          Tracing,           \* a trace sink is wired (evaluation capture)
          MaxObs,            \* bound: observations an agent ever gets
          MaxRan             \* bound: the longest gather told apart

ASSUME CognitionAssumption ==
  /\ Agents \subseteq Nat
  /\ Period \in [Agents -> Nat \ {0}]
  /\ Dwell \in [Agents -> Nat]
  /\ Tracing \in BOOLEAN
  /\ MaxObs \in Nat
  /\ MaxRan \in Nat /\ \A a \in Agents : Period[a] =< MaxRan

VARIABLES stepping,          \* the agents of the gather under way, {} between ticks
          outcome,           \* how the step of each of them ended
          ran,               \* time since the tick read the clock, up to MaxRan
          untilDue,          \* next_cognition_due - now, or 0
          untilAwake,        \* dwell_until - now, or 0
          pending,           \* AgentRuntime.pending
          inHand,            \* observations a step in flight was given
          heard, lost,       \* history: observations that reached the agent, or not
          got,               \* history: how many observations there were
          sinceStep,         \* history: time since the agent's last step began
          sinceMove          \* history: time since the agent was last sent walking

wheel == <<stepping, outcome, ran, untilDue, untilAwake>>
observations == <<pending, inHand, heard, lost, got>>
spacing == <<sinceStep, sinceMove>>
vars == <<wheel, observations, spacing>>

TypeOK ==
  /\ stepping \subseteq Agents
  /\ outcome \in [Agents -> {"none", "ok", "raised"}]
  /\ ran \in 0..MaxRan
  /\ \A a \in Agents :
       /\ untilDue[a] \in 0..Period[a] /\ sinceStep[a] \in 0..Period[a]
       /\ untilAwake[a] \in 0..Dwell[a] /\ sinceMove[a] \in 0..Dwell[a]
  /\ pending \in [Agents -> Seq(1..MaxObs)] /\ inHand \in [Agents -> Seq(1..MaxObs)]
  /\ heard \in [Agents -> Seq(1..MaxObs)] /\ lost \in [Agents -> SUBSET (1..MaxObs)]
  /\ got \in [Agents -> 0..MaxObs]

Init ==
  /\ stepping = {}
  /\ outcome = [a \in Agents |-> "none"]
  /\ ran = 0
  /\ untilDue = [a \in Agents |-> 0] /\ untilAwake = [a \in Agents |-> 0]
  /\ pending = [a \in Agents |-> <<>>] /\ inHand = [a \in Agents |-> <<>>]
  /\ heard = [a \in Agents |-> <<>>] /\ lost = [a \in Agents |-> {}]
  /\ got = [a \in Agents |-> 0]
  /\ sinceStep = Period /\ sinceMove = Dwell

-----------------------------------------------------------------------------
Less(n) == IF n > 0 THEN n - 1 ELSE 0
More(n, most) == IF n < most THEN n + 1 ELSE most
Left(total, passed) == IF passed < total THEN total - passed ELSE 0

(* The clock moves on, also while a gather is awaited. *)
Elapse ==
  /\ untilDue' = [a \in Agents |-> Less(untilDue[a])]
  /\ untilAwake' = [a \in Agents |-> Less(untilAwake[a])]
  /\ ran' = IF stepping = {} THEN 0 ELSE More(ran, MaxRan)
  /\ sinceStep' = [a \in Agents |-> More(sinceStep[a], Period[a])]
  /\ sinceMove' = [a \in Agents |-> More(sinceMove[a], Dwell[a])]
  /\ UNCHANGED <<stepping, outcome, observations>>

(* inject_observation, or an event of the physics handler. *)
Observe(a) ==
  /\ got[a] < MaxObs
  /\ got' = [got EXCEPT ![a] = @ + 1]
  /\ pending' = [pending EXCEPT ![a] = Append(@, got'[a])]
  /\ UNCHANGED <<wheel, inHand, heard, lost, spacing>>

Due == {a \in Agents : untilAwake[a] = 0 /\ untilDue[a] = 0}

(* _on_cognition_tick up to the gather, each _step_one up to its await: the  *)
(* buffer is swapped before the step is awaited.                           *)
BeginTick ==
  /\ stepping = {} /\ Due # {}
  /\ stepping' = Due
  /\ ran' = 0
  /\ inHand' = [a \in Agents |-> IF a \in Due THEN pending[a] ELSE inHand[a]]
  /\ pending' = [a \in Agents |-> IF a \in Due THEN <<>> ELSE pending[a]]
  /\ sinceStep' = [a \in Agents |-> IF a \in Due THEN 0 ELSE sinceStep[a]]
  /\ UNCHANGED <<outcome, untilDue, untilAwake, heard, lost, got, sinceMove>>

(* CycleResult, or an exception that gather returns in its place. *)
EndStep(a) ==
  /\ a \in stepping /\ outcome[a] = "none"
  /\ \E how \in {"ok", "raised"} : outcome' = [outcome EXCEPT ![a] = how]
  /\ UNCHANGED <<stepping, ran, untilDue, untilAwake, observations, spacing>>

-----------------------------------------------------------------------------
(* Once the gather returned, each result is consumed and its agent gets its  *)
(* next deadline, in registration order.  A trace sink that raises for one  *)
(* agent leaves the loop: the agent's state is written back but nothing     *)
(* after the traces happens to it, and nothing at all to those behind it;   *)
(* run() logs the exception and goes on.                                   *)

Behind(a, failed) == failed # {} /\ \A f \in failed : f < a
Traced(failed) == {a \in stepping : outcome[a] = "ok" /\ ~Behind(a, failed)}
Consumed(failed) == {a \in stepping : a \notin failed /\ ~Behind(a, failed)}

RearmedIfOk(failed) == {a \in Consumed(failed) : outcome[a] = "ok"}
RearmedAll(failed) == Agents

Rearmed(failed) == Consumed(failed)

AwakeSinceTick(a) == Left(Dwell[a], ran)

(* dwell_until is armed when the result is consumed, not when the tick began *)
AwakeAfterMove(a) == Dwell[a]

PendingReplaced(a, new) == IF new = <<>> THEN pending[a] ELSE new

(* follow_up_observations join what arrived during the step. *)
PendingAfter(a, new) == pending[a] \o new

FinishTick(moved, followed, failed) ==
  LET kept == Traced(failed) \ failed
      new(a) == IF a \in followed THEN <<got[a] + 1>> ELSE <<>>
  IN /\ stepping # {} /\ \A a \in stepping : outcome[a] # "none"
     /\ failed = {} \/ Tracing
     /\ failed \subseteq Traced({})
     /\ moved \subseteq kept /\ followed \subseteq kept
     /\ \A a \in followed : got[a] < MaxObs
     /\ stepping' = {} /\ ran' = 0
     /\ outcome' = [a \in Agents |-> "none"]
     /\ untilDue' = [a \in Agents |-> IF a \in Rearmed(failed)
                                      THEN Left(Period[a], ran) ELSE untilDue[a]]
     /\ untilAwake' = [a \in Agents |-> IF a \in moved THEN AwakeAfterMove(a)
                                        ELSE untilAwake[a]]
     /\ sinceMove' = [a \in Agents |-> IF a \in moved THEN 0 ELSE sinceMove[a]]
     /\ heard' = [a \in Agents |-> IF a \in Traced(failed) THEN heard[a] \o inHand[a]
                                   ELSE heard[a]]
     /\ lost' = [a \in Agents |-> IF a \in stepping \ Traced(failed)
                                  THEN lost[a] \cup ToSet(inHand[a]) ELSE lost[a]]
     /\ inHand' = [a \in Agents |-> <<>>]
     /\ pending' = [a \in Agents |-> PendingAfter(a, new(a))]
     /\ got' = [a \in Agents |-> got[a] + Len(new(a))]
     /\ UNCHANGED sinceStep

Finish ==
  \E moved, followed \in SUBSET stepping :
    \E failed \in {{}} \cup {{a} : a \in stepping} : FinishTick(moved, followed, failed)

Next ==
  \/ Elapse
  \/ \E a \in Agents : Observe(a) \/ EndStep(a)
  \/ BeginTick
  \/ Finish

(* Time passes, the handler is called again and again, every step ends.     *)
Fairness == /\ WF_vars(Elapse) /\ WF_vars(BeginTick) /\ WF_vars(Finish)
            /\ \A a \in Agents : WF_vars(EndStep(a))

Spec == Init /\ [][Next]_vars /\ Fairness

-----------------------------------------------------------------------------
Begins(a) == stepping = {} /\ a \in stepping'

(* An observation, whenever it arrives, is in the buffer, in the hands of    *)
(* the step in flight, or reached the agent, once and in order; it is lost   *)
(* only with the whole result of a step.                                   *)
ObservationsAccounted ==
  \A a \in Agents :
    LET all == heard[a] \o inHand[a] \o pending[a]
    IN /\ \A i, j \in 1..Len(all) : i < j => all[i] < all[j]
       /\ ToSet(all) = 1..got[a] \ lost[a]

(* "cognition_period_s is the minimum gap between this agent's cognition     *)
(* steps", however its steps end.                                          *)
MinimumGap == [][\A a \in Agents : Begins(a) => sinceStep[a] >= Period[a]]_vars

(* An agent sent walking is left alone for its whole dwell, however long the *)
(* gather took.                                                            *)
DwellHonoured == [][\A a \in Agents : Begins(a) => sinceMove[a] >= Dwell[a]]_vars

(* No cadence starves an agent: each is stepped again and again. *)
EveryAgentSteps == \A a \in Agents : []<>(a \in stepping)
=============================================================================

--------------------------- MODULE PeriodicTimers ---------------------------
(***************************************************************************)
(* What the world loop promises its periodic handlers: absolute timers on  *)
(* one clock.  A run moves the timer's deadline by exactly one period and  *)
(* never by the time the run took, so no delay accumulates ("anti-drift:   *)
(* absolute time, not cumulative deltas"), and no timer runs early.        *)
(***************************************************************************)
EXTENDS Integers

CONSTANTS Timers, Every      \* Every[t]: the period of timer t
VARIABLE lead                \* lead[t]: time left to t's deadline, < 0 when late

Init == lead = Every

Elapse == lead' = [t \in Timers |-> lead[t] - 1]

Run(t) == /\ lead[t] =< 0
          /\ lead' = [lead EXCEPT ![t] = @ + Every[t]]

Next == Elapse \/ \E t \in Timers : Run(t)

Spec == Init /\ [][Next]_lead
=============================================================================

--------------------------- MODULE WorldScheduler ---------------------------
(***************************************************************************)
(* WorldRuntime.run: one asyncio task drives the physics, cognition and    *)
(* heartbeat handlers from a min-heap of absolute deadlines.  Ties are     *)
(* broken by the sequence number an event got when it was pushed.          *)
(*                                                                         *)
(* Time is relative: lead[h] is due_at - now of handler h's event, so time *)
(* passing lowers every lead at once and the state space stays finite.     *)
(* older holds the pairs <<g, h>> with g's sequence number below h's: only *)
(* the order of the numbers is ever read.                                  *)
(***************************************************************************)
EXTENDS Integers

CONSTANTS Handlers,      \* the periodic handlers run() schedules
          Period,        \* Period[h]: the period of h
          Rank,          \* Rank[h]: position of h among run()'s _schedule calls
          MaxLag,        \* bound: how late the latest event may become
          None           \* no event popped

ASSUME SchedulerAssumption ==
  /\ Period \in [Handlers -> Nat \ {0}]
  /\ Rank \in [Handlers -> Nat]
  /\ \A g, h \in Handlers : g # h => Rank[g] # Rank[h]
  /\ MaxLag \in Nat
  /\ None \notin Handlers

VARIABLES lead,          \* ScheduledEvent.due_at, relative to now
          older,         \* order of ScheduledEvent.seq
          current,       \* the event popped from the heap
          phase,         \* where run() stands
          running        \* self._running

vars == <<lead, older, current, phase, running>>

Phases == {"idle", "sleeping", "handling", "returned"}

TypeOK ==
  /\ lead \in [Handlers -> Int]
  /\ \A h \in Handlers : -MaxLag =< lead[h] /\ lead[h] =< Period[h]
  /\ older \subseteq Handlers \X Handlers
  /\ current \in Handlers \cup {None}
  /\ phase \in Phases
  /\ phase \in {"sleeping", "handling"} => current \in Handlers
  /\ running \in BOOLEAN

-----------------------------------------------------------------------------
(* The event heapq.heappop returns: least due_at, then least seq. *)

EarliestBySeq(h, due, seq) == \A g \in Handlers \ {h} : <<h, g>> \in seq

EarliestByPeriod(h, due, seq) ==
  \A g \in Handlers \ {h} : Period[h] < Period[g]

Earliest(h, due, seq) ==
  \A g \in Handlers :
    \/ g = h
    \/ due[h] < due[g]
    \/ due[h] = due[g] /\ <<h, g>> \in seq

(* heappush(replace(ev, due_at=..., seq=...)): the popped event becomes the  *)
(* youngest.                                                               *)
RequeuedKeepingSeq(h) == older

Requeued(h) ==
  {p \in older : p[1] # h} \cup {<<g, h>> : g \in Handlers \ {h}}

NextLeadFromNow(h) == [lead EXCEPT ![h] = Period[h]]

NextLead(h) == [lead EXCEPT ![h] = @ + Period[h]]

-----------------------------------------------------------------------------

Init ==
  /\ lead = Period
  /\ older = {p \in Handlers \X Handlers : Rank[p[1]] < Rank[p[2]]}
  /\ current = None
  /\ phase = "idle"
  /\ running = FALSE

(* run(): schedule the three events, set _running, pop the first.  A stop  *)
(* that came before run() is forgotten here.                               *)
Start ==
  /\ phase = "idle"
  /\ running' = TRUE
  /\ phase' = "sleeping"
  /\ \E h \in Handlers : Earliest(h, lead, older) /\ current' = h
  /\ UNCHANGED <<lead, older>>

(* Time passes while run() sleeps or a handler is at work. *)
Elapse ==
  /\ phase \in {"sleeping", "handling"}
  /\ \A h \in Handlers : lead[h] > -MaxLag
  /\ lead' = [h \in Handlers |-> lead[h] - 1]
  /\ UNCHANGED <<older, current, phase, running>>

(* sleep_until(ev.due_at) returns; run() looks at _running again.  On a    *)
(* stop it breaks, and the popped event is gone with the loop.             *)
Wake ==
  /\ phase = "sleeping"
  /\ lead[current] =< 0
  /\ phase' = IF running THEN "handling" ELSE "returned"
  /\ UNCHANGED <<lead, older, current, running>>

(* The handler returned or its Exception was logged: requeue the event,    *)
(* test _running and pop again, with no await in between.                  *)
FinishRearming ==
  /\ phase = "handling"
  /\ lead' = NextLead(current)
  /\ older' = Requeued(current)
  /\ running' = TRUE
  /\ phase' = "sleeping"
  /\ \E h \in Handlers : Earliest(h, lead', older') /\ current' = h

Finish ==
  /\ phase = "handling"
  /\ lead' = NextLead(current)
  /\ older' = Requeued(current)
  /\ \/ /\ running
        /\ phase' = "sleeping"
        /\ \E h \in Handlers : Earliest(h, lead', older') /\ current' = h
     \/ /\ ~running
        /\ phase' = "returned"
        /\ current' = None
  /\ UNCHANGED running

(* stop(), from any task: run() sees it at its next test of _running. *)
Stop ==
  /\ running
  /\ running' = FALSE
  /\ UNCHANGED <<lead, older, current, phase>>

(* The task is cancelled at an await (the drain timeout of capture_natural  *)
(* does that): CancelledError is no Exception, the finally clause runs.    *)
Cancel ==
  /\ phase \in {"sleeping", "handling"}
  /\ phase' = "returned"
  /\ running' = FALSE
  /\ UNCHANGED <<lead, older, current>>

Next == Start \/ Elapse \/ Wake \/ Finish \/ Stop \/ Cancel

(* The clock advances, the event loop wakes a sleeper whose time has come, *)
(* and every handler ends: physics and heartbeat never await, and the LLM  *)
(* calls cognition awaits carry their own timeouts.                        *)
Fairness == WF_vars(Elapse) /\ WF_vars(Wake) /\ WF_vars(Finish)

Spec == Init /\ [][Next]_vars /\ Fairness

-----------------------------------------------------------------------------
(* Lockstep: however slow a handler was, no handler's finished periods run *)
(* ahead of another's pending deadline.  When cognition blocks the loop on *)
(* the LLM, the overdue physics and heartbeat runs are caught up in step   *)
(* with each other; none of them runs twice while another still waits for  *)
(* an earlier deadline.                                                    *)
Lockstep == \A g, h \in Handlers : lead[h] - Period[h] =< lead[g]

(* Of two events the one queued at an earlier deadline has the smaller     *)
(* sequence number.  So when deadlines coincide (every 10 s all three do)  *)
(* the handler with the longer period runs first: cognition, then          *)
(* heartbeat, then physics, except in the very first round.                *)
OldestFirst ==
  \A g, h \in Handlers :
    lead[g] - Period[g] < lead[h] - Period[h] => <<g, h>> \in older

(* The loop implements absolute periodic timers: a slow handler delays a    *)
(* run but never shifts the deadlines after it, and nothing runs early.    *)
Timer == INSTANCE PeriodicTimers WITH Timers <- Handlers, Every <- Period
NoDrift == Timer!Spec

(* No handler starves: while run() has not returned each one is run again, *)
(* even if all of them always take longer than their periods.              *)
EveryHandlerRuns ==
  \A h \in Handlers :
    (phase = "sleeping" /\ current # h)
      ~> ((phase = "handling" /\ current = h) \/ phase = "returned")

(* stop() is honoured: run() returns whatever it was doing, and a handler  *)
(* that was running when stop() came is the last one.                      *)
StopReturns == (phase \in {"sleeping", "handling"} /\ ~running) ~> phase = "returned"
=============================================================================

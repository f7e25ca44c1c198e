--------------------------- MODULE EnvelopeQueues ---------------------------
(***************************************************************************)
(* The two outbound queues of WorldRuntime and the broadcaster that drains  *)
(* them: a bounded main queue that drops its oldest entries behind a        *)
(* warning, a one-slot heartbeat queue where the latest beat wins, and      *)
(* recv_envelope racing a getter task on each.                             *)
(*                                                                         *)
(* The producers, the two getter tasks and the broadcaster are tasks of one *)
(* event loop: an action here is what runs between two awaits.  Envelopes   *)
(* are numbered in the order they are produced.                            *)
(***************************************************************************)
EXTENDS Integers, Sequences, SequencesExt, FrameSequences

CONSTANTS Capacity,          \* maxsize of _envelopes
          MaxPut,            \* bound: envelopes put on the main queue
          MaxBeats           \* bound: heartbeats

(* With room for fewer than two entries the warning would not fit; the      *)
(* runtime always builds the queue with maxsize=1024.                      *)
ASSUME QueueAssumption ==
  /\ Capacity \in Nat /\ Capacity >= 2
  /\ MaxPut \in Nat /\ MaxBeats \in Nat

Data(n) == [kind |-> "data", n |-> n]
OverflowWarning(n) == [kind |-> "runtime_backlog_overflow", n |-> n]
Beat(n) == [kind |-> "world_tick", n |-> n]

VARIABLES main,              \* _envelopes
          slot,              \* _heartbeat_envelopes, at most one entry
          drops,             \* _envelope_overflow_count
          mainTask,          \* the getter task on _envelopes
          hbTask,            \* the getter task on _heartbeat_envelopes
          result,            \* what each getter popped, at most one entry
          receiver,          \* the broadcaster, in recv_envelope or between two
          forwarded,         \* history: what fan_out got of the main queue
          shown,             \* history: the beats it got
          put, warned, beats  \* history: how many were produced

queues == <<main, slot, drops>>
tasks == <<mainTask, hbTask, result, receiver>>
handed == <<forwarded, shown>>
queueVars == <<queues, tasks, handed, put, warned, beats>>

MainEntries == [kind : {"data", "runtime_backlog_overflow"}, n : Nat]
BeatEntries == [kind : {"world_tick"}, n : Nat]

QueueTypeOK ==
  /\ main \in Seq(MainEntries) /\ Len(main) =< Capacity
  /\ slot \in Seq(BeatEntries) /\ Len(slot) =< 1
  /\ mainTask \in {"none", "waiting", "done"} /\ hbTask \in {"none", "waiting", "done"}
  /\ result \in [{"main", "hb"} -> Seq(MainEntries) \cup Seq(BeatEntries)]
  /\ result["main"] \in Seq(MainEntries) /\ Len(result["main"]) =< 1
  /\ result["hb"] \in Seq(BeatEntries) /\ Len(result["hb"]) =< 1
  /\ receiver \in {"idle", "racing", "down"}
  /\ forwarded \in Seq(MainEntries) /\ shown \in Seq(BeatEntries)
  /\ drops \in Nat /\ put \in 0..MaxPut /\ warned \in Nat /\ beats \in 0..MaxBeats

QueueInit ==
  /\ main = <<>> /\ slot = <<>> /\ drops = 0
  /\ mainTask = "none" /\ hbTask = "none"
  /\ result = [t \in {"main", "hb"} |-> <<>>]
  /\ receiver = "idle"
  /\ forwarded = <<>> /\ shown = <<>> /\ put = 0 /\ warned = 0 /\ beats = 0

-----------------------------------------------------------------------------
(* Producers. *)

(* Entries dropped to make room for a warning and the new envelope. *)
Overflow == Len(main) - (Capacity - 2)

EnqueuedWithStaleCount(env) ==
  IF Len(main) < Capacity
  THEN main' = Append(main, env) /\ UNCHANGED <<drops, warned>>
  ELSE /\ drops' = drops + Overflow
       /\ warned' = warned + 1
       /\ main' = SubSeq(main, Overflow + 1, Len(main)) \o <<OverflowWarning(drops), env>>

EnqueuedBeforeWarning(env) ==
  IF Len(main) < Capacity
  THEN main' = Append(main, env) /\ UNCHANGED <<drops, warned>>
  ELSE /\ drops' = drops + Overflow
       /\ warned' = warned + 1
       /\ main' = SubSeq(main, Overflow + 1, Len(main)) \o <<env, OverflowWarning(drops')>>

(* _enqueue_with_drop_oldest *)
Enqueued(env) ==
  IF Len(main) < Capacity
  THEN main' = Append(main, env) /\ UNCHANGED <<drops, warned>>
  ELSE /\ drops' = drops + Overflow
       /\ warned' = warned + 1
       /\ main' = SubSeq(main, Overflow + 1, Len(main)) \o <<OverflowWarning(drops'), env>>

(* inject_envelope, and the envelopes of _consume_result *)
InjectEnvelope ==
  /\ put < MaxPut
  /\ put' = put + 1
  /\ Enqueued(Data(put'))
  /\ UNCHANGED <<slot, tasks, handed, beats>>

(* _on_heartbeat_tick: put_nowait, or replace the stale beat. *)
OnHeartbeatTick ==
  /\ beats < MaxBeats
  /\ beats' = beats + 1
  /\ slot' = <<Beat(beats')>>
  /\ UNCHANGED <<main, drops, tasks, handed, put, warned>>

-----------------------------------------------------------------------------
(* recv_envelope. *)

CallRecv ==
  /\ receiver = "idle"
  /\ receiver' = "racing"
  /\ mainTask' = "waiting" /\ hbTask' = "waiting"
  /\ result' = [t \in {"main", "hb"} |-> <<>>]
  /\ UNCHANGED <<queues, handed, put, warned, beats>>

(* A getter task pops as soon as it runs and finds an entry. *)
GetMain ==
  /\ mainTask = "waiting" /\ main # <<>>
  /\ mainTask' = "done"
  /\ result' = [result EXCEPT !["main"] = <<Head(main)>>]
  /\ main' = Tail(main)
  /\ UNCHANGED <<slot, drops, hbTask, receiver, handed, put, warned, beats>>

GetHeartbeat ==
  /\ hbTask = "waiting" /\ slot # <<>>
  /\ hbTask' = "done"
  /\ result' = [result EXCEPT !["hb"] = slot]
  /\ slot' = <<>>
  /\ UNCHANGED <<main, drops, mainTask, receiver, handed, put, warned, beats>>

(* A cancelled getter pops nothing, even if an entry was put and its wakeup *)
(* is already scheduled.                                                    *)
LeftWaiting(task) == task
Cancelled(task) == "none"

(* _reinject_heartbeat: the recovered beat loses to a newer one. *)
ReinjectedOverNewer(beat) == IF beat = <<>> THEN slot ELSE beat
NotReinjected(beat) == slot
Reinjected(beat) == IF slot = <<>> THEN beat ELSE slot

(* asyncio.wait returned: main wins, a beat that also arrived goes back.    *)
(* The losing getter is cancelled and awaited before the result is used.   *)
RecvMain ==
  /\ receiver = "racing" /\ mainTask = "done"
  /\ forwarded' = forwarded \o result["main"]
  /\ slot' = Reinjected(result["hb"])
  /\ mainTask' = "none"
  /\ hbTask' = IF hbTask = "done" THEN "none" ELSE Cancelled(hbTask)
  /\ result' = [t \in {"main", "hb"} |-> <<>>]
  /\ receiver' = "idle"
  /\ UNCHANGED <<main, drops, shown, put, warned, beats>>

RecvHeartbeat ==
  /\ receiver = "racing" /\ hbTask = "done" /\ mainTask # "done"
  /\ shown' = shown \o result["hb"]
  /\ mainTask' = Cancelled(mainTask) /\ hbTask' = "none"
  /\ result' = [t \in {"main", "hb"} |-> <<>>]
  /\ receiver' = "idle"
  /\ UNCHANGED <<queues, forwarded, put, warned, beats>>

(* The broadcaster is cancelled when the application shuts down; what its   *)
(* getters had already popped goes with it.                                *)
CancelRecv ==
  /\ receiver = "racing"
  /\ receiver' = "down"
  /\ mainTask' = "none" /\ hbTask' = "none"
  /\ result' = [t \in {"main", "hb"} |-> <<>>]
  /\ UNCHANGED <<queues, handed, put, warned, beats>>

Receive == CallRecv \/ GetMain \/ GetHeartbeat \/ RecvMain \/ RecvHeartbeat

QueueNext == InjectEnvelope \/ OnHeartbeatTick \/ Receive \/ CancelRecv

(* The event loop resumes every task that can run.  Nobody has to produce.  *)
QueueFairness ==
  /\ WF_queueVars(CallRecv) /\ WF_queueVars(GetMain) /\ WF_queueVars(GetHeartbeat)
  /\ WF_queueVars(RecvMain) /\ WF_queueVars(RecvHeartbeat)

QueueSpec == QueueInit /\ [][QueueNext]_queueVars /\ QueueFairness

-----------------------------------------------------------------------------
(* The main stream, oldest first: what was forwarded, what the getter holds, *)
(* what is queued.                                                         *)
Stream == forwarded \o result["main"] \o main

(* Envelopes of one kind stand in the order they were produced, each once. *)
InOrder(s) ==
  \A i, j \in 1..Len(s) : i < j /\ s[i].kind = s[j].kind => s[i].n < s[j].n

(* Every envelope and warning put on the main queue is forwarded, held by   *)
(* the getter, queued, or counted as dropped, once and in order: no         *)
(* interleaving of producers, getters and cancellations loses or repeats   *)
(* one unnoticed, and none makes the queue outgrow its capacity.            *)
NoneLostSilently ==
  receiver # "down" =>
    /\ Len(main) =< Capacity
    /\ put + warned = Len(Stream) + drops
    /\ InOrder(Stream)

(* Whatever was dropped, warnings included, a consumer that reads on learns *)
(* the exact total: the newest warning of the stream states it.            *)
NewestWarningIsExact ==
  receiver # "down" =>
    IF drops = 0 THEN \A i \in 1..Len(Stream) : Stream[i].kind = "data"
    ELSE \E i \in 1..Len(Stream) :
           /\ Stream[i] = OverflowWarning(drops)
           /\ \A j \in (i + 1)..Len(Stream) : Stream[j].kind = "data"

(* Whatever the race of the two getters and the producers, the broadcaster   *)
(* is handed the envelopes in order and each once, and one that pushed      *)
(* others out comes behind a warning.                                      *)
Reading == receiver # "down"
Unread == result["main"] \o main
Broadcast == INSTANCE AnnouncedStream
  WITH Numbers <- 1..MaxPut, Prologue <- <<>>,
       EnvelopeKind <- "data", WarningKind <- "runtime_backlog_overflow",
       open <- Reading,
       seen <- IF Reading THEN forwarded ELSE <<>>,
       due <- IF Reading THEN 1..put ELSE {},
       waiting <- IF Reading THEN NumbersOf(Unread, "data") ELSE {},
       sealed <- IF Reading THEN Behind(Unread, "data", "runtime_backlog_overflow") ELSE {}
BroadcastStream == Broadcast!Spec

(* Latest wins: the beats forwarded never go back in time, and the newest   *)
(* beat produced is in the slot, in the getter's hands, or was forwarded.   *)
LatestBeatKept ==
  /\ InOrder(shown \o result["hb"] \o slot)
  /\ beats # 0 /\ receiver # "down" =>
       Beat(beats) \in ToSet(slot) \cup ToSet(result["hb"]) \cup ToSet(shown)

(* The main queue has priority over the beats but does not bury them: when  *)
(* the producers pause, the queue empties and the newest beat is forwarded. *)
BroadcastCatchesUp ==
  <>[](\/ receiver = "down"
       \/ main = <<>> /\ (beats = 0 \/ Beat(beats) \in ToSet(shown)))

=============================================================================

------------------------------- MODULE Gateway -------------------------------
(***************************************************************************)
(* The WebSocket gateway: the session each ws_observe handler runs, the      *)
(* registry of outbound queues, and Registry.fan_out pushing what the       *)
(* broadcaster received.                                                   *)
(*                                                                         *)
(* Every handler, its two loops and the broadcaster are tasks of one event  *)
(* loop: an action is what runs between two awaits.  A session id is used   *)
(* once, as a reconnecting client gets a fresh one.  Left out: the frames a  *)
(* client sends after its handshake, which change no state (production has  *)
(* no inbound sink), and the error a handler writes before it closes.       *)
(***************************************************************************)
EXTENDS Integers, Sequences, FiniteSets, SequencesExt, FrameSequences

CONSTANTS Sessions, Agents,
          MaxSessions,       \* MAX_ACTIVE_SESSIONS
          Backlog,           \* MAX_ENVELOPE_BACKLOG
          MaxSent,           \* bound: envelopes fanned out
          All                \* no filter, or a global envelope

ASSUME GatewayAssumption ==
  /\ MaxSessions \in Nat \ {0}
  /\ Backlog \in Nat /\ Backlog >= 2
  /\ MaxSent \in Nat

VARIABLES phase,             \* where the handler of a session is
          registry,          \* sessions with a slot
          subscription,      \* subscribed_agents
          queue,             \* outbound queue
          held,              \* what _send_loop dequeued and is writing
          wire,              \* what was written to the socket
          gone,              \* the peer went silent without closing
          sent,              \* history: envelopes fanned out so far
          due                \* history: those a registered session should see

connection == <<phase, registry, subscription, gone>>
stream == <<queue, held>>
history == <<sent, due>>
vars == <<connection, stream, wire, history>>

Phases == {"connecting", "handshaking", "snapshotting", "joining",
           "active", "expiring", "stopping", "closed"}
InTaskGroup == {"active", "expiring", "stopping"}

Filters == {All} \cup ((SUBSET Agents) \ {{}})

Layout == [kind |-> "world_layout", n |-> 0]
Warning == [kind |-> "backlog_overflow", n |-> 0]
Envelope(n) == [kind |-> "envelope", n |-> n]
Frames == [kind : {"world_layout", "backlog_overflow", "envelope"}, n : 0..MaxSent]

TypeOK ==
  /\ phase \in [Sessions -> Phases]
  /\ registry \subseteq Sessions
  /\ subscription \in [Sessions -> Filters]
  /\ queue \in [Sessions -> Seq(Frames)] /\ \A s \in Sessions : Len(queue[s]) =< Backlog
  /\ held \in [Sessions -> Seq(Frames)] /\ \A s \in Sessions : Len(held[s]) =< 1
  /\ wire \in [Sessions -> Seq(Frames)]
  /\ gone \in [Sessions -> BOOLEAN]
  /\ sent \in 0..MaxSent
  /\ due \in [Sessions -> SUBSET (1..MaxSent)]

Init ==
  /\ phase = [s \in Sessions |-> "connecting"]
  /\ registry = {}
  /\ subscription = [s \in Sessions |-> All]
  /\ queue = [s \in Sessions |-> <<>>]
  /\ held = [s \in Sessions |-> <<>>]
  /\ wire = [s \in Sessions |-> <<>>]
  /\ gone = [s \in Sessions |-> FALSE]
  /\ sent = 0
  /\ due = [s \in Sessions |-> {}]

Goes(s, from, to) == phase[s] = from /\ phase' = [phase EXCEPT ![s] = to]

(* The handler returns: its queue is dropped, the histories forget it. *)
Returns(s, from) ==
  /\ Goes(s, from, "closed")
  /\ subscription' = [subscription EXCEPT ![s] = All]
  /\ queue' = [queue EXCEPT ![s] = <<>>]
  /\ held' = [held EXCEPT ![s] = <<>>]
  /\ wire' = [wire EXCEPT ![s] = <<>>]
  /\ gone' = [gone EXCEPT ![s] = FALSE]
  /\ due' = [due EXCEPT ![s] = {}]
  /\ UNCHANGED sent

-----------------------------------------------------------------------------
(* ws_observe before the session joins the registry. *)

Full == Cardinality(registry) >= MaxSessions

(* Origin, token, session cap or subscribe parameter. *)
Refuse(s) == Returns(s, "connecting") /\ UNCHANGED registry

Accept(s, filter) ==
  /\ ~Full
  /\ Goes(s, "connecting", "handshaking")
  /\ subscription' = [subscription EXCEPT ![s] = filter]
  /\ UNCHANGED <<registry, gone, stream, wire, history>>

(* The first client frame is a handshake with our schema version, or not. *)
ReceiveHandshake(s) ==
  /\ ~gone[s]
  /\ Goes(s, "handshaking", "snapshotting")
  /\ UNCHANGED <<registry, subscription, gone, stream, wire, history>>

RefuseHandshake(s) == ~gone[s] /\ Returns(s, "handshaking") /\ UNCHANGED registry

HandshakeTimeoutIfPresent(s) ==
  ~gone[s] /\ Returns(s, "handshaking") /\ UNCHANGED registry

HandshakeTimeout(s) == Returns(s, "handshaking") /\ UNCHANGED registry

(* The snapshot, or the empty layout if it takes too long. *)
SendLayout(s) ==
  /\ Goes(s, "snapshotting", "joining")
  /\ wire' = [wire EXCEPT ![s] = Append(@, Layout)]
  /\ UNCHANGED <<registry, subscription, gone, stream, history>>

ReserveUnchecked(s) ==
  /\ Goes(s, "joining", "active")
  /\ registry' = registry \cup {s}
  /\ UNCHANGED <<subscription, gone, stream, wire, history>>

ReserveBeforeLayout(s) ==
  /\ ~Full
  /\ Goes(s, "snapshotting", "active")
  /\ registry' = registry \cup {s}
  /\ UNCHANGED <<subscription, gone, stream, wire, history>>

(* reserve_slot, with no await between its check and its insertion. *)
Reserve(s) ==
  /\ ~Full
  /\ Goes(s, "joining", "active")
  /\ registry' = registry \cup {s}
  /\ UNCHANGED <<subscription, gone, stream, wire, history>>

ReserveRaced(s) == Full /\ Returns(s, "joining") /\ UNCHANGED registry

-----------------------------------------------------------------------------
(* The TaskGroup of _recv_loop and _send_loop. *)

Dequeue(s) ==
  /\ phase[s] \in {"active", "expiring"}
  /\ held[s] = <<>> /\ queue[s] # <<>>
  /\ held' = [held EXCEPT ![s] = <<Head(queue[s])>>]
  /\ queue' = [queue EXCEPT ![s] = Tail(@)]
  /\ UNCHANGED <<connection, wire, history>>

Write(s) ==
  /\ phase[s] \in {"active", "expiring"}
  /\ held[s] # <<>>
  /\ wire' = [wire EXCEPT ![s] = @ \o held[s]]
  /\ held' = [held EXCEPT ![s] = <<>>]
  /\ UNCHANGED <<connection, queue, history>>

(* No client frame for IDLE_DISCONNECT_S: _recv_loop writes an error, during *)
(* which _send_loop goes on, and then leaves the group, which cancels       *)
(* _send_loop.                                                             *)
IdleTimeout(s) ==
  /\ Goes(s, "active", "expiring")
  /\ UNCHANGED <<registry, subscription, gone, stream, wire, history>>

Expire(s) ==
  /\ Goes(s, "expiring", "stopping")
  /\ UNCHANGED <<registry, subscription, gone, stream, wire, history>>

(* The peer closed, a write failed, or the application shuts down. *)
Disconnect(s) ==
  \/ /\ \E p \in {"handshaking", "snapshotting", "joining"} : Returns(s, p)
     /\ UNCHANGED registry
  \/ /\ \E p \in {"active", "expiring"} : Goes(s, p, "stopping")
     /\ UNCHANGED <<registry, subscription, gone, stream, wire, history>>

(* Both loops have ended: release_slot, ws.close. *)
Release(s) == Returns(s, "stopping") /\ registry' = registry \ {s}

(* The peer's host vanishes: no frame, no close. *)
GoSilent(s) ==
  /\ phase[s] \notin {"connecting", "closed"}
  /\ ~gone[s]
  /\ gone' = [gone EXCEPT ![s] = TRUE]
  /\ UNCHANGED <<phase, registry, subscription, stream, wire, history>>

-----------------------------------------------------------------------------
(* Registry.fan_out *)

Wanted(s, to) ==
  subscription[s] = All \/ to = All \/ subscription[s] \cap to # {}

PushedWarningOnce(q, env) ==
  IF Len(q) < Backlog THEN Append(q, env)
  ELSE SubSeq(q, Len(q) - (Backlog - 2) + 1, Len(q))
       \o (IF Warning \in ToSet(q) THEN <<env>>
           ELSE <<Warning, env>>)

(* A full queue keeps its Backlog - 2 newest entries, and gets a warning.   *)
Pushed(q, env) ==
  IF Len(q) < Backlog THEN Append(q, env)
  ELSE SubSeq(q, Len(q) - (Backlog - 2) + 1, Len(q))
       \o <<Warning, env>>

(* The agents a filter or the targets of an envelope stand for; All also     *)
(* stands for what is about no agent.                                      *)
Covered(f) == IF f = All THEN Agents \cup {All} ELSE f

FanOut(to) ==
  /\ sent < MaxSent
  /\ sent' = sent + 1
  /\ queue' = [s \in Sessions |-> IF s \in registry /\ Wanted(s, to)
                                  THEN Pushed(queue[s], Envelope(sent'))
                                  ELSE queue[s]]
  /\ due' = [s \in Sessions |->
               IF s \in registry /\ Covered(subscription[s]) \cap Covered(to) # {}
               THEN due[s] \cup {sent'} ELSE due[s]]
  /\ UNCHANGED <<connection, held, wire>>

-----------------------------------------------------------------------------
Session(s) ==
  \/ Refuse(s) \/ \E f \in Filters : Accept(s, f)
  \/ ReceiveHandshake(s) \/ RefuseHandshake(s) \/ HandshakeTimeout(s)
  \/ SendLayout(s) \/ Reserve(s) \/ ReserveRaced(s)
  \/ Dequeue(s) \/ Write(s) \/ IdleTimeout(s) \/ Expire(s)
  \/ Disconnect(s) \/ Release(s) \/ GoSilent(s)

Next == (\E s \in Sessions : Session(s)) \/ (\E to \in Filters : FanOut(to))

(* Timers fire, the loops run, and a write to the socket ends, well or not   *)
(* (the transport pings its peer and drops a connection that is dead).      *)
(* The idle timer is only sure to fire for a peer that stays silent.        *)
Fairness ==
  \A s \in Sessions :
    /\ WF_vars(HandshakeTimeout(s))
    /\ WF_vars(SendLayout(s)) /\ WF_vars(Reserve(s)) /\ WF_vars(ReserveRaced(s))
    /\ WF_vars(Dequeue(s)) /\ WF_vars(Write(s))
    /\ WF_vars(gone[s] /\ IdleTimeout(s))
    /\ WF_vars(Expire(s)) /\ WF_vars(Release(s))

Spec == Init /\ [][Next]_vars /\ Fairness

-----------------------------------------------------------------------------
CapRespected == Cardinality(registry) =< MaxSessions
SlotPerSession == registry = {s \in Sessions : phase[s] \in InTaskGroup}

(* A slot is held exactly while the session's loops exist: whichever way a  *)
(* session ends, it leaves none behind and never runs without one.  And     *)
(* handshakes overlap, each past the check before accept: the cap holds    *)
(* all the same.                                                           *)
SlotsKept == CapRespected /\ SlotPerSession

Streamed(s) == wire[s] \o held[s] \o queue[s]
Shown(s) == {f.n : f \in {e \in ToSet(Streamed(s)) : e.kind = "envelope"}}

(* A client hydrates its zones before the first envelope paints over them:   *)
(* the layout goes out before anything the broadcaster forwards.           *)
LayoutBeforeStream ==
  \A s \in Sessions : \A k \in 1..Len(wire[s]) :
    wire[s][k].kind \in {"envelope", "backlog_overflow"} =>
      \E j \in 1..(k - 1) : wire[s][j].kind = "world_layout"

(* A client sees no envelope about agents it did not subscribe to.  One it   *)
(* should see is missing only if a warning follows that is no older than    *)
(* the loss, even when an overflow dropped the warning of the one before.  *)
GapsAnnounced ==
  \A s \in registry :
    /\ Shown(s) \subseteq due[s]
    /\ \A m \in due[s] \ Shown(s) :
         \E k \in 1..Len(Streamed(s)) :
           /\ Streamed(s)[k].kind = "backlog_overflow"
           /\ \A j \in (k + 1)..Len(Streamed(s)) :
                Streamed(s)[j].kind = "envelope" => Streamed(s)[j].n > m

(* Whatever handshakes, slow writes, subscriptions and overflows come        *)
(* together, each session keeps the promise of its queue: after the layout  *)
(* its client is shown what it subscribed to in order and each once, and    *)
(* an envelope that pushed others out comes behind a warning.              *)
Pending(s) == held[s] \o queue[s]
Client(s) == INSTANCE AnnouncedStream
  WITH Numbers <- 1..MaxSent, Prologue <- <<Layout>>,
       EnvelopeKind <- "envelope", WarningKind <- "backlog_overflow",
       open <- phase[s] \in {"joining"} \cup InTaskGroup,
       seen <- wire[s], due <- due[s],
       waiting <- NumbersOf(Pending(s), "envelope"),
       sealed <- Behind(Pending(s), "envelope", "backlog_overflow")
ClientStreams ==
  /\ \A s \in Sessions : Client(s)!Init
  /\ [][\A s \in Sessions : [Client(s)!Next]_(Client(s)!streamVars)]_vars

(* A peer that vanished at any point of the protocol, without a word, is     *)
(* disconnected and its slot is free again.                                *)
SilentPeersLeave == \A s \in Sessions : gone[s] ~> phase[s] = "closed"
=============================================================================

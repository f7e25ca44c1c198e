# Verification of ERRE-Sandbox

ERRE-Sandbox runs a handful of LLM-driven agents in a small world and streams
what they do to a Godot viewer. Its core is asynchronous: one task drives three
periodic handlers, one of which awaits language models for as long as they take;
two queues carry envelopes to a broadcaster, which fans them out to WebSocket
sessions that come, stall and vanish. What the agents say changes how they feel,
what they believe and what they are prompted with; captures of it are published for
evaluation. This directory holds TLA+ modules of these parts, the TLC runs that
check them and the proofs TLAPS checks.

Paths are relative to `src/`; `tick.py` is `src/erre_sandbox/world/tick.py`,
`dialog.py` and `gateway.py` are in `src/erre_sandbox/integration/`.

## 1. The system

| Part | State | Operations | Interacts with |
|---|---|---|---|
| World loop (`WorldRuntime.run`) | heap of `ScheduledEvent`, `_running`, clock | schedule, pop, sleep, call the handler, re-arm, stop, cancel | calls the three handlers one at a time |
| Physics handler | agents' kinematics, zones, time of day | move, separate, detect zone, proximity, affordance and time-of-day events | appends observations to agents |
| Cognition handler | per agent: `pending`, `next_cognition_due`, `dwell_until`, `state` | select due agents, gather their steps, consume results, run the dialogs | cognition cycle, dialog scheduler, envelope queue |
| Heartbeat handler | one-slot queue | replace the beat | envelope queues |
| Dialog scheduler | `_open`, `_pair_to_id`, `_last_close_tick`, two mode flags | initiate, record, close, tick | world loop, golden-baseline driver, turn sinks |
| Envelope queues | `_envelopes`, `_heartbeat_envelopes`, overflow count | enqueue with drop-oldest, race a getter on each, re-inject | producers: handlers and sinks; consumer: broadcaster |
| Gateway | registry of sessions, their queues and subscriptions | accept, handshake, layout, reserve, send, receive, expire, release, fan out | broadcaster, clients |
| Turn sinks, affinity, beliefs | bonds per agent, SQLite rows | insert, update both bonds, promote both beliefs | called by `record_turn`; bonds are read and written back by cognition steps |
| World model | per agent: floor, modulated values, carry clock | synthesise, reconcile, show, apply a hint | reads bonds and beliefs; part of a cognition step |
| Evaluation capture | DuckDB file, sidecar, watchdog flags | resolve, record, soft and fatal stop, drain, publish, audit | drives the world loop and the golden baseline |
| Memory store | one SQLite connection, a lock | run a body in a thread, connect, close | cognition steps, turn sinks, supervisor |
| Supervisor | three tasks and a signal | race, stop, await, close, re-raise | runtime, server, memory store |
| Cognition cycle, ERRE modes | LLM plans, mode | one step of one agent | called by the cognition handler |

Everything except SQLite work handed to threads runs on one event loop: code is
atomic between two awaits, and that is the grain of the actions here. Threads
(`MemoryStore`) are interleaved statement by statement where they share a variable,
and files (`EvalCapture`) between any two operations that a crash could separate.

What is hard in it:

- **Scheduling.** A cognition handler may take longer than every period. Deadlines
  must neither drift nor starve one another, and a stop must be seen wherever it
  arrives.
- **State across awaits.** Observations arrive during a step; a turn's speaker and
  index are fixed before its generation is awaited, and its dialog may be closed
  by the time it is recorded; a tick's reading of the clock is stale afterwards.
- **Clocks that do not agree.** The world tick is the maximum of the agents' own
  ticks and moves only if a foremost agent's step succeeded, while dialogs are
  ticked on every round.
- **Loss.** Both the runtime's queue and each session's queue drop entries behind a
  warning that a later overflow may drop as well; a getter is cancelled while it
  may already hold an envelope.
- **Failure.** Steps, turns and sinks raise; clients vanish at any point; a capture
  dies between two renames, or hangs; a thread outlives the task that awaited it.
- **Two owners of one state.** A cognition step reads an agent's whole state, awaits,
  and writes it back, over what physics and the turn sinks do to the same state.
- **Carried values.** The world model carries an offset from one floor to the next.

`PROJECT.json` lists every component, modelled or not, and every hazard at its
line with the properties that would catch it.

## 2. The modules

| Module | Models | Built on |
|---|---|---|
| `PeriodicTimers` | abstract: absolute timers that never drift | |
| `WorldScheduler` | `WorldRuntime.run`, `stop`, cancellation | refines `PeriodicTimers` |
| `DialogScheduler` | `InMemoryDialogScheduler` under any calls | |
| `WorldDialog` | the dialog part of a cognition tick | composes `DialogScheduler` |
| `CognitionTick` | the phase wheel: due agents, gather, results | |
| `AnnouncedStream` | abstract: a stream with announced gaps | |
| `FrameSequences` | the numbers in a queue, and those behind its last warning | |
| `EnvelopeQueues` | the runtime's queues and `recv_envelope` | refines `AnnouncedStream` |
| `Gateway` | `ws_observe`, `Registry`, `fan_out` | each session refines `AnnouncedStream` |
| `Relations` | the turn sinks: rows, bonds, beliefs, against cognition steps | `Signed` |
| `WorldModel` | reconciliation and hints of one agent's world model | `Signed` |
| `Individual` | the individual layer: the world model over the relations | composes the two and implements each |
| `WorldPhysics` | the physics tick and the write-back of positions | |
| `EvalCapture` | attempts of `eval_run_golden`, their files and the audit | |
| `MemoryStore` | the SQLite connection, its lock and threads | |
| `Supervisor` | `bootstrap`'s life of the process | composes `MemoryStore` |
| `*_proofs` | theorems about the module of that name; `WorldDialog_proofs` also about `DialogScheduler`, `EnvelopePath_proofs` about `EnvelopeQueues` and `Gateway`, `Supervisor_proofs` also about `MemoryStore` | |
| `MC*` | small instances | |

How state and actions correspond to the code, definition by definition, is the
`map` of `PROJECT.json`. The choices worth knowing:

**WorldScheduler.** Time is relative: `lead[h]` is `due_at - now`, so elapsing time
lowers all leads and the state space is finite. `older` is the order of the
sequence numbers, the only thing about them the heap reads. `Wake` and `Finish`
are the two stretches of `run()` between awaits: after `sleep_until` returns, and
from the end of a handler through re-arming to the next pop. A handler that
raises is a handler that ends (`tick.py:1133`). `MaxLag` bounds how late the loop
may get.

**DialogScheduler.** One operator, `CloseAndOpen`, is what initiating, closing,
timing out and admitting have in common: both tables, the close tick and the
transcripts are updated together. World ticks are relative as well; `quiet` and
`sinceClose` saturate at `Horizon`, beyond which no comparison in the code tells
them apart. A dialog id is a pair and a generation, because a fresh uuid only has
to differ from the pair's last id. `tick()`'s random draw is a free choice among the
admissible pairs. `DialogSpec` lets the calls come in any order and switches the
golden mode off at any time, which the public `enable_natural_phase` allows; in `src/`
only a test calls it, and `run_stimulus` closes every dialog before it returns.

**WorldDialog.** A round is `stepping` (the gather of steps and the consumption of
results), `ticking`, `staging`, `generating` (the gather of turns). `behind[a]` is
how far an agent's own tick is behind the world tick: an agent that is not due, is
dwelling or raises stays behind. `CloseFromOutside` closes a dialog during one of
the awaits; the code expects that ("Dialog closed mid-gather (timeout / exhausted
/ external)", `tick.py:1597`), although nothing in the live wiring does it. The
histories `missed` and `rest` count what the properties compare with.

**CognitionTick.** `BeginTick` reads the clock, selects the agents that are due and
swaps their buffers; `EndStep` ends one step well or badly; `Finish` consumes all
results and re-arms the cadences. Between them time passes and observations
arrive. `failed` is the agent at which a trace sink raised: the loop over the
results is then left, and `run()` logs the exception.

**EnvelopeQueues.** Producers and the two getter tasks interleave freely. A getter
that was cancelled while it waited pops nothing even if its wakeup was already
scheduled (asyncio hands the wakeup on). When the broadcaster itself is cancelled,
what its getters hold is gone. Envelopes are numbered; `forwarded` and `shown` are
histories of what `fan_out` was given.

**Gateway.** Each `ws_observe` is a little machine: `connecting`, `handshaking`,
`snapshotting`, `joining` (the layout is out, no slot yet), `active`, `expiring`
(the idle error is being written while the send loop still runs), `stopping`,
`closed`. `Reserve` is the check and the insertion of `reserve_slot`, with no await
between them. `gone` marks a peer whose host vanished without a close. `wire` is a
history of the frames written, `due` of the envelopes fanned out to a session.

**AnnouncedStream.** A reader gets its prologue, then the envelopes meant for it, in
order and each once; one that pushed others out is *sealed*, and the reader meets a
warning before it. The envelopes `waiting` are the numbers in the queue and in the
hands of its getter or send loop, the `sealed` ones those behind the last warning
there. `EnvelopeQueues` has one reader, the broadcaster, and no prologue; in
`Gateway` every session is a reader of its own from its layout to its end, and one
`fan_out` step is an arrival in all of their streams at once, which is why
`ClientStreams` asks every step to be a step or a stutter of each.

**Relations.** A turn is one action, because the chain behind `record_turn` is
synchronous; it fails before the relational row or in one of the two
upserts, and `CrashInTurn` dies anywhere in it. A cognition step is two actions,
`BeginSteps` (the bonds are read) and `EndSteps` (whole states are written back,
unless the step raised). `Turns` is only possible between them, as in the tick: that
is what the mutant of `BondsMatchRows` gives up. A restart forgets bonds and
keeps rows and beliefs. Affinity is an integer scale of `One` units; how the
features of a turn become a delta is a choice from `Impact`, which decay may make
negative.

**WorldModel.** `Reconciled` is the frozen arm (a nudge lives while its evidence is
unchanged) or the carry arm (its offset outlives a change by up to `Horizon` ticks).
`ModelSpec` lets the floor be anything at every step; `Individual` computes it from
beliefs and bonds instead (`SelfFloor`, which `WorldModelEntry` validates), and there
the two agents' turns, a step's read before the await and a restart decide what the
model sees. Values are integers of which `Step` is `VALUE_STEP` and `Cap` is
`MAX_TOTAL_MODULATION`.

**WorldPhysics.** The plane is a line, on which a push over a border, a walk through
two zones and the order of the agents in `combinations` already matter; distances
are exact and the direction of a push is a sign. `Sensed` is the order of the
handler: zones first, then separation, then proximity and affordance. `toldZone`,
`toldPair` and `toldProp` are histories of what the observations said.

**EvalCapture.** One cell of the capture matrix and up to `MaxAttempts` attempts at
it, each with any flags. A file is the record of what was put in it; a crash may
come before and after every file operation. Natural captures have a watchdog and a
drain, stimulus captures run to their end in an executor thread. `Audit` is
`_audit_single`, with and without `--allow-partial`.

**MemoryStore, Supervisor.** A caller's operation is `queued` (no thread took it
yet), `waiting` for the lock, `holding` it, `found` (the test of `_ensure_conn` is
over, its return is not), `running` a statement. `close()` takes `_conn` away
without the lock and closes it under the lock. Cancelling drops what is queued and
leaves the rest running. `add_dialog_turn_sync` runs on the loop and blocks all of it,
hence `LoopIsFree` before every action of the loop. `ServerExits` is uvicorn's
`sys.exit` when its port is taken: `asyncio.run` then cancels every task at once.

## 3. The runs

| Run | Question | Bounds |
|---|---|---|
| `world_scheduler` | Do three handlers stay in step, in order, drift-free and alive, with handlers of any length? Does a stop end the loop? | periods 1, 2, 5; lag up to 7, longer than the longest period |
| `dialog_scheduler` | Do the two tables agree under any calls? | three agents (overlapping dialogs), two ids per pair, one turn, timeout and cooldown 1 |
| `world_dialog` | Transcripts, budgets, cooldowns, timeouts, and the end of every dialog | two agents, budgets 2 and 3, cooldown 3, timeout 3, agents up to 2 ticks behind |
| `envelope_queues` | What can the consumer lose, and does it learn of it? | queue of 3, six envelopes (two overflows, the second dropping the first's warning), three beats |
| `gateway` | Slots, cap, order, filters, gaps, vanished peers | two clients, one slot, backlog 2, four envelopes, every subscription of two agents |
| `cognition_tick` | Observations, cadence, dwell, progress | periods 2 and 3, dwells 1 (shorter than the period) and 4 (longer), two observations |
| `cognition_tick_traced` | finding 1 | as above, with a trace sink |
| `individual` | Do both bonds count the same turns, whatever steps, sinks and crashes do? Is a belief earned? How far may the world model stray? | two agents, one of whom may cool, up to four turns, two zones, affinity in quarters, step 2, cap 3, horizon 1, both arms |
| `individual_sign` | finding 2 | as above |
| `world_physics` | Is every crossing told, once, to the right agents? | three agents, two zones and a prop on a line of seven points, radii 2, 1, 1 |
| `eval_capture` | What does the audit accept, what does the exit code tell, what may a retry destroy, does a capture end? | target 2, up to three rows, three attempts, both conditions, every combination of flags |
| `supervisor` | Is a closed connection ever used, is one left open, is a failure told, does the process end? | three agents' recalls in threads and one synchronous call on the loop |

The bounds make the interesting cases happen: a lag that exceeds all periods lets
every deadline be overdue at once; different budgets exhaust a dialog on either
speaker's turn; a backlog of 2 keeps nothing of the old queue and 3 keeps one
entry; dwells on both sides of the period cover both orders of the two gates; a
belief needs two turns of four, so one can be earned before and after a restart; a
cap that is no multiple of the step clamps; a horizon of one lets a carry expire; a
third attempt meets what two crashed ones left; a radius wider than the push and a
prop next to the border let a push cross a zone and a distance at once; three
threads let one hold the lock, one wait and one be queued when the store closes.
Where a theorem of section 5 states the same property, no bound matters.

Deadlock is not checked where the system may stop: `run()` returns, sessions end,
processes exit, attempts are used up, and the bounded producers run dry. `DialogSpec` and the tick modules never stop, and
there it is checked.

What the properties say, by module:

- `Lockstep`: no handler's finished periods get ahead of another's pending deadline.
  `OldestFirst`: coinciding deadlines are served in the order they were queued.
  `NoDrift`: the loop implements `PeriodicTimers`. `EveryHandlerRuns`,
  `StopReturns`: liveness.
- `OpenIffPaired`: a dialog is open exactly when its pair points to it. It is about
  the two tables only, not about which cooldown or timeout the mode calls for.
  `TranscriptAlternates`, `BudgetKept`: what was staged before the await is still
  right when it is recorded. `NoneOverdue`: no turn is generated for a dialog that
  is past its timeout. `TimeoutMeansSilence`: the sweep closes only dialogs denied a
  turn in each of the last `Timeout - 1` rounds. `RestHonoured`: the cooldown counts
  from the real end of a dialog, whichever path closed it. `DialogsEnd`: liveness.
- `ObservationsAccounted`: each observation is queued, in hand, heard or lost with a
  failed step, once and in order. `MinimumGap`, `DwellHonoured`: an agent is not
  stepped before its period, or during its dwell. `EveryAgentSteps`: liveness.
- `BroadcastStream`, `ClientStreams`: the runtime's queue and each session's queue
  implement `AnnouncedStream`.
- `NoneLostSilently`: what was put on the queue is forwarded, held, queued or
  counted as dropped. `NewestWarningIsExact`: the newest warning states the total.
  `LatestBeatKept`: beats go forward and the newest is never lost.
  `BroadcastCatchesUp`: liveness. The last promises the newest beat only once the
  producers pause: under a steady stream the heartbeat may go back to its slot each time.
- `BondsMatchRows`: both bonds of a pair count the relational rows written since the
  start, so no turn is lost to a write-back, felt by one side only, or felt without
  its row. `BeliefsEarned`: a stored belief rests on enough rows, and a bond shows
  what is stored. `ShownWithinCap`, `CarryExpires`, `NoSignFlipFrozen`: how far, how
  long and in which direction a hint may move what the evidence says.
- `ZonesTold`: a zone tag is what the agent was last told, and wrong only after a
  push. `NearnessTold`: what agents last heard of a distance is true now.
- `AuditedIsSound`: what the audit passes was drained, checkpointed and not fatal. It
  says nothing of a partial database left beside the complete sidecar of a later run.
  `ExitTellsAudit`: the exit code and the audit agree. `FinishedIsKept`: no crash
  loses the database of an attempt that wrote its sidecar. `CaptureEnds`: liveness.
- `NoUseAfterClose`: no statement runs on a closed connection. `NothingLeftOpen`: an
  orderly shutdown leaves no connection open. `FailureTold`, `ShutdownEnds`: a failure
  that ended the wait makes the exit code non-zero, and the process ends (liveness).
- `SlotsKept`: the cap holds, and exactly the sessions in their task group have a slot.
  `GapsAnnounced`: a missing envelope is always behind a warning.
  `SilentPeersLeave`: liveness.

What a theorem states and no run needs to repeat is not run: the type invariants of
`WorldScheduler`, `DialogScheduler`, `WorldDialog`, `CognitionTick`, `EnvelopeQueues`,
`Gateway`, `EvalCapture`, `MemoryStore` and `Supervisor`, and `LayoutBeforeStream`,
which `ClientStreams` contains. The evaluation mode of the dialog scheduler, with
zones ignored and a shorter cooldown, has no run of its own: `RestHonoured` and
`TimeoutMeansSilence` are proved for it as for the live mode.

Every property of a passing run has a mutant in `PROJECT.json`: a plausible slip in
the code (a dropped guard, a swapped order, a stale count) that makes it fail under the
run's own bounds. They stand next to the definitions they change.

## 4. Fairness

- The loop: the clock moves, a sleeper is woken, every handler ends. Physics and
  heartbeat never await; the LLM and embedding clients carry timeouts.
- The cognition tick: it is called again and again (`EveryHandlerRuns`), and both
  gathers end. Nothing makes a step or a turn succeed. `DialogsEnd` additionally
  assumes that the world tick keeps moving, and says so in its statement: if no
  foremost agent ever steps, nothing times out.
- The queues: every runnable task is resumed. Nobody has to produce, and shutdown is
  never fair.
- The gateway: timers fire, queues are drained, a write ends well or not (the
  transport pings its peer and drops a dead connection). The idle timer is only
  sure to fire for a peer that has vanished. No client has to connect, to speak or
  to leave.
- The capture: every step of an attempt follows, the wall clock elapses, and a
  stimulus battery ends (its LLM calls carry timeouts). A natural runtime need not
  answer, return or be drained: the watchdog and the drain timeout end it.
- The shutdown: threads are scheduled, the lock is granted in turn, a step comes to
  the last of its calls, `run()` returns after `stop()`, uvicorn returns once
  `should_exit` is set (it closes its connections; `SilentPeersLeave` is the
  sessions' part of that). Nobody has to fail or to send a signal.
- `Relations`, `WorldModel`, `Individual` and `WorldPhysics` promise safety only and
  state no fairness.

## 5. What is proved

TLAPS proves these for every value of the constants that meets the named assumptions
(`SchedulerAssumption`, `DialogAssumption`, `WorldDialogAssumption`,
`QueueAssumption`, `GatewayAssumption`, `CognitionAssumption`, `CaptureAssumption`,
`RelationsAssumption`, `WorldModelAssumption`, `WorldPhysicsAssumption`,
`IndividualAssumption`, `StoreAssumption` and those on the values that stand for
"none"); TLC evaluates the assumptions in the runs. Periods, timeouts, cooldowns and
budgets are positive, the runtime's queue and a session's backlog hold at least two
entries (with less room the warning would not fit; the code's bounds are 1024 and
256), and evaluation and golden mode exclude each other, as
`InMemoryDialogScheduler.__init__` enforces.

| Module | Theorems | Argument |
|---|---|---|
| `WorldScheduler_proofs` | `TypeCorrect`, `LockstepHolds`, `OldestFirstHolds`, `ImplementsTimers` | The inductive invariant adds that `older` is a strict total order and that the popped event is the earliest: without it a re-armed event could overtake a pending one. The refinement maps `Finish` to a run of the timer, `Elapse` to elapsing and all else to stuttering. |
| `WorldDialog_proofs` | `OpenIffPairedHolds`, `TypeCorrect` (of the scheduler), `WorldTypeCorrect`, `WorldOpenIffPaired`, `TranscriptAlternatesHolds`, `BudgetKeptHolds`, `RestHonouredHolds`, `NoneOverdueHolds`, `TimeoutMeansSilenceHolds` | `CloseAndOpenKeepsPaired`: whichever open dialogs are closed and whichever free pairs get a new id, the tables agree; each operation of the scheduler is an instance of it. For types, `InitiatorInPair` is carried along, so that the other speaker exists. `WorldInv` adds `StagedFits` (a staged turn is still the one its dialog waits for, unless it closed), `RestIsKnown` (the scheduler's close ticks are the true ones) and `SilenceCounted` (a dialog is silent for at most one tick more than the rounds it was denied a turn), the latter two relating the code's bookkeeping to the histories. |
| `CognitionTick_proofs` | `TypeCorrect`, `MinimumGapHolds`, `DwellHonouredHolds`, `ObservationsAccountedHolds` | `DueAfterPeriod`: time left until the deadline plus time since the step is at least a period; while a step runs, the time since it began is at least what the tick will subtract. `MinimumGapHolds` needs that no trace sink raises, `DwellHonouredHolds` does not. `ObsInv` says of an agent's three buffers, set by set, that each rises and is older than the next (`ToSetConcat` and `RisingConcat` turn that into the statement about their concatenation), and that nobody outside a gather has a step in hand; `Arrives`, `Taken`, `Reaches` and `IsLost` are what can become of an observation. |
| `EnvelopePath_proofs`, sessions | `TypeCorrect`, `SlotsKeptHolds`, `LayoutBeforeStreamHolds`, `GapsAnnouncedHolds`, `ClientStreamsHold` | `SlotInv` is inductive alone; `CapInv` adds that the registry is finite; `WireInv` that the layout is the first frame of every session that may stream. `GapInv` adds that a session without a slot has nothing pending and that nothing is due before it is fanned out, `ClientInv` that what is pending rises: an overflow drops the oldest, so the gap it makes lies before its warning (`OverflowAccounts`). |
| `EnvelopePath_proofs`, runtime | `QueueTypeCorrect`, `NoneLostSilentlyHolds`, `NewestWarningIsExactHolds`, `LatestBeatKeptHolds`, `BroadcastStreamHolds` | `DrainInv`: a getter holds an entry only once it is done, and there are getters only while `recv_envelope` waits for them. `StreamInv` bounds the numbers in the stream by the counters, so that each new envelope and warning is later than all of its kind, and balances what was put and warned of against what is forwarded, held, queued and dropped. `BeatInv` does the same for the beats. |
| `EvalCapture_proofs` | `TypesKept`, `AuditsSound`, `FinishedKept`, `ExitsTell` | `Shape` says, phase by phase, what the sink and the three files can be (a sealed temporary file before the sidecar, a sidecar of this attempt before the rename); `Kept` says whose database may be thrown away next. `ExitsTell` adds `ExitInv`: what an idle cell with each exit code holds. |
| `Individual_proofs` | `RelationsKept`, `LayerOnlyReads`, `BondsCounted`, `BeliefsKept`, `ShownNearEvidence`, `OffsetsExpire`, `FrozenKeepsSign`, `LayerIsModel`, `LayerBounded` | While steps are under way nobody speaks, so the bonds they will write back are the bonds there are (the strengthening that makes `BondsMatchRows` inductive). `LayerOnlyReads` shows that the composition adds no behaviour to the relations, which carries the two invariants over. For the model, the carry clock bounds the history `crossed`, and the modulated value stays within the cap through each branch of `Reconciled` and `Hints`; this is proved of `ModelSpec`, that is for any floors at all. `LayerIsModel` shows that the floors an individual's beliefs and bonds lead to are among them (`RowsBounded`: no bond counts more turns than the table holds; a value off the scale is refused by `WorldModelEntry`, so that no step goes on with it), and `LayerBounded` carries the bounds over. |
| `Supervisor_proofs` | `TypeCorrect`, `NoUseAfterCloseHolds`, `NothingLeftOpenHolds`, `FailureNeverHidden` | `StoreInv` makes `NoUseAfterClose` inductive: `LockHeld` (the lock belongs to the one caller inside it) and `OpenIsKnown` (a connection is open exactly while `_conn` or `close()` refers to it). `ShutdownInv` adds, for a shutdown nobody tears down, `Orderly`: a step that ended left no call behind, so nobody connects after `close()`. `FailureNeverHidden` is the safety half of `FailureTold`: from a wait that could see a failure on, an exit code is 1; `Remembered` is what carries it through the shutdown. |
| `WorldPhysics_proofs` | `ZonesKept`, `NearnessKept` | What steps will write back is what there is (physics does not run meanwhile). A walk tells the zone it ends in, a push leaves tag and telling alone, and sensing comes last, on the positions it left. |

The two refinements share the module's lemmas on `FrameSequences`: what `NumbersOf` and
`Behind` are of a concatenation (`NumbersConcat`, `BehindConcat`), and what entering at
the end, leaving at the front and overflowing do to them (`Enters`, `Leaves`, `Crowds`).
With those, each action of the code is a step of the abstract stream or a stutter:
`fan_out` and `_enqueue_with_drop_oldest` map to `Arrive` or `Overflow`, the send loop and
the forwarding of an entry to `Show` or `Warn`, the layout to `Open`, the end of a session
and the cancellation of the broadcaster to `Close`, and every other action to a stutter.

Every safety and action property of the passing runs is stated by a theorem, with two
restrictions: `MinimumGapHolds` needs that no trace sink raises and `NoneOverdueHolds`
that the scheduler does not start in the golden mode. Model-checked only are the liveness properties, because fairness and
`ENABLED` are beyond the prover: `EveryHandlerRuns`, `StopReturns`, `DialogsEnd`,
`EveryAgentSteps`, `BroadcastCatchesUp`, `SilentPeersLeave`, `CaptureEnds`, `FailureTold`
and `ShutdownEnds`. `BroadcastStream` and `ClientStreams` promise safety only.

## 6. Findings

1. *A raising trace sink breaks the cadence.* `tick.py:1457` calls the period "the
   minimum gap between this agent's cognition steps", but the deadline is set only
   after `_consume_result` returned, and the trace sinks inside it are not guarded.
   Run `cognition_tick_traced` steps an agent again before its period is over; the
   results of the agents behind it in the loop are dropped. Only evaluation captures
   wire such sinks, and theirs abort the capture.
2. *In the carry arm a hint can flip a sign.* `cognition/world_model.py:302` says of
   a hint that "it can never flip a sign". `_reconcile_stm_carry` adds the offset of
   the old floor to a new one, and tests for a flip only between the two floors. A
   value of .10 weakened twice to 0 carries -.10; over a new floor of .05 it is shown
   as -.05. Run `individual_sign` finds it; in the frozen arm, the default, it cannot
   happen (`FrozenKeepsSign`).

What the models showed besides, without contradicting a document:

- `tick.py:19` still speaks of "an unbounded queue"; it is bounded at 1024 entries
  and drops the oldest (`tick.py:1019`), with exact accounting.
- An overflow of either queue drops the oldest entries, earlier warnings among them.
  A gap is therefore announced for certain only once the newest warning is read, and
  a reader so slow that the queue overflows between any two of its reads may be shown
  nothing but warnings. `AnnouncedStream` promises no more than that.
- An agent pushed over a border keeps its old zone tag until it walks, and the next
  zone event starts from that tag. Two agents sent to the same spawn point can push
  each other away for ever, so no arrival is promised.
- After a restart a stored belief meets a bond of one turn, so the world model takes
  it as evidence although the bond alone would not have earned it. A value weakened
  to 0 cannot be strengthened until its evidence changes.
- A partial capture without rows exits 3 but fails the audit even with
  `--allow-partial`: there is no `run_id` to match. `--allow-partial-rescue` over a
  stale temporary file may delete the sidecar of a published database. A failing
  trace sink is reported as `fatal_runtime_exception`. A soft timeout followed by a
  drain timeout sets both flags, although `CaptureResult` calls them exclusive.
- After a torn shutdown a late thread may connect again, and nobody closes that
  connection; a body may also raise because `close()` took the connection between the
  test and the return of `_ensure_conn`. A failure of a task that was still pending
  when the wait ended is only logged, and the exit code is 0.

One disagreement was met while reading and is shown by no run: `?subscribe=` is
documented as a list of persona ids (`integration/protocol.py:90-98`, `gateway.py:423`),
while `fan_out` compares it with the agent ids of the envelope
(`_envelope_target_agents`, `gateway.py:201`), which `bootstrap.py:304` builds as
`a_<persona>_<ordinal>`. The models treat ids as opaque, so no property rests on either
reading.

## 7. What is not modelled

In the modelled parts: `drain_envelopes` and the branch for a queue with room for
fewer than two entries (tests only); a cancellation of `recv_envelope` while it
gathers its cancelled getters; the error frames a handler writes before it closes;
frames a client sends after its handshake, which change nothing unless the opt-in
inbound sink is wired; a speaker without a runtime (agents are never unregistered); what a
`CycleResult` contains; `step_cognition_once`, the record-mode seam. Time-of-day
events and the trace seam of the physics tick. Familiarity, emotional conflict, ticks
and decay rates of a bond (a turn moves its affinity by a choice of deltas), the
`self` axis of the world model, the development stage, and float rounding. The
capture's memory database, its individuation pass, seed and replicate metadata, and
the batch audit. What the memory store reads and writes besides rows and beliefs.
`DialogScheduler` takes a recorded
turn to carry the current world tick, as the turn loop does.

Whole components: offline analyses, training, reports and fixtures have neither
concurrency nor a protocol. The clients of LLMs and embeddings are I/O; all that
is assumed of them is that calls end. The rest is planned.

## 8. Plan

Done, in this order: the world loop and its refinement, the dialog scheduler, the
tick that drives it, the envelope queues, the gateway, the phase wheel and their
proofs; then the evaluation capture, the turn sinks with the world model on top, the
physics tick, each with its proofs, and the supervisor with the memory store.

Next:

1. **Envelope path**: the runtime's queue, the broadcaster and a session composed into
   one path; both queues already refine the same stream.
2. **One state, two owners**: `Relations` and `WorldPhysics` over the same agent state
   and the phase wheel of `CognitionTick`, in which steps of different agents overlap.
3. **Cognition cycle**: the partial failures of one step (retrieval, LLM, reflection,
   memory) and what of it is kept; the ERRE mode machine it feeds.
4. **Proofs**: the invariants and the refinements of these compositions. That the mean
   of affinities on the scale is on the scale, so that `Valid` never refuses a floor,
   is a fold over a set and needs an induction the provers cannot make.

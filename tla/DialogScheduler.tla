--------------------------- MODULE DialogScheduler ---------------------------
(***************************************************************************)
(* InMemoryDialogScheduler: which pairs of agents talk, with what          *)
(* transcript, and when a pair may talk again.                             *)
(*                                                                         *)
(* World ticks are relative: quiet and sinceClose hold now - then, so they *)
(* grow by one when the world tick does (Advance) and saturate at Horizon, *)
(* beyond which the code never tells them apart.  A dialog id is the pair  *)
(* and a generation number: a drawn id differs from the previous one of    *)
(* the same pair, as two uuids do.                                         *)
(***************************************************************************)
EXTENDS Integers, Sequences, FiniteSets

CONSTANTS Agents,            \* agent ids, ordered as the strings they stand for
          Zones,             \* zones of the world
          ReflectiveZones,   \* _REFLECTIVE_ZONES: those that admit dialogs
          Generations,       \* bound: ids a pair goes through before reuse
          CooldownLive,      \* COOLDOWN_TICKS
          CooldownEval,      \* COOLDOWN_TICKS_EVAL
          Timeout,           \* TIMEOUT_TICKS
          MaxTurns,          \* bound: turns callers record in one dialog
          EvalNatural,       \* eval_natural_mode of this instance
          GoldenStart,       \* golden_baseline_mode at construction
          Never              \* no close recorded, no dialog open

ASSUME DialogAssumption ==
  /\ Agents \subseteq Nat
  /\ ReflectiveZones \subseteq Zones
  /\ Generations \in Nat \ {0}
  /\ CooldownLive \in Nat \ {0} /\ CooldownEval \in Nat \ {0}
  /\ Timeout \in Nat \ {0}
  /\ MaxTurns \in Nat
  /\ EvalNatural \in BOOLEAN /\ GoldenStart \in BOOLEAN
  /\ ~(EvalNatural /\ GoldenStart)       \* __init__ raises ValueError
  /\ Never \notin Nat

Pairs == {p \in SUBSET Agents : \E a, b \in Agents : a # b /\ p = {a, b}}
Ids == Pairs \X (0..Generations - 1)
NoDialog == Never

ASSUME NoDialogAssumption == \A d \in Ids : d # NoDialog

Cooldown == IF EvalNatural THEN CooldownEval ELSE CooldownLive

Horizon == IF Cooldown > Timeout THEN Cooldown ELSE Timeout

VARIABLES open,          \* keys of _open
          pairId,        \* _pair_to_id
          initiator,     \* _OpenDialog.initiator
          turns,         \* _OpenDialog.turns
          quiet,         \* world tick - last_activity_tick
          sinceClose,    \* world tick - _last_close_tick, per pair
          gen,           \* generation of the pair's latest id
          golden         \* golden_baseline_mode

table == <<open, pairId, initiator, turns, quiet, sinceClose, gen>>
dialogVars == <<table, golden>>

Turn == [speaker : Agents, index : Nat]

TypeOK ==
  /\ open \subseteq Ids
  /\ pairId \in [Pairs -> Ids \cup {NoDialog}]
  /\ initiator \in [Ids -> Agents]
  /\ turns \in [Ids -> Seq(Turn)]
  /\ quiet \in [Ids -> 0..Horizon]
  /\ sinceClose \in [Pairs -> 0..Horizon \cup {Never}]
  /\ gen \in [Pairs -> 0..Generations - 1]
  /\ golden \in BOOLEAN

PairOf(d) == d[1]
Other(p, a) == CHOOSE b \in p : b # a
Lowest(p) == CHOOSE a \in p : \A b \in p : a =< b

DialogInit ==
  /\ open = {}
  /\ pairId = [p \in Pairs |-> NoDialog]
  /\ initiator = [d \in Ids |-> Lowest(PairOf(d))]
  /\ turns = [d \in Ids |-> <<>>]
  /\ quiet = [d \in Ids |-> 0]
  /\ sinceClose = [p \in Pairs |-> Never]
  /\ gen = [p \in Pairs |-> 0]
  /\ golden = GoldenStart

-----------------------------------------------------------------------------
(* The table after closing the dialogs in D and opening one for each pair   *)
(* in P, initiated by starter[p], at the current world tick; the closes are *)
(* recorded as having happened ago[d] ticks earlier.                       *)

NewId(p) == <<p, (gen[p] + 1) % Generations>>

PairIdAfterKeepingClosed(D, P) ==
  [p \in Pairs |-> IF p \in P THEN NewId(p) ELSE pairId[p]]

PairIdAfter(D, P) ==
  [p \in Pairs |-> IF p \in P THEN NewId(p)
                   ELSE IF pairId[p] \in D THEN NoDialog ELSE pairId[p]]

CloseAndOpen(D, ago, P, starter) ==
  LET opened == {NewId(p) : p \in P}
  IN /\ open' = (open \ D) \cup opened
     /\ pairId' = PairIdAfter(D, P)
     /\ sinceClose' = [p \in Pairs |-> IF pairId[p] \in D THEN ago[pairId[p]]
                                       ELSE sinceClose[p]]
     /\ gen' = [p \in Pairs |-> IF p \in P THEN NewId(p)[2] ELSE gen[p]]
     /\ initiator' = [d \in Ids |-> IF d \in opened THEN starter[PairOf(d)]
                                   ELSE IF d \in D THEN Lowest(PairOf(d))
                                   ELSE initiator[d]]
     /\ turns' = [d \in Ids |-> IF d \in D \cup opened THEN <<>> ELSE turns[d]]
     /\ quiet' = [d \in Ids |-> IF d \in D \cup opened THEN 0 ELSE quiet[d]]

CloseAtLastActivity(D) == [d \in D |-> quiet[d]]

CloseNow(D) == [d \in D |-> 0]

(* The world tick moves on by one. *)
Age(n) == IF n < Horizon THEN n + 1 ELSE n

AgeAll ==
  /\ quiet' = [d \in Ids |-> IF d \in open THEN Age(quiet[d]) ELSE quiet[d]]
  /\ sinceClose' = [p \in Pairs |-> IF sinceClose[p] = Never THEN Never
                                    ELSE Age(sinceClose[p])]

-----------------------------------------------------------------------------
(* Operations. *)

CoolingDown(p) == sinceClose[p] # Never /\ sinceClose[p] < Cooldown

(* schedule_initiate(i, t, zone, now) *)
ScheduleInitiate(i, t, zone) ==
  LET p == {i, t}
  IN /\ i # t
     /\ zone \in ReflectiveZones \/ golden \/ EvalNatural
     /\ pairId[p] = NoDialog
     /\ ~CoolingDown(p) \/ golden
     /\ CloseAndOpen({}, <<>>, {p}, [q \in {p} |-> i])

(* record_turn(turn): KeyError when the dialog is not open.  The turn sink  *)
(* runs after the transcript is updated and its exceptions are swallowed.  *)
RecordedKeepingQuiet(said) ==
  /\ turns' = [d \in Ids |-> IF d \in DOMAIN said /\ d \in open
                             THEN Append(turns[d], said[d]) ELSE turns[d]]
  /\ UNCHANGED <<open, pairId, initiator, sinceClose, gen, quiet>>

Recorded(said) ==
  /\ turns' = [d \in Ids |-> IF d \in DOMAIN said /\ d \in open
                             THEN Append(turns[d], said[d]) ELSE turns[d]]
  /\ quiet' = [d \in Ids |-> IF d \in DOMAIN said /\ d \in open THEN 0 ELSE quiet[d]]
  /\ UNCHANGED <<open, pairId, initiator, sinceClose, gen>>

RecordTurn(d, turn) == d \in open /\ Recorded([e \in {d} |-> turn])

(* close_dialog(d, reason, tick): KeyError when d is not open.  A caller    *)
(* that omits the tick closes the dialog as of its last activity.          *)
Close(d, ago) ==
  /\ d \in open
  /\ ago \in {0, quiet[d]}
  /\ CloseAndOpen({d}, [e \in {d} |-> ago], {}, <<>>)

ExpiredLate == IF golden THEN {} ELSE {d \in open : quiet[d] > Timeout}
ExpiredOnceStarted ==
  IF golden THEN {} ELSE {d \in open : quiet[d] >= Timeout /\ turns[d] # <<>>}

(* _close_timed_out: nothing expires while golden_baseline_mode is on. *)
Expired == IF golden THEN {} ELSE {d \in open : quiet[d] >= Timeout}

(* The pairs tick() may admit, once the expired dialogs are closed.  It     *)
(* heeds the cooldown even in golden mode; eval mode ignores the zones.    *)
Admissible(zone) ==
  {p \in Pairs :
     /\ pairId[p] = NoDialog
     /\ ~CoolingDown(p)
     /\ \/ EvalNatural
        \/ /\ \A a, b \in p : zone[a] = zone[b]
           /\ \A a \in p : zone[a] \in ReflectiveZones}

(* tick(world_tick, agents): close the timed-out dialogs, then admit some   *)
(* of the admissible pairs (one draw each), the smaller id initiating.  A   *)
(* pair that just timed out is cooling down.                               *)
Tick(zone) ==
  \E P \in SUBSET Admissible(zone) :
    CloseAndOpen(Expired, CloseNow(Expired), P, [p \in P |-> Lowest(p)])

-----------------------------------------------------------------------------
(* The scheduler under any sequence of calls its public interface allows:   *)
(* the golden-baseline driver and the world runtime are two such callers.  *)

Advance ==
  /\ AgeAll
  /\ UNCHANGED <<open, pairId, initiator, turns, gen, golden>>

(* GoldenBaselineDriver.enable_natural_phase *)
EnableNaturalPhase ==
  /\ golden
  /\ golden' = FALSE
  /\ UNCHANGED table

DialogNext ==
  \/ Advance
  \/ EnableNaturalPhase
  \/ \E i, t \in Agents, z \in Zones : ScheduleInitiate(i, t, z) /\ UNCHANGED golden
  \/ \E d \in open : /\ Len(turns[d]) < MaxTurns
                     /\ \E s \in PairOf(d) :
                          RecordTurn(d, [speaker |-> s, index |-> Len(turns[d])])
                     /\ UNCHANGED golden
  \/ \E d \in open : \E ago \in {0, quiet[d]} : Close(d, ago) /\ UNCHANGED golden
  \/ \E zone \in [Agents -> Zones] : Tick(zone) /\ UNCHANGED golden

DialogSpec == DialogInit /\ [][DialogNext]_dialogVars

-----------------------------------------------------------------------------
(* _open and _pair_to_id never disagree: a dialog is open exactly when its  *)
(* pair points to it, so no pair has two open dialogs and no pair is        *)
(* blocked for ever by an id that is no longer open.                       *)
OpenIffPaired ==
  /\ \A d \in open : pairId[PairOf(d)] = d
  /\ \A p \in Pairs : pairId[p] # NoDialog => pairId[p] \in open /\ PairOf(pairId[p]) = p
=============================================================================

----------------------------- MODULE WorldDialog -----------------------------
(***************************************************************************)
(* The cognition tick of WorldRuntime as the dialogs see it: agents step,   *)
(* the world tick follows the foremost agent, the dialog scheduler closes   *)
(* and admits dialogs, and one turn per open dialog is staged, generated   *)
(* under a gather, and recorded if its dialog is still open.                *)
(*                                                                         *)
(* The cognition handler runs again and again (WorldScheduler shows it), so *)
(* a round starts wherever the previous one ended.                          *)
(***************************************************************************)
EXTENDS DialogScheduler

CONSTANTS Budget,            \* Cognitive.dialog_turn_budget per agent
          MaxBehind          \* bound: ticks an agent may lag behind the foremost

ASSUME WorldDialogAssumption ==
  /\ Budget \in [Agents -> Nat \ {0}]
  /\ MaxBehind \in Nat

VARIABLES behind,            \* world tick - AgentRuntime.state.tick
          phase,             \* where _on_cognition_tick is
          staged,            \* turns of the gather, keyed by dialog id
          missed,            \* history: rounds without a turn since the last activity
          rest               \* history: world ticks since the pair's last close

round == <<behind, phase, staged>>
history == <<missed, rest>>
worldVars == <<dialogVars, round, history>>

Phases == {"stepping", "ticking", "staging", "generating"}

WorldTypeOK ==
  /\ TypeOK
  /\ behind \in [Agents -> 0..MaxBehind]
  /\ phase \in Phases
  /\ DOMAIN staged \subseteq Ids
  /\ \A d \in DOMAIN staged : staged[d] \in Turn
  /\ missed \in [Ids -> 0..Timeout]
  /\ rest \in [Pairs -> 0..Horizon \cup {Never}]

WorldInit ==
  /\ DialogInit
  /\ behind = [a \in Agents |-> 0]
  /\ phase = "stepping"
  /\ staged = <<>>
  /\ missed = [d \in Ids |-> 0]
  /\ rest = [p \in Pairs |-> Never]

-----------------------------------------------------------------------------
(* What the histories record: a close starts a rest, and a dialog that is   *)
(* silent in a round, though a turn was staged for it, missed that round.  *)

CloseNoted ==
  /\ rest' = [p \in Pairs |-> IF pairId[p] \in open \ open' THEN 0 ELSE rest[p]]
  /\ missed' = [d \in Ids |-> IF d \in open' THEN missed[d] ELSE 0]

-----------------------------------------------------------------------------
(* gather(_step_one) and _consume_result: the agents of S that were due,    *)
(* were not dwelling and did not raise each move their own tick by one; the *)
(* world tick, the maximum of the agents', moves if a foremost one did.    *)

Foremost(S) == \E a \in S : behind[a] = 0

BehindAfter(S) ==
  [a \in Agents |-> behind[a] - (IF a \in S THEN 1 ELSE 0)
                              + (IF Foremost(S) THEN 1 ELSE 0)]

StepAgents(S) ==
  /\ phase = "stepping"
  /\ \A a \in Agents : BehindAfter(S)[a] =< MaxBehind
  /\ behind' = BehindAfter(S)
  /\ phase' = "ticking"
  /\ IF Foremost(S)
     THEN /\ AgeAll
          /\ rest' = [p \in Pairs |-> IF rest[p] = Never THEN Never ELSE Age(rest[p])]
     ELSE UNCHANGED <<quiet, sinceClose, rest>>
  /\ UNCHANGED <<open, pairId, initiator, turns, gen, golden, staged, missed>>

(* _run_dialog_tick, on every round whoever was due. *)
DialogTick(zone) ==
  /\ phase = "ticking"
  /\ Tick(zone)
  /\ CloseNoted
  /\ phase' = "staging"
  /\ UNCHANGED <<golden, behind, staged>>

-----------------------------------------------------------------------------
(* _stage_dialog_turns: strict alternation from the transcript's length.    *)
(* Agents are never unregistered, so both runtimes are always found.       *)

SpeakerAlwaysInitiator(d) == initiator[d]

Speaker(d) == IF Len(turns[d]) % 2 = 0 THEN initiator[d]
              ELSE Other(PairOf(d), initiator[d])

ExhaustedLate == {d \in open : Len(turns[d]) > Budget[Speaker(d)]}

Exhausted == {d \in open : Len(turns[d]) >= Budget[Speaker(d)]}

StageTurns ==
  /\ phase = "staging"
  /\ CloseAndOpen(Exhausted, CloseNow(Exhausted), {}, <<>>)
  /\ CloseNoted
  /\ staged' = [d \in open \ Exhausted |-> [speaker |-> Speaker(d), index |-> Len(turns[d])]]
  /\ phase' = IF open \subseteq Exhausted THEN "stepping" ELSE "generating"
  /\ UNCHANGED <<golden, behind>>

(* The gather is over: the dialogs of spoke got a turn, the others None or  *)
(* an exception.  A turn whose dialog closed meanwhile is dropped.          *)
FinishTurns(spoke) ==
  /\ phase = "generating"
  /\ spoke \subseteq DOMAIN staged
  /\ Recorded([d \in spoke |-> staged[d]])
  /\ missed' = [d \in Ids |-> IF d \in open /\ d \in DOMAIN staged \ spoke
                              THEN IF missed[d] < Timeout THEN missed[d] + 1 ELSE Timeout
                              ELSE 0]
  /\ staged' = <<>>
  /\ phase' = "stepping"
  /\ UNCHANGED <<golden, behind, rest>>

(* Someone else holding the scheduler closes a dialog during one of the two *)
(* awaits of the tick, at the current world tick: the case the KeyError    *)
(* handlers of _drive_dialog_turns are written for.                        *)
CloseFromOutside(d) ==
  /\ phase \in {"stepping", "generating"}
  /\ Close(d, 0)
  /\ CloseNoted
  /\ UNCHANGED <<golden, round>>

Step == \E S \in SUBSET Agents : StepAgents(S)
Admit == \E zone \in [Agents -> Zones] : DialogTick(zone)
Finish == \E spoke \in SUBSET DOMAIN staged : FinishTurns(spoke)

WorldNext ==
  \/ Step
  \/ Admit
  \/ StageTurns
  \/ Finish
  \/ \E d \in open : CloseFromOutside(d)

(* The cognition handler is called for ever and each of its awaits ends     *)
(* (cycle.step and chat are bounded by the LLM client's timeouts).  Nothing *)
(* makes an agent succeed: a round in which no agent moves is fair.        *)
WorldFairness == WF_worldVars(Step) /\ WF_worldVars(Admit)
                 /\ WF_worldVars(StageTurns) /\ WF_worldVars(Finish)

WorldSpec == WorldInit /\ [][WorldNext]_worldVars /\ WorldFairness

-----------------------------------------------------------------------------
(* The transcript of an open dialog is what DialogTurnMsg promises: the     *)
(* indices count from 0 and the initiator and the target take turns, even   *)
(* though index and speaker were fixed before the LLM was awaited.          *)
TranscriptAlternates ==
  \A d \in open : \A k \in 1..Len(turns[d]) :
    /\ turns[d][k].index = k - 1
    /\ turns[d][k].speaker = IF k % 2 = 1 THEN initiator[d]
                             ELSE Other(PairOf(d), initiator[d])

(* Nobody ever speaks beyond their own turn budget. *)
BudgetKept ==
  \A d \in open : \A k \in 1..Len(turns[d]) :
    turns[d][k].index < Budget[turns[d][k].speaker]

(* Turns are never generated for a dialog that is already overdue: whoever  *)
(* was due this round, the sweep has run at the current world tick.        *)
NoneOverdue ==
  phase \in {"staging", "generating"} => \A d \in open : quiet[d] < Timeout

(* The cooldown is counted from the tick at which the pair really stopped   *)
(* talking, whichever of the closing paths ended the dialog (the stale     *)
(* anchor the tick argument of close_dialog was added against).            *)
RestHonoured ==
  \A d \in open : rest[PairOf(d)] # Never => rest[PairOf(d)] >= Cooldown

(* The sweep closes only dialogs that really fell silent: a dialog that      *)
(* times out was denied a turn in each of the last Timeout - 1 rounds,      *)
(* because the world tick moves by at most one per round.                  *)
TimeoutMeansSilence ==
  [][phase = "ticking" => \A d \in open \ open' : missed[d] >= Timeout - 1]_worldVars

(* As long as the world tick keeps moving, every dialog ends: by exhausted   *)
(* budgets if the LLM answers, by the timeout if it does not.               *)
TimePasses == \E S \in SUBSET Agents : StepAgents(S) /\ Foremost(S)

DialogsEnd ==
  []<><<TimePasses>>_worldVars => \A d \in Ids : d \in open ~> d \notin open
=============================================================================

------------------------- MODULE WorldDialog_proofs -------------------------
(***************************************************************************)
(* Proofs about the dialog scheduler under any sequence of calls, and about *)
(* the dialogs of the cognition tick that drives it, for every set of       *)
(* agents and zones, all budgets, cooldowns and timeouts, in live and       *)
(* evaluation mode.                                                        *)
(***************************************************************************)
EXTENDS WorldDialog, TLAPS

-----------------------------------------------------------------------------
(* The scheduler alone: DialogSpec. *)

(* The part of the type invariant the two tables rest on. *)
TablesOK ==
  /\ open \subseteq Ids
  /\ pairId \in [Pairs -> Ids \cup {NoDialog}]
  /\ gen \in [Pairs -> 0..Generations - 1]

Paired == TablesOK /\ OpenIffPaired

LEMMA IdsAreDialogs == \A d \in Ids : d # NoDialog /\ PairOf(d) \in Pairs
  BY NoDialogAssumption DEF Ids, PairOf

(* The id drawn for a pair is an id of that pair. *)
LEMMA NewIdType ==
  ASSUME NEW p \in Pairs, gen \in [Pairs -> 0..Generations - 1]
  PROVE  /\ NewId(p) \in Ids
         /\ PairOf(NewId(p)) = p
         /\ NewId(p)[2] \in 0..Generations - 1
<1>1. Generations \in Nat \ {0}
  BY DialogAssumption DEF DialogAssumption
<1>2. gen[p] + 1 \in Nat
  BY <1>1
<1>3. (gen[p] + 1) % Generations \in 0..Generations - 1
  BY <1>1, <1>2
<1>4. QED
  BY <1>3 DEF NewId, Ids, PairOf

(* Whichever open dialogs are closed and whichever unpaired pairs get a new  *)
(* one, the tables agree again: the lemma every operation rests on.        *)
LEMMA CloseAndOpenKeepsPaired ==
  ASSUME Paired, NEW D \in SUBSET open, NEW ago, NEW P \in SUBSET Pairs, NEW starter,
         \A p \in P : pairId[p] = NoDialog,
         CloseAndOpen(D, ago, P, starter)
  PROVE  Paired' /\ open \ open' = D
<1>1. \A p \in P : NewId(p) \in Ids /\ PairOf(NewId(p)) = p
                   /\ NewId(p)[2] \in 0..Generations - 1
  BY NewIdType DEF Paired, TablesOK
<1>2. open' = (open \ D) \cup {NewId(p) : p \in P}
  BY DEF CloseAndOpen
<1>3. \A p \in Pairs :
        /\ p \in P => pairId'[p] = NewId(p)
        /\ p \notin P /\ pairId[p] \in D => pairId'[p] = NoDialog
        /\ p \notin P /\ pairId[p] \notin D => pairId'[p] = pairId[p]
  BY DEF CloseAndOpen, PairIdAfter
<1>4. TablesOK'
  <2>1. open' \subseteq Ids
    BY <1>1, <1>2 DEF Paired, TablesOK
  <2>2. pairId' = PairIdAfter(D, P) /\ DOMAIN pairId' = Pairs
    BY DEF CloseAndOpen, PairIdAfter
  <2>3. pairId' \in [Pairs -> Ids \cup {NoDialog}]
    <3>1. \A p \in Pairs : pairId'[p] \in Ids \cup {NoDialog}
      BY <1>1, <1>3 DEF Paired, TablesOK
    <3>2. QED
      BY <2>2, <3>1 DEF PairIdAfter
  <2>4. gen' \in [Pairs -> 0..Generations - 1]
    BY <1>1 DEF CloseAndOpen, Paired, TablesOK
  <2>5. QED
    BY <2>1, <2>3, <2>4 DEF TablesOK
<1>5. \A d \in open' : pairId'[PairOf(d)] = d
  <2> TAKE d \in open'
  <2>1. CASE d \in open \ D
    <3>1. pairId[PairOf(d)] = d /\ PairOf(d) \in Pairs /\ d # NoDialog
      BY <2>1, IdsAreDialogs DEF Paired, TablesOK, OpenIffPaired
    <3>2. PairOf(d) \notin P
      BY <3>1
    <3>3. QED
      BY <2>1, <3>1, <3>2, <1>3
  <2>2. CASE \E p \in P : d = NewId(p)
    BY <2>2, <1>1, <1>3
  <2>3. QED
    BY <1>2, <2>1, <2>2
<1>6. \A p \in Pairs : pairId'[p] # NoDialog =>
        pairId'[p] \in open' /\ PairOf(pairId'[p]) = p
  <2> TAKE p \in Pairs
  <2>1. CASE p \in P
    BY <2>1, <1>1, <1>2, <1>3
  <2>2. CASE p \notin P /\ pairId[p] \in D
    BY <2>2, <1>3
  <2>3. CASE p \notin P /\ pairId[p] \notin D
    BY <2>3, <1>2, <1>3 DEF Paired, OpenIffPaired
  <2>4. QED
    BY <2>1, <2>2, <2>3
<1>7. open \ open' = D
  <2>1. \A p \in P : NewId(p) \notin D
    <3> TAKE p \in P
    <3>1. NewId(p) # NoDialog /\ PairOf(NewId(p)) = p
      BY <1>1, IdsAreDialogs
    <3>2. QED
      BY <3>1 DEF Paired, OpenIffPaired
  <2>2. QED
    BY <1>2, <2>1
<1>8. QED
  BY <1>4, <1>5, <1>6, <1>7 DEF Paired, OpenIffPaired

(* A dialog that is open afterwards stayed as it was, or is new and empty. *)
LEMMA CloseAndOpenEffect ==
  ASSUME Paired, NEW D \in SUBSET open, NEW ago, NEW P \in SUBSET Pairs, NEW starter,
         \A p \in P : pairId[p] = NoDialog,
         CloseAndOpen(D, ago, P, starter),
         NEW d \in open'
  PROVE  \/ /\ d \in open \ D /\ d \in Ids /\ pairId[PairOf(d)] = d
            /\ initiator'[d] = initiator[d] /\ turns'[d] = turns[d] /\ quiet'[d] = quiet[d]
         \/ /\ PairOf(d) \in P /\ d \in Ids /\ d \notin open
            /\ turns'[d] = <<>> /\ quiet'[d] = 0
<1>1. \A p \in P : NewId(p) \in Ids /\ PairOf(NewId(p)) = p
  BY NewIdType DEF Paired, TablesOK
<1>2. \A p \in P : NewId(p) \notin open
  BY <1>1, IdsAreDialogs DEF Paired, OpenIffPaired
<1>3. CASE \E p \in P : d = NewId(p)
  BY <1>3, <1>1, <1>2 DEF CloseAndOpen
<1>4. CASE ~ \E p \in P : d = NewId(p)
  <2>1. d \in open \ D /\ d \in Ids
    BY <1>4 DEF CloseAndOpen, Paired, TablesOK
  <2>2. QED
    BY <1>4, <2>1 DEF CloseAndOpen, Paired, OpenIffPaired
<1>5. QED
  BY <1>3, <1>4

LEMMA UnchangedKeepsPaired ==
  Paired /\ UNCHANGED <<open, pairId, gen>> => Paired'
  BY DEF Paired, TablesOK, OpenIffPaired

(* tick() closes what expired and opens admissible pairs only. *)
LEMMA TickKeepsPaired ==
  ASSUME Paired, NEW zone, Tick(zone)
  PROVE  Paired' /\ open \ open' = Expired
<1>1. PICK P \in SUBSET Admissible(zone) :
        CloseAndOpen(Expired, CloseNow(Expired), P, [p \in P |-> Lowest(p)])
  BY DEF Tick
<1>2. P \in SUBSET Pairs /\ \A p \in P : pairId[p] = NoDialog
  BY DEF Admissible
<1>3. Expired \in SUBSET open
  BY DEF Expired
<1>4. QED
  BY <1>1, <1>2, <1>3, CloseAndOpenKeepsPaired

LEMMA CloseKeepsPaired ==
  ASSUME Paired, NEW d, NEW ago, Close(d, ago)
  PROVE  Paired' /\ open \ open' = {d}
<1>1. {d} \in SUBSET open /\ {} \in SUBSET Pairs
  BY DEF Close
<1>2. CloseAndOpen({d}, [e \in {d} |-> ago], {}, <<>>)
  BY DEF Close
<1>3. QED
  BY <1>1, <1>2, CloseAndOpenKeepsPaired

LEMMA InitPaired == DialogInit => Paired
<1> SUFFICES ASSUME DialogInit PROVE Paired
  OBVIOUS
<1>1. 0 \in 0..Generations - 1
  BY DialogAssumption DEF DialogAssumption
<1>2. QED
  BY <1>1 DEF DialogInit, Paired, TablesOK, OpenIffPaired

LEMMA StepPaired == Paired /\ [DialogNext]_dialogVars => Paired'
<1> SUFFICES ASSUME Paired, [DialogNext]_dialogVars PROVE Paired'
  OBVIOUS
<1>1. CASE Advance
  BY <1>1, UnchangedKeepsPaired DEF Advance
<1>2. CASE EnableNaturalPhase
  BY <1>2, UnchangedKeepsPaired DEF EnableNaturalPhase, table
<1>3. ASSUME NEW i \in Agents, NEW t \in Agents, NEW z \in Zones, ScheduleInitiate(i, t, z)
      PROVE  Paired'
  <2>1. {{i, t}} \in SUBSET Pairs /\ {} \in SUBSET open
    BY <1>3 DEF ScheduleInitiate, Pairs
  <2>2. \A p \in {{i, t}} : pairId[p] = NoDialog
    BY <1>3 DEF ScheduleInitiate
  <2>3. CloseAndOpen({}, <<>>, {{i, t}}, [q \in {{i, t}} |-> i])
    BY <1>3 DEF ScheduleInitiate
  <2>4. QED
    BY <2>1, <2>2, <2>3, CloseAndOpenKeepsPaired
<1>4. ASSUME NEW d \in open, NEW turn, RecordTurn(d, turn) PROVE Paired'
  BY <1>4, UnchangedKeepsPaired DEF RecordTurn, Recorded
<1>5. ASSUME NEW d \in open, NEW ago, Close(d, ago) PROVE Paired'
  BY <1>5, CloseKeepsPaired
<1>6. ASSUME NEW zone, Tick(zone) PROVE Paired'
  BY <1>6, TickKeepsPaired
<1>7. CASE UNCHANGED dialogVars
  BY <1>7, UnchangedKeepsPaired DEF dialogVars, table
<1>8. QED
  BY <1>1, <1>2, <1>3, <1>4, <1>5, <1>6, <1>7 DEF DialogNext

(* Under any sequence of calls, _open and _pair_to_id agree: no pair ever    *)
(* holds two open dialogs, none is blocked by a dialog that is gone.        *)
THEOREM OpenIffPairedHolds == DialogSpec => []OpenIffPaired
<1>1. Paired => OpenIffPaired
  BY DEF Paired
<1>2. QED
  BY <1>1, InitPaired, StepPaired, PTL DEF DialogSpec

-----------------------------------------------------------------------------
(* Types.  Who initiates a dialog is one of its pair. *)

InitiatorInPair == \A d \in Ids : initiator[d] \in PairOf(d)

Typed == TypeOK /\ InitiatorInPair /\ OpenIffPaired

LEMMA TypedIsPaired == Typed => Paired
  BY DEF Typed, Paired, TypeOK, TablesOK

LEMMA HorizonType == /\ Horizon \in Nat /\ Cooldown \in Nat \ {0}
                     /\ Cooldown =< Horizon /\ Timeout =< Horizon
                     /\ Timeout \in Nat \ {0}
  BY DialogAssumption DEF DialogAssumption, Horizon, Cooldown

LEMMA AgeType == \A n \in 0..Horizon : Age(n) \in 0..Horizon /\ n =< Age(n)
  BY HorizonType DEF Age

LEMMA PairsHaveTwo ==
  ASSUME NEW p \in Pairs
  PROVE  /\ p \subseteq Agents /\ Lowest(p) \in p
         /\ \A a \in p : Other(p, a) \in p /\ Other(p, a) # a
<1>1. PICK a \in Agents, b \in Agents : a # b /\ p = {a, b}
  BY DEF Pairs
<1>2. a \in Nat /\ b \in Nat
  BY DialogAssumption DEF DialogAssumption
<1>3. \E c \in p : \A e \in p : c =< e
  <2>1. CASE a =< b
    BY <1>1, <1>2, <2>1
  <2>2. CASE b =< a
    BY <1>1, <1>2, <2>2
  <2>3. QED
    BY <1>2, <2>1, <2>2
<1>4. Lowest(p) \in p
  BY <1>3 DEF Lowest
<1>5. \A c \in p : Other(p, c) \in p /\ Other(p, c) # c
  <2> TAKE c \in p
  <2>1. \E e \in p : e # c
    BY <1>1
  <2>2. QED
    BY <2>1 DEF Other
<1>6. QED
  BY <1>1, <1>4, <1>5

LEMMA CloseAndOpenKeepsTyped ==
  ASSUME Typed, NEW D \in SUBSET open, NEW ago \in [D -> 0..Horizon],
         NEW P \in SUBSET Pairs, NEW starter \in [P -> Agents],
         \A p \in P : pairId[p] = NoDialog /\ starter[p] \in p,
         CloseAndOpen(D, ago, P, starter), golden' \in BOOLEAN
  PROVE  Typed'
<1> DEFINE opened == {NewId(p) : p \in P}
<1>1. Paired' /\ \A p \in P : NewId(p) \in Ids /\ PairOf(NewId(p)) = p
  BY CloseAndOpenKeepsPaired, TypedIsPaired, NewIdType DEF Paired, TablesOK
<1>2. \A d \in Ids : initiator'[d] \in PairOf(d)
  <2> TAKE d \in Ids
  <2>1. CASE d \in opened
    BY <2>1, <1>1 DEF CloseAndOpen
  <2>2. CASE d \notin opened /\ d \in D
    BY <2>2, PairsHaveTwo, IdsAreDialogs DEF CloseAndOpen
  <2>3. CASE d \notin opened /\ d \notin D
    BY <2>3 DEF CloseAndOpen, Typed, InitiatorInPair
  <2>4. QED
    BY <2>1, <2>2, <2>3
<1>3. initiator' \in [Ids -> Agents]
  <2>1. \A d \in Ids : initiator'[d] \in Agents
    BY <1>2, IdsAreDialogs, PairsHaveTwo
  <2>2. initiator' = [d \in Ids |-> initiator'[d]]
    BY DEF CloseAndOpen
  <2>3. QED
    BY <2>1, <2>2
<1>4. turns' \in [Ids -> Seq(Turn)]
  <2>1. <<>> \in Seq(Turn) /\ turns \in [Ids -> Seq(Turn)]
    BY DEF Typed, TypeOK
  <2>2. turns' = [d \in Ids |-> IF d \in D \cup opened THEN <<>> ELSE turns[d]]
    BY DEF CloseAndOpen
  <2>3. QED
    BY <2>1, <2>2
<1>5. quiet' \in [Ids -> 0..Horizon]
  BY HorizonType DEF CloseAndOpen, Typed, TypeOK
<1>6. sinceClose' \in [Pairs -> 0..Horizon \cup {Never}]
  BY DEF CloseAndOpen, Typed, TypeOK
<1>7. QED
  BY <1>1, <1>2, <1>3, <1>4, <1>5, <1>6
     DEF Typed, TypeOK, Paired, TablesOK, InitiatorInPair

LEMMA TickKeepsTyped ==
  ASSUME Typed, NEW zone, Tick(zone), golden' \in BOOLEAN PROVE Typed'
<1>1. PICK P \in SUBSET Admissible(zone) :
        CloseAndOpen(Expired, CloseNow(Expired), P, [p \in P |-> Lowest(p)])
  BY DEF Tick
<1>2. P \in SUBSET Pairs /\ \A p \in P : pairId[p] = NoDialog
  BY DEF Admissible
<1>3. Expired \in SUBSET open /\ CloseNow(Expired) \in [Expired -> 0..Horizon]
  BY HorizonType DEF Expired, CloseNow
<1>4. [p \in P |-> Lowest(p)] \in [P -> Agents] /\ \A p \in P : Lowest(p) \in p
  BY <1>2, PairsHaveTwo
<1>5. \A p \in P : pairId[p] = NoDialog /\ [q \in P |-> Lowest(q)][p] \in p
  BY <1>2, <1>4
<1>6. QED
  BY <1>1, <1>2, <1>3, <1>4, <1>5, CloseAndOpenKeepsTyped

LEMMA CloseKeepsTyped ==
  ASSUME Typed, NEW d, NEW ago, Close(d, ago), golden' \in BOOLEAN PROVE Typed'
<1>1. d \in open /\ d \in Ids /\ ago \in 0..Horizon
  BY HorizonType DEF Close, Typed, TypeOK
<1> DEFINE D == {d}
           none == {}
           when == [e \in D |-> ago]
           nobody == <<>>
<1>2. D \in SUBSET open /\ when \in [D -> 0..Horizon]
  BY <1>1
<1>3. none \in SUBSET Pairs /\ nobody \in [none -> Agents]
  OBVIOUS
<1>4. CloseAndOpen(D, when, none, nobody)
  BY DEF Close
<1>5. \A p \in none : pairId[p] = NoDialog /\ nobody[p] \in p
  OBVIOUS
<1> HIDE DEF D, none, when, nobody
<1>6. QED
  BY <1>2, <1>3, <1>4, <1>5, CloseAndOpenKeepsTyped

LEMMA RecordedKeepsTyped ==
  ASSUME Typed, NEW said, \A d \in DOMAIN said : said[d] \in Turn,
         Recorded(said), golden' \in BOOLEAN
  PROVE  Typed'
<1>1. turns' \in [Ids -> Seq(Turn)]
  <2>1. turns \in [Ids -> Seq(Turn)]
    BY DEF Typed, TypeOK
  <2>2. \A d \in Ids : d \in DOMAIN said => Append(turns[d], said[d]) \in Seq(Turn)
    BY <2>1
  <2>3. turns' = [d \in Ids |-> IF d \in DOMAIN said /\ d \in open
                                THEN Append(turns[d], said[d]) ELSE turns[d]]
    BY DEF Recorded
  <2>4. QED
    BY <2>1, <2>2, <2>3
<1>2. quiet' \in [Ids -> 0..Horizon]
  BY HorizonType DEF Recorded, Typed, TypeOK
<1>3. QED
  BY <1>1, <1>2 DEF Recorded, Typed, TypeOK, InitiatorInPair, OpenIffPaired

LEMMA AgeAllKeepsTyped ==
  ASSUME Typed, AgeAll, UNCHANGED <<open, pairId, initiator, turns, gen>>, golden' \in BOOLEAN
  PROVE  Typed'
<1>1. quiet' \in [Ids -> 0..Horizon]
  BY AgeType DEF AgeAll, Typed, TypeOK
<1>2. sinceClose' \in [Pairs -> 0..Horizon \cup {Never}]
  BY AgeType DEF AgeAll, Typed, TypeOK
<1>3. QED
  BY <1>1, <1>2 DEF Typed, TypeOK, InitiatorInPair, OpenIffPaired

LEMMA InitTyped == DialogInit => Typed
<1> SUFFICES ASSUME DialogInit PROVE Typed
  OBVIOUS
<1>1. Paired
  BY InitPaired
<1>2. \A d \in Ids : Lowest(PairOf(d)) \in PairOf(d) /\ Lowest(PairOf(d)) \in Agents
  BY IdsAreDialogs, PairsHaveTwo
<1>3. 0 \in 0..Horizon /\ <<>> \in Seq(Turn)
  BY HorizonType
<1>4. GoldenStart \in BOOLEAN
  BY DialogAssumption DEF DialogAssumption
<1>5. QED
  BY <1>1, <1>2, <1>3, <1>4 DEF DialogInit, Typed, TypeOK, InitiatorInPair, Paired, TablesOK

LEMMA StepTyped == Typed /\ [DialogNext]_dialogVars => Typed'
<1> SUFFICES ASSUME Typed, [DialogNext]_dialogVars PROVE Typed'
  OBVIOUS
<1>0. golden' \in BOOLEAN
  BY DEF DialogNext, Advance, EnableNaturalPhase, Typed, TypeOK, dialogVars
<1>1. CASE Advance
  BY <1>0, <1>1, AgeAllKeepsTyped DEF Advance
<1>2. CASE UNCHANGED table
  BY <1>0, <1>2 DEF table, Typed, TypeOK, InitiatorInPair, OpenIffPaired
<1>3. ASSUME NEW i \in Agents, NEW t \in Agents, NEW z \in Zones, ScheduleInitiate(i, t, z)
      PROVE  Typed'
  <2> DEFINE P == {{i, t}}
             starter == [q \in P |-> i]
             none == {}
             when == <<>>
  <2>1. P \in SUBSET Pairs /\ starter \in [P -> Agents]
    BY <1>3 DEF ScheduleInitiate, Pairs
  <2>2. \A p \in P : pairId[p] = NoDialog /\ starter[p] \in p
    BY <1>3 DEF ScheduleInitiate
  <2>3. none \in SUBSET open /\ when \in [none -> 0..Horizon]
    OBVIOUS
  <2>4. CloseAndOpen(none, when, P, starter)
    BY <1>3 DEF ScheduleInitiate
  <2> HIDE DEF P, starter, none, when
  <2>5. QED
    BY <1>0, <2>1, <2>2, <2>3, <2>4, CloseAndOpenKeepsTyped
<1>4. ASSUME NEW d \in open, NEW s \in PairOf(d),
             RecordTurn(d, [speaker |-> s, index |-> Len(turns[d])])
      PROVE  Typed'
  <2>1. d \in Ids /\ turns[d] \in Seq(Turn)
    BY DEF Typed, TypeOK
  <2>2. s \in Agents
    BY <2>1, IdsAreDialogs, PairsHaveTwo
  <2>3. Len(turns[d]) \in Nat
    BY <2>1
  <2> DEFINE said == [e \in {d} |-> [speaker |-> s, index |-> Len(turns[d])]]
  <2>4. \A e \in DOMAIN said : said[e] \in Turn
    BY <2>2, <2>3 DEF Turn
  <2>5. Recorded(said)
    BY <1>4 DEF RecordTurn
  <2> HIDE DEF said
  <2>6. QED
    BY <1>0, <2>4, <2>5, RecordedKeepsTyped
<1>5. ASSUME NEW d \in open, NEW ago, Close(d, ago) PROVE Typed'
  BY <1>0, <1>5, CloseKeepsTyped
<1>6. ASSUME NEW zone, Tick(zone) PROVE Typed'
  BY <1>0, <1>6, TickKeepsTyped
<1>7. QED
  BY <1>1, <1>2, <1>3, <1>4, <1>5, <1>6 DEF DialogNext, EnableNaturalPhase, dialogVars

(* The scheduler's state is well formed under any sequence of calls. *)
THEOREM TypeCorrect == DialogSpec => []TypeOK
<1>1. Typed => TypeOK
  BY DEF Typed
<1>2. QED
  BY <1>1, InitTyped, StepTyped, PTL DEF DialogSpec

-----------------------------------------------------------------------------
(* The scheduler driven by the cognition tick: WorldSpec. *)

(* The turns a gather is generating are the ones their dialogs still wait   *)
(* for, unless the dialog closed meanwhile.                                *)
StagedFits ==
  /\ phase # "generating" => DOMAIN staged = {}
  /\ phase = "generating" => open \subseteq DOMAIN staged
  /\ \A d \in DOMAIN staged :
       d \in open => /\ staged[d].speaker = Speaker(d)
                     /\ staged[d].index = Len(turns[d])
                     /\ Len(turns[d]) < Budget[Speaker(d)]

(* The scheduler's close ticks are the true ones. *)
RestIsKnown == \A p \in Pairs : rest[p] = sinceClose[p]

(* A dialog is never silent for longer than it was denied turns. *)
SilenceCounted ==
  ~golden => \A d \in open :
    quiet[d] =< missed[d] + (IF phase = "stepping" THEN 0 ELSE 1)

OverdueSwept == ~golden => NoneOverdue

WorldInv ==
  /\ WorldTypeOK /\ InitiatorInPair /\ OpenIffPaired
  /\ StagedFits /\ RestIsKnown /\ RestHonoured
  /\ TranscriptAlternates /\ BudgetKept
  /\ SilenceCounted /\ OverdueSwept

LEMMA WorldInvTyped == WorldInv => Typed /\ Paired
  BY TypedIsPaired DEF WorldInv, WorldTypeOK, Typed

LEMMA SpeakerType ==
  ASSUME Typed, NEW d \in Ids
  PROVE  Speaker(d) \in Agents /\ turns[d] \in Seq(Turn) /\ Len(turns[d]) \in Nat
<1>1. PairOf(d) \in Pairs /\ initiator[d] \in PairOf(d)
  BY IdsAreDialogs DEF Typed, InitiatorInPair
<1>2. QED
  BY <1>1, PairsHaveTwo DEF Speaker, Typed, TypeOK

LEMMA WorldInitInv == WorldInit => WorldInv
<1> SUFFICES ASSUME WorldInit PROVE WorldInv
  OBVIOUS
<1>1. Typed
  BY InitTyped DEF WorldInit
<1>2. DOMAIN staged = {}
  BY DEF WorldInit
<1>3. WorldTypeOK
  BY <1>1, <1>2, HorizonType, WorldDialogAssumption
     DEF WorldInit, WorldTypeOK, Typed, Phases, WorldDialogAssumption
<1>4. open = {}
  BY DEF WorldInit, DialogInit
<1>5. RestIsKnown
  BY DEF WorldInit, DialogInit, RestIsKnown
<1>6. QED
  BY <1>1, <1>2, <1>3, <1>4, <1>5
     DEF WorldInv, Typed, StagedFits, RestHonoured, TranscriptAlternates, BudgetKept,
         SilenceCounted, OverdueSwept, NoneOverdue, WorldInit

-----------------------------------------------------------------------------
(* Agents step, the world tick moves or not. *)

LEMMA StepAgentsInv ==
  ASSUME WorldInv, NEW S \in SUBSET Agents, StepAgents(S) PROVE WorldInv'
<1>0. Typed /\ phase = "stepping" /\ golden' = golden
  BY WorldInvTyped DEF StepAgents
<1>1. Typed'
  <2>1. golden' \in BOOLEAN
    BY <1>0 DEF Typed, TypeOK
  <2>2. CASE Foremost(S)
    BY <1>0, <2>1, <2>2, AgeAllKeepsTyped DEF StepAgents
  <2>3. CASE ~Foremost(S)
    BY <1>0, <2>1, <2>3
       DEF StepAgents, Typed, TypeOK, InitiatorInPair, OpenIffPaired
  <2>4. QED
    BY <2>2, <2>3
<1>2. \A d \in Ids : /\ quiet[d] \in 0..Horizon
                     /\ d \in open => quiet'[d] =< quiet[d] + 1
  <2> TAKE d \in Ids
  <2>1. quiet[d] \in 0..Horizon
    BY <1>0 DEF Typed, TypeOK
  <2>2. d \in open => quiet'[d] \in {quiet[d], Age(quiet[d])}
    BY DEF StepAgents, AgeAll
  <2>3. Age(quiet[d]) =< quiet[d] + 1
    BY <2>1, HorizonType DEF Age
  <2>4. QED
    BY <2>1, <2>2, <2>3, HorizonType
<1>3. behind' \in [Agents -> 0..MaxBehind]
  <2>1. \A a \in Agents : BehindAfter(S)[a] \in 0..MaxBehind
    <3> TAKE a \in Agents
    <3>1. behind[a] \in Nat /\ MaxBehind \in Nat
      BY WorldDialogAssumption DEF WorldDialogAssumption, WorldInv, WorldTypeOK
    <3>2. BehindAfter(S)[a] = behind[a] - (IF a \in S THEN 1 ELSE 0)
                                        + (IF Foremost(S) THEN 1 ELSE 0)
      BY DEF BehindAfter
    <3>3. a \in S /\ behind[a] = 0 => Foremost(S)
      BY DEF Foremost
    <3>4. BehindAfter(S)[a] =< MaxBehind
      BY DEF StepAgents
    <3>5. BehindAfter(S)[a] \in Nat
      BY <3>1, <3>2, <3>3
    <3>6. QED
      BY <3>1, <3>4, <3>5
  <2>2. QED
    BY <2>1 DEF StepAgents, BehindAfter
<1>4. rest' \in [Pairs -> 0..Horizon \cup {Never}]
  BY AgeType DEF StepAgents, WorldInv, WorldTypeOK
<1>5. WorldTypeOK'
  BY <1>1, <1>3, <1>4 DEF StepAgents, WorldInv, WorldTypeOK, Typed, Phases
<1>6. RestIsKnown'
  BY DEF StepAgents, AgeAll, WorldInv, RestIsKnown
<1>7. RestHonoured'
  <2> SUFFICES ASSUME NEW d \in open, rest'[PairOf(d)] # Never
               PROVE  rest'[PairOf(d)] >= Cooldown
    BY DEF RestHonoured, StepAgents
  <2>1. PairOf(d) \in Pairs
    BY <1>0, IdsAreDialogs DEF Typed, TypeOK
  <2>2. rest[PairOf(d)] # Never
    BY <2>1 DEF StepAgents
  <2>3. rest[PairOf(d)] \in 0..Horizon /\ rest[PairOf(d)] >= Cooldown
    BY <2>1, <2>2 DEF WorldInv, WorldTypeOK, RestHonoured
  <2>4. rest'[PairOf(d)] \in {rest[PairOf(d)], Age(rest[PairOf(d)])}
    BY <2>1, <2>2 DEF StepAgents
  <2>5. QED
    BY <2>3, <2>4, AgeType, HorizonType
<1>8. TranscriptAlternates' /\ BudgetKept' /\ StagedFits'
  BY <1>0 DEF StepAgents, WorldInv, TranscriptAlternates, BudgetKept, StagedFits, Speaker
<1>9. SilenceCounted'
  <2> SUFFICES ASSUME ~golden, NEW d \in open PROVE quiet'[d] =< missed[d] + 1
    BY <1>0 DEF SilenceCounted, StepAgents
  <2>1. d \in Ids
    BY <1>0 DEF Typed, TypeOK
  <2>2. quiet[d] =< missed[d] + 0 /\ missed[d] \in Int
    BY <1>0, <2>1, HorizonType DEF WorldInv, SilenceCounted, WorldTypeOK
  <2>3. quiet'[d] \in Int /\ quiet[d] \in Int
    BY <1>1, <2>1, <1>2, HorizonType DEF Typed, TypeOK
  <2>4. QED
    BY <1>2, <2>1, <2>2, <2>3
<1>10. OverdueSwept'
  BY DEF StepAgents, OverdueSwept, NoneOverdue
<1>11. QED
  BY <1>1, <1>5, <1>6, <1>7, <1>8, <1>9, <1>10 DEF WorldInv, Typed

-----------------------------------------------------------------------------
(* Closing some dialogs at the current world tick and opening others for     *)
(* pairs that rested: what tick(), the exhaustion of budgets and a close    *)
(* from outside have in common.                                            *)

LEMMA CloseAndOpenInv ==
  ASSUME WorldInv, NEW D \in SUBSET open, NEW ago \in [D -> {0}],
         NEW P \in SUBSET Pairs, NEW starter \in [P -> Agents],
         \A p \in P : pairId[p] = NoDialog /\ ~CoolingDown(p) /\ starter[p] \in p,
         CloseAndOpen(D, ago, P, starter), CloseNoted, golden' = golden
  PROVE  /\ Typed'
         /\ rest' \in [Pairs -> 0..Horizon \cup {Never}]
         /\ missed' \in [Ids -> 0..Timeout]
         /\ RestIsKnown' /\ RestHonoured'
         /\ TranscriptAlternates' /\ BudgetKept'
         /\ \A d \in open' : \/ /\ d \in open \ D /\ d \in Ids
                                /\ turns'[d] = turns[d] /\ Speaker(d)' = Speaker(d)
                                /\ quiet'[d] = quiet[d] /\ missed'[d] = missed[d]
                             \/ /\ d \notin open /\ d \in Ids /\ PairOf(d) \in P
                                /\ quiet'[d] = 0 /\ missed'[d] \in 0..Timeout
<1>0. Typed /\ Paired
  BY WorldInvTyped
<1>1. open \ open' = D /\ Paired'
  BY <1>0, CloseAndOpenKeepsPaired
<1>2. ago \in [D -> 0..Horizon] /\ golden' \in BOOLEAN
  BY <1>0, HorizonType DEF Typed, TypeOK
<1>3. Typed'
  BY <1>0, <1>2, CloseAndOpenKeepsTyped
<1>4. rest' \in [Pairs -> 0..Horizon \cup {Never}]
  BY HorizonType DEF CloseNoted, WorldInv, WorldTypeOK
<1>5. missed' \in [Ids -> 0..Timeout]
  BY HorizonType DEF CloseNoted, WorldInv, WorldTypeOK
<1>6. \A d \in open' :
        \/ /\ d \in open \ D /\ d \in Ids /\ pairId[PairOf(d)] = d
           /\ initiator'[d] = initiator[d] /\ turns'[d] = turns[d] /\ quiet'[d] = quiet[d]
        \/ /\ PairOf(d) \in P /\ d \in Ids /\ d \notin open
           /\ turns'[d] = <<>> /\ quiet'[d] = 0
  BY <1>0, CloseAndOpenEffect
<1>7. \A p \in Pairs : rest'[p] = IF pairId[p] \in D THEN 0 ELSE rest[p]
  BY <1>1 DEF CloseNoted
<1>8. RestIsKnown'
  BY <1>7 DEF CloseAndOpen, WorldInv, RestIsKnown
<1>9. RestHonoured'
  <2> SUFFICES ASSUME NEW d \in open', rest'[PairOf(d)] # Never
               PROVE  rest'[PairOf(d)] >= Cooldown
    BY DEF RestHonoured
  <2>1. CASE /\ d \in open \ D /\ d \in Ids /\ pairId[PairOf(d)] = d
    <3>1. rest'[PairOf(d)] = rest[PairOf(d)]
      BY <1>7, <2>1, IdsAreDialogs
    <3>2. QED
      BY <2>1, <3>1 DEF WorldInv, RestHonoured
  <2>2. CASE PairOf(d) \in P
    <3>1. PairOf(d) \in Pairs /\ pairId[PairOf(d)] \notin D
      BY <2>2, IdsAreDialogs, <1>0 DEF Paired, TablesOK
    <3>2. rest'[PairOf(d)] = sinceClose[PairOf(d)]
      BY <1>7, <3>1 DEF WorldInv, RestIsKnown
    <3>3. sinceClose[PairOf(d)] \in 0..Horizon \cup {Never}
      BY <1>0, <3>1 DEF Typed, TypeOK
    <3>4. ~(sinceClose[PairOf(d)] < Cooldown)
      BY <2>2, <3>2 DEF CoolingDown
    <3>5. QED
      BY <3>2, <3>3, <3>4, HorizonType
  <2>3. QED
    BY <1>6, <2>1, <2>2
<1>10. TranscriptAlternates' /\ BudgetKept'
  <2>1. \A d \in open' : \/ d \in open /\ initiator'[d] = initiator[d] /\ turns'[d] = turns[d]
                         \/ turns'[d] = <<>>
    BY <1>6
  <2>2. TranscriptAlternates'
    BY <2>1 DEF WorldInv, TranscriptAlternates
  <2>3. BudgetKept'
    BY <2>1 DEF WorldInv, BudgetKept
  <2>4. QED
    BY <2>2, <2>3
<1>11. \A d \in open' : \/ /\ d \in open \ D /\ d \in Ids
                           /\ turns'[d] = turns[d] /\ Speaker(d)' = Speaker(d)
                           /\ quiet'[d] = quiet[d] /\ missed'[d] = missed[d]
                        \/ /\ d \notin open /\ d \in Ids /\ PairOf(d) \in P
                           /\ quiet'[d] = 0 /\ missed'[d] \in 0..Timeout
  BY <1>6, <1>5 DEF CloseNoted, Speaker
<1>12. QED
  BY <1>3, <1>4, <1>5, <1>8, <1>9, <1>10, <1>11

LEMMA DialogTickInv ==
  ASSUME WorldInv, NEW zone, DialogTick(zone) PROVE WorldInv'
<1>0. Typed /\ Paired /\ phase = "ticking" /\ phase' = "staging" /\ golden' = golden
  BY WorldInvTyped DEF DialogTick
<1>1. PICK P \in SUBSET Admissible(zone) :
        CloseAndOpen(Expired, CloseNow(Expired), P, [p \in P |-> Lowest(p)])
  BY DEF DialogTick, Tick
<1> DEFINE starter == [p \in P |-> Lowest(p)]
<1>2. P \in SUBSET Pairs /\ \A p \in P : pairId[p] = NoDialog /\ ~CoolingDown(p)
  BY DEF Admissible
<1>3. starter \in [P -> Agents] /\ \A p \in P : starter[p] \in p
  BY <1>2, PairsHaveTwo
<1>4. Expired \in SUBSET open /\ CloseNow(Expired) \in [Expired -> {0}]
  BY DEF Expired, CloseNow
<1>5. CloseNoted /\ CloseAndOpen(Expired, CloseNow(Expired), P, starter)
  BY <1>1 DEF DialogTick
<1> HIDE DEF starter
<1>6. /\ Typed'
      /\ rest' \in [Pairs -> 0..Horizon \cup {Never}]
      /\ missed' \in [Ids -> 0..Timeout]
      /\ RestIsKnown' /\ RestHonoured'
      /\ TranscriptAlternates' /\ BudgetKept'
      /\ \A d \in open' : \/ /\ d \in open \ Expired /\ d \in Ids
                             /\ turns'[d] = turns[d] /\ Speaker(d)' = Speaker(d)
                             /\ quiet'[d] = quiet[d] /\ missed'[d] = missed[d]
                          \/ /\ d \notin open /\ d \in Ids /\ PairOf(d) \in P
                             /\ quiet'[d] = 0 /\ missed'[d] \in 0..Timeout
  BY <1>0, <1>2, <1>3, <1>4, <1>5, CloseAndOpenInv
<1>7. WorldTypeOK'
  BY <1>6 DEF DialogTick, WorldInv, WorldTypeOK, Typed, Phases
<1>8. StagedFits'
  BY <1>0 DEF DialogTick, WorldInv, StagedFits
<1>9. SilenceCounted'
  <2> SUFFICES ASSUME ~golden, NEW d \in open' PROVE quiet'[d] =< missed'[d] + 1
    BY <1>0 DEF SilenceCounted
  <2>1. CASE d \in open /\ quiet'[d] = quiet[d] /\ missed'[d] = missed[d]
    BY <1>0, <2>1 DEF WorldInv, SilenceCounted
  <2>2. CASE quiet'[d] = 0 /\ missed'[d] \in 0..Timeout
    BY <2>2, HorizonType
  <2>3. QED
    BY <1>6, <2>1, <2>2
<1>10. OverdueSwept'
  <2> SUFFICES ASSUME ~golden, NEW d \in open' PROVE quiet'[d] < Timeout
    BY <1>0 DEF OverdueSwept, NoneOverdue
  <2>1. CASE d \in open \ Expired /\ d \in Ids /\ quiet'[d] = quiet[d]
    <3>1. quiet[d] \in 0..Horizon
      BY <1>0, <2>1 DEF Typed, TypeOK
    <3>2. QED
      BY <2>1, <3>1, HorizonType DEF Expired
  <2>2. CASE quiet'[d] = 0
    BY <2>2, HorizonType
  <2>3. QED
    BY <1>6, <2>1, <2>2
<1>11. QED
  BY <1>6, <1>7, <1>8, <1>9, <1>10 DEF WorldInv, Typed

LEMMA StageTurnsInv == ASSUME WorldInv, StageTurns PROVE WorldInv'
<1>0. Typed /\ phase = "staging" /\ golden' = golden /\ behind' = behind
  BY WorldInvTyped DEF StageTurns
<1> DEFINE none == {}
           nobody == <<>>
<1>1. none \in SUBSET Pairs /\ nobody \in [none -> Agents] /\ \A p \in none : FALSE
  OBVIOUS
<1>2. Exhausted \in SUBSET open /\ CloseNow(Exhausted) \in [Exhausted -> {0}]
  BY DEF Exhausted, CloseNow
<1>3. CloseNoted /\ CloseAndOpen(Exhausted, CloseNow(Exhausted), none, nobody)
  BY DEF StageTurns
<1> HIDE DEF none, nobody
<1>4. \A p \in none : pairId[p] = NoDialog /\ ~CoolingDown(p) /\ nobody[p] \in p
  BY <1>1
<1>5. /\ Typed'
      /\ rest' \in [Pairs -> 0..Horizon \cup {Never}]
      /\ missed' \in [Ids -> 0..Timeout]
      /\ RestIsKnown' /\ RestHonoured'
      /\ TranscriptAlternates' /\ BudgetKept'
      /\ \A d \in open' : \/ /\ d \in open \ Exhausted /\ d \in Ids
                             /\ turns'[d] = turns[d] /\ Speaker(d)' = Speaker(d)
                             /\ quiet'[d] = quiet[d] /\ missed'[d] = missed[d]
                          \/ /\ d \notin open /\ d \in Ids /\ PairOf(d) \in none
                             /\ quiet'[d] = 0 /\ missed'[d] \in 0..Timeout
  BY <1>0, <1>1, <1>2, <1>3, <1>4, CloseAndOpenInv
<1>6. \A d \in open' : /\ d \in open \ Exhausted /\ d \in Ids
                       /\ turns'[d] = turns[d] /\ Speaker(d)' = Speaker(d)
                       /\ quiet'[d] = quiet[d] /\ missed'[d] = missed[d]
  BY <1>1, <1>5
<1>7. /\ DOMAIN staged' = open \ Exhausted
      /\ \A d \in open \ Exhausted :
           staged'[d] = [speaker |-> Speaker(d), index |-> Len(turns[d])]
      /\ phase' \in {"stepping", "generating"}
      /\ phase' = "stepping" => open \subseteq Exhausted
      /\ open \subseteq Exhausted => phase' = "stepping"
  BY DEF StageTurns
<1>8. \A d \in open \ Exhausted : d \in Ids /\ staged'[d] \in Turn
  <2> TAKE d \in open \ Exhausted
  <2>1. d \in Ids
    BY <1>0 DEF Typed, TypeOK
  <2>2. QED
    BY <1>0, <1>7, <2>1, SpeakerType DEF Turn
<1>9. WorldTypeOK'
  BY <1>0, <1>5, <1>7, <1>8 DEF WorldInv, WorldTypeOK, Typed, Phases
<1>10. \A d \in open \ Exhausted : Len(turns[d]) < Budget[Speaker(d)]
  <2> TAKE d \in open \ Exhausted
  <2>1. d \in Ids
    BY <1>0 DEF Typed, TypeOK
  <2>2. Len(turns[d]) \in Nat /\ Speaker(d) \in Agents
    BY <1>0, <2>1, SpeakerType
  <2>3. Budget[Speaker(d)] \in Nat
    BY <2>2, WorldDialogAssumption DEF WorldDialogAssumption
  <2>4. QED
    BY <2>2, <2>3 DEF Exhausted
<1>11. StagedFits'
  <2>1. phase' # "generating" => DOMAIN staged' = {}
    BY <1>7
  <2>2. phase' = "generating" => open' \subseteq DOMAIN staged'
    BY <1>6, <1>7
  <2>3. \A d \in DOMAIN staged' :
          d \in open' => /\ staged'[d].speaker = Speaker(d)'
                         /\ staged'[d].index = Len(turns'[d])
                         /\ Len(turns'[d]) < Budget[Speaker(d)']
    BY <1>6, <1>7, <1>10
  <2>4. QED
    BY <2>1, <2>2, <2>3 DEF StagedFits
<1>12. SilenceCounted'
  <2> SUFFICES ASSUME ~golden, NEW d \in open'
               PROVE  quiet'[d] =< missed'[d] + (IF phase' = "stepping" THEN 0 ELSE 1)
    BY <1>0 DEF SilenceCounted
  <2>1. phase' # "stepping"
    BY <1>6, <1>7
  <2>2. QED
    BY <1>0, <1>6, <2>1 DEF WorldInv, SilenceCounted
<1>13. OverdueSwept'
  BY <1>0, <1>6 DEF WorldInv, OverdueSwept, NoneOverdue
<1>14. QED
  BY <1>5, <1>9, <1>11, <1>12, <1>13 DEF WorldInv, Typed

-----------------------------------------------------------------------------
(* The gather is over: a recorded turn is still the one its dialog waits    *)
(* for, and a dialog that got none was denied one more.                    *)

LEMMA NextParity == \A n \in Nat : (n + 1) % 2 = 1 <=> n % 2 = 0
  OBVIOUS

LEMMA FinishTurnsInv ==
  ASSUME WorldInv, NEW spoke, FinishTurns(spoke) PROVE WorldInv'
<1> DEFINE said == [d \in spoke |-> staged[d]]
<1>0. /\ Typed /\ phase = "generating" /\ phase' = "stepping" /\ golden' = golden
      /\ spoke \subseteq DOMAIN staged /\ staged' = <<>> /\ open' = open
      /\ pairId' = pairId /\ initiator' = initiator /\ sinceClose' = sinceClose
      /\ behind' = behind /\ rest' = rest
  BY WorldInvTyped DEF FinishTurns, Recorded
<1>1. \A d \in DOMAIN said : said[d] \in Turn
  BY <1>0 DEF WorldInv, WorldTypeOK
<1>2. Recorded(said) /\ DOMAIN said = spoke /\ \A d \in spoke : said[d] = staged[d]
  BY DEF FinishTurns
<1>3. golden' \in BOOLEAN
  BY <1>0 DEF Typed, TypeOK
<1> HIDE DEF said
<1>4. Typed'
  BY <1>0, <1>1, <1>2, <1>3, RecordedKeepsTyped
<1>5. missed' \in [Ids -> 0..Timeout]
  <2>1. \A d \in Ids : missed[d] \in 0..Timeout
    BY DEF WorldInv, WorldTypeOK
  <2>2. \A d \in Ids : (IF missed[d] < Timeout THEN missed[d] + 1 ELSE Timeout) \in 0..Timeout
    BY <2>1, HorizonType
  <2>3. 0 \in 0..Timeout
    BY HorizonType
  <2>4. QED
    BY <2>2, <2>3 DEF FinishTurns
<1>6. DOMAIN staged' = {}
  BY <1>0
<1>7. WorldTypeOK'
  BY <1>0, <1>4, <1>5, <1>6 DEF WorldInv, WorldTypeOK, Typed, Phases
<1>8. \A d \in open : /\ d \in Ids /\ turns[d] \in Seq(Turn) /\ Len(turns[d]) \in Nat
                      /\ \/ turns'[d] = turns[d]
                         \/ /\ turns'[d] = Append(turns[d], staged[d])
                            /\ staged[d] \in Turn
                            /\ staged[d].speaker = Speaker(d)
                            /\ staged[d].index = Len(turns[d])
                            /\ Len(turns[d]) < Budget[Speaker(d)]
  <2> TAKE d \in open
  <2>1. d \in Ids
    BY <1>0 DEF Typed, TypeOK
  <2>2. turns[d] \in Seq(Turn) /\ Len(turns[d]) \in Nat
    BY <1>0, <2>1, SpeakerType
  <2>3. turns'[d] = IF d \in spoke THEN Append(turns[d], said[d]) ELSE turns[d]
    BY <1>2, <2>1 DEF Recorded
  <2>4. CASE d \in spoke
    <3>1. d \in DOMAIN staged /\ said[d] = staged[d]
      BY <1>0, <1>2, <2>4
    <3>2. staged[d] \in Turn
      BY <3>1 DEF WorldInv, WorldTypeOK
    <3>3. QED
      BY <2>1, <2>2, <2>3, <2>4, <3>1, <3>2 DEF WorldInv, StagedFits
  <2>5. CASE d \notin spoke
    BY <2>1, <2>2, <2>3, <2>5
  <2>6. QED
    BY <2>4, <2>5
<1>9. TranscriptAlternates'
  <2> SUFFICES ASSUME NEW d \in open, NEW k \in 1..Len(turns'[d])
               PROVE  /\ turns'[d][k].index = k - 1
                      /\ turns'[d][k].speaker = IF k % 2 = 1 THEN initiator[d]
                                                ELSE Other(PairOf(d), initiator[d])
    BY <1>0 DEF TranscriptAlternates
  <2>1. CASE turns'[d] = turns[d]
    BY <2>1 DEF WorldInv, TranscriptAlternates
  <2>2. CASE /\ turns'[d] = Append(turns[d], staged[d])
             /\ staged[d].speaker = Speaker(d) /\ staged[d].index = Len(turns[d])
    <3> DEFINE n == Len(turns[d])
    <3>1. turns[d] \in Seq(Turn) /\ n \in Nat
      BY <1>8
    <3>2. Len(turns'[d]) = n + 1
      BY <2>2, <3>1
    <3>3. CASE k =< n
      <4>1. turns'[d][k] = turns[d][k] /\ k \in 1..n
        BY <2>2, <3>1, <3>3
      <4>2. QED
        BY <4>1 DEF WorldInv, TranscriptAlternates
    <3>4. CASE k = n + 1
      <4>1. turns'[d][k] = staged[d]
        BY <2>2, <3>1, <3>4
      <4>2. (n + 1) % 2 = 1 <=> n % 2 = 0
        BY <3>1, NextParity
      <4>3. staged[d].speaker = IF (n + 1) % 2 = 1 THEN initiator[d]
                                ELSE Other(PairOf(d), initiator[d])
        BY <2>2, <4>2 DEF Speaker
      <4>4. staged[d].index = (n + 1) - 1
        BY <2>2, <3>1
      <4>5. QED
        BY <3>4, <4>1, <4>3, <4>4
    <3>5. QED
      BY <3>1, <3>2, <3>3, <3>4
  <2>3. QED
    BY <1>8, <2>1, <2>2
<1>10. BudgetKept'
  <2> SUFFICES ASSUME NEW d \in open, NEW k \in 1..Len(turns'[d])
               PROVE  turns'[d][k].index < Budget[turns'[d][k].speaker]
    BY <1>0 DEF BudgetKept
  <2>1. CASE turns'[d] = turns[d]
    BY <2>1 DEF WorldInv, BudgetKept
  <2>2. CASE /\ turns'[d] = Append(turns[d], staged[d])
             /\ staged[d].speaker = Speaker(d) /\ staged[d].index = Len(turns[d])
             /\ Len(turns[d]) < Budget[Speaker(d)]
    <3>1. turns[d] \in Seq(Turn) /\ Len(turns[d]) \in Nat
      BY <1>8
    <3>2. CASE k =< Len(turns[d])
      <4>1. turns'[d][k] = turns[d][k] /\ k \in 1..Len(turns[d])
        BY <2>2, <3>1, <3>2
      <4>2. QED
        BY <4>1 DEF WorldInv, BudgetKept
    <3>3. CASE k = Len(turns[d]) + 1
      <4>1. turns'[d][k] = staged[d]
        BY <2>2, <3>1, <3>3
      <4>2. QED
        BY <2>2, <4>1
    <3>4. QED
      BY <2>2, <3>1, <3>2, <3>3
  <2>3. QED
    BY <1>8, <2>1, <2>2
<1>11. StagedFits'
  BY <1>0, <1>6 DEF StagedFits
<1>12. RestIsKnown' /\ RestHonoured'
  BY <1>0 DEF WorldInv, RestIsKnown, RestHonoured
<1>13. SilenceCounted'
  <2> SUFFICES ASSUME ~golden, NEW d \in open PROVE quiet'[d] =< missed'[d] + 0
    BY <1>0 DEF SilenceCounted
  <2>1. d \in Ids /\ d \in DOMAIN staged
    BY <1>0 DEF Typed, TypeOK, WorldInv, StagedFits
  <2>2. quiet[d] \in Nat /\ missed[d] \in 0..Timeout
    BY <1>0, <2>1, HorizonType DEF Typed, TypeOK, WorldInv, WorldTypeOK
  <2>3. quiet[d] =< missed[d] + 1 /\ quiet[d] < Timeout
    BY <1>0 DEF WorldInv, SilenceCounted, OverdueSwept, NoneOverdue
  <2>4. CASE d \in spoke
    <3>1. quiet'[d] = 0 /\ missed'[d] = 0
      BY <1>2, <2>1, <2>4 DEF Recorded, FinishTurns
    <3>2. QED
      BY <3>1
  <2>5. CASE d \notin spoke
    <3>1. quiet'[d] = quiet[d]
      BY <1>2, <2>1, <2>5 DEF Recorded
    <3>2. missed'[d] = IF missed[d] < Timeout THEN missed[d] + 1 ELSE Timeout
      BY <2>1, <2>5 DEF FinishTurns
    <3>3. QED
      BY <2>2, <2>3, <3>1, <3>2, HorizonType
  <2>6. QED
    BY <2>4, <2>5
<1>14. OverdueSwept'
  BY <1>0 DEF OverdueSwept, NoneOverdue
<1>15. QED
  BY <1>4, <1>7, <1>9, <1>10, <1>11, <1>12, <1>13, <1>14 DEF WorldInv, Typed

LEMMA CloseFromOutsideInv ==
  ASSUME WorldInv, NEW d \in open, CloseFromOutside(d) PROVE WorldInv'
<1> DEFINE D == {d}
           ago == [e \in D |-> 0]
           none == {}
           nobody == <<>>
<1>0. /\ Typed /\ phase \in {"stepping", "generating"} /\ golden' = golden
      /\ phase' = phase /\ staged' = staged /\ behind' = behind
  BY WorldInvTyped DEF CloseFromOutside, round
<1>1. none \in SUBSET Pairs /\ nobody \in [none -> Agents] /\ \A p \in none : FALSE
  OBVIOUS
<1>2. D \in SUBSET open /\ ago \in [D -> {0}]
  OBVIOUS
<1>3. CloseNoted /\ CloseAndOpen(D, ago, none, nobody)
  BY DEF CloseFromOutside, Close
<1> HIDE DEF D, ago, none, nobody
<1>4. \A p \in none : pairId[p] = NoDialog /\ ~CoolingDown(p) /\ nobody[p] \in p
  BY <1>1
<1>5. /\ Typed'
      /\ rest' \in [Pairs -> 0..Horizon \cup {Never}]
      /\ missed' \in [Ids -> 0..Timeout]
      /\ RestIsKnown' /\ RestHonoured'
      /\ TranscriptAlternates' /\ BudgetKept'
      /\ \A e \in open' : \/ /\ e \in open \ D /\ e \in Ids
                             /\ turns'[e] = turns[e] /\ Speaker(e)' = Speaker(e)
                             /\ quiet'[e] = quiet[e] /\ missed'[e] = missed[e]
                          \/ /\ e \notin open /\ e \in Ids /\ PairOf(e) \in none
                             /\ quiet'[e] = 0 /\ missed'[e] \in 0..Timeout
  BY <1>0, <1>1, <1>2, <1>3, <1>4, CloseAndOpenInv
<1>6. \A e \in open' : /\ e \in open \ D /\ e \in Ids
                       /\ turns'[e] = turns[e] /\ Speaker(e)' = Speaker(e)
                       /\ quiet'[e] = quiet[e] /\ missed'[e] = missed[e]
  BY <1>1, <1>5
<1>7. WorldTypeOK'
  BY <1>0, <1>5 DEF WorldInv, WorldTypeOK, Typed, Phases
<1>8. StagedFits'
  BY <1>0, <1>6 DEF WorldInv, StagedFits
<1>9. SilenceCounted'
  BY <1>0, <1>6 DEF WorldInv, SilenceCounted
<1>10. OverdueSwept'
  BY <1>0, <1>6 DEF WorldInv, OverdueSwept, NoneOverdue
<1>11. QED
  BY <1>5, <1>7, <1>8, <1>9, <1>10 DEF WorldInv, Typed

-----------------------------------------------------------------------------
(* The behaviour of the whole tick. *)

LEMMA WorldStepInv == WorldInv /\ [WorldNext]_worldVars => WorldInv'
<1> SUFFICES ASSUME WorldInv, [WorldNext]_worldVars PROVE WorldInv'
  OBVIOUS
<1>1. ASSUME NEW S \in SUBSET Agents, StepAgents(S) PROVE WorldInv'
  BY <1>1, StepAgentsInv
<1>2. ASSUME NEW zone \in [Agents -> Zones], DialogTick(zone) PROVE WorldInv'
  BY <1>2, DialogTickInv
<1>3. CASE StageTurns
  BY <1>3, StageTurnsInv
<1>4. ASSUME NEW spoke \in SUBSET DOMAIN staged, FinishTurns(spoke) PROVE WorldInv'
  BY <1>4, FinishTurnsInv
<1>5. ASSUME NEW d \in open, CloseFromOutside(d) PROVE WorldInv'
  BY <1>5, CloseFromOutsideInv
<1>6. CASE UNCHANGED worldVars
  BY <1>6 DEF worldVars, dialogVars, table, round, history, WorldInv, WorldTypeOK, TypeOK,
              InitiatorInPair, OpenIffPaired, StagedFits, RestIsKnown, RestHonoured,
              TranscriptAlternates, BudgetKept, SilenceCounted, OverdueSwept, NoneOverdue,
              Speaker
<1>7. QED
  BY <1>1, <1>2, <1>3, <1>4, <1>5, <1>6 DEF WorldNext, Step, Admit, Finish

LEMMA WorldInvHolds == WorldSpec => []WorldInv
  BY WorldInitInv, WorldStepInv, PTL DEF WorldSpec

(* The state of the cognition tick and of its scheduler is well formed.      *)
THEOREM WorldTypeCorrect == WorldSpec => []WorldTypeOK
<1>1. WorldInv => WorldTypeOK
  BY DEF WorldInv
<1>2. QED
  BY <1>1, WorldInvHolds, PTL

(* Driven by the tick and interrupted from outside, the scheduler's two      *)
(* tables still agree.                                                     *)
THEOREM WorldOpenIffPaired == WorldSpec => []OpenIffPaired
<1>1. WorldInv => OpenIffPaired
  BY DEF WorldInv
<1>2. QED
  BY <1>1, WorldInvHolds, PTL

(* Whatever closes while the LLM is awaited, the transcript of an open       *)
(* dialog counts its turns from 0 and alternates its speakers.             *)
THEOREM TranscriptAlternatesHolds == WorldSpec => []TranscriptAlternates
<1>1. WorldInv => TranscriptAlternates
  BY DEF WorldInv
<1>2. QED
  BY <1>1, WorldInvHolds, PTL

(* No agent, whatever its budget and its partner's, speaks beyond it. *)
THEOREM BudgetKeptHolds == WorldSpec => []BudgetKept
<1>1. WorldInv => BudgetKept
  BY DEF WorldInv
<1>2. QED
  BY <1>1, WorldInvHolds, PTL

(* A pair talks again only after a full cooldown since it really stopped,    *)
(* in live and in evaluation mode.                                         *)
THEOREM RestHonouredHolds == WorldSpec => []RestHonoured
<1>1. WorldInv => RestHonoured
  BY DEF WorldInv
<1>2. QED
  BY <1>1, WorldInvHolds, PTL

(* The cognition tick never changes the scheduler's mode. *)
GoldenAsBuilt == golden = GoldenStart

(* Outside golden-baseline mode no turn is staged for an overdue dialog. *)
THEOREM NoneOverdueHolds == WorldSpec => [](~GoldenStart => NoneOverdue)
<1>1. WorldInit => GoldenAsBuilt
  BY DEF WorldInit, DialogInit, GoldenAsBuilt
<1>2. GoldenAsBuilt /\ [WorldNext]_worldVars => GoldenAsBuilt'
  BY DEF WorldNext, Step, Admit, Finish, StepAgents, DialogTick, StageTurns, FinishTurns,
         CloseFromOutside, worldVars, dialogVars, GoldenAsBuilt
<1>3. WorldInv /\ GoldenAsBuilt => (~GoldenStart => NoneOverdue)
  BY DEF WorldInv, OverdueSwept, GoldenAsBuilt
<1>4. QED
  BY <1>1, <1>2, <1>3, WorldInvHolds, PTL DEF WorldSpec

(* The sweep times out only dialogs that were denied a turn in each of the   *)
(* last Timeout - 1 rounds, however the rounds and the world tick interleave. *)
THEOREM TimeoutMeansSilenceHolds == WorldSpec => TimeoutMeansSilence
<1>1. ASSUME WorldInv, [WorldNext]_worldVars
      PROVE  [phase = "ticking" => \A d \in open \ open' : missed[d] >= Timeout - 1]_worldVars
  <2> SUFFICES ASSUME WorldNext, phase = "ticking", NEW d \in open \ open'
               PROVE  missed[d] >= Timeout - 1
    BY <1>1
  <2>0. Typed /\ Paired
    BY <1>1, WorldInvTyped
  <2>1. PICK zone \in [Agents -> Zones] : DialogTick(zone)
    BY DEF WorldNext, Step, StepAgents, Admit, StageTurns, Finish, FinishTurns,
           CloseFromOutside
  <2>2. Tick(zone)
    BY <2>1 DEF DialogTick
  <2>3. open \ open' = Expired
    BY <2>0, <2>2, TickKeepsPaired
  <2>4. ~golden /\ quiet[d] >= Timeout /\ d \in open
    BY <2>3 DEF Expired
  <2>5. d \in Ids /\ quiet[d] \in Nat /\ missed[d] \in Nat
    BY <1>1, <2>0, <2>4, HorizonType DEF Typed, TypeOK, WorldInv, WorldTypeOK
  <2>6. quiet[d] =< missed[d] + 1
    BY <1>1, <2>4 DEF WorldInv, SilenceCounted
  <2>7. QED
    BY <2>4, <2>5, <2>6, HorizonType
<1>2. QED
  BY <1>1, WorldInvHolds, PTL DEF WorldSpec, TimeoutMeansSilence
=============================================================================

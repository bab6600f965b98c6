---------------------------- MODULE GameDayProofs ----------------------------
(***************************************************************************)
(* Proofs about a day of games.                                            *)
(*   - The live score poller: a final is stored before it is shown,        *)
(*     Pick'em hears of it, the budget bounds what is spent, no change is  *)
(*     kept from the readers, and finals stay final.                       *)
(*   - Pick'em: lines freeze early and once, verdicts stand, entry         *)
(*     instants and settled weeks stay.                                    *)
(*   - The Blitz: an entry keeps its limits and holds only players asked   *)
(*     for before their kickoff.                                           *)
(***************************************************************************)
EXTENDS MCGameDay, FiniteSetTheorems, SequenceTheorems, WellFoundedInduction, TLAPS

Boxes    == [box : 0..4, scored : BOOLEAN, at : Times, streak : 0..2]
Rows     == [row : 0..4, scored : BOOLEAN, at : Times, changedAt : Times]
Results  == [score : 2..4, boxFinal : BOOLEAN, at : Times]
TierName == {"idle", "baseline", "fast"}

FirstWeek(S) ==
  LET weeks == {GameWeek[g] : g \in S}
  IN  CHOOSE w \in weeks : \A v \in weeks : w <= v

Passes ==
  [pc : {"board", "due", "boxes", "slot"}, at : Times, matched : SUBSET Game, todo : SUBSET Game,
   tiers : {<<>>} \cup [Game -> TierName], changed : BOOLEAN, week : {FirstWeek(S) : S \in (SUBSET Game) \ {{}}}]

SentFetches == [pc : {"sent"}, box : 0..4, at : Times, tier : TierName]
HeardFetches ==
  [pc : {"put", "done", "save", "refused"}, box : 0..4, scored : BOOLEAN, at : Times, tier : TierName,
   pick : BOOLEAN]

-----------------------------------------------------------------------------
(* The inductive invariant *)

PollShape ==
  /\ PollerTypeOK
  /\ lastTrigger \in [Game -> {Missing} \cup Times] /\ circuitOpen \in Nat /\ budgetUsed \in Nat
  /\ posted \subseteq Game /\ reopened \subseteq Game /\ mishaps \in Nat
  /\ tick \in {NoPass} \cup Passes /\ (tick.pc \in {"boxes", "slot"} => tick.tiers \in [Game -> TierName])
  /\ fetch \in [Asker -> {NoFetch} \cup SentFetches \cup HeardFetches]

\* A final box that is about to be recorded is complete, and Pick'em has it if
\* it is scored; past the Store it is stored.
Stored(g) == frozen[g] # Missing \/ g \in posted \cup reopened
Heard(g)  == pickemFinals[g] # Missing /\ pickemFinals[g].boxFinal

FinalsOnTheWay ==
  \A f \in Asker :
    /\ fetch[f].pc = "save" => Complete(fetch[f].box)
    /\ fetch[f].pc = "put" /\ Final(fetch[f].box) => Complete(fetch[f].box) /\ Stored(f[2])
    /\ fetch[f].pc \in {"save", "put"} /\ Final(fetch[f].box) /\ fetch[f].scored => Heard(f[2])

\* The tick's fetches are the tick's, as many as there are slots.
FromWire == {f \in Busy : f[1] = "wire"}
Waiting == IF tick.pc = "slot" THEN 1 ELSE 0

SlotsAreBounded ==
  /\ FromTick # {} => tick.pc \in {"boxes", "slot"}
  /\ \A f \in FromTick : f[2] \notin tick.todo
  /\ Cardinality(FromTick) <= MaxInflight

\* What was spent and what is under way, past the last look at the budget.
Committed ==
  DailyBudget > 0 =>
    budgetUsed + Cardinality(FromTick) + Cardinality(FromWire) + Waiting
      <= DailyBudget + MaxInflight + Cardinality(Game)

\* A change that no reader was told of is the tick's or a fetch's to announce.
Bears(f) == fetch[f].pc \in {"put", "done", "save", "refused"} /\ fetch[f].pick

ChangeIsCarried ==
  /\ tick.pc = "board" => ~tick.changed
  /\ unseen => (tick.pc # "off" /\ tick.changed) \/ \E f \in Asker : Bears(f)

PollInv ==
  /\ PollShape /\ FinalIsStoredFirst /\ PickemHearsOfFinals /\ FinalsOnTheWay
  /\ SlotsAreBounded /\ Committed /\ ChangeIsCarried

-----------------------------------------------------------------------------
(* Numbers, records and fetches under way *)

LEMMA ConstantsAreNumbers ==
  /\ WindowAfter \in Nat /\ RehydrateAfter \in Nat /\ Baseline \in Nat /\ Settling \in Nat /\ DailyBudget \in Nat
  /\ MaxInflight \in Nat /\ Cooldown \in Nat /\ OpenFor \in Nat /\ LastTime \in Nat /\ MaxMishaps \in Nat
BY PollerNumbers

\* No record of a box or of a result is the missing one.
LEMMA RecordsExist ==
  /\ \A b \in Boxes : b # Missing
  /\ \A r \in Results : r # Missing
  /\ \A n \in Nat : n # Missing
<1>1. Times \subseteq Nat
  BY ConstantsAreNumbers DEF Times
<1>2. Boxes \subseteq [box : 0..4, scored : BOOLEAN, at : Nat, streak : 0..2] /\ Results \subseteq [score : 2..4, boxFinal : BOOLEAN, at : Nat]
  BY <1>1 DEF Boxes, Results
<1> QED
  BY <1>2, PollerNumbers

LEMMA ShapeParts ==
  ASSUME PollShape
  PROVE  /\ clock \in Times /\ stage \in [Game -> 0..4] /\ flagged \subseteq Game
         /\ games \in [Game -> {Missing} \cup Boxes] /\ rows \in [Game -> {Missing} \cup Rows]
         /\ pickemFinals \in [Game -> {Missing} \cup Results]
         /\ finalDone = {g \in Game : games[g] # Missing /\ Final(games[g].box)}
         /\ tracked \subseteq Game /\ unseen \in BOOLEAN /\ frozen \in [Game -> {Missing} \cup 3..4]
         /\ lastTrigger \in [Game -> {Missing} \cup Times] /\ circuitOpen \in Nat /\ budgetUsed \in Nat
         /\ posted \subseteq Game /\ reopened \subseteq Game /\ mishaps \in Nat
         /\ tick \in {NoPass} \cup Passes /\ (tick.pc \in {"boxes", "slot"} => tick.tiers \in [Game -> TierName])
         /\ fetch \in [Asker -> {NoFetch} \cup SentFetches \cup HeardFetches]
BY DEF PollShape, PollerTypeOK, Boxes, Rows, Results

LEMMA ShapeMade ==
  ASSUME clock' \in Times, stage' \in [Game -> 0..4], flagged' \subseteq Game,
         games' \in [Game -> {Missing} \cup Boxes], rows' \in [Game -> {Missing} \cup Rows],
         pickemFinals' \in [Game -> {Missing} \cup Results],
         finalDone' = {g \in Game : games'[g] # Missing /\ Final(games'[g].box)},
         tracked' \subseteq Game, unseen' \in BOOLEAN, frozen' \in [Game -> {Missing} \cup 3..4],
         lastTrigger' \in [Game -> {Missing} \cup Times], circuitOpen' \in Nat, budgetUsed' \in Nat,
         posted' \subseteq Game, reopened' \subseteq Game, mishaps' \in Nat,
         tick' \in {NoPass} \cup Passes, tick'.pc \in {"boxes", "slot"} => tick'.tiers \in [Game -> TierName],
         fetch' \in [Asker -> {NoFetch} \cup SentFetches \cup HeardFetches]
  PROVE  PollShape'
BY DEF PollShape, PollerTypeOK, Boxes, Rows, Results

\* A pass underway is a record of a pass; a fetch is known by what it is at.
LEMMA PassParts ==
  ASSUME PollShape
  PROVE  /\ tick.pc \in {"off", "board", "due", "boxes", "slot"}
         /\ tick.pc = "off" => tick = NoPass
         /\ tick.pc # "off" => tick \in Passes
BY DEF PollShape, NoPass, Passes

LEMMA FetchParts ==
  ASSUME PollShape, NEW f \in Asker
  PROVE  /\ f[2] \in Game /\ f[1] \in {"tick", "wire"}
         /\ fetch[f].pc \in {"off", "sent", "put", "done", "save", "refused"}
         /\ fetch[f].pc = "off" => fetch[f] = NoFetch
         /\ fetch[f].pc = "sent" => fetch[f] \in SentFetches
         /\ fetch[f].pc \in {"put", "done", "save", "refused"} => fetch[f] \in HeardFetches
BY DEF PollShape, NoFetch, SentFetches, HeardFetches, Asker

LEMMA FetchesAreFinite ==
  /\ IsFiniteSet(Busy) /\ IsFiniteSet(FromTick) /\ IsFiniteSet(FromWire)
  /\ Cardinality(FromTick) \in Nat /\ Cardinality(FromWire) \in Nat
  /\ Cardinality(FromWire) <= Cardinality(Game) /\ Cardinality(Game) \in Nat
<1>1. IsFiniteSet(Game) /\ Cardinality(Game) \in Nat
  BY PollerNumbers, FS_CardinalityType
<1>2. IsFiniteSet({"tick", "wire"}) /\ IsFiniteSet({"wire"}) /\ Cardinality({"wire"}) = 1
  <2>1. IsFiniteSet({"wire"}) /\ Cardinality({"wire"}) = 1
    BY FS_Singleton
  <2>2. {"wire"} \cup {"tick"} = {"tick", "wire"}
    OBVIOUS
  <2>3. IsFiniteSet({"wire"} \cup {"tick"})
    BY <2>1, FS_AddElement
  <2> QED
    BY <2>1, <2>2, <2>3
<1>3. IsFiniteSet(Asker) /\ IsFiniteSet({"wire"} \X Game) /\ Cardinality({"wire"} \X Game) = 1 * Cardinality(Game)
  BY <1>1, <1>2, FS_Product DEF Asker
<1>4. Busy \subseteq Asker /\ FromTick \subseteq Asker /\ FromWire \subseteq {"wire"} \X Game
  BY DEF Busy, FromTick, FromWire, Asker
<1>5. 1 * Cardinality(Game) = Cardinality(Game)
  BY <1>1
<1> QED
  BY <1>1, <1>3, <1>4, <1>5, FS_Subset, FS_CardinalityType

\* How a change of one fetch moves the counts.
LEMMA FetchEnds ==
  ASSUME PollShape, NEW f \in Busy, Over(f)
  PROVE  /\ f[1] = "tick" => FromTick' = FromTick \ {f} /\ FromWire' = FromWire
                             /\ Cardinality(FromTick') = Cardinality(FromTick) - 1
         /\ f[1] # "tick" => FromWire' = FromWire \ {f} /\ FromTick' = FromTick
                             /\ Cardinality(FromWire') = Cardinality(FromWire) - 1
<1>1. Busy' = Busy \ {f}
  BY DEF Over, Busy, NoFetch, PollShape
<1>2. f[1] \in {"tick", "wire"}
  BY FetchParts DEF Busy
<1>3. FromTick' = FromTick \ {f} /\ FromWire' = FromWire \ {f}
  BY <1>1 DEF FromTick, FromWire
<1>4. (f[1] = "tick" => f \in FromTick /\ f \notin FromWire) /\ (f[1] # "tick" => f \in FromWire /\ f \notin FromTick)
  BY <1>2 DEF FromTick, FromWire
<1>5. CASE f[1] = "tick"
  <2>1. Cardinality(FromTick \ {f}) = Cardinality(FromTick) - 1
    BY <1>4, <1>5, FetchesAreFinite, FS_RemoveElement
  <2> QED
    BY <1>3, <1>4, <1>5, <2>1
<1>6. CASE f[1] # "tick"
  <2>1. Cardinality(FromWire \ {f}) = Cardinality(FromWire) - 1
    BY <1>4, <1>6, FetchesAreFinite, FS_RemoveElement
  <2> QED
    BY <1>3, <1>4, <1>6, <2>1
<1> QED
  BY <1>5, <1>6

LEMMA FetchStarts ==
  ASSUME PollShape, NEW f \in Asker, f \notin Busy, NEW x, x.pc # "off", fetch' = [fetch EXCEPT ![f] = x]
  PROVE  /\ f[1] = "tick" => FromWire' = FromWire /\ Cardinality(FromTick') = Cardinality(FromTick) + 1
         /\ f[1] # "tick" => FromTick' = FromTick /\ Cardinality(FromWire') = Cardinality(FromWire) + 1
<1>1. Busy' = Busy \cup {f}
  BY DEF Busy, PollShape
<1>2. f[1] \in {"tick", "wire"}
  BY FetchParts
<1>3. f \notin FromTick /\ f \notin FromWire
  BY DEF FromTick, FromWire
<1>4. /\ f[1] = "tick" => FromTick' = FromTick \cup {f} /\ FromWire' = FromWire
      /\ f[1] # "tick" => FromWire' = FromWire \cup {f} /\ FromTick' = FromTick
  BY <1>1, <1>2 DEF FromTick, FromWire
<1> QED
  BY <1>3, <1>4, FetchesAreFinite, FS_AddElement

LEMMA FetchGoesOn ==
  ASSUME PollShape, NEW f \in Busy, NEW x, x.pc # "off", fetch' = [fetch EXCEPT ![f] = x]
  PROVE  FromTick' = FromTick /\ FromWire' = FromWire
BY DEF Busy, FromTick, FromWire, PollShape

-----------------------------------------------------------------------------
(* Steps that bring no final and no change of what is shown *)

\* A step that keeps what is recorded, what was heard and what is stored keeps
\* what is said of finals.
LEMMA FinalsFrame ==
  ASSUME PollInv, UNCHANGED <<games, finalDone, pickemFinals, frozen>>,
         posted \subseteq posted', reopened \subseteq reopened',
         \A f \in Asker : fetch'[f].pc \in {"save", "put"} => fetch'[f] = fetch[f]
  PROVE  FinalIsStoredFirst' /\ PickemHearsOfFinals' /\ FinalsOnTheWay'
<1>1. FinalIsStoredFirst' /\ PickemHearsOfFinals'
  BY DEF PollInv, FinalIsStoredFirst, PickemHearsOfFinals
<1>2. \A g : (Stored(g) => Stored(g)') /\ (Heard(g)' <=> Heard(g))
  BY DEF Stored, Heard
<1>3. FinalsOnTheWay'
  BY <1>2 DEF PollInv, FinalsOnTheWay
<1> QED
  BY <1>1, <1>3

\* A step of the tick's own: its pass, its slot, its look at the budget.
LEMMA TickFrame ==
  ASSUME PollInv, PollShape', UNCHANGED <<games, finalDone, pickemFinals, frozen, fetch, unseen, budgetUsed>>,
         posted \subseteq posted', reopened \subseteq reopened',
         tick'.pc = "board" => ~tick'.changed,
         FromTick # {} => tick'.pc \in {"boxes", "slot"} /\ tick'.todo \subseteq tick.todo,
         tick.pc # "off" /\ tick.changed => tick'.pc # "off" /\ tick'.changed,
         tick'.pc = "slot" => tick.pc = "slot" \/ BudgetRemaining
  PROVE  PollInv'
<1>1. FinalIsStoredFirst' /\ PickemHearsOfFinals' /\ FinalsOnTheWay'
  BY FinalsFrame
<1>2. FromTick' = FromTick /\ FromWire' = FromWire
  BY DEF FromTick, FromWire, Busy
<1>3. SlotsAreBounded'
  BY <1>2 DEF PollInv, SlotsAreBounded
<1>4. Committed'
  <2>1. Waiting \in {0, 1} /\ Waiting' \in {0, 1} /\ budgetUsed \in Nat
    BY ShapeParts DEF PollInv, Waiting
  <2>2. CASE Waiting' = 0 \/ Waiting = 1
    BY <1>2, <2>1, <2>2, FetchesAreFinite, ConstantsAreNumbers DEF PollInv, Committed
  <2>3. CASE Waiting' = 1 /\ Waiting = 0
    <3>1. BudgetRemaining
      BY <2>3 DEF Waiting
    <3> QED
      BY <1>2, <2>1, <2>3, <3>1, FetchesAreFinite, ConstantsAreNumbers
         DEF PollInv, Committed, SlotsAreBounded, BudgetRemaining
  <2> QED
    BY <2>1, <2>2, <2>3
<1>5. ChangeIsCarried'
  BY DEF PollInv, ChangeIsCarried, Bears
<1> QED
  BY <1>1, <1>3, <1>4, <1>5 DEF PollInv

LEMMA WorldStep ==
  ASSUME PollInv, NEW g \in Game, GameGoesOn(g) \/ ScheduleSaysFinal(g) \/ ClosesWeek(g)
  PROVE  PollInv'
<1>1. PollShape
  BY DEF PollInv
<1>2. UNCHANGED <<memory, tick, fetch, frozen, reopened, mishaps, clock>> /\ posted \subseteq posted' /\ posted' \subseteq Game
  BY <1>1, ShapeParts DEF GameGoesOn, ScheduleSaysFinal, ClosesWeek, storeVars
<1>3. stage' \in [Game -> 0..4] /\ flagged' \subseteq Game
  <2>1. CASE GameGoesOn(g)
    <3>1. PICK later \in stage[g] + 1 .. 4 : stage' = [stage EXCEPT ![g] = later]
      BY <2>1 DEF GameGoesOn
    <3>2. stage[g] \in 0..4
      BY <1>1, ShapeParts
    <3> QED
      BY <1>1, <2>1, <3>1, <3>2, ShapeParts DEF GameGoesOn
  <2> QED
    BY <1>1, <2>1, ShapeParts DEF ScheduleSaysFinal, ClosesWeek
<1>4. PollShape'
  BY <1>1, <1>2, <1>3, ShapeParts, ShapeMade DEF memory
<1> QED
  BY <1>2, <1>4, TickFrame DEF PollInv, memory, SlotsAreBounded, ChangeIsCarried

LEMMA TimeStep ==
  ASSUME PollInv, TimePasses
  PROVE  PollInv'
<1>1. PollShape
  BY DEF PollInv
<1>2. clock' \in Times
  BY <1>1, ShapeParts, ConstantsAreNumbers DEF TimePasses, Times
<1>3. UNCHANGED <<stage, flagged, memory, tick, fetch, frozen, posted, reopened, mishaps>>
  BY DEF TimePasses, storeVars
<1>4. PollShape'
  BY <1>1, <1>2, <1>3, ShapeParts, ShapeMade DEF memory
<1> QED
  BY <1>3, <1>4, TickFrame DEF PollInv, memory, SlotsAreBounded, ChangeIsCarried

\* A pass begins at the scoreboard, with nothing changed.
LEMMA PassType ==
  ASSUME PollShape, NEW S \in SUBSET Targets(clock), Targets(clock) # {}
  PROVE  Pass(S) \in Passes /\ Pass(S).pc = "board" /\ ~Pass(S).changed
<1>1. Targets(clock) \in (SUBSET Game) \ {{}}
  BY DEF Targets
<1>2. clock \in Times
  BY ShapeParts
<1>3. Pass(S).week = FirstWeek(Targets(clock))
  BY DEF Pass, FirstWeek
<1>4. Pass(S).week \in {FirstWeek(R) : R \in (SUBSET Game) \ {{}}}
  BY <1>1, <1>3
<1> QED
  BY <1>1, <1>2, <1>4 DEF Pass, Passes

LEMMA BeginStep ==
  ASSUME PollInv, BeginTick
  PROVE  PollInv'
<1>1. PollShape /\ tick.pc = "off" /\ tick \in {NoPass} \cup Passes
  BY ShapeParts DEF PollInv, BeginTick
<1>2. /\ UNCHANGED <<clock, stage, flagged, games, finalDone, rows, pickemFinals, lastTrigger, budgetUsed,
                     unseen, fetch, frozen, posted, reopened>>
      /\ tracked' \subseteq Game
  BY DEF BeginTick, storeVars, Targets
<1>3. /\ circuitOpen' \in Nat /\ mishaps' \in Nat
      /\ tick' = tick \/ (tick' \in Passes /\ tick'.pc = "board" /\ ~tick'.changed)
  <2>1. circuitOpen \in Nat /\ mishaps \in Nat /\ clock + OpenFor \in Nat
    BY <1>1, ShapeParts, ConstantsAreNumbers DEF Times
  <2>2. CASE Targets(clock) = {}
    BY <2>1, <2>2 DEF BeginTick
  <2>3. CASE Targets(clock) # {}
    <3>1. PICK S \in SUBSET Targets(clock) : /\ tick' = Pass(S)
                                             /\ circuitOpen' \in {circuitOpen, clock + OpenFor}
                                             /\ mishaps' \in {mishaps, mishaps + 1}
      BY <2>3 DEF BeginTick, Failed, Mishap, Smooth
    <3> QED
      BY <1>1, <2>1, <2>3, <3>1, PassType
  <2> QED
    BY <2>2, <2>3
<1>4. PollShape'
  BY <1>1, <1>2, <1>3, ShapeParts, ShapeMade
<1>5. FromTick = {}
  BY <1>1 DEF PollInv, SlotsAreBounded
<1> QED
  BY <1>1, <1>2, <1>3, <1>4, <1>5, TickFrame

\* The tier a game is in, as the pass keeps it.
LEMMA TierType ==
  /\ \A g : Tier(g) \in TierName
  /\ [g \in Game |-> Tier(g)] \in [Game -> TierName]
BY DEF Tier, TierName

LEMMA ChooseStep ==
  ASSUME PollInv, ChooseBoxes
  PROVE  PollInv'
<1> DEFINE due == {g \in tick.matched : BoxFetchDue(g, tick.at)}
           tiers == [g \in Game |-> Tier(g)]
<1>1. PollShape /\ tick \in Passes /\ tick.pc = "due"
  BY PassParts DEF PollInv, ChooseBoxes
<1>2. due \subseteq Game /\ tiers \in [Game -> TierName]
  BY <1>1, TierType DEF Passes
<1> HIDE DEF due, tiers
<1>3. tick' = [tick EXCEPT !.pc = "boxes", !.todo = due, !.tiers = tiers]
  BY DEF ChooseBoxes, due, tiers
<1>4. tick' \in Passes /\ tick'.pc = "boxes" /\ tick'.changed = tick.changed /\ tick'.tiers \in [Game -> TierName]
  BY <1>1, <1>2, <1>3 DEF Passes
<1>5. UNCHANGED <<clock, stage, flagged, memory, fetch, frozen, posted, reopened, mishaps>>
  BY DEF ChooseBoxes, storeVars
<1>6. PollShape'
  BY <1>1, <1>4, <1>5, ShapeParts, ShapeMade DEF memory
<1>7. FromTick = {}
  BY <1>1 DEF PollInv, SlotsAreBounded
<1> QED
  BY <1>1, <1>4, <1>5, <1>6, <1>7, TickFrame DEF memory

LEMMA CheckStep ==
  ASSUME PollInv, CheckBudget
  PROVE  PollInv'
<1>1. PollShape /\ tick \in Passes /\ tick.pc = "boxes"
  BY PassParts DEF PollInv, CheckBudget
<1>2. /\ tick' \in Passes /\ tick'.changed = tick.changed /\ tick'.tiers = tick.tiers
      /\ tick'.todo \subseteq tick.todo /\ ((tick'.pc = "slot" /\ BudgetRemaining) \/ tick'.pc = "boxes")
  <2>1. CASE BudgetRemaining
    BY <1>1, <2>1 DEF CheckBudget, Passes
  <2>2. CASE ~BudgetRemaining
    BY <1>1, <2>2 DEF CheckBudget, Passes
  <2> QED
    BY <2>1, <2>2
<1>3. UNCHANGED <<clock, stage, flagged, memory, fetch, frozen, posted, reopened, mishaps>>
  BY DEF CheckBudget, storeVars
<1>4. PollShape'
  BY <1>1, <1>2, <1>3, ShapeParts, ShapeMade DEF memory
<1> QED
  BY <1>1, <1>2, <1>3, <1>4, TickFrame DEF memory

-----------------------------------------------------------------------------
(* The scoreboard and the end of a tick *)

\* A box's result is not the scoreboard's to replace.
LEMMA BoxResultsStand ==
  ASSUME NEW g, Heard(g), NEW box, NEW t
  PROVE  ~Remembers(g, box, FALSE, t)
BY DEF Heard, Remembers

LEMMA RefreshStep ==
  ASSUME PollInv, RefreshScoreboard
  PROVE  PollInv'
<1>1. PollShape /\ tick \in Passes /\ tick.pc = "board" /\ ~tick.changed
  BY PassParts DEF PollInv, RefreshScoreboard, ChangeIsCarried
<1>2. /\ UNCHANGED <<clock, stage, flagged, games, finalDone, tracked, lastTrigger, budgetUsed, fetch, frozen, posted, reopened>>
      /\ circuitOpen' \in Nat /\ mishaps' \in Nat
  BY <1>1, ShapeParts, ConstantsAreNumbers, SMTT(90) DEF RefreshScoreboard, storeVars, Smooth, Mishap, Failed, Passes, Times
<1>3. PICK covered, scored \in {tick.matched, {}} :
        LET settles == {g \in scored : Final(stage[g]) /\ Remembers(g, stage[g], FALSE, tick.at)}
            differs == {g \in covered : rows[g] = Missing \/ rows[g].row # stage[g]
                                          \/ rows[g].scored # (g \in scored)}
        IN  /\ pickemFinals' = [g \in Game |-> IF g \in settles THEN Settled(stage[g], FALSE, tick.at)
                                                ELSE pickemFinals[g]]
            /\ rows' = [g \in Game |->
                 IF g \notin covered THEN rows[g]
                 ELSE [row |-> stage[g], scored |-> g \in scored, at |-> tick.at,
                       changedAt |-> IF g \in differs THEN tick.at ELSE rows[g].changedAt]]
            /\ tick' = [tick EXCEPT !.pc = "due", !.changed = settles \cup differs # {}]
            /\ unseen' = (unseen \/ settles \cup differs # {})
  BY DEF RefreshScoreboard
<1> DEFINE settles == {g \in scored : Final(stage[g]) /\ Remembers(g, stage[g], FALSE, tick.at)}
           differs == {g \in covered : rows[g] = Missing \/ rows[g].row # stage[g]
                                         \/ rows[g].scored # (g \in scored)}
<1>4. tick.at \in Times /\ stage \in [Game -> 0..4]
  BY <1>1, ShapeParts DEF Passes
<1>5. tick' \in Passes /\ tick'.pc = "due" /\ tick'.changed = (settles \cup differs # {})
  <2>1. (settles \cup differs # {}) \in BOOLEAN /\ tick' = [tick EXCEPT !.pc = "due", !.changed = settles \cup differs # {}]
    BY <1>3
  <2> HIDE DEF settles, differs
  <2> QED
    BY <1>1, <2>1 DEF Passes
<1>6. rows' \in [Game -> {Missing} \cup Rows]
  <2> SUFFICES ASSUME NEW g \in Game
               PROVE  rows'[g] \in {Missing} \cup Rows
    BY <1>3
  <2>1. rows[g] \in {Missing} \cup Rows
    BY <1>1, ShapeParts
  <2>2. CASE g \notin covered
    BY <1>3, <2>1, <2>2
  <2>3. CASE g \in covered
    <3>1. rows'[g] = [row |-> stage[g], scored |-> g \in scored, at |-> tick.at,
                      changedAt |-> IF g \in differs THEN tick.at ELSE rows[g].changedAt]
      BY <1>3, <2>3
    <3>2. g \notin differs => rows[g].changedAt \in Times
      BY <2>1, <2>3 DEF Rows
    <3> HIDE DEF differs
    <3> QED
      BY <1>4, <3>1, <3>2 DEF Rows
  <2> QED
    BY <2>2, <2>3
<1>7. /\ pickemFinals' \in [Game -> {Missing} \cup Results]
      /\ \A g \in Game : Heard(g) => pickemFinals'[g] = pickemFinals[g]
  <2>1. \A g \in Game : Heard(g) => g \notin settles
    BY BoxResultsStand
  <2>2. \A g \in settles \cap Game : Settled(stage[g], FALSE, tick.at) \in Results
    <3> SUFFICES ASSUME NEW g \in settles \cap Game
                 PROVE  Settled(stage[g], FALSE, tick.at) \in Results
      OBVIOUS
    <3>1. stage[g] \in 2..4
      BY <1>4 DEF Final
    <3> QED
      BY <1>4, <3>1 DEF Settled, Results
  <2>3. pickemFinals' = [g \in Game |-> IF g \in settles THEN Settled(stage[g], FALSE, tick.at) ELSE pickemFinals[g]]
    BY <1>3
  <2> HIDE DEF settles
  <2> QED
    BY <1>1, <2>1, <2>2, <2>3, ShapeParts
<1>8. unseen' = (unseen \/ settles \cup differs # {})
  BY <1>3
<1> HIDE DEF settles, differs
<1>9. PollShape'
  <2>1. unseen' \in BOOLEAN
    BY <1>1, <1>8, ShapeParts
  <2> QED
    BY <1>1, <1>2, <1>5, <1>6, <1>7, <2>1, ShapeParts, ShapeMade
<1>10. FinalIsStoredFirst' /\ PickemHearsOfFinals'
  <2>1. finalDone \subseteq Game
    BY <1>1, ShapeParts
  <2> QED
    BY <1>2, <1>7, <2>1 DEF PollInv, FinalIsStoredFirst, PickemHearsOfFinals, Heard
<1>11. FinalsOnTheWay'
  <2>1. \A g \in Game : (Stored(g)' <=> Stored(g)) /\ (Heard(g) => Heard(g)')
    BY <1>2, <1>7 DEF Stored, Heard
  <2> QED
    BY <1>1, <1>2, <2>1, FetchParts DEF PollInv, FinalsOnTheWay
<1>12. FromTick' = FromTick /\ FromWire' = FromWire /\ FromTick = {} /\ Waiting = 0 /\ Waiting' = 0
  BY <1>1, <1>2, <1>5 DEF PollInv, SlotsAreBounded, FromTick, FromWire, Busy, Waiting
<1>13. SlotsAreBounded' /\ Committed'
  BY <1>2, <1>12 DEF PollInv, SlotsAreBounded, Committed
<1>14. ChangeIsCarried'
  <2>1. unseen' => unseen \/ tick'.changed
    BY <1>5, <1>8
  <2>2. \A f \in Asker : Bears(f)' <=> Bears(f)
    BY <1>2 DEF Bears
  <2> QED
    BY <1>1, <1>5, <2>1, <2>2 DEF PollInv, ChangeIsCarried
<1> QED
  BY <1>9, <1>10, <1>11, <1>13, <1>14 DEF PollInv

LEMMA EndStep ==
  ASSUME PollInv, EndTick
  PROVE  PollInv'
<1> DEFINE old == Pruned(tick.week)
<1>1. PollShape /\ tick \in Passes /\ tick.pc = "boxes" /\ FromTick = {}
  BY PassParts DEF PollInv, EndTick
<1>2. /\ games' = [g \in Game |-> IF g \in old THEN Missing ELSE games[g]]
      /\ rows' = [g \in Game |-> IF g \in old THEN Missing ELSE rows[g]]
      /\ finalDone' = finalDone \ old /\ unseen' = (unseen /\ ~tick.changed) /\ tick' = NoPass
      /\ UNCHANGED <<clock, stage, flagged, pickemFinals, tracked, lastTrigger, circuitOpen, budgetUsed,
                     fetch, frozen, posted, reopened, mishaps>>
  BY DEF EndTick, storeVars
<1> HIDE DEF old
<1>3. PollShape'
  <2>1. games' \in [Game -> {Missing} \cup Boxes] /\ rows' \in [Game -> {Missing} \cup Rows] /\ unseen' \in BOOLEAN
    BY <1>1, <1>2, ShapeParts
  <2>2. finalDone' = {g \in Game : games'[g] # Missing /\ Final(games'[g].box)}
    BY <1>1, <1>2, ShapeParts
  <2> QED
    BY <1>1, <1>2, <2>1, <2>2, ShapeParts, ShapeMade DEF NoPass
<1>4. FinalIsStoredFirst' /\ PickemHearsOfFinals'
  <2>1. finalDone' \subseteq finalDone /\ \A g \in finalDone' : games'[g] = games[g]
    BY <1>1, <1>2, ShapeParts
  <2> QED
    BY <1>2, <2>1 DEF PollInv, FinalIsStoredFirst, PickemHearsOfFinals
<1>5. FinalsOnTheWay'
  BY <1>2 DEF PollInv, FinalsOnTheWay, Stored, Heard
<1>6. FromTick' = FromTick /\ FromWire' = FromWire /\ Waiting = 0 /\ Waiting' = 0
  BY <1>1, <1>2 DEF FromTick, FromWire, Busy, Waiting, NoPass
<1>7. SlotsAreBounded' /\ Committed'
  BY <1>1, <1>2, <1>6 DEF PollInv, SlotsAreBounded, Committed
<1>8. ChangeIsCarried'
  BY <1>2 DEF PollInv, ChangeIsCarried, Bears, NoPass
<1> QED
  BY <1>3, <1>4, <1>5, <1>7, <1>8 DEF PollInv

-----------------------------------------------------------------------------
(* A fetch *)

LEMMA SentType ==
  ASSUME PollShape, NEW g \in Game, NEW t \in Times, NEW tier \in TierName
  PROVE  Sent(g, t, tier) \in SentFetches /\ Sent(g, t, tier).pc = "sent"
BY ShapeParts DEF Sent, SentFetches

LEMMA SpawnStep ==
  ASSUME PollInv, NEW g \in Game, SpawnFetch(g)
  PROVE  PollInv'
<1> DEFINE f == <<"tick", g>>
           x == Sent(g, tick.at, tick.tiers[g])
<1>1. PollShape /\ tick \in Passes /\ tick.pc = "slot" /\ g \in tick.todo /\ Cardinality(FromTick) < MaxInflight
  BY PassParts DEF PollInv, SpawnFetch
<1>2. tick' = [tick EXCEPT !.pc = "boxes", !.todo = @ \ {g}] /\ fetch' = [fetch EXCEPT ![f] = x]
  BY DEF SpawnFetch
<1>3. UNCHANGED <<clock, stage, flagged, memory, frozen, posted, reopened, mishaps>>
  BY DEF SpawnFetch, storeVars
<1>4. f \in Asker /\ f[1] = "tick" /\ f[2] = g
  BY DEF Asker
<1>5. x = [pc |-> "sent", box |-> stage[g], at |-> tick.at, tier |-> tick.tiers[g]]
  BY DEF Sent
<1>6. tick.tiers[g] \in TierName /\ tick.at \in Times
  BY <1>1, ShapeParts DEF Passes
<1>7. x \in SentFetches /\ x.pc = "sent"
  BY <1>1, <1>6, SentType
<1> HIDE DEF x, f
<1>8. f \notin Busy
  BY <1>1, <1>4 DEF PollInv, SlotsAreBounded, FromTick
<1>9. FromWire' = FromWire /\ Cardinality(FromTick') = Cardinality(FromTick) + 1 /\ FromTick' \subseteq FromTick \cup {f}
  <2>1. FromTick' \subseteq FromTick \cup {f}
    BY <1>1, <1>2, <1>4 DEF FromTick, Busy, PollShape
  <2> QED
    BY <1>1, <1>2, <1>4, <1>7, <1>8, <2>1, FetchStarts
<1>10. /\ tick' \in Passes /\ tick'.pc = "boxes" /\ tick'.todo = tick.todo \ {g}
       /\ tick'.tiers = tick.tiers /\ tick'.changed = tick.changed
  BY <1>1, <1>2 DEF Passes
<1>11. PollShape'
  <2>1. fetch' \in [Asker -> {NoFetch} \cup SentFetches \cup HeardFetches]
    BY <1>1, <1>2, <1>7, ShapeParts
  <2> QED
    BY <1>1, <1>3, <1>10, <2>1, ShapeParts, ShapeMade DEF memory
<1>12. \A q \in Asker : q # f => fetch'[q] = fetch[q]
  BY <1>1, <1>2, ShapeParts
<1>13. fetch'[f].pc = "sent" /\ fetch[f].pc = "off"
  BY <1>1, <1>2, <1>4, <1>7, <1>8, ShapeParts DEF Busy
<1>14. FinalIsStoredFirst' /\ PickemHearsOfFinals' /\ FinalsOnTheWay'
  BY <1>3, <1>12, <1>13, FinalsFrame DEF memory
<1>15. SlotsAreBounded'
  <2>1. \A q \in FromTick' : q[2] \notin tick'.todo
    BY <1>4, <1>9, <1>10 DEF PollInv, SlotsAreBounded
  <2> QED
    BY <1>1, <1>9, <1>10, <2>1, FetchesAreFinite, ConstantsAreNumbers DEF SlotsAreBounded
<1>16. Committed'
  <2>1. Waiting = 1 /\ Waiting' = 0 /\ budgetUsed' = budgetUsed /\ budgetUsed \in Nat
    BY <1>1, <1>3, <1>10, ShapeParts DEF Waiting, memory
  <2> QED
    BY <1>9, <2>1, FetchesAreFinite, ConstantsAreNumbers DEF PollInv, Committed
<1>17. ChangeIsCarried'
  BY <1>1, <1>3, <1>10, <1>12, <1>13 DEF PollInv, ChangeIsCarried, Bears, memory
<1> QED
  BY <1>11, <1>14, <1>15, <1>16, <1>17 DEF PollInv

\* The counts across the end of a fetch, and across what happens within one.
LEMMA CountsEnd ==
  ASSUME PollInv, NEW f \in Busy, Over(f), budgetUsed' \in {budgetUsed, budgetUsed + 1},
         tick'.pc = tick.pc, tick'.todo = tick.todo
  PROVE  SlotsAreBounded' /\ Committed'
<1>1. PollShape /\ budgetUsed \in Nat
  BY ShapeParts DEF PollInv
<1>2. FromTick' \subseteq FromTick /\ f[1] \in {"tick", "wire"}
  <2>1. f \in Asker
    BY DEF Busy
  <2>2. Busy' \subseteq Busy
    BY <1>1 DEF Over, Busy, NoFetch, PollShape
  <2> QED
    BY <1>1, <2>1, <2>2, FetchParts DEF FromTick
<1>3. /\ Cardinality(FromTick') \in Nat /\ Cardinality(FromWire') \in Nat
      /\ Cardinality(FromTick') <= Cardinality(FromTick)
      /\ Cardinality(FromTick') + Cardinality(FromWire') = Cardinality(FromTick) + Cardinality(FromWire) - 1
  <2>1. CASE f[1] = "tick"
    <3>1. /\ FromTick' = FromTick \ {f} /\ FromWire' = FromWire
          /\ Cardinality(FromTick') = Cardinality(FromTick) - 1
      BY <1>1, <2>1, FetchEnds
    <3>2. IsFiniteSet(FromTick \ {f}) /\ Cardinality(FromTick \ {f}) \in Nat
      BY FetchesAreFinite, FS_Subset, FS_CardinalityType
    <3> QED
      BY <3>1, <3>2, FetchesAreFinite
  <2>2. CASE f[1] # "tick"
    <3>1. /\ FromWire' = FromWire \ {f} /\ FromTick' = FromTick
          /\ Cardinality(FromWire') = Cardinality(FromWire) - 1
      BY <1>1, <2>2, FetchEnds
    <3>2. IsFiniteSet(FromWire \ {f}) /\ Cardinality(FromWire \ {f}) \in Nat
      BY FetchesAreFinite, FS_Subset, FS_CardinalityType
    <3> QED
      BY <3>1, <3>2, FetchesAreFinite
  <2> QED
    BY <2>1, <2>2
<1>4. SlotsAreBounded'
  <2>1. Cardinality(FromTick') <= MaxInflight
    BY <1>3, FetchesAreFinite, ConstantsAreNumbers DEF PollInv, SlotsAreBounded
  <2> QED
    BY <1>2, <2>1 DEF PollInv, SlotsAreBounded
<1>5. Committed'
  <2>1. Waiting' = Waiting /\ Waiting \in Nat
    BY DEF Waiting
  <2> QED
    BY <1>1, <1>3, <2>1, FetchesAreFinite, ConstantsAreNumbers DEF PollInv, Committed
<1> QED
  BY <1>4, <1>5

LEMMA CountsGoOn ==
  ASSUME PollInv, NEW f \in Busy, NEW x, x.pc # "off", fetch' = [fetch EXCEPT ![f] = x], UNCHANGED <<tick, budgetUsed>>
  PROVE  SlotsAreBounded' /\ Committed'
<1>1. FromTick' = FromTick /\ FromWire' = FromWire /\ Waiting' = Waiting
  BY FetchGoesOn DEF PollInv, Waiting
<1> QED
  BY <1>1 DEF PollInv, SlotsAreBounded, Committed

LEMMA TriggerStep ==
  ASSUME PollInv, NEW g \in Game, TriggerBoxFetch(g)
  PROVE  PollInv'
<1> DEFINE f == <<"wire", g>>
           x == Sent(g, clock, "baseline")
<1>1. PollShape /\ f \in Asker /\ f[1] = "wire" /\ f[2] = g /\ fetch[f].pc = "off" /\ clock \in Times
  BY ShapeParts DEF PollInv, TriggerBoxFetch, Asker
<1>2. /\ UNCHANGED <<clock, stage, flagged, games, finalDone, rows, pickemFinals, tracked, circuitOpen,
                     budgetUsed, unseen, tick, frozen, posted, reopened, mishaps>>
      /\ lastTrigger' = [lastTrigger EXCEPT ![g] = clock]
  BY DEF TriggerBoxFetch, storeVars
<1>3. x \in SentFetches /\ x.pc = "sent"
  BY <1>1, SentType DEF TierName
<1>4. \/ fetch' = fetch
      \/ BudgetRemaining /\ fetch' = [fetch EXCEPT ![f] = x]
  <2>1. fetch[f] = NoFetch
    BY <1>1, FetchParts
  <2>2. CASE g \in Relevant /\ BudgetRemaining
    BY <2>2 DEF TriggerBoxFetch
  <2>3. CASE ~(g \in Relevant /\ BudgetRemaining)
    BY <1>1, <2>1, <2>3, ShapeParts DEF TriggerBoxFetch
  <2> QED
    BY <2>2, <2>3
<1> HIDE DEF f, x
<1>5. /\ PollShape'
      /\ \A q \in Asker : q # f => fetch'[q] = fetch[q]
      /\ fetch'[f].pc \in {"off", "sent"}
  <2>1. /\ fetch' \in [Asker -> {NoFetch} \cup SentFetches \cup HeardFetches]
        /\ \A q \in Asker : q # f => fetch'[q] = fetch[q]
        /\ fetch'[f].pc \in {"off", "sent"}
    BY <1>1, <1>3, <1>4, ShapeParts
  <2>2. lastTrigger' \in [Game -> {Missing} \cup Times]
    BY <1>1, <1>2, ShapeParts
  <2> QED
    BY <1>1, <1>2, <2>1, <2>2, ShapeParts, ShapeMade
<1>6. FinalIsStoredFirst' /\ PickemHearsOfFinals' /\ FinalsOnTheWay'
  BY <1>2, <1>5, FinalsFrame
<1>7. SlotsAreBounded' /\ Committed'
  <2>1. CASE fetch' = fetch
    <3>1. FromTick' = FromTick /\ FromWire' = FromWire /\ Waiting' = Waiting
      BY <1>2, <2>1 DEF FromTick, FromWire, Busy, Waiting
    <3> QED
      BY <1>2, <3>1 DEF PollInv, SlotsAreBounded, Committed
  <2>2. CASE BudgetRemaining /\ fetch' = [fetch EXCEPT ![f] = x]
    <3>1. f \notin Busy
      BY <1>1 DEF Busy
    <3>2. FromTick' = FromTick /\ Cardinality(FromWire') = Cardinality(FromWire) + 1
      BY <1>1, <1>3, <2>2, <3>1, FetchStarts
    <3>3. Cardinality(FromWire') <= Cardinality(Game)
      <4>1. FromWire' = FromWire \cup {f} /\ f \notin FromWire /\ FromWire \cup {f} \subseteq {"wire"} \X Game
        BY <1>1, <1>3, <2>2, <3>1 DEF FromWire, Busy, PollShape, Asker
      <4>2. /\ IsFiniteSet({"wire"}) /\ Cardinality({"wire"}) = 1
            /\ IsFiniteSet(Game) /\ Cardinality(Game) \in Nat
        BY PollerNumbers, FS_Singleton, FS_CardinalityType
      <4>3. IsFiniteSet({"wire"} \X Game) /\ Cardinality({"wire"} \X Game) = 1 * Cardinality(Game)
        BY <4>2, FS_Product
      <4>4. Cardinality(FromWire \cup {f}) <= 1 * Cardinality(Game)
        BY <4>1, <4>3, FS_Subset
      <4> QED
        BY <4>1, <4>2, <4>4
    <3>4. SlotsAreBounded'
      BY <1>2, <3>2 DEF PollInv, SlotsAreBounded
    <3>5. Committed'
      <4>1. Waiting' \in {0, 1} /\ budgetUsed \in Nat /\ Cardinality(FromTick) <= MaxInflight
        BY <1>1, ShapeParts DEF PollInv, SlotsAreBounded, Waiting
      <4>2. DailyBudget > 0 => budgetUsed + 1 <= DailyBudget
        BY <2>2, <4>1, ConstantsAreNumbers DEF BudgetRemaining
      <4> QED
        BY <1>2, <3>2, <3>3, <4>1, <4>2, FetchesAreFinite, ConstantsAreNumbers DEF Committed
    <3> QED
      BY <3>4, <3>5
  <2> QED
    BY <1>4, <2>1, <2>2
<1>8. ChangeIsCarried'
  BY <1>1, <1>2, <1>5 DEF PollInv, ChangeIsCarried, Bears
<1> QED
  BY <1>5, <1>6, <1>7, <1>8 DEF PollInv

LEMMA FailStep ==
  ASSUME PollInv, NEW f \in Asker, FetchFails(f)
  PROVE  PollInv'
<1>1. PollShape /\ fetch[f].pc = "sent" /\ f \in Busy /\ fetch[f] \in SentFetches
  BY FetchParts DEF PollInv, FetchFails, Busy
<1>2. /\ UNCHANGED <<clock, stage, flagged, games, finalDone, rows, pickemFinals, tracked, lastTrigger,
                     budgetUsed, unseen, tick, frozen, posted, reopened>>
      /\ Over(f) /\ mishaps' = mishaps + 1 /\ circuitOpen' \in {circuitOpen, fetch[f].at + OpenFor}
  BY DEF FetchFails, storeVars, Mishap, Failed
<1>3. /\ fetch' \in [Asker -> {NoFetch} \cup SentFetches \cup HeardFetches]
      /\ \A q \in Asker : q # f => fetch'[q] = fetch[q]
      /\ fetch'[f].pc = "off"
  BY <1>1, <1>2, ShapeParts DEF Over, NoFetch
<1>4. PollShape'
  <2>1. circuitOpen' \in Nat /\ mishaps' \in Nat
    BY <1>1, <1>2, ShapeParts, ConstantsAreNumbers DEF SentFetches, Times
  <2> QED
    BY <1>1, <1>2, <1>3, <2>1, ShapeParts, ShapeMade
<1>5. FinalIsStoredFirst' /\ PickemHearsOfFinals' /\ FinalsOnTheWay'
  BY <1>2, <1>3, FinalsFrame
<1>6. SlotsAreBounded' /\ Committed'
  BY <1>1, <1>2, CountsEnd
<1>7. ChangeIsCarried'
  BY <1>1, <1>2, <1>3 DEF PollInv, ChangeIsCarried, Bears
<1> QED
  BY <1>4, <1>5, <1>6, <1>7 DEF PollInv

\* Pick'em keeps a box's result, or takes a later box's.
LEMMA BoxIsHeard ==
  ASSUME NEW g, NEW box, NEW t, ~Remembers(g, box, TRUE, t)
  PROVE  pickemFinals[g] # Missing /\ (pickemFinals[g].boxFinal \in BOOLEAN => pickemFinals[g].boxFinal)
BY DEF Remembers

LEMMA ReceiveStep ==
  ASSUME PollInv, NEW f \in Asker, Receive(f)
  PROVE  PollInv'
<1> DEFINE g == f[2]
           c == fetch[f]
<1>1. PollShape /\ fetch[f].pc = "sent" /\ f \in Busy /\ fetch[f] \in SentFetches /\ f[2] \in Game
  BY FetchParts DEF PollInv, Receive, Busy
<1>2. PICK box \in c.box .. stage[g], scored \in BOOLEAN :
        LET tells == Final(box) /\ scored /\ g \notin finalDone /\ Remembers(g, box, TRUE, c.at)
            next == IF g \in finalDone THEN "done"
                    ELSE IF ~Final(box) THEN "put"
                    ELSE IF Complete(box) THEN "save" ELSE "refused"
        IN  /\ IF scored THEN Smooth ELSE Final(box) /\ Mishap
            /\ pickemFinals' = IF tells THEN [pickemFinals EXCEPT ![g] = Settled(box, TRUE, c.at)]
                               ELSE pickemFinals
            /\ unseen' = (unseen \/ tells)
            /\ fetch' = [fetch EXCEPT ![f] = [pc |-> next, box |-> box, scored |-> scored, at |-> c.at,
                                              tier |-> c.tier, pick |-> tells]]
  BY DEF Receive
<1> DEFINE tells == Final(box) /\ scored /\ g \notin finalDone /\ Remembers(g, box, TRUE, c.at)
           next == IF g \in finalDone THEN "done"
                   ELSE IF ~Final(box) THEN "put"
                   ELSE IF Complete(box) THEN "save" ELSE "refused"
           x == [pc |-> next, box |-> box, scored |-> scored, at |-> c.at, tier |-> c.tier, pick |-> tells]
<1>3. /\ UNCHANGED <<clock, stage, flagged, games, finalDone, rows, tracked, lastTrigger, circuitOpen,
                     budgetUsed, tick, frozen, posted, reopened>>
      /\ mishaps' \in Nat
  BY <1>1, <1>2, ShapeParts DEF Receive, storeVars, Smooth, Mishap
<1>4. box \in 0..4 /\ c.at \in Times /\ c.tier \in TierName
  <2>1. stage[g] \in 0..4 /\ c.box \in 0..4
    BY <1>1, ShapeParts DEF SentFetches
  <2> QED
    BY <1>1, <2>1 DEF SentFetches
<1>5. x \in HeardFetches /\ x.pc \in {"put", "done", "save", "refused"} /\ x.pick = tells
  <2>1. tells \in BOOLEAN /\ next \in {"put", "done", "save", "refused"}
    BY DEF Final, Remembers
  <2> HIDE DEF tells, next
  <2> QED
    BY <1>4, <2>1 DEF HeardFetches
<1>6. /\ x.pc = "save" => Complete(x.box)
      /\ x.pc = "put" => ~Final(x.box)
      /\ x.pc = "save" => Final(box) /\ g \notin finalDone
      /\ x.scored = scored
  OBVIOUS
<1>7. /\ tells => Settled(box, TRUE, c.at) \in Results
      /\ Settled(box, TRUE, c.at).boxFinal
  <2>1. tells => box \in 2..4
    BY <1>4 DEF Final
  <2> HIDE DEF tells
  <2> QED
    BY <1>4, <2>1 DEF Settled, Results
<1>8. pickemFinals' = IF tells THEN [pickemFinals EXCEPT ![g] = Settled(box, TRUE, c.at)] ELSE pickemFinals
  BY <1>2
<1>9. fetch' = [fetch EXCEPT ![f] = x] /\ unseen' = (unseen \/ tells)
  BY <1>2
<1>10. /\ \A q \in Asker : q # f => fetch'[q] = fetch[q]
       /\ fetch'[f] = x
       /\ fetch' \in [Asker -> {NoFetch} \cup SentFetches \cup HeardFetches]
  <2> HIDE DEF x
  <2> QED
    BY <1>1, <1>5, <1>9, ShapeParts
<1>11. /\ pickemFinals' \in [Game -> {Missing} \cup Results]
       /\ \A h \in Game : Heard(h) \/ (tells /\ h = g) => Heard(h)'
  <2> HIDE DEF tells
  <2>1. pickemFinals' \in [Game -> {Missing} \cup Results]
    BY <1>1, <1>7, <1>8, ShapeParts
  <2>2. \A h \in Game : ~(tells /\ h = g) => pickemFinals'[h] = pickemFinals[h]
    BY <1>1, <1>8, ShapeParts
  <2>3. tells => pickemFinals'[g] = Settled(box, TRUE, c.at) /\ Settled(box, TRUE, c.at) # Missing
    BY <1>1, <1>7, <1>8, ShapeParts, RecordsExist
  <2>4. \A h \in Game : tells /\ h = g => Heard(h)'
    BY <1>7, <2>3 DEF Heard
  <2>5. \A h \in Game : ~(tells /\ h = g) /\ Heard(h) => Heard(h)'
    BY <2>2 DEF Heard
  <2> QED
    BY <2>4, <2>5, <2>1
<1>12. x.pc = "save" /\ scored => Heard(g)'
  <2>1. CASE tells
    BY <1>1, <1>11, <2>1
  <2>2. CASE x.pc = "save" /\ scored /\ ~tells
    <3>1. ~Remembers(g, box, TRUE, c.at)
      BY <1>6, <2>2
    <3>2. pickemFinals[g] \in {Missing} \cup Results
      BY <1>1, ShapeParts
    <3>3. Heard(g)
      BY <3>1, <3>2, BoxIsHeard DEF Heard, Results
    <3> QED
      BY <1>1, <1>11, <3>3
  <2> QED
    BY <2>1, <2>2
<1>13. PollShape'
  <2>1. unseen' \in BOOLEAN
    BY <1>1, <1>9, ShapeParts DEF Final, Remembers
  <2> QED
    BY <1>1, <1>3, <1>10, <1>11, <2>1, ShapeParts, ShapeMade
<1>14. FinalIsStoredFirst' /\ PickemHearsOfFinals'
  <2>1. finalDone \subseteq Game
    BY <1>1, ShapeParts
  <2> QED
    BY <1>3, <1>11, <2>1 DEF PollInv, FinalIsStoredFirst, PickemHearsOfFinals, Heard
<1>15. FinalsOnTheWay'
  <2> SUFFICES ASSUME NEW q \in Asker
               PROVE  /\ fetch'[q].pc = "save" => Complete(fetch'[q].box)
                      /\ fetch'[q].pc = "put" /\ Final(fetch'[q].box) => Complete(fetch'[q].box) /\ Stored(q[2])'
                      /\ fetch'[q].pc \in {"save", "put"} /\ Final(fetch'[q].box) /\ fetch'[q].scored => Heard(q[2])'
    BY DEF FinalsOnTheWay
  <2>1. CASE q = f
    <3> HIDE DEF x
    <3> QED
      BY <1>6, <1>10, <1>12, <2>1
  <2>2. CASE q # f
    <3>1. fetch'[q] = fetch[q] /\ q[2] \in Game
      BY <1>1, <1>10, <2>2, FetchParts
    <3>2. Stored(q[2])' <=> Stored(q[2])
      BY <1>3 DEF Stored
    <3> QED
      BY <1>11, <3>1, <3>2 DEF PollInv, FinalsOnTheWay
  <2> QED
    BY <2>1, <2>2
<1>16. SlotsAreBounded' /\ Committed'
  <2>1. x.pc # "off"
    BY <1>5
  <2> HIDE DEF x
  <2> QED
    BY <1>1, <1>3, <1>9, <2>1, CountsGoOn
<1>17. ChangeIsCarried'
  <2>1. tells => Bears(f)'
    <3> HIDE DEF x, tells
    <3> QED
      BY <1>5, <1>10 DEF Bears
  <2>2. \A q \in Asker : Bears(q) => Bears(q)'
    BY <1>1, <1>10 DEF Bears
  <2> HIDE DEF tells
  <2> QED
    BY <1>3, <1>9, <2>1, <2>2 DEF PollInv, ChangeIsCarried
<1> QED
  BY <1>13, <1>14, <1>15, <1>16, <1>17 DEF PollInv

\* A fetch ends and announces what it and its picks changed.
LEMMA Announced ==
  ASSUME PollInv, NEW f \in Asker, fetch[f].pc \in {"put", "done", "refused"}, Over(f),
         NEW change \in BOOLEAN, fetch[f].pick => change, budgetUsed' \in {budgetUsed, budgetUsed + 1},
         \/ f[1] = "tick" /\ tick' = [tick EXCEPT !.changed = @ \/ change] /\ (unseen' => unseen \/ change)
         \/ f[1] # "tick" /\ tick' = tick /\ (unseen' => unseen /\ ~change)
  PROVE  /\ fetch' \in [Asker -> {NoFetch} \cup SentFetches \cup HeardFetches]
         /\ \A q \in Asker : q # f => fetch'[q] = fetch[q]
         /\ fetch'[f].pc = "off"
         /\ tick' \in {NoPass} \cup Passes /\ (tick'.pc \in {"boxes", "slot"} => tick'.tiers \in [Game -> TierName])
         /\ SlotsAreBounded' /\ Committed' /\ ChangeIsCarried'
<1>1. PollShape /\ f \in Busy
  BY DEF PollInv, Busy
<1>2. /\ fetch' \in [Asker -> {NoFetch} \cup SentFetches \cup HeardFetches]
      /\ \A q \in Asker : q # f => fetch'[q] = fetch[q]
      /\ fetch'[f].pc = "off"
  BY <1>1, ShapeParts DEF Over, NoFetch
<1>3. f[1] = "tick" => tick \in Passes /\ tick.pc \in {"boxes", "slot"} /\ tick.changed \in BOOLEAN
  <2>1. f[1] = "tick" => tick.pc \in {"boxes", "slot"}
    BY <1>1 DEF PollInv, SlotsAreBounded, FromTick
  <2> QED
    BY <1>1, <2>1, PassParts DEF Passes
<1>4. /\ tick' \in {NoPass} \cup Passes /\ (tick'.pc \in {"boxes", "slot"} => tick'.tiers \in [Game -> TierName])
      /\ tick'.pc = tick.pc /\ tick'.todo = tick.todo
      /\ f[1] = "tick" => tick'.changed = (tick.changed \/ change)
  <2>1. CASE f[1] = "tick"
    <3>1. tick' = [tick EXCEPT !.changed = tick.changed \/ change]
      BY <2>1
    <3>2. tick' \in Passes /\ tick'.pc = tick.pc /\ tick'.tiers = tick.tiers /\ tick'.todo = tick.todo
          /\ tick'.changed = (tick.changed \/ change)
      BY <1>3, <2>1, <3>1 DEF Passes
    <3> QED
      BY <1>1, <3>2, ShapeParts
  <2>2. CASE f[1] # "tick"
    BY <1>1, <2>2, ShapeParts
  <2> QED
    BY <2>1, <2>2
<1>5. SlotsAreBounded' /\ Committed'
  BY <1>1, <1>4, CountsEnd
<1>6. ChangeIsCarried'
  <2>1. \A q \in Asker : q # f /\ Bears(q) => Bears(q)'
    BY <1>2 DEF Bears
  <2>2. Bears(f) => change
    BY DEF Bears
  <2>3. CASE f[1] = "tick"
    BY <1>3, <1>4, <2>1, <2>2, <2>3 DEF PollInv, ChangeIsCarried
  <2>4. CASE f[1] # "tick"
    BY <2>1, <2>2, <2>4 DEF PollInv, ChangeIsCarried
  <2> QED
    BY <2>3, <2>4
<1> QED
  BY <1>2, <1>4, <1>5, <1>6

LEMMA RefusedStep ==
  ASSUME PollInv, NEW f \in Asker, RecordRefused(f)
  PROVE  PollInv'
<1>1. PollShape /\ fetch[f].pc = "refused" /\ fetch[f].pick \in BOOLEAN
  BY FetchParts DEF PollInv, RecordRefused, HeardFetches
<1>2. UNCHANGED <<clock, stage, flagged, games, finalDone, rows, pickemFinals, tracked, lastTrigger,
                  circuitOpen, budgetUsed, frozen, posted, reopened, mishaps>>
  BY DEF RecordRefused, storeVars
<1>3. /\ Over(f)
      /\ \/ f[1] = "tick" /\ tick' = [tick EXCEPT !.changed = @ \/ fetch[f].pick] /\ unseen' = unseen
         \/ f[1] # "tick" /\ unseen' = (unseen /\ ~fetch[f].pick) /\ tick' = tick
  BY DEF RecordRefused, Announce
<1>4. /\ fetch' \in [Asker -> {NoFetch} \cup SentFetches \cup HeardFetches]
      /\ \A q \in Asker : q # f => fetch'[q] = fetch[q]
      /\ fetch'[f].pc = "off"
      /\ tick' \in {NoPass} \cup Passes /\ (tick'.pc \in {"boxes", "slot"} => tick'.tiers \in [Game -> TierName])
      /\ SlotsAreBounded' /\ Committed' /\ ChangeIsCarried'
  <2>1. CASE f[1] = "tick"
    <3>1. unseen' => unseen \/ fetch[f].pick
      BY <1>3, <2>1
    <3>2. tick' = [tick EXCEPT !.changed = @ \/ fetch[f].pick]
      BY <1>3, <2>1
    <3> QED
      BY <1>1, <1>2, <1>3, <2>1, <3>1, <3>2, Announced
  <2>2. CASE f[1] # "tick"
    <3>1. (unseen' => unseen /\ ~fetch[f].pick) /\ tick' = tick
      BY <1>3, <2>2
    <3> QED
      BY <1>1, <1>2, <1>3, <2>2, <3>1, Announced
  <2> QED
    BY <2>1, <2>2
<1>5. PollShape'
  <2>1. unseen' \in BOOLEAN
    BY <1>1, <1>3, ShapeParts
  <2> QED
    BY <1>1, <1>2, <1>4, <2>1, ShapeParts, ShapeMade
<1>6. FinalIsStoredFirst' /\ PickemHearsOfFinals' /\ FinalsOnTheWay'
  BY <1>2, <1>4, FinalsFrame
<1> QED
  BY <1>4, <1>5, <1>6 DEF PollInv

\* A box that is saved is final, whole and heard of; then it is stored, or the
\* game's box of before is, or its week is closed.
LEMMA FinalizeStep ==
  ASSUME PollInv, NEW f \in Asker, Finalize(f)
  PROVE  PollInv'
<1> DEFINE g == f[2]
<1>1. PollShape /\ fetch[f].pc = "save" /\ f \in Busy /\ fetch[f] \in HeardFetches /\ g \in Game
  BY FetchParts DEF PollInv, Finalize, Busy
<1>2. UNCHANGED <<clock, stage, flagged, memory, tick, posted>> /\ mishaps' \in Nat
  BY <1>1, ShapeParts DEF Finalize, Smooth, Mishap
<1>3. fetch[f].box \in 3..4 /\ Complete(fetch[f].box) /\ (fetch[f].scored => Heard(g))
  BY <1>1 DEF PollInv, FinalsOnTheWay, HeardFetches, Complete, Final
<1>4. /\ frozen' \in [Game -> {Missing} \cup 3..4] /\ reopened' \subseteq Game
      /\ \A h \in Game : Stored(h) => Stored(h)'
      /\ fetch'[f].pc = "put" => Stored(g)'
      /\ \E step \in {"put", "refused"} : fetch' = [fetch EXCEPT ![f] = [fetch[f] EXCEPT !.pc = step]]
  <2>1. CASE /\ frozen' = IF Freezes(g) THEN [frozen EXCEPT ![g] = fetch[f].box] ELSE frozen
             /\ reopened' = IF Freezes(g) THEN reopened \ {g} ELSE reopened
             /\ fetch' = [fetch EXCEPT ![f].pc = "put"]
    <3>1. CASE Freezes(g)
      <4>1. frozen' = [frozen EXCEPT ![g] = fetch[f].box] /\ reopened' = reopened \ {g}
        BY <2>1, <3>1
      <4>2. fetch[f].box # Missing
        BY <1>3, PollerNumbers
      <4>3. frozen' \in [Game -> {Missing} \cup 3..4] /\ frozen'[g] # Missing
            /\ \A h \in Game : h # g => frozen'[h] = frozen[h]
        BY <1>1, <1>3, <4>1, <4>2, ShapeParts
      <4>4. \A h \in Game : Stored(h) \/ h = g => Stored(h)'
        BY <1>2, <4>1, <4>3 DEF Stored
      <4> QED
        BY <1>1, <2>1, <4>1, <4>3, <4>4, ShapeParts
    <3>2. CASE ~Freezes(g)
      BY <1>1, <1>2, <2>1, <3>2, ShapeParts DEF Stored, Freezes
    <3> QED
      BY <3>1, <3>2
  <2>2. CASE UNCHANGED <<frozen, reopened>> /\ fetch' = [fetch EXCEPT ![f].pc = "refused"]
    <3>1. fetch'[f].pc = "refused"
      BY <1>1, <2>2, ShapeParts
    <3> QED
      BY <1>1, <1>2, <2>2, <3>1, ShapeParts DEF Stored
  <2> QED
    BY <2>1, <2>2 DEF Finalize
<1>5. PICK step \in {"put", "refused"} : fetch' = [fetch EXCEPT ![f] = [fetch[f] EXCEPT !.pc = step]]
  BY <1>4
<1> DEFINE x == [fetch[f] EXCEPT !.pc = step]
<1>6. x \in HeardFetches /\ x.pc = step /\ x.box = fetch[f].box /\ x.scored = fetch[f].scored /\ x.pick = fetch[f].pick
  BY <1>1 DEF HeardFetches
<1> HIDE DEF x
<1>7. fetch' = [fetch EXCEPT ![f] = x]
  BY <1>5 DEF x
<1>8. /\ \A q \in Asker : q # f => fetch'[q] = fetch[q]
      /\ fetch'[f] = x
      /\ fetch' \in [Asker -> {NoFetch} \cup SentFetches \cup HeardFetches]
  BY <1>1, <1>6, <1>7, ShapeParts
<1>9. PollShape'
  BY <1>1, <1>2, <1>4, <1>8, ShapeParts, ShapeMade DEF memory
<1>10. FinalIsStoredFirst' /\ PickemHearsOfFinals'
  <2>1. finalDone \subseteq Game /\ finalDone' = finalDone /\ games' = games /\ pickemFinals' = pickemFinals
    BY <1>1, <1>2, ShapeParts DEF memory
  <2>2. \A h \in finalDone : Stored(h)'
    BY <1>4, <2>1 DEF PollInv, FinalIsStoredFirst, Stored
  <2> QED
    BY <2>1, <2>2 DEF PollInv, FinalIsStoredFirst, PickemHearsOfFinals, Stored
<1>11. FinalsOnTheWay'
  <2> SUFFICES ASSUME NEW q \in Asker
               PROVE  /\ fetch'[q].pc = "save" => Complete(fetch'[q].box)
                      /\ fetch'[q].pc = "put" /\ Final(fetch'[q].box) => Complete(fetch'[q].box) /\ Stored(q[2])'
                      /\ fetch'[q].pc \in {"save", "put"} /\ Final(fetch'[q].box) /\ fetch'[q].scored => Heard(q[2])'
    BY DEF FinalsOnTheWay
  <2>1. \A h : Heard(h)' <=> Heard(h)
    BY <1>2 DEF Heard, memory
  <2>2. CASE q = f
    BY <1>3, <1>4, <1>6, <1>8, <2>1, <2>2
  <2>3. CASE q # f
    <3>1. fetch'[q] = fetch[q] /\ q[2] \in Game
      BY <1>1, <1>8, <2>3, FetchParts
    <3> QED
      BY <1>4, <2>1, <3>1 DEF PollInv, FinalsOnTheWay
  <2> QED
    BY <2>2, <2>3
<1>12. SlotsAreBounded' /\ Committed'
  BY <1>1, <1>2, <1>6, <1>7, CountsGoOn DEF memory
<1>13. ChangeIsCarried'
  <2>1. \A q \in Asker : Bears(q) => Bears(q)'
    BY <1>1, <1>6, <1>8 DEF Bears
  <2> QED
    BY <1>2, <2>1 DEF PollInv, ChangeIsCarried, memory
<1> QED
  BY <1>9, <1>10, <1>11, <1>12, <1>13 DEF PollInv

\* The box of a game that is done is not put again; a final one that is put is
\* stored and heard of.
LEMMA RecordStep ==
  ASSUME PollInv, NEW f \in Asker, Record(f)
  PROVE  PollInv'
<1> DEFINE g == f[2]
           c == fetch[f]
           old == games[g]
           changes == Puts(f) /\ (old = Missing \/ old.box # c.box)
           streak == IF changes \/ old = Missing THEN 0
                     ELSE IF c.tier = "fast" /\ old.streak < 2 THEN old.streak + 1 ELSE old.streak
           recorded == IF Puts(f) THEN [box |-> c.box, scored |-> c.scored, at |-> c.at, streak |-> streak]
                  ELSE IF old = Missing THEN Missing ELSE [old EXCEPT !.streak = streak]
<1>1. PollShape /\ fetch[f].pc \in {"put", "done"} /\ c \in HeardFetches /\ g \in Game
  BY FetchParts DEF PollInv, Record
<1>2. UNCHANGED <<clock, stage, flagged, rows, pickemFinals, tracked, lastTrigger, circuitOpen,
                  frozen, posted, reopened, mishaps>>
  BY DEF Record, storeVars
<1>3. /\ games' = [games EXCEPT ![g] = recorded]
      /\ finalDone' = IF Puts(f) /\ Final(c.box) THEN finalDone \cup {g} ELSE finalDone
      /\ budgetUsed' = budgetUsed + 1 /\ Over(f)
  BY DEF Record
<1>4. \/ f[1] = "tick" /\ tick' = [tick EXCEPT !.changed = @ \/ changes \/ c.pick] /\ unseen' = (unseen \/ changes)
      \/ f[1] # "tick" /\ unseen' = (unseen /\ ~(changes \/ c.pick)) /\ tick' = tick
  BY DEF Record
<1>5. changes \in BOOLEAN /\ c.pick \in BOOLEAN /\ old \in {Missing} \cup Boxes
  BY <1>1, ShapeParts DEF HeardFetches
<1>6. streak \in 0..2
  <2> HIDE DEF changes
  <2> QED
    BY <1>5 DEF Boxes
<1>7. /\ recorded \in {Missing} \cup Boxes
      /\ Puts(f) => /\ recorded # Missing /\ recorded.box = c.box /\ recorded.scored = c.scored
                    /\ g \notin finalDone /\ fetch[f].pc = "put"
      /\ ~Puts(f) => /\ recorded = Missing <=> old = Missing
                     /\ old # Missing => recorded.box = old.box /\ recorded.scored = old.scored
  <2> HIDE DEF changes, streak
  <2>1. CASE Puts(f)
    <3>1. recorded = [box |-> c.box, scored |-> c.scored, at |-> c.at, streak |-> streak]
      BY <2>1
    <3>2. recorded \in Boxes /\ recorded.box = c.box /\ recorded.scored = c.scored
      BY <1>1, <1>6, <3>1 DEF Boxes, HeardFetches
    <3> HIDE DEF recorded
    <3> QED
      BY <2>1, <3>2, RecordsExist DEF Puts
  <2>2. CASE ~Puts(f) /\ old # Missing
    <3>1. recorded = [old EXCEPT !.streak = streak] /\ old \in Boxes
      BY <1>5, <2>2
    <3>2. recorded \in Boxes /\ recorded.box = old.box /\ recorded.scored = old.scored
      BY <1>6, <3>1 DEF Boxes
    <3> HIDE DEF recorded
    <3> QED
      BY <2>2, <3>2, RecordsExist
  <2>3. CASE ~Puts(f) /\ old = Missing
    BY <2>3
  <2> QED
    BY <2>1, <2>2, <2>3
<1> HIDE DEF recorded, changes
<1>8. /\ games' \in [Game -> {Missing} \cup Boxes] /\ games'[g] = recorded
      /\ \A h \in Game : h # g => games'[h] = games[h]
  BY <1>1, <1>3, <1>7, ShapeParts
<1>9. \A h \in finalDone' :
        /\ h \in Game
        /\ \/ h \in finalDone /\ games'[h].box = games[h].box /\ games'[h].scored = games[h].scored
           \/ h = g /\ Puts(f) /\ Final(c.box) /\ games'[h].box = c.box /\ games'[h].scored = c.scored
  <2>1. finalDone = {h \in Game : games[h] # Missing /\ Final(games[h].box)}
    BY <1>1, ShapeParts
  <2>2. ~Puts(f) /\ old # Missing => games'[g].box = games[g].box /\ games'[g].scored = games[g].scored
    BY <1>7, <1>8
  <2> SUFFICES ASSUME NEW h \in finalDone'
               PROVE  /\ h \in Game
                      /\ \/ h \in finalDone /\ games'[h].box = games[h].box /\ games'[h].scored = games[h].scored
                         \/ h = g /\ Puts(f) /\ Final(c.box) /\ games'[h].box = c.box /\ games'[h].scored = c.scored
    OBVIOUS
  <2>3. CASE Puts(f) /\ Final(c.box)
    <3>1. h \in finalDone \cup {g}
      BY <1>3, <2>3
    <3>2. CASE h = g
      BY <1>1, <1>7, <1>8, <2>3, <3>2
    <3>3. CASE h # g
      <4>1. h \in finalDone /\ h \in Game
        BY <2>1, <3>1, <3>3
      <4> QED
        BY <1>8, <3>3, <4>1
    <3> QED
      BY <3>2, <3>3
  <2>4. CASE ~(Puts(f) /\ Final(c.box))
    <3>1. h \in finalDone /\ h \in Game /\ games[h] # Missing
      BY <1>3, <2>1, <2>4
    <3>2. CASE h = g
      <4>1. ~Puts(f)
        BY <1>7, <3>1, <3>2
      <4> QED
        BY <2>2, <3>1, <3>2, <4>1
    <3>3. CASE h # g
      BY <1>8, <3>1, <3>3
    <3> QED
      BY <3>2, <3>3
  <2> QED
    BY <2>3, <2>4
<1>10. finalDone' = {h \in Game : games'[h] # Missing /\ Final(games'[h].box)}
  <2>1. finalDone = {h \in Game : games[h] # Missing /\ Final(games[h].box)}
    BY <1>1, ShapeParts
  <2>2. \A h \in Game : h # g => (h \in finalDone' <=> games'[h] # Missing /\ Final(games'[h].box))
    BY <1>3, <1>8, <2>1
  <2>3. g \in finalDone' <=> games'[g] # Missing /\ Final(games'[g].box)
    <3>1. CASE Puts(f)
      BY <1>1, <1>3, <1>7, <1>8, <2>1, <3>1
    <3>2. CASE ~Puts(f)
      BY <1>1, <1>3, <1>7, <1>8, <2>1, <3>2
    <3> QED
      BY <3>1, <3>2
  <2>4. finalDone' \subseteq Game
    BY <1>9
  <2> QED
    BY <2>2, <2>3, <2>4
<1>11. /\ fetch' \in [Asker -> {NoFetch} \cup SentFetches \cup HeardFetches]
       /\ \A q \in Asker : q # f => fetch'[q] = fetch[q]
       /\ fetch'[f].pc = "off"
       /\ tick' \in {NoPass} \cup Passes /\ (tick'.pc \in {"boxes", "slot"} => tick'.tiers \in [Game -> TierName])
       /\ SlotsAreBounded' /\ Committed' /\ ChangeIsCarried'
  <2>1. CASE f[1] = "tick"
    <3>1. tick' = [tick EXCEPT !.changed = @ \/ (changes \/ c.pick)] /\ (unseen' => unseen \/ (changes \/ c.pick))
      BY <1>4, <2>1
    <3> QED
      BY <1>1, <1>3, <1>5, <2>1, <3>1, Announced
  <2>2. CASE f[1] # "tick"
    <3>1. (unseen' => unseen /\ ~(changes \/ c.pick)) /\ tick' = tick
      BY <1>4, <2>2
    <3> QED
      BY <1>1, <1>3, <1>5, <2>2, <3>1, Announced
  <2> QED
    BY <2>1, <2>2
<1>12. PollShape'
  <2>1. unseen' \in BOOLEAN
    BY <1>1, <1>4, <1>5, ShapeParts
  <2>2. budgetUsed' \in Nat
    BY <1>1, <1>3, ShapeParts
  <2> QED
    BY <1>1, <1>2, <1>8, <1>10, <1>11, <2>1, <2>2, ShapeParts, ShapeMade
<1>13. FinalIsStoredFirst' /\ PickemHearsOfFinals'
  <2> SUFFICES ASSUME NEW h \in finalDone'
               PROVE  /\ Complete(games'[h].box) /\ Stored(h)'
                      /\ games'[h].scored => Heard(h)'
    BY DEF FinalIsStoredFirst, PickemHearsOfFinals, Stored, Heard
  <2>1. CASE h \in finalDone /\ games'[h].box = games[h].box /\ games'[h].scored = games[h].scored
    BY <1>2, <2>1 DEF PollInv, FinalIsStoredFirst, PickemHearsOfFinals, Stored, Heard
  <2>2. CASE h = g /\ Puts(f) /\ Final(c.box) /\ games'[h].box = c.box /\ games'[h].scored = c.scored
    <3>1. Complete(c.box) /\ Stored(g) /\ (c.scored => Heard(g))
      BY <1>7, <2>2 DEF PollInv, FinalsOnTheWay
    <3> QED
      BY <1>2, <2>2, <3>1 DEF Stored, Heard
  <2> QED
    BY <1>9, <2>1, <2>2
<1>14. FinalsOnTheWay'
  <2>1. \A h : (Stored(h)' <=> Stored(h)) /\ (Heard(h)' <=> Heard(h))
    BY <1>2 DEF Stored, Heard
  <2> QED
    BY <1>11, <2>1 DEF PollInv, FinalsOnTheWay
<1> QED
  BY <1>11, <1>12, <1>13, <1>14 DEF PollInv

-----------------------------------------------------------------------------
(* The commissioner, the process, and every step *)

LEMMA ReopenStep ==
  ASSUME PollInv, NEW g \in Game, ReopenFinalGameStats(g)
  PROVE  PollInv'
<1>1. PollShape
  BY DEF PollInv
<1>2. /\ UNCHANGED <<clock, stage, flagged, memory, tick, fetch, posted>> /\ mishaps' \in Nat
      /\ frozen' = [frozen EXCEPT ![g] = Missing] /\ reopened' = reopened \cup {g}
  BY <1>1, ShapeParts DEF ReopenFinalGameStats, Mishap
<1>3. PollShape'
  <2>1. frozen' \in [Game -> {Missing} \cup 3..4] /\ reopened' \subseteq Game
    BY <1>1, <1>2, ShapeParts
  <2> QED
    BY <1>1, <1>2, <2>1, ShapeParts, ShapeMade DEF memory
<1>4. /\ \A h \in Game : Stored(h) => Stored(h)'
      /\ \A h : Heard(h)' <=> Heard(h)
  <2>1. \A h \in Game : h # g => frozen'[h] = frozen[h]
    BY <1>1, <1>2, ShapeParts
  <2> QED
    BY <1>2, <2>1 DEF Stored, Heard, memory
<1>5. FinalIsStoredFirst' /\ PickemHearsOfFinals'
  <2>1. finalDone \subseteq Game /\ finalDone' = finalDone /\ games' = games /\ pickemFinals' = pickemFinals
    BY <1>1, <1>2, ShapeParts DEF memory
  <2>2. \A h \in finalDone : Stored(h)'
    BY <1>4, <2>1 DEF PollInv, FinalIsStoredFirst, Stored
  <2> QED
    BY <2>1, <2>2 DEF PollInv, FinalIsStoredFirst, PickemHearsOfFinals, Stored
<1>6. FinalsOnTheWay'
  BY <1>1, <1>2, <1>4, FetchParts DEF PollInv, FinalsOnTheWay
<1>7. FromTick' = FromTick /\ FromWire' = FromWire /\ Waiting' = Waiting
  BY <1>2 DEF FromTick, FromWire, Busy, Waiting
<1>8. SlotsAreBounded' /\ Committed' /\ ChangeIsCarried'
  BY <1>2, <1>7 DEF PollInv, SlotsAreBounded, Committed, ChangeIsCarried, Bears, memory
<1> QED
  BY <1>3, <1>5, <1>6, <1>8 DEF PollInv

\* A process begins with nothing in memory and nothing under way.
LEMMA RelaunchStep ==
  ASSUME PollInv, Relaunch
  PROVE  PollInv'
<1>1. PollShape
  BY DEF PollInv
<1>2. /\ games' = NoRecords /\ finalDone' = {} /\ rows' = NoRecords /\ pickemFinals' = NoRecords
      /\ tracked' = {} /\ lastTrigger' = NoRecords /\ circuitOpen' = 0 /\ budgetUsed' = 0
      /\ unseen' = FALSE /\ tick' = NoPass /\ fetch' = [f \in Asker |-> NoFetch]
      /\ UNCHANGED <<clock, stage, flagged, frozen, posted, reopened>> /\ mishaps' \in Nat
  BY <1>1, ShapeParts DEF Relaunch, storeVars, Mishap
<1>3. PollShape'
  <2>1. finalDone' = {g \in Game : games'[g] # Missing /\ Final(games'[g].box)}
    BY <1>2 DEF NoRecords
  <2> QED
    BY <1>1, <1>2, <2>1, ShapeParts, ShapeMade DEF NoRecords, NoPass
<1>4. FinalIsStoredFirst' /\ PickemHearsOfFinals' /\ FinalsOnTheWay' /\ ChangeIsCarried'
  BY <1>2 DEF FinalIsStoredFirst, PickemHearsOfFinals, FinalsOnTheWay, ChangeIsCarried, NoFetch, NoPass
<1>5. FromTick' = {} /\ FromWire' = {} /\ Waiting' = 0
  BY <1>2 DEF FromTick, FromWire, Busy, Waiting, NoFetch, NoPass
<1>6. SlotsAreBounded' /\ Committed'
  BY <1>2, <1>5, FS_EmptySet, FetchesAreFinite, ConstantsAreNumbers DEF SlotsAreBounded, Committed
<1> QED
  BY <1>3, <1>4, <1>6 DEF PollInv

LEMMA PollStarts == PollInit => PollInv
<1> SUFFICES ASSUME PollInit
             PROVE  PollInv
  OBVIOUS
<1>1. PollShape
  <2>1. 0 \in Times
    BY ConstantsAreNumbers DEF Times
  <2>2. finalDone = {g \in Game : games[g] # Missing /\ Final(games[g].box)}
    BY DEF PollInit, NoRecords
  <2>3. NoRecords \in [Game -> {Missing}]
    BY DEF NoRecords
  <2>4. /\ [Game -> {Missing}] \subseteq [Game -> {Missing} \cup Boxes]
        /\ [Game -> {Missing}] \subseteq [Game -> {Missing} \cup Rows]
        /\ [Game -> {Missing}] \subseteq [Game -> {Missing} \cup Results]
        /\ [Game -> {Missing}] \subseteq [Game -> {Missing} \cup 3..4]
    <3> SUFFICES ASSUME NEW h \in [Game -> {Missing}], NEW S
                 PROVE  h \in [Game -> {Missing} \cup S]
      OBVIOUS
    <3> QED
      OBVIOUS
  <2>5. PollerTypeOK
    <3>1. games \in [Game -> {Missing} \cup Boxes] /\ rows \in [Game -> {Missing} \cup Rows]
      BY <2>3, <2>4 DEF PollInit
    <3>2. pickemFinals \in [Game -> {Missing} \cup Results] /\ frozen \in [Game -> {Missing} \cup 3..4]
      BY <2>3, <2>4 DEF PollInit
    <3>3. clock \in Times /\ stage \in [Game -> 0..4]
      BY <2>1 DEF PollInit
    <3>4. flagged \subseteq Game /\ tracked \subseteq Game /\ unseen \in BOOLEAN
      BY DEF PollInit
    <3> QED
      BY <2>2, <3>1, <3>2, <3>3, <3>4 DEF PollerTypeOK, Boxes, Rows, Results
  <2> QED
    BY <2>1, <2>5 DEF PollInit, PollShape, NoRecords, NoPass
<1>2. FinalIsStoredFirst /\ PickemHearsOfFinals /\ FinalsOnTheWay /\ ChangeIsCarried
  BY DEF PollInit, FinalIsStoredFirst, PickemHearsOfFinals, FinalsOnTheWay, ChangeIsCarried, NoFetch, NoPass
<1>3. FromTick = {} /\ FromWire = {} /\ Waiting = 0 /\ budgetUsed = 0
  BY DEF PollInit, FromTick, FromWire, Busy, Waiting, NoFetch, NoPass
<1>4. SlotsAreBounded /\ Committed
  BY <1>3, FS_EmptySet, FetchesAreFinite, ConstantsAreNumbers DEF SlotsAreBounded, Committed
<1> QED
  BY <1>1, <1>2, <1>4 DEF PollInv

LEMMA PollSteps == PollInv /\ [PollNext]_pollVars => PollInv'
<1> SUFFICES ASSUME PollInv, [PollNext]_pollVars
             PROVE  PollInv'
  OBVIOUS
<1>1. CASE BeginTick \/ RefreshScoreboard \/ ChooseBoxes \/ CheckBudget \/ EndTick
  BY <1>1, BeginStep, RefreshStep, ChooseStep, CheckStep, EndStep
<1>2. CASE \E g \in Game : SpawnFetch(g) \/ TriggerBoxFetch(g)
  BY <1>2, SpawnStep, TriggerStep
<1>3. CASE \E f \in Asker : FetchFails(f) \/ Receive(f) \/ RecordRefused(f) \/ Finalize(f) \/ Record(f)
  BY <1>3, FailStep, ReceiveStep, RefusedStep, FinalizeStep, RecordStep
<1>4. CASE \E g \in Game : GameGoesOn(g) \/ ScheduleSaysFinal(g) \/ ClosesWeek(g) \/ ReopenFinalGameStats(g)
  BY <1>4, WorldStep, ReopenStep
<1>5. CASE TimePasses \/ Relaunch
  BY <1>5, TimeStep, RelaunchStep
<1>6. CASE UNCHANGED pollVars
  <2>1. UNCHANGED <<clock, stage, flagged, games, finalDone, rows, pickemFinals, tracked, lastTrigger, circuitOpen,
                    budgetUsed, unseen, tick, fetch, frozen, posted, reopened, mishaps>>
    BY <1>6 DEF pollVars, memory, storeVars
  <2>2. PollShape'
    BY <2>1, ShapeParts, ShapeMade DEF PollInv
  <2>3. tick.pc # "slot" \/ tick.pc = "slot"
    OBVIOUS
  <2> QED
    BY <2>1, <2>2, TickFrame DEF PollInv, SlotsAreBounded, ChangeIsCarried
<1> QED
  BY <1>1, <1>2, <1>3, <1>4, <1>5, <1>6 DEF PollNext

LEMMA PollAlways == PollSpec => []PollInv
BY PollStarts, PollSteps, PTL DEF PollSpec

-----------------------------------------------------------------------------
(* What the poller promises *)

\* At every moment the poller is sound (PollerIsSound): a box it calls final is
\* complete and stored before it is shown, Pick'em settles that game from a
\* box, the budget is overspent by no more than the fetches that were under way
\* or waiting when it ran out, and at rest no reader keeps a snapshot older
\* than what the poller knows (Tick, TriggerBoxFetch, record, budgetRemaining).
THEOREM PollerStaysSound == PollSpec => []PollerIsSound
<1>1. PollInv => PollerIsSound
  <2> SUFFICES ASSUME PollInv
               PROVE  PollerIsSound
    OBVIOUS
  <2>1. PollerTypeOK /\ FinalIsStoredFirst /\ PickemHearsOfFinals
    BY DEF PollInv, PollShape
  <2>2. SpendingIsBounded
    <3>1. Waiting \in Nat /\ budgetUsed \in Nat
      BY ShapeParts DEF PollInv, Waiting
    <3> QED
      BY <3>1, FetchesAreFinite, ConstantsAreNumbers DEF PollInv, Committed, SpendingIsBounded
  <2>3. NothingUnseen
    BY DEF PollInv, ChangeIsCarried, Bears, NothingUnseen, Busy
  <2> QED
    BY <2>1, <2>2, <2>3 DEF PollerIsSound
<1> QED
  BY <1>1, PollAlways, PTL

\* A fetch recorded late does not replace a final box.
LEMMA FinalBoxStands ==
  ASSUME PollInv, NEW f \in Asker, Record(f), NEW h \in finalDone
  PROVE  h \in finalDone' /\ games'[h].box = games[h].box
<1> DEFINE c == fetch[f]
           old == games[f[2]]
           streak(changes) == IF changes \/ old = Missing THEN 0
                              ELSE IF c.tier = "fast" /\ old.streak < 2 THEN old.streak + 1 ELSE old.streak
<1>1. /\ h \in Game /\ games[h] \in Boxes /\ games[h] # Missing /\ games \in [Game -> {Missing} \cup Boxes]
      /\ f[2] \in Game
  BY ShapeParts, FetchParts DEF PollInv
<1>2. finalDone \subseteq finalDone'
  BY DEF Record
<1>3. CASE h # f[2]
  <2>1. games'[h] = games[h]
    BY <1>1, <1>3 DEF Record
  <2> QED
    BY <1>2, <2>1
<1>4. CASE h = f[2]
  <2>1. ~Puts(f)
    BY <1>4 DEF Puts
  <2>2. games'[h] = [games[h] EXCEPT !.streak = streak(FALSE)]
    BY <1>1, <1>4, <2>1 DEF Record
  <2> HIDE DEF streak
  <2>3. games'[h].box = games[h].box
    BY <1>1, <2>2 DEF Boxes
  <2> QED
    BY <1>2, <2>3
<1> QED
  BY <1>3, <1>4

LEMMA FinalBoxSteps ==
  ASSUME PollInv, PollNext, NEW h \in finalDone
  PROVE  (h \in finalDone' /\ games'[h].box = games[h].box) \/ EndTick \/ Relaunch
<1>1. CASE BeginTick \/ RefreshScoreboard \/ ChooseBoxes \/ CheckBudget \/ TimePasses
  BY <1>1 DEF BeginTick, RefreshScoreboard, ChooseBoxes, CheckBudget, TimePasses, memory
<1>2. CASE \E g \in Game : SpawnFetch(g) \/ TriggerBoxFetch(g)
  BY <1>2 DEF SpawnFetch, TriggerBoxFetch, memory
<1>3. CASE \E f \in Asker : FetchFails(f) \/ Receive(f) \/ RecordRefused(f) \/ Finalize(f)
  BY <1>3 DEF FetchFails, Receive, RecordRefused, Finalize, memory
<1>4. CASE \E f \in Asker : Record(f)
  BY <1>4, FinalBoxStands
<1>5. CASE \E g \in Game : GameGoesOn(g) \/ ScheduleSaysFinal(g) \/ ClosesWeek(g) \/ ReopenFinalGameStats(g)
  BY <1>5 DEF GameGoesOn, ScheduleSaysFinal, ClosesWeek, ReopenFinalGameStats, memory
<1> QED
  BY <1>1, <1>2, <1>3, <1>4, <1>5 DEF PollNext

LEMMA FirstBoxSteps ==
  ASSUME PollInv, PollNext, NEW h \in Game, frozen[h] # Missing
  PROVE  frozen'[h] = frozen[h] \/ ReopenFinalGameStats(h)
<1>1. frozen \in [Game -> {Missing} \cup 3..4]
  BY ShapeParts DEF PollInv
<1>2. CASE BeginTick \/ RefreshScoreboard \/ ChooseBoxes \/ CheckBudget \/ EndTick \/ TimePasses \/ Relaunch
  BY <1>2 DEF BeginTick, RefreshScoreboard, ChooseBoxes, CheckBudget, EndTick, TimePasses, Relaunch, storeVars
<1>3. CASE \E g \in Game : SpawnFetch(g) \/ TriggerBoxFetch(g)
  BY <1>3 DEF SpawnFetch, TriggerBoxFetch, storeVars
<1>4. CASE \E f \in Asker : FetchFails(f) \/ Receive(f) \/ RecordRefused(f) \/ Record(f)
  BY <1>4 DEF FetchFails, Receive, RecordRefused, Record, storeVars
<1>5. ASSUME NEW f \in Asker, Finalize(f)
      PROVE  frozen'[h] = frozen[h]
  <2>1. CASE h # f[2]
    BY <1>1, <1>5, <2>1 DEF Finalize
  <2>2. CASE h = f[2]
    BY <1>5, <2>2 DEF Finalize, Freezes
  <2> QED
    BY <2>1, <2>2
<1>6. ASSUME NEW g \in Game, GameGoesOn(g) \/ ScheduleSaysFinal(g) \/ ClosesWeek(g) \/ ReopenFinalGameStats(g)
      PROVE  frozen'[h] = frozen[h] \/ ReopenFinalGameStats(h)
  <2>1. CASE ReopenFinalGameStats(g) /\ g # h
    BY <1>1, <2>1 DEF ReopenFinalGameStats
  <2>2. CASE ReopenFinalGameStats(g) /\ g = h
    BY <2>2
  <2>3. CASE GameGoesOn(g) \/ ScheduleSaysFinal(g) \/ ClosesWeek(g)
    BY <2>3 DEF GameGoesOn, ScheduleSaysFinal, ClosesWeek, storeVars
  <2> QED
    BY <1>6, <2>1, <2>2, <2>3
<1> QED
  BY <1>2, <1>3, <1>4, <1>5, <1>6 DEF PollNext

\* What a step makes of a result Pick'em has.
Hardened(h) ==
  LET old == pickemFinals[h]
      new == pickemFinals'[h]
  IN  /\ new # Missing /\ (old.boxFinal => new.boxFinal)
      /\ old.boxFinal /\ new # old => new.at > old.at
      /\ h \in finalDone /\ old.boxFinal => new = old

LEMMA HardenedSteps ==
  ASSUME PollInv, PollNext, NEW h \in Game, pickemFinals[h] # Missing, ~Relaunch
  PROVE  Hardened(h)
<1>1. /\ PollShape /\ pickemFinals \in [Game -> {Missing} \cup Results] /\ pickemFinals[h] \in Results
  BY ShapeParts DEF PollInv
<1>2. pickemFinals'[h] = pickemFinals[h] => Hardened(h)
  BY DEF Hardened
<1>3. CASE BeginTick \/ ChooseBoxes \/ CheckBudget \/ EndTick \/ TimePasses
  BY <1>2, <1>3 DEF BeginTick, ChooseBoxes, CheckBudget, EndTick, TimePasses, memory
<1>4. CASE \E g \in Game : SpawnFetch(g) \/ TriggerBoxFetch(g)
  BY <1>2, <1>4 DEF SpawnFetch, TriggerBoxFetch, memory
<1>5. CASE \E f \in Asker : FetchFails(f) \/ RecordRefused(f) \/ Finalize(f) \/ Record(f)
  BY <1>2, <1>5 DEF FetchFails, RecordRefused, Finalize, Record, memory
<1>6. CASE \E g \in Game : GameGoesOn(g) \/ ScheduleSaysFinal(g) \/ ClosesWeek(g) \/ ReopenFinalGameStats(g)
  BY <1>2, <1>6 DEF GameGoesOn, ScheduleSaysFinal, ClosesWeek, ReopenFinalGameStats, memory
<1>7. CASE RefreshScoreboard
  <2>1. PICK covered, scored \in {tick.matched, {}} :
          pickemFinals' = [g \in Game |->
            IF g \in {q \in scored : Final(stage[q]) /\ Remembers(q, stage[q], FALSE, tick.at)}
            THEN Settled(stage[g], FALSE, tick.at) ELSE pickemFinals[g]]
    BY <1>7 DEF RefreshScoreboard
  <2>2. CASE h \in scored /\ Final(stage[h]) /\ Remembers(h, stage[h], FALSE, tick.at)
    <3>1. pickemFinals'[h] = Settled(stage[h], FALSE, tick.at) /\ ~pickemFinals[h].boxFinal
      BY <2>1, <2>2 DEF Remembers
    <3>2. Settled(stage[h], FALSE, tick.at) \in Results
      <4>1. tick \in Passes /\ stage[h] \in 0..4
        BY <1>1, <1>7, PassParts, ShapeParts DEF RefreshScoreboard
      <4> QED
        BY <2>2, <4>1 DEF Settled, Results, Passes, Final
    <3> QED
      BY <1>1, <3>1, <3>2, RecordsExist DEF Hardened
  <2>3. CASE ~(h \in scored /\ Final(stage[h]) /\ Remembers(h, stage[h], FALSE, tick.at))
    BY <1>2, <2>1, <2>3
  <2> QED
    BY <2>2, <2>3
<1>8. ASSUME NEW f \in Asker, Receive(f)
      PROVE  Hardened(h)
  <2>1. fetch[f] \in SentFetches /\ f[2] \in Game /\ stage[f[2]] \in 0..4
    BY <1>1, <1>8, FetchParts, ShapeParts DEF Receive
  <2>2. PICK box \in fetch[f].box .. stage[f[2]], scored \in BOOLEAN :
          pickemFinals' = IF Final(box) /\ scored /\ f[2] \notin finalDone /\ Remembers(f[2], box, TRUE, fetch[f].at)
                          THEN [pickemFinals EXCEPT ![f[2]] = Settled(box, TRUE, fetch[f].at)] ELSE pickemFinals
    BY <1>8 DEF Receive
  <2>3. CASE h = f[2] /\ Final(box) /\ scored /\ f[2] \notin finalDone /\ Remembers(f[2], box, TRUE, fetch[f].at)
    <3>1. pickemFinals'[h] = Settled(box, TRUE, fetch[f].at)
      BY <1>1, <2>2, <2>3
    <3>2. Settled(box, TRUE, fetch[f].at) \in Results
      BY <2>1, <2>3 DEF SentFetches, Settled, Results, Final
    <3>3. /\ Settled(box, TRUE, fetch[f].at).boxFinal /\ Settled(box, TRUE, fetch[f].at).at = fetch[f].at
          /\ pickemFinals[h].boxFinal => fetch[f].at > pickemFinals[h].at
      BY <2>3 DEF Settled, Remembers
    <3> QED
      BY <2>3, <3>1, <3>2, <3>3, RecordsExist DEF Hardened
  <2>4. CASE ~(h = f[2] /\ Final(box) /\ scored /\ f[2] \notin finalDone /\ Remembers(f[2], box, TRUE, fetch[f].at))
    <3>1. pickemFinals'[h] = pickemFinals[h]
      BY <1>1, <2>2, <2>4
    <3> QED
      BY <1>2, <3>1
  <2> QED
    BY <2>3, <2>4
<1> QED
  BY <1>3, <1>4, <1>5, <1>6, <1>7, <1>8 DEF PollNext

\* No step of the poller, the provider or the commissioner takes a final back
\* (FinalsStayFinal): a final box stays its game's box until the week is pruned
\* or the process ends, the first box the Store took counts until a
\* commissioner reopens it, and Pick'em's result only hardens (record,
\* RecordFinalGameStats, rememberPickemFinalLocked).
THEOREM FinalsStandFirm == PollSpec => FinalsStayFinal
<1>1. PollInv /\ [PollNext]_pollVars =>
        [\A g \in finalDone :
           \/ g \in finalDone' /\ games'[g].box = games[g].box
           \/ EndTick \/ Relaunch]_pollVars
  BY FinalBoxSteps
<1>2. PollInv /\ [PollNext]_pollVars =>
        [\A g \in Game : frozen[g] # Missing => frozen'[g] = frozen[g] \/ ReopenFinalGameStats(g)]_pollVars
  BY FirstBoxSteps
<1>3. PollInv /\ [PollNext]_pollVars =>
        [\A g \in Game : pickemFinals[g] # Missing /\ ~Relaunch =>
           LET old == pickemFinals[g]
               new == pickemFinals'[g]
           IN  /\ new # Missing /\ (old.boxFinal => new.boxFinal)
               /\ old.boxFinal /\ new # old => new.at > old.at
               /\ g \in finalDone /\ old.boxFinal => new = old]_pollVars
  BY HardenedSteps DEF Hardened
<1>4. PollSpec => FinalBoxStays
  BY <1>1, PollAlways, PTL DEF PollSpec, FinalBoxStays
<1>5. PollSpec => FirstBoxCounts
  BY <1>2, PollAlways, PTL DEF PollSpec, FirstBoxCounts
<1>6. PollSpec => PickemHardens
  BY <1>3, PollAlways, PTL DEF PollSpec, PickemHardens
<1> QED
  BY <1>4, <1>5, <1>6 DEF FinalsStayFinal

-----------------------------------------------------------------------------
(* Pick'em *)

ScheduleRows == [kick : Instant, line : Price, margin : Margin \cup {Unscored, Unset}]
Schedules == [Contest -> ScheduleRows]
Markets ==
  [line : Price, seen : Instant, lock : Instant, state : {"open", "frozen", "void"}, decided : Instant]
Requests ==
  [pc : {"reconcile", "check", "backfill", "set"}, at : Time, games : Schedules, seen : Instant,
   game : Contest \cup {Unset}, side : Side \cup {Unset}]

-----------------------------------------------------------------------------
(* The inductive invariant *)

CallsAreTyped ==
  /\ call \in [Owner \cup {Tick} -> {NoCall} \cup Requests]
  /\ \A o \in Owner : call[o] # NoCall => call[o].game \in Contest /\ call[o].side \in Side

\* A request in flight is of this interval or of the one before, and a kickoff
\* it read has moved only to an instant it does not see.
CallsAreRecent ==
  \A c \in Active :
    /\ call[c].at <= now /\ now <= call[c].at + 1
    /\ \A g \in Contest : feed[g].kick = call[c].games[g].kick \/ call[c].at + 2 <= feed[g].kick

\* A pick was begun before the kickoff of its game.
PicksAreTimely ==
  \A o \in Owner : call[o] # NoCall =>
    call[o].games[call[o].game].kick # TBA /\ call[o].at < call[o].games[call[o].game].kick

\* Only a void market is without a line.
MarketsArePriced == \A g \in Contest : market[g] # Unset /\ market[g].state # "void" => market[g].line # Unset

\* A pick that read the clock at or past the lock is past a decided market,
\* and past the check of a frozen one.
PicksAreChecked ==
  \A o \in Owner : call[o] # NoCall /\ LockOf(call[o].games, call[o].game) <= call[o].at =>
    /\ call[o].pc # "reconcile" => MarketOver(market[call[o].game])
    /\ call[o].pc \in {"backfill", "set"} => market[call[o].game].state # "void"

\* Past the backfill only picks of games without a kickoff leave a member
\* without an entry instant.
BackfillIsDone ==
  \A o \in Owner : call[o] # NoCall /\ call[o].pc = "set" /\ entered[o] = 0 =>
    \A g \in Contest : picks[o][g] \in Side => call[o].games[g].kick = TBA

PickemInv ==
  /\ PickemIsSound /\ CallsAreTyped /\ CallsAreRecent /\ PicksAreTimely
  /\ MarketsArePriced /\ PicksAreChecked /\ BackfillIsDone

-----------------------------------------------------------------------------
(* Instants *)

LEMMA Numbers ==
  /\ LastTurn \in Nat /\ Time \subseteq Instant /\ Instant \subseteq Nat /\ 0 \notin Time
  /\ Thursdays \subseteq Instant /\ \A t \in Time : Eve[t] \in Instant
<1>1. LastTurn \in Nat /\ Thursdays \subseteq Time /\ Eve \in [Time -> Nat] /\ \A t \in Time : Eve[t] < t
  BY PickemNumbers
<1> QED
  BY <1>1 DEF Time, Instant

\* A set of instants has an earliest.
LEMMA EarliestIsLeast ==
  ASSUME NEW S \in SUBSET Instant
  PROVE  /\ Earliest(S) \in Instant
         /\ S = {} => Earliest(S) = 0
         /\ S # {} => Earliest(S) \in S /\ \A u \in S : Earliest(S) <= u
<1>1. CASE S = {}
  BY <1>1, Numbers DEF Earliest, Instant
<1>2. CASE S # {}
  <2> DEFINE T == {0..i : i \in S}
  <2>1. S \subseteq Nat
    BY Numbers
  <2>2. T \subseteq FiniteSubsetsOf(Nat) /\ T # {}
    <3>1. \A i \in S : IsFiniteSet(0..i) /\ 0..i \subseteq Nat
      BY <2>1, FS_Interval
    <3> QED
      BY <1>2, <3>1 DEF FiniteSubsetsOf
  <2>3. IsWellFoundedOn(StrictSubsetOrdering(Nat), FiniteSubsetsOf(Nat))
    BY FS_StrictSubsetOrderingWellFounded
  <2> HIDE DEF T
  <2>4. PICK x \in T : \A y \in T : ~(<<y, x>> \in StrictSubsetOrdering(Nat))
    BY <2>2, <2>3, WFMin
  <2>5. PICK i \in S : x = 0..i
    BY <2>4 DEF T
  <2>6. \A u \in S : i <= u
    <3>1. SUFFICES ASSUME NEW u \in S, u < i PROVE FALSE
      BY <2>1
    <3>2. 0..u \in T
      BY DEF T
    <3>3. <<0..u, 0..i>> \in StrictSubsetOrdering(Nat)
      BY <2>1, <3>1 DEF StrictSubsetOrdering
    <3> QED
      BY <2>4, <2>5, <3>2, <3>3
  <2>7. \E t \in S : \A u \in S : t <= u
    BY <2>6
  <2> QED
    BY <1>2, <2>7 DEF Earliest
<1> QED
  BY <1>1, <1>2

LEMMA LockType ==
  ASSUME NEW sched \in Schedules, NEW g \in Contest
  PROVE  LockOf(sched, g) \in Instant /\ (sched[g].kick # TBA => LockOf(sched, g) # 0)
<1>1. \A h \in Contest : sched[h].kick \in Instant
  BY DEF Schedules, ScheduleRows
<1>2. Kicks(sched) \in SUBSET Instant /\ TBA \notin Kicks(sched)
  BY <1>1 DEF Kicks
<1>3. WeekLock(sched) \in Instant
  <2>1. Kicks(sched) \cap Thursdays \in SUBSET Instant
    BY <1>2
  <2>2. Earliest(Kicks(sched) \cap Thursdays) \in Instant
    BY <2>1, EarliestIsLeast
  <2>3. Kicks(sched) # {} => Earliest(Kicks(sched)) \in Time
    <3>1. Kicks(sched) # {} => Earliest(Kicks(sched)) \in Kicks(sched)
      BY <1>2, EarliestIsLeast
    <3>2. \A t \in Instant : t # 0 => t \in Time
      BY Numbers DEF Instant, Time
    <3> QED
      BY <1>2, <3>1, <3>2 DEF TBA
  <2>4. 0 \in Instant
    BY Numbers DEF Instant
  <2> QED
    BY <2>2, <2>3, <2>4, Numbers DEF WeekLock
<1> QED
  BY <1>1, <1>3 DEF LockOf, TBA

-----------------------------------------------------------------------------
(* The market *)

LEMMA MarketsExist == Unset \notin Markets
<1>1. Markets \subseteq [line : Line \cup {Unset}, seen : Nat, lock : Nat, state : {"open", "frozen", "void"}, decided : Nat]
  BY Numbers DEF Markets, Price
<1> QED
  BY <1>1, PickemNumbers

LEMMA CandidateType ==
  ASSUME NEW c \in Requests, NEW g \in Contest, NEW lockAt \in Instant
  PROVE  Candidate(c, g, lockAt) \in Markets
<1>1. c.games[g].line \in Price /\ c.seen \in Instant /\ 0 \in Instant
  BY Numbers DEF Requests, Schedules, ScheduleRows, Instant
<1> QED
  BY <1>1 DEF Candidate, Markets

\* What a reading c of the schedule may make of the market m of a game.
MayBecome(c, g, m, n) ==
  /\ n \in {Unset} \cup Markets
  /\ MarketOver(m) => n = m
  /\ m # Unset => n # Unset
  /\ n # Unset /\ n.state # "void" => n.line # Unset
  /\ n # Unset /\ n.state = "frozen" => n.seen <= n.lock /\ n.lock <= n.decided
  /\ m # Unset /\ ~MarketOver(m) => n.seen >= m.seen \/ (MarketOver(n) /\ m.seen > n.lock)
  /\ c.games[g].kick # TBA /\ LockOf(c.games, g) <= c.at => MarketOver(n)

LEMMA ReconciledMarket ==
  ASSUME PickemInv, NEW c \in Requests, NEW g \in Contest
  PROVE  MayBecome(c, g, market[g], Reconciled(c, g))
<1> DEFINE m == market[g]
           n == Reconciled(c, g)
           lockAt == LockOf(c.games, g)
           kept == m # Unset /\ m.line # Unset /\ m.seen # 0 /\ m.seen <= lockAt
           fresh == Eligible(c, g, lockAt) /\ (kept => NoOlder(c, m))
           candidate == Candidate(c, g, lockAt)
<1>1. c.games \in Schedules /\ c.at \in Instant /\ c.seen \in Instant /\ Instant \subseteq Nat
  BY Numbers DEF Requests
<1>2. lockAt \in Instant /\ lockAt \in Nat /\ c.at \in Nat /\ c.seen \in Nat /\ (c.games[g].kick # TBA => lockAt # 0)
  BY <1>1, LockType
<1>3. /\ candidate \in Markets /\ candidate.seen = c.seen /\ candidate.line = c.games[g].line
      /\ candidate.state = "open" /\ candidate.lock = lockAt
  BY <1>2, CandidateType DEF Candidate
<1>4. m \in {Unset} \cup Markets
  BY DEF PickemInv, PickemIsSound, PickemTypeOK, Markets
<1>5. /\ m # Unset /\ m.state # "void" => m.line # Unset
      /\ m # Unset /\ m.state = "frozen" => m.seen <= m.lock /\ m.lock <= m.decided
  BY DEF PickemInv, PickemIsSound, LinesAreEarly, MarketsArePriced
<1>6. m # Unset => m.seen \in Nat
  BY <1>1, <1>4 DEF Markets
<1>7. n = IF lockAt = 0 \/ MarketOver(m) THEN m
          ELSE IF c.at < lockAt
          THEN IF Eligible(c, g, c.at) /\ NoOlder(c, m) THEN candidate ELSE m
          ELSE IF fresh THEN Decided(candidate, lockAt, "frozen", c.at)
          ELSE IF kept THEN Decided(m, lockAt, "frozen", c.at)
          ELSE Decided(candidate, lockAt, "void", c.at)
  BY DEF Reconciled
<1>8. fresh => c.games[g].line # Unset /\ c.seen <= lockAt /\ (kept => m.seen = 0 \/ c.seen >= m.seen)
  BY DEF Eligible, NoOlder
<1>9. kept => m \in Markets /\ m.line # Unset /\ m.seen <= lockAt /\ m.seen # 0
  BY <1>4
<1>10. m # Unset /\ ~MarketOver(m) /\ ~kept => m.seen = 0 \/ m.seen > lockAt
  <2>1. SUFFICES ASSUME m # Unset, m.state = "open", ~kept PROVE m.seen = 0 \/ m.seen > lockAt
    BY DEF MarketOver
  <2>2. m.line # Unset
    BY <1>5, <2>1
  <2>3. m.seen \in Nat /\ lockAt \in Nat
    BY <1>2, <1>6, <2>1
  <2> QED
    BY <2>1, <2>2, <2>3
<1> SUFFICES MayBecome(c, g, m, n)
  OBVIOUS
<1> HIDE DEF m, n, lockAt, kept, fresh, candidate
<1>11. CASE lockAt = 0 \/ MarketOver(m)
  BY <1>1, <1>2, <1>4, <1>5, <1>6, <1>7, <1>11 DEF lockAt, MayBecome
<1>12. CASE ~(lockAt = 0 \/ MarketOver(m)) /\ c.at < lockAt
  <2>1. CASE Eligible(c, g, c.at) /\ NoOlder(c, m)
    <3>1. n = candidate /\ candidate.line # Unset /\ (m # Unset => m.seen = 0 \/ c.seen >= m.seen)
      BY <1>3, <1>7, <1>12, <2>1 DEF Eligible, NoOlder
    <3> QED
      BY <1>1, <1>2, <1>3, <1>6, <1>12, <3>1, MarketsExist DEF lockAt, MayBecome
  <2>2. CASE ~(Eligible(c, g, c.at) /\ NoOlder(c, m))
    BY <1>1, <1>2, <1>4, <1>5, <1>6, <1>7, <1>12, <2>2 DEF lockAt, MayBecome
  <2> QED
    BY <2>1, <2>2
<1>13. CASE ~(lockAt = 0 \/ MarketOver(m)) /\ ~(c.at < lockAt)
  <2>1. CASE fresh
    <3>1. n = Decided(candidate, lockAt, "frozen", c.at)
      BY <1>7, <1>13, <2>1
    <3>2. /\ n \in Markets /\ n.lock = lockAt /\ n.state = "frozen" /\ n.decided = c.at /\ n.seen = c.seen
          /\ n.line = c.games[g].line
      <4>1. candidate \in Markets /\ lockAt \in Instant /\ c.at \in Instant
        BY <1>1, <1>2, <1>3
      <4> QED
        BY <1>3, <3>1, <4>1 DEF Decided, Markets, Price
    <3>3. n # Unset /\ MarketOver(n)
      BY <3>2, MarketsExist DEF MarketOver
    <3> QED
      BY <1>1, <1>2, <1>6, <1>8, <1>10, <1>13, <2>1, <3>2, <3>3 DEF lockAt, MayBecome
  <2>2. CASE ~fresh /\ kept
    <3>1. n = Decided(m, lockAt, "frozen", c.at)
      BY <1>7, <1>13, <2>2
    <3>2. /\ n \in Markets /\ n.lock = lockAt /\ n.state = "frozen" /\ n.decided = c.at /\ n.seen = m.seen
          /\ n.line = m.line
      <4>1. m \in Markets /\ lockAt \in Instant /\ c.at \in Instant
        BY <1>1, <1>2, <1>9, <2>2
      <4> QED
        BY <3>1, <4>1 DEF Decided, Markets, Price
    <3>3. n # Unset /\ MarketOver(n)
      BY <3>2, MarketsExist DEF MarketOver
    <3> QED
      BY <1>1, <1>2, <1>6, <1>9, <1>13, <2>2, <3>2, <3>3 DEF lockAt, MayBecome
  <2>3. CASE ~fresh /\ ~kept
    <3>1. n = Decided(candidate, lockAt, "void", c.at)
      BY <1>7, <1>13, <2>3
    <3>2. n \in Markets /\ n.lock = lockAt /\ n.state = "void" /\ n.seen = c.seen
      <4>1. candidate \in Markets /\ lockAt \in Instant /\ c.at \in Instant
        BY <1>1, <1>2, <1>3
      <4> QED
        BY <1>3, <3>1, <4>1 DEF Decided, Markets, Price
    <3>3. n # Unset /\ MarketOver(n)
      BY <3>2, MarketsExist DEF MarketOver
    <3> QED
      BY <1>1, <1>2, <1>6, <1>10, <1>13, <2>3, <3>2, <3>3 DEF lockAt, MayBecome
  <2> QED
    BY <2>1, <2>2, <2>3
<1> QED
  BY <1>11, <1>12, <1>13

-----------------------------------------------------------------------------
(* The invariant, step by step *)

LEMMA InvParts ==
  ASSUME PickemInv
  PROVE  /\ now \in Time /\ now \in Nat /\ seen \in Instant /\ feed \in Schedules
         /\ live \in [Contest -> Margin \cup {Unset}] /\ market \in [Contest -> {Unset} \cup Markets]
         /\ picks \in [Owner -> [Contest -> Side \cup {Unset}]] /\ entered \in [Owner -> Instant]
         /\ call \in [Owner \cup {Tick} -> {NoCall} \cup Requests]
         /\ \A o \in Owner : call[o] # NoCall => call[o].game \in Contest /\ call[o].side \in Side
BY Numbers DEF PickemInv, PickemIsSound, PickemTypeOK, CallsAreTyped, Schedules, ScheduleRows, Markets

LEMMA SoundMade ==
  ASSUME now' \in Time, seen' \in Instant, feed' \in Schedules, live' \in [Contest -> Margin \cup {Unset}],
         market' \in [Contest -> {Unset} \cup Markets], picks' \in [Owner -> [Contest -> Side \cup {Unset}]],
         entered' \in [Owner -> Instant], LinesAreEarly', EntrantsAreEntered'
  PROVE  PickemIsSound'
BY DEF PickemIsSound, PickemTypeOK, Schedules, ScheduleRows, Markets

\* A request is known by what it is at.
LEMMA RequestParts ==
  ASSUME PickemInv, NEW c \in Owner \cup {Tick}
  PROVE  /\ call[c] = NoCall <=> call[c].pc = "off"
         /\ c \in Active <=> call[c] # NoCall
         /\ call[c] # NoCall => call[c] \in Requests /\ call[c].pc \in {"reconcile", "check", "backfill", "set"}
                                /\ call[c].at \in Time /\ call[c].at \in Nat /\ call[c].games \in Schedules
<1>1. call[c] \in {NoCall} \cup Requests /\ Time \subseteq Nat
  BY InvParts, Numbers
<1>2. NoCall.pc = "off"
  BY DEF NoCall
<1>3. ASSUME call[c] \in Requests
      PROVE  /\ call[c].pc \in {"reconcile", "check", "backfill", "set"} /\ call[c].at \in Time
             /\ call[c].games \in Schedules
  BY <1>3 DEF Requests
<1>4. CASE call[c] = NoCall
  BY <1>2, <1>4 DEF Active
<1>5. CASE call[c] # NoCall
  <2>1. call[c] \in Requests
    BY <1>1, <1>5
  <2>2. call[c].pc # "off"
    BY <1>3, <2>1
  <2> QED
    BY <1>1, <1>3, <1>5, <2>1, <2>2 DEF Active
<1> QED
  BY <1>4, <1>5

LEMMA KicksAreInstants ==
  ASSUME NEW sched \in Schedules, NEW g \in Contest
  PROVE  sched[g].kick \in Instant /\ sched[g].kick \in Nat
BY Numbers DEF Schedules, ScheduleRows

LEMMA OwnersDoNotTick == Tick \notin Owner
BY PickemNumbers DEF Tick

LEMMA PickemBegins ==
  ASSUME PickemInit
  PROVE  PickemInv
<1>1. now \in Time /\ seen \in Instant
  BY PickemNumbers DEF PickemInit, Time, Instant
<1>2. feed \in Schedules
  <2>1. \A g \in Contest : FirstKick[g] \in Instant /\ FirstLine[g] \in Price
    BY PickemNumbers DEF Time, Instant, Price, TBA
  <2> QED
    BY <2>1 DEF PickemInit, Schedules, ScheduleRows
<1>3. live \in [Contest -> Margin \cup {Unset}] /\ entered \in [Owner -> Instant]
  BY Numbers DEF PickemInit, NoFinals, Instant
<1>4. picks \in [Owner -> [Contest -> Side \cup {Unset}]] /\ picks = FirstPicks
  BY PickemNumbers DEF PickemInit
<1>5. \A g \in Contest : market[g] = Unset
  BY DEF PickemInit
<1>6. market \in [Contest -> {Unset} \cup Markets]
  BY DEF PickemInit
<1>7. PickemIsSound
  <2>1. PickemTypeOK
    BY <1>1, <1>2, <1>3, <1>4, <1>6 DEF PickemTypeOK, Schedules, ScheduleRows, Markets
  <2>2. LinesAreEarly
    BY <1>5 DEF LinesAreEarly
  <2>3. EntrantsAreEntered
    BY <1>4 DEF EntrantsAreEntered
  <2> QED
    BY <2>1, <2>2, <2>3 DEF PickemIsSound
<1>8. call \in [Owner \cup {Tick} -> {NoCall} \cup Requests] /\ \A c \in Owner \cup {Tick} : call[c] = NoCall
  BY DEF PickemInit, Quiet
<1>9. Active = {}
  BY <1>8 DEF Active, NoCall
<1> QED
  BY <1>5, <1>7, <1>8, <1>9
     DEF PickemInv, CallsAreTyped, CallsAreRecent, PicksAreTimely, MarketsArePriced, PicksAreChecked, BackfillIsDone

\* A reading of the schedule begins a request.
LEMMA ReadingType ==
  ASSUME PickemInv, NEW g \in Contest \cup {Unset}, NEW side \in Side \cup {Unset}
  PROVE  /\ Reading(g, side) \in Requests /\ Reading(g, side) # NoCall
         /\ Reading(g, side).pc = "reconcile" /\ Reading(g, side).at = now /\ Reading(g, side).games = feed
         /\ Reading(g, side).game = g /\ Reading(g, side).side = side
<1>1. now \in Time /\ seen \in Instant /\ feed \in Schedules
  BY InvParts
<1> QED
  BY <1>1 DEF Reading, Requests, NoCall

\* A request that begins, goes on or ends, and nothing else.
LEMMA CallFrame ==
  ASSUME PickemInv, UNCHANGED <<world, market, picks, entered>>,
         NEW c \in Owner \cup {Tick}, NEW r \in {NoCall} \cup Requests, call' = [call EXCEPT ![c] = r],
         c \in Owner /\ r # NoCall => r.game \in Contest /\ r.side \in Side,
         r # NoCall => /\ r.at <= now /\ now <= r.at + 1
                       /\ \A g \in Contest : feed[g].kick = r.games[g].kick \/ r.at + 2 <= feed[g].kick,
         c \in Owner /\ r # NoCall => r.games[r.game].kick # TBA /\ r.at < r.games[r.game].kick,
         c \in Owner /\ r # NoCall /\ LockOf(r.games, r.game) <= r.at =>
           /\ r.pc # "reconcile" => MarketOver(market[r.game])
           /\ r.pc \in {"backfill", "set"} => market[r.game].state # "void",
         r.pc # "set"
  PROVE  PickemInv'
<1>1. PickemIsSound' /\ MarketsArePriced'
  BY DEF PickemInv, PickemIsSound, PickemTypeOK, LinesAreEarly, EntrantsAreEntered, MarketsArePriced, world
<1>2. \A d \in Owner \cup {Tick} : call'[d] = IF d = c THEN r ELSE call[d]
  BY InvParts
<1>3. CallsAreTyped'
  BY <1>2, InvParts DEF CallsAreTyped
<1>4. CallsAreRecent'
  <2>1. \A d \in Active' : d \in Owner \cup {Tick} /\ (d # c => d \in Active /\ call'[d] = call[d]) /\ (d = c => r # NoCall /\ call'[d] = r)
    BY <1>2 DEF Active, NoCall
  <2> QED
    BY <2>1 DEF PickemInv, CallsAreRecent, world
<1>5. PicksAreTimely'
  BY <1>2 DEF PickemInv, PicksAreTimely
<1>6. PicksAreChecked'
  <2>1. \A m, n : m = n => (MarketOver(m) <=> MarketOver(n))
    OBVIOUS
  <2> QED
    BY <1>2, <2>1 DEF PickemInv, PicksAreChecked
<1>7. BackfillIsDone'
  BY <1>2 DEF PickemInv, BackfillIsDone
<1> QED
  BY <1>1, <1>3, <1>4, <1>5, <1>6, <1>7 DEF PickemInv

LEMMA RequestStep ==
  ASSUME PickemInv, StartTick \/ \E o \in Owner, g \in Contest, side \in Side : BeginPick(o, g, side)
  PROVE  PickemInv'
<1>1. CASE StartTick
  <2>1. call' = [call EXCEPT ![Tick] = Reading(Unset, Unset)] /\ UNCHANGED <<world, market, picks, entered>>
    BY <1>1 DEF StartTick
  <2>2. Reading(Unset, Unset) \in Requests /\ Reading(Unset, Unset).at = now /\ Reading(Unset, Unset).games = feed
        /\ Reading(Unset, Unset).pc = "reconcile"
    BY ReadingType
  <2>3. now \in Nat
    BY InvParts
  <2> HIDE DEF Reading
  <2> DEFINE r == Reading(Unset, Unset)
  <2>4. r.at <= now /\ now <= r.at + 1 /\ r.pc # "set" /\ \A g \in Contest : feed[g].kick = r.games[g].kick
    BY <2>2, <2>3
  <2> QED
    BY <2>1, <2>2, <2>4, CallFrame, OwnersDoNotTick
<1>2. ASSUME NEW o \in Owner, NEW g \in Contest, NEW side \in Side, BeginPick(o, g, side)
      PROVE  PickemInv'
  <2> DEFINE r == Reading(g, side)
  <2>1. call' = [call EXCEPT ![o] = r] /\ UNCHANGED <<world, market, picks, entered>>
    BY <1>2 DEF BeginPick
  <2>2. /\ r \in Requests /\ r.at = now /\ r.games = feed /\ r.pc = "reconcile"
        /\ r.game = g /\ r.side = side
    BY ReadingType
  <2>3. now \in Nat /\ feed[g].kick # TBA /\ now < feed[g].kick
    BY <1>2, InvParts DEF BeginPick, Pickable
  <2> HIDE DEF r
  <2>4. r.at <= now /\ now <= r.at + 1 /\ r.pc # "set" /\ \A h \in Contest : feed[h].kick = r.games[h].kick
    BY <2>2, <2>3
  <2> QED
    BY <2>1, <2>2, <2>3, <2>4, CallFrame
<1> QED
  BY <1>1, <1>2

LEMMA MarketCheckStep ==
  ASSUME PickemInv, NEW o \in Owner, CheckMarket(o)
  PROVE  PickemInv'
<1> DEFINE r == IF Refuses(o) THEN NoCall ELSE [call[o] EXCEPT !.pc = "backfill"]
<1>1. call' = [call EXCEPT ![o] = r] /\ UNCHANGED <<world, market, picks, entered>> /\ call[o].pc = "check"
  BY InvParts DEF CheckMarket
<1>2. call[o] # NoCall /\ call[o] \in Requests /\ o \in Active
  BY <1>1, RequestParts
<1>3. CASE Refuses(o)
  <2>1. r = NoCall /\ NoCall.pc # "set"
    BY <1>3 DEF NoCall
  <2> QED
    BY <1>1, <2>1, CallFrame
<1>4. CASE ~Refuses(o)
  <2>1. r = [call[o] EXCEPT !.pc = "backfill"]
    BY <1>4
  <2>2. /\ r \in Requests /\ r.pc = "backfill" /\ r.at = call[o].at /\ r.games = call[o].games
        /\ r.game = call[o].game /\ r.side = call[o].side
    BY <1>2, <2>1 DEF Requests
  <2>3. LockOf(r.games, r.game) <= r.at => MarketOver(market[r.game])
    BY <1>1, <1>2, <2>2 DEF PickemInv, PicksAreChecked
  <2>4. MarketOver(market[r.game]) => market[r.game].state # "void"
    BY <1>4, <2>2 DEF Refuses, Unavailable, MarketOver
  <2>5. r.game \in Contest /\ r.side \in Side /\ r.games[r.game].kick # TBA /\ r.at < r.games[r.game].kick
    BY <1>2, <2>2, InvParts DEF PickemInv, PicksAreTimely
  <2>6. /\ r.at <= now /\ now <= r.at + 1
        /\ \A g \in Contest : feed[g].kick = r.games[g].kick \/ r.at + 2 <= feed[g].kick
    BY <1>2, <2>2 DEF PickemInv, CallsAreRecent
  <2> HIDE DEF r
  <2> QED
    BY <1>1, <2>2, <2>3, <2>4, <2>5, <2>6, CallFrame
<1> QED
  BY <1>3, <1>4

\* The steps of the market, of the entry instants and of the picks
LEMMA ReconcileStep ==
  ASSUME PickemInv, NEW c \in Owner \cup {Tick}, Reconcile(c)
  PROVE  PickemInv' /\ \A g \in Contest : MayBecome(call[c], g, market[g], market'[g])
<1>1. call[c].pc = "reconcile" /\ call[c] \in Requests /\ c \in Active /\ call[c] # NoCall
  BY RequestParts DEF Reconcile
<1> DEFINE r == [call[c] EXCEPT !.pc = IF c = Tick THEN "backfill" ELSE "check"]
<1>2. call' = [call EXCEPT ![c] = r] /\ UNCHANGED <<world, picks, entered>>
  BY InvParts DEF Reconcile
<1>3. /\ r \in Requests /\ r.at = call[c].at /\ r.games = call[c].games /\ r.game = call[c].game
      /\ r.side = call[c].side /\ r.pc \in {"backfill", "check"} /\ (c # Tick => r.pc = "check")
  BY <1>1 DEF Requests
<1> HIDE DEF r
<1>4. \A g \in Contest : MayBecome(call[c], g, market[g], market'[g])
  BY <1>1, ReconciledMarket DEF Reconcile
<1>5. market' \in [Contest -> {Unset} \cup Markets]
  <2>1. market' = [g \in Contest |-> market'[g]]
    BY DEF Reconcile
  <2> QED
    BY <1>4, <2>1 DEF MayBecome
<1>6. LinesAreEarly' /\ MarketsArePriced'
  <2>1. \A g \in Contest : market'[g] # Unset /\ market'[g].state # "void" => market'[g].line # Unset
    BY <1>4 DEF MayBecome
  <2>2. \A g \in Contest : market'[g] # Unset /\ market'[g].state = "frozen" =>
          market'[g].seen <= market'[g].lock /\ market'[g].lock <= market'[g].decided
    BY <1>4 DEF MayBecome
  <2> QED
    BY <2>1, <2>2 DEF LinesAreEarly, MarketsArePriced
<1>7. PickemIsSound'
  <2>1. EntrantsAreEntered'
    BY <1>2 DEF PickemInv, PickemIsSound, EntrantsAreEntered
  <2> QED
    BY <1>2, <1>5, <1>6, <2>1, InvParts, SoundMade DEF world
<1>8. \A d \in Owner \cup {Tick} : call'[d] = IF d = c THEN r ELSE call[d]
  BY <1>2, InvParts
<1>9. CallsAreTyped'
  BY <1>1, <1>2, <1>3, <1>8, InvParts DEF CallsAreTyped
<1>10. r # NoCall
  BY <1>3 DEF NoCall, Requests
<1>11. CallsAreRecent'
  <2>1. \A d \in Active' : d \in Active /\ call'[d].at = call[d].at /\ call'[d].games = call[d].games
    BY <1>1, <1>3, <1>8 DEF Active
  <2> QED
    BY <1>2, <2>1 DEF PickemInv, CallsAreRecent, world
<1>12. \A o \in Owner : call'[o] # NoCall =>
         /\ call[o] # NoCall /\ call'[o].at = call[o].at /\ call'[o].games = call[o].games /\ call'[o].game = call[o].game
         /\ call'[o].pc = IF o = c THEN "check" ELSE call[o].pc
  BY <1>1, <1>3, <1>8, OwnersDoNotTick
<1>13. PicksAreTimely'
  BY <1>12 DEF PickemInv, PicksAreTimely
<1>14. PicksAreChecked'
  <2>1. SUFFICES ASSUME NEW o \in Owner, call'[o] # NoCall, LockOf(call'[o].games, call'[o].game) <= call'[o].at
                 PROVE  /\ call'[o].pc # "reconcile" => MarketOver(market'[call'[o].game])
                        /\ call'[o].pc \in {"backfill", "set"} => market'[call'[o].game].state # "void"
    BY DEF PicksAreChecked
  <2>2. call[o] # NoCall /\ call[o].game \in Contest /\ call'[o].game = call[o].game
        /\ LockOf(call[o].games, call[o].game) <= call[o].at
    BY <1>12, <2>1, InvParts
  <2> DEFINE g == call[o].game
  <2>3. CASE o = c
    <3>1. call[o].games[g].kick # TBA
      BY <2>2 DEF PickemInv, PicksAreTimely
    <3>2. MarketOver(market'[g])
      BY <1>4, <2>2, <2>3, <3>1 DEF MayBecome
    <3>3. call'[o].pc = "check"
      BY <1>12, <2>1, <2>3
    <3> QED
      BY <2>2, <3>2, <3>3
  <2>4. CASE o # c
    <3>1. call'[o].pc = call[o].pc
      BY <1>12, <2>1, <2>4
    <3>2. MarketOver(market[g]) => market'[g] = market[g]
      BY <1>4, <2>2 DEF MayBecome
    <3>3. /\ call[o].pc # "reconcile" => MarketOver(market[g])
          /\ call[o].pc \in {"backfill", "set"} => market[g].state # "void"
      BY <2>2 DEF PickemInv, PicksAreChecked
    <3>4. CASE call[o].pc # "reconcile"
      BY <2>2, <3>1, <3>2, <3>3, <3>4
    <3>5. CASE call[o].pc = "reconcile"
      BY <3>1, <3>5
    <3> QED
      BY <3>4, <3>5
  <2> QED
    BY <2>3, <2>4
<1>15. BackfillIsDone'
  BY <1>2, <1>12 DEF PickemInv, BackfillIsDone
<1> QED
  BY <1>4, <1>6, <1>7, <1>9, <1>11, <1>13, <1>14, <1>15 DEF PickemInv

\* The entry instant of before it was kept is the first kickoff a member picked.
Picked(sched, o) == {sched[g].kick : g \in {h \in Contest : sched[h].kick # TBA /\ picks[o][h] \in Side}}

LEMMA LegacyEntryIsFirst ==
  ASSUME NEW sched \in Schedules, NEW o \in Owner
  PROVE  /\ LegacyEntry(sched, o) = Earliest(Picked(sched, o)) /\ Picked(sched, o) \in SUBSET Instant
         /\ LegacyEntry(sched, o) \in Instant /\ LegacyEntry(sched, o) \in Nat
         /\ LegacyEntry(sched, o) = 0 => \A g \in Contest : picks[o][g] \in Side => sched[g].kick = TBA
         /\ LegacyEntry(sched, o) # 0 =>
              \E g \in Contest : sched[g].kick # TBA /\ picks[o][g] \in Side /\ sched[g].kick = LegacyEntry(sched, o)
         /\ \A g \in Contest : sched[g].kick # TBA /\ picks[o][g] \in Side =>
              LegacyEntry(sched, o) # 0 /\ LegacyEntry(sched, o) <= sched[g].kick
<1>1. Picked(sched, o) \in SUBSET Instant /\ 0 \notin Picked(sched, o)
  BY KicksAreInstants DEF Picked, TBA
<1>2. LegacyEntry(sched, o) = Earliest(Picked(sched, o))
  BY DEF LegacyEntry, Picked
<1>3. /\ Earliest(Picked(sched, o)) \in Instant
      /\ Picked(sched, o) = {} => Earliest(Picked(sched, o)) = 0
      /\ Picked(sched, o) # {} => /\ Earliest(Picked(sched, o)) \in Picked(sched, o)
                                 /\ \A u \in Picked(sched, o) : Earliest(Picked(sched, o)) <= u
  BY <1>1, EarliestIsLeast
<1>4. \A g \in Contest : sched[g].kick # TBA /\ picks[o][g] \in Side => sched[g].kick \in Picked(sched, o)
  BY DEF Picked
<1>5. \A t \in Picked(sched, o) : \E g \in Contest : sched[g].kick # TBA /\ picks[o][g] \in Side /\ sched[g].kick = t
  BY DEF Picked
<1>6. LegacyEntry(sched, o) # 0 <=> Picked(sched, o) # {}
  BY <1>1, <1>2, <1>3
<1> QED
  BY <1>1, <1>2, <1>3, <1>4, <1>5, <1>6, Numbers

LEMMA BackfillStep ==
  ASSUME PickemInv, NEW c \in Owner \cup {Tick}, Backfill(c)
  PROVE  /\ PickemInv'
         /\ \A o \in Owner : entered'[o] = IF entered[o] # 0 THEN entered[o] ELSE LegacyEntry(call[c].games, o)
<1>1. call[c].pc = "backfill" /\ call[c] \in Requests /\ c \in Active /\ call[c] # NoCall /\ call[c].games \in Schedules
  BY RequestParts DEF Backfill
<1> DEFINE r == IF c = Tick THEN NoCall ELSE [call[c] EXCEPT !.pc = "set"]
<1>2. call' = [call EXCEPT ![c] = r] /\ UNCHANGED <<world, picks, market>>
  BY InvParts DEF Backfill
<1>3. /\ c = Tick => r = NoCall
      /\ c # Tick => /\ r \in Requests /\ r.at = call[c].at /\ r.games = call[c].games /\ r.game = call[c].game
                     /\ r.side = call[c].side /\ r.pc = "set"
  BY <1>1 DEF Requests
<1> HIDE DEF r
<1>4. \A o \in Owner : entered'[o] = IF entered[o] # 0 THEN entered[o] ELSE LegacyEntry(call[c].games, o)
  BY DEF Backfill, Backfilled
<1>5. entered' \in [Owner -> Instant]
  <2>1. entered' = [o \in Owner |-> entered'[o]]
    BY DEF Backfill, Backfilled
  <2>2. \A o \in Owner : entered'[o] \in Instant
    BY <1>1, <1>4, InvParts, LegacyEntryIsFirst
  <2> QED
    BY <2>1, <2>2
<1>6. PickemIsSound'
  <2>1. EntrantsAreEntered'
    BY <1>2, <1>4 DEF PickemInv, PickemIsSound, EntrantsAreEntered
  <2>2. LinesAreEarly'
    BY <1>2 DEF PickemInv, PickemIsSound, LinesAreEarly
  <2> QED
    BY <1>2, <1>5, <2>1, <2>2, InvParts, SoundMade DEF world
<1>7. \A d \in Owner \cup {Tick} : call'[d] = IF d = c THEN r ELSE call[d]
  BY <1>2, InvParts
<1>8. CallsAreTyped'
  BY <1>1, <1>2, <1>3, <1>7, InvParts DEF CallsAreTyped
<1>9. CallsAreRecent'
  <2>1. \A d \in Active' : d \in Active /\ call'[d].at = call[d].at /\ call'[d].games = call[d].games
    BY <1>1, <1>3, <1>7 DEF Active, NoCall
  <2> QED
    BY <1>2, <2>1 DEF PickemInv, CallsAreRecent, world
<1>10. \A o \in Owner : call'[o] # NoCall =>
         /\ call[o] # NoCall /\ call'[o].at = call[o].at /\ call'[o].games = call[o].games /\ call'[o].game = call[o].game
         /\ call'[o].pc = IF o = c THEN "set" ELSE call[o].pc
  BY <1>1, <1>3, <1>7
<1>11. PicksAreTimely'
  BY <1>10 DEF PickemInv, PicksAreTimely
<1>12. PicksAreChecked'
  BY <1>1, <1>2, <1>10 DEF PickemInv, PicksAreChecked, MarketOver
<1>13. MarketsArePriced'
  BY <1>2 DEF PickemInv, MarketsArePriced
<1>14. BackfillIsDone'
  <2>1. SUFFICES ASSUME NEW o \in Owner, call'[o] # NoCall, call'[o].pc = "set", entered'[o] = 0, NEW g \in Contest,
                        picks'[o][g] \in Side
                 PROVE  call'[o].games[g].kick = TBA
    BY DEF BackfillIsDone
  <2>2. call[o] # NoCall /\ call'[o].games = call[o].games /\ entered[o] = 0 /\ picks[o][g] \in Side
    BY <1>2, <1>4, <1>10, <2>1
  <2>3. CASE o = c
    <3>1. LegacyEntry(call[c].games, o) = 0
      BY <1>4, <2>1, <2>2
    <3> QED
      BY <1>1, <2>2, <2>3, <3>1, LegacyEntryIsFirst
  <2>4. CASE o # c
    BY <1>10, <2>1, <2>2, <2>4 DEF PickemInv, BackfillIsDone
  <2> QED
    BY <2>3, <2>4
<1> QED
  BY <1>4, <1>6, <1>8, <1>9, <1>11, <1>12, <1>13, <1>14 DEF PickemInv

LEMMA SetStep ==
  ASSUME PickemInv, NEW o \in Owner, SetPickem(o)
  PROVE  /\ PickemInv'
         /\ call[o] # NoCall /\ call[o].game \in Contest
         /\ \A p \in Owner, g \in Contest : p # o \/ g # call[o].game => picks'[p][g] = picks[p][g]
         /\ \A p \in Owner : p # o \/ entered[p] # 0 => entered'[p] = entered[p]
         /\ entered[o] = 0 => entered'[o] = call[o].at
<1>1. /\ call[o].pc = "set" /\ call[o] \in Requests /\ o \in Active /\ call[o] # NoCall /\ call[o].at \in Time
      /\ call[o].game \in Contest /\ call[o].side \in Side /\ call[o].at # 0 /\ call[o].at \in Instant
  BY RequestParts, InvParts, Numbers DEF SetPickem
<1>2. /\ picks' = [picks EXCEPT ![o][call[o].game] = call[o].side]
      /\ entered' = [entered EXCEPT ![o] = IF @ = 0 THEN call[o].at ELSE @]
      /\ call' = [call EXCEPT ![o] = NoCall] /\ UNCHANGED <<world, market>>
  BY DEF SetPickem
<1>3. /\ picks' \in [Owner -> [Contest -> Side \cup {Unset}]]
      /\ \A p \in Owner, g \in Contest : p # o \/ g # call[o].game => picks'[p][g] = picks[p][g]
      /\ \A p \in Owner : p # o => picks'[p] = picks[p]
  BY <1>1, <1>2, InvParts
<1>4. /\ entered' \in [Owner -> Instant]
      /\ \A p \in Owner : p # o \/ entered[p] # 0 => entered'[p] = entered[p]
      /\ entered[o] = 0 => entered'[o] = call[o].at
      /\ entered'[o] # 0
  BY <1>1, <1>2, InvParts
<1>5. \A d \in Owner \cup {Tick} : call'[d] = IF d = o THEN NoCall ELSE call[d]
  BY <1>2, InvParts
<1>6. PickemIsSound'
  <2>1. EntrantsAreEntered'
    BY <1>3, <1>4 DEF PickemInv, PickemIsSound, EntrantsAreEntered
  <2>2. LinesAreEarly'
    BY <1>2 DEF PickemInv, PickemIsSound, LinesAreEarly
  <2> QED
    BY <1>2, <1>3, <1>4, <2>1, <2>2, InvParts, SoundMade DEF world
<1>7. CallsAreTyped'
  BY <1>2, <1>5, InvParts DEF CallsAreTyped
<1>8. CallsAreRecent'
  <2>1. \A d \in Active' : d \in Active /\ call'[d] = call[d]
    BY <1>5 DEF Active, NoCall
  <2> QED
    BY <1>2, <2>1 DEF PickemInv, CallsAreRecent, world
<1>9. \A p \in Owner : call'[p] # NoCall => p # o /\ call'[p] = call[p] /\ call[p] # NoCall
  BY <1>5
<1>10. PicksAreTimely' /\ MarketsArePriced'
  BY <1>2, <1>9 DEF PickemInv, PicksAreTimely, MarketsArePriced
<1>11. PicksAreChecked'
  BY <1>2, <1>9 DEF PickemInv, PicksAreChecked, MarketOver
<1>12. BackfillIsDone'
  BY <1>3, <1>4, <1>9 DEF PickemInv, BackfillIsDone
<1> QED
  BY <1>1, <1>3, <1>4, <1>6, <1>7, <1>8, <1>10, <1>11, <1>12 DEF PickemInv

\* A kickoff that has passed or begins within an interval does not move, and a
\* complete score stays complete.
KicksMoveAhead ==
  \A g \in Contest :
    feed'[g].kick = feed[g].kick \/ (now + 2 <= feed'[g].kick /\ (feed[g].kick = TBA \/ now < feed[g].kick))

ScoresStay ==
  \A g \in Contest :
    \/ feed'[g].margin = feed[g].margin
    \/ feed'[g].margin \in Margin \cup {Unscored} /\ (feed[g].margin \in Margin => feed'[g].margin \in Margin)

\* The steps of the world
LEMMA MirrorStep ==
  ASSUME PickemInv, Refresh
  PROVE  /\ PickemInv'
         /\ KicksMoveAhead
         /\ ScoresStay
<1>1. now \in Time /\ now \in Nat /\ feed \in Schedules
  BY InvParts
<1>2. UNCHANGED <<now, live, market, picks, entered, call, restarts>> /\ seen' = now
  BY DEF Refresh
<1>3. /\ feed' \in Schedules
      /\ KicksMoveAhead
      /\ ScoresStay
  <2>1. CASE UNCHANGED feed
    BY <1>1, <2>1 DEF KicksMoveAhead, ScoresStay
  <2>2. ASSUME NEW g \in Contest, NEW line \in (Line \cup {Unset}) \ {feed[g].line}, feed' = [feed EXCEPT ![g].line = line]
        PROVE  feed' \in Schedules /\ KicksMoveAhead /\ ScoresStay
    BY <1>1, <2>2 DEF Schedules, ScheduleRows, Price, KicksMoveAhead, ScoresStay
  <2>3. ASSUME NEW g \in Contest, NEW margin \in (Margin \cup {Unscored}) \ {feed[g].margin},
               feed[g].margin \in Margin => margin \in Margin, feed' = [feed EXCEPT ![g].margin = margin]
        PROVE  feed' \in Schedules /\ KicksMoveAhead /\ ScoresStay
    BY <1>1, <2>3 DEF Schedules, ScheduleRows, KicksMoveAhead, ScoresStay
  <2>4. ASSUME NEW g \in Contest, NEW kick \in now + 2 .. LastTurn, feed[g].kick = TBA \/ now < feed[g].kick,
               feed' = [feed EXCEPT ![g].kick = kick]
        PROVE  feed' \in Schedules /\ KicksMoveAhead /\ ScoresStay
    <3>1. kick \in Instant /\ now + 2 <= kick
      BY <1>1, Numbers DEF Instant
    <3> QED
      BY <1>1, <2>4, <3>1 DEF Schedules, ScheduleRows, KicksMoveAhead, ScoresStay
  <2> QED
    BY <2>1, <2>2, <2>3, <2>4 DEF Refresh
<1>4. PickemIsSound'
  <2>1. LinesAreEarly' /\ EntrantsAreEntered'
    BY <1>2 DEF PickemInv, PickemIsSound, LinesAreEarly, EntrantsAreEntered
  <2> QED
    BY <1>1, <1>2, <1>3, <2>1, InvParts, Numbers, SoundMade
<1>5. CallsAreTyped'
  BY <1>2, InvParts DEF CallsAreTyped
<1>6. CallsAreRecent'
  <2>1. Active' = Active
    BY <1>2 DEF Active
  <2>2. SUFFICES ASSUME NEW c \in Active, NEW g \in Contest
                 PROVE  feed'[g].kick = call[c].games[g].kick \/ call[c].at + 2 <= feed'[g].kick
    BY <1>2, <2>1 DEF PickemInv, CallsAreRecent
  <2>3. call[c].at \in Nat /\ call[c].at <= now /\ (feed[g].kick = call[c].games[g].kick \/ call[c].at + 2 <= feed[g].kick)
    BY RequestParts DEF Active, PickemInv, CallsAreRecent
  <2>4. feed'[g].kick \in Nat
    BY <1>3, KicksAreInstants
  <2>5. feed'[g].kick = feed[g].kick \/ now + 2 <= feed'[g].kick
    BY <1>3 DEF KicksMoveAhead
  <2> QED
    BY <1>1, <2>3, <2>4, <2>5
<1>7. PicksAreTimely' /\ MarketsArePriced' /\ BackfillIsDone'
  BY <1>2 DEF PickemInv, PicksAreTimely, MarketsArePriced, BackfillIsDone
<1>8. PicksAreChecked'
  BY <1>2 DEF PickemInv, PicksAreChecked, MarketOver
<1> QED
  BY <1>3, <1>4, <1>5, <1>6, <1>7, <1>8 DEF PickemInv

LEMMA PickemWorldStep ==
  ASSUME PickemInv, ClockTurns \/ Restart \/ \E g \in Contest : LiveFinal(g)
  PROVE  PickemInv'
<1>1. /\ now' \in Time /\ now' \in Nat /\ live' \in [Contest -> Margin \cup {Unset}]
      /\ UNCHANGED <<feed, seen, market, picks, entered>> /\ now <= now'
      /\ call' = call \/ call' = Quiet
  <2>1. CASE ClockTurns
    <3>1. now' \in Time /\ now' \in Nat /\ now <= now'
      BY <2>1, InvParts, Numbers DEF ClockTurns, Time
    <3> QED
      BY <2>1, <3>1, InvParts DEF ClockTurns
  <2>2. CASE Restart
    BY <2>2, InvParts DEF Restart, NoFinals
  <2>3. ASSUME NEW g \in Contest, LiveFinal(g)
        PROVE  /\ now' \in Time /\ now' \in Nat /\ live' \in [Contest -> Margin \cup {Unset}]
               /\ UNCHANGED <<feed, seen, market, picks, entered>> /\ now <= now'
               /\ call' = call
    BY <2>3, InvParts DEF LiveFinal
  <2> QED
    BY <2>1, <2>2, <2>3
<1>2. PickemIsSound'
  <2>1. LinesAreEarly' /\ EntrantsAreEntered'
    BY <1>1 DEF PickemInv, PickemIsSound, LinesAreEarly, EntrantsAreEntered
  <2> QED
    BY <1>1, <2>1, InvParts, SoundMade
<1>3. \A c \in Owner \cup {Tick} : Quiet[c] = NoCall
  BY DEF Quiet
<1>4. \A c \in Owner \cup {Tick} : call'[c] # NoCall => call' = call
  BY <1>1, <1>3
<1>5. CallsAreTyped'
  <2>1. Quiet \in [Owner \cup {Tick} -> {NoCall} \cup Requests]
    BY DEF Quiet
  <2> QED
    BY <1>1, <1>4, <2>1, InvParts DEF CallsAreTyped
<1>6. CallsAreRecent'
  <2>1. SUFFICES ASSUME NEW c \in Active'
                 PROVE  call'[c].at <= now' /\ now' <= call'[c].at + 1 /\ call' = call /\ c \in Active
    BY <1>1 DEF PickemInv, CallsAreRecent
  <2>2. c \in Owner \cup {Tick} /\ call'[c] # NoCall /\ call' = call /\ c \in Active
    <3>1. c \in Owner \cup {Tick} /\ call'[c] # NoCall
      BY DEF Active, NoCall
    <3> QED
      BY <1>4, <3>1 DEF Active
  <2>3. call[c].at <= now /\ now <= call[c].at + 1 /\ call[c].at \in Nat /\ now \in Nat
    BY <2>2, RequestParts, InvParts DEF PickemInv, CallsAreRecent
  <2>4. CASE ClockTurns
    BY <2>2, <2>3, <2>4 DEF ClockTurns
  <2>5. CASE Restart \/ \E g \in Contest : LiveFinal(g)
    BY <2>2, <2>3, <2>5 DEF Restart, LiveFinal
  <2> QED
    BY <2>4, <2>5
<1>7. PicksAreTimely' /\ BackfillIsDone' /\ MarketsArePriced'
  BY <1>1, <1>4 DEF PickemInv, PicksAreTimely, MarketsArePriced, BackfillIsDone
<1>8. PicksAreChecked'
  BY <1>1, <1>4 DEF PickemInv, PicksAreChecked, MarketOver
<1> QED
  BY <1>2, <1>5, <1>6, <1>7, <1>8 DEF PickemInv

LEMMA PickemStutters ==
  ASSUME PickemInv, UNCHANGED pickemVars
  PROVE  PickemInv'
<1>1. UNCHANGED <<now, feed, seen, live, market, picks, entered, call>>
  BY DEF pickemVars
<1>2. PickemIsSound' /\ CallsAreTyped' /\ PicksAreTimely' /\ MarketsArePriced' /\ BackfillIsDone'
  BY <1>1 DEF PickemInv, PickemIsSound, PickemTypeOK, LinesAreEarly, EntrantsAreEntered, CallsAreTyped,
     PicksAreTimely, MarketsArePriced, BackfillIsDone
<1>3. CallsAreRecent' /\ PicksAreChecked'
  BY <1>1 DEF PickemInv, CallsAreRecent, PicksAreChecked, Active, MarketOver
<1> QED
  BY <1>2, <1>3 DEF PickemInv

LEMMA PickemInductive ==
  ASSUME PickemInv, [PickemNext]_pickemVars
  PROVE  PickemInv'
<1>1. CASE UNCHANGED pickemVars
  BY <1>1, PickemStutters
<1>2. CASE PickemNext
  BY <1>2, RequestStep, MarketCheckStep, ReconcileStep, BackfillStep, SetStep, MirrorStep, PickemWorldStep DEF PickemNext
<1> QED
  BY <1>1, <1>2

-----------------------------------------------------------------------------
(* What a step may not do *)

\* Only a reading changes a market, only a backfill and a pick an entry
\* instant, only a pick a pick.
LEMMA MarketSteps ==
  ASSUME PickemInv, [PickemNext]_pickemVars
  PROVE  \/ market' = market
         \/ /\ UNCHANGED <<world, picks, entered>>
            /\ \E c \in Requests : \A g \in Contest : MayBecome(c, g, market[g], market'[g])
<1>1. ASSUME NEW c \in Owner \cup {Tick}, Reconcile(c)
      PROVE  /\ UNCHANGED <<world, picks, entered>>
             /\ \E r \in Requests : \A g \in Contest : MayBecome(r, g, market[g], market'[g])
  <2>1. call[c] \in Requests
    BY <1>1, RequestParts DEF Reconcile
  <2>2. \A g \in Contest : MayBecome(call[c], g, market[g], market'[g])
    BY <1>1, ReconcileStep
  <2>3. UNCHANGED <<world, picks, entered>>
    BY <1>1 DEF Reconcile
  <2> QED
    BY <2>1, <2>2, <2>3
<1>2. CASE UNCHANGED pickemVars
  BY <1>2 DEF pickemVars
<1>3. CASE PickemNext
  BY <1>1, <1>3 DEF PickemNext, StartTick, Refresh, ClockTurns, Restart, LiveFinal, BeginPick, CheckMarket, SetPickem, Backfill
<1> QED
  BY <1>2, <1>3

LEMMA DecidedStaysDecided ==
  ASSUME PickemInv, [PickemNext]_pickemVars, NEW g \in Contest, MarketOver(market[g])
  PROVE  market'[g] = market[g]
<1>1. CASE market' = market
  BY <1>1
<1>2. CASE \E c \in Requests : \A h \in Contest : MayBecome(c, h, market[h], market'[h])
  BY <1>2 DEF MayBecome
<1> QED
  BY <1>1, <1>2, MarketSteps

LEMMA LinesStep ==
  ASSUME PickemInv, [PickemNext]_pickemVars, NEW g \in Contest, market[g] # Unset
  PROVE  IF MarketOver(market[g]) THEN market'[g] = market[g]
         ELSE /\ market'[g] # Unset
              /\ \/ market'[g].seen >= market[g].seen
                 \/ MarketOver(market'[g]) /\ market[g].seen > market'[g].lock
<1>1. CASE MarketOver(market[g])
  BY <1>1, DecidedStaysDecided
<1>2. CASE ~MarketOver(market[g])
  <2>1. CASE market' = market
    <3>1. market[g].seen \in Nat
      BY InvParts, Numbers DEF Markets
    <3> QED
      BY <1>2, <2>1, <3>1
  <2>2. CASE \E c \in Requests : \A h \in Contest : MayBecome(c, h, market[h], market'[h])
    BY <1>2, <2>2 DEF MayBecome
  <2> QED
    BY <1>2, <2>1, <2>2, MarketSteps
<1> QED
  BY <1>1, <1>2

LEMMA VoidStep ==
  ASSUME PickemInv, [PickemNext]_pickemVars, NEW o \in Owner, NEW g \in Contest,
         picks'[o][g] # picks[o][g], market[g] # Unset, market[g].state = "void"
  PROVE  call[o].at < LockOf(call[o].games, g)
<1>1. ASSUME NEW p \in Owner, SetPickem(p)
      PROVE  call[o].at < LockOf(call[o].games, g)
  <2>1. p = o /\ g = call[o].game /\ call[o] # NoCall /\ call[o].pc = "set"
    <3>1. call[p].pc = "set" /\ call[p] # NoCall
      BY <1>1, SetStep DEF SetPickem
    <3>2. \A q \in Owner, h \in Contest : q # p \/ h # call[p].game => picks'[q][h] = picks[q][h]
      BY <1>1, SetStep
    <3> QED
      BY <3>1, <3>2
  <2>2. ~(LockOf(call[o].games, g) <= call[o].at)
    BY <2>1 DEF PickemInv, PicksAreChecked
  <2>3. call[o].at \in Nat /\ call[o].games \in Schedules
    BY <2>1, RequestParts
  <2>4. LockOf(call[o].games, g) \in Nat
    BY <2>3, LockType, Numbers
  <2> QED
    BY <2>2, <2>3, <2>4
<1>2. CASE picks' = picks
  BY <1>2
<1>3. picks' = picks \/ \E p \in Owner : SetPickem(p)
  <2>1. CASE UNCHANGED pickemVars
    BY <2>1 DEF pickemVars
  <2>2. CASE PickemNext
    BY <2>2 DEF PickemNext, StartTick, Refresh, ClockTurns, Restart, LiveFinal, BeginPick, CheckMarket, Reconcile, Backfill
  <2> QED
    BY <2>1, <2>2
<1> QED
  BY <1>1, <1>2, <1>3

LEMMA EntrySteps ==
  ASSUME PickemInv, [PickemNext]_pickemVars
  PROVE  \/ UNCHANGED <<entered, picks>>
         \/ \E c \in Owner \cup {Tick} : Backfill(c)
         \/ \E o \in Owner : SetPickem(o)
<1>1. CASE UNCHANGED pickemVars
  BY <1>1 DEF pickemVars
<1>2. CASE PickemNext
  BY <1>2 DEF PickemNext, StartTick, Refresh, ClockTurns, Restart, LiveFinal, BeginPick, CheckMarket, Reconcile
<1> QED
  BY <1>1, <1>2

LEMMA EntryStep ==
  ASSUME PickemInv, [PickemNext]_pickemVars, NEW o \in Owner, entered[o] # 0
  PROVE  entered'[o] = entered[o]
BY EntrySteps, BackfillStep, SetStep

\* The steps of scores and of the clock
LEMMA ResultSteps ==
  ASSUME PickemInv, [PickemNext]_pickemVars
  PROVE  /\ now \in Nat /\ now' \in Nat /\ now <= now' /\ feed \in Schedules /\ feed' \in Schedules
         /\ KicksMoveAhead
         /\ ScoresStay
         /\ \A g \in Contest : Restart \/ live'[g] = live[g] \/ live'[g] \in Margin
<1>1. PickemInv' /\ now \in Nat /\ feed \in Schedules /\ live \in [Contest -> Margin \cup {Unset}]
  BY InvParts, PickemInductive
<1>2. now' \in Nat /\ feed' \in Schedules
  BY <1>1, Numbers DEF PickemInv, PickemIsSound, PickemTypeOK, Schedules, ScheduleRows
<1>3. CASE Refresh
  BY <1>1, <1>2, <1>3, MirrorStep DEF Refresh
<1>4. CASE ClockTurns
  BY <1>1, <1>2, <1>4 DEF ClockTurns, KicksMoveAhead, ScoresStay
<1>5. CASE Restart
  BY <1>1, <1>2, <1>5 DEF Restart, KicksMoveAhead, ScoresStay
<1>6. ASSUME NEW g \in Contest, LiveFinal(g)
      PROVE  UNCHANGED <<now, feed>> /\ \A h \in Contest : live'[h] = live[h] \/ live'[h] \in Margin
  BY <1>1, <1>6 DEF LiveFinal
<1>7. CASE UNCHANGED <<now, feed, live>>
  BY <1>1, <1>2, <1>7 DEF KicksMoveAhead, ScoresStay
<1>8. Refresh \/ ClockTurns \/ Restart \/ (\E g \in Contest : LiveFinal(g)) \/ UNCHANGED <<now, feed, live>>
  <2>1. CASE UNCHANGED pickemVars
    BY <2>1 DEF pickemVars
  <2>2. CASE PickemNext
    BY <2>2 DEF PickemNext, StartTick, BeginPick, CheckMarket, Reconcile, Backfill, SetPickem, world
  <2> QED
    BY <2>1, <2>2
<1> QED
  BY <1>1, <1>2, <1>3, <1>4, <1>5, <1>6, <1>7, <1>8 DEF KicksMoveAhead, ScoresStay

LEMMA SettledStep ==
  ASSUME PickemInv, [PickemNext]_pickemVars, ~Restart
  PROVE  /\ WeekSettled => WeekSettled'
         /\ \A g \in Contest : Result(g) \in Margin => Result(g)' \in Margin
<1>1. Unset \notin Margin /\ Unscored \notin Margin /\ Unset # Unscored
  BY PickemNumbers
<1>2. \A g \in Contest : live[g] \in Margin \cup {Unset} /\ feed[g].margin \in Margin \cup {Unscored, Unset}
  BY InvParts DEF Schedules, ScheduleRows
<1>3. \A g \in Contest :
        /\ live'[g] = live[g] \/ live'[g] \in Margin
        /\ feed'[g].margin = feed[g].margin \/
             (feed'[g].margin \in Margin \cup {Unscored} /\ (feed[g].margin \in Margin => feed'[g].margin \in Margin))
  BY ResultSteps DEF ScoresStay
<1>4. \A g \in Contest : /\ Result(g) \in Margin => Result(g)' \in Margin
                         /\ Result(g) # Unset => Result(g)' # Unset
  BY <1>1, <1>2, <1>3 DEF Result
<1>5. FinalGames \subseteq FinalGames'
  BY <1>4 DEF FinalGames
<1>6. VoidGames \subseteq VoidGames'
  <2>1. ASSUME NEW g \in Contest, Unavailable(market[g])
        PROVE  MarketOver(market[g])
    BY <2>1 DEF Unavailable, MarketOver, PickemInv, MarketsArePriced
  <2>2. \A g \in Contest : Unavailable(market[g]) => market'[g] = market[g]
    BY <2>1, DecidedStaysDecided
  <2>3. \A g \in Contest : Unavailable(market[g]) => Unavailable(market'[g])
    BY <2>2 DEF Unavailable
  <2> QED
    BY <2>3 DEF VoidGames
<1>7. WeekSettled => WeekSettled'
  <2>1. FinalGames' \cup VoidGames' \subseteq Contest
    BY DEF FinalGames, VoidGames
  <2> QED
    BY <1>5, <1>6, <2>1 DEF WeekSettled
<1> QED
  BY <1>4, <1>7

\* A kickoff that has passed is the one each request in flight read.
LEMMA PassedKickWasRead ==
  ASSUME PickemInv, NEW c \in Active, NEW g \in Contest, feed[g].kick <= now
  PROVE  call[c].games[g].kick = feed[g].kick
<1>1. /\ now <= call[c].at + 1
      /\ feed[g].kick = call[c].games[g].kick \/ call[c].at + 2 <= feed[g].kick
  BY DEF PickemInv, CallsAreRecent
<1>2. call[c].at \in Nat /\ now \in Nat /\ feed[g].kick \in Nat
  BY RequestParts, InvParts, KicksAreInstants DEF Active
<1> QED
  BY <1>1, <1>2

LEMMA ObligedStands ==
  ASSUME PickemInv, [PickemNext]_pickemVars, NEW o \in Owner, NEW g \in Contest, Obliged(o, g), feed[g].kick <= now
  PROVE  Obliged(o, g)'
<1>1. /\ EnteredAt(o) # 0 /\ feed[g].kick # TBA /\ feed[g].kick >= EnteredAt(o)
      /\ EnteredAt(o) = IF entered[o] # 0 THEN entered[o] ELSE LegacyEntry(feed, o)
  BY DEF Obliged, EnteredAt
<1>2. feed \in Schedules /\ feed' \in Schedules /\ now \in Nat
  BY ResultSteps
<1>3. \A h \in Contest : feed[h].kick # TBA /\ feed[h].kick <= now => feed'[h].kick = feed[h].kick
  <2>1. SUFFICES ASSUME NEW h \in Contest, feed[h].kick # TBA, feed[h].kick <= now
                 PROVE  feed'[h].kick = feed[h].kick
    OBVIOUS
  <2>2. feed[h].kick \in Nat
    BY <1>2, KicksAreInstants
  <2> QED
    BY <1>2, <2>1, <2>2, ResultSteps DEF KicksMoveAhead
<1>4. feed'[g].kick = feed[g].kick /\ feed[g].kick \in Nat
  BY <1>1, <1>2, <1>3, KicksAreInstants
<1>5. SUFFICES EnteredAt(o)' # 0 /\ EnteredAt(o)' <= feed[g].kick
  <2>1. EnteredAt(o)' \in Nat
    <3>1. PickemInv'
      BY PickemInductive
    <3>2. entered'[o] \in Nat
      BY <3>1, Numbers DEF PickemInv, PickemIsSound, PickemTypeOK
    <3>3. LegacyEntry(feed, o)' \in Nat
      <4> DEFINE S == {feed[h].kick : h \in {h \in Contest : feed[h].kick # TBA /\ picks[o][h] \in Side}}
      <4>1. S' \in SUBSET Instant
        BY <1>2, KicksAreInstants
      <4>2. LegacyEntry(feed, o)' = Earliest(S')
        BY DEF LegacyEntry, Earliest
      <4> HIDE DEF S
      <4> QED
        BY <4>1, <4>2, EarliestIsLeast, Numbers
    <3> QED
      BY <3>2, <3>3 DEF EnteredAt
  <2> QED
    BY <1>1, <1>4, <2>1 DEF Obliged
<1>6. CASE entered[o] # 0
  <2>1. entered'[o] = entered[o]
    BY <1>6, EntryStep
  <2>2. EnteredAt(o)' = EnteredAt(o)
    BY <1>6, <2>1 DEF EnteredAt
  <2>3. EnteredAt(o) \in Nat
    BY <1>1, <1>6, InvParts, Numbers
  <2> QED
    BY <1>1, <1>4, <2>2, <2>3
<1>7. CASE entered[o] = 0
  <2>1. LegacyEntry(feed, o) # 0 /\ LegacyEntry(feed, o) <= feed[g].kick /\ LegacyEntry(feed, o) \in Nat
    BY <1>1, <1>2, <1>4, <1>7, LegacyEntryIsFirst
  <2>2. PICK h \in Contest : feed[h].kick # TBA /\ picks[o][h] \in Side /\ feed[h].kick = LegacyEntry(feed, o)
    BY <1>2, <2>1, LegacyEntryIsFirst
  <2>3. feed[h].kick <= now /\ feed[h].kick <= feed[g].kick /\ feed[h].kick \in Nat
    BY <1>2, <1>4, <2>1, <2>2
  <2>4. feed'[h].kick = feed[h].kick
    BY <1>3, <2>2, <2>3
  <2>5. ASSUME UNCHANGED <<entered, picks[o]>>
        PROVE  EnteredAt(o)' # 0 /\ EnteredAt(o)' <= feed[g].kick
    <3>1. EnteredAt(o)' = LegacyEntry(feed, o)'
      BY <1>7, <2>5 DEF EnteredAt
    <3>2. LegacyEntry(feed, o)' = LegacyEntry(feed', o)
      BY <2>5 DEF LegacyEntry, Earliest
    <3>3. LegacyEntry(feed', o) # 0 /\ LegacyEntry(feed', o) <= feed'[h].kick /\ LegacyEntry(feed', o) \in Nat
      BY <1>2, <2>2, <2>4, LegacyEntryIsFirst
    <3> QED
      BY <1>4, <2>3, <2>4, <3>1, <3>2, <3>3
  <2>6. ASSUME NEW c \in Owner \cup {Tick}, Backfill(c)
        PROVE  EnteredAt(o)' # 0 /\ EnteredAt(o)' <= feed[g].kick
    <3>1. c \in Active /\ call[c].games \in Schedules
      BY <2>6, RequestParts DEF Backfill
    <3>2. call[c].games[h].kick = feed[h].kick
      BY <2>3, <3>1, PassedKickWasRead
    <3>3. entered'[o] = LegacyEntry(call[c].games, o)
      BY <1>7, <2>6, BackfillStep
    <3>4. entered'[o] # 0 /\ entered'[o] <= feed[h].kick /\ entered'[o] \in Nat
      BY <2>2, <3>1, <3>2, <3>3, LegacyEntryIsFirst
    <3>5. EnteredAt(o)' = entered'[o]
      BY <3>4 DEF EnteredAt
    <3> QED
      BY <1>4, <2>3, <3>4, <3>5
  <2>7. ASSUME SetPickem(o)
        PROVE  EnteredAt(o)' # 0 /\ EnteredAt(o)' <= feed[g].kick
    <3>1. call[o] # NoCall /\ call[o].pc = "set" /\ o \in Active
      BY <2>7, RequestParts, SetStep DEF SetPickem
    <3>2. call[o].games[h].kick = TBA
      BY <1>7, <2>2, <3>1 DEF PickemInv, BackfillIsDone
    <3>3. call[o].games[h].kick = feed[h].kick
      BY <2>3, <3>1, PassedKickWasRead
    <3> QED
      BY <2>2, <3>2, <3>3
  <2>8. ASSUME NEW p \in Owner, p # o, SetPickem(p)
        PROVE  EnteredAt(o)' # 0 /\ EnteredAt(o)' <= feed[g].kick
    <3>1. entered'[o] = entered[o]
      BY <2>8, SetStep
    <3>2. picks'[o] = picks[o]
      BY <2>8, InvParts DEF SetPickem
    <3>3. EnteredAt(o)' = LegacyEntry(feed, o)'
      BY <1>7, <3>1 DEF EnteredAt
    <3>4. LegacyEntry(feed, o)' = LegacyEntry(feed', o)
      BY <3>2 DEF LegacyEntry, Earliest
    <3>5. LegacyEntry(feed', o) # 0 /\ LegacyEntry(feed', o) <= feed'[h].kick /\ LegacyEntry(feed', o) \in Nat
      BY <1>2, <2>2, <2>4, LegacyEntryIsFirst
    <3> QED
      BY <1>4, <2>3, <2>4, <3>3, <3>4, <3>5
  <2> QED
    BY <2>5, <2>6, <2>7, <2>8, EntrySteps
<1> QED
  BY <1>6, <1>7

LEMMA VerdictStep ==
  ASSUME PickemInv, [PickemNext]_pickemVars, NEW o \in Owner, NEW g \in Contest,
         Outcome(o, g) # "pending", Result(g)' = Result(g)
  PROVE  \/ Outcome(o, g)' = Outcome(o, g)
         \/ SetPickem(o) /\ call[o].game = g /\ call[o].at < feed[g].kick
<1>1. /\ feed[g].kick # TBA /\ ~(now < feed[g].kick)
      /\ market[g] # Unset /\ market[g].state # "open"
      /\ Outcome(o, g) = "missed" => Obliged(o, g)
  BY DEF Outcome
<1>2. feed \in Schedules /\ now \in Nat /\ now' \in Nat /\ now <= now' /\ feed[g].kick \in Nat
  BY ResultSteps, KicksAreInstants
<1>3. feed[g].kick <= now /\ feed'[g].kick = feed[g].kick
  BY <1>1, <1>2, ResultSteps DEF KicksMoveAhead
<1>4. market'[g] = market[g]
  BY <1>1, DecidedStaysDecided DEF MarketOver
<1>5. CASE SetPickem(o) /\ call[o].game = g
  <2>1. call[o] # NoCall /\ o \in Active
    BY <1>5, SetStep, RequestParts
  <2>2. call[o].at < call[o].games[g].kick
    BY <1>5, <2>1 DEF PickemInv, PicksAreTimely
  <2>3. call[o].games[g].kick = feed[g].kick
    BY <1>3, <2>1, PassedKickWasRead
  <2> QED
    BY <1>5, <2>2, <2>3
<1>6. CASE ~(SetPickem(o) /\ call[o].game = g)
  <2>1. picks'[o][g] = picks[o][g]
    <3>1. picks' = picks \/ \E p \in Owner : SetPickem(p)
      BY EntrySteps DEF Backfill
    <3> QED
      BY <1>6, <3>1, SetStep
  <2>2. Obliged(o, g) => Obliged(o, g)'
    BY <1>3, ObligedStands
  <2>3. Cover(g)' = Cover(g)
    BY <1>4 DEF Cover
  <2>4. feed'[g].kick # TBA /\ ~(now' < feed'[g].kick)
    BY <1>1, <1>2, <1>3
  <2>5. Outcome(o, g) = IF market[g].state = "void" THEN "void"
                        ELSE IF picks[o][g] = Unset THEN "missed"
                        ELSE IF picks[o][g] = Cover(g) THEN "win" ELSE "loss"
    BY <1>1 DEF Outcome
  <2>6. market[g].state # "void" /\ picks[o][g] = Unset => Obliged(o, g)
    BY <1>1 DEF Outcome
  <2>7. market[g].state # "void" /\ picks[o][g] # Unset => Result(g) \in Margin
    BY <1>1 DEF Outcome
  <2>8. Outcome(o, g)' = IF market[g].state = "void" THEN "void"
                         ELSE IF picks[o][g] = Unset THEN "missed"
                         ELSE IF picks[o][g] = Cover(g) THEN "win" ELSE "loss"
    BY <1>1, <1>4, <2>1, <2>2, <2>3, <2>4, <2>6, <2>7 DEF Outcome
  <2> QED
    BY <2>5, <2>8
<1> QED
  BY <1>5, <1>6

-----------------------------------------------------------------------------
(* Theorems of Pick'em *)

\* Every state of Pick'em is well typed, a frozen line was seen by its lock and
\* frozen no earlier, and whoever picked has an entry instant
\* (ReconcilePickemMarkets, SetPickem).
THEOREM PickemStaysSound == PickemSpec => []PickemIsSound
<1>1. PickemInit => PickemInv
  BY PickemBegins
<1>2. PickemInv /\ [PickemNext]_pickemVars => PickemInv'
  BY PickemInductive
<1>3. PickemInv => PickemIsSound
  BY DEF PickemInv
<1> QED
  BY <1>1, <1>2, <1>3, PTL DEF PickemSpec

\* Lines freeze once, verdicts stand, a void market takes no pick that saw its
\* lock, entry instants stay and settled weeks stay settled
\* (pickem_market.go, gradePickemAt, PickemSet, overlayPickemLiveFinals).
THEOREM PicksAlwaysStand == PickemSpec => PicksStand
<1>1. PickemInit => PickemInv
  BY PickemBegins
<1>2. PickemInv /\ [PickemNext]_pickemVars => PickemInv'
  BY PickemInductive
<1>3. PickemInv /\ [PickemNext]_pickemVars =>
        [\A g \in Contest : market[g] # Unset =>
           IF MarketOver(market[g]) THEN market'[g] = market[g]
           ELSE /\ market'[g] # Unset
                /\ \/ market'[g].seen >= market[g].seen
                   \/ MarketOver(market'[g]) /\ market[g].seen > market'[g].lock]_pickemVars
  BY LinesStep
<1>4. PickemInv /\ [PickemNext]_pickemVars =>
        [\A o \in Owner, g \in Contest :
           Outcome(o, g) # "pending" /\ Result(g)' = Result(g) =>
             \/ Outcome(o, g)' = Outcome(o, g)
             \/ SetPickem(o) /\ call[o].game = g /\ call[o].at < feed[g].kick]_pickemVars
  BY VerdictStep
<1>5. PickemInv /\ [PickemNext]_pickemVars =>
        [\A o \in Owner, g \in Contest : picks'[o][g] # picks[o][g] /\ market[g] # Unset /\ market[g].state = "void"
           => call[o].at < LockOf(call[o].games, g)]_pickemVars
  BY VoidStep
<1>6. PickemInv /\ [PickemNext]_pickemVars =>
        [\A o \in Owner : entered[o] # 0 => entered'[o] = entered[o]]_pickemVars
  BY EntryStep
<1>7. PickemInv /\ [PickemNext]_pickemVars =>
        [~Restart => /\ WeekSettled => WeekSettled'
                     /\ \A g \in Contest : Result(g) \in Margin => Result(g)' \in Margin]_pickemVars
  BY SettledStep
<1> QED
  BY <1>1, <1>2, <1>3, <1>4, <1>5, <1>6, <1>7, PTL
     DEF PickemSpec, PicksStand, LinesFreezeOnce, VerdictsStand, VoidTakesNoPick, EntryStays, SettledStays

-----------------------------------------------------------------------------
(* The Blitz *)

NobodyTwice(e) == \A i, j \in 1..Len(e) : e[i] = e[j] => i = j

Fits(e) ==
  /\ e \in Seq(Pool) /\ NobodyTwice(e) /\ IsFiniteSet(ToSet(e)) /\ Len(e) = Cardinality(ToSet(e))
  /\ Len(e) <= FivePlayers /\ \A c \in Pool : Cardinality(OfClub(c, e)) <= PerClub

Asking == [pc : {"check"}, kind : {"add", "drop"}, who : Pool, at : Nat]
Setting ==
  [pc : {"set"}, kind : {"add", "drop"}, who : Pool, at : Nat, read : Seq(Pool), players : Seq(Pool)]

\* A request that was let past the kickoff check is known as an early one; what
\* a request will write fits, is early, and is what it read but for its player.
TabsAreSound ==
  /\ tab \in [Tab -> {NoAsk} \cup Asking \cup Setting]
  /\ \A t \in Tab : tab[t] # NoAsk =>
       /\ tab[t].pc = "check" /\ tab[t].kind = "add" /\ ~KickedOff(tab[t].who, tab[t].at) => tab[t].who \in inTime
       /\ tab[t].pc = "set" =>
            /\ Fits(tab[t].players) /\ ToSet(tab[t].players) \subseteq inTime /\ ~KickedOff(tab[t].who, tab[t].at)
            /\ \A c \in Pool : c # tab[t].who => (In(c, tab[t].players) <=> In(c, tab[t].read))

BlitzInv == BlitzIsSound /\ Fits(entry) /\ TabsAreSound

LEMMA BlitzConstants ==
  FivePlayers \in Nat /\ PerClub \in Nat /\ LastHour \in Nat /\ LastHour >= 1
BY BlitzNumbers

-----------------------------------------------------------------------------
(* What an entry becomes *)

LEMMA MembersInPool ==
  ASSUME NEW e \in Seq(Pool)
  PROVE  ToSet(e) \subseteq Pool /\ ToSet(e) = {e[i] : i \in 1..Len(e)} /\ Len(e) \in Nat
BY LenProperties, ElementOfSeq DEF ToSet

LEMMA AppendFits ==
  ASSUME NEW e, Fits(e), NEW c \in Pool, ~In(c, e), Len(e) < FivePlayers, Cardinality(OfClub(c, e)) < PerClub
  PROVE  Fits(Append(e, c)) /\ ToSet(Append(e, c)) = ToSet(e) \cup {c}
<1>1. e \in Seq(Pool) /\ Len(e) \in Nat /\ IsFiniteSet(ToSet(e)) /\ Len(e) = Cardinality(ToSet(e)) /\ c \notin ToSet(e)
  BY LenProperties DEF Fits, In
<1> DEFINE f == Append(e, c)
<1>2. /\ f \in Seq(Pool) /\ Len(f) = Len(e) + 1
      /\ \A i \in 1..Len(e) : f[i] = e[i]
      /\ f[Len(e) + 1] = c
  BY <1>1, AppendProperties
<1> HIDE DEF f
<1>3. 1..Len(f) = 1..Len(e) \cup {Len(e) + 1} /\ Len(e) + 1 \notin 1..Len(e)
  BY <1>1, <1>2
<1>4. ToSet(f) = ToSet(e) \cup {c}
  <2>1. ToSet(f) = {f[i] : i \in 1..Len(f)} /\ ToSet(e) = {e[i] : i \in 1..Len(e)}
    BY <1>1, <1>2, MembersInPool
  <2> QED
    BY <1>2, <1>3, <2>1
<1>5. NobodyTwice(f)
  <2>1. \A i \in 1..Len(e) : e[i] # c
    BY <1>1, MembersInPool
  <2>2. \A i, j \in 1..Len(e) : e[i] = e[j] => i = j
    BY DEF Fits, NobodyTwice
  <2> QED
    BY <1>2, <1>3, <2>1, <2>2 DEF NobodyTwice
<1>6. IsFiniteSet(ToSet(f)) /\ Len(f) = Cardinality(ToSet(f))
  <2>1. IsFiniteSet(ToSet(e) \cup {c})
    BY <1>1, FS_AddElement
  <2>2. Cardinality(ToSet(e) \cup {c}) = Cardinality(ToSet(e)) + 1
    BY <1>1, FS_AddElement
  <2>3. Len(f) = Cardinality(ToSet(e)) + 1
    BY <1>1, <1>2
  <2> QED
    BY <1>4, <2>1, <2>2, <2>3
<1>7. Len(f) <= FivePlayers
  BY <1>1, <1>2, BlitzConstants
<1>8. ASSUME NEW d \in Pool
      PROVE  Cardinality(OfClub(d, f)) <= PerClub
  <2>1. CASE Club[d] = Club[c]
    <3>1. OfClub(d, f) = OfClub(c, e) \cup {c} /\ c \notin OfClub(c, e)
      BY <1>1, <1>4, <2>1 DEF OfClub
    <3>2. IsFiniteSet(OfClub(c, e)) /\ Cardinality(OfClub(c, e)) \in Nat
      BY <1>1, FS_Subset, FS_CardinalityType DEF OfClub
    <3>3. Cardinality(OfClub(d, f)) = Cardinality(OfClub(c, e)) + 1
      BY <3>1, <3>2, FS_AddElement
    <3> QED
      BY <3>2, <3>3, BlitzConstants
  <2>2. CASE Club[d] # Club[c]
    <3>1. OfClub(d, f) = OfClub(d, e)
      BY <1>4, <2>2 DEF OfClub
    <3> QED
      BY <3>1 DEF Fits
  <2> QED
    BY <2>1, <2>2
<1> QED
  BY <1>2, <1>4, <1>5, <1>6, <1>7, <1>8 DEF Fits, f

LEMMA RemovedAt ==
  ASSUME NEW e \in Seq(Pool), NEW i \in 1..Len(e)
  PROVE  /\ RemoveAt(e, i) \in Seq(Pool) /\ Len(RemoveAt(e, i)) = Len(e) - 1
         /\ \A j \in 1..Len(e) - 1 : RemoveAt(e, i)[j] = IF j < i THEN e[j] ELSE e[j + 1]
<1> DEFINE l == SubSeq(e, 1, i - 1)
           r == SubSeq(e, i + 1, Len(e))
<1>1. Len(e) \in Nat /\ i \in Nat /\ 1 <= i /\ i <= Len(e)
  BY LenProperties
<1>2. l \in Seq(Pool) /\ Len(l) = i - 1 /\ \A j \in 1..i - 1 : l[j] = e[j]
  <2>1. \A j \in 1..i - 1 : e[j] \in Pool
    BY <1>1, ElementOfSeq
  <2> QED
    BY <1>1, <2>1, SubSeqProperties
<1>3. r \in Seq(Pool) /\ Len(r) = Len(e) - i /\ \A j \in 1..Len(e) - i : r[j] = e[i + j]
  <2>1. \A j \in i + 1 .. Len(e) : e[j] \in Pool
    BY <1>1, ElementOfSeq
  <2> QED
    BY <1>1, <2>1, SubSeqProperties
<1> HIDE DEF l, r
<1>4. /\ l \o r \in Seq(Pool) /\ Len(l \o r) = Len(e) - 1
      /\ \A j \in 1..Len(e) - 1 : (l \o r)[j] = IF j <= i - 1 THEN l[j] ELSE r[j - (i - 1)]
  <2>1. /\ l \o r \in Seq(Pool) /\ Len(l \o r) = Len(l) + Len(r)
        /\ \A j \in 1..Len(l) + Len(r) : (l \o r)[j] = IF j <= Len(l) THEN l[j] ELSE r[j - Len(l)]
    BY <1>2, <1>3, ConcatProperties
  <2>2. Len(l) + Len(r) = Len(e) - 1
    BY <1>1, <1>2, <1>3
  <2> QED
    BY <1>2, <2>1, <2>2
<1>5. RemoveAt(e, i) = l \o r
  BY DEF RemoveAt, l, r
<1>6. ASSUME NEW j \in 1..Len(e) - 1
      PROVE  (l \o r)[j] = IF j < i THEN e[j] ELSE e[j + 1]
  <2>1. CASE j < i
    <3>1. j \in 1..i - 1 /\ j <= i - 1
      BY <1>1, <2>1
    <3> QED
      BY <1>2, <1>4, <2>1, <3>1
  <2>2. CASE ~(j < i)
    <3>1. j - (i - 1) \in 1..Len(e) - i /\ i + (j - (i - 1)) = j + 1 /\ ~(j <= i - 1)
      BY <1>1, <2>2
    <3> QED
      BY <1>3, <1>4, <2>2, <3>1
  <2> QED
    BY <2>1, <2>2
<1> QED
  BY <1>4, <1>5, <1>6

LEMMA WithoutFits ==
  ASSUME NEW e, Fits(e), NEW c \in Pool, In(c, e)
  PROVE  Fits(Without(c, e)) /\ ToSet(Without(c, e)) = ToSet(e) \ {c}
<1>1. e \in Seq(Pool) /\ Len(e) \in Nat /\ IsFiniteSet(ToSet(e)) /\ Len(e) = Cardinality(ToSet(e))
      /\ ToSet(e) = {e[j] : j \in 1..Len(e)} /\ c \in ToSet(e)
  BY MembersInPool DEF Fits, In
<1>2. PICK i \in 1..Len(e) : e[i] = c /\ Without(c, e) = RemoveAt(e, i)
  <2>1. \E j \in 1..Len(e) : e[j] = c
    BY <1>1
  <2> QED
    BY <2>1 DEF Without
<1> DEFINE f == Without(c, e)
           n == Len(e)
<1>3. n \in Nat /\ i \in 1..n
  BY <1>1
<1>4. /\ f \in Seq(Pool) /\ Len(f) = n - 1
      /\ \A j \in 1..n - 1 : f[j] = IF j < i THEN e[j] ELSE e[j + 1]
  BY <1>1, <1>2, RemovedAt
<1>5. \A j, k \in 1..n : e[j] = e[k] => j = k
  BY DEF Fits, NobodyTwice
<1> HIDE DEF f, n
<1> DEFINE from(j) == IF j < i THEN j ELSE j + 1
<1>6. \A j \in 1..n - 1 : from(j) \in 1..n /\ from(j) # i
  BY <1>3
<1>7. \A j, k \in 1..n - 1 : from(j) = from(k) => j = k
  BY <1>3
<1>8. \A k \in 1..n : k # i => \E j \in 1..n - 1 : from(j) = k
  <2>1. SUFFICES ASSUME NEW k \in 1..n, k # i
                 PROVE  \E j \in 1..n - 1 : from(j) = k
    OBVIOUS
  <2>2. CASE k < i
    <3>1. k \in 1..n - 1 /\ from(k) = k
      BY <1>3, <2>2
    <3> QED
      BY <3>1
  <2>3. CASE k > i
    <3>1. k - 1 \in 1..n - 1 /\ from(k - 1) = k
      BY <1>3, <2>3
    <3> QED
      BY <3>1
  <2>4. k < i \/ k > i
    BY <1>3, <2>1
  <2> QED
    BY <2>2, <2>3, <2>4
<1>9. \A j \in 1..n - 1 : f[j] = e[from(j)]
  BY <1>3, <1>4
<1> HIDE DEF from
<1>10. NobodyTwice(f)
  <2>1. SUFFICES ASSUME NEW j \in 1..n - 1, NEW k \in 1..n - 1, f[j] = f[k]
                 PROVE  j = k
    BY <1>4 DEF NobodyTwice
  <2>2. e[from(j)] = e[from(k)] /\ from(j) \in 1..n /\ from(k) \in 1..n
    BY <1>6, <1>9, <2>1
  <2>3. from(j) = from(k)
    BY <1>5, <2>2
  <2> QED
    BY <1>7, <2>3
<1>11. ToSet(f) = ToSet(e) \ {c}
  <2>1. ToSet(f) = {f[j] : j \in 1..n - 1} /\ ToSet(e) = {e[k] : k \in 1..n}
    BY <1>1, <1>4, MembersInPool DEF n
  <2>2. \A j \in 1..n - 1 : f[j] \in ToSet(e) /\ f[j] # c
    BY <1>2, <1>3, <1>5, <1>6, <1>9, <2>1
  <2>3. \A k \in 1..n : e[k] # c => \E j \in 1..n - 1 : f[j] = e[k]
    BY <1>2, <1>8, <1>9
  <2> QED
    BY <2>1, <2>2, <2>3
<1>12. IsFiniteSet(ToSet(f)) /\ Len(f) = Cardinality(ToSet(f))
  <2>1. IsFiniteSet(ToSet(e) \ {c})
    BY <1>1, FS_RemoveElement
  <2>2. Cardinality(ToSet(e) \ {c}) = Cardinality(ToSet(e)) - 1
    BY <1>1, FS_RemoveElement
  <2>3. Len(f) = Cardinality(ToSet(e)) - 1
    BY <1>1, <1>4 DEF n
  <2> QED
    BY <1>11, <2>1, <2>2, <2>3
<1>13. Len(f) <= FivePlayers
  <2>1. n <= FivePlayers
    BY DEF Fits, n
  <2> QED
    BY <1>3, <1>4, <2>1, BlitzConstants
<1>14. ASSUME NEW d \in Pool
       PROVE  Cardinality(OfClub(d, f)) <= PerClub
  <2>1. OfClub(d, f) \subseteq OfClub(d, e) /\ IsFiniteSet(OfClub(d, e))
    BY <1>1, <1>11, FS_Subset DEF OfClub
  <2>2. Cardinality(OfClub(d, f)) <= Cardinality(OfClub(d, e)) /\ Cardinality(OfClub(d, f)) \in Nat /\ Cardinality(OfClub(d, e)) \in Nat
    BY <2>1, FS_Subset, FS_CardinalityType
  <2>3. Cardinality(OfClub(d, e)) <= PerClub
    BY DEF Fits
  <2> QED
    BY <2>2, <2>3, BlitzConstants
<1> QED
  BY <1>4, <1>10, <1>11, <1>12, <1>13, <1>14 DEF Fits, f

-----------------------------------------------------------------------------
(* The invariant, step by step *)

LEMMA BlitzShape ==
  ASSUME BlitzInv
  PROVE  /\ hour \in 1..LastHour /\ hour \in Nat /\ finals \subseteq Games /\ inTime \subseteq Pool
         /\ Fits(entry) /\ entry \in Seq(Pool) /\ ToSet(entry) \subseteq inTime
         /\ tab \in [Tab -> {NoAsk} \cup Asking \cup Setting]
BY DEF BlitzInv, BlitzIsSound, BlitzTypeOK, EntryIsEarly, TabsAreSound, Fits

LEMMA BlitzMade ==
  ASSUME hour' \in 1..LastHour, finals' \subseteq Games, inTime' \subseteq Pool, Fits(entry'),
         ToSet(entry') \subseteq inTime', TabsAreSound'
  PROVE  BlitzInv'
<1>1. entry' \in Seq(Pool) /\ Len(entry') <= FivePlayers /\ Len(entry') = Cardinality(ToSet(entry'))
      /\ \A c \in Pool : Cardinality(OfClub(c, entry')) <= PerClub
  BY DEF Fits
<1>2. BlitzTypeOK' /\ EntryFits' /\ EntryIsEarly'
  BY <1>1 DEF BlitzTypeOK, EntryFits, EntryIsEarly, OfClub
<1>3. Fits(entry)'
  BY DEF Fits, NobodyTwice, OfClub
<1> QED
  BY <1>2, <1>3 DEF BlitzInv, BlitzIsSound

LEMMA RequestKinds ==
  ASSUME BlitzInv, NEW t \in Tab, tab[t] # NoAsk
  PROVE  /\ tab[t].pc \in {"check", "set"} /\ tab[t].kind \in {"add", "drop"} /\ tab[t].who \in Pool /\ tab[t].at \in Nat
         /\ tab[t].pc = "check" => tab[t] \in Asking
         /\ tab[t].pc = "set" => tab[t] \in Setting
<1>1. tab[t] \in Asking \cup Setting
  BY BlitzShape
<1> QED
  BY <1>1 DEF Asking, Setting

LEMMA BlitzBegins ==
  ASSUME BlitzInit
  PROVE  BlitzInv
<1>1. entry = <<>> /\ ToSet(entry) = {} /\ Len(entry) = 0 /\ entry \in Seq(Pool)
  BY DEF BlitzInit, ToSet
<1>2. IsFiniteSet({}) /\ Cardinality({}) = 0
  BY FS_EmptySet
<1>3. \A c \in Pool : OfClub(c, entry) = {}
  BY <1>1 DEF OfClub
<1>4. Fits(entry)
  <2>1. NobodyTwice(entry)
    BY <1>1 DEF NobodyTwice
  <2>2. 0 <= FivePlayers /\ 0 <= PerClub
    BY BlitzConstants
  <2> QED
    BY <1>1, <1>2, <1>3, <2>1, <2>2 DEF Fits
<1>5. TabsAreSound
  BY DEF BlitzInit, TabsAreSound
<1>6. hour \in 1..LastHour /\ finals = {} /\ inTime = {}
  BY BlitzConstants DEF BlitzInit
<1> QED
  BY <1>1, <1>4, <1>5, <1>6 DEF BlitzInv, BlitzIsSound, BlitzTypeOK, EntryFits, EntryIsEarly, Fits

\* A tab that goes on, while the players asked for in time only become more.
LEMMA TabGoesOn ==
  ASSUME BlitzInv, NEW t \in Tab, NEW r \in {NoAsk} \cup Asking \cup Setting, tab' = [tab EXCEPT ![t] = r],
         inTime \subseteq inTime',
         r # NoAsk =>
           /\ r.pc = "check" /\ r.kind = "add" /\ ~KickedOff(r.who, r.at) => r.who \in inTime'
           /\ r.pc = "set" =>
                /\ Fits(r.players) /\ ToSet(r.players) \subseteq inTime' /\ ~KickedOff(r.who, r.at)
                /\ \A c \in Pool : c # r.who => (In(c, r.players) <=> In(c, r.read))
  PROVE  TabsAreSound'
<1>1. tab' \in [Tab -> {NoAsk} \cup Asking \cup Setting]
  BY BlitzShape
<1>2. \A s \in Tab : tab'[s] = IF s = t THEN r ELSE tab[s]
  BY BlitzShape
<1>3. ASSUME NEW s \in Tab, tab'[s] # NoAsk
      PROVE  /\ tab'[s].pc = "check" /\ tab'[s].kind = "add" /\ ~KickedOff(tab'[s].who, tab'[s].at) => tab'[s].who \in inTime'
             /\ tab'[s].pc = "set" =>
                  /\ Fits(tab'[s].players) /\ ToSet(tab'[s].players) \subseteq inTime' /\ ~KickedOff(tab'[s].who, tab'[s].at)
                  /\ \A c \in Pool : c # tab'[s].who => (In(c, tab'[s].players) <=> In(c, tab'[s].read))
  <2>1. CASE s = t
    BY <1>2, <1>3, <2>1
  <2>2. CASE s # t
    <3>1. tab'[s] = tab[s] /\ tab[s] # NoAsk
      BY <1>2, <1>3, <2>2
    <3> QED
      BY <3>1 DEF BlitzInv, TabsAreSound
  <2> QED
    BY <2>1, <2>2
<1> QED
  BY <1>1, <1>3 DEF TabsAreSound, Fits, NobodyTwice, OfClub, In, KickedOff

LEMMA AskStep ==
  ASSUME BlitzInv, NEW t \in Tab, NEW c \in Pool, NEW kind \in {"add", "drop"}, Ask(t, kind, c)
  PROVE  BlitzInv'
<1> DEFINE r == [pc |-> "check", kind |-> kind, who |-> c, at |-> hour]
<1>1. tab' = [tab EXCEPT ![t] = r] /\ UNCHANGED <<hour, finals, entry>>
  BY DEF Ask
<1>2. inTime \subseteq inTime' /\ inTime' \subseteq Pool /\ (kind = "add" /\ ~KickedOff(c, hour) => c \in inTime')
  BY BlitzShape DEF Ask
<1>3. r \in Asking /\ r.pc = "check" /\ r.kind = kind /\ r.who = c /\ r.at = hour
  BY BlitzShape DEF Asking
<1> HIDE DEF r
<1>4. TabsAreSound'
  BY <1>1, <1>2, <1>3, TabGoesOn
<1> QED
  BY <1>1, <1>2, <1>4, BlitzShape, BlitzMade

LEMMA TabCheckStep ==
  ASSUME BlitzInv, NEW t \in Tab, Check(t)
  PROVE  BlitzInv'
<1>1. tab[t] # NoAsk /\ tab[t].pc = "check" /\ UNCHANGED <<hour, finals, entry, inTime>>
  BY DEF Check
<1> DEFINE c == tab[t].who
           adds == tab[t].kind = "add" /\ RoomFor(c)
           drops == tab[t].kind = "drop" /\ In(c, entry)
           players == IF adds THEN Append(entry, c) ELSE Without(c, entry)
           ask == [pc |-> "set", kind |-> tab[t].kind, who |-> c, at |-> tab[t].at, read |-> entry, players |-> players]
           r == IF ~(adds \/ drops) \/ ~NotLocked(c, tab[t].at) THEN NoAsk ELSE ask
<1>2. tab' = [tab EXCEPT ![t] = r]
  BY DEF Check
<1>3. c \in Pool /\ tab[t].kind \in {"add", "drop"} /\ tab[t].at \in Nat /\ Fits(entry) /\ entry \in Seq(Pool)
  BY <1>1, RequestKinds, BlitzShape
<1>4. CASE ~(adds \/ drops) \/ ~NotLocked(c, tab[t].at)
  <2>1. r = NoAsk
    BY <1>4
  <2> HIDE DEF r
  <2>2. TabsAreSound'
    BY <1>1, <1>2, <2>1, TabGoesOn
  <2> QED
    BY <1>1, <2>2, BlitzShape, BlitzMade
<1>5. CASE (adds \/ drops) /\ NotLocked(c, tab[t].at)
  <2>1. r = ask /\ ~KickedOff(c, tab[t].at)
    BY <1>5 DEF NotLocked
  <2>2. /\ Fits(players) /\ ToSet(players) \subseteq inTime
        /\ \A d \in Pool : d # c => (In(d, players) <=> In(d, entry))
    <3>1. CASE adds
      <4>1. Fits(players) /\ ToSet(players) = ToSet(entry) \cup {c}
        BY <1>3, <3>1, AppendFits DEF RoomFor
      <4>2. c \in inTime
        BY <1>1, <2>1, <3>1 DEF BlitzInv, TabsAreSound
      <4> QED
        BY <4>1, <4>2, BlitzShape DEF In
    <3>2. CASE ~adds
      <4>1. players = Without(c, entry) /\ In(c, entry)
        BY <1>5, <3>2
      <4>2. Fits(players) /\ ToSet(players) = ToSet(entry) \ {c}
        BY <1>3, <4>1, WithoutFits
      <4> QED
        BY <4>2, BlitzShape DEF In
    <3> QED
      BY <3>1, <3>2
  <2>3. players \in Seq(Pool)
    BY <2>2 DEF Fits
  <2> HIDE DEF players
  <2>4. /\ ask \in Setting /\ ask.pc = "set" /\ ask.who = c /\ ask.at = tab[t].at /\ ask.read = entry
        /\ ask.players = players
    BY <1>3, <2>3 DEF Setting
  <2> HIDE DEF ask, c, adds, drops, r
  <2>5. TabsAreSound'
    BY <1>1, <1>2, <2>1, <2>2, <2>4, TabGoesOn
  <2> QED
    BY <1>1, <2>5, BlitzShape, BlitzMade
<1> QED
  BY <1>4, <1>5

LEMMA SetEntryStep ==
  ASSUME BlitzInv, NEW t \in Tab, BlitzSetEntry(t)
  PROVE  BlitzInv'
<1>1. /\ tab[t] # NoAsk /\ tab[t].pc = "set" /\ UNCHANGED <<hour, finals, inTime>>
      /\ entry' = tab[t].players /\ tab' = [tab EXCEPT ![t] = NoAsk]
  BY DEF BlitzSetEntry
<1>2. Fits(tab[t].players) /\ ToSet(tab[t].players) \subseteq inTime
  BY <1>1 DEF BlitzInv, TabsAreSound
<1>3. TabsAreSound'
  BY <1>1, TabGoesOn
<1> QED
  BY <1>1, <1>2, <1>3, BlitzShape, BlitzMade

LEMMA HoursStep ==
  ASSUME BlitzInv, HourPasses \/ (\E g \in Games : GameEnds(g)) \/ UNCHANGED blitzVars
  PROVE  BlitzInv'
<1>1. UNCHANGED <<entry, tab, inTime>>
  BY DEF HourPasses, GameEnds, blitzVars
<1>2. hour' \in 1..LastHour /\ finals' \subseteq Games
  <2>1. CASE HourPasses
    BY <2>1, BlitzShape, BlitzConstants DEF HourPasses
  <2>2. CASE (\E g \in Games : GameEnds(g)) \/ UNCHANGED blitzVars
    BY <2>2, BlitzShape DEF GameEnds, blitzVars
  <2> QED
    BY <2>1, <2>2
<1>3. TabsAreSound'
  <2>1. TabsAreSound
    BY DEF BlitzInv
  <2> QED
    BY <1>1, <2>1 DEF TabsAreSound, Fits, NobodyTwice, OfClub, In, KickedOff
<1> QED
  BY <1>1, <1>2, <1>3, BlitzShape, BlitzMade

LEMMA BlitzInductive ==
  ASSUME BlitzInv, [BlitzNext]_blitzVars
  PROVE  BlitzInv'
BY AskStep, TabCheckStep, SetEntryStep, HoursStep DEF BlitzNext

LEMMA LockedStep ==
  ASSUME BlitzInv, [BlitzNext]_blitzVars, NEW c \in Pool, KickedOff(c, hour), In(c, entry) # In(c, entry')
  PROVE  \E t \in Tab : BlitzSetEntry(t) /\ (~KickedOff(c, tab[t].at) \/ tab[t].read # entry)
<1>1. ~UNCHANGED entry
  BY DEF In
<1>2. PICK t \in Tab : BlitzSetEntry(t)
  BY <1>1 DEF BlitzNext, blitzVars, HourPasses, GameEnds, Check, Ask
<1>3. /\ tab[t] # NoAsk /\ tab[t].pc = "set" /\ entry' = tab[t].players
  BY <1>2 DEF BlitzSetEntry
<1>4. /\ ~KickedOff(tab[t].who, tab[t].at)
      /\ \A d \in Pool : d # tab[t].who => (In(d, tab[t].players) <=> In(d, tab[t].read))
  BY <1>3 DEF BlitzInv, TabsAreSound
<1>5. CASE tab[t].read = entry
  <2>1. c = tab[t].who
    <3>1. SUFFICES ASSUME c # tab[t].who PROVE FALSE
      OBVIOUS
    <3>2. In(c, entry') <=> In(c, entry)
      BY <1>3, <1>4, <1>5, <3>1
    <3> QED
      BY <3>2 DEF In
  <2> QED
    BY <1>2, <1>4, <2>1
<1>6. CASE tab[t].read # entry
  BY <1>2, <1>6
<1> QED
  BY <1>5, <1>6

\* Every state of the Blitz keeps the entry's limits, holds nobody twice and
\* nobody whom no request asked for before the kickoff (BlitzAdd, BlitzRemove).
THEOREM BlitzStaysSound == BlitzSpec => []BlitzIsSound
<1>1. BlitzInit => BlitzInv
  BY BlitzBegins
<1>2. BlitzInv /\ [BlitzNext]_blitzVars => BlitzInv'
  BY BlitzInductive
<1>3. BlitzInv => BlitzIsSound
  BY DEF BlitzInv
<1> QED
  BY <1>1, <1>2, <1>3, PTL DEF BlitzSpec

\* A player whose game has begun enters or leaves only by a request that read
\* the clock before the kickoff or that another tab overtook (blitzGameLocked).
THEOREM LockedPlayersStay == BlitzSpec => LockedStay
<1>1. BlitzInit => BlitzInv
  BY BlitzBegins
<1>2. BlitzInv /\ [BlitzNext]_blitzVars => BlitzInv'
  BY BlitzInductive
<1>3. BlitzInv /\ [BlitzNext]_blitzVars =>
        [\A c \in Pool : KickedOff(c, hour) /\ In(c, entry) # In(c, entry') =>
           \E t \in Tab : BlitzSetEntry(t) /\ (~KickedOff(c, tab[t].at) \/ tab[t].read # entry)]_blitzVars
  BY LockedStep
<1> QED
  BY <1>1, <1>2, <1>3, PTL DEF BlitzSpec, LockedStay

-----------------------------------------------------------------------------
(* The parts together *)

\* A day of games is a behaviour of each of its parts.
LEMMA PartsOfTheDay == GameDaySpec => PollSpec /\ PickemSpec /\ BlitzSpec
<1>1. GameDayInit => PollInit /\ PickemInit /\ BlitzInit
  BY DEF GameDayInit, MCPickemInit
<1>2. [GameDayNext]_<<pollVars, PickemPart, blitzVars, gamePart>> => [PollNext]_pollVars
  BY DEF GameDayNext, MCPollNext
<1>3. [GameDayNext]_<<pollVars, PickemPart, blitzVars, gamePart>> => [PickemNext]_pickemVars
  BY DEF GameDayNext, MCPickemNext, Pricing, Playing, PickemPart
<1>4. [GameDayNext]_<<pollVars, PickemPart, blitzVars, gamePart>> => [BlitzNext]_blitzVars
  BY DEF GameDayNext, MCBlitzNext
<1> QED
  BY <1>1, <1>2, <1>3, <1>4, PTL DEF GameDaySpec, PollSpec, PickemSpec, BlitzSpec

\* On a day of games the contests stay sound (ContestsAreSound).
THEOREM ContestsStaySound == GameDaySpec => []ContestsAreSound
<1>1. PickemIsSound /\ BlitzIsSound => ContestsAreSound
  BY DEF ContestsAreSound
<1> QED
  BY <1>1, PartsOfTheDay, PickemStaysSound, BlitzStaysSound, PTL

\* On a day of games no step takes back what the contests have settled
\* (PicksStay).
THEOREM PicksAlwaysStay == GameDaySpec => PicksStay
BY PartsOfTheDay, PicksAlwaysStand, LockedPlayersStay DEF PicksStay
=============================================================================

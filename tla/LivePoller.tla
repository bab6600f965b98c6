------------------------------ MODULE LivePoller ------------------------------
(***************************************************************************)
(* The live score poller (internal/livescore): the tick with its listing,  *)
(* scoreboard and box fetches, fetches a wire signal triggers between      *)
(* ticks, the final boxes it stores before it publishes them, the finals   *)
(* it hands to Pick'em, the daily budget and the 429 circuit.              *)
(*                                                                         *)
(* A box or a scoreboard row is the stage of the game it shows: 0 nobody   *)
(* of interest has the ball, 1 somebody has, 2 final with incomplete       *)
(* scoring, 3 final, 4 a final the provider corrected. It is scored when   *)
(* it is of the game asked for and carries both teams' valid points. Time  *)
(* counts scoreboard intervals.                                            *)
(***************************************************************************)
EXTENDS Naturals, FiniteSets

CONSTANTS
  Game,            \* schedule rows
  GameWeek,        \* [Game -> week]
  Kick,            \* [Game -> kickoff]
  WindowAfter,     \* inTimeWindow
  RehydrateAfter,  \* inFinalRehydrateWindow
  Relevant,        \* games with a league starter (gameRelevance)
  Baseline,        \* cfg.BoxBaseline
  Settling,        \* the two minutes a final scoreboard is chased at every tick
  DailyBudget,     \* cfg.DailyBudget
  MaxInflight,     \* cfg.MaxInflight
  Cooldown,        \* triggerCooldown
  OpenFor,         \* circuitOpenFor
  Missing,         \* no record
  LastTime,        \* bound on time
  MaxMishaps       \* bound on failed calls and writes, missing listings and
                   \* scores, restarts and reopened boxes together

ASSUME PollerNumbers ==
  /\ {WindowAfter, RehydrateAfter, Baseline, Settling, DailyBudget, MaxInflight, Cooldown,
      OpenFor, LastTime, MaxMishaps} \subseteq Nat
  /\ GameWeek \in [Game -> Nat] /\ Kick \in [Game -> Nat]
  /\ Relevant \subseteq Game /\ IsFiniteSet(Game)
  /\ Missing \notin Nat /\ Missing \notin [box : 0..4, scored : BOOLEAN, at : Nat, streak : 0..2]
  /\ Missing \notin [score : 2..4, boxFinal : BOOLEAN, at : Nat]

VARIABLES
  clock,       \* cfg.Now
  stage,       \* what the provider has [Game -> 0..4]
  flagged,     \* games the schedule calls final
  games,       \* games, [Game -> record or Missing]
  finalDone,   \* finalDone
  rows,       \* scoreboard, [Game -> row record or Missing]
  pickemFinals,\* pickemFinals, [Game -> result or Missing]
  tracked,     \* tank01ID and trackedGame
  lastTrigger, \* lastTrigger, [Game -> time], Missing at first
  circuitOpen, \* circuitOpen
  budgetUsed,  \* budgetUsed
  unseen,      \* content changed since the version last moved
  tick,        \* Run's goroutine
  fetch,       \* fetch goroutines, one for the tick and one for the wire a game
  frozen,      \* Store: FinalGameStats, [Game -> stage or Missing]
  posted,      \* Store: games of closed weeks
  reopened,    \* games whose box was reopened since it was last stored
  mishaps

memory == <<games, finalDone, rows, pickemFinals, tracked, lastTrigger, circuitOpen, budgetUsed, unseen>>
storeVars == <<frozen, posted, reopened>>
pollVars == <<clock, stage, flagged, memory, tick, fetch, storeVars, mishaps>>

Final(box) == box >= 2

\* Mutant: an incomplete final box counts as a complete one
CompleteAny(box) == Final(box)

Complete(box) == box >= 3

Asker == {"tick", "wire"} \X Game
NoFetch == [pc |-> "off"]
NoPass == [pc |-> "off"]
Busy == {f \in Asker : fetch[f].pc # "off"}
FromTick == {f \in Busy : f[1] = "tick"}

-----------------------------------------------------------------------------
(* What the poller decides *)

InTimeWindow(g, t) == t <= Kick[g] + WindowAfter /\ t >= Kick[g]
InRehydrateWindow(g, t) == g \in flagged /\ Kick[g] <= t /\ t <= Kick[g] + RehydrateAfter

Targets(t) == {g \in Game \ finalDone : InTimeWindow(g, t) \/ InRehydrateWindow(g, t)}

\* A row that is in progress is as good as a box of the same time.
HasBall(g) ==
  IF rows[g] # Missing /\ ~Final(rows[g].row) /\ (games[g] # Missing => rows[g].at >= games[g].at)
  THEN rows[g].row = 1
  ELSE games[g] # Missing /\ games[g].box = 1

Tier(g) ==
  IF g \notin Relevant THEN "idle"
  ELSE IF HasBall(g) /\ (games[g] # Missing => games[g].streak < 2) THEN "fast" ELSE "baseline"

\* A tick is as long as the fast interval.
IntervalFor(tier) == IF tier = "fast" THEN 1 ELSE Baseline

BoxFetchDue(g, t) ==
  \/ games[g] = Missing
  \/ /\ rows[g] # Missing /\ Final(rows[g].row) /\ ~Final(games[g].box)
     /\ IF t - rows[g].changedAt < Settling THEN t > games[g].at ELSE t - games[g].at >= Baseline
  \/ /\ ~(rows[g] # Missing /\ Final(rows[g].row) /\ ~Final(games[g].box))
     /\ Tier(g) # "idle"
     /\ \/ rows[g] # Missing /\ rows[g].changedAt > games[g].at
        \/ t < games[g].at \/ t - games[g].at >= IntervalFor(Tier(g))

\* Mutant: the budget is not looked at
BudgetIgnored == TRUE

BudgetRemaining == DailyBudget = 0 \/ budgetUsed < DailyBudget

\* Mutant: whoever reports another score is believed
RemembersAnything(g, box, fromBox, t) == pickemFinals[g] = Missing \/ pickemFinals[g].score # box

\* A settled result gives way to a box only, and a box to a newer one.
Remembers(g, box, fromBox, t) ==
  LET old == pickemFinals[g]
  IN  \/ old = Missing
      \/ /\ fromBox \/ ~old.boxFinal
         /\ old.boxFinal /\ fromBox => t > old.at
         /\ old.boxFinal = fromBox => old.score # box

Settled(score, fromBox, t) == [score |-> score, boxFinal |-> fromBox, at |-> t]

-----------------------------------------------------------------------------
(* The tick *)

Mishap == mishaps < MaxMishaps /\ mishaps' = mishaps + 1
Smooth == UNCHANGED mishaps

\* A 429 opens the circuit, another failure is only counted.
Failed(t) == circuitOpen' \in {circuitOpen, t + OpenFor}

Pass(matched) ==
  [pc |-> "board", at |-> clock, matched |-> matched, todo |-> {}, tiers |-> <<>>, changed |-> FALSE,
   week |-> LET weeks == {GameWeek[g] : g \in Targets(clock)}
            IN  CHOOSE w \in weeks : \A v \in weeks : w <= v]

\* The schedule, the targets and their listing, which may be an old one or miss
\* a game.
BeginTick ==
  /\ tick.pc = "off" /\ clock >= circuitOpen
  /\ UNCHANGED <<clock, stage, flagged, games, finalDone, rows, pickemFinals, lastTrigger, budgetUsed,
                 unseen, fetch, storeVars>>
  /\ IF Targets(clock) = {}
     THEN tracked' = {} /\ UNCHANGED <<tick, circuitOpen, mishaps>>
     ELSE \/ /\ tracked' = Targets(clock) /\ UNCHANGED circuitOpen /\ Smooth
             /\ tick' = Pass(Targets(clock))
          \/ \E matched \in SUBSET Targets(clock) :
               Mishap /\ Failed(clock) /\ tracked' = matched /\ tick' = Pass(matched)

\* A row the reply does not cover keeps its record; one without scores settles
\* nothing.
RefreshScoreboard ==
  /\ tick.pc = "board"
  /\ \E covered, scored \in {tick.matched, {}} :
       /\ scored \subseteq covered
       /\ IF covered = tick.matched THEN UNCHANGED circuitOpen ELSE Failed(tick.at)
       /\ IF scored = tick.matched THEN Smooth ELSE Mishap
       /\ LET settles == {g \in scored : Final(stage[g]) /\ Remembers(g, stage[g], FALSE, tick.at)}
              differs == {g \in covered : rows[g] = Missing \/ rows[g].row # stage[g]
                                            \/ rows[g].scored # (g \in scored)}
          IN  /\ pickemFinals' = [g \in Game |-> IF g \in settles THEN Settled(stage[g], FALSE, tick.at)
                                                  ELSE pickemFinals[g]]
              /\ rows' = [g \in Game |->
                   IF g \notin covered THEN rows[g]
                   ELSE [row |-> stage[g], scored |-> g \in scored, at |-> tick.at,
                         changedAt |-> IF g \in differs THEN tick.at ELSE rows[g].changedAt]]
              /\ tick' = [tick EXCEPT !.pc = "due", !.changed = settles \cup differs # {}]
              /\ unseen' = (unseen \/ settles \cup differs # {})
  /\ UNCHANGED <<clock, stage, flagged, games, finalDone, tracked, lastTrigger, budgetUsed,
                 fetch, storeVars>>

Sent(g, t, tier) == [pc |-> "sent", box |-> stage[g], at |-> t, tier |-> tier]

ChooseBoxes ==
  /\ tick.pc = "due"
  /\ tick' = [tick EXCEPT !.pc = "boxes", !.todo = {g \in tick.matched : BoxFetchDue(g, tick.at)},
                           !.tiers = [g \in Game |-> Tier(g)]]
  /\ UNCHANGED <<clock, stage, flagged, memory, fetch, storeVars, mishaps>>

\* The budget is read before the wait for a slot.
CheckBudget ==
  /\ tick.pc = "boxes" /\ tick.todo # {}
  /\ IF BudgetRemaining THEN tick' = [tick EXCEPT !.pc = "slot"] ELSE tick' = [tick EXCEPT !.todo = {}]
  /\ UNCHANGED <<clock, stage, flagged, memory, fetch, storeVars, mishaps>>

SpawnFetch(g) ==
  /\ tick.pc = "slot" /\ g \in tick.todo /\ Cardinality(FromTick) < MaxInflight
  /\ tick' = [tick EXCEPT !.pc = "boxes", !.todo = @ \ {g}]
  /\ fetch' = [fetch EXCEPT ![<<"tick", g>>] = Sent(g, tick.at, tick.tiers[g])]
  /\ UNCHANGED <<clock, stage, flagged, memory, storeVars, mishaps>>

Pruned(week) == {g \in Game : games[g] # Missing /\ GameWeek[g] < week}

EndTick ==
  /\ tick.pc = "boxes" /\ tick.todo = {} /\ FromTick = {}
  /\ LET old == Pruned(tick.week)
     IN  /\ games' = [g \in Game |-> IF g \in old THEN Missing ELSE games[g]]
         /\ rows' = [g \in Game |-> IF g \in old THEN Missing ELSE rows[g]]
         /\ finalDone' = finalDone \ old
  /\ unseen' = (unseen /\ ~tick.changed)
  /\ tick' = NoPass
  /\ UNCHANGED <<clock, stage, flagged, pickemFinals, tracked, lastTrigger, circuitOpen, budgetUsed,
                 fetch, storeVars, mishaps>>

-----------------------------------------------------------------------------
(* A box fetch, of the tick or of a wire signal *)

TriggerAllowed(g) ==
  /\ clock >= circuitOpen /\ g \in tracked \ finalDone
  /\ lastTrigger[g] # Missing => clock - lastTrigger[g] >= Cooldown

\* The cooldown is taken also when the game is idle or the budget is spent.
TriggerBoxFetch(g) ==
  /\ fetch[<<"wire", g>>].pc = "off" /\ TriggerAllowed(g)
  /\ lastTrigger' = [lastTrigger EXCEPT ![g] = clock]
  /\ fetch' = [fetch EXCEPT ![<<"wire", g>>] =
       IF g \in Relevant /\ BudgetRemaining THEN Sent(g, clock, "baseline") ELSE NoFetch]
  /\ UNCHANGED <<clock, stage, flagged, games, finalDone, rows, pickemFinals, tracked, circuitOpen,
                 budgetUsed, unseen, tick, storeVars, mishaps>>

\* Mutant: a fetch that fails after its result was taken announces nothing
AnnounceNothing(f, changes) == UNCHANGED <<tick, unseen>>

\* A change of the tick's counts with the tick, one of the wire's at once.
Announce(f, changes) ==
  IF f[1] = "tick"
  THEN tick' = [tick EXCEPT !.changed = @ \/ changes] /\ UNCHANGED unseen
  ELSE unseen' = (unseen /\ ~changes) /\ UNCHANGED tick

Over(f) == fetch' = [fetch EXCEPT ![f] = NoFetch]

FetchFails(f) ==
  /\ fetch[f].pc = "sent" /\ Mishap /\ Failed(fetch[f].at) /\ Over(f)
  /\ UNCHANGED <<clock, stage, flagged, games, finalDone, rows, pickemFinals, tracked, lastTrigger,
                 budgetUsed, unseen, tick, storeVars>>

\* The payload is of some moment since the request. Pick'em hears of a final
\* first, if it is scored; then record looks whether the game is done, and
\* refuses an incomplete final box, scored or not.
Receive(f) ==
  LET g == f[2]
      c == fetch[f]
  IN  /\ c.pc = "sent"
      /\ \E box \in c.box .. stage[g], scored \in BOOLEAN :
           LET picks == Final(box) /\ scored /\ g \notin finalDone /\ Remembers(g, box, TRUE, c.at)
               next == IF g \in finalDone THEN "done"
                       ELSE IF ~Final(box) THEN "put"
                       ELSE IF Complete(box) THEN "save" ELSE "refused"
           IN  /\ IF scored THEN Smooth ELSE Final(box) /\ Mishap
               /\ pickemFinals' = IF picks THEN [pickemFinals EXCEPT ![g] = Settled(box, TRUE, c.at)]
                                  ELSE pickemFinals
               /\ unseen' = (unseen \/ picks)
               /\ fetch' = [fetch EXCEPT ![f] = [pc |-> next, box |-> box, scored |-> scored, at |-> c.at,
                                                 tier |-> c.tier, pick |-> picks]]
      /\ UNCHANGED <<clock, stage, flagged, games, finalDone, rows, tracked, lastTrigger, circuitOpen,
                     budgetUsed, tick, storeVars>>

\* An incomplete final box, or one the Store could not take, is a failure.
RecordRefused(f) ==
  /\ fetch[f].pc = "refused" /\ Announce(f, fetch[f].pick) /\ Over(f)
  /\ UNCHANGED <<clock, stage, flagged, games, finalDone, rows, pickemFinals, tracked, lastTrigger,
                 circuitOpen, budgetUsed, storeVars, mishaps>>

\* Mutant: the last box wins
FreezesAlways(g) == g \notin posted

\* Store.RecordFinalGameStats: the first box wins, a posted week takes none.
Freezes(g) == frozen[g] = Missing /\ g \notin posted

Finalize(f) ==
  LET g == f[2]
  IN  /\ fetch[f].pc = "save"
      /\ \/ /\ frozen' = IF Freezes(g) THEN [frozen EXCEPT ![g] = fetch[f].box] ELSE frozen
            /\ reopened' = IF Freezes(g) THEN reopened \ {g} ELSE reopened
            /\ fetch' = [fetch EXCEPT ![f].pc = "put"] /\ Smooth
         \/ /\ Freezes(g) /\ Mishap /\ UNCHANGED <<frozen, reopened>>
            /\ fetch' = [fetch EXCEPT ![f].pc = "refused"]
      /\ UNCHANGED <<clock, stage, flagged, memory, tick, posted>>

\* Mutant: the second look at finalDone is left out
PutsAlways(f) == fetch[f].pc = "put"

\* An older payload may replace a newer one, but never a final one. Then
\* updateFastStreak, chargeBudget and the version.
Puts(f) == fetch[f].pc = "put" /\ f[2] \notin finalDone

Record(f) ==
  LET g == f[2]
      c == fetch[f]
      old == games[g]
      changes == Puts(f) /\ (old = Missing \/ old.box # c.box)
      streak == IF changes \/ old = Missing THEN 0
                ELSE IF c.tier = "fast" /\ old.streak < 2 THEN old.streak + 1 ELSE old.streak
  IN  /\ c.pc \in {"put", "done"}
      /\ games' = [games EXCEPT ![g] = IF Puts(f) THEN [box |-> c.box, scored |-> c.scored, at |-> c.at, streak |-> streak]
                                       ELSE IF old = Missing THEN Missing ELSE [old EXCEPT !.streak = streak]]
      /\ finalDone' = IF Puts(f) /\ Final(c.box) THEN finalDone \cup {g} ELSE finalDone
      /\ budgetUsed' = budgetUsed + 1
      /\ IF f[1] = "tick"
         THEN tick' = [tick EXCEPT !.changed = @ \/ changes \/ c.pick] /\ unseen' = (unseen \/ changes)
         ELSE unseen' = (unseen /\ ~(changes \/ c.pick)) /\ UNCHANGED tick
      /\ Over(f)
      /\ UNCHANGED <<clock, stage, flagged, rows, pickemFinals, tracked, lastTrigger, circuitOpen,
                     storeVars, mishaps>>

-----------------------------------------------------------------------------
(* The world, the commissioner and the process *)

GameGoesOn(g) ==
  /\ InTimeWindow(g, clock)
  /\ \E later \in stage[g] + 1 .. 4 : stage' = [stage EXCEPT ![g] = later]
  /\ UNCHANGED <<clock, flagged, memory, tick, fetch, storeVars, mishaps>>

ScheduleSaysFinal(g) ==
  /\ Final(stage[g]) /\ g \notin flagged /\ flagged' = flagged \cup {g}
  /\ UNCHANGED <<clock, stage, memory, tick, fetch, storeVars, mishaps>>

\* A tick or a fetch is over by the end of the interval after its own.
TimePasses ==
  /\ clock < LastTime /\ clock' = clock + 1
  /\ \A f \in Busy : fetch[f].at = clock
  /\ tick.pc # "off" => tick.at = clock
  /\ UNCHANGED <<stage, flagged, memory, tick, fetch, storeVars, mishaps>>

ClosesWeek(g) ==
  /\ Final(stage[g]) /\ g \notin posted /\ posted' = posted \cup {g}
  /\ UNCHANGED <<clock, stage, flagged, memory, tick, fetch, frozen, reopened, mishaps>>

ReopenFinalGameStats(g) ==
  /\ Mishap /\ g \notin posted /\ frozen[g] # Missing
  /\ frozen' = [frozen EXCEPT ![g] = Missing] /\ reopened' = reopened \cup {g}
  /\ UNCHANGED <<clock, stage, flagged, memory, tick, fetch, posted>>

NoRecords == [g \in Game |-> Missing]

Relaunch ==
  /\ Mishap
  /\ games' = NoRecords /\ finalDone' = {} /\ rows' = NoRecords /\ pickemFinals' = NoRecords
  /\ tracked' = {} /\ lastTrigger' = NoRecords /\ circuitOpen' = 0 /\ budgetUsed' = 0
  /\ unseen' = FALSE /\ tick' = NoPass /\ fetch' = [f \in Asker |-> NoFetch]
  /\ UNCHANGED <<clock, stage, flagged, storeVars>>

PollInit ==
  /\ clock = 0 /\ stage = [g \in Game |-> 0] /\ flagged = {}
  /\ games = NoRecords /\ finalDone = {} /\ rows = NoRecords /\ pickemFinals = NoRecords
  /\ tracked = {} /\ lastTrigger = NoRecords /\ circuitOpen = 0 /\ budgetUsed = 0
  /\ unseen = FALSE /\ tick = NoPass /\ fetch = [f \in Asker |-> NoFetch]
  /\ frozen = NoRecords /\ posted = {} /\ reopened = {}
  /\ mishaps = 0

PollNext ==
  \/ BeginTick \/ RefreshScoreboard \/ ChooseBoxes \/ CheckBudget \/ EndTick
  \/ \E g \in Game : SpawnFetch(g) \/ TriggerBoxFetch(g)
  \/ \E f \in Asker : FetchFails(f) \/ Receive(f) \/ RecordRefused(f)
                      \/ Finalize(f) \/ Record(f)
  \/ \E g \in Game : GameGoesOn(g) \/ ScheduleSaysFinal(g) \/ ClosesWeek(g) \/ ReopenFinalGameStats(g)
  \/ TimePasses \/ Relaunch

PollSpec == PollInit /\ [][PollNext]_pollVars

-----------------------------------------------------------------------------
(* Properties *)

Times == 0..LastTime

\* Type invariant of the poller.
PollerTypeOK ==
  /\ clock \in Times /\ stage \in [Game -> 0..4] /\ flagged \subseteq Game
  /\ games \in [Game -> {Missing} \cup [box : 0..4, scored : BOOLEAN, at : Times, streak : 0..2]]
  /\ rows \in [Game -> {Missing} \cup [row : 0..4, scored : BOOLEAN, at : Times, changedAt : Times]]
  /\ pickemFinals \in [Game -> {Missing} \cup [score : 2..4, boxFinal : BOOLEAN, at : Times]]
  /\ finalDone = {g \in Game : games[g] # Missing /\ Final(games[g].box)}
  /\ tracked \subseteq Game /\ unseen \in BOOLEAN
  /\ frozen \in [Game -> {Missing} \cup 3..4]

\* A box the poller calls final is complete and is in the Store, so a restart
\* or a correction cannot change a score already called final, except that a
\* commissioner reopened it or the week was posted before (record).
FinalIsStoredFirst ==
  \A g \in finalDone : Complete(games[g].box) /\ (frozen[g] # Missing \/ g \in posted \cup reopened)

\* When a box with scores ended a game, Pick'em settles it from a box, never
\* again from a scoreboard (rememberPickemFinalLocked).
PickemHearsOfFinals ==
  \A g \in finalDone : games[g].scored => pickemFinals[g] # Missing /\ pickemFinals[g].boxFinal

\* The day's budget is overspent by no more than the fetches that were under
\* way or waiting for a slot when it ran out (budgetRemaining, chargeBudget).
SpendingIsBounded ==
  DailyBudget > 0 => budgetUsed <= DailyBudget + MaxInflight + Cardinality(Game)

\* At rest, every change of what is shown has moved the version, also when the
\* fetch that found it failed afterwards, so no reader keeps a memoized
\* snapshot of before (Tick, TriggerBoxFetch, versionedSnapshot).
NothingUnseen == tick.pc = "off" /\ Busy = {} => ~unseen

PollerIsSound ==
  PollerTypeOK /\ FinalIsStoredFirst /\ PickemHearsOfFinals /\ SpendingIsBounded /\ NothingUnseen

\* A final box stays the box of its game until the week is pruned or the
\* process ends: a fetch that began earlier and answers later does not replace
\* it ("Its older in-progress payload must never replace that final record").
FinalBoxStays ==
  [][\A g \in finalDone :
       \/ g \in finalDone' /\ games'[g].box = games[g].box
       \/ EndTick \/ Relaunch]_pollVars

\* The first final box the Store took is the one that counts, whatever later
\* fetches, processes and corrections bring (RecordFinalGameStats).
FirstBoxCounts ==
  [][\A g \in Game : frozen[g] # Missing => frozen'[g] = frozen[g] \/ ReopenFinalGameStats(g)]_pollVars

\* In one process Pick'em's result of a game hardens: a box outranks the
\* scoreboard, a later box an earlier one, and nothing a box once the game is
\* done.
PickemHardens ==
  [][\A g \in Game : pickemFinals[g] # Missing /\ ~Relaunch =>
       LET old == pickemFinals[g]
           new == pickemFinals'[g]
       IN  /\ new # Missing /\ (old.boxFinal => new.boxFinal)
           /\ old.boxFinal /\ new # old => new.at > old.at
           /\ g \in finalDone /\ old.boxFinal => new = old]_pollVars

FinalsStayFinal == FinalBoxStays /\ FirstBoxCounts /\ PickemHardens
=============================================================================

# Gridiron 2000: TLA+ models and proofs

TLA+ modules for the core of the fantasy-football league server in this repository
(Go, `internal/league` and the pages in `app/`), the TLC configurations that check
them on small instances, and TLAPS proofs of the main results for every instance.
`PROJECT.json` lists components, runs, mutants, findings, hazards and theorems, and
maps each definition to the source lines it models.

## 1. The system

One process serves one league. All league state is one `PersistedState` inside
`Store` (`internal/league/store.go`): every mutator takes `Store.mu`, checks,
changes memory, writes the dirty collections to SQLite (`persistLocked`) and, in
most mutators, rolls memory back if the write fails. `Service` (`service.go`,
`admin.go`, ...) sits above it: a request reads a snapshot, validates and decides
on that copy, and then calls one Store method. **Whatever a Service method read may
be stale when the Store method runs**; what the Store checks again under its lock,
and what it does not, is where this program is right or wrong. Background
goroutines (the draft clock, the draft event drain and repair loops, waiver and
week-close tickers, notification senders, the live-score poller, backups) use the
same Store.

| Part | State | Operations | Hard behaviour |
|---|---|---|---|
| Draft room and pick clock | `DraftStarted`, `Picks`, `DraftOrder`, `ClockDeadline`, `ClockPaused`, `ClockRemainingSec`, `ClockDurationSec`, `Autopick` | pick, auto-pick, forced pick, undo, reset, draw, start, pause, resume, extend, set duration, AUTO; one-second loop; boot recovery | requests, loop and commissioner race; stale forms; restart across a deadline |
| Draft events | `draftGeneration`, queue of 256, one-slot repair signal and repair queue, completion latch; hub's `lastGeneration` | emit, drop, repair, drain, broadcast | drops, overtaking, latch against undo |
| Autopick choice | none (pure) | board and house passes with guards, maximum slot filling | scarcity and viability at the end of a draft |
| Persistence | SQLite rows, dirty set, latched error | persist, rollback, boot, migrate, reset | failed and unknown commits, crash |
| Seats and invitations | `Members`, `CoManagers`, invites, trimmed seats | claim, invite, accept, release, trim | release racing everything keyed by seat |
| Rosters, waivers, trades, IR | `Transactions`, `WaiverClaims`, receipts, `TradeOffers`, `RosterZones` | add, drop, claim, run, offer, accept, veto, execute, zone moves | player in two places, run twice, offer on moved player |
| Lineups | `Lineups`, auto-fill marks | set, move, auto-fill, lock at kickoff | deadline racing a move |
| Season, ledger, postseason | schedule, closed weeks, ledger, bracket | close week, correct, advance | closing twice, late statistics |
| Pick'em, blitz, trophies | picks, results | lock, grade, award | grading before lock |
| Notifications | `SentLog`, settings, push subscriptions | evaluate, send, record | duplicate or lost sends |
| Live scoring, feeds, relay, wire | caches, last snapshots | poll, merge, serve | late, repeated or failing polls |
| Setup, backup, fleet files | wizard state, backup files | commit, restore, rotate | crash half way |

What makes each correct: a player is on at most one roster and a pick, claim or
trade is applied once; a deadline shown to a manager is the deadline enforced; a
form acts only on the state it displayed; what was acknowledged survives a restart
and what was refused does not appear; every room converges to the Store's state.

## 2. Modules

A component's module has its state as VARIABLES, one action per Store call or step
between two of them, and its properties at the end; `MC...` modules bound the instances.

| Module | Models | Composed in |
|---|---|---|
| `DraftRules`, `SnakeDraft`, `DraftRoom` | the draft and its clock; `SnakeDraft` is the abstract tape | `MCDraftRoom` |
| `DraftEvents` | from a committed change to the broadcast | `MCDraftEvents`, `MCDelivery` |
| `Notices` | receipts, evaluations, mail queue and worker | `MCDelivery` |
| `RosterLedger`, `RosterBook`, `RosterMoves` | transactions, zones and trades; `RosterBook` is the abstract owner of each player | `MCRosterMoves`, `MCRosterParts` |
| `WaiverRun` | waiver claims and their runs, over `RosterLedger` | `MCWaiverRun` |
| `SeasonWeek` | lineups, boxes and the close of a week | `MCSeasonWeek`, `MCSeason` |
| `Playoffs` | the postseason brackets | `MCPlayoffs`, `MCSeason` |
| `Seats` | seats, co-managers, boards, trim | `MCSeats`, `MCStoreParts` |
| `Persistence` | memory, row index and database under failing commits | `MCStoreParts` |
| `LegacyImport` | the first boots of a league from a JSON file | `MCStoreParts` |
| `Publication` | the fleet's configuration files | `MCPublication`, `MCStoreParts` |
| `Practice` | the registry of practice drafts | `MCPractice`, `MCStoreParts` |
| `LivePoller` | the live score poller, its budget and its final boxes | `MCLivePoller`, `MCGameDay` |
| `Pickem` | market lines, picks, grading | `MCPickem`, `MCGameDay` |
| `Blitz` | a Blitz entry and its two tabs | `MCBlitz`, `MCGameDay` |
| `DraftRoomProofs`, `RosterMovesProofs`, `StorePartsProofs`, `PracticeProofs`, `GameDayProofs`, `DeliveryProofs`, `SeasonProofs`, `WaiverRunProofs` | theorems about the module of the name; `DeliveryProofs` is about `DraftEvents` and `Notices`, `SeasonProofs` about `SeasonWeek` and `Playoffs`, `StorePartsProofs` about `Persistence`, `LegacyImport`, `Publication` and `Seats`, `GameDayProofs` about `LivePoller`, `Pickem` and `Blitz` | TLAPS |

`MCDelivery`, `MCRosterParts`, `MCSeason`, `MCStoreParts` and `MCGameDay` put parts that share
no step into one run: a behaviour stays in the part it starts in, so a run explores the
sum of the parts and not their product. Parts that do interact are in one module (the
rosters, trades and zones of `RosterMoves`; the draft and its clock), and what one
component takes from another is an input of it: the finals of `LivePoller` are
`Pickem!LiveFinal`, the schedule and statistics are feeds of `SeasonWeek`, the rosters'
releases and signings are `WaiverRun!Release` and `Sign`.

### DraftRoom

Each Store method is one step: it holds `Store.mu` from its checks to its write.
`PickBegin`/`PickCommit` are the two halves of `Service.MakePick` (snapshot,
viability and next deadline; then `Store.MakePick`). `TickSees...` is `clockTick` up
to its Store call, `TickClear`, `TickArm`, `TickPause`, `TickFire` the call; `TickIdle`
is a tick with nothing to do. `StartBegin`, `ResumeBegin` and `ForceBegin` read the
duration, or the instant and the choice, before `StartCommit`, `ResumeCommit`,
`ForceCommit`. Controls that only pass `s.clock()` to one Store call (pause,
extend, undo, duration, AUTO, reset) read the wall clock in the same step. A rendered
page (`RenderPage`) carries the current-pick, previous-pick and order tokens; a form
is submitted with the tokens of the page, however old. A token is the record of the
fields its hash is taken over. `Crash` loses everything but the Store and the
browser's page; `Boot` is `bootRecoverClock`, which runs before the loop and before
requests are served.

Time is whole seconds and never runs backwards. Whether the on-clock seat has never
been seen by the presence tracker is a free choice at each tick. `AutopickChoices` is
the set of undrafted players that keep the roster viable: the passes over a board, the
house ranking and the relief passes only order it. A manual pick may be any viable
player; the optional position limits and the scarcity guard only forbid more.
`maximumDraftStarterFill` (augmenting paths) is replaced by what it computes.
A pick's instant is the number of control actions so far (`acts`), so that re-picks of
the same slot differ, as their `MadeAt` does.

### DraftEvents

A handler commits (Store lock), reads a snapshot, and emits; these are three steps, as
are the latch and the announcement that follow. `Emit` is `emitDraftEvent`: generation
and enqueue under `draftEmitMu`, a drop raises the one-slot signal. `RepairBuild` takes
generation and snapshot under the same lock, `RepairSend` parks on the one-slot repair
queue. `Deliver` is the sink in `app/draft/live.go` with its stale guard. An event's
`at` is the Store version its snapshot showed; a `draft:state` describes everything up
to it, another event only its own change. The ghosts `shown`, `lost`, `mended`,
`emitted`, `announced` record what was described, dropped, repaired and announced.

### RosterMoves

The code never stores a roster: `currentRosters` replays picks and `Transactions`. The log
grows by one entry at a time and the replay is a left fold, so the state holds the
replay's value, `rosters`, and `ApplyTransaction` is the fold's step. A season
starts with disjoint rosters of full size, as a completed draft leaves them.

A roster or zone request is `Ask` (`AddPlayer`, `DropPlayer`, `resolveRosterCorrection`,
`PlaceInReserve`, `PlaceInIR`, `ActivateFromReserve`, `ActivateFromIR`, all on a
snapshot) and `Commit` (the Store method under its lock, which repeats some of the
checks: ownership and cap for an add or drop, ownership and no tag for a placement,
the tag for an activation, nothing about waivers, limits, or a zone's capacity).
`Refuse` is a Store method that fails, or a process that stops first. Locks depend on the
request's own captured instant and on weeks that only ever turn final, so a lock that
allowed a request on the snapshot also allows it under the Store's lock: locks are
guards of `Ask`. The Store methods of trade offers repeat all the checks of the
Service on the offer, so these requests are one step; only an acceptance without a
veto policy has a second step, the execution by the same request
(`ExecuteAccepted`). `TickSeesHealed` and `AutoCutHealedIR` are the roster tick's snapshot
and its Store call; `TickExecute` and `TickExpire` are its trade half, at any moment a
review could be over. A week is `kicked`: a player whose game kicked off is locked
until the week closes. `cooling` is the set of players whose last free-agency drop
has not cleared. The history variable `agreed` keeps the parties' rosters
of the moment an offer was accepted.

### WaiverRun

A claim is filed in two steps (the Service's checks on a snapshot, `AddWaiverClaim`), the
daily run of the tick is `TickSeesDue` (which run is due, the award order of that instant)
and `TickRuns` (`ProcessWaivers`, one Store call and one step); the commissioner's forced
run has its own page token and its own instant. The run decides its claims in order on
rosters that change with each win (`Resolved`, a recursive function). Time is counted in
steps with `Day` of them from one run to the next. The pool of players comes and goes
(`PoolOutage`, `PoolRebuilt` with players missing), the process restarts, a write fails.

### SeasonWeek

The lineup a week resolves to (`Lineup`) is inheritance from the latest earlier week with
a map, then auto-fill of empty and stale slots: it is computed, never stored, except when
a write pins it. An edit is `EditBegin` (snapshot) and `Commit` (`SetLineupWeekIfUnchanged`,
or `SetLineupWeek` for auto-fill, which compares nothing). A close is `CloseRead`,
`CloseScore`, `CloseCommit`, by the tick or by the commissioner, each on snapshots of its
own. Boxes come complete or damaged, are reopened, and freeze when the week is posted.

### Playoffs

Preview, publish, advance and correct are Store calls; an advance has read its results from
the ledger in an earlier step. The code keeps one list of matchups whose readers filter it by
bracket and round; `rounds[bracket][round]` is what such a filter finds, in the same order, and a
matchup's ID is its place there. Seeding, byes, reseeding, the consolation and the toilet bracket
are operators over these lists; their sorts are one operator (`Ranked`) that TLC evaluates and the
provers can expand, and powers of two are counted (`PowerOfTwo`) for the same reason.

### Persistence and LegacyImport

`Persistence` has the three copies of every row: memory (`mem`), the row index the Store compares with
(`index`), and the database (`db`). A transaction fails before its commit, commits, or
reports an error with the rows stored or not. `Ordinary` mutators keep, undo, or undo
and drop the mark of their change; identity operations and the league reset read the
database again and poison the Store when that fails too. `blind` is a history
variable: an ordinary commit landed and was reported failed. `LegacyImport` is the boot
of a league whose state is still a JSON file, which can stop between any two steps and
forget a rename that was not synced.

### Seats

A claim, an invitation, a READY or AUTO toggle and a board entry take their seat from a
snapshot and land in a later step; a claim looks for an invitation in the first step only.
Release and trim forms carry tokens of what the page showed. `stray` is a history
variable: the seats and people that such a late request reached after the release, or that a co-manager who had
left the seat wrote a board entry for.

### Notices

Whether a notice is due is derived from the season at every look, by the tick and by a week's
close: its window has opened and its occasion is `standing`, that is, the draft has not started
(`notifications.go:604`), the lineup warning's week is the current one (`:2009`), the recap's week is
still final (`:1553`). `OccasionTurns` ends or renews the occasion of any due notice at any time, under a
look as well. `FirstSend` writes the receipt; only then does `Enqueue` put the message into the
queue (one step) and count it (another). The worker calls the transport up to twice. A day
prunes receipts older than `Retention`. Writes fail or land unheard, ticks panic, the process
restarts.

### LivePoller

The tick is one goroutine: targets and listings, the scoreboard, the boxes that are due, one
fetch after the other through the slots and the budget; a wire signal's fetch runs beside
it. A box's `Receive` (Pick'em's result) and `Finalize` (the Store's write) and `Record` are
separate steps, so answers overtake each other. Boxes and scoreboard rows are the stage of
the game they show, and `scored` if both sides carry valid points: only a scored final settles Pick'em
(`poller.go:101`), while an unscored complete final box still ends the game's polling. A restart loses
everything but the Store's boxes.

### Pickem and Blitz

A tick and a pick read clock and schedule first; `Reconcile`, `Backfill` and
`SetPickem` are Store calls on that reading, which may be old by then. `Outcome` is
`gradePickemAt`, `Result` the overlay of the poller's finals over the schedule's. A line
freezes at the lock or its game becomes void. In `Blitz` two tabs of one member check a
snapshot of the entry and write it back as a whole (`BlitzSetEntry`), while games kick off.

### Publication and Practice

`Publication` has the output tree, the stages and the backups of concurrent runs as files
that go one by one, each rename, each look at the output and each look at the parent
directory as a step; calls fail, runs stop, an operator edits the output and inspects
leftovers. `Practice` has the registry of sandboxes: the cap is looked at before and after the
sandbox is built, a replaced session is closed after the lock is let go, and the tick walks
over a copy of the registry. The sandbox's own draft is its number of picks.

## 3. Runs

Twelve runs; a property that is a conjunction of named parts is listed by its parts.

| Run | Instance | Shows |
|---|---|---|
| `draft_room_safety` | 2 seats, 1 round, 3 players (one is no quarterback), 1 request, 3 seconds, 2 control actions, a second duration and an extension; with fairness | `TypeOK`, `LoopPicksOnlyOnExpiredClock`, `UndoRemovesDisplayedPick`, `BootIsFair`, `ClockKeepsMoving` (no clock stays `Overdue`, `Bare` or `Leftover`) |
| `draft_room_races` | 2 seats, 2 rounds (the snake turns), 4 players, 2 requests, 2 seconds, 1 control action, symmetric players and requests | `TapeIsSound` (`NoDoubleDraft`, `TapeFollowsSnake`, `PicksOnlyInOpenDraft`), `ImplementsSnakeDraft` |
| `delivery` | events: 2 handlers and either a queue of 1 with 2 commits and a clock event, or 3 commits that never overflow it; notices: 2 with windows of one and two days whose occasions end and return freely, a queue of 1, 4 days, 2 mishaps; with fairness | `DeliveryIsSound` (types, `SingleCompletion`, `RepairIsFresh`), `DropsAreMended`, `NoticesAreSound` (`AtMostOnce`, `ReceiptOutlivesWindow`, `CountIsHonest`), `EveryNoticeSettles` |
| `roster_review` | 3 teams, 3 players, 2 offers, both veto mechanisms, drops, placements on IR of one player who gets hurt; players and offers are symmetric | `TypeOK`, `SettledOffersStay`, `NoOrphanZone` |
| `roster_trades` | 2 teams, 4 players, offers of up to 2 players a side, adds and drops, one player who kicks off, no veto policy | `WithinCap`, `TradesAreKept` (`PlayersMoveOnlyByAgreement`, `AgreedTradeNotLost`), `ImplementsRosterBook` |
| `roster_zones` | 2 teams, 4 players; one request at a time with every zone operation, or two that race to add, drop and correct | `OneOwner`, `RostersFit` (`WithinCap`, `IRWithinSlots`, `NoOrphanIR`) |
| `waiver_run` | 2 teams, 4 players, runs 2 instants apart, in three parts: a contest of several claims in both modes, a claim among outages, restarts and forced runs, a claim among roster moves and a closing week; with fairness | `RunsAreSound` (`BookIsWellFormed`: types, `PrioritiesAreDense`, `BudgetIsKept`; `ClaimsSettleOnce`, `NoReceiptBeforeFiling`, `ExpiryTakesTime`), `NoSweep`, `MCRunsCatchUp` |
| `season` | 2 weeks, 3 games, 4 players, 2 slots, 2 edits, 1 roster move, 1 reopened box; and 7 teams under five sets of postseason rules, 2 advances, 1 correction, 1 change of the standings; with fairness | `LineupsAreSound` (types, `StartersAreSound`), `TickIsPatient` (`TickPostsInOrder`, `TickPostsSettled`, `PhaseFollowsWeeks`), `RecordStays` (`EditsKeepLocked`, `ComparisonIsEnough`, `ClosedWeekIsFrozen`, `BoxesAreFirstWins`, `PostedIsPinned`), `MCWeeksClose`, `BracketIsSound` (`RoundsFollowResults`, `OutcomesAreDecided`, `ChampionEndsSeason`, `ActiveGamesShareWeek`, `NoBracketIsStuck`), `PublishedIsFinal` (`PublishedIsShown`, `PublishedIsKept`) |
| `late_start` | the season's lineups | expects a violation of `NoLateStart` |
| `store_parts` | 2 seats, 3 people, 2 ranked players, 3 requests; 2 holders of 1 motif and 1 avatar, 2 plain collections, 3 faults; 2 legacy files, 3 stopped boots; 2 publications, 1 edit, 2 upsets; 2 practice sessions for one place, 2 requests, 2 minutes | `SeatsAreSound` (`OneOfEach`, `NothingOutlivesTenure`, `OneBoardPerSeat`, `TrimHolds`), `ConfirmedMeansShown` (`FormsHitWhatTheyShowed`, `EntriesSurvive`), `MemoryIsAccountedFor` (`PendingIsMarked`, `HealthIsHonest`, `OneIdentity`, `IdentityIsStored`), `AnswersAreTrue` (`AnswerIsTrue`, `PoisonIsClosed`), `FilesAreSound` (`ServesTheOriginal`, `StopsNeverStrand`, `WholeTreeExists`, `MissingIsReported`), `FilesSurvive` (`BytesSurvive`, `MarkIsFinal`, `EditsSurvive`), `PracticeIsSound` (`CapHolds`, `NothingLeaks`, `RegisteredAreOpen`), `PracticeIsKept` (`FinishedStays`, `SessionsAreKept`) |
| `game_day` | 2 games, a budget of 1, 1 slot, 3 intervals, 1 mishap; 2 games and 2 members of Pick'em over 5 instants with 1 move of a kickoff and 1 restart; 4 players of 3 games and 2 tabs over 4 hours | `PollerIsSound` (`FinalIsStoredFirst`, `PickemHearsOfFinals`, `SpendingIsBounded`, `NothingUnseen`), `FinalsStayFinal` (`FinalBoxStays`, `FirstBoxCounts`, `PickemHardens`), `ContestsAreSound` (`LinesAreEarly`, `EntrantsAreEntered`, `EntryFits`, `EntryIsEarly`), `PicksStay` (`LinesFreezeOnce`, `VerdictsStand`, `VoidTakesNoPick`, `EntryStays`, `SettledStays`, `LockedStay`) |
| `settled_early` | Pick'em | expects a violation of `PageSettlesWithTheLast` |

**Bounds.** Draft: two seats and two rounds already turn the snake, give one seat two picks
in a row and let a request span a pick of the other seat; three seconds cover arming,
expiry and an overrun of the one-second clock. Two control actions are enough for a pause and
resume, an undo of a picked slot, a crash around another control; the safety run draws one order. In the races
nobody toggles AUTO, the drawn order is the reverse one, and at most two steps are under way once the
control action is used up. Rosters: two teams of two and one or two
free players give a full roster, a race and a trade of unequal sides; one IR
and one reserve slot are the limit and the overflow at once; three teams are the fewest in
which a third can vote; in the zones one player at a time is on waivers. No position limit is set.
Waivers: four instants hold a missed run, a catch-up and a run of today; the claims of one team are
at most two, which is what an order of a team's own claims takes; a claim that spends the whole budget
competes with cheaper ones, and the commissioner loads the page once. Season: the second week has a
Thursday and a Sunday game, so a team is partly locked, and a player on bye; `bob` and
`carol` are the alternatives of the flexible slot; edits and roster moves share one bound. Playoffs:
seven teams give byes, an odd field, a division winner from below the field and a toilet bracket longer than the championship; two advances
overlap in the fields of three and four, and the standings stay in the field of three.
Persistence: three faults are a failed write, a second one on top of it and a restart (the third is
always the restart). Import: a stop in each
boot and a file the operator puts back. Seats: three people are a primary, a co-manager and one
who comes after them, in a part about people (the second seat has one tenure and no flags, the commissioner
edits the invitations before anybody asks), one about boards (one person may come with a personal
board) and one about the trim, the order and the schedule (the third person is invited at most).
Publication: two runs and two upsets, so that a call fails during the undoing of another. Practice: `r1`
only starts and leaves, in the first minute, only `v1` drafts, the real draft
starts in the first minute or not at all, and the time to live is less than a minute. Poller: `g2` only begins
(it competes for the slot and the budget); a mishap of a fetch comes before the last interval and one of the
tick in the first, wire signals after the first, schedule flags and the posting in the last.
Pick'em is split into "pricing" (no results) and "playing" (prices and kickoffs stand still); the poller knows
one of its two games, the other game's line and margin take one value each, and the late owner asks about
the first game only while prices move.

**Deadlock.** The draft-room runs check it (a tick is always possible while up, a boot while down).
The other runs switch it off: with the bounded clock and requests used up, these parts are
at rest, as the program is between requests.

**Fairness.** The draft clock keeps ticking and finishes a tick (a one-second ticker under
`loopguard`, which recovers panics) and a dead process is restarted. The repair loop and each
channel of the drain's `select` are served (Go picks at random among ready ones). The roster tick keeps
coming, its waiver run is made in the end although writes fail (strong fairness: a bounded
number of failures), and the player source comes back. The week-close tick
likewise, with time passing and statistics fetched. The notifier's tick begins and proceeds, with mail
configured (`notifyReady`); that a draft starts or a week moves on is never assumed. No
manager and no commissioner ever has to act.

### Disagreements between code and documentation

Two runs expect a violation; each is a finding in `PROJECT.json`.

* `late_start`: the lineup in force after an edit may contain a benched player whose game had already kicked
  off: when an edit empties or moves another slot, the computed fill of the empty slot
  takes the best benched player whether or not he is locked, while the comment on the candidates
  (`lineup.go:505`) says "unlocked for week".
* `settled_early`: `pickemData` counts a game that is both final and void in both totals, so with one
  such game the page says FINAL while another game of the week is in play;
  `pickemSettledWeeks`, which the trophies use, counts each once. A game with no kickoff yet (`TBA`) counts as
  locked on the page, because its zero kickoff is not after now (`OpenGames`, `pickem.go:937`).

Others were met while modelling, as behaviours of the models that no run lists:

* Draft: an arm that the loop decided before a pick and a pause lands after them, and the clock is
  paused with a live deadline (`store.go:795`; `season-operations.md:111` and `store.go:577` exclude it).
  A manual pick during a pause leaves the previous seat's seconds to the next (`store.go:578`
  against the comment at `:576`). The sink discards a repair that a newer regular event overtook
  (`live.go:205` against `draft_events.go:183`).
* Rosters: an IR activation whose drop is a reserve player leaves that player's tag on the team.
* Season and playoffs: a toilet bracket can need more weeks than the season has
  (`playoffs.go:117` against `:95`); an audit entry of a preview is lost when another preview replaces it.
* Toilet bracket: with `divisionWinnersFirst`, a division winner whom the standings have below the first `teamCount`
  takes a seed, but the toilet bracket is made of everybody below them (`playoffs.go:213`): he plays in both brackets
  and the team he displaced in neither, while `configuration.md:205` says it is "for non-playoff teams". The field of
  three of `MCPlayoffs` does this two steps into its life: `bracket.status # "none" => ToiletTakesTheRest` fails as an
  invariant of `MCPlayoffSpec` at the first preview. `RoundsFollowResults` therefore asks for it only where the seeds follow the standings, and there
  it is proved.
* Persistence: `MakePick`, `ResetDraft` and `ClaimFantasySeatTransaction` take their change back after
  a commit that may have landed; a later write of the old value then finds no difference and is
  acknowledged while the database keeps the other (`sqlstore.go:1336` against `store.go:4782`). `blind`
  marks these behaviours and the properties except them.
* Waivers: a rostered player the source omits is unknown after a restart, and a claim naming him as
  its drop is won without dropping him (`store.go:4143` against `service.go:1591`).
* Notices: the scoring-change notice is sent again after its receipt is pruned (180 days);
  `Enqueue` counts after it sends, so `Drain` may return early although its comment says there is no window.
  A notice whose write failed is lost if its occasion passes before the next look: a draft reminder once the draft
  has started, a lineup warning once the week has moved on. `EveryNoticeSettles` therefore asks for a receipt only while
  the occasion stands.
* Live scoring: a box a commissioner reopens is not fetched again by the same process
  (`poller.go:371` against `final_game_stats.go:94`).
* Seats: an invitation or READY toggle that lands after the release leaves an orphan
  (`store.go:1419`); `stray` marks these.
* Pick'em: a market voided between `PickemSet`'s check and `SetPickem` takes a pick and an entry
  instant (`pickem.go:1283`). The poller's results are in memory, so a restart can
  un-settle a week (`pickem.go:1022`).
* Publication: a parent that moved between the move and the swap leaves the output missing, with the old tree in the
  backup and only the stage cleaned up (`publish.go:151`); the next run refuses, as it should.
* Practice: a viewer's pick that passed the look at `done` lands after the real draft's start ended the
  session, and arms the sandbox's clock again; a practice that completed by itself before is evicted only by the time to live.

### Known gaps between a snapshot and the Store

What these models show and no property excludes, because the code makes no such promise:

* Draft: viability is checked on a snapshot only (`service.go:4562`); an undo clears the
  completion latch after its commit (`admin.go:2074`); AUTO switched off between snapshot and auto-pick
  does not stop it; `SetClockDuration` moves a shortened deadline.
* Rosters: zone capacity and the last roster spot (`zones.go:626`, `:663`), the waiver hold and
  position limits (`store.go:3682`) are checked on a snapshot only.
* Season: a box reopened between the tick's readiness check and its scoring posts early points; a close
  pins from one snapshot and scores from another; auto-fill compares nothing before it writes; an add or
  the close of the previous week can displace a locked auto-filled starter.
* Waivers: a late catch-up run uses the historical instant; after a forced run the tick's run moves the mark
  back; the commissioner's token is checked on a snapshot.
* Playoffs: a correction's score is not compared with its winner; fixed brackets can bring seeds 1 and 2
  together in round two.
* Seats: in an open league the first co-manager invitation closes admission.
* Poller: the tick and a wire fetch may finish a game with different boxes, so Pick'em's result and the stored
  box can differ; an older in-progress payload can replace a newer one. A complete final box without valid scores
  ends the polling of its game, so Pick'em then waits for the scoreboard of the same tick or for the schedule.
* Blitz: of two overlapping tabs the last write wins, which the code accepts (`store.go:2658`); `LockedStay` excepts it.
* Publication: an edit or another run's tree that arrives between the second look and the rename is moved to the
  backup and removed with it (`windowed`); an undo removes whichever tree is at the output (`crossed`).

## 4. Proofs

`DraftRoomProofs` proves for every set of seats, order, number of rounds, player
pool, number of requests and all clock settings that satisfy `DraftAssumption` and
`ClockAssumption` (finite non-empty seats, an order that lists each once, positive rounds,
positive minimum clock and restart grace):

* `TypeCorrect`: `TypeOK` is inductive as it stands, once it says that a request
  that is about to pick names a pool player (`NamesPlayer`).
* `RoomImplementsSnakeDraft`: with `started` for `open` and `picks` for `tape`, every step is a
  `Draw`, `Open`, `Select`, `Retract`, `Restart` or a stutter. `LandPick` under `PickAllowed` is
  a `Select` (lemma `PickSelects`); everything the clock does is a stutter.
* `NoPlayerTwice`, `SnakeIsFollowed`, `ClosedDraftIsEmpty`: none of the three is inductive
  alone. A redraw could move picks to other seats unless the tape is empty whenever the
  draft is closed, so the inductive invariant `TapeInv` is their conjunction with `TypeOK`.
  It is proved over the abstract steps (`SelectKeepsTape`, `RetractKeepsTape`) and carried to
  the room by `StepSimulates`.
* `NoEarlyAutoPick`: `FireWasDue` says that what the loop holds was overdue when it was read
  (`reason = "clock"` means the deadline seen is not after an instant that has passed), time only grows,
  and `autoPickLocked` compares the stored deadline with the one seen.
* `UndoTakesDisplayedPick`: only `AdminUndoPick` shortens the tape of a draft that stays open
  (`OnlyUndoShortens`), and it compares the page's token with the last pick.
* `RestartIsFair`: directly from `Boot` and the positivity of the pick clock.

`RosterMovesProofs` proves for every finite set of teams and players, every roster shape and
set of limits, every veto policy and any number of requests and offers
(`LedgerAssumption`, `MovesAssumption`):

* `MovesTypeCorrect` and `EveryPlayerHasOneOwner`: an executed trade keeps the rosters disjoint only
  if its offer is between two different teams and its sides are owned. The first is
  a fact about offers made earlier, so the inductive invariant `IInv` adds `OffersTwoSided`
  to `TypeOK` and `OneOwner`; the second follows from validation (`ExecutedTradeIsOwned`). The steps of
  the ledger are lemmas of their own (`TransactionDisjoint`, `TradeDisjoint`).
* `SettlementIsFinal`: no action touches an offer with a terminal status (`SettledStep`).
* `MovesImplementBook`: the owner of a player is the team whose roster holds the player. A
  `Commit` or a cut is a `Transact` of the book (`TransactStep`), an execution a `Trade`
  (`TradeStep`), everything else a stutter. It needs `OneOwner` before and after the step.
* `AgreementsAreKept`: only an execution takes a player from one team to another, since a transaction
  signs free agents (`NobodyMoves`). That an accepted offer fails for the parties' own changes only
  is not inductive: the invariant has to remember that the parties' rosters and tags at the moment of the
  acceptance (`agreed`) passed the checks (`AcceptedFits`). The checks of the execution read the two
  parties only (`FitIsLocal`), so while the parties are what they were it is not refused.

The second half of it is about sizes, from the same assumptions. A cap check of the code counts a roster less the
*tagged* IR players, so the cap needs the tags: without a stray IR tag that count is the number of
players outside IR (`SizeOutsideIR`), and what a move leaves a team with is at most what the check computed
(`SizeAfterMove`, `GainAndLose`).

* `TheCapHolds`, `NoTagStaysBehind`: for any number of requests at once, `RecordAllowed` and `TradeFits` are
  repeated under the lock. An activation from IR is not: the Store repeats neither the cap nor the tag of its drop
  (the roster gaps above), so both theorems are about leagues without IR slots or whose requests name
  no activation (`Unactivated`), and `NoActivation` carries that through.
* `RostersFitWhenAlone`: for every league, if each placement on IR and each activation from it is alone
  while it is under way (`Alone`: no other request, no agreed trade waiting). The invariant keeps what
  such a request was checked for true until it commits (`Promise`): a free IR slot, a free spot or a drop from outside
  IR. Healing, the automatic cut and the world keep it (`PromiseKept`).

`StorePartsProofs`, on the write path (every set of collections, seats, badges and avatars, every number of faults, from
`RowAssumption`):

* `MemoryStaysAccountedFor`: `PersistInv` adds to the property what makes it inductive: unless the Store is closed its
  row index is the database, and memory is ahead of it only in rows whose collection is marked.
  `Single` of memory and of the database is kept by `persistLocked`'s repair of badges and avatars.
* `AnswersStayTrue`: each way a write can end (`TrueAnswer`) is read off the step, from the same invariant.

Both are about behaviours in which no ordinary commit landed and was reported failed (`blind`), as the
properties are.

On the legacy import (every set of file contents, stops and files put back, from `ImportNames`: markers and file
contents are told apart):

* `ImportStaysSafe`: the league served is the right one because an unmarked database still has its file at the old place and
  nothing unsynced (`BeforeMark`), a marked one vouches for what it holds (`AfterMark`), and what a boot
  decided stays true until it acts (`PhaseFacts`). A lost rename brings back bytes that are still in the copy (`Forgotten`).

On the publication (every set of publishers and bundles, any number of runs, edits and upsets, from `PublicationBounds`):

* `PublicationStaysSound`: that a whole tree exists is not inductive, since a run that has swapped may go on to clean up the
  backup or to undo the swap. `TreeRemains` says it for every such future: for each set `X` of the swapped runs that will clean
  up, a whole tree is in no backup that goes and is not one that is undone. It needs that the identities of what runs have staged are
  their own (`IdsAreApart`) and what a run knows at each step (`Knows`); `ClassStep` and `TreeStep` carry it over the steps
  that leave the trees and those that move one.
* `FilesStaySound`, `FilesStaySafe`: both parts, and their action properties, of the run's own specification `StoreSpec`. An
  edit leaves only with a backup, and unless the output changed in the window a backup has no more than its run had seen.

On the seats (every set of people, seats and players, any limit of boards, number of requests and tenures, from `SeatAssumption`):

* `SeatsStaySound`: a flag, an entry or an invitation comes with a request that read its seat earlier. `CallIsSound` says what that reading is
  still worth: in the tenure it was made in the seat has a holder, and the board it names is the holder's; a tenure ends by a
  release, a reset or a new claim, and each counts the revision (`CallsStay`).
* The board's part is false of more requests than the run has, if only a changed revision makes a request late: a co-manager of a seat without a
  primary (itself the work of a late invitation) has an entry under way for its *own* board, is detached, joins another seat, whose
  primary gets its order, and then the entry lands. No revision changed. `stray` now remembers this write too; TLC shows the 18 steps with five requests.
* `FormsStayHonest`: a token names the tenure and the seats (`FormsSound`), and what a claim, a join or a release moves is all there
  (`MergeIs`, by induction over the merged order as for `Fill`; `EscrowedIs`).

`PracticeProofs` (every set of members and requests, every capacity, grace and time to live, from `PracticeNumbers`):

* `RegistryIsSound`: a sandbox is held by one member or one request (`OneHolder`), is open while it is
  (`OpenInside`), and knows of the real draft only after it began. Only then does the second look at the cap, after the
  sandbox was built, bound what is registered, and whatever a step takes out of the registry is closed by
  its request or by the tick's copy.
* `PracticeStaysKept`: both parts step by step from that invariant (`FinishedSteps`, `KeptSteps`).

`GameDayProofs`, on the poller (every finite set of games, every budget and number of slots, from `PollerNumbers`):

* `PollerStaysSound`: a final is stored before it is shown only if the fetch that brings it has already
  been to the Store and, if it is scored, to Pick'em (`FinalsOnTheWay`); the budget is overspent by what was under way
  or waiting only if the tick's fetches are within the slots (`SlotsAreBounded`, `Committed`); and no
  reader keeps an old snapshot only if the tick remembers each change it made (`ChangeIsCarried`). `PollInv` is their
  conjunction.
* `FinalsStandFirm`: each of the three parts is a lemma over all steps (`FinalBoxSteps` and its neighbours), from `PollInv`.

On Pick'em (every set of games, members, spreads and kickoffs, any number of moves and restarts, from `PickemNumbers`):

* `PickemStaysSound`, `PicksAlwaysStand`: a reading may be an interval old, so `PickemInv` says what it still tells. A kickoff
  moves only to an instant that no request in flight has seen (`CallsAreRecent`), hence one that has passed is the one each request read
  (`PassedKickWasRead`) and the entry instant a backfill computes from an old schedule obliges to no other games (`ObligedStands`). A pick that
  read the clock past the lock has decided the market itself (`PicksAreChecked`). What a reconciliation makes of a market is one relation
  (`MayBecome`), and the properties of lines follow from it.
* Two statements were sharpened for it. A line may get *older* when it is decided at a lock before the price it has, which
  happens when the kickoff that sets the week's lock moves up (`LinesFreezeOnce`); and what keeps a pick off a void market is not when it was
  voided but that the pick's own reading was before the lock (`VoidTakesNoPick`).

On the Blitz (every pool, number of tabs and limits, from `BlitzNumbers`):

* `BlitzStaysSound`, `LockedPlayersStay`: `BlitzInv` keeps of every write under way what the entry has to keep (`Fits`), from
  `AppendFits` and `WithoutFits`; the rest is that only the player of the request differs from what it read.

`ContestsStaySound` and `PicksAlwaysStay` put these together for the run's own specification `GameDaySpec`.

`DeliveryProofs` (every number of handlers, queue slots, windows, days and faults, from the constants'
assumptions of `DraftEvents` and `Notices`; a notice's window is shorter than the retention of its receipt, and
the weekly notices are windowed):

* `AnnouncementsStaySound`: nothing is shown before it was committed, and at most one completion event. The
  inductive invariant `EventsInv` says where an event may be on its way (`NothingAhead`, `Fresher`: the
  repair that waits is not older than what the room shows) and counts the completions by the latch (`LatchCounts`).
* `NoticesStaySound`: no notice is sent twice and the receipts say the truth. A receipt can be pruned, so `NoticeInv`
  dates each receipt and each look at the clock (`LooksAreTimely`, `ReceiptsAreDated`, `ReceiptsHold`): what is pruned is
  older than any window that is still open, and an evaluation that read the clock before it finds the window closed.
* `DeliveryStaysSound`: both, of the run's own specification `MCSpec`.

`SeasonProofs` (every number of weeks, games and players, any slots in any engine order with any fits, any distinct
projections, from `SeasonAssumption`, `LineupAssumption`, `ScheduleAssumption`):

* The lineup of a week is a recursive function over the engine order. Induction is done in set form: `CountingUp`
  (a set with 0 that is closed under the successor holds every number up to n) follows from the well-foundedness of
  strict inclusion on finite sets, `BestExists` (a finite set has a best element) likewise. `FillIsSound` uses them to show that
  the recursion is defined and what it keeps.
* `LineupsStaySound`: `SeasonInv` carries that every stored map is sound. An edit replaces a whole week from a snapshot, so
  the invariant remembers what the request saw and that it was allowed there (`EditIsSound`); a locked auto-filled starter
  it pins is rostered, hence cannot also stand in a stored entry the roster no longer backs (`BaseIsSound`).
* `TickStaysPatient`: what the tick decided on is still true when it scores and writes, unless a box is
  reopened (`TickIsSound`, `StatsStayIn`).
* `RecordStaysAsPosted`: each of the five parts is a lemma over the steps it is about; that pins and points agree needs
  `CloseIsSound`, which ties the pinned lineup to the snapshot it was read from.

On the postseason (every team set, rules, standings, scores and number of advances in flight, from `PlayoffAssumption`):

* `BracketStaysSound`: `BracketInv` says of every bracket that it stands (`Stands`): round r has 2^(total - r) games of r's week in
  which nobody plays twice, every round but the last is final and sends exactly its teams to the next, and the last is
  unfinished or is the deciding game, whose outcome is recorded. In between, an advance takes it apart: results that
  cover all unfinished games finish the last round (`RoundIsPlayed`), after which each bracket waits (`Waits`) and
  `advanceBracket` makes it stand again, by a round of half as many games or by the outcome (`GrownStands`, `AllAdvance`).
  The order of the three calls does not matter, because each reads its own bracket and a consolation bracket that appears
  is not advanced (`BracketAdvances`, `SpawnStands`).
* What is not inductive alone: one week for all (`ActiveGamesShareWeek`) needs that the brackets that still play are
  abreast (`Abreast`, the consolation one round behind), and a corrected outcome is right only because `Correctable`
  admits nothing but the deciding game (`CorrectedStands`); the champion's season needs that a correction cannot
  take the last game's result away (`ChampionWhenOver`).
* Beneath: `Ranked` is a permutation that places every key (`RankedIsOrder`, by `CountingUp`); seeds, the toilet's seeds and the
  first losers are lists without repetition (`SeedsAreTeams`, `ToiletSeedsAreRest`, `LosersAreSeeded`); seed k meets
  size + 1 - k, and some game has two teams (`FirstRoundIsProper`); pairing neighbours or ends
  uses every place once (`NeighboursArePairs`, `EndsArePairs`), so a round is played by whom the one before sent on
  (`NextRoundIsProper`). Powers of two are sizes of power sets, which `PowerDoubles`, `RoundsAreLeast` and `RoundsOfPower` turn
  into the number of rounds.
* `WhatIsPublishedStays`: by the same invariant, which also says that a preview is what `Generated` makes of the standings
  it names and that nobody has results before something is published; a publication takes the preview of the page, an
  advance changes no final game (`AdvancedStands`), a correction counts itself (`CorrectStep`), and both add one entry
  to the audit (`LoggedStands`).

`WaiverRunProofs` (every finite set of teams and players, either mode, any number of claims and instants, any days, windows
and budget, from `LedgerAssumption` and `WaiverAssumption`):

* `RunsStaySound`: `WaiverInv` adds to the property that an open claim was filed no later than now and under an identity of its own, that a
  team's claims fit the roster cap, that a receipt's identity has been given out, and that whoever is about to file has the next one. The
  three writes of a team's numbers are `FileCommitKeeps`, `CancelKeeps` and `MoveKeeps`; `NormalizedIsNumbered` says that sorting and
  renumbering leaves 1..n, because the ranks of n different keys are the numbers below n (`RanksCount`).
* A run is a recursive function over the number of claims decided. What it can be at (`Reached`) is closed under
  one more award (`ResolveNextIsReached`: the first claim exists because the order of teams is total, `TeamsAreOrdered`, `FirstClaimExists`),
  so by `CountingUp` (as for `Fill`) it is defined and ends in `Reached` (`ResolvedIsReached`). The money a team has spent
  is a community fold over its wins: `SumOfBids` expands it, shows that it adds up one win at a time in any order, and `SpentGrows` follows.
* `NobodySweeps`: two wins of one team in a run are on the log only if every other team with a claim still to be decided has won before
  (`TurnsDue`); the property (`TurnsKept`) is about decided claims only and not inductive without it.

Out of the provers' reach and left to TLC: everything that needs fairness (`ClockKeepsMoving`, `DropsAreMended`,
`EveryNoticeSettles`, `MCRunsCatchUp`, `MCWeeksClose`). Every other property of a passing run is stated by a theorem.

## 5. Not modelled

The larger half of `src/` is not about state: rendering and form parsing of the pages
(`app/`), the wording of notices, views and ledgers (most lines of `service.go`, `admin.go`,
`notifications.go`), SQL text and schema, parsers of third-party feeds, compilation of
deployment files, simulation. A line of it that decides something is behind a guard of one of the
modules; the rest would be a transliteration. What of the modelled parts is left out:

* Draft: demo mode (every seat is on the clock), meeting time, a change of the roster shape, position
  limits and the scarcity guard, the ranking inside autopick, texts and bindings, the loop's own
  `draft:state`, presence, the sync of a joining client.
* Rosters: an unavailable player pool or injury feed (nothing happens then), the age of an
  offer, the review clock.
* Waivers: the filing rate limit, an empty schedule mirror (which defers as an outage does), the healed-IR
  drop's deferred window.
* Season: projections and injuries that change, reserve and IR zones inside a lineup, teams
  against each other (lineups of different teams never meet), recaps (posted twice or never).
* Playoffs: the standings' tie-breakers, provenance; no liveness, since advancing needs the commissioner.
* Persistence: retries (nothing retries a kept failed write but the next mutator), the schema's migrations.
  `LegacyImport`: a failed reading of the authority, which removes the database.
* Seats: domain admission, names in tokens, the wizard's invitations, reordering and removing on
  boards, release notices.
* Notices: push beside mail, batches, reset's pruning, preferences (a free choice), a message lost to a panic, a drop or a restart
  after its receipt (at most once is what is promised), an anchor of `now` for recaps without games.
* Poller: the day's rollover of the budget, health counters, memoized snapshots, matching of names, the overlay of statistics.
  A tick or fetch ends by the interval after its own.
* Pick'em: records, streaks, ledger, consensus. Blitz: scores, health, sunset and archive; one
  owner and one slate. Publication: symbolic links, the drift check, the reading of a tree file by file.
  Practice: presence, events, pages, the shutdown.

The clock of `Seats`-, `Notices`-, `Pickem`-, `Blitz`- and `Practice`-like parts does not turn twice while a
request is answered: a request that hangs longer than an interval is not explored. Components with no module are listed in
`PROJECT.json` with their reasons.

## 6. Plan

1. `AutopickChoice`: the passes and the augmenting-path matcher as functions against
   `CanFill` and `AutopickChoices` over bounded rosters.
2. One run that crosses rosters with lineups: a drop or trade of a starter between an edit and its
   commit, over `RosterMoves` and `SeasonWeek`.
3. The setup wizard's commit and the rotation of backups.

------------------------------ MODULE WaiverRun ------------------------------
(***************************************************************************)
(* Waiver claims from filing to the receipt: managers file, move and       *)
(* cancel claims, the roster tick runs the daily cycle (late, if it has    *)
(* to), the commissioner may force one, and the player pool the runs look  *)
(* players up in comes and goes.                                           *)
(* Source: internal/league/waivers.go, players.go, rosterops.go, store.go, *)
(* service.go (pool), week_authority.go, confirmations.go.                 *)
(* Time is counted in steps, Day of them from one daily run to the next    *)
(* and the runs at its multiples; instant 0 is the schedule's GeneratedAt. *)
(* One week of games is modelled, a game for each player with a kickoff.   *)
(* The run itself is one Store call and one step.  Left out: the filing    *)
(* rate limit, the healed-IR drop's deferred window, an empty schedule     *)
(* mirror (which defers a run as an unavailable pool does).                *)
(***************************************************************************)
EXTENDS RosterLedger, Sequences, FiniteSetsExt

CONSTANTS
  Drafted,         (* the players some team picked                          *)
  StartRosters,    (* the rosters the model starts from                     *)
  Fickle,          (* players a rebuild of the pool's source may omit       *)
  Kick,            (* the kickoff of each player's game                     *)
  NoGame,          (* a kickoff after the last instant                      *)
  Day,
  ClearDays,       (* waivers.clear_days                                    *)
  GameEnd,         (* gameFinalAt: kickoff plus five hours                  *)
  Linger,          (* how long a week stays current after its last kickoff  *)
  DeferLimit,      (* waiverClaimDeferralLimit                              *)
  DeferWindow,     (* waiverClaimDeferralWindow                             *)
  Budget,          (* waivers.faab_budget                                   *)
  Modes,           (* which waiver modes are explored                       *)
  MaxClaims,       (* bound: claims ever filed                              *)
  MaxNow           (* bound: instants                                       *)

ASSUME WaiverAssumption ==
  /\ Drafted \subseteq Player /\ Fickle \subseteq Player
  /\ StartRosters \in Rosters
  /\ Kick \in [Player -> Nat] /\ NoGame \in Nat
  /\ Day \in Nat \ {0} /\ ClearDays \in Nat /\ GameEnd \in Nat /\ Linger \in Nat
  /\ DeferLimit \in Nat \ {0} /\ DeferWindow \in Nat
  /\ Budget \in Nat
  /\ Modes \subseteq {"perf-priority", "faab"}
  /\ MaxClaims \in Nat /\ MaxNow \in Nat

VARIABLES
  rosters, zones,
  dropped,   (* lastDropInstant of each player, -1 when there is none        *)
  claims,    (* WaiverClaims                                                 *)
  count,     (* claims filed so far, the next identity                       *)
  log,       (* WaiverReceipts; the won ones are the claim transactions      *)
  mark,      (* WaiversProcessedThrough, -1 when zero                        *)
  base,      (* waiverBaseOrder                                              *)
  closed,    (* ClosedAt of the week, -1 while it is open                    *)
  final,     (* every game of the week is final                              *)
  now,
  pool,      (* the cached pool's byID, empty while unavailable              *)
  mode,      (* waivers.mode                                                 *)
  filing,    (* a manager's claim between the checks and the Store           *)
  tick,      (* the roster tick's run between its snapshot and the Store     *)
  page,      (* the token on the commissioner's page                         *)
  desk       (* the commissioner's forced run between check and Store        *)

league  == <<rosters, zones, dropped>>
book    == <<claims, count, log, mark>>
outside == <<base, closed, final, now, pool, mode>>
inHand  == <<filing, tick, page, desk>>
vars    == <<league, book, outside, inHand>>

-----------------------------------------------------------------------------
(* Instants *)

\* firstRunAtOrAfter
RunAtOrAfter(t) == ((t + Day - 1) \div Day) * Day

\* firstRunStrictlyAfter
RunAfter(t) == (t \div Day + 1) * Day

ClearsAt(t) == RunAtOrAfter(t + ClearDays * Day)

Kicked(p, at) == at >= Kick[p]

Games == {p \in Player : Kick[p] < NoGame}

LastKickoff == IF Games = {} THEN NoGame ELSE Max({Kick[p] : p \in Games})

\* kickoffWaiverStatus: held from the kickoff to the first run after the
\* week's last game, and until all games are final
KickoffHold(p, at) ==
  Kicked(p, at) /\ ~(final /\ at >= RunAtOrAfter(LastKickoff + GameEnd))

\* playerWaiverStatus = on_waivers of an unrostered player
OnHold(p, at) ==
  /\ ~Rostered(rosters, p)
  /\ \/ dropped[p] >= 0 /\ at < ClearsAt(dropped[p])
     \/ KickoffHold(p, at)

\* playerLockedForRosterMutation
Locked(p, at) == Kicked(p, at) /\ (closed < 0 \/ at <= LastKickoff + Linger)

-----------------------------------------------------------------------------
(* The order of teams *)

Orders == {o \in [1..Cardinality(Team) -> Team] : \A i, j \in DOMAIN o : o[i] = o[j] => i = j}

\* weekClosedAt when it is before the run, else the schedule's GeneratedAt
PenaltyBoundary(at) == IF closed >= 0 /\ at > closed THEN closed ELSE IF at > 0 THEN 0 ELSE -1

Won(lg) == {i \in DOMAIN lg : lg[i].outcome = "won"}

\* Mutant: a boundary at the run's own instant leaves out the run's own wins
WinsOfEarlier(lg, team, boundary) ==
  {i \in Won(lg) : lg[i].team = team /\ lg[i].at > boundary /\ lg[i].at < lg[Len(lg)].at}

WinsOf(lg, team, boundary) == {i \in Won(lg) : lg[i].team = team /\ lg[i].at > boundary}

\* a win is replayed by its instant, then by its place in the log
Later(lg, i, j) == lg[i].at > lg[j].at \/ (lg[i].at = lg[j].at /\ i > j)

LastWin(lg, W) == CHOOSE i \in W : \A j \in W \ {i} : Later(lg, i, j)

Place(team) == CHOOSE i \in DOMAIN base : base[i] = team

\* applyInPeriodPenalties: every win of the period moves its team to the back,
\* so teams without one come first and the others by their last win
Ahead(lg, boundary, t, u) ==
  LET mine == WinsOf(lg, t, boundary)
      theirs == WinsOf(lg, u, boundary)
  IN  \/ mine = {} /\ theirs = {} /\ Place(t) < Place(u)
      \/ mine = {} /\ theirs # {}
      \/ mine # {} /\ theirs # {} /\ Later(lg, LastWin(lg, theirs), LastWin(lg, mine))

\* claimLess and claimLessFAAB
Less(lg, boundary, c, d) ==
  \/ mode = "faab" /\ c.bid > d.bid
  \/ /\ mode = "faab" => c.bid = d.bid
     /\ \/ Ahead(lg, boundary, c.team, d.team)
        \/ c.team = d.team /\ c.prio < d.prio

Spent(lg, team) ==
  MapThenSumSet(LAMBDA i : lg[i].bid, {i \in Won(lg) : lg[i].team = team})

-----------------------------------------------------------------------------
(* Priorities *)

\* Mutant: the numbers are left as they are
NormalizedNot(cs) == cs

\* normalizeTeamClaimPriorities for every team: the open claims of a team are
\* numbered 1, 2, ... in the order they had
Normalized(cs) ==
  {[c EXCEPT !.prio = 1 + Cardinality({d \in cs : d.team = c.team /\ d.prio < c.prio})] : c \in cs}

OpenOf(cs, team) == {c \in cs : c.team = team}

-----------------------------------------------------------------------------
(* The run: Store.ProcessWaivers at instant at with the pool seen *)

\* Mutant: a claim filed after a late run's instant takes part in it
FiledByAny(c, at) == TRUE

FiledBy(c, at) == c.filed <= at

Missing(at, seen) == {c \in claims : FiledBy(c, at) /\ c.add \notin seen}

Due(at, seen) == {c \in claims : FiledBy(c, at) /\ c.add \in seen /\ ~OnHold(c.add, at)}

\* The streak is counted up to the limit: no more of it is ever looked at
Counted(c, at) ==
  [c EXCEPT !.streak = Min({@ + 1, DeferLimit}), !.since = IF c.streak = 0 THEN at ELSE @]

\* Mutant: three forced runs in a row are enough
ExpiredByCount(c, at) == c.streak >= DeferLimit

\* A claim whose player stays out of the pool expires by count and by time
Expired(c, at) == c.streak >= DeferLimit /\ at - c.since >= DeferWindow

ResetStreak(c) == [c EXCEPT !.streak = 0, !.since = 0]

\* Mutant: a claim that is due and not won stays for the next run
KeptUntilWon(at, seen) ==
  {d \in {Counted(c, at) : c \in Missing(at, seen)} : ~Expired(d, at)}
    \cup {ResetStreak(c) : c \in {d \in claims \ Missing(at, seen) :
                                   d \in Due(at, seen) => Rostered(rosters, d.add)}}

\* What stays open: claims whose player is missing, and claims that are not
\* due, their streak over
Kept(at, seen) ==
  {d \in {Counted(c, at) : c \in Missing(at, seen)} : ~Expired(d, at)}
    \cup {ResetStreak(c) : c \in claims \ (Missing(at, seen) \cup Due(at, seen))}

Receipt(c, at, outcome) ==
  [id |-> c.id, team |-> c.team, add |-> c.add, drop |-> c.drop, bid |-> c.bid,
   filed |-> c.filed, at |-> at, outcome |-> outcome]

\* The receipts of the claims that expire, in filing order
ExpiredReceipts(at, seen) ==
  LET gone == {c \in Missing(at, seen) : Expired(Counted(c, at), at)}
      nth[i \in 1..Cardinality(gone)] ==
        CHOOSE c \in gone : Cardinality({d \in gone : d.id < c.id}) = i - 1
  IN  [i \in 1..Cardinality(gone) |-> Receipt(nth[i], at, "expired")]

\* Mutant: bids are held against the whole budget
OverBudgetAlone(lg, c) == mode = "faab" /\ c.bid > Budget

OverBudget(lg, c) == mode = "faab" /\ c.bid > Budget - Spent(lg, c.team)

\* Each claim is checked again against what the claims before it left; a drop
\* the pool does not know has no team and so no lock
Outcome(r, c, at, seen) ==
  IF Rostered(r.rosters, c.add) THEN "beaten"
  ELSE IF \/ \E p \in c.drop : p \notin r.rosters[c.team]
          \/ \E p \in c.drop \cap seen : Locked(p, at)
          \/ ~FitsCap(r.rosters, r.zones, c.team, {c.add}, c.drop)
          \/ OverBudget(r.log, c)
          \/ WouldBreachLimit(r.rosters, r.zones, c.team, {c.add}, c.drop)
       THEN "failed"
  ELSE "won"

\* The drop of the transaction comes from the pool: a player the pool does not
\* know is written as a drop of nobody
Award(r, c, at, seen) ==
  [r EXCEPT
     !.rosters = ApplyTransaction(@, c.team, {c.add}, c.drop \cap seen),
     !.zones = ClearZones(@, c.team, c.drop),
     !.dropped = [p \in Player |-> IF p \in c.drop \cap seen THEN Max({@[p], at}) ELSE @[p]]]

\* pickNextClaim and the outcome of the claim it picks
ResolveNext(r, at, seen) ==
  LET next == CHOOSE c \in r.left :
                \A d \in r.left \ {c} : Less(r.log, PenaltyBoundary(at), c, d)
      outcome == Outcome(r, next, at, seen)
      after == IF outcome = "won" THEN Award(r, next, at, seen) ELSE r
  IN  [after EXCEPT !.left = @ \ {next}, !.log = Append(@, Receipt(next, at, outcome))]

Resolved(at, seen) ==
  LET due == Due(at, seen)
      run[n \in 0..Cardinality(due)] ==
        IF n = 0
        THEN [left |-> due, rosters |-> rosters, zones |-> zones, dropped |-> dropped,
              log |-> log \o ExpiredReceipts(at, seen)]
        ELSE ResolveNext(run[n - 1], at, seen)
  IN  run[Cardinality(due)]

\* With no claim open only the mark moves
ProcessWaivers(at, seen) ==
  /\ mark' = at
  /\ LET r == Resolved(at, seen)
     IN  /\ rosters' = r.rosters /\ zones' = r.zones /\ dropped' = r.dropped
         /\ log' = r.log
         /\ claims' = Normalized(Kept(at, seen))
  /\ UNCHANGED count

-----------------------------------------------------------------------------
(* The roster tick: evalWaiverRun *)

NoRun == [at |-> -1, seen |-> {}]

TickBaselines ==
  /\ mark = -1
  /\ mark' = now
  /\ UNCHANGED <<league, claims, count, log, outside, inHand>>

RunIsDue == mark >= 0 /\ now >= RunAfter(mark)

\* Mutant: the next run is the one at the mark or after it
TickSeesDueAgain ==
  /\ tick = NoRun
  /\ RunIsDue /\ pool # {}
  /\ tick' = [at |-> RunAtOrAfter(mark), seen |-> pool]
  /\ UNCHANGED <<league, book, outside, filing, page, desk>>

\* The run's instant is the one it should have had, however late the tick is;
\* without a pool it stays due
TickSeesDue ==
  /\ tick = NoRun
  /\ RunIsDue /\ pool # {}
  /\ tick' = [at |-> RunAfter(mark), seen |-> pool]
  /\ UNCHANGED <<league, book, outside, filing, page, desk>>

TickRuns ==
  /\ tick # NoRun
  /\ ProcessWaivers(tick.at, tick.seen)
  /\ tick' = NoRun
  /\ UNCHANGED <<outside, filing, page, desk>>

\* The write fails: the whole run is taken back and stays due
TickFails ==
  /\ tick # NoRun
  /\ tick' = NoRun
  /\ UNCHANGED <<league, book, outside, filing, page, desk>>

-----------------------------------------------------------------------------
(* The commissioner: AdminRunWaivers *)

Token == <<mark, {c.id : c \in claims}>>

RenderRunPage ==
  /\ page # Token
  /\ page' = Token
  /\ UNCHANGED <<league, book, outside, filing, tick, desk>>

\* The token is compared with a snapshot
ForceBegin ==
  /\ desk = NoRun
  /\ pool # {} /\ page = Token
  /\ desk' = [at |-> now, seen |-> pool]
  /\ UNCHANGED <<league, book, outside, filing, tick, page>>

ForceCommit ==
  /\ desk # NoRun
  /\ ProcessWaivers(desk.at, desk.seen)
  /\ desk' = NoRun
  /\ UNCHANGED <<outside, filing, tick, page>>

-----------------------------------------------------------------------------
(* Managers *)

NoClaim == [id |-> 0]

\* What FileClaim and fileClaimWithAuthority both check; the pool was read
\* with the snapshot and the lock is judged at the same instant
ClaimAllowed(c) ==
  /\ ~Rostered(rosters, c.add)
  /\ \A d \in OpenOf(claims, c.team) : d.add # c.add
  /\ Cardinality(OpenOf(claims, c.team)) < RosterCap
  /\ \A p \in c.drop : p \in rosters[c.team] /\ ~Locked(p, c.filed)

Bids == IF mode = "faab" THEN 0..Budget ELSE {0}

\* Size, limits and budget are checked on the snapshot only
FileBegin(team, add, drop, bid) ==
  /\ filing = NoClaim /\ count < MaxClaims
  /\ {add} \cup drop \subseteq pool
  /\ LET c == [id |-> count + 1, team |-> team, add |-> add, drop |-> drop, bid |-> bid,
               prio |-> 0, filed |-> now, streak |-> 0, since |-> 0]
     IN  /\ ClaimAllowed(c)
         /\ ~OverBudget(log, c)
         /\ filing' = c
  /\ FitsCap(rosters, zones, team, {add}, drop)
  /\ ~WouldBreachLimit(rosters, zones, team, {add}, drop)
  /\ UNCHANGED <<league, book, outside, tick, page, desk>>

FiledPriority(team) == Cardinality(OpenOf(claims, team)) + 1

FileCommit ==
  /\ filing # NoClaim
  /\ ClaimAllowed(filing)
  /\ claims' = claims \cup {[filing EXCEPT !.prio = FiledPriority(filing.team)]}
  /\ count' = filing.id
  /\ filing' = NoClaim
  /\ UNCHANGED <<league, log, mark, outside, tick, page, desk>>

FileRefused ==
  /\ filing # NoClaim
  /\ filing' = NoClaim
  /\ UNCHANGED <<league, book, outside, tick, page, desk>>

CancelClaim(c) ==
  /\ claims' = Normalized(claims \ {c})
  /\ UNCHANGED <<league, count, log, mark, outside, inHand>>

\* Mutant: the first claim moves up too
MoveClaimPastTop(c) ==
  /\ claims' = {IF d.team # c.team THEN d
                ELSE IF d = c THEN [d EXCEPT !.prio = c.prio - 1]
                ELSE IF d.prio = c.prio - 1 THEN [d EXCEPT !.prio = c.prio] ELSE d : d \in claims}
  /\ UNCHANGED <<league, count, log, mark, outside, inHand>>

\* One step up; a step down is the neighbour's step up
MoveClaim(c) ==
  /\ c.prio > 1
  /\ claims' = {IF d.team # c.team THEN d
                ELSE IF d = c THEN [d EXCEPT !.prio = c.prio - 1]
                ELSE IF d.prio = c.prio - 1 THEN [d EXCEPT !.prio = c.prio] ELSE d : d \in claims}
  /\ UNCHANGED <<league, count, log, mark, outside, inHand>>

\* AddPlayer without a drop, and DropPlayer; RosterMoves has their races
Sign(team, p) ==
  /\ p \in pool /\ ~Rostered(rosters, p) /\ ~OnHold(p, now)
  /\ FitsCap(rosters, zones, team, {p}, {})
  /\ ~WouldBreachLimit(rosters, zones, team, {p}, {})
  /\ rosters' = ApplyTransaction(rosters, team, {p}, {})
  /\ UNCHANGED <<zones, dropped, book, outside, inHand>>

Release(team, p) ==
  /\ p \in pool /\ p \in rosters[team] /\ ~Locked(p, now)
  /\ rosters' = ApplyTransaction(rosters, team, {}, {p})
  /\ zones' = ClearZones(zones, team, {p})
  /\ dropped' = [dropped EXCEPT ![p] = now]
  /\ UNCHANGED <<book, outside, inHand>>

-----------------------------------------------------------------------------
(* The week, the pool, the process *)

TimePasses ==
  /\ now < MaxNow
  /\ now' = now + 1
  /\ UNCHANGED <<league, book, base, closed, final, pool, mode, inHand>>

GamesFinal ==
  /\ ~final /\ now > LastKickoff
  /\ final' = TRUE
  /\ UNCHANGED <<league, book, base, closed, now, pool, mode, inHand>>

\* The close recomputes the base order from the week's results
WeekCloses ==
  /\ closed < 0 /\ now > LastKickoff
  /\ closed' = now
  /\ base' \in Orders
  /\ UNCHANGED <<league, book, final, now, pool, mode, inHand>>

Referenced == Drafted \cup UNION {rosters[t] : t \in Team}

\* buildPool: the source's rows, and every drafted or rostered player the
\* cache it replaces still knows
PoolRebuilt(omitted) ==
  /\ pool' = (Player \ omitted) \cup (pool \cap Referenced)
  /\ UNCHANGED <<league, book, base, closed, final, now, mode, inHand>>

\* An unavailable source empties the cache
PoolOutage ==
  /\ pool # {}
  /\ pool' = {}
  /\ UNCHANGED <<league, book, base, closed, final, now, mode, inHand>>

Restart ==
  /\ pool' = {}
  /\ filing' = NoClaim /\ tick' = NoRun /\ desk' = NoRun
  /\ UNCHANGED <<league, book, base, closed, final, now, mode, page>>

-----------------------------------------------------------------------------

Init ==
  /\ rosters = StartRosters
  /\ zones = [t \in Team |-> [p \in Player |-> "general"]]
  /\ dropped = [p \in Player |-> -1]
  /\ claims = {} /\ count = 0 /\ log = << >> /\ mark = -1
  /\ base \in Orders
  /\ closed = -1 /\ final = FALSE /\ now = 0
  /\ pool = Player
  /\ mode \in Modes
  /\ filing = NoClaim /\ tick = NoRun /\ page = << >> /\ desk = NoRun

Managers ==
  \/ \E t \in Team, add \in Player, drop \in {{}} \cup {{p} : p \in Player}, bid \in Bids :
       FileBegin(t, add, drop, bid)
  \/ FileCommit \/ FileRefused
  \/ \E c \in claims : CancelClaim(c) \/ MoveClaim(c)
  \/ \E t \in Team, p \in Player : Sign(t, p) \/ Release(t, p)

Runs == TickBaselines \/ TickSeesDue \/ TickRuns \/ TickFails
          \/ RenderRunPage \/ ForceBegin \/ ForceCommit

Surroundings ==
  \/ TimePasses \/ GamesFinal \/ WeekCloses \/ PoolOutage \/ Restart
  \/ \E omitted \in SUBSET Fickle : PoolRebuilt(omitted)

Next == Managers \/ Runs \/ Surroundings

Spec == Init /\ [][Next]_vars

(***************************************************************************)
(* The minute tick is a goroutine of its own and outlives a failing run    *)
(* (StartRosterOps, loopguard); that a write succeeds now and then and the *)
(* pool's source comes back are assumptions on the surroundings.           *)
(***************************************************************************)
FairSpec ==
  /\ Spec
  /\ WF_vars(TickBaselines) /\ SF_vars(TickSeesDue) /\ SF_vars(TickRuns)
  /\ WF_vars(pool = {} /\ PoolRebuilt({}))

-----------------------------------------------------------------------------
(* Properties *)

Claim == [id : 1..MaxClaims, team : Team, add : Player, drop : SUBSET Player, bid : 0..Budget,
          prio : 1..RosterCap, filed : 0..MaxNow, streak : Nat, since : 0..MaxNow]

\* The state has its type.
WaiverTypeOK ==
  /\ rosters \in Rosters /\ zones \in ZoneTags
  /\ claims \subseteq Claim /\ count \in 0..MaxClaims
  /\ mark \in -1..MaxNow /\ closed \in -1..MaxNow /\ now \in 0..MaxNow
  /\ pool \subseteq Player

\* A filed claim is open or has one receipt, never both and never two, through
\* late runs, forced runs, failed runs and restarts (ProcessWaivers takes what
\* it decides out of WaiverClaims in the step that writes the receipt).
ClaimsSettleOnce ==
  /\ \A i, j \in DOMAIN log : log[i].id = log[j].id => i = j
  /\ \A i \in DOMAIN log, c \in claims : log[i].id # c.id

\* A team's open claims are numbered 1 to n whatever was filed, moved,
\* cancelled or decided in between: pickNextClaim compares the numbers, and two
\* equal ones would leave the order of a team's own claims to chance.
PrioritiesAreDense ==
  \A t \in Team :
    {c.prio : c \in OpenOf(claims, t)} = 1..Cardinality(OpenOf(claims, t))

\* A run that catches up at a past instant decides no claim filed since: "a
\* receipt whose ResolvedAt precedes FiledAt" (ProcessWaivers).
NoReceiptBeforeFiling == \A i \in DOMAIN log : log[i].filed <= log[i].at

\* A team does not win twice in one run before another team that still has a
\* claim in it and has never won: a win moves its team to the back at once, also
\* when the run is late or a week closed before it (waiverPenaltyBoundary:
\* "letting one team sweep every contested claim").
NoSweep ==
  [][mode = "perf-priority" =>
       LET run == DOMAIN log' \ DOMAIN log
       IN  \A j, i, k \in run :
             /\ j < i /\ i < k /\ {j, i} \subseteq Won(log')
             /\ log'[j].team = log'[i].team /\ log'[k].team # log'[i].team
             => \E w \in Won(log') : w < k /\ log'[w].team = log'[k].team]_vars

\* A team's winning bids never exceed the season's budget, although every bid
\* was checked at filing against a budget that later wins used up.
BudgetIsKept == mode = "faab" => \A t \in Team : Spent(log, t) <= Budget

\* A claim expires only after DeferWindow of real time: neither a burst of
\* catch-up runs nor the force button destroys it
\* (waiverClaimDeferralWindow).
ExpiryTakesTime ==
  \A i \in DOMAIN log :
    log[i].outcome = "expired" => log[i].at - log[i].filed >= DeferWindow

\* A due run is eventually made, through failing writes, restarts, source
\* outages and forced runs that overtake it (evalWaiverRun: "leave the run due
\* so the next healthy tick can retry it").
RunsCatchUp == RunIsDue ~> ~RunIsDue

\* The claims and the money that a run leaves: a team's claims stay numbered
\* 1, 2, 3, ... and its wins within its budget, through filing, cancelling,
\* moving, catch-up runs, forced runs and restarts.
BookIsWellFormed == WaiverTypeOK /\ PrioritiesAreDense /\ BudgetIsKept

\* The book and its receipts: a claim is settled once, never before it was
\* filed, and expires by time and not by a burst of runs (ProcessWaivers, with
\* catch-up runs, forced runs and restarts between them).
RunsAreSound ==
  BookIsWellFormed /\ ClaimsSettleOnce /\ NoReceiptBeforeFiling /\ ExpiryTakesTime
=============================================================================

-------------------------------- MODULE Pickem --------------------------------
(***************************************************************************)
(* Pick'em: entries against the spread, the market line of each game that  *)
(* a one-minute tick and every pick move until the lock and then freeze    *)
(* or void, and the grading of a pick from the frozen line and the first   *)
(* complete score, the live poller's or the schedule's.                    *)
(*                                                                         *)
(* A schedule row is its kickoff, its current line and its final margin    *)
(* (home minus away); a spread is the margin the home side has to beat.    *)
(* Time counts intervals from 1, and 0 is an instant that is not set.      *)
(***************************************************************************)
EXTENDS Integers, FiniteSets

CONSTANTS
  Contest,        \* the games of the week
  Owner,       \* Pick'em owners
  Line,        \* spreads
  Margin,      \* final margins
  Thursdays,   \* instants that fall on a Thursday
  Eve,         \* [instant -> 8:15 PM on the Thursday before it]
  Unset,     \* no market, no line, no pick, no result
  Unscored,    \* a result without scores
  FirstKick,   \* [Contest -> first published kickoff]
  FirstLine,   \* [Contest -> first line]
  FirstPicks,  \* picks of owners of before the entry instant was kept
  LastTurn,    \* bound on time
  MaxMoves,    \* bound on rescheduled kickoffs
  MaxRestarts  \* bound on restarts

Time == 1..LastTurn
TBA == 0
Side == {"away", "home"}

ASSUME PickemNumbers ==
  /\ LastTurn \in Nat /\ LastTurn >= 2 /\ MaxMoves \in Nat /\ MaxRestarts \in Nat
  /\ Line \subseteq Int /\ Margin \subseteq Int /\ Thursdays \subseteq Time
  /\ Eve \in [Time -> Nat] /\ \A t \in Time : Eve[t] < t
  /\ FirstKick \in [Contest -> Time \cup {TBA}] /\ FirstLine \in [Contest -> Line \cup {Unset}]
  /\ FirstPicks \in [Owner -> [Contest -> Side \cup {Unset}]]
  /\ Unset \notin Int /\ Unset \notin Side /\ Unscored \notin Int /\ Unset # Unscored
  /\ Unset \notin [line : Line \cup {Unset}, seen : Nat, lock : Nat, state : {"open", "frozen", "void"}, decided : Nat]
  /\ "tick" \notin Owner

VARIABLES
  now,
  feed,     \* the schedule [Contest -> [kick, line, margin]]
  seen,     \* when the schedule was last checked (SourceObservedAt)
  live,     \* the poller's finals [Contest -> margin or Unset]
  market,   \* PickemMarkets [Contest -> record or Unset]
  picks,    \* Pickems [Owner -> [Contest -> side or Unset]]
  entered,  \* PickemEnteredAt [Owner -> instant]
  call,     \* the tick and one request of each owner
  moves, restarts

pickemVars == <<now, feed, seen, live, market, picks, entered, call, moves, restarts>>
world == <<now, feed, seen, live, moves, restarts>>

NoCall == [pc |-> "off"]
Tick == "tick"
Active == {c \in Owner \cup {Tick} : call[c].pc # "off"}

-----------------------------------------------------------------------------
(* The market *)

Earliest(S) == IF S = {} THEN 0 ELSE CHOOSE t \in S : \A u \in S : t <= u

Kicks(games) == {games[g].kick : g \in Contest} \ {TBA}

\* The first Thursday kickoff, or the evening of the Thursday before the first.
WeekLock(games) ==
  IF Kicks(games) \cap Thursdays # {} THEN Earliest(Kicks(games) \cap Thursdays)
  ELSE IF Kicks(games) = {} THEN 0 ELSE Eve[Earliest(Kicks(games))]

LockOf(games, g) ==
  LET weekLock == WeekLock(games)
  IN  IF games[g].kick = TBA \/ weekLock = 0 \/ games[g].kick < weekLock THEN games[g].kick ELSE weekLock

\* Mutant: a price checked after the lock is taken
EligibleLate(c, g, t) == c.games[g].line # Unset

Eligible(c, g, t) == c.games[g].line # Unset /\ c.seen # 0 /\ c.seen <= t

Candidate(c, g, lockAt) ==
  [line |-> c.games[g].line, seen |-> c.seen, lock |-> lockAt, state |-> "open", decided |-> 0]

Decided(m, lockAt, state, t) ==
  [m EXCEPT !.lock = lockAt, !.state = state, !.decided = t,
            !.line = IF state = "void" THEN Unset ELSE @]

\* Mutant: a decided market is decided again
NeverOver(m) == FALSE

MarketOver(m) == m # Unset /\ m.state # "open"

\* Mutant: an older price replaces a newer one
AnyPrice(c, m) == TRUE

NoOlder(c, m) == m = Unset \/ m.seen = 0 \/ c.seen >= m.seen

Reconciled(c, g) ==
  LET m == market[g]
      lockAt == LockOf(c.games, g)
      kept == m # Unset /\ m.line # Unset /\ m.seen # 0 /\ m.seen <= lockAt
      fresh == Eligible(c, g, lockAt) /\ (kept => NoOlder(c, m))
  IN  IF lockAt = 0 \/ MarketOver(m) THEN m
      ELSE IF c.at < lockAt
      THEN IF Eligible(c, g, c.at) /\ NoOlder(c, m) THEN Candidate(c, g, lockAt) ELSE m
      ELSE IF fresh THEN Decided(Candidate(c, g, lockAt), lockAt, "frozen", c.at)
      ELSE IF kept THEN Decided(m, lockAt, "frozen", c.at)
      ELSE Decided(Candidate(c, g, lockAt), lockAt, "void", c.at)

Unavailable(m) == m # Unset /\ (m.state = "void" \/ m.line = Unset)

-----------------------------------------------------------------------------
(* Grading *)

\* Mutant: a mark without scores replaces the poller's result
MarkIsFinal(g) == IF feed[g].margin # Unset THEN feed[g].margin ELSE live[g]

\* The poller's result stands in until the schedule has both scores.
Result(g) == IF feed[g].margin \in Margin \/ live[g] = Unset THEN feed[g].margin ELSE live[g]

LegacyEntry(games, o) ==
  Earliest({games[g].kick : g \in {h \in Contest : games[h].kick # TBA /\ picks[o][h] \in Side}})

EnteredAt(o) == IF entered[o] # 0 THEN entered[o] ELSE LegacyEntry(feed, o)

Obliged(o, g) == EnteredAt(o) # 0 /\ feed[g].kick # TBA /\ feed[g].kick >= EnteredAt(o)

Cover(g) ==
  LET result == Result(g)
      beats == result - market[g].line
      decider == IF beats = 0 THEN result ELSE beats
  IN  IF decider > 0 THEN "home" ELSE IF decider < 0 THEN "away" ELSE Unset

Outcome(o, g) ==
  IF feed[g].kick = TBA \/ now < feed[g].kick THEN "pending"
  ELSE IF market[g] = Unset THEN "pending"
  ELSE IF market[g].state = "void" THEN "void"
  ELSE IF market[g].state = "open" THEN "pending"
  ELSE IF picks[o][g] = Unset THEN (IF Obliged(o, g) THEN "missed" ELSE "pending")
  ELSE IF Result(g) \notin Margin THEN "pending"
  ELSE IF picks[o][g] = Cover(g) THEN "win" ELSE "loss"

FinalGames == {g \in Contest : Result(g) # Unset}
VoidGames == {g \in Contest : Unavailable(market[g])}

\* pickemSettledWeeks, for trophies: every game is final or void and one is final
WeekSettled == FinalGames \cup VoidGames = Contest /\ FinalGames # {}

\* The page's own test: no game is open (one whose kickoff is TBA counts as
\* locked), and the finals and the voids are as many as the games.
OpenGames == {g \in Contest \ VoidGames : now < feed[g].kick}
PageSettled == OpenGames = {} /\ Cardinality(FinalGames) + Cardinality(VoidGames) >= Cardinality(Contest)

-----------------------------------------------------------------------------
(* The tick and the requests *)

Reading(g, side) ==
  [pc |-> "reconcile", at |-> now, games |-> feed, seen |-> seen, game |-> g, side |-> side]

StartTick ==
  /\ call[Tick] = NoCall
  /\ call' = [call EXCEPT ![Tick] = Reading(Unset, Unset)]
  /\ UNCHANGED <<world, market, picks, entered>>

\* Mutant: the kickoff is not looked at
AnyTime(g) == TRUE

Pickable(g) == feed[g].kick # TBA /\ now < feed[g].kick

BeginPick(o, g, side) ==
  /\ call[o] = NoCall /\ Pickable(g)
  /\ call' = [call EXCEPT ![o] = Reading(g, side)]
  /\ UNCHANGED <<world, market, picks, entered>>

Reconcile(c) ==
  /\ call[c].pc = "reconcile"
  /\ market' = [g \in Contest |-> Reconciled(call[c], g)]
  /\ call' = [call EXCEPT ![c].pc = IF c = Tick THEN "backfill" ELSE "check"]
  /\ UNCHANGED <<world, picks, entered>>

\* Mutant: a pick on a void market is taken
ChecksNothing(o) == FALSE

Refuses(o) == Unavailable(market[call[o].game])

CheckMarket(o) ==
  /\ call[o].pc = "check"
  /\ call' = [call EXCEPT ![o] = IF Refuses(o) THEN NoCall ELSE [@ EXCEPT !.pc = "backfill"]]
  /\ UNCHANGED <<world, market, picks, entered>>

\* Mutant: the entry instant follows the schedule
BackfillsAll(c) == [o \in Owner |-> LegacyEntry(call[c].games, o)]

Backfilled(c) ==
  [o \in Owner |-> IF entered[o] # 0 THEN entered[o] ELSE LegacyEntry(call[c].games, o)]

Backfill(c) ==
  /\ call[c].pc = "backfill"
  /\ entered' = Backfilled(c)
  /\ call' = [call EXCEPT ![c] = IF c = Tick THEN NoCall ELSE [@ EXCEPT !.pc = "set"]]
  /\ UNCHANGED <<world, market, picks>>

SetPickem(o) ==
  /\ call[o].pc = "set"
  /\ picks' = [picks EXCEPT ![o][call[o].game] = call[o].side]
  /\ entered' = [entered EXCEPT ![o] = IF @ = 0 THEN call[o].at ELSE @]
  /\ call' = [call EXCEPT ![o] = NoCall]
  /\ UNCHANGED <<world, market>>

-----------------------------------------------------------------------------
(* The world *)

Kicked(g) == feed[g].kick # TBA /\ feed[g].kick < now

\* The mirror reads the source once an interval; a row changes, or nothing.
Refresh ==
  /\ seen # now /\ seen' = now
  /\ \/ UNCHANGED <<feed, moves>>
     \/ \E g \in Contest :
          \/ \E line \in (Line \cup {Unset}) \ {feed[g].line} :
               feed' = [feed EXCEPT ![g].line = line] /\ UNCHANGED moves
          \/ \E margin \in (Margin \cup {Unscored}) \ {feed[g].margin} :
               /\ Kicked(g) /\ (feed[g].margin \in Margin => margin \in Margin)
               /\ feed' = [feed EXCEPT ![g].margin = margin] /\ UNCHANGED moves
          \/ \E kick \in now + 2 .. LastTurn :
               /\ moves < MaxMoves /\ moves' = moves + 1 /\ kick # feed[g].kick
               /\ feed[g].kick = TBA \/ now < feed[g].kick
               /\ feed' = [feed EXCEPT ![g].kick = kick]
  /\ UNCHANGED <<now, live, market, picks, entered, call, restarts>>

\* A complete score of the poller, which may correct an earlier one.
LiveFinal(g) ==
  /\ Kicked(g)
  /\ \E margin \in Margin \ {live[g]} : live' = [live EXCEPT ![g] = margin]
  /\ UNCHANGED <<now, feed, seen, market, picks, entered, call, moves, restarts>>

\* A request or a tick is over by the end of the interval after its own.
ClockTurns ==
  /\ now < LastTurn /\ now' = now + 1
  /\ \A c \in Active : call[c].at = now
  /\ UNCHANGED <<feed, seen, live, market, picks, entered, call, moves, restarts>>

NoFinals == [g \in Contest |-> Unset]
Quiet == [c \in Owner \cup {Tick} |-> NoCall]

\* The poller's finals are in memory only.
Restart ==
  /\ restarts < MaxRestarts /\ restarts' = restarts + 1
  /\ live' = NoFinals /\ call' = Quiet
  /\ UNCHANGED <<now, feed, seen, market, picks, entered, moves>>

PickemInit ==
  /\ now = 2
  /\ feed = [g \in Contest |-> [kick |-> FirstKick[g], line |-> FirstLine[g], margin |-> Unset]]
  /\ seen = 1 /\ live = NoFinals /\ market = [g \in Contest |-> Unset]
  /\ picks = FirstPicks /\ entered = [o \in Owner |-> 0] /\ call = Quiet
  /\ moves = 0 /\ restarts = 0

PickemNext ==
  \/ StartTick \/ Refresh \/ ClockTurns \/ Restart
  \/ \E g \in Contest : LiveFinal(g)
  \/ \E o \in Owner, g \in Contest, side \in Side : BeginPick(o, g, side)
  \/ \E o \in Owner : CheckMarket(o) \/ SetPickem(o)
  \/ \E c \in Owner \cup {Tick} : Reconcile(c) \/ Backfill(c)

PickemSpec == PickemInit /\ [][PickemNext]_pickemVars

-----------------------------------------------------------------------------
(* Properties *)

Price == Line \cup {Unset}
Instant == 0..LastTurn

\* Type invariant of Pick'em.
PickemTypeOK ==
  /\ now \in Time /\ seen \in Instant
  /\ feed \in [Contest -> [kick : Instant, line : Price, margin : Margin \cup {Unscored, Unset}]]
  /\ live \in [Contest -> Margin \cup {Unset}]
  /\ market \in [Contest -> {Unset} \cup
       [line : Price, seen : Instant, lock : Instant, state : {"open", "frozen", "void"}, decided : Instant]]
  /\ picks \in [Owner -> [Contest -> Side \cup {Unset}]] /\ entered \in [Owner -> Instant]

\* A frozen line was seen by its lock and frozen no earlier than that, although
\* readings of several ages and a moved kickoff meet in the Store
\* (ReconcilePickemMarkets: "freezes each contest line exactly once").
LinesAreEarly ==
  \A g \in Contest : market[g] # Unset /\ market[g].state = "frozen" =>
    market[g].line # Unset /\ market[g].seen <= market[g].lock /\ market[g].lock <= market[g].decided

\* Whoever picked has an entry instant (SetPickem).
EntrantsAreEntered == \A o \in Owner : picks[o] # FirstPicks[o] => entered[o] # 0

PickemIsSound == PickemTypeOK /\ LinesAreEarly /\ EntrantsAreEntered

\* A decided market stays as it is, and until then its price only gets newer,
\* except when it is decided at a lock before the price it has.
LinesFreezeOnce ==
  [][\A g \in Contest : market[g] # Unset =>
       IF MarketOver(market[g]) THEN market'[g] = market[g]
       ELSE /\ market'[g] # Unset
            /\ \/ market'[g].seen >= market[g].seen
               \/ MarketOver(market'[g]) /\ market[g].seen > market'[g].lock]_pickemVars

\* A verdict changes only with the score it was graded from: no pick, line or
\* entry instant that comes later touches it, except a pick whose request read
\* the clock before the kickoff (gradePickemAt, PickemSet).
VerdictsStand ==
  [][\A o \in Owner, g \in Contest :
       Outcome(o, g) # "pending" /\ Result(g)' = Result(g) =>
         \/ Outcome(o, g)' = Outcome(o, g)
         \/ SetPickem(o) /\ call[o].game = g /\ call[o].at < feed[g].kick]_pickemVars

\* A pick lands on a void market only when its own reading, of a clock before
\* the lock, had left the market open ("an invalid game cannot create ... a
\* pick").
VoidTakesNoPick ==
  [][\A o \in Owner, g \in Contest : picks'[o][g] # picks[o][g] /\ market[g] # Unset /\ market[g].state = "void"
       => call[o].at < LockOf(call[o].games, g)]_pickemVars

\* The instant a member entered never moves ("the immutable season-entry
\* instant").
EntryStays == [][\A o \in Owner : entered[o] # 0 => entered'[o] = entered[o]]_pickemVars

\* While the process lives a complete result stays complete and a settled week
\* settled, also when the score passes from the poller to a schedule that has a
\* mark first and the scores later (overlayPickemLiveFinals).
SettledStays ==
  [][~Restart => /\ WeekSettled => WeekSettled'
                 /\ \A g \in Contest : Result(g) \in Margin => Result(g)' \in Margin]_pickemVars

PicksStand == LinesFreezeOnce /\ VerdictsStand /\ VoidTakesNoPick /\ EntryStays /\ SettledStays

\* The page calls a week settled when its last game has gone final or is void
\* (pickemData: "A week whose last game has gone final is a closed book").
PageSettlesWithTheLast == PageSettled => FinalGames \cup VoidGames = Contest
=============================================================================

------------------------------ MODULE Playoffs ------------------------------
(***************************************************************************)
(* The postseason bracket: the commissioner previews a bracket built from  *)
(* the final standings, publishes the preview a page showed, advances      *)
(* rounds from the final score ledger and corrects deciding games          *)
(* (internal/league/playoffs.go, postseason.go, postseason_ledger.go).     *)
(* Every action is one Store call under its lock; an advance reads the     *)
(* ledger first, so two advances and a correction can cross.               *)
(* PlayoffState.Matchups is one list whose readers filter it by bracket    *)
(* and round; here rounds[bracket][round] is what such a filter finds, and *)
(* <<bracket, round, index>> stands for a matchup's ID.                    *)
(***************************************************************************)
EXTENDS Integers, FiniteSets, Sequences, SequencesExt

CONSTANTS
  Team,
  Division,        \* [Team -> division name]
  Configs,         \* the postseason rules a league may have
  Orders,          \* the final standings, best team first, ties resolved
  Lines,           \* round scores and best weeks of a matchup's two sides
  Advances,        \* the advance requests in flight
  StartWeek, LastNFLWeek,
  NoTeam,
  MaxCorrections, MaxStandings   \* bounds

VARIABLES
  config,
  order,           \* the standings AdminPreviewPlayoffs would compute now
  bracket,         \* PersistedState.Playoffs
  season,          \* PersistedState.Phase
  page,            \* the preview the commissioner's page shows
  weeksFinal,      \* the last NFL week whose games are all final
  asked,           \* the results each advance read from the ledger
  corrections, redraws

playoffVars == <<config, order, bracket, season, page, weeksFinal, asked, corrections, redraws>>

NoBracket == [status |-> "none"]
NoPage    == <<>>
NoResults == <<>>

\* The standings list every team once; a missing opponent is no team
ASSUME PlayoffAssumption ==
  /\ IsFiniteSet(Team) /\ NoTeam \notin Team
  /\ \A o \in Orders : /\ o \in Seq(Team) /\ Len(o) = Cardinality(Team)
                       /\ \A i, j \in DOMAIN o : i # j => o[i] # o[j]

\* The members of P from the lowest key to the highest
Ranked(P, key) ==
  LET Before(i, j) == key[i] < key[j] \/ (key[i] = key[j] /\ i < j)
  IN  [k \in 1 .. Cardinality(P) |->
        CHOOSE i \in P : Cardinality({j \in P : Before(j, i)}) = k - 1]

\* What s has at the places P, in the order of s
At(s, P) == LET place == Ranked(P, [i \in P |-> i])
            IN  [k \in DOMAIN place |-> s[place[k]]]

-----------------------------------------------------------------------------
(* Seeding *)

\* Where the standings have the best team of each division
DivisionWinners(o) ==
  {j \in DOMAIN o : \A k \in 1 .. j - 1 : Division[o[k]] # Division[o[j]]}

\* SeedPlayoffs: winners first when the league says so, then by standing
Seeds(o, c) ==
  LET first == At(o, DivisionWinners(o))
      rest  == At(o, DOMAIN o \ DivisionWinners(o))
  IN  SubSeq(IF c.winnersFirst THEN first \o rest ELSE o, 1, c.teams)

\* nonPlayoffToiletSeeds: everybody after the first c.teams of the standings,
\* the worst team first
ToiletSeeds(o, c) == Reverse(SubSeq(o, c.teams + 1, Len(o)))

\* 2 ^ r, counted: the provers know no powers
PowerOfTwo(r) == Cardinality(SUBSET (1 .. r))

\* log2: one doubling for each power of two that n teams do not fit in
RoundsFor(n) == Cardinality({r \in 0 .. n - 1 : PowerOfTwo(r) < n})

RoundWeek(c, round) == StartWeek + (round - 1) * c.weeks

Game(week, hs, home, as, away) ==
  [week |-> week, homeSeed |-> hs, home |-> home, awaySeed |-> as, away |-> away,
   homeScore |-> 0, awayScore |-> 0,
   winner |-> IF away = NoTeam THEN home ELSE NoTeam, final |-> away = NoTeam]

\* pairBracketRound1: seed k meets bracketSize + 1 - k, or has a bye
FirstRound(seeds, week) ==
  LET size == PowerOfTwo(RoundsFor(Len(seeds)))
      seed(n) == IF n <= Len(seeds) THEN seeds[n] ELSE NoTeam
      num(n)  == IF n <= Len(seeds) THEN n ELSE 0
  IN  [k \in 1 .. size \div 2 |-> Game(week, k, seeds[k], num(size + 1 - k), seed(size + 1 - k))]

Kinds == {"championship", "toilet", "consolation"}

\* GeneratePlayoffState: the consolation bracket comes later
Generated(o, c) ==
  [kind \in Kinds |->
    CASE kind = "championship" -> <<FirstRound(Seeds(o, c), RoundWeek(c, 1))>>
      [] kind = "toilet" -> IF c.toilet /\ Len(o) - c.teams >= 2
                            THEN <<FirstRound(ToiletSeeds(o, c), RoundWeek(c, 1))>> ELSE <<>>
      [] kind = "consolation" -> <<>>]

-----------------------------------------------------------------------------
(* Advancing *)

\* Mutant: the deciding game is expected a round too late
TotalRoundsPadded(b, kind) ==
  IF kind = "championship" THEN RoundsFor(config.teams)
  ELSE IF b.rounds[kind] = <<>> THEN 0 ELSE RoundsFor(2 * Len(b.rounds[kind][1])) + 1

\* bracketTotalRounds
TotalRounds(b, kind) ==
  IF kind = "championship" THEN RoundsFor(config.teams)
  ELSE IF b.rounds[kind] = <<>> THEN 0 ELSE RoundsFor(2 * Len(b.rounds[kind][1]))

Loser(m) == IF m.winner = m.away THEN m.home ELSE m.away

SeedOf(m, t) == IF t = m.home THEN m.homeSeed ELSE m.awaySeed

\* Who goes on: the winner, in the toilet bracket the loser; a bye has none
GoesOn(kind, m) == IF kind = "toilet" /\ m.away # NoTeam THEN Loser(m) ELSE m.winner

\* nextRoundMatchups: best against worst seed, or the games' neighbours
NextRound(games, kind, week) ==
  LET n       == Len(games)
      team(i) == GoesOn(kind, games[i])
      seed(i) == SeedOf(games[i], team(i))
      ranked  == Ranked(1 .. n, [i \in 1 .. n |-> seed(i)])
      home(k) == IF config.reseed THEN ranked[k] ELSE 2 * k - 1
      away(k) == IF config.reseed THEN ranked[n + 1 - k] ELSE 2 * k
  IN  [k \in 1 .. n \div 2 |->
        Game(week, seed(home(k)), team(home(k)), seed(away(k)), team(away(k)))]

\* round1Losers, reseedBySeedAscending
ConsolationSeeds(games) ==
  LET real   == {i \in DOMAIN games : games[i].away # NoTeam}
      ranked == Ranked(real, [i \in real |-> SeedOf(games[i], Loser(games[i]))])
  IN  [k \in DOMAIN ranked |-> Loser(games[ranked[k]])]

\* finalizeBracket
Finalized(b, kind, m) ==
  CASE kind = "championship" -> [b EXCEPT !.champion = m.winner, !.runnerUp = Loser(m)]
    [] kind = "consolation"  -> [b EXCEPT !.consolation = m.winner]
    [] kind = "toilet"       -> [b EXCEPT !.toilet = Loser(m)]

\* The consolation bracket starts a round later than the others
BracketWeek(kind, round) ==
  RoundWeek(config, IF kind = "consolation" THEN round + 1 ELSE round)

\* advanceBracket
AdvanceBracket(b, kind) ==
  LET last   == Len(b.rounds[kind])
      games  == b.rounds[kind][last]
      onward == [b EXCEPT !.rounds[kind] = Append(@, NextRound(games, kind, BracketWeek(kind, last + 1)))]
      moved  == IF last >= TotalRounds(b, kind) THEN Finalized(b, kind, games[1]) ELSE onward
      losers == ConsolationSeeds(games)
      spawns == /\ kind = "championship" /\ last = 1 /\ config.consolation
                /\ Len(losers) >= 2
                /\ b.rounds["consolation"] = <<>>
  IN  IF last = 0 \/ \E i \in DOMAIN games : ~games[i].final THEN b
      ELSE IF spawns
           THEN [moved EXCEPT !.rounds["consolation"] = <<FirstRound(losers, RoundWeek(config, 2))>>]
           ELSE moved

\* A bracket that appears in this call is not advanced in it
AdvanceAll(b) ==
  LET main == AdvanceBracket(AdvanceBracket(b, "championship"), "toilet")
  IN  IF b.rounds["consolation"] = <<>> THEN main ELSE AdvanceBracket(main, "consolation")

\* resolvePlayoffWinner: the round's score, then the best week, then the seed
Winner(m, line) ==
  IF line.home # line.away THEN IF line.home > line.away THEN m.home ELSE m.away
  ELSE IF line.homeBest # line.awayBest THEN IF line.homeBest > line.awayBest THEN m.home ELSE m.away
  ELSE IF m.homeSeed <= m.awaySeed THEN m.home ELSE m.away

Scored(m, line) ==
  [m EXCEPT !.homeScore = line.home, !.awayScore = line.away, !.final = TRUE,
            !.winner = Winner(m, line)]

\* Games that are final already are left alone
Played(rounds, results) ==
  [kind \in Kinds |-> [r \in DOMAIN rounds[kind] |-> [i \in DOMAIN rounds[kind][r] |->
    LET m == rounds[kind][r][i]
    IN  IF <<kind, r, i>> \in DOMAIN results /\ ~m.final
        THEN Scored(m, results[<<kind, r, i>>]) ELSE m]]]

\* AdvancePlayoffRound
Advanced(b, results) == AdvanceAll([b EXCEPT !.rounds = Played(b.rounds, results)])

\* The unfinished games of every bracket's last round
Active(b) ==
  UNION {{<<kind, r, i>> : r \in {Len(b.rounds[kind])},
                           i \in {j \in DOMAIN b.rounds[kind][Len(b.rounds[kind])] :
                                    ~b.rounds[kind][Len(b.rounds[kind])][j].final}} :
         kind \in {k \in Kinds : b.rounds[k] # <<>>}}

\* ValidateAuthoritativePlayoffRound
RoundComplete(b, results) ==
  /\ \A p \in DOMAIN results :
       LET m == b.rounds[p[1]][p[2]][p[3]]
       IN  IF m.final THEN m.homeScore = results[p].home /\ m.awayScore = results[p].away
           ELSE p \in Active(b)
  /\ Active(b) \subseteq DOMAIN results

-----------------------------------------------------------------------------
(* The commissioner's actions *)

Published == bracket.status = "published"

Logged(b, action) == [b EXCEPT !.revision = @ + 1,
                               !.audit = Append(@, [action |-> action, revision |-> b.revision + 1])]

Fresh(revision) ==
  [status |-> "preview", preview |-> order, rounds |-> Generated(order, config),
   champion |-> NoTeam, runnerUp |-> NoTeam, consolation |-> NoTeam, toilet |-> NoTeam,
   revision |-> revision, audit |-> <<[action |-> "preview", revision |-> revision]>>]

\* Mutant: a new preview replaces a published bracket
PreviewAllowedAlways == bracket.status # "none" => bracket.preview # order

\* The same preview again changes nothing
PreviewAllowed ==
  \/ bracket.status = "none"
  \/ bracket.status = "preview" /\ bracket.preview # order

\* AdminPreviewPlayoffs, SetPlayoffPreview
Preview ==
  /\ season = "playoffs"
  /\ PreviewAllowed
  /\ bracket' = Fresh(IF bracket.status = "none" THEN 1 ELSE bracket.revision + 1)
  /\ UNCHANGED <<config, order, season, page, weeksFinal, asked, corrections, redraws>>

\* The page renders the preview and carries its id in the publish form
RenderPlayoffPage ==
  /\ bracket.status = "preview"
  /\ page' = bracket.preview
  /\ page' # page
  /\ UNCHANGED <<config, order, bracket, season, weeksFinal, asked, corrections, redraws>>

\* Mutant: whatever preview there is gets published
PublishAllowedAny == page # NoPage /\ bracket.status = "preview"

PublishAllowed == page # NoPage /\ bracket.status = "preview" /\ bracket.preview = page

\* PublishPlayoffPreview
Publish ==
  /\ PublishAllowed
  /\ bracket' = [Logged(bracket, "publish") EXCEPT !.status = "published"]
  /\ UNCHANGED <<config, order, season, page, weeksFinal, asked, corrections, redraws>>

\* The standings come out differently: another tiebreak order, late pick'em
\* scores
StandingsChange ==
  /\ redraws < MaxStandings
  /\ order' \in Orders \ {order}
  /\ redraws' = redraws + 1
  /\ UNCHANGED <<config, bracket, season, page, weeksFinal, asked, corrections>>

LastWeekOf(p) == bracket.rounds[p[1]][p[2]][p[3]].week + config.weeks - 1

WeekIsPlayed ==
  /\ Published /\ weeksFinal < LastNFLWeek
  /\ \E p \in Active(bracket) : LastWeekOf(p) > weeksFinal
  /\ weeksFinal' = weeksFinal + 1
  /\ UNCHANGED <<config, order, bracket, season, page, asked, corrections, redraws>>

\* playoffRoundResultsFromLedger: every week of every active game is final.
\* The scores may differ from an earlier reading, as statistics are corrected.
ReadLedger(a) ==
  /\ Published /\ asked[a] = NoResults
  /\ Active(bracket) # {}
  /\ \A p \in Active(bracket) : LastWeekOf(p) <= weeksFinal
  /\ \E results \in [Active(bracket) -> Lines] : asked' = [asked EXCEPT ![a] = results]
  /\ UNCHANGED <<config, order, bracket, season, page, weeksFinal, corrections, redraws>>

\* The phase turns with the champion
SeasonAfter(b) == IF b.champion # NoTeam THEN "complete" ELSE season

\* AdvancePublishedPlayoffRound
CommitAdvance(a) ==
  /\ asked[a] # NoResults
  /\ asked' = [asked EXCEPT ![a] = NoResults]
  /\ LET next == Advanced(bracket, asked[a])
     IN  IF RoundComplete(bracket, asked[a]) /\ next # bracket
         THEN /\ bracket' = Logged(next, "advance")
              /\ season' = SeasonAfter(next)
         ELSE UNCHANGED <<bracket, season>>
  /\ UNCHANGED <<config, order, page, weeksFinal, corrections, redraws>>

\* Mutant: any final game can be corrected
CorrectableAny(kind, r) == TRUE

\* CorrectPublishedPlayoff takes only the game that decides its bracket
Correctable(kind, r) == r >= TotalRounds(bracket, kind)

\* Mutant: the corrected game's outcome is not recorded again
CorrectedOutcomeKept(b, kind, m) == b

CorrectedOutcome(b, kind, m) == Finalized(b, kind, m)

Rescored(m, line) == [m EXCEPT !.homeScore = line.home, !.awayScore = line.away]

\* The winner, with or without a new score; the score is not compared with him
Corrections(m) ==
  LET renamed == {[m EXCEPT !.winner = t] : t \in {m.home, m.away}}
  IN  renamed \cup {Rescored(x, line) : x \in renamed, line \in Lines}

Correct(kind, r, i) ==
  LET m == bracket.rounds[kind][r][i]
  IN  /\ Published /\ corrections < MaxCorrections
      /\ m.final /\ Correctable(kind, r)
      /\ \E fixed \in Corrections(m) \ {m} :
           bracket' = Logged(CorrectedOutcome([bracket EXCEPT !.rounds[kind][r][i] = fixed], kind, fixed),
                             "correction")
      /\ corrections' = corrections + 1
      /\ UNCHANGED <<config, order, season, page, weeksFinal, asked, redraws>>

\* ValidatePlayoffConfig looks at the championship's rounds
Valid(c) ==
  /\ c.teams \in 2 .. 8 /\ c.teams <= Cardinality(Team) /\ c.weeks \in {1, 2}
  /\ c.winnersFirst => c.teams >= Cardinality({Division[t] : t \in Team})
  /\ StartWeek + RoundsFor(c.teams) * c.weeks - 1 <= LastNFLWeek

PlayoffInit ==
  /\ config \in {c \in Configs : Valid(c)}
  /\ order \in Orders
  /\ bracket = NoBracket
  /\ season = "playoffs"
  /\ page = NoPage
  /\ weeksFinal = StartWeek - 1
  /\ asked = [a \in Advances |-> NoResults]
  /\ corrections = 0 /\ redraws = 0

CorrectSome ==
  /\ Published
  /\ \E kind \in Kinds : \E r \in DOMAIN bracket.rounds[kind] :
       \E i \in DOMAIN bracket.rounds[kind][r] : Correct(kind, r, i)

PlayoffNext ==
  \/ Preview \/ RenderPlayoffPage \/ Publish \/ StandingsChange \/ WeekIsPlayed
  \/ \E a \in Advances : ReadLedger(a) \/ CommitAdvance(a)
  \/ CorrectSome

PlayoffSpec == PlayoffInit /\ [][PlayoffNext]_playoffVars

-----------------------------------------------------------------------------
(* Properties *)

Rounds(kind) == bracket.rounds[kind]

\* The bracket is in the shape PersistedState.Playoffs may have.
PlayoffTypeOK ==
  /\ bracket.status \in {"none", "preview", "published"}
  /\ season \in {"playoffs", "complete"}
  /\ bracket.status # "none" =>
       \A kind \in Kinds : \A r \in DOMAIN Rounds(kind) : \A i \in DOMAIN Rounds(kind)[r] :
         LET m == Rounds(kind)[r][i]
         IN  /\ m.home \in Team /\ m.away \in Team \cup {NoTeam}
             /\ m.final <=> m.winner # NoTeam
             /\ m.final => m.winner \in {m.home, m.away}

Sides(m) == {m.home, m.away} \ {NoTeam}

Playing(games) == UNION {Sides(games[i]) : i \in DOMAIN games}

NobodyTwice(games) ==
  \A i \in DOMAIN games :
    /\ games[i].home # games[i].away
    /\ \A j \in DOMAIN games \ {i} : Sides(games[i]) \cap Sides(games[j]) = {}

Beaten(m) == CHOOSE t \in {m.home, m.away} : t # m.winner

Through(kind, m) == IF kind = "toilet" /\ m.away # NoTeam THEN Beaten(m) ELSE m.winner

\* The toilet bracket is for the teams that are not in the playoffs
\* (configuration.md: "losers bracket for non-playoff teams"). It takes them
\* from the standings, so it holds only where the seeds come from there too.
ToiletTakesTheRest ==
  Rounds("toilet") # <<>> => Playing(Rounds("toilet")[1]) \cap Playing(Rounds("championship")[1]) = {}

\* Whatever was corrected and in whatever order requests came, a later round
\* is played by exactly the teams the finished round before it sends on, each
\* once, and the consolation bracket by the championship's first losers
\* (nextRoundMatchups, round1Losers, CorrectPublishedPlayoff).
RoundsFollowResults ==
  bracket.status # "none" =>
    /\ \A kind \in Kinds : \A r \in DOMAIN Rounds(kind) :
         /\ NobodyTwice(Rounds(kind)[r])
         /\ r > 1 => LET before == Rounds(kind)[r - 1]
                     IN  /\ \A i \in DOMAIN before : before[i].final
                         /\ Playing(Rounds(kind)[r]) = {Through(kind, before[i]) : i \in DOMAIN before}
    /\ ~config.winnersFirst => ToiletTakesTheRest
    /\ Rounds("consolation") # <<>> =>
         LET first == Rounds("championship")[1]
         IN  Playing(Rounds("consolation")[1]) =
               Playing(first) \ {first[i].winner : i \in DOMAIN first}

\* The recorded outcomes are those of the deciding games as they now stand
\* (finalizeBracket, CorrectPublishedPlayoff).
OutcomesAreDecided ==
  bracket.status # "none" =>
    LET last(kind) == Rounds(kind)[TotalRounds(bracket, kind)]
        decided(kind) == /\ TotalRounds(bracket, kind) \in DOMAIN Rounds(kind)
                         /\ Len(last(kind)) = 1 /\ last(kind)[1].final
    IN  /\ bracket.champion = IF decided("championship") THEN last("championship")[1].winner ELSE NoTeam
        /\ bracket.runnerUp = IF decided("championship") THEN Beaten(last("championship")[1]) ELSE NoTeam
        /\ bracket.consolation = IF decided("consolation") THEN last("consolation")[1].winner ELSE NoTeam
        /\ bracket.toilet = IF decided("toilet") THEN Beaten(last("toilet")[1]) ELSE NoTeam

\* The season is complete exactly when there is a champion, though the other
\* brackets may still be playing (AdvancePublishedPlayoffRound).
ChampionEndsSeason ==
  season = "complete" <=> bracket.status # "none" /\ bracket.champion # NoTeam

\* All unfinished games of the three brackets are in one week: an advance needs
\* every one of them, so a bracket in a later week would hold the others back.
ActiveGamesShareWeek ==
  bracket.status # "none" =>
    \A p, q \in Active(bracket) : LastWeekOf(p) = LastWeekOf(q)

\* A bracket always has a game to play or its outcome (advanceBracket).
NoBracketIsStuck ==
  bracket.status # "none" => \A kind \in Kinds :
    Rounds(kind) # <<>> =>
      \/ \E p \in Active(bracket) : p[1] = kind
      \/ CASE kind = "championship" -> bracket.champion # NoTeam
           [] kind = "consolation"  -> bracket.consolation # NoTeam
           [] kind = "toilet"       -> bracket.toilet # NoTeam

\* What gets published is the bracket the commissioner's page showed, even if
\* the standings moved and a new preview was made since
\* (PublishPlayoffPreview's preview id).
PublishedIsShown ==
  [][~Published /\ Published' => bracket'.rounds = Generated(page, config)]_playoffVars

\* A published bracket is never replaced: its audit only grows, one entry a
\* revision, and a final game changes only by a correction.
PublishedIsKept ==
  [][Published =>
       /\ Published' /\ bracket'.preview = bracket.preview
       /\ IsPrefix(bracket.audit, bracket'.audit)
       /\ Len(bracket'.audit) - Len(bracket.audit) = bracket'.revision - bracket.revision
       /\ \A kind \in Kinds : \A r \in DOMAIN Rounds(kind) : \A i \in DOMAIN Rounds(kind)[r] :
            Rounds(kind)[r][i].final /\ corrections' = corrections
              => Rounds(kind)'[r][i] = Rounds(kind)[r][i]]_playoffVars

\* The bracket: each round comes from the results of the one before, outcomes
\* and the season's end from its last games, and there is always a game to play
\* (advanceBracket, AdvancePublishedPlayoffRound, CorrectPublishedPlayoffScore).
BracketIsSound ==
  /\ PlayoffTypeOK /\ RoundsFollowResults /\ OutcomesAreDecided
  /\ ChampionEndsSeason /\ ActiveGamesShareWeek /\ NoBracketIsStuck

\* What was shown is published, and what is published is kept.
PublishedIsFinal == PublishedIsShown /\ PublishedIsKept
=============================================================================

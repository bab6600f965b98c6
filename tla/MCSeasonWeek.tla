---------------------------- MODULE MCSeasonWeek ----------------------------
(***************************************************************************)
(* Two weeks, three games, four players and two slots.  Week 2 has a game  *)
(* on Thursday and one on Sunday, so a team is partly locked, and carol is *)
(* on bye.  Part "lineups" has edits, roster moves and closes; part        *)
(* "closing" has boxes, feeds and both closers.                            *)
(***************************************************************************)
EXTENDS SeasonWeek, TLC

CONSTANTS ann, bob, carol, dee, rb, flex, opener, thursday, sunday

VARIABLE part

MCSlotOrder == <<rb, flex>>
MCFit == rb :> {ann, bob} @@ flex :> {ann, bob, carol, dee}
MCProjection == ann :> 4 @@ dee :> 3 @@ bob :> 2 @@ carol :> 1
MCWeekOf == opener :> 1 @@ thursday :> 2 @@ sunday :> 2
MCKickoff == opener :> 1 @@ thursday :> 3 @@ sunday :> 4
MCGameOf == <<[p \in Player |-> opener],
              ann :> sunday @@ bob :> sunday @@ carol :> NoGame @@ dee :> thursday>>
MCTurn == <<2, 5>>

\* Of part "lineups", week 1's games are over when the manager starts, who
\* edits twice, or edits and moves a player.
LineupStep ==
  /\ Managing \/ PassTime \/ CloseStep("admin")
  /\ edits' + moves' > 0 => clock >= 2
  /\ edits' + moves' <= MaxEdits

\* Of part "closing", week 1 is settled by boxes and week 2 by the feed
Settled ==
  /\ over' \subseteq Games(2)
  /\ \A g \in Games(2) : boxes'[g] = NoBox

ClosingStep == (Feeding \/ Closes) /\ Settled

MCInit == Init /\ part \in {"lineups", "closing"}

MCNext ==
  /\ part' = part
  /\ \/ part = "lineups" /\ LineupStep
     \/ part = "closing" /\ ClosingStep

MCSpec == MCInit /\ [][MCNext]_<<vars, part>>

ClosingIsFair ==
  /\ WF_vars(part = "closing" /\ PassTime)
  /\ WF_vars(part = "closing" /\ FetchStats)
  /\ WF_vars(part = "closing" /\ \E w \in Week : CloseRead("tick", w))
  /\ SF_vars(part = "closing" /\ CloseScore("tick"))
  /\ SF_vars(part = "closing" /\ CloseCommit("tick"))

\* WeeksClose where the closes are
MCWeeksClose == part = "closing" => WeeksClose
=============================================================================

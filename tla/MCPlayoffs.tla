----------------------------- MODULE MCPlayoffs -----------------------------
(***************************************************************************)
(* Seven teams in two divisions under five sets of rules: fixed brackets   *)
(* with a consolation and a toilet bracket, reseeded ones with byes and    *)
(* division winners first, rounds of two weeks with a toilet bracket, and  *)
(* a toilet bracket that is longer than the championship.                  *)
(***************************************************************************)
EXTENDS Playoffs, TLC

CONSTANTS t1, t2, t3, t4, t5, t6, t7, east, west

Rules(teams, weeks, reseed, winnersFirst, consolation, toilet) ==
  [teams |-> teams, weeks |-> weeks, reseed |-> reseed, winnersFirst |-> winnersFirst,
   consolation |-> consolation, toilet |-> toilet]

MCConfigs == {Rules(4, 1, FALSE, FALSE, TRUE, TRUE), Rules(6, 1, TRUE, TRUE, TRUE, FALSE),
              Rules(3, 2, TRUE, TRUE, FALSE, TRUE),
              Rules(2, 1, FALSE, FALSE, FALSE, TRUE), Rules(7, 1, FALSE, FALSE, TRUE, FALSE)}
MCDivision == [t \in Team |-> IF t \in {t1, t2, t3} THEN east ELSE west]
MCOrders == {<<t1, t2, t3, t4, t5, t6, t7>>, <<t2, t3, t1, t7, t6, t5, t4>>}

Line(h, a, hb, ab) == [home |-> h, away |-> a, homeBest |-> hb, awayBest |-> ab]
MCLines == {Line(2, 1, 2, 1), Line(2, 2, 1, 2), Line(2, 2, 1, 1)}

Second == CHOOSE a \in Advances : TRUE

\* Two advances at once only where the bracket has a second round and is small;
\* with three teams there are ties on everything and the standings stay
Bounded ==
  /\ order' # order => ~Published /\ config.teams # 3
  /\ config.teams # 3 => \A a \in Advances : \A i \in DOMAIN asked'[a] : asked'[a][i] # Line(2, 2, 1, 1)
  /\ config.teams \notin {3, 4} => asked'[Second] = NoResults

MCPlayoffNext == PlayoffNext /\ Bounded

MCPlayoffSpec == PlayoffInit /\ [][MCPlayoffNext]_playoffVars
=============================================================================

------------------------------- MODULE MCSeason -------------------------------
(***************************************************************************)
(* The season of MCSeasonWeek and the playoffs of MCPlayoffs in one run: a *)
(* behaviour stays in the part it starts in.                               *)
(***************************************************************************)
EXTENDS MCSeasonWeek, MCPlayoffs

WeekParts   == <<vars, part>>
SeasonParts == <<WeekParts, playoffVars>>

FirstBracket == config = CHOOSE c \in Configs : Valid(c)

SeasonInit ==
  /\ Init /\ PlayoffInit
  /\ part \in {"lineups", "closing", "bracket"}
  /\ order = CHOOSE o \in Orders : TRUE
  /\ part # "bracket" => FirstBracket

SeasonNext ==
  \/ part # "bracket" /\ MCNext /\ UNCHANGED playoffVars
  \/ part = "bracket" /\ MCPlayoffNext /\ UNCHANGED WeekParts

SeasonSpec ==
  /\ SeasonInit /\ [][SeasonNext]_SeasonParts
  /\ ClosingIsFair
=============================================================================

----------------------------- MODULE DraftRules -----------------------------
(***************************************************************************)
(* The rules of the snake draft, shared by the abstract draft (SnakeDraft) *)
(* and by the draft room (DraftRoom): who is on the clock, when the draft  *)
(* is complete, and which players a seat may still take.                   *)
(* Source: internal/league/store.go, roster.go and draftclock.go.          *)
(***************************************************************************)
EXTENDS Integers, Sequences, FiniteSets, FiniteSetsExt, Functions

CONSTANTS
  Teams,         (* the league's seats                                      *)
  DefaultOrder,  (* defaultTeamIDs(): the order used before any draw        *)
  Rounds,        (* CurrentDraftRounds(): roster spots, one per round       *)
  Players,       (* the player pool                                         *)
  Slots,         (* the required starting slots, lineupSlots(preset)        *)
  Fits           (* <<player, slot>> pairs: the slot takes his position     *)

(***************************************************************************)
(* An order lists every seat exactly once: validateDraftOrderForState.     *)
(***************************************************************************)
IsOrder(o) == /\ o \in [1..Cardinality(Teams) -> Teams]
              /\ \A i, j \in 1..Cardinality(Teams) : o[i] = o[j] => i = j

Orders == {o \in [1..Cardinality(Teams) -> Teams] : IsOrder(o)}

ASSUME DraftAssumption ==
  /\ IsFiniteSet(Teams)
  /\ Cardinality(Teams) \in Nat \ {0}
  /\ IsOrder(DefaultOrder)
  /\ Rounds \in Nat \ {0}
  /\ Fits \subseteq Players \X Slots

\* len(defaultTeams()) * CurrentDraftRounds()
Total == Cardinality(Teams) * Rounds

(***************************************************************************)
(* teamOnClock: odd rounds run down the order, even rounds run back up; an *)
(* undrawn order (the empty sequence) reads as the default one.            *)
(***************************************************************************)
TeamOnClock(order, number) ==
  LET ids   == IF order = << >> THEN DefaultOrder ELSE order
      n     == Cardinality(Teams)
      index == (number - 1) % n
      round == ((number - 1) \div n) + 1
  IN  IF round % 2 = 0 THEN ids[n - index] ELSE ids[index + 1]

DraftComplete(picks) == Len(picks) >= Total

Drafted(picks) == {picks[i].player : i \in DOMAIN picks}

-----------------------------------------------------------------------------
(***************************************************************************)
(* maximumDraftStarterFill: the most starting slots the players of a       *)
(* sequence can fill at once, one slot per player.  The code computes it   *)
(* with augmenting paths; here it is the definition of what is computed.   *)
(***************************************************************************)
CanFill(ps, S) ==
  \E f \in [S -> DOMAIN ps] :
     /\ \A s \in S : <<ps[f[s]], s>> \in Fits
     /\ IsInjective(f)

MaximumDraftStarterFill(ps) ==
  Max({Cardinality(S) : S \in {T \in SUBSET Slots : CanFill(ps, T)}})

\* teamDraftedPlayers: the players a seat has drafted, in pick order
TeamDraftedPlayers(picks, team) ==
  LET mine == SelectSeq(picks, LAMBDA pick : pick.team = team)
  IN  [i \in DOMAIN mine |-> mine[i].player]

(***************************************************************************)
(* draftCandidateKeepsRosterViable: after this pick at most as many        *)
(* required slots are unfilled as the seat has picks left.                 *)
(***************************************************************************)
KeepsRosterViable(picks, team, player) ==
  LET ps      == Append(TeamDraftedPlayers(picks, team), player)
      remains == Rounds - Len(ps)
  IN  /\ remains >= 0
      /\ Cardinality(Slots) - MaximumDraftStarterFill(ps) <= remains

(***************************************************************************)
(* autopickChoice: the passes over the seat's board, the house order and   *)
(* the two relief passes differ only in which candidate comes first; the   *)
(* last one drops every guard but viability.  So the choice is some        *)
(* undrafted viable player, and there is none exactly when this set is     *)
(* empty.                                                                  *)
(***************************************************************************)
AutopickChoices(picks, team) ==
  {p \in Players \ Drafted(picks) : KeepsRosterViable(picks, team, p)}

=============================================================================

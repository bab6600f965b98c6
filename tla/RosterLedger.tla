---------------------------- MODULE RosterLedger ----------------------------
(***************************************************************************)
(* Rosters as the replay of the transaction log, the two roster zones, and *)
(* the arithmetic every cap, limit and trade check shares.                 *)
(* Source: internal/league/roster.go, zones.go, trades.go, store.go.       *)
(* A roster is a set of players: nothing here depends on its order.  The   *)
(* log only grows by one entry at a time and its replay is a left fold, so *)
(* a state holds the replay's value and ApplyTransaction is the fold's     *)
(* step.  RosterZones is total, "general" standing for no assignment.      *)
(***************************************************************************)
EXTENDS Integers, FiniteSets

CONSTANTS
  Team, Player,
  Positions, PosOf,   (* Player.Position                                  *)
  RosterCap,          (* CurrentRoster().Total(), also the draft's rounds *)
  StarterCount,       (* CurrentRoster().Starters()                       *)
  IRSlots,            (* CurrentRoster().IR                               *)
  ReserveSlots,       (* CurrentRoster().Reserve, by position             *)
  Limits              (* CurrentRoster().Limits, 0 when unlimited         *)

ASSUME LedgerAssumption ==
  /\ IsFiniteSet(Team) /\ IsFiniteSet(Player)
  /\ PosOf \in [Player -> Positions]
  /\ RosterCap \in Nat \ {0} /\ StarterCount \in 0..RosterCap
  /\ IRSlots \in Nat
  /\ ReserveSlots \in [Positions -> Nat]
  /\ Limits \in [Positions -> Nat]

Zones == {"general", "reserve", "ir"}

Rosters == [Team -> SUBSET Player]
ZoneTags == [Team -> [Player -> Zones]]

-----------------------------------------------------------------------------
(* Replay *)

\* One entry of the log: the team loses Drops, then gains Adds
ApplyTransaction(rosters, team, adds, drops) ==
  [rosters EXCEPT ![team] = (@ \ drops) \cup adds]

\* Mutant: the counterparty keeps what it gave up
ApplyTradeOneSided(rosters, from, to, give, get) ==
  ApplyTransaction(ApplyTransaction(rosters, from, get, give), to, give, {})

\* A trade entry also replays the opposite side for OtherTeamID
ApplyTrade(rosters, from, to, give, get) ==
  ApplyTransaction(ApplyTransaction(rosters, from, get, give), to, give, get)

\* rosterOwner[p] # ""; rosterOwner[p] = t is p \in rosters[t], since no
\* reachable state has a player on two rosters
Rostered(rosters, p) == \E t \in Team : p \in rosters[t]

-----------------------------------------------------------------------------
(* Zones and sizes *)

\* Counted over the tags, whether or not the tagged player is still owned
IROccupants(zones, team) == {p \in Player : zones[team][p] = "ir"}

ReserveOccupants(zones, team, pos) ==
  {p \in Player : zones[team][p] = "reserve" /\ PosOf[p] = pos}

EffectiveRosterSize(rosters, zones, team) ==
  Cardinality(rosters[team]) - Cardinality(IROccupants(zones, team))

\* Mutant: an IR occupant named as the drop is credited a spot
CreditedDropCountAll(zones, team, drops) == Cardinality(drops)

\* A drop from IR frees no spot: IR is outside the cap already
CreditedDropCount(zones, team, drops) ==
  Cardinality({p \in drops : zones[team][p] # "ir"})

\* The size after gaining adds and losing drops is within the cap
FitsCap(rosters, zones, team, adds, drops) ==
  EffectiveRosterSize(rosters, zones, team) + Cardinality(adds)
    - CreditedDropCount(zones, team, drops) <= RosterCap

\* teamWouldBreachLimit: IR is exempt on the baseline and among the outgoing
WouldBreachLimit(rosters, zones, team, incoming, outgoing) ==
  LET at(S, pos) == Cardinality({p \in S : PosOf[p] = pos})
      counted(S) == {p \in S : zones[team][p] # "ir"}
  IN  \E pos \in Positions :
        /\ Limits[pos] > 0
        /\ at(counted(rosters[team]), pos) - at(counted(outgoing), pos) + at(incoming, pos)
             > Limits[pos]

ClearZones(zones, team, players) ==
  [zones EXCEPT ![team] = [p \in Player |-> IF p \in players THEN "general" ELSE @[p]]]

-----------------------------------------------------------------------------
(* validateTradeAssetsForOperation without its deadline *)

\* What checking one side's assets one by one can end in: each asset's owner
\* is checked before its lock, and the list's order decides between two faults
SideVerdicts(rosters, locked, team, assets) ==
  LET stray == assets \ rosters[team]
      stuck == (assets \cap rosters[team]) \cap locked
  IN  IF stray = {} /\ stuck = {} THEN {"ok"}
      ELSE (IF stray # {} THEN {"broken"} ELSE {}) \cup (IF stuck # {} THEN {"locked"} ELSE {})

\* The size a side ends with: an IR asset was outside its sender's size, and
\* the receiver counts it in full
SizeAfterTrade(rosters, zones, team, out, in) ==
  EffectiveRosterSize(rosters, zones, team) - CreditedDropCount(zones, team, out) + Cardinality(in)

\* Mutant: only the proposer's roster is measured
TradeFitsProposer(rosters, zones, from, to, give, get) ==
  SizeAfterTrade(rosters, zones, from, give, get) \in StarterCount..RosterCap

TradeFits(rosters, zones, from, to, give, get) ==
  /\ SizeAfterTrade(rosters, zones, from, give, get) \in StarterCount..RosterCap
  /\ SizeAfterTrade(rosters, zones, to, get, give) \in StarterCount..RosterCap
  /\ ~WouldBreachLimit(rosters, zones, from, get, give)
  /\ ~WouldBreachLimit(rosters, zones, to, give, get)

\* "ok", "locked" (temporary) or "broken" (every other refusal)
TradeVerdicts(rosters, zones, locked, from, to, give, get) ==
  LET gives == SideVerdicts(rosters, locked, from, give)
      gets  == SideVerdicts(rosters, locked, to, get)
  IN  IF gives # {"ok"} THEN gives
      ELSE IF gets # {"ok"} THEN gets
      ELSE IF TradeFits(rosters, zones, from, to, give, get) THEN {"ok"} ELSE {"broken"}

=============================================================================

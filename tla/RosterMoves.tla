----------------------------- MODULE RosterMoves -----------------------------
(***************************************************************************)
(* The rosters of a season under concurrent requests: free-agent adds and  *)
(* drops, the commissioner's corrections, the reserve and IR zones, the    *)
(* automatic cut of a healed IR player, and trade offers from proposal to  *)
(* execution.                                                              *)
(* Source: internal/league/players.go, zones.go, trades.go, rosterops.go,  *)
(* admin_roster_correction.go, store.go.                                   *)
(* A Store method runs under one lock and is one step.  A roster or zone   *)
(* request validates on a snapshot (Ask) and calls the Store later         *)
(* (Commit), which checks some of it again.  A lock is checked at the      *)
(* request's own captured instant both times, and a week only ever turns   *)
(* final, so the second check cannot refuse what the first allowed and the *)
(* lock is a guard of Ask.  A trade request's Store call repeats all of    *)
(* the Service's checks on the offer, so it is one step here.              *)
(* Every write persists; a player on a roster is always in the pool.       *)
(***************************************************************************)
EXTENDS RosterLedger

CONSTANTS
  Nobody,       (* the owner of a free agent                              *)
  Caller,       (* request handlers                                       *)
  Ops,          (* which requests the callers make                        *)
  Offer,        (* identities of trade offers                             *)
  MaxAssets,    (* bound: players on one side of an offer                 *)
  VetoMode,     (* trades.veto                                            *)
  GameDay,      (* players whose NFL team may kick off                    *)
  Injurable     (* players whose IR eligibility may change                *)

ASSUME MovesAssumption ==
  /\ Nobody \notin Team
  /\ Ops \subseteq {"add", "drop", "correction", "reserve", "ir",
                    "activateReserve", "activateIR"}
  /\ VetoMode \in {"none", "commissioner", "vote", "both"}
  /\ GameDay \subseteq Player /\ Injurable \subseteq Player
  /\ MaxAssets \in Nat

VARIABLES
  rosters,   (* currentRosters                                            *)
  zones,     (* RosterZones                                               *)
  cooling,   (* players whose last free-agency drop has not cleared       *)
  kicked,    (* players whose game kicked off in a week not yet closed    *)
  hurt,      (* players whose injury status qualifies for IR              *)
  pending,   (* each caller's request between its snapshot and its commit *)
  cut,       (* the healed IR player the roster tick is about to cut      *)
  offers,    (* TradeOffers                                               *)
  deadline,  (* the trade deadline has passed                             *)
  agreed     (* history: both parties' rosters when an offer was accepted *)

trade == <<offers, deadline, agreed>>
vars  == <<rosters, zones, cooling, kicked, hurt, pending, cut, offers, deadline, agreed>>

-----------------------------------------------------------------------------
(* Requests *)

NoCall == [op |-> "idle"]

Call == [op : Ops, team : Team, player : SUBSET Player, drop : SUBSET Player]

\* What is left to do of an acceptance when there is no veto policy
Execution == [op : {"execute"}, offer : Offer]

\* playerWaiverStatus of an unrostered player is ON WAIVERS: the drop's window
\* is open or the player's game has kicked off and the week has not cleared
OnWaivers(p) == p \in cooling \cup kicked

Locked(p) == p \in kicked

\* A named drop is the team's own and unlocked
DropAllowed(call) == \A p \in call.drop : p \in rosters[call.team] /\ ~Locked(p)

\* AddPlayer, DropPlayer and resolveRosterCorrection on the snapshot; a plain
\* drop leaves the size to the Store
MoveAsked(call) ==
  /\ \A p \in call.player : ~Rostered(rosters, p) /\ ~OnWaivers(p)
  /\ DropAllowed(call)
  /\ call.op # "drop" => FitsCap(rosters, zones, call.team, call.player, call.drop)
  /\ call.player # {} => ~WouldBreachLimit(rosters, zones, call.team, call.player, call.drop)
  /\ CASE call.op = "add"  -> call.player # {}
       [] call.op = "drop" -> call.player = {} /\ call.drop # {}
       [] OTHER            -> call.player \cup call.drop # {}

\* Mutant: one player too many
IRHasRoomOffByOne(team) == Cardinality(IROccupants(zones, team)) <= IRSlots

IRHasRoom(team) == Cardinality(IROccupants(zones, team)) < IRSlots

\* PlaceInReserve and PlaceInIR on the snapshot
PlaceAsked(call) ==
  /\ call.drop = {}
  /\ \E p \in Player :
       /\ call.player = {p}
       /\ p \in rosters[call.team]
       /\ zones[call.team][p] = "general"
       /\ ~Locked(p)
       /\ IF call.op = "ir"
          THEN /\ IRHasRoom(call.team)
               /\ p \in hurt
          ELSE Cardinality(ReserveOccupants(zones, call.team, PosOf[p])) < ReserveSlots[PosOf[p]]

\* ActivateFromReserve, with the lock the Store checks at the same instant
ActivateReserveAsked(call) ==
  /\ call.drop = {}
  /\ \E p \in Player :
       /\ call.player = {p}
       /\ zones[call.team][p] = "reserve"
       /\ ~Locked(p)

DropOutsideIR(call) == \A p \in call.drop : zones[call.team][p] # "ir"

\* ActivateFromIR on the snapshot, with the lock the Store checks
ActivateIRAsked(call) ==
  /\ \E p \in Player :
       /\ call.player = {p}
       /\ zones[call.team][p] = "ir"
       /\ ~Locked(p)
  /\ DropAllowed(call)
  /\ DropOutsideIR(call)
  /\ call.drop = {} => EffectiveRosterSize(rosters, zones, call.team) + 1 <= RosterCap
  /\ ~WouldBreachLimit(rosters, zones, call.team, call.player, call.drop)

Asked(call) ==
  CASE call.op \in {"add", "drop", "correction"} -> MoveAsked(call)
    [] call.op \in {"reserve", "ir"}             -> PlaceAsked(call)
    [] call.op = "activateReserve"               -> ActivateReserveAsked(call)
    [] call.op = "activateIR"                    -> ActivateIRAsked(call)

\* At most one player and one drop are named; a refused request does nothing
Ask(c, call) ==
  /\ pending[c] = NoCall
  /\ Asked(call)
  /\ pending' = [pending EXCEPT ![c] = call]
  /\ UNCHANGED <<rosters, zones, cooling, kicked, hurt, cut, trade>>

-----------------------------------------------------------------------------
(* Store calls of the requests *)

\* Mutant: nobody looks again whether the player is still free
RecordAllowedUnowned(call) ==
  /\ call.drop \subseteq rosters[call.team]
  /\ FitsCap(rosters, zones, call.team, call.player, call.drop)

\* Mutant: the size is not checked again under the lock
RecordAllowedUncapped(call) ==
  /\ \A p \in call.player : ~Rostered(rosters, p)
  /\ call.drop \subseteq rosters[call.team]

\* recordTransactionWithAuthority under the lock; the waiver hold and the
\* position limits are not looked at again
RecordAllowed(call) ==
  /\ \A p \in call.player : ~Rostered(rosters, p)
  /\ call.drop \subseteq rosters[call.team]
  /\ FitsCap(rosters, zones, call.team, call.player, call.drop)

\* Mutant: a dropped player keeps the tag
RecordedZonesKept(call) == ClearZones(zones, call.team, call.player)

RecordedZones(call) == ClearZones(zones, call.team, call.drop)

\* A correction's drop opens no waiver window
Record(call) ==
  /\ RecordAllowed(call)
  /\ rosters' = ApplyTransaction(rosters, call.team, call.player, call.drop)
  /\ zones' = RecordedZones(call)
  /\ cooling' = IF call.op = "correction" THEN cooling ELSE cooling \cup call.drop

\* placeInZoneWithAuthority: ownership and no tag, but not the zone's capacity
Place(call) ==
  /\ \A p \in call.player : p \in rosters[call.team] /\ zones[call.team][p] = "general"
  /\ zones' = [zones EXCEPT ![call.team] =
                 [p \in Player |-> IF p \in call.player THEN call.op ELSE @[p]]]
  /\ UNCHANGED <<rosters, cooling>>

\* clearZoneWithAuthority: the expected tag, but not the roster cap
Activate(call, zone) ==
  /\ \A p \in call.player : zones[call.team][p] = zone
  /\ zones' = ClearZones(zones, call.team, call.player)
  /\ UNCHANGED <<rosters, cooling>>

\* activateFromIRWithDropAuthority: the drop's own tag is neither checked
\* nor cleared
ActivateWithDrop(call) ==
  /\ \A p \in call.player : zones[call.team][p] = "ir"
  /\ call.drop \subseteq rosters[call.team]
  /\ zones' = ClearZones(zones, call.team, call.player)
  /\ rosters' = ApplyTransaction(rosters, call.team, {}, call.drop)
  /\ cooling' = cooling \cup call.drop

Apply(call) ==
  \/ call.op \in {"add", "drop", "correction"} /\ Record(call)
  \/ call.op \in {"reserve", "ir"} /\ Place(call)
  \/ call.op = "activateReserve" /\ Activate(call, "reserve")
  \/ call.op = "activateIR" /\ call.drop = {} /\ Activate(call, "ir")
  \/ call.op = "activateIR" /\ call.drop # {} /\ ActivateWithDrop(call)

Finish(c) == pending' = [pending EXCEPT ![c] = NoCall]

Commit(c) ==
  /\ pending[c] # NoCall /\ pending[c].op # "execute"
  /\ Apply(pending[c])
  /\ Finish(c)
  /\ UNCHANGED <<kicked, hurt, cut, trade>>

\* The Store's own checks fail, or the process stops first: nothing is written
Refuse(c) ==
  /\ pending[c] # NoCall
  /\ Finish(c)
  /\ UNCHANGED <<rosters, zones, cooling, kicked, hurt, cut, trade>>

-----------------------------------------------------------------------------
(* The roster tick: a healed IR player is cut at kickoff.  The tick takes a
   kickoff for due for four hours only; any moment of kicked stands for them. *)

TickSeesHealed(team, p) ==
  /\ cut = << >>
  /\ zones[team][p] = "ir"
  /\ p \notin hurt /\ p \in kicked
  /\ cut' = <<team, p>>
  /\ UNCHANGED <<rosters, zones, cooling, kicked, hurt, pending, trade>>

\* AutoCutHealedIR: the tag is checked again, so an activation wins the race
AutoCutHealedIR ==
  /\ cut # << >>
  /\ cut' = << >>
  /\ IF zones[cut[1]][cut[2]] = "ir"
     THEN /\ rosters' = ApplyTransaction(rosters, cut[1], {}, {cut[2]})
          /\ zones' = ClearZones(zones, cut[1], {cut[2]})
          /\ cooling' = cooling \cup {cut[2]}
     ELSE UNCHANGED <<rosters, zones, cooling>>
  /\ UNCHANGED <<kicked, hurt, pending, trade>>

-----------------------------------------------------------------------------
(* Trade offers *)

NoOffer == [status |-> "none"]

Statuses == {"open", "countered", "declined", "withdrawn", "expired",
             "accepted", "vetoed", "executed", "failed"}
Terminal == Statuses \ {"open", "accepted"}

MadeOffer == [status : Statuses, from : Team, to : Team, give : SUBSET Player,
              get : SUBSET Player, vetoes : SUBSET Team]

Side == {S \in SUBSET Player : S # {} /\ Cardinality(S) <= MaxAssets}

OpenOffer(from, to, give, get) ==
  [status |-> "open", from |-> from, to |-> to, give |-> give, get |-> get, vetoes |-> {}]

Verdicts(o) == TradeVerdicts(rosters, zones, kicked, o.from, o.to, o.give, o.get)

\* validateTradeAssets: the content rules and, for a mutation, the deadline
TradeAllowed(o) == Verdicts(o) = {"ok"} /\ ~deadline

Settle(o, status) == offers' = [offers EXCEPT ![o].status = status]

Propose(o, from, to, give, get) ==
  /\ from # to
  /\ offers[o] = NoOffer
  /\ TradeAllowed(OpenOffer(from, to, give, get))
  /\ offers' = [offers EXCEPT ![o] = OpenOffer(from, to, give, get)]
  /\ UNCHANGED <<rosters, zones, cooling, kicked, hurt, pending, cut, deadline, agreed>>

\* The receiving manager answers with an offer of the swapped sides
Counter(o, new, give, get) ==
  /\ offers[o].status = "open"
  /\ offers[new] = NoOffer
  /\ LET counter == OpenOffer(offers[o].to, offers[o].from, give, get)
     IN  /\ TradeAllowed(counter)
         /\ offers' = [offers EXCEPT ![o].status = "countered", ![new] = counter]
  /\ UNCHANGED <<rosters, zones, cooling, kicked, hurt, pending, cut, deadline, agreed>>

\* Declined by the receiver or withdrawn by the proposer
Close(o, status) ==
  /\ offers[o].status = "open"
  /\ Settle(o, status)
  /\ UNCHANGED <<rosters, zones, cooling, kicked, hurt, pending, cut, deadline, agreed>>

\* Store.ExpireTradeOffer: an open offer's age is not modelled, it may be due
\* at any time
TickExpire(o) == Close(o, "expired")

Parties(o) == <<rosters[o.from], rosters[o.to], zones[o.from], zones[o.to]>>

\* AcceptTrade; with no veto policy the same request goes on to execute
Accept(c, o) ==
  /\ pending[c] = NoCall
  /\ offers[o].status = "open"
  /\ TradeAllowed(offers[o])
  /\ Settle(o, "accepted")
  /\ agreed' = [agreed EXCEPT ![o] = Parties(offers[o])]
  /\ pending' = IF VetoMode = "none"
                THEN [pending EXCEPT ![c] = [op |-> "execute", offer |-> o]] ELSE pending
  /\ UNCHANGED <<rosters, zones, cooling, kicked, hurt, cut, deadline>>

\* Mutant: the status is not looked at again under the lock
ExecutableAnyStatus(o) == offers[o] # NoOffer

Executable(o) == offers[o].status = "accepted"

\* Mutant: the deadline applies to the execution of an accepted offer too
ExecutionVerdictsDeadline(o) == IF deadline THEN {"broken"} ELSE Verdicts(o)

\* validateTradeAssetsForExecution: no deadline
ExecutionVerdicts(o) == Verdicts(o)

\* Mutant: only the proposer's tags are cleared
TradedZonesOneSide(o) == ClearZones(zones, o.from, o.give)

\* A traded player's tag does not travel, on either side
TradedZones(o) == ClearZones(ClearZones(zones, o.from, o.give), o.to, o.get)

\* Store.ExecuteTradeOffer: moves both sides, fails the offer, or leaves it
\* accepted when an asset is locked
ExecuteTradeOffer(o) ==
  /\ Executable(o)
  /\ LET t == offers[o]
     IN  \/ /\ "ok" \in ExecutionVerdicts(t)
            /\ rosters' = ApplyTrade(rosters, t.from, t.to, t.give, t.get)
            /\ zones' = TradedZones(t)
            /\ Settle(o, "executed")
         \/ /\ "broken" \in ExecutionVerdicts(t)
            /\ Settle(o, "failed")
            /\ UNCHANGED <<rosters, zones>>
         \/ /\ "locked" \in ExecutionVerdicts(t)
            /\ UNCHANGED <<rosters, zones, offers>>
  /\ UNCHANGED <<cooling, kicked, hurt, cut, deadline, agreed>>

\* The accepting request's own execution
ExecuteAccepted(c) ==
  /\ pending[c].op = "execute"
  /\ ExecuteTradeOffer(pending[c].offer)
  /\ Finish(c)

ApproveTrade(o) ==
  /\ VetoMode \in {"commissioner", "both"}
  /\ ExecuteTradeOffer(o)
  /\ UNCHANGED pending

\* evalTradeTick once the review and the wait for the daily run are over
TickExecute(o) == ExecuteTradeOffer(o) /\ UNCHANGED pending

CommissionerVeto(o) ==
  /\ VetoMode \in {"commissioner", "both"}
  /\ offers[o].status = "accepted"
  /\ Settle(o, "vetoed")
  /\ UNCHANGED <<rosters, zones, cooling, kicked, hurt, pending, cut, deadline, agreed>>

TradeVetoThreshold == (Cardinality(Team) - 1) \div 2

\* Mutant: a vote counts whatever became of the trade
VotableAnyStatus(o, voter) == offers[o] # NoOffer /\ voter \notin {offers[o].from, offers[o].to}

\* Mutant: the traders may vote on their own trade
VotableByParty(o, voter) == offers[o].status = "accepted" /\ voter \in Team

Votable(o, voter) ==
  offers[o].status = "accepted" /\ voter \notin {offers[o].from, offers[o].to}

\* FileTradeVetoOffer: the vote that reaches the threshold vetoes the trade
VoteVeto(o, voter) ==
  /\ VetoMode \in {"vote", "both"}
  /\ Votable(o, voter)
  /\ voter \notin offers[o].vetoes
  /\ LET votes == offers[o].vetoes \cup {voter}
     IN  offers' = [offers EXCEPT ![o].vetoes = votes,
                      ![o].status = IF Cardinality(votes) >= TradeVetoThreshold
                                    THEN "vetoed" ELSE @]
  /\ UNCHANGED <<rosters, zones, cooling, kicked, hurt, pending, cut, deadline, agreed>>

-----------------------------------------------------------------------------
(* The outside world: schedule, injury reports, time *)

Kickoff(p) ==
  /\ p \notin kicked
  /\ kicked' = kicked \cup {p}
  /\ UNCHANGED <<rosters, zones, cooling, hurt, pending, cut, trade>>

\* The week turns final: locks and kickoff holds end
WeekCloses ==
  /\ kicked # {}
  /\ kicked' = {}
  /\ UNCHANGED <<rosters, zones, cooling, hurt, pending, cut, trade>>

WindowClears(p) ==
  /\ cooling' = cooling \ {p}
  /\ UNCHANGED <<rosters, zones, kicked, hurt, pending, cut, trade>>

InjuryReport(p) ==
  /\ hurt' = IF p \in hurt THEN hurt \ {p} ELSE hurt \cup {p}
  /\ UNCHANGED <<rosters, zones, cooling, kicked, pending, cut, trade>>

DeadlinePasses ==
  /\ ~deadline
  /\ deadline' = TRUE
  /\ UNCHANGED <<rosters, zones, cooling, kicked, hurt, pending, cut, offers, agreed>>

-----------------------------------------------------------------------------

\* The draft just completed: every team holds a full roster of its own
Init ==
  /\ rosters \in [Team -> {S \in SUBSET Player : Cardinality(S) = RosterCap}]
  /\ \A t, u \in Team : t # u => rosters[t] \cap rosters[u] = {}
  /\ zones = [t \in Team |-> [p \in Player |-> "general"]]
  /\ cooling = {} /\ kicked = {} /\ hurt = {}
  /\ pending = [c \in Caller |-> NoCall]
  /\ cut = << >>
  /\ offers = [o \in Offer |-> NoOffer]
  /\ deadline = FALSE
  /\ agreed = [o \in Offer |-> << >>]

AtMostOne == {{}} \cup {{p} : p \in Player}

Request(c, ops) ==
  \/ \E op \in ops, t \in Team, player, drop \in AtMostOne :
       Ask(c, [op |-> op, team |-> t, player |-> player, drop |-> drop])
  \/ Commit(c)
  \/ Refuse(c)

Requests == \E c \in Caller : Request(c, Ops)

Healing == AutoCutHealedIR \/ \E t \in Team, p \in Player : TickSeesHealed(t, p)

Trading ==
  \/ \E o \in Offer, from, to \in Team, give, get \in Side : Propose(o, from, to, give, get)
  \/ \E o, new \in Offer, give, get \in Side : Counter(o, new, give, get)
  \/ \E o \in Offer, status \in {"declined", "withdrawn"} : Close(o, status)
  \/ \E c \in Caller, o \in Offer : Accept(c, o)
  \/ \E c \in Caller : ExecuteAccepted(c)
  \/ \E o \in Offer : \/ ApproveTrade(o) \/ CommissionerVeto(o)
                        \/ TickExecute(o) \/ TickExpire(o)
  \/ \E o \in Offer, voter \in Team : VoteVeto(o, voter)

World ==
  \/ \E p \in GameDay : Kickoff(p)
  \/ WeekCloses
  \/ \E p \in cooling : WindowClears(p)
  \/ \E p \in Injurable : InjuryReport(p)
  \/ Offer # {} /\ DeadlinePasses

Next == Requests \/ Healing \/ Trading \/ World

Spec == Init /\ [][Next]_vars

-----------------------------------------------------------------------------
(* Properties *)

\* The state has its type: rosters, tags, requests and offers are what the
\* persisted state and the handlers can hold.
TypeOK ==
  /\ rosters \in Rosters
  /\ zones \in ZoneTags
  /\ cooling \subseteq Player /\ kicked \subseteq Player /\ hurt \subseteq Player
  /\ pending \in [Caller -> {NoCall} \cup Call \cup Execution]
  /\ cut = << >> \/ cut \in Team \X Player
  /\ offers \in [Offer -> {NoOffer} \cup MadeOffer]
  /\ \A o \in Offer : offers[o] # NoOffer =>
       offers[o].vetoes \cap {offers[o].from, offers[o].to} = {}
  /\ deadline \in BOOLEAN

\* No interleaving of adds, drops, corrections, cuts and trades puts a player
\* on two rosters: every Store call repeats the ownership checks of the
\* snapshot its request was validated on.
OneOwner ==
  \A t, u \in Team : t # u => rosters[t] \cap rosters[u] = {}

GeneralRoster(t) == {p \in rosters[t] : zones[t][p] # "ir"}

\* A team's players outside IR never exceed the roster size, whatever adds,
\* drops and trades were validated on the same snapshot.
WithinCap == \A t \in Team : Cardinality(GeneralRoster(t)) <= RosterCap

\* PlaceInIR refuses a full zone ("the IR zone is full"): no team has more
\* players on IR than the league has IR slots.
IRWithinSlots ==
  \A t \in Team : Cardinality(rosters[t] \cap IROccupants(zones, t)) <= IRSlots

\* clearZoneAssignmentsLocked: a dropped or traded player never leaves a zone
\* tag behind on the team that lost the player.
NoOrphanZone ==
  \A t \in Team, p \in Player : zones[t][p] # "general" => p \in rosters[t]

\* The IR part of it: a tag without a player would take a player off the
\* count every cap check uses.
NoOrphanIR ==
  \A t \in Team : IROccupants(zones, t) \subseteq rosters[t]

Becomes(o, status) == offers[o].status # status /\ offers'[o].status = status

\* A player goes straight from one team to another only in the step that
\* executes an accepted offer naming the player, and that step moves all of
\* both sides.
PlayersMoveOnlyByAgreement ==
  [][\A t, u \in Team : \A p \in rosters[t] \cap rosters'[u] : t = u \/
       \E o \in Offer :
         /\ offers[o].status = "accepted" /\ Becomes(o, "executed")
         /\ {t, u} = {offers[o].from, offers[o].to}
         /\ p \in (IF t = offers[o].from THEN offers[o].give ELSE offers[o].get)
         /\ offers[o].give \subseteq rosters'[offers[o].to]
         /\ offers[o].get \subseteq rosters'[offers[o].from]]_vars

\* A settled offer stays as it was settled: whichever of execution, veto,
\* vote, expiry and counter commits first wins, and the others change nothing.
SettledOffersStay ==
  [][\A o \in Offer : offers[o].status \in Terminal => offers'[o] = offers[o]]_vars

\* An agreed trade is not lost to locks, the deadline or the wait for the
\* daily run: it fails only if a party's roster or zones are not what they
\* were when the offer was accepted.
AgreedTradeNotLost ==
  [][\A o \in Offer : Becomes(o, "failed") => agreed[o] # Parties(offers[o])]_vars

\* A trade moves what was agreed, all of it, and nothing but the parties' own
\* changes undoes the agreement.
TradesAreKept == PlayersMoveOnlyByAgreement /\ AgreedTradeNotLost

\* The owner of a player, Nobody for a free agent
OwnerIn(r, p) == IF Rostered(r, p) THEN CHOOSE t \in Team : p \in r[t] ELSE Nobody

Book == INSTANCE RosterBook WITH owner <- [p \in Player |-> OwnerIn(rosters, p)]

\* The rosters behave as one assignment of players to owners: signed when
\* free, released by their owner, exchanged in two-sided trades.
ImplementsRosterBook == Book!Spec

\* A roster never exceeds what the league allows: the cap without the players
\* on IR, the IR slots, and no tag that would take a player off the count
\* (CreditedDropCount, clearZoneAssignmentsLocked).
RostersFit == WithinCap /\ IRWithinSlots /\ NoOrphanIR
=============================================================================

-------------------------- MODULE RosterMovesProofs --------------------------
(***************************************************************************)
(* What holds of the rosters for every league, pool, roster shape, veto    *)
(* policy and number of concurrent requests: type correctness, one owner   *)
(* per player, the finality of settled trade offers, that the rosters      *)
(* implement the abstract roster book, and that agreed trades are kept.    *)
(***************************************************************************)
EXTENDS RosterMoves, FiniteSetTheorems, TLAPS

\* Every offer is an exchange between two different teams.
OffersTwoSided ==
  \A o \in Offer : offers[o] # NoOffer =>
    offers[o].from # offers[o].to /\ offers[o].give # {} /\ offers[o].get # {}

\* The inductive invariant: an execution is two-sided because its offer is.
IInv == TypeOK /\ OneOwner /\ OffersTwoSided

Disjoint(r) == \A t, u \in Team : t # u => r[t] \cap r[u] = {}

-----------------------------------------------------------------------------
(* The ledger *)

\* A transaction maps rosters to rosters.
LEMMA TransactionType ==
  ASSUME NEW r \in Rosters, NEW t \in Team,
         NEW adds \in SUBSET Player, NEW drops
  PROVE  ApplyTransaction(r, t, adds, drops) \in Rosters
BY DEF Rosters, ApplyTransaction

\* Signing free agents keeps the rosters disjoint.
LEMMA TransactionDisjoint ==
  ASSUME NEW r \in Rosters, Disjoint(r), NEW t \in Team,
         NEW adds \in SUBSET Player, NEW drops,
         \A p \in adds : ~Rostered(r, p)
  PROVE  Disjoint(ApplyTransaction(r, t, adds, drops))
<1> DEFINE s == ApplyTransaction(r, t, adds, drops)
<1>1. \A u \in Team : s[u] = IF u = t THEN (r[t] \ drops) \cup adds ELSE r[u]
  BY DEF ApplyTransaction, Rosters
<1>2. \A u \in Team : adds \cap r[u] = {}
  BY DEF Rostered
<1>3. ASSUME NEW u \in Team, NEW v \in Team, u # v
      PROVE  s[u] \cap s[v] = {}
  <2> HIDE DEF s
  <2>1. r[u] \cap r[v] = {}
    BY <1>3 DEF Disjoint
  <2> QED
    BY <1>1, <1>2, <1>3, <2>1
<1> QED
  BY <1>3 DEF Disjoint

\* A trade maps rosters to rosters and swaps exactly the two sides.
LEMMA TradeEffect ==
  ASSUME NEW r \in Rosters, NEW from \in Team, NEW to \in Team, from # to,
         NEW give \in SUBSET Player, NEW get \in SUBSET Player
  PROVE  /\ ApplyTrade(r, from, to, give, get) \in Rosters
         /\ ApplyTrade(r, from, to, give, get) =
              [u \in Team |-> IF u = from THEN (r[from] \ give) \cup get
                              ELSE IF u = to THEN (r[to] \ get) \cup give ELSE r[u]]
<1> DEFINE half == ApplyTransaction(r, from, get, give)
<1>1. half \in Rosters
  BY TransactionType
<1>2. half = [u \in Team |-> IF u = from THEN (r[from] \ give) \cup get ELSE r[u]]
  BY DEF ApplyTransaction, Rosters
<1>3. ApplyTrade(r, from, to, give, get) = ApplyTransaction(half, to, give, get)
  BY DEF ApplyTrade
<1> HIDE DEF half
<1>4. ApplyTransaction(half, to, give, get) \in Rosters
  BY <1>1, TransactionType
<1>5. ApplyTransaction(half, to, give, get) =
        [u \in Team |-> IF u = to THEN (half[to] \ get) \cup give ELSE half[u]]
  BY <1>1 DEF ApplyTransaction, Rosters
<1> QED
  BY <1>2, <1>3, <1>4, <1>5

\* A trade of owned players keeps the rosters disjoint.
LEMMA TradeDisjoint ==
  ASSUME NEW r \in Rosters, Disjoint(r), NEW from \in Team, NEW to \in Team, from # to,
         NEW give \in SUBSET r[from], NEW get \in SUBSET r[to]
  PROVE  Disjoint(ApplyTrade(r, from, to, give, get))
<1> DEFINE s == ApplyTrade(r, from, to, give, get)
<1>1. give \in SUBSET Player /\ get \in SUBSET Player
  BY DEF Rosters
<1>2. s = [u \in Team |-> IF u = from THEN (r[from] \ give) \cup get
                          ELSE IF u = to THEN (r[to] \ get) \cup give ELSE r[u]]
  BY <1>1, TradeEffect
<1>3. \A u \in Team : /\ u # from => r[u] \cap r[from] = {}
                      /\ u # to => r[u] \cap r[to] = {}
  BY DEF Disjoint
<1>4. ASSUME NEW u \in Team, NEW v \in Team, u # v
      PROVE  s[u] \cap s[v] = {}
  <2> HIDE DEF s
  <2>1. r[u] \cap r[v] = {}
    BY <1>4 DEF Disjoint
  <2>2. /\ s[u] = IF u = from THEN (r[from] \ give) \cup get
                  ELSE IF u = to THEN (r[to] \ get) \cup give ELSE r[u]
        /\ s[v] = IF v = from THEN (r[from] \ give) \cup get
                  ELSE IF v = to THEN (r[to] \ get) \cup give ELSE r[v]
    BY <1>2
  <2> QED
    BY <1>3, <1>4, <2>1, <2>2
<1> QED
  BY <1>4 DEF Disjoint

\* A trade that passes validation moves only players its sides own.
LEMMA ExecutedTradeIsOwned ==
  ASSUME NEW r, NEW z, NEW locked, NEW from, NEW to, NEW give, NEW get,
         "ok" \in TradeVerdicts(r, z, locked, from, to, give, get)
  PROVE  give \subseteq r[from] /\ get \subseteq r[to]
<1> DEFINE gives == SideVerdicts(r, locked, from, give)
           gets  == SideVerdicts(r, locked, to, get)
<1>1. ASSUME NEW t, NEW assets, "ok" \in SideVerdicts(r, locked, t, assets)
      PROVE  assets \subseteq r[t]
  BY <1>1 DEF SideVerdicts
<1>2. "ok" \in gives /\ "ok" \in gets
  <2>1. \A t, assets : "ok" \in SideVerdicts(r, locked, t, assets) \/
                       SideVerdicts(r, locked, t, assets) # {"ok"}
    OBVIOUS
  <2> HIDE DEF gives, gets
  <2>2. CASE gives # {"ok"}
    BY <2>2 DEF TradeVerdicts, gives, SideVerdicts
  <2>3. CASE gives = {"ok"} /\ gets # {"ok"}
    BY <2>3 DEF TradeVerdicts, gives, gets
  <2>4. CASE gives = {"ok"} /\ gets = {"ok"}
    BY <2>4
  <2> QED
    BY <2>2, <2>3, <2>4
<1> QED
  BY <1>1, <1>2

\* A trade that passes validation leaves both sides within their sizes and limits.
LEMMA ExecutedTradeFits ==
  ASSUME NEW r, NEW z, NEW locked, NEW from, NEW to, NEW give, NEW get,
         "ok" \in TradeVerdicts(r, z, locked, from, to, give, get)
  PROVE  TradeFits(r, z, from, to, give, get)
<1> DEFINE gives == SideVerdicts(r, locked, from, give)
           gets  == SideVerdicts(r, locked, to, get)
<1>1. ASSUME NEW t, NEW assets, "ok" \in SideVerdicts(r, locked, t, assets)
      PROVE  SideVerdicts(r, locked, t, assets) = {"ok"}
  BY <1>1 DEF SideVerdicts
<1>2. CASE gives # {"ok"}
  BY <1>1, <1>2 DEF TradeVerdicts
<1>3. CASE gives = {"ok"} /\ gets # {"ok"}
  BY <1>1, <1>3 DEF TradeVerdicts
<1>4. CASE gives = {"ok"} /\ gets = {"ok"}
  <2> HIDE DEF gives, gets
  <2>1. "ok" \in (IF TradeFits(r, z, from, to, give, get) THEN {"ok"} ELSE {"broken"})
    BY <1>4 DEF TradeVerdicts, gives, gets
  <2> QED
    BY <2>1
<1> QED
  BY <1>2, <1>3, <1>4

\* What a trade leaves a team with.
Traded(r, from, to, give, get, u) ==
  IF u = from THEN (r[from] \ give) \cup get
  ELSE IF u = to THEN (r[to] \ get) \cup give ELSE r[u]

\* A trade, team by team.
LEMMA TradeTeams ==
  ASSUME NEW r \in Rosters, NEW from \in Team, NEW to \in Team, from # to, NEW give, NEW get, NEW u \in Team
  PROVE  ApplyTrade(r, from, to, give, get)[u] = Traded(r, from, to, give, get, u)
<1> DEFINE half == ApplyTransaction(r, from, get, give)
<1>1. half \in [Team -> SUBSET (Player \cup get)]
  BY DEF ApplyTransaction, Rosters
<1>2. \A v \in Team : half[v] = IF v = from THEN (r[from] \ give) \cup get ELSE r[v]
  BY DEF ApplyTransaction, Rosters
<1>3. ApplyTrade(r, from, to, give, get) = ApplyTransaction(half, to, give, get)
  BY DEF ApplyTrade
<1> HIDE DEF half
<1>4. ApplyTransaction(half, to, give, get)[u] = IF u = to THEN (half[to] \ get) \cup give ELSE half[u]
  BY <1>1 DEF ApplyTransaction
<1> QED
  BY <1>2, <1>3, <1>4 DEF Traded

\* Clearing tags keeps them tags.
LEMMA ClearZonesType ==
  ASSUME NEW z \in ZoneTags, NEW t \in Team, NEW S
  PROVE  ClearZones(z, t, S) \in ZoneTags
BY DEF ZoneTags, Zones, ClearZones

-----------------------------------------------------------------------------
(* Offers *)

OffersOK ==
  /\ offers \in [Offer -> {NoOffer} \cup MadeOffer]
  /\ \A o \in Offer : offers[o] # NoOffer =>
       offers[o].vetoes \cap {offers[o].from, offers[o].to} = {}
  /\ OffersTwoSided

\* An offer with a live status has been made, and NoOffer has none of them.
LEMMA MadeOfferShape ==
  ASSUME OffersOK, NEW o \in Offer
  PROVE  /\ offers[o].status \in Statuses <=> offers[o] # NoOffer
         /\ offers[o] # NoOffer => offers[o] \in MadeOffer
<1>1. offers[o] \in {NoOffer} \cup MadeOffer
  BY DEF OffersOK
<1>2. NoOffer.status = "none" /\ "none" \notin Statuses
  BY DEF NoOffer, Statuses
<1>3. \A x \in MadeOffer : x.status \in Statuses
  BY DEF MadeOffer
<1> QED
  BY <1>1, <1>2, <1>3

\* Settling a made offer keeps its sides.
LEMMA SettleOK ==
  ASSUME OffersOK, NEW o \in Offer, offers[o] # NoOffer,
         NEW status \in Statuses, Settle(o, status)
  PROVE  OffersOK'
<1>1. offers[o] \in MadeOffer
  BY MadeOfferShape
<1> DEFINE settled == [offers[o] EXCEPT !.status = status]
<1>2. settled \in MadeOffer
  BY <1>1 DEF MadeOffer
<1>3. /\ settled.from = offers[o].from /\ settled.to = offers[o].to
      /\ settled.give = offers[o].give /\ settled.get = offers[o].get
      /\ settled.vetoes = offers[o].vetoes
  BY <1>1 DEF MadeOffer
<1>4. offers' = [offers EXCEPT ![o] = settled]
  BY DEF Settle
<1> HIDE DEF settled
<1>5. \A q \in Offer : offers'[q] = IF q = o THEN settled ELSE offers[q]
  BY <1>4 DEF OffersOK
<1>6. offers' \in [Offer -> {NoOffer} \cup MadeOffer]
  BY <1>2, <1>4 DEF OffersOK
<1> QED
  BY <1>3, <1>5, <1>6 DEF OffersOK, OffersTwoSided

\* A proposal adds one well-formed offer.
LEMMA ProposeOK ==
  ASSUME OffersOK, NEW o \in Offer, NEW from \in Team, NEW to \in Team,
         NEW give \in Side, NEW get \in Side, Propose(o, from, to, give, get)
  PROVE  OffersOK'
<1> DEFINE x == OpenOffer(from, to, give, get)
<1>1. x \in MadeOffer /\ x.from # x.to /\ x.give # {} /\ x.get # {} /\ x.vetoes = {}
  BY DEF Propose, OpenOffer, MadeOffer, Statuses, Side
<1>2. offers' = [offers EXCEPT ![o] = x]
  BY DEF Propose
<1> HIDE DEF x
<1>3. offers' \in [Offer -> {NoOffer} \cup MadeOffer]
  BY <1>1, <1>2 DEF OffersOK
<1>4. \A q \in Offer : offers'[q] = IF q = o THEN x ELSE offers[q]
  BY <1>2 DEF OffersOK
<1> QED
  BY <1>1, <1>3, <1>4 DEF OffersOK, OffersTwoSided

\* A counter settles the offer it answers and adds the swapped one.
LEMMA CounterOK ==
  ASSUME OffersOK, NEW o \in Offer, NEW new \in Offer,
         NEW give \in Side, NEW get \in Side, Counter(o, new, give, get)
  PROVE  OffersOK'
<1> DEFINE x == OpenOffer(offers[o].to, offers[o].from, give, get)
           settled == [offers[o] EXCEPT !.status = "countered"]
<1>1. offers[o] # NoOffer /\ offers[o] \in MadeOffer /\ new # o
  BY MadeOfferShape DEF Counter, Statuses, NoOffer
<1>2. offers[o].from # offers[o].to
  BY <1>1 DEF OffersOK, OffersTwoSided
<1>3. x \in MadeOffer /\ x.from # x.to /\ x.give # {} /\ x.get # {} /\ x.vetoes = {}
  BY <1>1, <1>2 DEF OpenOffer, MadeOffer, Statuses, Side
<1>4. settled \in MadeOffer
  BY <1>1 DEF MadeOffer, Statuses
<1>5. /\ settled.from = offers[o].from /\ settled.to = offers[o].to
      /\ settled.give = offers[o].give /\ settled.get = offers[o].get
      /\ settled.vetoes = offers[o].vetoes
  BY <1>1 DEF MadeOffer
<1>6. offers' = [offers EXCEPT ![o].status = "countered", ![new] = x]
  BY DEF Counter
<1>7. \A q \in Offer : offers'[q] = IF q = new THEN x ELSE IF q = o THEN settled ELSE offers[q]
  BY <1>6 DEF OffersOK
<1>8. offers' \in [Offer -> {NoOffer} \cup MadeOffer]
  <2>1. DOMAIN offers' = Offer /\ offers' = [q \in Offer |-> offers'[q]]
    BY <1>6 DEF OffersOK
  <2> QED
    BY <2>1, <1>3, <1>4, <1>7 DEF OffersOK
<1> HIDE DEF x, settled
<1> QED
  BY <1>1, <1>3, <1>5, <1>7, <1>8 DEF OffersOK, OffersTwoSided

\* A vote is cast by a third team.
LEMMA VoteOK ==
  ASSUME OffersOK, NEW o \in Offer, NEW voter \in Team, VoteVeto(o, voter)
  PROVE  OffersOK'
<1> DEFINE votes == offers[o].vetoes \cup {voter}
           next == IF Cardinality(votes) >= TradeVetoThreshold THEN "vetoed"
                   ELSE offers[o].status
           voted == [offers[o] EXCEPT !.vetoes = votes, !.status = next]
<1>1. offers[o] # NoOffer /\ offers[o] \in MadeOffer
  BY MadeOfferShape DEF VoteVeto, Votable, Statuses
<1>2. next \in Statuses
  BY <1>1 DEF MadeOffer, Statuses
<1>3. offers' = [offers EXCEPT ![o] = voted]
  <2>1. offers' = [offers EXCEPT ![o].vetoes = votes, ![o].status = next]
    BY <1>1 DEF VoteVeto, MadeOffer
  <2> HIDE DEF votes, next
  <2> QED
    BY <2>1 DEF OffersOK
<1> HIDE DEF next
<1>4. voted \in MadeOffer
  BY <1>1, <1>2 DEF MadeOffer
<1>5. /\ voted.from = offers[o].from /\ voted.to = offers[o].to
      /\ voted.give = offers[o].give /\ voted.get = offers[o].get
      /\ voted.vetoes = offers[o].vetoes \cup {voter}
  BY <1>1 DEF MadeOffer
<1>6. voter \notin {offers[o].from, offers[o].to}
  BY DEF VoteVeto, Votable
<1> HIDE DEF voted
<1>7. \A q \in Offer : offers'[q] = IF q = o THEN voted ELSE offers[q]
  BY <1>3 DEF OffersOK
<1>8. offers' \in [Offer -> {NoOffer} \cup MadeOffer]
  BY <1>3, <1>4 DEF OffersOK
<1>9. voted.vetoes \cap {voted.from, voted.to} = {}
  BY <1>1, <1>5, <1>6 DEF OffersOK
<1> QED
  BY <1>1, <1>5, <1>7, <1>8, <1>9 DEF OffersOK, OffersTwoSided

-----------------------------------------------------------------------------
(* Rosters and zones *)

RostersOK == rosters \in Rosters /\ zones \in ZoneTags /\ OneOwner

\* A recorded move signs free agents only.
LEMMA RecordOK ==
  ASSUME RostersOK, NEW call \in Call, Record(call)
  PROVE  RostersOK' /\ (cooling \subseteq Player => cooling' \subseteq Player)
<1>1. /\ call.team \in Team /\ call.player \in SUBSET Player /\ call.drop \in SUBSET Player
  BY DEF Call
<1>2. \A p \in call.player : ~Rostered(rosters, p)
  BY DEF Record, RecordAllowed
<1>3. rosters' = ApplyTransaction(rosters, call.team, call.player, call.drop)
  BY DEF Record
<1>4. rosters' \in Rosters
  BY <1>1, <1>3, TransactionType DEF RostersOK
<1>5. Disjoint(rosters)
  BY DEF RostersOK, OneOwner, Disjoint
<1>6. Disjoint(ApplyTransaction(rosters, call.team, call.player, call.drop))
  BY <1>1, <1>2, <1>5, TransactionDisjoint DEF RostersOK
<1>7. OneOwner'
  BY <1>3, <1>6 DEF OneOwner, Disjoint
<1>8. zones' \in ZoneTags
  BY <1>1, ClearZonesType DEF Record, RecordedZones, RostersOK
<1>9. cooling' \subseteq cooling \cup call.drop
  BY DEF Record
<1> QED
  BY <1>1, <1>4, <1>7, <1>8, <1>9 DEF RostersOK

\* Losing players, whatever becomes of the tags, keeps the rosters apart.
LEMMA ReleaseOK ==
  ASSUME RostersOK, NEW t \in Team, NEW drops,
         rosters' = ApplyTransaction(rosters, t, {}, drops), zones' \in ZoneTags
  PROVE  RostersOK'
<1>1. rosters' \in Rosters
  BY TransactionType DEF RostersOK
<1>2. Disjoint(ApplyTransaction(rosters, t, {}, drops))
  BY TransactionDisjoint DEF RostersOK, OneOwner, Disjoint
<1> QED
  BY <1>1, <1>2 DEF RostersOK, OneOwner, Disjoint

\* Whatever a committed request does, the rosters stay rosters.
LEMMA ApplyOK ==
  ASSUME RostersOK, cooling \subseteq Player, NEW call \in Call, Apply(call)
  PROVE  RostersOK' /\ cooling' \subseteq Player
<1>1. /\ call.team \in Team /\ call.player \in SUBSET Player /\ call.drop \in SUBSET Player
  BY DEF Call
<1>2. CASE Record(call)
  BY <1>2, RecordOK
<1>3. CASE call.op \in {"reserve", "ir"} /\ Place(call)
  <2>1. zones' \in ZoneTags
    BY <1>1, <1>3 DEF Place, ZoneTags, Zones, RostersOK
  <2> QED
    BY <1>3, <2>1 DEF Place, RostersOK, OneOwner
<1>4. ASSUME NEW zone, Activate(call, zone)
      PROVE  RostersOK' /\ cooling' \subseteq Player
  <2>1. zones' \in ZoneTags
    BY <1>1, <1>4, ClearZonesType DEF Activate, RostersOK
  <2> QED
    BY <1>4, <2>1 DEF Activate, RostersOK, OneOwner
<1>5. CASE ActivateWithDrop(call)
  <2>1. zones' \in ZoneTags
    BY <1>1, <1>5, ClearZonesType DEF ActivateWithDrop, RostersOK
  <2>2. RostersOK'
    BY <1>1, <1>5, <2>1, ReleaseOK DEF ActivateWithDrop
  <2> QED
    BY <1>1, <1>5, <2>2 DEF ActivateWithDrop
<1> QED
  BY <1>2, <1>3, <1>4, <1>5 DEF Apply

\* An execution swaps owned players, fails, or changes nothing.
LEMMA ExecuteOK ==
  ASSUME RostersOK, OffersOK, NEW o \in Offer, ExecuteTradeOffer(o)
  PROVE  RostersOK' /\ OffersOK'
<1> DEFINE t == offers[o]
<1>1. t # NoOffer /\ t \in MadeOffer
  BY MadeOfferShape DEF ExecuteTradeOffer, Executable, Statuses
<1>2. /\ t.from \in Team /\ t.to \in Team
      /\ t.give \in SUBSET Player /\ t.get \in SUBSET Player
  BY <1>1 DEF MadeOffer
<1>3. t.from # t.to
  BY <1>1 DEF OffersOK, OffersTwoSided
<1>4. CASE /\ "ok" \in ExecutionVerdicts(t)
           /\ rosters' = ApplyTrade(rosters, t.from, t.to, t.give, t.get)
           /\ zones' = TradedZones(t)
           /\ Settle(o, "executed")
  <2>1. t.give \subseteq rosters[t.from] /\ t.get \subseteq rosters[t.to]
    BY <1>4, ExecutedTradeIsOwned DEF ExecutionVerdicts, Verdicts
  <2>2. rosters' \in Rosters
    BY <1>2, <1>3, <1>4, TradeEffect DEF RostersOK
  <2>3. Disjoint(ApplyTrade(rosters, t.from, t.to, t.give, t.get))
    <3>1. Disjoint(rosters)
      BY DEF RostersOK, OneOwner, Disjoint
    <3> QED
      BY <1>2, <1>3, <2>1, <3>1, TradeDisjoint DEF RostersOK
  <2>4. zones' \in ZoneTags
    BY <1>2, <1>4, ClearZonesType DEF TradedZones, RostersOK
  <2>5. OffersOK'
    BY <1>1, <1>4, SettleOK DEF Statuses
  <2> QED
    BY <1>4, <2>2, <2>3, <2>4, <2>5 DEF RostersOK, OneOwner, Disjoint
<1>5. CASE Settle(o, "failed") /\ UNCHANGED <<rosters, zones>>
  <2>1. OffersOK'
    BY <1>1, <1>5, SettleOK DEF Statuses
  <2> QED
    BY <1>5, <2>1 DEF RostersOK, OneOwner
<1>6. CASE UNCHANGED <<rosters, zones, offers>>
  BY <1>6 DEF RostersOK, OneOwner, OffersOK, OffersTwoSided
<1> QED
  BY <1>4, <1>5, <1>6 DEF ExecuteTradeOffer

\* The tick cuts a player its team may have lost, and never adds one.
LEMMA AutoCutOK ==
  ASSUME RostersOK, cooling \subseteq Player, cut = << >> \/ cut \in Team \X Player,
         AutoCutHealedIR
  PROVE  RostersOK' /\ cooling' \subseteq Player
<1>1. cut[1] \in Team /\ cut[2] \in Player
  BY DEF AutoCutHealedIR
<1>2. CASE zones[cut[1]][cut[2]] = "ir"
  <2>1. /\ rosters' = ApplyTransaction(rosters, cut[1], {}, {cut[2]})
        /\ zones' = ClearZones(zones, cut[1], {cut[2]})
        /\ cooling' = cooling \cup {cut[2]}
    BY <1>2 DEF AutoCutHealedIR
  <2>2. zones' \in ZoneTags
    BY <1>1, <2>1, ClearZonesType DEF RostersOK
  <2> QED
    BY <1>1, <2>1, <2>2, ReleaseOK
<1>3. CASE zones[cut[1]][cut[2]] # "ir"
  BY <1>3 DEF AutoCutHealedIR, RostersOK, OneOwner
<1> QED
  BY <1>2, <1>3

-----------------------------------------------------------------------------
(* The invariant *)

WorldOK ==
  /\ cooling \subseteq Player /\ kicked \subseteq Player /\ hurt \subseteq Player
  /\ pending \in [Caller -> {NoCall} \cup Call \cup Execution]
  /\ cut = << >> \/ cut \in Team \X Player
  /\ deadline \in BOOLEAN

\* The invariant in the three parts the steps disturb.
LEMMA InvParts == IInv <=> RostersOK /\ OffersOK /\ WorldOK
BY DEF IInv, TypeOK, RostersOK, OffersOK, WorldOK

\* The season starts with full, disjoint rosters and nothing in flight.
LEMMA InitIInv == Init => IInv
<1> SUFFICES ASSUME Init PROVE RostersOK /\ OffersOK /\ WorldOK
  BY InvParts
<1>1. RostersOK
  BY DEF Init, RostersOK, Rosters, ZoneTags, Zones, OneOwner
<1>2. OffersOK
  BY DEF Init, OffersOK, OffersTwoSided
<1>3. WorldOK
  BY DEF Init, WorldOK
<1> QED
  BY <1>1, <1>2, <1>3

\* Requests: what is asked is well formed, what is committed keeps the rosters.
LEMMA RequestsIInv ==
  ASSUME RostersOK, OffersOK, WorldOK, Requests
  PROVE  RostersOK' /\ OffersOK' /\ WorldOK'
<1> PICK c \in Caller :
      \/ \E op \in Ops, t \in Team, player, drop \in AtMostOne :
           Ask(c, [op |-> op, team |-> t, player |-> player, drop |-> drop])
      \/ Commit(c)
      \/ Refuse(c)
  BY DEF Requests, Request
<1>1. ASSUME NEW op \in Ops, NEW t \in Team, NEW player \in AtMostOne, NEW drop \in AtMostOne,
             Ask(c, [op |-> op, team |-> t, player |-> player, drop |-> drop])
      PROVE  RostersOK' /\ OffersOK' /\ WorldOK'
  <2> DEFINE call == [op |-> op, team |-> t, player |-> player, drop |-> drop]
  <2>1. call \in Call
    BY DEF Call, AtMostOne
  <2>2. /\ pending' = [pending EXCEPT ![c] = call]
        /\ UNCHANGED <<rosters, zones, cooling, kicked, hurt, cut, offers, deadline>>
    BY <1>1 DEF Ask, trade
  <2> HIDE DEF call
  <2>3. WorldOK'
    BY <2>1, <2>2 DEF WorldOK
  <2> QED
    BY <2>2, <2>3 DEF RostersOK, OneOwner, OffersOK, OffersTwoSided
<1>2. CASE Commit(c)
  <2>1. pending[c] \in Call
    BY <1>2 DEF Commit, WorldOK, Execution
  <2>2. /\ Apply(pending[c])
        /\ pending' = [pending EXCEPT ![c] = NoCall]
        /\ UNCHANGED <<kicked, hurt, cut, offers, deadline>>
    BY <1>2 DEF Commit, Finish, trade
  <2>3. RostersOK' /\ cooling' \subseteq Player
    BY <2>1, <2>2, ApplyOK DEF WorldOK
  <2>4. WorldOK'
    BY <2>2, <2>3 DEF WorldOK
  <2> QED
    BY <2>2, <2>3, <2>4 DEF OffersOK, OffersTwoSided
<1>3. CASE Refuse(c)
  <2>1. /\ pending' = [pending EXCEPT ![c] = NoCall]
        /\ UNCHANGED <<rosters, zones, cooling, kicked, hurt, cut, offers, deadline>>
    BY <1>3 DEF Refuse, Finish, trade
  <2> QED
    BY <2>1 DEF RostersOK, OneOwner, OffersOK, OffersTwoSided, WorldOK
<1> QED
  BY <1>1, <1>2, <1>3

\* The healed-IR cut only takes a player away.
LEMMA HealingIInv ==
  ASSUME RostersOK, OffersOK, WorldOK, Healing
  PROVE  RostersOK' /\ OffersOK' /\ WorldOK'
<1>1. CASE AutoCutHealedIR
  <2>1. /\ cut' = << >>
        /\ UNCHANGED <<kicked, hurt, pending, offers, deadline>>
    BY <1>1 DEF AutoCutHealedIR, trade
  <2>2. RostersOK' /\ cooling' \subseteq Player
    BY <1>1, AutoCutOK DEF WorldOK
  <2> QED
    BY <2>1, <2>2 DEF OffersOK, OffersTwoSided, WorldOK
<1>2. ASSUME NEW t \in Team, NEW p \in Player, TickSeesHealed(t, p)
      PROVE  RostersOK' /\ OffersOK' /\ WorldOK'
  BY <1>2 DEF TickSeesHealed, trade, RostersOK, OneOwner, OffersOK, OffersTwoSided, WorldOK
<1> QED
  BY <1>1, <1>2 DEF Healing

\* What the schedule, the injury reports and time do is outside the rosters.
LEMMA WorldIInv ==
  ASSUME RostersOK, OffersOK, WorldOK, World
  PROVE  RostersOK' /\ OffersOK' /\ WorldOK'
<1>1. UNCHANGED <<rosters, zones, pending, cut, offers>>
  BY DEF World, Kickoff, WeekCloses, WindowClears, InjuryReport, DeadlinePasses, trade
<1>2. cooling' \subseteq Player /\ kicked' \subseteq Player /\ hurt' \subseteq Player
  BY MovesAssumption
     DEF World, Kickoff, WeekCloses, WindowClears, InjuryReport, DeadlinePasses, WorldOK
<1>3. deadline' \in BOOLEAN
  BY DEF World, Kickoff, WeekCloses, WindowClears, InjuryReport, DeadlinePasses, trade, WorldOK
<1> QED
  BY <1>1, <1>2, <1>3 DEF RostersOK, OneOwner, OffersOK, OffersTwoSided, WorldOK

\* A trade step settles, adds or executes one well-formed offer.
LEMMA TradingIInv ==
  ASSUME RostersOK, OffersOK, WorldOK, Trading
  PROVE  RostersOK' /\ OffersOK' /\ WorldOK'
<1> DEFINE Calm == UNCHANGED <<rosters, zones, cooling, kicked, hurt, pending, cut, deadline>>
<1>1. ASSUME Calm, OffersOK'
      PROVE  RostersOK' /\ OffersOK' /\ WorldOK'
  BY <1>1 DEF RostersOK, OneOwner, WorldOK
<1>2. ASSUME NEW o \in Offer, NEW from \in Team, NEW to \in Team,
             NEW give \in Side, NEW get \in Side, Propose(o, from, to, give, get)
      PROVE  RostersOK' /\ OffersOK' /\ WorldOK'
  <2>1. Calm
    BY <1>2 DEF Propose
  <2> QED
    BY <1>1, <1>2, <2>1, ProposeOK
<1>3. ASSUME NEW o \in Offer, NEW new \in Offer, NEW give \in Side, NEW get \in Side,
             Counter(o, new, give, get)
      PROVE  RostersOK' /\ OffersOK' /\ WorldOK'
  <2>1. Calm
    BY <1>3 DEF Counter
  <2> QED
    BY <1>1, <1>3, <2>1, CounterOK
<1>4. ASSUME NEW o \in Offer, NEW status \in Statuses, Close(o, status)
      PROVE  RostersOK' /\ OffersOK' /\ WorldOK'
  <2>1. Calm /\ Settle(o, status) /\ offers[o] # NoOffer
    BY <1>4, MadeOfferShape DEF Close, Statuses
  <2> QED
    BY <1>1, <2>1, SettleOK
<1>5. ASSUME NEW c \in Caller, NEW o \in Offer, Accept(c, o)
      PROVE  RostersOK' /\ OffersOK' /\ WorldOK'
  <2>1. /\ Settle(o, "accepted") /\ offers[o] # NoOffer
        /\ UNCHANGED <<rosters, zones, cooling, kicked, hurt, cut, deadline>>
    BY <1>5, MadeOfferShape DEF Accept, Statuses
  <2>2. OffersOK'
    BY <2>1, SettleOK DEF Statuses
  <2>3. [op |-> "execute", offer |-> o] \in Execution
    BY DEF Execution
  <2>4. pending' \in [Caller -> {NoCall} \cup Call \cup Execution]
    BY <1>5, <2>3 DEF Accept, WorldOK
  <2> QED
    BY <2>1, <2>2, <2>4 DEF RostersOK, OneOwner, WorldOK
<1>6. ASSUME NEW o \in Offer, ExecuteTradeOffer(o), UNCHANGED pending
      PROVE  RostersOK' /\ OffersOK' /\ WorldOK'
  <2>1. UNCHANGED <<cooling, kicked, hurt, cut, deadline>>
    BY <1>6 DEF ExecuteTradeOffer
  <2> QED
    BY <1>6, <2>1, ExecuteOK DEF WorldOK
<1>7. ASSUME NEW c \in Caller, ExecuteAccepted(c)
      PROVE  RostersOK' /\ OffersOK' /\ WorldOK'
  <2>1. pending[c] \in Execution
    BY <1>7, MovesAssumption DEF ExecuteAccepted, WorldOK, NoCall, Call
  <2>2. pending[c].offer \in Offer /\ ExecuteTradeOffer(pending[c].offer)
    BY <1>7, <2>1 DEF ExecuteAccepted, Execution
  <2>3. pending' = [pending EXCEPT ![c] = NoCall]
    BY <1>7 DEF ExecuteAccepted, Finish
  <2>4. UNCHANGED <<cooling, kicked, hurt, cut, deadline>>
    BY <2>2 DEF ExecuteTradeOffer
  <2>5. RostersOK' /\ OffersOK'
    BY <2>2, ExecuteOK
  <2> QED
    BY <2>3, <2>4, <2>5 DEF WorldOK
<1>8. ASSUME NEW o \in Offer, CommissionerVeto(o)
      PROVE  RostersOK' /\ OffersOK' /\ WorldOK'
  <2>1. Calm /\ Settle(o, "vetoed") /\ offers[o] # NoOffer
    BY <1>8, MadeOfferShape DEF CommissionerVeto, Statuses
  <2> QED
    BY <1>1, <2>1, SettleOK DEF Statuses
<1>9. ASSUME NEW o \in Offer, NEW voter \in Team, VoteVeto(o, voter)
      PROVE  RostersOK' /\ OffersOK' /\ WorldOK'
  <2>1. Calm
    BY <1>9 DEF VoteVeto
  <2> QED
    BY <1>1, <1>9, <2>1, VoteOK
<1> HIDE DEF Calm
<1> QED
  BY <1>2, <1>3, <1>4, <1>5, <1>6, <1>7, <1>8, <1>9
     DEF Trading, ApproveTrade, TickExecute, TickExpire, Statuses

\* Every step keeps the invariant.
LEMMA NextIInv == IInv /\ [Next]_vars => IInv'
<1> SUFFICES ASSUME RostersOK, OffersOK, WorldOK, [Next]_vars
             PROVE  RostersOK' /\ OffersOK' /\ WorldOK'
  BY InvParts DEF IInv, TypeOK, RostersOK, OffersOK, WorldOK, OneOwner, OffersTwoSided
<1>1. CASE UNCHANGED vars
  BY <1>1 DEF vars, RostersOK, OneOwner, OffersOK, OffersTwoSided, WorldOK
<1> QED
  BY <1>1, RequestsIInv, HealingIInv, TradingIInv, WorldIInv DEF Next

\* The invariant holds in every state of the season.
LEMMA AlwaysIInv == Spec => []IInv
BY InitIInv, NextIInv, PTL DEF Spec

\* Type correctness of the rosters, the zones, the requests and the offers.
THEOREM MovesTypeCorrect == Spec => []TypeOK
<1>1. IInv => TypeOK
  BY DEF IInv
<1> QED
  BY <1>1, AlwaysIInv, PTL

\* No player is on two rosters, however requests, cuts and trades interleave:
\* every Store call repeats the ownership checks under its lock.
THEOREM EveryPlayerHasOneOwner == Spec => []OneOwner
<1>1. IInv => OneOwner
  BY DEF IInv
<1> QED
  BY <1>1, AlwaysIInv, PTL

-----------------------------------------------------------------------------
(* Settled offers *)

\* No step touches an offer whose status is terminal.
LEMMA SettledStep ==
  ASSUME OffersOK, WorldOK, [Next]_vars, NEW o \in Offer, offers[o].status \in Terminal
  PROVE  offers'[o] = offers[o]
<1>1. offers[o].status \notin {"open", "accepted"} /\ offers[o] # NoOffer
  BY MadeOfferShape DEF Terminal, Statuses
<1>2. ASSUME NEW q \in Offer, NEW status, offers[q].status \in {"open", "accepted"},
             Settle(q, status)
      PROVE  offers'[o] = offers[o]
  BY <1>1, <1>2 DEF Settle, OffersOK
<1>3. CASE Trading
  <2>1. ASSUME NEW q \in Offer, NEW from \in Team, NEW to \in Team,
               NEW give \in Side, NEW get \in Side, Propose(q, from, to, give, get)
        PROVE  offers'[o] = offers[o]
    BY <1>1, <2>1 DEF Propose, OffersOK
  <2>2. ASSUME NEW q \in Offer, NEW new \in Offer, NEW give \in Side, NEW get \in Side,
               Counter(q, new, give, get)
        PROVE  offers'[o] = offers[o]
    BY <1>1, <2>2 DEF Counter, OffersOK
  <2>3. ASSUME NEW q \in Offer, NEW status, Close(q, status)
        PROVE  offers'[o] = offers[o]
    BY <1>2, <2>3 DEF Close
  <2>4. ASSUME NEW c \in Caller, NEW q \in Offer, Accept(c, q)
        PROVE  offers'[o] = offers[o]
    BY <1>2, <2>4 DEF Accept
  <2>5. ASSUME NEW q \in Offer, ExecuteTradeOffer(q)
        PROVE  offers'[o] = offers[o]
    BY <1>2, <2>5 DEF ExecuteTradeOffer, Executable
  <2>6. ASSUME NEW c \in Caller, ExecuteAccepted(c)
        PROVE  offers'[o] = offers[o]
    <3>1. pending[c] \in Execution
      BY <2>6, MovesAssumption DEF ExecuteAccepted, WorldOK, NoCall, Call
    <3> QED
      BY <2>5, <2>6, <3>1 DEF ExecuteAccepted, Execution
  <2>7. ASSUME NEW q \in Offer, CommissionerVeto(q)
        PROVE  offers'[o] = offers[o]
    BY <1>2, <2>7 DEF CommissionerVeto
  <2>8. ASSUME NEW q \in Offer, NEW voter \in Team, VoteVeto(q, voter)
        PROVE  offers'[o] = offers[o]
    <3>1. q # o
      BY <1>1, <2>8 DEF VoteVeto, Votable
    <3> QED
      BY <2>8, <3>1 DEF VoteVeto, OffersOK
  <2> QED
    BY <1>3, <2>1, <2>2, <2>3, <2>4, <2>5, <2>6, <2>7, <2>8
       DEF Trading, ApproveTrade, TickExecute, TickExpire
<1>4. CASE Requests \/ Healing \/ World \/ UNCHANGED vars
  <2>1. UNCHANGED offers
    BY <1>4 DEF Requests, Request, Ask, Commit, Refuse, Healing, AutoCutHealedIR, TickSeesHealed,
                World, Kickoff, WeekCloses, WindowClears, InjuryReport, DeadlinePasses,
                trade, vars
  <2> QED
    BY <2>1
<1> QED
  BY <1>3, <1>4 DEF Next

\* A settled offer stays settled: of an execution, a veto, a vote, an expiry
\* and a counter that race, the first to commit is the only one to count.
THEOREM SettlementIsFinal == Spec => SettledOffersStay
<1>1. IInv /\ [Next]_vars =>
        [\A o \in Offer : offers[o].status \in Terminal => offers'[o] = offers[o]]_vars
  BY InvParts, SettledStep
<1> QED
  BY <1>1, AlwaysIInv, PTL DEF Spec, SettledOffersStay

-----------------------------------------------------------------------------
(* The roster book *)

\* Under one owner, OwnerIn is the team that holds the player.
LEMMA OwnerIs ==
  ASSUME NEW r \in Rosters, Disjoint(r), NEW p \in Player
  PROVE  /\ \A t \in Team : OwnerIn(r, p) = t <=> p \in r[t]
         /\ OwnerIn(r, p) = Nobody <=> ~Rostered(r, p)
         /\ OwnerIn(r, p) \in Team \cup {Nobody}
<1>1. CASE Rostered(r, p)
  <2>1. OwnerIn(r, p) = CHOOSE t \in Team : p \in r[t]
    BY <1>1 DEF OwnerIn
  <2>2. OwnerIn(r, p) \in Team /\ p \in r[OwnerIn(r, p)]
    BY <1>1, <2>1 DEF Rostered
  <2> QED
    BY <1>1, <2>2, MovesAssumption DEF Disjoint
<1>2. CASE ~Rostered(r, p)
  BY <1>2, MovesAssumption DEF OwnerIn, Rostered
<1> QED
  BY <1>1, <1>2

\* Two rosters with equal teams have equal owners.
LEMMA OwnerFollows ==
  ASSUME NEW r \in Rosters, NEW s \in Rosters, Disjoint(r), Disjoint(s), NEW p \in Player,
         \A t \in Team : p \in r[t] <=> p \in s[t]
  PROVE  OwnerIn(r, p) = OwnerIn(s, p)
BY OwnerIs DEF Rostered

\* Rosters that change by one team's transaction change the book by one.
LEMMA TransactStep ==
  ASSUME RostersOK, RostersOK', NEW team \in Team, NEW signed \in SUBSET Player, NEW released,
         \A p \in signed : ~Rostered(rosters, p),
         rosters' = ApplyTransaction(rosters, team, signed, released)
  PROVE  Book!Transact
<1> DEFINE dropped == released \cap rosters[team]
           owner(r) == [p \in Player |-> OwnerIn(r, p)]
<1>1. rosters \in Rosters /\ Disjoint(rosters) /\ rosters' \in Rosters /\ Disjoint(rosters')
  BY DEF RostersOK, OneOwner, Disjoint
<1>2. \A t \in Team : rosters'[t] = IF t = team THEN (rosters[team] \ released) \cup signed
                                    ELSE rosters[t]
  BY <1>1 DEF ApplyTransaction, Rosters
<1>3. ASSUME NEW p \in Player
      PROVE  OwnerIn(rosters', p) = IF p \in signed THEN team
                                    ELSE IF p \in dropped THEN Nobody
                                    ELSE OwnerIn(rosters, p)
  <2>1. CASE p \in signed
    BY <1>1, <1>2, <2>1, OwnerIs
  <2>2. CASE p \notin signed /\ p \in dropped
    <3>1. \A t \in Team : p \notin rosters'[t]
      BY <1>1, <1>2, <2>2 DEF Disjoint
    <3>2. ~Rostered(rosters', p)
      BY <3>1 DEF Rostered
    <3> QED
      BY <1>1, <2>2, <3>2, OwnerIs
  <2>3. CASE p \notin signed /\ p \notin dropped
    <3>1. \A t \in Team : p \in rosters[t] <=> p \in rosters'[t]
      BY <1>2, <2>3
    <3> QED
      BY <1>1, <2>3, <3>1, OwnerFollows
  <2> QED
    BY <2>1, <2>2, <2>3
<1>4. signed \in SUBSET {p \in Player : owner(rosters)[p] = Nobody}
  BY <1>1, OwnerIs
<1>5. dropped \in SUBSET {p \in Player : owner(rosters)[p] = team}
  BY <1>1, OwnerIs DEF Rosters
<1>6. owner(rosters') = [p \in Player |-> IF p \in signed THEN team
                                          ELSE IF p \in dropped THEN Nobody
                                          ELSE owner(rosters)[p]]
  BY <1>3
<1> HIDE DEF dropped
<1> QED
  BY <1>4, <1>5, <1>6, ZenonT(60) DEF Book!Transact, Book!Free, Book!Owned

\* An executed trade of owned players is a trade of the book.
LEMMA TradeStep ==
  ASSUME RostersOK, RostersOK', NEW from \in Team, NEW to \in Team, from # to,
         NEW give \in SUBSET rosters[from], NEW get \in SUBSET rosters[to],
         give # {}, get # {},
         rosters' = ApplyTrade(rosters, from, to, give, get)
  PROVE  Book!Trade
<1> DEFINE owner(r) == [p \in Player |-> OwnerIn(r, p)]
<1>1. rosters \in Rosters /\ Disjoint(rosters) /\ rosters' \in Rosters /\ Disjoint(rosters')
  BY DEF RostersOK, OneOwner, Disjoint
<1>2. give \in SUBSET Player /\ get \in SUBSET Player /\ give \cap get = {}
  BY <1>1 DEF Rosters, Disjoint
<1>3. rosters' = [t \in Team |-> IF t = from THEN (rosters[from] \ give) \cup get
                                 ELSE IF t = to THEN (rosters[to] \ get) \cup give
                                 ELSE rosters[t]]
  <2>1. rosters \in Rosters /\ give \in SUBSET Player /\ get \in SUBSET Player
    BY <1>1, <1>2
  <2>2. ApplyTrade(rosters, from, to, give, get) =
          [u \in Team |-> IF u = from THEN (rosters[from] \ give) \cup get
                          ELSE IF u = to THEN (rosters[to] \ get) \cup give ELSE rosters[u]]
    <3> DEFINE r == rosters
    <3>1. r \in Rosters /\ from \in Team /\ to \in Team /\ from # to
      BY <2>1
    <3> HIDE DEF r
    <3>2. ApplyTrade(r, from, to, give, get) =
            [u \in Team |-> IF u = from THEN (r[from] \ give) \cup get
                            ELSE IF u = to THEN (r[to] \ get) \cup give ELSE r[u]]
      BY <2>1, <3>1, TradeEffect, SMTT(60)
    <3> QED
      BY <3>2 DEF r
  <2> QED
    BY <2>2
<1>4. ASSUME NEW p \in Player
      PROVE  OwnerIn(rosters', p) = IF p \in give THEN to
                                    ELSE IF p \in get THEN from
                                    ELSE OwnerIn(rosters, p)
  <2>1. CASE p \in give
    <3>1. p \in rosters'[to]
      BY <1>3, <2>1
    <3> QED
      BY <1>1, <2>1, <3>1, OwnerIs
  <2>2. CASE p \notin give /\ p \in get
    <3>1. p \in rosters'[from]
      BY <1>3, <2>2
    <3> QED
      BY <1>1, <2>2, <3>1, OwnerIs
  <2>3. CASE p \notin give /\ p \notin get
    <3>1. \A t \in Team : p \in rosters[t] <=> p \in rosters'[t]
      BY <1>3, <2>3
    <3> QED
      BY <1>1, <2>3, <3>1, OwnerFollows
  <2> QED
    BY <2>1, <2>2, <2>3
<1>5. give \in SUBSET Book!Owned(from) /\ get \in SUBSET Book!Owned(to)
  BY <1>1, <1>2, OwnerIs DEF Book!Owned
<1>6. owner(rosters') = [p \in Player |-> IF p \in give THEN to
                                          ELSE IF p \in get THEN from
                                          ELSE owner(rosters)[p]]
  BY <1>4
<1>7. \E out \in SUBSET Book!Owned(from), in \in SUBSET Book!Owned(to) :
        /\ from # to /\ out # {} /\ in # {}
        /\ owner(rosters') = [p \in Player |-> IF p \in out THEN to
                                               ELSE IF p \in in THEN from ELSE owner(rosters)[p]]
  BY <1>5, <1>6
<1> QED
  BY <1>7 DEF Book!Trade

\* The season starts as a book starts: every player has one owner or none.
LEMMA BookInit == ASSUME IInv PROVE Book!Init
<1>1. rosters \in Rosters /\ Disjoint(rosters)
  BY DEF IInv, TypeOK, OneOwner, Disjoint
<1>2. \A p \in Player : OwnerIn(rosters, p) \in Team \cup {Nobody}
  BY <1>1, OwnerIs
<1> QED
  BY <1>2 DEF Book!Init

BookStep == Book!Next \/ UNCHANGED [p \in Player |-> OwnerIn(rosters, p)]

\* Rosters that stand still leave the book alone.
LEMMA StillStep ==
  ASSUME UNCHANGED rosters
  PROVE  BookStep
BY DEF BookStep

\* What a committed request does to the rosters is one transaction.
LEMMA ApplyStep ==
  ASSUME RostersOK, RostersOK', NEW call \in Call, Apply(call)
  PROVE  BookStep
<1>1. /\ call.team \in Team /\ call.player \in SUBSET Player
  BY DEF Call
<1>2. CASE Record(call)
  <2>1. Book!Transact
    BY <1>1, <1>2, TransactStep DEF Record, RecordAllowed
  <2> QED
    BY <2>1 DEF BookStep, Book!Next
<1>3. CASE ActivateWithDrop(call)
  <2>1. Book!Transact
    BY <1>1, <1>3, TransactStep DEF ActivateWithDrop
  <2> QED
    BY <2>1 DEF BookStep, Book!Next
<1>4. CASE Place(call) \/ \E zone \in {"reserve", "ir"} : Activate(call, zone)
  BY <1>4, StillStep DEF Place, Activate
<1> QED
  BY <1>2, <1>3, <1>4 DEF Apply

\* An execution is a trade of the book, or leaves it alone.
LEMMA ExecuteStep ==
  ASSUME RostersOK, RostersOK', OffersOK, NEW o \in Offer, ExecuteTradeOffer(o)
  PROVE  BookStep
<1> DEFINE t == offers[o]
<1>1. t # NoOffer /\ t \in MadeOffer
  BY MadeOfferShape DEF ExecuteTradeOffer, Executable, Statuses
<1>2. /\ t.from \in Team /\ t.to \in Team
      /\ t.from # t.to /\ t.give # {} /\ t.get # {}
  BY <1>1 DEF MadeOffer, OffersOK, OffersTwoSided
<1>3. CASE "ok" \in ExecutionVerdicts(t)
           /\ rosters' = ApplyTrade(rosters, t.from, t.to, t.give, t.get)
  <2>1. t.give \subseteq rosters[t.from] /\ t.get \subseteq rosters[t.to]
    BY <1>3, ExecutedTradeIsOwned DEF ExecutionVerdicts, Verdicts
  <2>2. Book!Trade
    <3> HIDE DEF t
    <3> QED
      BY <1>2, <1>3, <2>1, TradeStep
  <2> QED
    BY <2>2 DEF BookStep, Book!Next
<1>4. CASE UNCHANGED rosters
  BY <1>4, StillStep
<1> QED
  BY <1>3, <1>4 DEF ExecuteTradeOffer

\* Every step of the rosters is a step of the book or a stutter.
LEMMA NextStep ==
  ASSUME RostersOK, OffersOK, WorldOK, RostersOK', [Next]_vars
  PROVE  BookStep
<1>1. CASE Requests
  <2>1. ASSUME NEW c \in Caller, Commit(c)
        PROVE  BookStep
    <3>1. pending[c] \in Call
      BY <2>1 DEF Commit, WorldOK, Execution
    <3> QED
      BY <2>1, <3>1, ApplyStep DEF Commit
  <2>2. CASE UNCHANGED rosters
    BY <2>2, StillStep
  <2> QED
    BY <1>1, <2>1, <2>2 DEF Requests, Request, Ask, Refuse
<1>2. CASE Healing
  <2>1. CASE AutoCutHealedIR
    <3>1. cut[1] \in Team
      BY <2>1 DEF AutoCutHealedIR, WorldOK
    <3>2. CASE rosters' = ApplyTransaction(rosters, cut[1], {}, {cut[2]})
      <4>1. Book!Transact
        BY <3>1, <3>2, TransactStep
      <4> QED
        BY <4>1 DEF BookStep, Book!Next
    <3>3. CASE UNCHANGED rosters
      BY <3>3, StillStep
    <3> QED
      BY <2>1, <3>2, <3>3 DEF AutoCutHealedIR
  <2>2. CASE UNCHANGED rosters
    BY <2>2, StillStep
  <2> QED
    BY <1>2, <2>1, <2>2 DEF Healing, TickSeesHealed
<1>3. CASE Trading
  <2>1. ASSUME NEW o \in Offer, ExecuteTradeOffer(o)
        PROVE  BookStep
    BY <2>1, ExecuteStep
  <2>2. ASSUME NEW c \in Caller, ExecuteAccepted(c)
        PROVE  BookStep
    <3>1. pending[c] \in Execution
      BY <2>2, MovesAssumption DEF ExecuteAccepted, WorldOK, NoCall, Call
    <3> QED
      BY <2>1, <2>2, <3>1 DEF ExecuteAccepted, Execution
  <2>3. CASE UNCHANGED rosters
    BY <2>3, StillStep
  <2> QED
    BY <1>3, <2>1, <2>2, <2>3
       DEF Trading, Propose, Counter, Close, Accept, ApproveTrade, CommissionerVeto,
           TickExecute, TickExpire, VoteVeto
<1>4. CASE World \/ UNCHANGED vars
  <2>1. UNCHANGED rosters
    BY <1>4 DEF World, Kickoff, WeekCloses, WindowClears, InjuryReport, DeadlinePasses, vars
  <2> QED
    BY <2>1, StillStep
<1> QED
  BY <1>1, <1>2, <1>3, <1>4 DEF Next

\* The rosters implement the roster book: a player is signed only when free,
\* released only by the owner, and changes teams only in a two-sided trade.
THEOREM MovesImplementBook == Spec => ImplementsRosterBook
<1>1. Init => Book!Init
  BY InitIInv, BookInit
<1>2. IInv /\ IInv' /\ [Next]_vars => [Book!Next]_([p \in Player |-> OwnerIn(rosters, p)])
  <2> SUFFICES ASSUME IInv, IInv', [Next]_vars
               PROVE  BookStep
    BY DEF BookStep
  <2>1. RostersOK /\ OffersOK /\ WorldOK
    BY InvParts
  <2>2. RostersOK'
    BY DEF IInv, TypeOK, RostersOK
  <2> QED
    BY <2>1, <2>2, NextStep
<1> QED
  BY <1>1, <1>2, AlwaysIInv, PTL DEF Spec, ImplementsRosterBook, Book!Spec

-----------------------------------------------------------------------------
(* Agreed trades *)

\* No player goes from one team to another in a transaction: it signs free
\* agents only.
LEMMA NobodyMoves ==
  ASSUME NEW r \in Rosters, Disjoint(r), NEW team \in Team, NEW signed \in SUBSET Player, NEW released,
         \A p \in signed : ~Rostered(r, p), NEW t \in Team, NEW u \in Team,
         NEW p \in r[t], p \in ApplyTransaction(r, team, signed, released)[u]
  PROVE  t = u
<1>1. ApplyTransaction(r, team, signed, released)[u] = IF u = team THEN (r[team] \ released) \cup signed ELSE r[u]
  BY DEF ApplyTransaction, Rosters
<1>2. p \notin signed
  BY DEF Rostered, Rosters
<1>3. p \in r[u]
  BY <1>1, <1>2
<1> QED
  BY <1>3 DEF Disjoint

\* A player whose team changed was moved by an agreed trade.
AgreedMove(t, u, p) ==
  \E o \in Offer :
    /\ offers[o].status = "accepted" /\ Becomes(o, "executed")
    /\ {t, u} = {offers[o].from, offers[o].to}
    /\ p \in (IF t = offers[o].from THEN offers[o].give ELSE offers[o].get)
    /\ offers[o].give \subseteq rosters'[offers[o].to]
    /\ offers[o].get \subseteq rosters'[offers[o].from]

\* A committed request takes nobody from one team to another.
LEMMA ApplyMoves ==
  ASSUME RostersOK, NEW call \in Call, Apply(call), NEW t \in Team, NEW u \in Team,
         NEW p \in rosters[t], p \in rosters'[u]
  PROVE  t = u
<1>1. /\ call.team \in Team /\ call.player \in SUBSET Player
      /\ rosters \in Rosters /\ Disjoint(rosters)
  BY DEF Call, RostersOK, OneOwner, Disjoint
<1>2. CASE Record(call)
  <2>1. rosters' = ApplyTransaction(rosters, call.team, call.player, call.drop)
        /\ \A q \in call.player : ~Rostered(rosters, q)
    BY <1>2 DEF Record, RecordAllowed
  <2> QED
    BY <1>1, <2>1, NobodyMoves
<1>3. CASE ActivateWithDrop(call)
  <2>1. rosters' = ApplyTransaction(rosters, call.team, {}, call.drop)
    BY <1>3 DEF ActivateWithDrop
  <2> QED
    BY <1>1, <2>1, NobodyMoves
<1>4. CASE UNCHANGED rosters
  BY <1>1, <1>4 DEF Disjoint
<1> QED
  BY <1>2, <1>3, <1>4 DEF Apply, Place, Activate

\* An execution that takes a player from one team to another is the agreed one.
LEMMA ExecuteMoves ==
  ASSUME RostersOK, OffersOK, NEW o \in Offer, ExecuteTradeOffer(o), NEW t \in Team, NEW v \in Team, t # v,
         NEW p \in rosters[t], p \in rosters'[v]
  PROVE  AgreedMove(t, v, p)
<1>1. offers[o] # NoOffer /\ offers[o] \in MadeOffer /\ offers[o].status = "accepted"
  BY MadeOfferShape DEF ExecuteTradeOffer, Executable, Statuses
<1>2. PICK from, to, give, get :
        /\ from = offers[o].from /\ to = offers[o].to /\ give = offers[o].give /\ get = offers[o].get
        /\ from \in Team /\ to \in Team /\ from # to /\ give \in SUBSET Player /\ get \in SUBSET Player
  BY <1>1 DEF MadeOffer, OffersOK, OffersTwoSided
<1>3. rosters \in Rosters /\ Disjoint(rosters)
  BY DEF RostersOK, OneOwner, Disjoint
<1>4. CASE UNCHANGED rosters
  BY <1>3, <1>4 DEF Disjoint
<1>5. CASE /\ "ok" \in ExecutionVerdicts(offers[o])
           /\ rosters' = ApplyTrade(rosters, from, to, give, get)
           /\ Settle(o, "executed")
  <2>1. give \subseteq rosters[from] /\ get \subseteq rosters[to]
    BY <1>2, <1>5, ExecutedTradeIsOwned DEF ExecutionVerdicts, Verdicts
  <2>2. \A w \in Team : rosters'[w] = Traded(rosters, from, to, give, get, w)
    BY <1>2, <1>3, <1>5, TradeTeams
  <2>3. p \notin rosters[v]
    BY <1>3 DEF Disjoint
  <2>4. give \subseteq rosters'[to] /\ get \subseteq rosters'[from]
    BY <1>2, <2>2 DEF Traded
  <2>5. \/ v = from /\ p \in get
        \/ v = to /\ p \in give
    BY <1>2, <2>2, <2>3 DEF Traded
  <2>6. {t, v} = {from, to} /\ p \in (IF t = from THEN give ELSE get)
    <3>1. v = from /\ p \in get => t = to
      BY <1>2, <1>3, <2>1 DEF Disjoint
    <3>2. v = to /\ p \in give => t = from
      BY <1>2, <1>3, <2>1 DEF Disjoint
    <3> QED
      BY <1>2, <2>5, <3>1, <3>2
  <2>7. Becomes(o, "executed")
    BY <1>1, <1>5 DEF Becomes, Settle, OffersOK, MadeOffer
  <2> QED
    BY <1>1, <1>2, <2>4, <2>6, <2>7 DEF AgreedMove
<1> QED
  BY <1>2, <1>4, <1>5 DEF ExecuteTradeOffer

\* Every step leaves a player where it was or moves the player by agreement.
LEMMA MovesStep ==
  ASSUME RostersOK, OffersOK, WorldOK, [Next]_vars, NEW t \in Team, NEW u \in Team,
         NEW p \in rosters[t], p \in rosters'[u]
  PROVE  t = u \/ AgreedMove(t, u, p)
<1>1. rosters \in Rosters /\ Disjoint(rosters)
  BY DEF RostersOK, OneOwner, Disjoint
<1>2. CASE UNCHANGED rosters
  BY <1>1, <1>2 DEF Disjoint
<1>3. ASSUME NEW c \in Caller, Commit(c)
      PROVE  t = u
  <2>1. pending[c] \in Call /\ Apply(pending[c])
    BY <1>3 DEF Commit, WorldOK, Execution
  <2> QED
    BY <2>1, ApplyMoves
<1>4. CASE AutoCutHealedIR
  <2>1. cut[1] \in Team
    BY <1>4 DEF AutoCutHealedIR, WorldOK
  <2>2. CASE rosters' = ApplyTransaction(rosters, cut[1], {}, {cut[2]})
    BY <1>1, <2>1, <2>2, NobodyMoves
  <2> QED
    BY <1>2, <1>4, <2>2 DEF AutoCutHealedIR
<1>5. ASSUME NEW o \in Offer, ExecuteTradeOffer(o)
      PROVE  t = u \/ AgreedMove(t, u, p)
  BY <1>5, ExecuteMoves
<1>6. ASSUME NEW c \in Caller, ExecuteAccepted(c)
      PROVE  t = u \/ AgreedMove(t, u, p)
  <2>1. pending[c] \in Execution
    BY <1>6, MovesAssumption DEF ExecuteAccepted, WorldOK, NoCall, Call
  <2> QED
    BY <1>5, <1>6, <2>1 DEF ExecuteAccepted, Execution
<1>7. CASE Requests
  BY <1>2, <1>3, <1>7 DEF Requests, Request, Ask, Refuse
<1>8. CASE Healing
  BY <1>2, <1>4, <1>8 DEF Healing, TickSeesHealed
<1>9. CASE Trading
  BY <1>2, <1>5, <1>6, <1>9
     DEF Trading, Propose, Counter, Close, Accept, ApproveTrade, CommissionerVeto,
         TickExecute, TickExpire, VoteVeto
<1>10. CASE World \/ UNCHANGED vars
  BY <1>2, <1>10 DEF World, Kickoff, WeekCloses, WindowClears, InjuryReport, DeadlinePasses, vars
<1> QED
  BY <1>7, <1>8, <1>9, <1>10 DEF Next

\* What an offer was accepted on: rosters and tags of its parties with which
\* the trade was possible.
Possible(o, a) ==
  \E r \in Rosters, z \in ZoneTags :
    /\ a = <<r[o.from], r[o.to], z[o.from], z[o.to]>>
    /\ o.give \subseteq r[o.from] /\ o.get \subseteq r[o.to]
    /\ TradeFits(r, z, o.from, o.to, o.give, o.get)

AcceptedFits ==
  /\ agreed = [o \in Offer |-> agreed[o]]
  /\ \A o \in Offer : offers[o].status = "accepted" => Possible(offers[o], agreed[o])

\* The size and limit checks of a trade read the two parties' rosters and tags only.
LEMMA FitIsLocal ==
  ASSUME NEW r, NEW z, NEW s, NEW y, NEW from, NEW to, NEW give, NEW get,
         r[from] = s[from], r[to] = s[to], z[from] = y[from], z[to] = y[to],
         TradeFits(r, z, from, to, give, get)
  PROVE  TradeFits(s, y, from, to, give, get)
<1> DEFINE same(t) == r[t] = s[t] /\ z[t] = y[t]
<1>1. ASSUME NEW t, same(t), NEW out, NEW in
      PROVE  /\ SizeAfterTrade(r, z, t, out, in) = SizeAfterTrade(s, y, t, out, in)
             /\ WouldBreachLimit(r, z, t, in, out) = WouldBreachLimit(s, y, t, in, out)
  BY <1>1 DEF SizeAfterTrade, EffectiveRosterSize, CreditedDropCount, IROccupants, WouldBreachLimit
<1>2. same(from) /\ same(to)
  OBVIOUS
<1> HIDE DEF same
<1> QED
  BY <1>1, <1>2 DEF TradeFits

\* While the parties are what they were, an execution is not refused.
LEMMA StillPossible ==
  ASSUME NEW o, Possible(o, Parties(o))
  PROVE  "broken" \notin ExecutionVerdicts(o)
<1> PICK r \in Rosters, z \in ZoneTags :
      /\ Parties(o) = <<r[o.from], r[o.to], z[o.from], z[o.to]>>
      /\ o.give \subseteq r[o.from] /\ o.get \subseteq r[o.to]
      /\ TradeFits(r, z, o.from, o.to, o.give, o.get)
  BY DEF Possible
<1>1. /\ r[o.from] = rosters[o.from] /\ r[o.to] = rosters[o.to]
      /\ z[o.from] = zones[o.from] /\ z[o.to] = zones[o.to]
  BY DEF Parties
<1>2. TradeFits(rosters, zones, o.from, o.to, o.give, o.get)
  BY <1>1, FitIsLocal
<1>3. ASSUME NEW t, NEW S, S \subseteq rosters[t]
      PROVE  "broken" \notin SideVerdicts(rosters, kicked, t, S)
  BY <1>3 DEF SideVerdicts
<1>4. /\ "broken" \notin SideVerdicts(rosters, kicked, o.from, o.give)
      /\ "broken" \notin SideVerdicts(rosters, kicked, o.to, o.get)
  BY <1>1, <1>3
<1> QED
  BY <1>2, <1>4 DEF ExecutionVerdicts, Verdicts, TradeVerdicts

\* An offer is accepted on parties with which it is possible.
LEMMA AcceptedIsPossible ==
  ASSUME RostersOK, OffersOK, NEW c, NEW o \in Offer, Accept(c, o), AcceptedFits
  PROVE  Possible(offers'[o], agreed'[o])
<1>1. offers[o] \in MadeOffer
  BY MadeOfferShape DEF Accept, Statuses
<1>2. Verdicts(offers[o]) = {"ok"}
  BY DEF Accept, TradeAllowed
<1>3. /\ offers[o].give \subseteq rosters[offers[o].from] /\ offers[o].get \subseteq rosters[offers[o].to]
      /\ TradeFits(rosters, zones, offers[o].from, offers[o].to, offers[o].give, offers[o].get)
  BY <1>2, ExecutedTradeIsOwned, ExecutedTradeFits DEF Verdicts
<1>4. agreed'[o] = Parties(offers[o])
  BY DEF Accept, AcceptedFits
<1>5. offers'[o] = [offers[o] EXCEPT !.status = "accepted"]
  BY DEF Accept, Settle, OffersOK
<1>6. /\ offers'[o].from = offers[o].from /\ offers'[o].to = offers[o].to
      /\ offers'[o].give = offers[o].give /\ offers'[o].get = offers[o].get
  BY <1>1, <1>5 DEF MadeOffer
<1> QED
  BY <1>3, <1>4, <1>6 DEF Possible, Parties, RostersOK

\* What a step may do to one offer: nothing, a vote, an acceptance, a failure
\* the checks call for, or any other end.
OfferStep(o) ==
  \/ offers'[o] = offers[o] /\ agreed'[o] = agreed[o]
  \/ offers'[o].status \notin {"accepted", "failed"}
  \/ /\ offers[o].status = "accepted" /\ offers'[o].status # "failed" /\ agreed'[o] = agreed[o]
     /\ offers'[o].from = offers[o].from /\ offers'[o].to = offers[o].to
     /\ offers'[o].give = offers[o].give /\ offers'[o].get = offers[o].get
  \/ \E c \in Caller : Accept(c, o)
  \/ /\ offers[o].status = "accepted" /\ offers'[o].status = "failed"
     /\ "broken" \in ExecutionVerdicts(offers[o])

\* Every step is one of these to every offer.
LEMMA OfferSteps ==
  ASSUME OffersOK, WorldOK, AcceptedFits, [Next]_vars, NEW o \in Offer
  PROVE  OfferStep(o)
<1>1. CASE UNCHANGED <<offers, agreed>>
  BY <1>1 DEF OfferStep
<1>2. ASSUME NEW q \in Offer, NEW status, status \notin {"accepted", "failed"}, offers[q] # NoOffer,
             Settle(q, status), UNCHANGED agreed
      PROVE  OfferStep(o)
  <2>1. offers[q] \in MadeOffer
    BY <1>2, MadeOfferShape
  <2>2. offers'[o] = IF o = q THEN [offers[q] EXCEPT !.status = status] ELSE offers[o]
    BY <1>2 DEF Settle, OffersOK
  <2> QED
    BY <1>2, <2>1, <2>2 DEF OfferStep, MadeOffer
<1>3. ASSUME NEW q \in Offer, ExecuteTradeOffer(q)
      PROVE  OfferStep(o)
  <2>1. offers[q] # NoOffer /\ offers[q] \in MadeOffer /\ offers[q].status = "accepted" /\ UNCHANGED agreed
    BY <1>3, MadeOfferShape DEF ExecuteTradeOffer, Executable, Statuses
  <2>2. CASE Settle(q, "executed")
    BY <1>2, <2>1, <2>2
  <2>3. CASE Settle(q, "failed") /\ "broken" \in ExecutionVerdicts(offers[q])
    <3>1. offers'[o] = IF o = q THEN [offers[q] EXCEPT !.status = "failed"] ELSE offers[o]
      BY <2>3 DEF Settle, OffersOK
    <3> QED
      BY <2>1, <2>3, <3>1 DEF OfferStep, MadeOffer
  <2>4. CASE UNCHANGED offers
    BY <1>1, <2>1, <2>4
  <2> QED
    BY <1>3, <2>2, <2>3, <2>4 DEF ExecuteTradeOffer
<1>4. CASE Trading
  <2>1. ASSUME NEW q \in Offer, NEW from \in Team, NEW to \in Team, NEW give \in Side, NEW get \in Side,
               Propose(q, from, to, give, get)
        PROVE  OfferStep(o)
    <3>1. offers'[o] = IF o = q THEN OpenOffer(from, to, give, get) ELSE offers[o]
      BY <2>1 DEF Propose, OffersOK
    <3> QED
      BY <2>1, <3>1 DEF Propose, OpenOffer, OfferStep
  <2>2. ASSUME NEW q \in Offer, NEW new \in Offer, NEW give \in Side, NEW get \in Side, Counter(q, new, give, get)
        PROVE  OfferStep(o)
    <3>1. offers[q] \in MadeOffer /\ new # q
      BY <2>2, MadeOfferShape DEF Counter, Statuses, NoOffer
    <3>2. offers'[o] = IF o = new THEN OpenOffer(offers[q].to, offers[q].from, give, get)
                       ELSE IF o = q THEN [offers[q] EXCEPT !.status = "countered"] ELSE offers[o]
      BY <2>2, <3>1 DEF Counter, OffersOK
    <3> QED
      BY <2>2, <3>1, <3>2 DEF Counter, OpenOffer, OfferStep, MadeOffer
  <2>3. ASSUME NEW q \in Offer, NEW status \in {"declined", "withdrawn", "expired"}, Close(q, status)
        PROVE  OfferStep(o)
    BY <1>2, <2>3, MadeOfferShape DEF Close, Statuses
  <2>4. ASSUME NEW c \in Caller, NEW q \in Offer, Accept(c, q)
        PROVE  OfferStep(o)
    <3>1. CASE o = q
      BY <2>4, <3>1 DEF OfferStep
    <3>2. CASE o # q
      <4>1. offers'[o] = offers[o]
        BY <2>4, <3>2 DEF Accept, Settle, OffersOK
      <4>2. agreed'[o] = agreed[o]
        BY <2>4, <3>2 DEF Accept, AcceptedFits
      <4> QED
        BY <4>1, <4>2 DEF OfferStep
    <3> QED
      BY <3>1, <3>2
  <2>5. ASSUME NEW c \in Caller, ExecuteAccepted(c)
        PROVE  OfferStep(o)
    <3>1. pending[c] \in Execution
      BY <2>5, MovesAssumption DEF ExecuteAccepted, WorldOK, NoCall, Call
    <3> QED
      BY <1>3, <2>5, <3>1 DEF ExecuteAccepted, Execution
  <2>6. ASSUME NEW q \in Offer, CommissionerVeto(q)
        PROVE  OfferStep(o)
    BY <1>2, <2>6, MadeOfferShape DEF CommissionerVeto, Statuses
  <2>7. ASSUME NEW q \in Offer, NEW voter \in Team, VoteVeto(q, voter)
        PROVE  OfferStep(o)
    <3>1. offers[q] \in MadeOffer /\ offers[q].status = "accepted" /\ UNCHANGED agreed
      BY <2>7, MadeOfferShape DEF VoteVeto, Votable, Statuses
    <3>2. \E votes, status : /\ status \in {"vetoed", "accepted"}
                             /\ offers' = [offers EXCEPT ![q].vetoes = votes, ![q].status = status]
      BY <2>7, <3>1 DEF VoteVeto, MadeOffer
    <3> PICK votes, status : /\ status \in {"vetoed", "accepted"}
                             /\ offers' = [offers EXCEPT ![q].vetoes = votes, ![q].status = status]
      BY <3>2
    <3>0. offers'[o] = IF o = q THEN [offers[q] EXCEPT !.vetoes = votes, !.status = status] ELSE offers[o]
      BY DEF OffersOK
    <3>3. CASE o # q
      BY <3>0, <3>1, <3>3 DEF OfferStep
    <3>4. CASE o = q
      <4>1. offers'[o] = [offers[o] EXCEPT !.vetoes = votes, !.status = status]
        BY <3>0, <3>4
      <4>2. /\ offers'[o].status = status
            /\ offers'[o].from = offers[o].from /\ offers'[o].to = offers[o].to
            /\ offers'[o].give = offers[o].give /\ offers'[o].get = offers[o].get
        <5> DEFINE x == offers[o]
                   y == [x EXCEPT !.vetoes = votes, !.status = status]
        <5>1. x \in MadeOffer
          BY <3>1, <3>4
        <5> HIDE DEF x
        <5>2. y.status = status /\ y.from = x.from /\ y.to = x.to /\ y.give = x.give /\ y.get = x.get
          BY <5>1 DEF MadeOffer
        <5>3. offers'[o] = y
          BY <4>1 DEF x
        <5> HIDE DEF y
        <5> QED
          BY <5>2, <5>3 DEF x
      <4> QED
        BY <3>1, <3>4, <4>2 DEF OfferStep
    <3> QED
      BY <3>3, <3>4
  <2> QED
    BY <1>3, <1>4, <2>1, <2>2, <2>3, <2>4, <2>5, <2>6, <2>7 DEF Trading, ApproveTrade, TickExecute, TickExpire
<1>5. CASE Requests \/ Healing \/ World \/ UNCHANGED vars
  <2>1. UNCHANGED <<offers, agreed>>
    BY <1>5 DEF Requests, Request, Ask, Commit, Refuse, Healing, AutoCutHealedIR, TickSeesHealed,
                World, Kickoff, WeekCloses, WindowClears, InjuryReport, DeadlinePasses,
                trade, vars
  <2> QED
    BY <1>1, <2>1
<1> QED
  BY <1>4, <1>5 DEF Next

\* The history of the agreements stays one entry per offer.
LEMMA AgreedFrame ==
  ASSUME AcceptedFits, [Next]_vars
  PROVE  agreed' = [o \in Offer |-> agreed'[o]]
<1>1. ASSUME NEW c, NEW o, Accept(c, o)
      PROVE  agreed' = [q \in Offer |-> agreed'[q]]
  BY <1>1 DEF Accept, AcceptedFits
<1>2. CASE UNCHANGED agreed
  BY <1>2 DEF AcceptedFits
<1>3. (\E c, o : Accept(c, o)) \/ UNCHANGED agreed
  BY DEF Next, Requests, Request, Ask, Commit, Refuse, Healing, AutoCutHealedIR, TickSeesHealed,
         Trading, Propose, Counter, Close, ApproveTrade, CommissionerVeto, TickExecute, TickExpire,
         VoteVeto, ExecuteAccepted, ExecuteTradeOffer,
         World, Kickoff, WeekCloses, WindowClears, InjuryReport, DeadlinePasses, trade, vars
<1> QED
  BY <1>1, <1>2, <1>3

\* What an accepted offer was accepted on stays on record.
LEMMA AcceptedFitsNext ==
  ASSUME IInv, AcceptedFits, [Next]_vars
  PROVE  AcceptedFits'
<1>1. RostersOK /\ OffersOK /\ WorldOK
  BY InvParts
<1>2. ASSUME NEW o \in Offer, offers'[o].status = "accepted"
      PROVE  Possible(offers'[o], agreed'[o])
  <2>1. OfferStep(o)
    BY <1>1, OfferSteps
  <2>2. CASE \E c \in Caller : Accept(c, o)
    BY <1>1, <2>2, AcceptedIsPossible
  <2>3. CASE ~\E c \in Caller : Accept(c, o)
    <3>1. /\ offers[o].status = "accepted" /\ agreed'[o] = agreed[o]
          /\ offers'[o].from = offers[o].from /\ offers'[o].to = offers[o].to
          /\ offers'[o].give = offers[o].give /\ offers'[o].get = offers[o].get
      BY <1>2, <2>1, <2>3 DEF OfferStep
    <3> QED
      BY <3>1 DEF AcceptedFits, Possible
  <2> QED
    BY <2>2, <2>3
<1> QED
  BY <1>2, AgreedFrame DEF AcceptedFits

\* So it is on record throughout the season.
LEMMA AcceptedFitsAlways == Spec => [](IInv /\ AcceptedFits)
<1>1. Init => IInv /\ AcceptedFits
  BY InitIInv DEF Init, AcceptedFits, NoOffer
<1>2. IInv /\ AcceptedFits /\ [Next]_vars => (IInv /\ AcceptedFits)'
  BY NextIInv, AcceptedFitsNext
<1> QED
  BY <1>1, <1>2, PTL DEF Spec

\* A trade moves what was agreed: a player changes teams only by the execution
\* of an accepted offer that names the player, which moves all of both sides
\* (Store.ExecuteTradeOffer); and no lock, deadline or wait undoes an agreement
\* whose parties have not changed (validateTradeAssetsForExecution).
THEOREM AgreementsAreKept == Spec => TradesAreKept
<1>1. IInv /\ AcceptedFits /\ [Next]_vars =>
        [\A t, u \in Team : \A p \in rosters[t] \cap rosters'[u] : t = u \/ AgreedMove(t, u, p)]_vars
  BY InvParts, MovesStep
<1>2. IInv /\ AcceptedFits /\ [Next]_vars =>
        [\A o \in Offer : Becomes(o, "failed") => agreed[o] # Parties(offers[o])]_vars
  <2> SUFFICES ASSUME IInv, AcceptedFits, [Next]_vars, NEW o \in Offer, Becomes(o, "failed"),
                      agreed[o] = Parties(offers[o])
               PROVE  FALSE
    OBVIOUS
  <2>1. OfferStep(o)
    BY InvParts, OfferSteps
  <2>2. ~\E c \in Caller : Accept(c, o)
    <3>1. ASSUME NEW c, Accept(c, o)
          PROVE  FALSE
      <4>1. offers[o] \in MadeOffer /\ offers'[o] = [offers[o] EXCEPT !.status = "accepted"]
        BY <3>1, InvParts, MadeOfferShape DEF Accept, Settle, OffersOK, Statuses
      <4> QED
        BY <4>1 DEF Becomes, MadeOffer
    <3> QED
      BY <3>1
  <2>3. offers[o].status = "accepted" /\ "broken" \in ExecutionVerdicts(offers[o])
    BY <2>1, <2>2 DEF OfferStep, Becomes
  <2> QED
    BY <2>3, StillPossible DEF AcceptedFits
<1> QED
  BY <1>1, <1>2, AcceptedFitsAlways, PTL
     DEF Spec, TradesAreKept, PlayersMoveOnlyByAgreement, AgreedTradeNotLost, AgreedMove

-----------------------------------------------------------------------------
(***************************************************************************)
(* The roster cap, the IR slots and the zone tags.  Every cap check of the *)
(* code counts a roster less the tagged IR players, so the cap holds only  *)
(* as long as no IR tag is left on a player the team lost.                 *)
(*                                                                         *)
(* A placement on IR and an activation from it are measured on the         *)
(* request's snapshot only: the Store repeats neither the slots, nor the   *)
(* cap, nor the tag of the drop.  So two theorems are about leagues        *)
(* without an IR slot, or whose requests name no activation, with any      *)
(* number of requests at once; and one is about every league in which such *)
(* a request is alone while it is under way.                               *)
(***************************************************************************)

General(r, z, t) == {p \in r[t] : z[t][p] # "ir"}

-----------------------------------------------------------------------------
(* Counting *)

\* Any set of players is finite.
LEMMA PlayersAreFinite ==
  ASSUME NEW S \in SUBSET Player
  PROVE  IsFiniteSet(S) /\ Cardinality(S) \in Nat
BY LedgerAssumption, FS_Subset, FS_CardinalityType

\* A set that loses some and gains others is no larger than the arithmetic.
LEMMA GainAndLose ==
  ASSUME NEW S \in SUBSET Player, NEW out \in SUBSET S, NEW in \in SUBSET Player,
         NEW new \in SUBSET ((S \ out) \cup in)
  PROVE  Cardinality(new) <= Cardinality(S) - Cardinality(out) + Cardinality(in)
<1>1. /\ IsFiniteSet(S) /\ IsFiniteSet(out) /\ IsFiniteSet(in) /\ IsFiniteSet(S \ out)
      /\ Cardinality(S) \in Nat /\ Cardinality(out) \in Nat /\ Cardinality(in) \in Nat
  BY PlayersAreFinite
<1>2. Cardinality(S \ out) = Cardinality(S) - Cardinality(out)
  <2>1. S \cap out = out
    OBVIOUS
  <2> QED
    BY <1>1, <2>1, FS_Difference, ZenonT(90)
<1>3. /\ IsFiniteSet((S \ out) \cup in)
      /\ Cardinality((S \ out) \cup in) <= Cardinality(S \ out) + Cardinality(in)
  <2>1. Cardinality((S \ out) \cap in) \in Nat /\ Cardinality(S \ out) \in Nat
    BY PlayersAreFinite
  <2>2. /\ IsFiniteSet((S \ out) \cup in)
        /\ Cardinality((S \ out) \cup in)
             = Cardinality(S \ out) + Cardinality(in) - Cardinality((S \ out) \cap in)
    BY <1>1, FS_Union
  <2> QED
    BY <1>1, <2>1, <2>2
<1>4. Cardinality(new) <= Cardinality((S \ out) \cup in)
  BY <1>3, FS_Subset
<1>5. Cardinality(new) \in Nat /\ Cardinality((S \ out) \cup in) \in Nat
  BY <1>3, FS_CardinalityType, FS_Subset
<1> QED
  BY <1>1, <1>2, <1>3, <1>4, <1>5

\* Without a stray IR tag, the effective size counts the players outside IR.
LEMMA SizeOutsideIR ==
  ASSUME NEW r \in Rosters, NEW z \in ZoneTags, NEW t \in Team, IROccupants(z, t) \subseteq r[t]
  PROVE  EffectiveRosterSize(r, z, t) = Cardinality(General(r, z, t))
<1>1. r[t] \in SUBSET Player /\ General(r, z, t) = r[t] \ IROccupants(z, t)
      /\ r[t] \cap IROccupants(z, t) = IROccupants(z, t)
  BY DEF Rosters, General, IROccupants
<1> QED
  <2>1. IsFiniteSet(r[t])
    BY <1>1, PlayersAreFinite
  <2>2. Cardinality(r[t] \ IROccupants(z, t)) = Cardinality(r[t]) - Cardinality(r[t] \cap IROccupants(z, t))
    BY <2>1, FS_Difference
  <2> QED
    BY <1>1, <2>2 DEF EffectiveRosterSize

\* What a team has outside IR after gaining adds and losing drops is within
\* the size the checks compute.
LEMMA SizeAfterMove ==
  ASSUME NEW r \in Rosters, NEW z \in ZoneTags, NEW t \in Team, IROccupants(z, t) \subseteq r[t],
         NEW adds \in SUBSET Player, NEW drops \in SUBSET r[t],
         NEW new \in SUBSET ((General(r, z, t) \ drops) \cup adds)
  PROVE  /\ Cardinality(new)
              <= EffectiveRosterSize(r, z, t) + Cardinality(adds) - CreditedDropCount(z, t, drops)
         /\ Cardinality(new) \in Nat /\ EffectiveRosterSize(r, z, t) \in Nat
         /\ CreditedDropCount(z, t, drops) \in Nat /\ Cardinality(adds) \in Nat
<1> DEFINE S == General(r, z, t)
           out == {p \in drops : z[t][p] # "ir"}
<1>1. S \in SUBSET Player /\ out \in SUBSET S /\ new \in SUBSET ((S \ out) \cup adds)
  BY DEF General, Rosters
<1>2. Cardinality(new) <= Cardinality(S) - Cardinality(out) + Cardinality(adds)
  BY <1>1, GainAndLose
<1>3. /\ Cardinality(S) \in Nat /\ Cardinality(out) \in Nat /\ Cardinality(adds) \in Nat
      /\ Cardinality(new) \in Nat
  BY <1>1, PlayersAreFinite
<1>4. EffectiveRosterSize(r, z, t) = Cardinality(S) /\ CreditedDropCount(z, t, drops) = Cardinality(out)
  BY SizeOutsideIR DEF CreditedDropCount
<1> HIDE DEF S, out
<1> QED
  BY <1>2, <1>3, <1>4

\* What clearing tags does, team by team.
LEMMA ClearEffect ==
  ASSUME NEW z \in ZoneTags, NEW t \in Team, NEW S
  PROVE  \A u \in Team, p \in Player :
           ClearZones(z, t, S)[u][p] = IF u = t /\ p \in S THEN "general" ELSE z[u][p]
BY DEF ZoneTags, ClearZones

-----------------------------------------------------------------------------
(* What a step does to the cap and to the tags *)

Tagged == RostersOK /\ NoOrphanIR /\ WithinCap

\* A team whose players outside IR only get fewer stays within the cap.
LEMMA FewerFit ==
  ASSUME Tagged, RostersOK', \A t \in Team : GeneralRoster(t)' \subseteq GeneralRoster(t)
  PROVE  WithinCap'
<1> SUFFICES ASSUME NEW t \in Team
             PROVE  Cardinality(GeneralRoster(t)') <= RosterCap
  BY DEF WithinCap
<1>1. GeneralRoster(t) \in SUBSET Player
  BY DEF Tagged, RostersOK, Rosters, GeneralRoster
<1>2. /\ IsFiniteSet(GeneralRoster(t)) /\ Cardinality(GeneralRoster(t)) \in Nat
      /\ IsFiniteSet(GeneralRoster(t)') /\ Cardinality(GeneralRoster(t)') \in Nat
      /\ Cardinality(GeneralRoster(t)') <= Cardinality(GeneralRoster(t))
  BY <1>1, PlayersAreFinite, FS_Subset, FS_CardinalityType
<1>3. Cardinality(GeneralRoster(t)) <= RosterCap /\ RosterCap \in Nat
  BY LedgerAssumption DEF Tagged, WithinCap
<1> QED
  BY <1>2, <1>3

\* A recorded move fits: the Store repeats the cap under its lock.
LEMMA RecordFits ==
  ASSUME Tagged, NEW call \in Call, Record(call)
  PROVE  WithinCap' /\ NoOrphanIR' /\ (NoOrphanZone => NoOrphanZone')
<1> DEFINE team == call.team
<1>1. /\ team \in Team /\ call.player \in SUBSET Player /\ call.drop \in SUBSET rosters[team]
      /\ call.drop \in SUBSET Player
  BY DEF Call, Record, RecordAllowed
<1>2. rosters \in Rosters /\ zones \in ZoneTags /\ NoOrphanIR /\ WithinCap
  BY DEF Tagged, RostersOK
<1>3. /\ \A u \in Team : rosters'[u] = IF u = team THEN (rosters[team] \ call.drop) \cup call.player ELSE rosters[u]
      /\ \A u \in Team, p \in Player : zones'[u][p] = IF u = team /\ p \in call.drop THEN "general" ELSE zones[u][p]
  <2>1. rosters' = ApplyTransaction(rosters, team, call.player, call.drop) /\ zones' = ClearZones(zones, team, call.drop)
    BY DEF Record, RecordedZones
  <2> HIDE DEF team
  <2>2. \A u \in Team : ApplyTransaction(rosters, team, call.player, call.drop)[u]
                          = IF u = team THEN (rosters[team] \ call.drop) \cup call.player ELSE rosters[u]
    BY <1>1, <1>2 DEF ApplyTransaction, Rosters
  <2>3. \A u \in Team, p \in Player : ClearZones(zones, team, call.drop)[u][p]
                          = IF u = team /\ p \in call.drop THEN "general" ELSE zones[u][p]
    BY <1>1, <1>2, ClearEffect
  <2> QED
    BY <2>1, <2>2, <2>3
<1>4. \A p \in call.player, u \in Team : p \notin rosters[u]
  BY DEF Record, RecordAllowed, Rostered
<1>5. NoOrphanIR' /\ (NoOrphanZone => NoOrphanZone')
  <2>1. NoOrphanIR'
    BY <1>1, <1>2, <1>3 DEF NoOrphanIR, IROccupants
  <2>2. NoOrphanZone => NoOrphanZone'
    BY <1>1, <1>2, <1>3 DEF NoOrphanZone
  <2> QED
    BY <2>1, <2>2
<1>6. ASSUME NEW u \in Team
      PROVE  Cardinality(GeneralRoster(u)') <= RosterCap
  <2>1. CASE u = team
    <3>1. GeneralRoster(u)' \in SUBSET ((General(rosters, zones, team) \ call.drop) \cup call.player)
      BY <1>1, <1>2, <1>3, <2>1 DEF GeneralRoster, General, Rosters
    <3>2. IROccupants(zones, team) \subseteq rosters[team]
      BY <1>1, <1>2 DEF NoOrphanIR
    <3>3. /\ EffectiveRosterSize(rosters, zones, team) + Cardinality(call.player)
               - CreditedDropCount(zones, team, call.drop) <= RosterCap
          /\ RosterCap \in Nat
      BY LedgerAssumption DEF Record, RecordAllowed, FitsCap
    <3> QED
      BY <1>1, <1>2, <3>1, <3>2, <3>3, SizeAfterMove
  <2>2. CASE u # team
    <3>1. GeneralRoster(u)' = GeneralRoster(u)
      BY <1>2, <1>3, <2>2 DEF GeneralRoster, Rosters
    <3> QED
      BY <1>2, <3>1 DEF WithinCap
  <2> QED
    BY <2>1, <2>2
<1> QED
  BY <1>5, <1>6 DEF WithinCap

\* A placement tags a player of the team's own and counts one fewer.
LEMMA PlaceFits ==
  ASSUME Tagged, RostersOK', NEW call \in Call, call.op \in {"reserve", "ir"}, Place(call)
  PROVE  WithinCap' /\ NoOrphanIR' /\ (NoOrphanZone => NoOrphanZone')
<1>1. call.team \in Team /\ rosters \in Rosters /\ zones \in ZoneTags /\ rosters' = rosters
  BY DEF Call, Tagged, RostersOK, Place
<1>2. \A p \in call.player : p \in rosters[call.team] /\ zones[call.team][p] = "general"
  BY DEF Place
<1>3. \A u \in Team, p \in Player :
        zones'[u][p] = IF u = call.team /\ p \in call.player THEN call.op ELSE zones[u][p]
  BY <1>1 DEF Place, ZoneTags
<1>4. \A t \in Team : GeneralRoster(t)' \subseteq GeneralRoster(t)
  BY <1>1, <1>2, <1>3 DEF GeneralRoster, Rosters
<1>5. NoOrphanIR'
  BY <1>1, <1>2, <1>3 DEF NoOrphanIR, IROccupants, Tagged
<1>6. NoOrphanZone => NoOrphanZone'
  BY <1>1, <1>2, <1>3 DEF NoOrphanZone
<1> QED
  BY <1>4, <1>5, <1>6, FewerFit

\* An activation from the reserve frees nothing IR counts.
LEMMA ActivateReserveFits ==
  ASSUME Tagged, RostersOK', NEW call \in Call, Activate(call, "reserve")
  PROVE  WithinCap' /\ NoOrphanIR' /\ (NoOrphanZone => NoOrphanZone')
<1>1. call.team \in Team /\ rosters \in Rosters /\ zones \in ZoneTags /\ rosters' = rosters
  BY DEF Call, Tagged, RostersOK, Activate
<1>2. \A u \in Team, p \in Player :
        zones'[u][p] = IF u = call.team /\ p \in call.player THEN "general" ELSE zones[u][p]
  BY <1>1, ClearEffect DEF Activate
<1>3. \A p \in call.player : zones[call.team][p] = "reserve"
  BY DEF Activate
<1>4. \A t \in Team : GeneralRoster(t)' \subseteq GeneralRoster(t)
  BY <1>1, <1>2, <1>3 DEF GeneralRoster, Rosters
<1>5. NoOrphanIR'
  BY <1>1, <1>2 DEF NoOrphanIR, IROccupants, Tagged
<1>6. NoOrphanZone => NoOrphanZone'
  BY <1>1, <1>2 DEF NoOrphanZone
<1> QED
  BY <1>4, <1>5, <1>6, FewerFit

\* A healed player who is cut was outside the count, and takes the tag along.
LEMMA CutFits ==
  ASSUME Tagged, RostersOK', NEW team \in Team, NEW healed \in Player, zones[team][healed] = "ir",
         rosters' = ApplyTransaction(rosters, team, {}, {healed}), zones' = ClearZones(zones, team, {healed})
  PROVE  /\ WithinCap' /\ NoOrphanIR' /\ (NoOrphanZone => NoOrphanZone')
         /\ \A u \in Team : GeneralRoster(u)' = GeneralRoster(u) /\ IROccupants(zones, u)' \subseteq IROccupants(zones, u)
         /\ \A u \in Team, p \in Player : zones'[u][p] # "general" => zones'[u][p] = zones[u][p]
<1>1. rosters \in Rosters /\ zones \in ZoneTags /\ NoOrphanIR
  BY DEF Tagged, RostersOK
<1>2. \A u \in Team, p \in Player : p \in rosters'[u] <=> p \in rosters[u] /\ ~(u = team /\ p = healed)
  <2>1. \A u \in Team : rosters'[u] = IF u = team THEN (rosters[team] \ {healed}) \cup {} ELSE rosters[u]
    BY <1>1 DEF ApplyTransaction, Rosters
  <2> QED
    BY <2>1
<1>3. \A u \in Team, p \in Player : zones'[u][p] = IF u = team /\ p = healed THEN "general" ELSE zones[u][p]
  <2>1. \A u \in Team, p \in Player : zones'[u][p] = IF u = team /\ p \in {healed} THEN "general" ELSE zones[u][p]
    BY <1>1, ClearEffect
  <2> QED
    BY <2>1
<1>4. \A u \in Team : rosters[u] \subseteq Player /\ rosters'[u] \subseteq Player
  BY <1>1 DEF RostersOK, Rosters
<1>5. \A u \in Team : GeneralRoster(u)' = GeneralRoster(u)
  BY <1>2, <1>3, <1>4, ZenonT(60) DEF GeneralRoster
<1>6. \A u \in Team : IROccupants(zones, u)' \subseteq IROccupants(zones, u)
  BY <1>3 DEF IROccupants
<1>7. NoOrphanIR'
  BY <1>1, <1>2, <1>3, ZenonT(60) DEF NoOrphanIR, IROccupants
<1>8. NoOrphanZone => NoOrphanZone'
  BY <1>2, <1>3 DEF NoOrphanZone
<1>9. \A u \in Team, p \in Player : zones'[u][p] # "general" => zones'[u][p] = zones[u][p]
  BY <1>3
<1> QED
  BY <1>5, <1>6, <1>7, <1>8, <1>9, FewerFit

\* So does the tick's cut, or it finds the tag gone and does nothing.
LEMMA AutoCutFits ==
  ASSUME Tagged, RostersOK', WorldOK, AutoCutHealedIR
  PROVE  /\ WithinCap' /\ NoOrphanIR' /\ (NoOrphanZone => NoOrphanZone')
         /\ \A u \in Team : GeneralRoster(u)' = GeneralRoster(u) /\ IROccupants(zones, u)' \subseteq IROccupants(zones, u)
         /\ \A u \in Team, p \in Player : zones'[u][p] # "general" => zones'[u][p] = zones[u][p]
<1>1. cut[1] \in Team /\ cut[2] \in Player
  BY DEF AutoCutHealedIR, WorldOK
<1>2. CASE zones[cut[1]][cut[2]] = "ir"
  BY <1>1, <1>2, CutFits DEF AutoCutHealedIR
<1>3. CASE zones[cut[1]][cut[2]] # "ir"
  <2>1. UNCHANGED <<rosters, zones>>
    BY <1>3 DEF AutoCutHealedIR
  <2> QED
    BY <2>1 DEF Tagged, WithinCap, GeneralRoster, NoOrphanIR, IROccupants, NoOrphanZone
<1> QED
  BY <1>2, <1>3

\* A trade that passed takes the tags of all it moves, and both sides fit.
LEMMA TradeMoves ==
  ASSUME Tagged, RostersOK', NEW from \in Team, NEW to \in Team, from # to,
         NEW give \in SUBSET Player, NEW get \in SUBSET Player,
         "ok" \in TradeVerdicts(rosters, zones, kicked, from, to, give, get),
         rosters' = ApplyTrade(rosters, from, to, give, get),
         zones' = ClearZones(ClearZones(zones, from, give), to, get)
  PROVE  /\ WithinCap' /\ NoOrphanIR' /\ (NoOrphanZone => NoOrphanZone')
         /\ \A u \in Team, p \in Player : zones'[u][p] # "general" => zones'[u][p] = zones[u][p]
<1>1. rosters \in Rosters /\ zones \in ZoneTags /\ NoOrphanIR /\ WithinCap /\ OneOwner
  BY DEF Tagged, RostersOK
<1>2. give \subseteq rosters[from] /\ get \subseteq rosters[to] /\ TradeFits(rosters, zones, from, to, give, get)
  BY ExecutedTradeIsOwned, ExecutedTradeFits
<1>3. \A u \in Team : rosters'[u] = IF u = from THEN (rosters[from] \ give) \cup get
                                    ELSE IF u = to THEN (rosters[to] \ get) \cup give ELSE rosters[u]
  <2>1. ASSUME NEW u \in Team
        PROVE  ApplyTrade(rosters, from, to, give, get)[u] = Traded(rosters, from, to, give, get, u)
    BY <1>1, TradeTeams
  <2> QED
    BY <2>1 DEF Traded
<1>4. \A u \in Team, p \in Player :
        zones'[u][p] = IF (u = from /\ p \in give) \/ (u = to /\ p \in get) THEN "general" ELSE zones[u][p]
  <2>1. ClearZones(zones, from, give) \in ZoneTags
    BY <1>1, ClearZonesType
  <2> QED
    BY <1>1, <2>1, ClearEffect
<1>5. NoOrphanIR'
  BY <1>1, <1>2, <1>3, <1>4 DEF NoOrphanIR, IROccupants
<1>6. NoOrphanZone => NoOrphanZone'
  BY <1>1, <1>2, <1>3, <1>4 DEF NoOrphanZone
<1>7. ASSUME NEW u \in Team
      PROVE  Cardinality(GeneralRoster(u)') <= RosterCap
  <2>1. IROccupants(zones, u) \subseteq rosters[u] /\ RosterCap \in Nat /\ StarterCount \in Nat
    BY <1>1, LedgerAssumption DEF NoOrphanIR
  <2>2. CASE u = from
    <3>1. GeneralRoster(u)' \in SUBSET ((General(rosters, zones, u) \ give) \cup get)
      BY <1>1, <1>2, <1>3, <1>4, <2>2 DEF GeneralRoster, General, Rosters
    <3>2. SizeAfterTrade(rosters, zones, u, give, get) <= RosterCap
      BY <1>2, <2>1, <2>2, LedgerAssumption DEF TradeFits
    <3> QED
      BY <1>1, <1>2, <2>1, <2>2, <3>1, <3>2, SizeAfterMove DEF SizeAfterTrade
  <2>3. CASE u = to
    <3>1. GeneralRoster(u)' \in SUBSET ((General(rosters, zones, u) \ get) \cup give)
      BY <1>1, <1>2, <1>3, <1>4, <2>3 DEF GeneralRoster, General, Rosters
    <3>2. SizeAfterTrade(rosters, zones, u, get, give) <= RosterCap
      BY <1>2, <2>1, <2>3, LedgerAssumption DEF TradeFits
    <3> QED
      BY <1>1, <1>2, <2>1, <2>3, <3>1, <3>2, SizeAfterMove DEF SizeAfterTrade
  <2>4. CASE u \notin {from, to}
    <3>1. GeneralRoster(u)' = GeneralRoster(u)
      BY <1>1, <1>3, <1>4, <2>4 DEF GeneralRoster, Rosters
    <3> QED
      BY <1>1, <3>1 DEF WithinCap
  <2> QED
    BY <2>2, <2>3, <2>4
<1>8. \A u \in Team, p \in Player : zones'[u][p] # "general" => zones'[u][p] = zones[u][p]
  BY <1>4
<1> QED
  BY <1>5, <1>6, <1>7, <1>8 DEF WithinCap

\* An execution measures both sides under the lock.
LEMMA ExecuteFits ==
  ASSUME Tagged, OffersOK, RostersOK', NEW o \in Offer, ExecuteTradeOffer(o)
  PROVE  /\ WithinCap' /\ NoOrphanIR' /\ (NoOrphanZone => NoOrphanZone')
         /\ \A u \in Team, p \in Player : zones'[u][p] # "general" => zones'[u][p] = zones[u][p]
<1> DEFINE t == offers[o]
<1>1. t # NoOffer /\ t \in MadeOffer
  BY MadeOfferShape DEF ExecuteTradeOffer, Executable, Statuses
<1>2. /\ t.from \in Team /\ t.to \in Team /\ t.from # t.to
      /\ t.give \in SUBSET Player /\ t.get \in SUBSET Player
  BY <1>1 DEF MadeOffer, OffersOK, OffersTwoSided
<1>3. CASE /\ "ok" \in ExecutionVerdicts(t)
           /\ rosters' = ApplyTrade(rosters, t.from, t.to, t.give, t.get)
           /\ zones' = TradedZones(t)
  <2>1. /\ "ok" \in TradeVerdicts(rosters, zones, kicked, t.from, t.to, t.give, t.get)
        /\ zones' = ClearZones(ClearZones(zones, t.from, t.give), t.to, t.get)
    BY <1>3 DEF ExecutionVerdicts, Verdicts, TradedZones
  <2> QED
    BY <1>2, <1>3, <2>1, TradeMoves
<1>4. CASE UNCHANGED <<rosters, zones>>
  BY <1>4 DEF Tagged, WithinCap, GeneralRoster, NoOrphanIR, IROccupants, NoOrphanZone
<1> QED
  BY <1>3, <1>4 DEF ExecuteTradeOffer

-----------------------------------------------------------------------------
(* Requests at once, and no activation from IR among them *)

\* No activation from IR is ever under way: nobody asks for one, or the league
\* has no IR slot to activate from.
Unactivated == IRSlots = 0 \/ "activateIR" \notin Ops

NoActivation ==
  /\ \A c \in Caller : pending[c].op # "activateIR"
  /\ IRSlots = 0 => /\ \A t \in Team, p \in Player : zones[t][p] # "ir"
                    /\ \A c \in Caller : pending[c].op # "ir"

CapInv == IInv /\ NoOrphanZone /\ WithinCap /\ NoActivation

\* No stray tag, so no stray IR tag.
LEMMA NoOrphanMeans == ASSUME NoOrphanZone PROVE NoOrphanIR
BY DEF NoOrphanZone, NoOrphanIR, IROccupants

\* What an asked request was checked for.
LEMMA AskedMeans ==
  ASSUME NEW call \in Call, Asked(call)
  PROVE  /\ call.op = "activateIR" => ActivateIRAsked(call)
         /\ call.op = "ir" => PlaceAsked(call)
<1>1. CASE call.op = "activateIR"
  BY <1>1 DEF Asked
<1>2. CASE call.op = "ir"
  BY <1>2 DEF Asked
<1> QED
  BY <1>1, <1>2

\* Without activations none is asked for, nor an IR slot that does not exist.
LEMMA AskedAllowed ==
  ASSUME Unactivated, RostersOK, NoActivation, NEW call \in Call, Asked(call)
  PROVE  /\ call.op # "activateIR"
         /\ IRSlots = 0 => call.op # "ir"
<1>1. call.team \in Team /\ call.op \in Ops
  BY DEF Call
<1>2. call.op # "activateIR"
  <2> SUFFICES ASSUME call.op = "activateIR"
               PROVE  FALSE
    OBVIOUS
  <2>1. \E p \in Player : zones[call.team][p] = "ir"
    BY AskedMeans DEF ActivateIRAsked
  <2> QED
    BY <1>1, <2>1 DEF Unactivated, NoActivation
<1>3. ASSUME IRSlots = 0, call.op = "ir"
      PROVE  FALSE
  <2>1. IRHasRoom(call.team)
    BY <1>3, AskedMeans DEF PlaceAsked
  <2>2. Cardinality(IROccupants(zones, call.team)) \in Nat
    BY PlayersAreFinite DEF IROccupants
  <2> QED
    BY <1>3, <2>1, <2>2 DEF IRHasRoom
<1> QED
  BY <1>2, <1>3

\* A step that adds no IR tag and no request keeps activations away.
LEMMA NoActivationFrame ==
  ASSUME NoActivation, \A u \in Team, p \in Player : zones'[u][p] = "ir" => zones[u][p] = "ir",
         \A c \in Caller : pending'[c] = pending[c] \/ pending'[c].op \in {"idle", "execute"}
  PROVE  NoActivation'
BY DEF NoActivation

\* A committed request keeps the cap and the tags.
LEMMA ApplyFits ==
  ASSUME Tagged, RostersOK', NEW call \in Call, Apply(call), call.op # "activateIR"
  PROVE  /\ WithinCap' /\ (NoOrphanZone => NoOrphanZone') /\ NoOrphanIR'
         /\ call.op # "ir" => \A u \in Team, p \in Player : zones'[u][p] = "ir" => zones[u][p] = "ir"
<1>1. call.team \in Team /\ zones \in ZoneTags
  BY DEF Call, Tagged, RostersOK
<1>2. CASE Record(call)
  <2>1. \A u \in Team, p \in Player : ClearZones(zones, call.team, call.drop)[u][p]
                = IF u = call.team /\ p \in call.drop THEN "general" ELSE zones[u][p]
    BY <1>1, ClearEffect
  <2>2. zones' = ClearZones(zones, call.team, call.drop)
    BY <1>2 DEF Record, RecordedZones
  <2> QED
    BY <1>2, <2>1, <2>2, RecordFits
<1>3. CASE call.op \in {"reserve", "ir"} /\ Place(call)
  <2>1. \A u \in Team, p \in Player :
          zones'[u][p] = IF u = call.team /\ p \in call.player THEN call.op ELSE zones[u][p]
    BY <1>1, <1>3 DEF Place, ZoneTags
  <2> QED
    BY <1>3, <2>1, PlaceFits
<1>4. CASE Activate(call, "reserve")
  <2>1. \A u \in Team, p \in Player : ClearZones(zones, call.team, call.player)[u][p]
                = IF u = call.team /\ p \in call.player THEN "general" ELSE zones[u][p]
    BY <1>1, ClearEffect
  <2>2. zones' = ClearZones(zones, call.team, call.player)
    BY <1>4 DEF Activate
  <2> QED
    BY <1>4, <2>1, <2>2, ActivateReserveFits
<1> QED
  BY <1>2, <1>3, <1>4 DEF Apply

\* What requests do to the cap and the tags when none activates from IR.
LEMMA CapRequests ==
  ASSUME Unactivated, CapInv, IInv', Requests
  PROVE  NoOrphanZone' /\ WithinCap' /\ NoActivation'
<1>1. RostersOK /\ WorldOK /\ RostersOK' /\ Tagged
  BY InvParts, NoOrphanMeans DEF CapInv, IInv, TypeOK, RostersOK, Tagged
<1> PICK c \in Caller :
      \/ \E op \in Ops, t \in Team, player, drop \in AtMostOne :
           Ask(c, [op |-> op, team |-> t, player |-> player, drop |-> drop])
      \/ Commit(c)
      \/ Refuse(c)
  BY DEF Requests, Request
<1>2. ASSUME NEW op \in Ops, NEW t \in Team, NEW player \in AtMostOne, NEW drop \in AtMostOne,
             Ask(c, [op |-> op, team |-> t, player |-> player, drop |-> drop])
      PROVE  NoOrphanZone' /\ WithinCap' /\ NoActivation'
  <2> DEFINE call == [op |-> op, team |-> t, player |-> player, drop |-> drop]
  <2>1. call \in Call
    BY DEF Call, AtMostOne
  <2> HIDE DEF call
  <2>2. pending' = [pending EXCEPT ![c] = call] /\ UNCHANGED <<rosters, zones>> /\ Asked(call)
    BY <1>2 DEF Ask, call
  <2>3. call.op # "activateIR" /\ (IRSlots = 0 => call.op # "ir")
    BY <1>1, <2>1, <2>2, AskedAllowed DEF CapInv
  <2>4. \A e \in Caller : pending'[e] = IF e = c THEN call ELSE pending[e]
    BY <1>1, <2>2 DEF WorldOK
  <2> QED
    BY <2>2, <2>3, <2>4 DEF CapInv, NoOrphanZone, WithinCap, GeneralRoster, NoActivation
<1>3. CASE Commit(c)
  <2>1. pending[c] \in Call /\ Apply(pending[c]) /\ pending' = [pending EXCEPT ![c] = NoCall]
    BY <1>1, <1>3 DEF Commit, WorldOK, Execution, Finish
  <2>2. pending[c].op # "activateIR"
    BY DEF CapInv, NoActivation
  <2>3. NoOrphanZone' /\ WithinCap'
    BY <1>1, <2>1, <2>2, ApplyFits DEF CapInv
  <2>4. \A e \in Caller : pending'[e] = IF e = c THEN NoCall ELSE pending[e]
    BY <1>1, <2>1 DEF WorldOK
  <2>5. IRSlots = 0 => \A u \in Team, p \in Player : zones'[u][p] = "ir" => zones[u][p] = "ir"
    BY <1>1, <2>1, <2>2, ApplyFits DEF CapInv, NoActivation
  <2>6. NoActivation'
    BY <2>4, <2>5 DEF CapInv, NoActivation, NoCall
  <2> QED
    BY <2>3, <2>6
<1>4. CASE Refuse(c)
  <2>1. UNCHANGED <<rosters, zones>> /\ \A e \in Caller : pending'[e] = IF e = c THEN NoCall ELSE pending[e]
    BY <1>1, <1>4 DEF Refuse, Finish, WorldOK
  <2> QED
    BY <2>1 DEF CapInv, NoOrphanZone, WithinCap, GeneralRoster, NoActivation, NoCall
<1> QED
  BY <1>2, <1>3, <1>4

\* What the cut, the trades and the world do to them.
LEMMA CapOthers ==
  ASSUME CapInv, IInv', Healing \/ Trading \/ World \/ UNCHANGED vars
  PROVE  NoOrphanZone' /\ WithinCap' /\ NoActivation'
<1>1. RostersOK /\ OffersOK /\ WorldOK /\ RostersOK' /\ Tagged
  BY InvParts, NoOrphanMeans DEF CapInv, IInv, TypeOK, RostersOK, Tagged
<1>2. ASSUME UNCHANGED <<rosters, zones>>
      PROVE  NoOrphanZone' /\ WithinCap'
  BY <1>2 DEF CapInv, NoOrphanZone, WithinCap, GeneralRoster
<1>3. CASE AutoCutHealedIR
  <2>1. UNCHANGED pending
    BY <1>3 DEF AutoCutHealedIR
  <2>2. /\ WithinCap' /\ (NoOrphanZone => NoOrphanZone')
        /\ \A u \in Team, p \in Player : zones'[u][p] # "general" => zones'[u][p] = zones[u][p]
    BY <1>1, <1>3, AutoCutFits
  <2>3. NoActivation'
    BY <2>1, <2>2, NoActivationFrame DEF CapInv
  <2> QED
    BY <2>2, <2>3 DEF CapInv
<1>4. ASSUME NEW o \in Offer, ExecuteTradeOffer(o),
             \A c \in Caller : pending'[c] = pending[c] \/ pending'[c].op \in {"idle", "execute"}
      PROVE  NoOrphanZone' /\ WithinCap' /\ NoActivation'
  <2>1. /\ WithinCap' /\ (NoOrphanZone => NoOrphanZone')
        /\ \A u \in Team, p \in Player : zones'[u][p] # "general" => zones'[u][p] = zones[u][p]
    BY <1>1, <1>4, ExecuteFits
  <2>2. NoActivation'
    BY <1>4, <2>1, NoActivationFrame DEF CapInv
  <2> QED
    BY <2>1, <2>2 DEF CapInv
<1>5. ASSUME UNCHANGED <<rosters, zones>>,
             \A c \in Caller : pending'[c] = pending[c] \/ pending'[c].op \in {"idle", "execute"}
      PROVE  NoOrphanZone' /\ WithinCap' /\ NoActivation'
  BY <1>2, <1>5, NoActivationFrame DEF CapInv
<1>6. ASSUME NEW t \in Team, NEW p \in Player, TickSeesHealed(t, p)
      PROVE  NoOrphanZone' /\ WithinCap' /\ NoActivation'
  BY <1>5, <1>6 DEF TickSeesHealed
<1>7. CASE Trading
  <2>1. ASSUME NEW o \in Offer, NEW from \in Team, NEW to \in Team, NEW give, NEW get, Propose(o, from, to, give, get)
        PROVE  NoOrphanZone' /\ WithinCap' /\ NoActivation'
    BY <1>5, <2>1 DEF Propose
  <2>2. ASSUME NEW o, NEW new, NEW give, NEW get, Counter(o, new, give, get)
        PROVE  NoOrphanZone' /\ WithinCap' /\ NoActivation'
    BY <1>5, <2>2 DEF Counter
  <2>3. ASSUME NEW o, NEW status, Close(o, status)
        PROVE  NoOrphanZone' /\ WithinCap' /\ NoActivation'
    BY <1>5, <2>3 DEF Close
  <2>4. ASSUME NEW c \in Caller, NEW o \in Offer, Accept(c, o)
        PROVE  NoOrphanZone' /\ WithinCap' /\ NoActivation'
    <3>1. UNCHANGED <<rosters, zones>>
      BY <2>4 DEF Accept
    <3>2. \A e \in Caller : pending'[e] = pending[e] \/ pending'[e] = [op |-> "execute", offer |-> o]
      BY <1>1, <2>4 DEF Accept, WorldOK
    <3> QED
      BY <1>5, <3>1, <3>2
  <2>5. ASSUME NEW c \in Caller, ExecuteAccepted(c)
        PROVE  NoOrphanZone' /\ WithinCap' /\ NoActivation'
    <3>1. pending[c] \in Execution
      BY <1>1, <2>5, MovesAssumption DEF ExecuteAccepted, WorldOK, NoCall, Call
    <3>2. pending[c].offer \in Offer /\ ExecuteTradeOffer(pending[c].offer)
      BY <2>5, <3>1 DEF ExecuteAccepted, Execution
    <3>3. \A e \in Caller : pending'[e] = pending[e] \/ pending'[e].op \in {"idle", "execute"}
      BY <1>1, <2>5 DEF ExecuteAccepted, Finish, WorldOK, NoCall
    <3> QED
      BY <1>4, <3>2, <3>3
  <2>6. ASSUME NEW o \in Offer, ExecuteTradeOffer(o), UNCHANGED pending
        PROVE  NoOrphanZone' /\ WithinCap' /\ NoActivation'
    BY <1>4, <2>6
  <2>7. ASSUME NEW o, CommissionerVeto(o) \/ \E voter \in Team : VoteVeto(o, voter)
        PROVE  NoOrphanZone' /\ WithinCap' /\ NoActivation'
    BY <1>5, <2>7 DEF CommissionerVeto, VoteVeto
  <2> QED
    BY <1>7, <2>1, <2>2, <2>3, <2>4, <2>5, <2>6, <2>7 DEF Trading, ApproveTrade, TickExecute, TickExpire
<1>8. CASE World \/ UNCHANGED vars
  <2>1. UNCHANGED <<rosters, zones, pending>>
    BY <1>8 DEF World, Kickoff, WeekCloses, WindowClears, InjuryReport, DeadlinePasses, vars
  <2> QED
    BY <1>5, <2>1
<1> QED
  BY <1>3, <1>6, <1>7, <1>8 DEF Healing

\* The draft ends with full rosters and no tags.
LEMMA CapInit == Init => NoOrphanZone /\ WithinCap /\ NoActivation
<1> SUFFICES ASSUME Init PROVE NoOrphanZone /\ WithinCap /\ NoActivation
  OBVIOUS
<1>1. NoOrphanZone /\ NoActivation
  BY DEF Init, NoOrphanZone, NoActivation, NoCall
<1>2. ASSUME NEW t \in Team
      PROVE  Cardinality(GeneralRoster(t)) <= RosterCap
  <2>1. rosters[t] \in SUBSET Player /\ Cardinality(rosters[t]) = RosterCap
    BY DEF Init
  <2>2. GeneralRoster(t) = rosters[t]
    BY <2>1 DEF Init, GeneralRoster
  <2> QED
    BY <2>1, <2>2, LedgerAssumption
<1> QED
  BY <1>1, <1>2 DEF WithinCap

\* Every step keeps the cap and the tags.
LEMMA CapNext == ASSUME Unactivated PROVE CapInv /\ [Next]_vars => CapInv'
<1> SUFFICES ASSUME CapInv, [Next]_vars
             PROVE  CapInv'
  OBVIOUS
<1>1. IInv'
  BY NextIInv DEF CapInv
<1>2. NoOrphanZone' /\ WithinCap' /\ NoActivation'
  BY <1>1, CapRequests, CapOthers DEF Next
<1> QED
  BY <1>1, <1>2 DEF CapInv

\* So they hold throughout the season.
LEMMA CapAlways == ASSUME Unactivated PROVE Spec => []CapInv
<1>1. Init => CapInv
  BY InitIInv, CapInit DEF CapInv
<1> QED
  BY <1>1, CapNext, PTL DEF Spec

\* However many adds, drops, corrections, placements, cuts and trades were
\* validated on the same snapshot, no team's players outside IR exceed the
\* roster size: recordTransactionWithAuthority and ExecuteTradeOffer repeat the
\* size under the Store's lock.  Without an activation from IR, or without IR.
THEOREM TheCapHolds == ASSUME Unactivated PROVE Spec => []WithinCap
<1>1. CapInv => WithinCap
  BY DEF CapInv
<1> QED
  BY <1>1, CapAlways, PTL

\* No drop, cut or trade leaves a zone tag on a team that lost the player
\* (clearZoneAssignmentsLocked).  Without an activation from IR, or without IR.
THEOREM NoTagStaysBehind == ASSUME Unactivated PROVE Spec => []NoOrphanZone
<1>1. CapInv => NoOrphanZone
  BY DEF CapInv
<1> QED
  BY <1>1, CapAlways, PTL


-----------------------------------------------------------------------------
(* Requests to and from IR that are alone *)

\* While a placement on IR or an activation from IR is under way, no other
\* request is and no agreed trade waits for its execution.
Alone ==
  \A c \in Caller : pending[c].op \in {"ir", "activateIR"} =>
    /\ \A d \in Caller : pending[d].op \in Ops => d = c
    /\ \A o \in Offer : offers[o].status # "accepted"

\* What the Store takes from the snapshot of such a request.
Promise(r, z, call) ==
  /\ call.op \in {"ir", "activateIR"} => \E p \in Player : call.player = {p}
  /\ call.op = "ir" => Cardinality(IROccupants(z, call.team)) < IRSlots
  /\ call.op = "activateIR" =>
       /\ call.drop \in AtMostOne
       /\ \A p \in call.drop : z[call.team][p] # "ir"
       /\ call.drop = {} => EffectiveRosterSize(r, z, call.team) + 1 <= RosterCap

ZoneInv ==
  /\ IInv /\ NoOrphanIR /\ WithinCap
  /\ \A t \in Team : Cardinality(IROccupants(zones, t)) <= IRSlots
  /\ \A c \in Caller : Promise(rosters, zones, pending[c])

\* Fewer tags are within the slots.
LEMMA FewerOnIR ==
  ASSUME NEW z, NEW y, NEW t, \A p \in Player : y[t][p] = "ir" => z[t][p] = "ir"
  PROVE  /\ Cardinality(IROccupants(y, t)) <= Cardinality(IROccupants(z, t))
         /\ Cardinality(IROccupants(y, t)) \in Nat /\ Cardinality(IROccupants(z, t)) \in Nat
<1>1. IROccupants(y, t) \in SUBSET IROccupants(z, t) /\ IROccupants(z, t) \in SUBSET Player
  BY DEF IROccupants
<1> QED
  BY <1>1, PlayersAreFinite, FS_Subset

\* A request is asked for on the facts it goes on to rely on.
LEMMA AskedPromise ==
  ASSUME NEW call \in Call, call.drop \in AtMostOne, Asked(call)
  PROVE  Promise(rosters, zones, call)
<1>1. CASE call.op = "ir"
  BY <1>1, AskedMeans DEF PlaceAsked, IRHasRoom, Promise
<1>2. CASE call.op = "activateIR"
  BY <1>2, AskedMeans DEF ActivateIRAsked, DropOutsideIR, Promise
<1>3. CASE call.op \notin {"ir", "activateIR"}
  BY <1>3 DEF Promise
<1> QED
  BY <1>1, <1>2, <1>3

\* A step that leaves the players outside IR and adds no IR tag keeps them true.
LEMMA PromiseKept ==
  ASSUME NEW r \in Rosters, NEW z \in ZoneTags, NEW s \in Rosters, NEW y \in ZoneTags,
         \A t \in Team : /\ IROccupants(z, t) \subseteq r[t] /\ IROccupants(y, t) \subseteq s[t]
                         /\ General(r, z, t) = General(s, y, t),
         \A t \in Team, p \in Player : y[t][p] = "ir" => z[t][p] = "ir",
         NEW call, call.op \in {"ir", "activateIR"} => call \in Call,
         Promise(r, z, call)
  PROVE  Promise(s, y, call)
<1>1. CASE call.op = "ir"
  <2>1. call.team \in Team
    BY <1>1 DEF Call
  <2>2. /\ Cardinality(IROccupants(y, call.team)) <= Cardinality(IROccupants(z, call.team))
        /\ Cardinality(IROccupants(y, call.team)) \in Nat /\ Cardinality(IROccupants(z, call.team)) \in Nat
    BY <2>1, FewerOnIR
  <2> QED
    BY <1>1, <2>2, LedgerAssumption DEF Promise
<1>2. CASE call.op = "activateIR"
  <2>1. call.team \in Team /\ call.drop \in SUBSET Player
    BY <1>2 DEF Call
  <2>2. EffectiveRosterSize(s, y, call.team) = EffectiveRosterSize(r, z, call.team)
    BY <2>1, SizeOutsideIR
  <2> QED
    BY <1>2, <2>1, <2>2 DEF Promise
<1>3. CASE call.op \notin {"ir", "activateIR"}
  BY <1>3 DEF Promise
<1> QED
  BY <1>1, <1>2, <1>3

\* An activation that relied on true facts leaves the team within the cap.
LEMMA ActivateFits ==
  ASSUME Tagged, RostersOK', NEW call \in Call, call.op = "activateIR", Promise(rosters, zones, call), Apply(call)
  PROVE  /\ WithinCap' /\ NoOrphanIR'
         /\ \A u \in Team, p \in Player : zones'[u][p] = "ir" => zones[u][p] = "ir"
<1> DEFINE team == call.team
<1>1. team \in Team /\ call.player \in SUBSET Player /\ call.drop \in SUBSET Player
  BY DEF Call
<1>2. rosters \in Rosters /\ zones \in ZoneTags /\ NoOrphanIR /\ WithinCap
  BY DEF Tagged, RostersOK
<1>3. PICK p \in Player : call.player = {p}
  BY DEF Promise
<1>4. call.drop \in AtMostOne /\ \A q \in call.drop : zones[team][q] # "ir"
  BY DEF Promise
<1>5. /\ zones[team][p] = "ir"
      /\ zones' = ClearZones(zones, team, {p})
      /\ call.drop \subseteq rosters[team]
      /\ rosters' = IF call.drop = {} THEN rosters ELSE ApplyTransaction(rosters, team, {}, call.drop)
  BY <1>3 DEF Apply, Activate, ActivateWithDrop
<1>6. \A u \in Team, q \in Player : zones'[u][q] = IF u = team /\ q = p THEN "general" ELSE zones[u][q]
  <2>1. \A u \in Team, q \in Player : ClearZones(zones, team, {p})[u][q]
                = IF u = team /\ q \in {p} THEN "general" ELSE zones[u][q]
    BY <1>1, <1>2, ClearEffect
  <2> QED
    BY <1>5, <2>1
<1>7. \A u \in Team : rosters'[u] = IF u = team THEN rosters[team] \ call.drop ELSE rosters[u]
  <2>1. \A u \in Team : ApplyTransaction(rosters, team, {}, call.drop)[u]
                          = IF u = team THEN (rosters[team] \ call.drop) \cup {} ELSE rosters[u]
    BY <1>1, <1>2 DEF ApplyTransaction, Rosters
  <2> QED
    BY <1>5, <2>1
<1> HIDE DEF team
<1>8. NoOrphanIR' /\ \A u \in Team, q \in Player : zones'[u][q] = "ir" => zones[u][q] = "ir"
  <2>1. \A u \in Team, q \in Player : zones'[u][q] = "ir" => zones[u][q] = "ir"
    BY <1>6
  <2>2. NoOrphanIR'
    BY <1>2, <1>4, <1>6, <1>7 DEF NoOrphanIR, IROccupants
  <2> QED
    BY <2>1, <2>2
<1>9. ASSUME NEW u \in Team
      PROVE  Cardinality(GeneralRoster(u)') <= RosterCap
  <2>1. CASE u = team
    <3>1. GeneralRoster(u)' \in SUBSET ((General(rosters, zones, team) \ call.drop) \cup {p})
      BY <1>1, <1>2, <1>6, <1>7, <2>1, ZenonT(60) DEF GeneralRoster, General, Rosters
    <3>2. IROccupants(zones, team) \subseteq rosters[team] /\ {p} \in SUBSET Player /\ Cardinality({p}) = 1
      BY <1>1, <1>2, FS_Singleton DEF NoOrphanIR
    <3>3. /\ Cardinality(GeneralRoster(u)')
               <= EffectiveRosterSize(rosters, zones, team) + 1 - CreditedDropCount(zones, team, call.drop)
          /\ Cardinality(GeneralRoster(u)') \in Nat /\ EffectiveRosterSize(rosters, zones, team) \in Nat
          /\ CreditedDropCount(zones, team, call.drop) \in Nat
      BY <1>1, <1>2, <1>5, <3>1, <3>2, SizeAfterMove
    <3>4. CASE call.drop = {}
      <4>1. EffectiveRosterSize(rosters, zones, team) + 1 <= RosterCap
        BY <3>4 DEF Promise, team
      <4> QED
        BY <3>3, <4>1, LedgerAssumption
    <3>5. CASE call.drop # {}
      <4>1. PICK q \in Player : call.drop = {q}
        BY <1>4, <3>5 DEF AtMostOne
      <4>2. {x \in call.drop : zones[team][x] # "ir"} = {q}
        BY <1>4, <4>1
      <4>3. CreditedDropCount(zones, team, call.drop) = 1
        BY <4>2, FS_Singleton DEF CreditedDropCount
      <4>4. EffectiveRosterSize(rosters, zones, team) = Cardinality(General(rosters, zones, team))
        BY <1>1, <1>2, <3>2, SizeOutsideIR
      <4>5. Cardinality(General(rosters, zones, team)) <= RosterCap
        BY <1>1, <1>2 DEF WithinCap, GeneralRoster, General
      <4> QED
        BY <3>3, <4>3, <4>4, <4>5, LedgerAssumption
    <3> QED
      BY <3>4, <3>5
  <2>2. CASE u # team
    <3>1. GeneralRoster(u)' = GeneralRoster(u)
      BY <1>2, <1>6, <1>7, <2>2 DEF GeneralRoster, Rosters
    <3> QED
      BY <1>2, <3>1 DEF WithinCap
  <2> QED
    BY <2>1, <2>2
<1> QED
  BY <1>8, <1>9 DEF WithinCap

\* A placement on IR that relied on a free slot leaves the slots in order.
LEMMA PlaceOnIRFits ==
  ASSUME Tagged, NEW call \in Call, call.op = "ir", Promise(rosters, zones, call), Apply(call),
         \A t \in Team : Cardinality(IROccupants(zones, t)) <= IRSlots
  PROVE  \A t \in Team : Cardinality(IROccupants(zones, t)') <= IRSlots
<1>1. call.team \in Team /\ zones \in ZoneTags
  BY DEF Call, Tagged, RostersOK
<1>2. PICK p \in Player : call.player = {p}
  BY DEF Promise
<1>3. \A u \in Team, q \in Player :
        zones'[u][q] = IF u = call.team /\ q \in call.player THEN "ir" ELSE zones[u][q]
  BY <1>1 DEF Apply, Place, ZoneTags
<1>4. ASSUME NEW t \in Team
      PROVE  Cardinality(IROccupants(zones, t)') <= IRSlots
  <2> DEFINE S == IROccupants(zones, t)
             new == IROccupants(zones, t)'
  <2>1. S \in SUBSET Player /\ {} \in SUBSET S /\ {p} \in SUBSET Player
    BY DEF IROccupants
  <2>2. CASE t = call.team
    <3>1. new \in SUBSET ((S \ {}) \cup {p})
      BY <1>2, <1>3, <2>2 DEF IROccupants
    <3>2. Cardinality(S) < IRSlots
      BY <2>2 DEF Promise
    <3>3. Cardinality({p}) = 1 /\ Cardinality({}) = 0 /\ Cardinality(S) \in Nat
      BY <2>1, FS_Singleton, FS_EmptySet, PlayersAreFinite
    <3>4. new \in SUBSET Player
      BY DEF IROccupants
    <3>5. Cardinality(new) \in Nat
      BY <3>4, PlayersAreFinite
    <3> HIDE DEF S, new
    <3>6. Cardinality(new) <= Cardinality(S) - Cardinality({}) + Cardinality({p})
      BY <2>1, <3>1, GainAndLose
    <3>7. Cardinality(new) <= IRSlots
      BY <3>2, <3>3, <3>5, <3>6, LedgerAssumption
    <3> QED
      BY <3>7 DEF new
  <2>3. CASE t # call.team
    <3>1. new = S
      BY <1>3, <2>3 DEF IROccupants
    <3> QED
      BY <3>1
  <2> QED
    BY <2>2, <2>3
<1> QED
  BY <1>4

\* No request to or from IR is under way, or the caller's is the only one.
LEMMA AloneMeans ==
  ASSUME Alone, NEW c \in Caller, pending[c] \in Call, NEW d \in Caller, d # c
  PROVE  pending[d].op \notin {"ir", "activateIR"}
<1>1. pending[c].op \in Ops
  BY DEF Call
<1> QED
  BY <1>1 DEF Alone

\* A step that adds no tag, keeps the players outside IR and no other request
\* to or from IR keeps the invariant.
LEMMA ZoneFrame ==
  ASSUME ZoneInv, IInv', NoOrphanIR', WithinCap',
         \A t \in Team, p \in Player : zones'[t][p] = "ir" => zones[t][p] = "ir",
         \A c \in Caller :
           \/ pending'[c].op \notin {"ir", "activateIR"}
           \/ pending'[c] = pending[c] /\ \A t \in Team : GeneralRoster(t)' = GeneralRoster(t)
  PROVE  ZoneInv'
<1>1. \A t \in Team : Cardinality(IROccupants(zones, t)') <= IRSlots
  <2>1. ASSUME NEW t \in Team
        PROVE  Cardinality(IROccupants(zones', t)) <= IRSlots
    BY <2>1, FewerOnIR, LedgerAssumption DEF ZoneInv
  <2> QED
    BY <2>1 DEF IROccupants
<1>2. ASSUME NEW c \in Caller
      PROVE  Promise(rosters', zones', pending'[c])
  <2>1. CASE pending'[c].op \notin {"ir", "activateIR"}
    BY <2>1 DEF Promise
  <2>2. CASE pending'[c] = pending[c] /\ \A t \in Team : GeneralRoster(t)' = GeneralRoster(t)
    <3>1. /\ rosters \in Rosters /\ zones \in ZoneTags /\ rosters' \in Rosters /\ zones' \in ZoneTags
          /\ pending[c] \in {NoCall} \cup Call \cup Execution
      BY DEF ZoneInv, IInv, TypeOK
    <3>2. pending[c].op \in {"ir", "activateIR"} => pending[c] \in Call
      BY <3>1 DEF NoCall, Execution
    <3>3. \A t \in Team : /\ IROccupants(zones, t) \subseteq rosters[t] /\ IROccupants(zones', t) \subseteq rosters'[t]
                          /\ General(rosters, zones, t) = General(rosters', zones', t)
      BY <2>2 DEF ZoneInv, NoOrphanIR, IROccupants, General, GeneralRoster
    <3>4. Promise(rosters, zones, pending[c])
      BY DEF ZoneInv
    <3>5. Promise(rosters', zones', pending[c])
      BY <3>1, <3>2, <3>3, <3>4, PromiseKept
    <3> QED
      BY <2>2, <3>5
  <2> QED
    BY <2>1, <2>2
<1>3. \A c \in Caller : Promise(rosters, zones, pending[c])'
  BY <1>2 DEF Promise, IROccupants, EffectiveRosterSize
<1> QED
  BY <1>1, <1>3 DEF ZoneInv

\* What requests do to them when a request to or from IR is alone.
LEMMA ZoneRequests ==
  ASSUME ZoneInv, Alone, IInv', Requests
  PROVE  ZoneInv'
<1>1. RostersOK /\ WorldOK /\ RostersOK' /\ Tagged
  BY InvParts DEF ZoneInv, IInv, TypeOK, RostersOK, Tagged
<1> PICK c \in Caller :
      \/ \E op \in Ops, t \in Team, player, drop \in AtMostOne :
           Ask(c, [op |-> op, team |-> t, player |-> player, drop |-> drop])
      \/ Commit(c)
      \/ Refuse(c)
  BY DEF Requests, Request
<1>2. ASSUME NEW op \in Ops, NEW t \in Team, NEW player \in AtMostOne, NEW drop \in AtMostOne,
             Ask(c, [op |-> op, team |-> t, player |-> player, drop |-> drop])
      PROVE  ZoneInv'
  <2> DEFINE call == [op |-> op, team |-> t, player |-> player, drop |-> drop]
  <2>1. call \in Call /\ call.drop \in AtMostOne
    BY DEF Call, AtMostOne
  <2> HIDE DEF call
  <2>2. pending' = [pending EXCEPT ![c] = call] /\ UNCHANGED <<rosters, zones>> /\ Asked(call)
    BY <1>2 DEF Ask, call
  <2>3. Promise(rosters, zones, call)
    BY <2>1, <2>2, AskedPromise
  <2>4. \A e \in Caller : pending'[e] = IF e = c THEN call ELSE pending[e]
    BY <1>1, <2>2 DEF WorldOK
  <2>5. \A e \in Caller : Promise(rosters, zones, pending'[e])
    BY <2>3, <2>4 DEF ZoneInv
  <2> QED
    BY <2>2, <2>5 DEF ZoneInv, NoOrphanIR, WithinCap, GeneralRoster, IROccupants, Promise, EffectiveRosterSize
<1>3. CASE Commit(c)
  <2>1. pending[c] \in Call /\ Apply(pending[c]) /\ pending' = [pending EXCEPT ![c] = NoCall]
    BY <1>1, <1>3 DEF Commit, WorldOK, Execution, Finish
  <2>2. Promise(rosters, zones, pending[c])
    BY DEF ZoneInv
  <2>3. \A e \in Caller : pending'[e].op \notin {"ir", "activateIR"}
    <3>1. \A e \in Caller : pending'[e] = IF e = c THEN NoCall ELSE pending[e]
      BY <1>1, <2>1 DEF WorldOK
    <3>2. \A e \in Caller : e # c => pending[e].op \notin {"ir", "activateIR"}
      BY <2>1, AloneMeans
    <3> QED
      BY <3>1, <3>2 DEF NoCall
  <2>4. CASE pending[c].op = "activateIR"
    BY <1>1, <2>1, <2>2, <2>3, <2>4, ActivateFits, ZoneFrame
  <2>5. CASE pending[c].op = "ir"
    <3>1. WithinCap' /\ NoOrphanIR'
      BY <1>1, <2>1, <2>5, ApplyFits
    <3>2. \A t \in Team : Cardinality(IROccupants(zones, t)') <= IRSlots
      BY <1>1, <2>1, <2>2, <2>5, PlaceOnIRFits DEF ZoneInv
    <3>3. \A e \in Caller : Promise(rosters', zones', pending'[e])
      BY <2>3 DEF Promise
    <3> QED
      BY <3>1, <3>2, <3>3 DEF ZoneInv, Promise, IROccupants, EffectiveRosterSize
  <2>6. CASE pending[c].op \notin {"ir", "activateIR"}
    <3>1. /\ WithinCap' /\ NoOrphanIR'
          /\ \A u \in Team, p \in Player : zones'[u][p] = "ir" => zones[u][p] = "ir"
      BY <1>1, <2>1, <2>6, ApplyFits
    <3> QED
      BY <2>3, <3>1, ZoneFrame
  <2> QED
    BY <2>4, <2>5, <2>6
<1>4. CASE Refuse(c)
  <2>1. UNCHANGED <<rosters, zones>> /\ \A e \in Caller : pending'[e] = IF e = c THEN NoCall ELSE pending[e]
    BY <1>1, <1>4 DEF Refuse, Finish, WorldOK
  <2>2. /\ NoOrphanIR' /\ WithinCap' /\ \A t \in Team : GeneralRoster(t)' = GeneralRoster(t)
    BY <2>1 DEF ZoneInv, NoOrphanIR, WithinCap, GeneralRoster, IROccupants
  <2> QED
    BY <2>1, <2>2, ZoneFrame DEF NoCall
<1> QED
  BY <1>2, <1>3, <1>4

\* What the cut, the trades and the world do to what such a request relies on.
LEMMA ZoneOthers ==
  ASSUME ZoneInv, Alone, IInv', Healing \/ Trading \/ World \/ UNCHANGED vars
  PROVE  ZoneInv'
<1>1. RostersOK /\ OffersOK /\ WorldOK /\ RostersOK' /\ Tagged
  BY InvParts DEF ZoneInv, IInv, TypeOK, RostersOK, Tagged
<1>2. ASSUME UNCHANGED <<rosters, zones>>,
             \A c \in Caller : pending'[c] = pending[c] \/ pending'[c].op \in {"idle", "execute"}
      PROVE  ZoneInv'
  <2>1. NoOrphanIR' /\ WithinCap' /\ \A t \in Team : GeneralRoster(t)' = GeneralRoster(t)
    BY <1>2 DEF ZoneInv, NoOrphanIR, WithinCap, GeneralRoster, IROccupants
  <2> QED
    BY <1>2, <2>1, ZoneFrame
<1>3. CASE AutoCutHealedIR
  <2>1. UNCHANGED pending
    BY <1>3 DEF AutoCutHealedIR
  <2>2. /\ WithinCap' /\ NoOrphanIR' /\ \A u \in Team : GeneralRoster(u)' = GeneralRoster(u)
        /\ \A u \in Team, p \in Player : zones'[u][p] # "general" => zones'[u][p] = zones[u][p]
    BY <1>1, <1>3, AutoCutFits
  <2> QED
    BY <2>1, <2>2, ZoneFrame
<1>4. ASSUME NEW o \in Offer, ExecuteTradeOffer(o),
             \A c \in Caller : pending'[c] = pending[c] \/ pending'[c].op \in {"idle", "execute"}
      PROVE  ZoneInv'
  <2>1. /\ WithinCap' /\ NoOrphanIR'
        /\ \A u \in Team, p \in Player : zones'[u][p] # "general" => zones'[u][p] = zones[u][p]
    BY <1>1, <1>4, ExecuteFits
  <2>2. \A c \in Caller : pending[c].op \notin {"ir", "activateIR"}
    BY <1>4 DEF ExecuteTradeOffer, Executable, Alone
  <2>3. \A c \in Caller : pending'[c].op \notin {"ir", "activateIR"}
    BY <1>4, <2>2
  <2> QED
    BY <2>1, <2>3, ZoneFrame
<1>5. ASSUME NEW t \in Team, NEW p \in Player, TickSeesHealed(t, p)
      PROVE  ZoneInv'
  BY <1>2, <1>5 DEF TickSeesHealed
<1>6. CASE Trading
  <2>1. ASSUME NEW o \in Offer, NEW from \in Team, NEW to \in Team, NEW give, NEW get, Propose(o, from, to, give, get)
        PROVE  ZoneInv'
    BY <1>2, <2>1 DEF Propose
  <2>2. ASSUME NEW o, NEW new, NEW give, NEW get, Counter(o, new, give, get)
        PROVE  ZoneInv'
    BY <1>2, <2>2 DEF Counter
  <2>3. ASSUME NEW o, NEW status, Close(o, status)
        PROVE  ZoneInv'
    BY <1>2, <2>3 DEF Close
  <2>4. ASSUME NEW c \in Caller, NEW o \in Offer, Accept(c, o)
        PROVE  ZoneInv'
    <3>1. UNCHANGED <<rosters, zones>>
      BY <2>4 DEF Accept
    <3>2. \A e \in Caller : pending'[e] = pending[e] \/ pending'[e] = [op |-> "execute", offer |-> o]
      BY <1>1, <2>4 DEF Accept, WorldOK
    <3> QED
      BY <1>2, <3>1, <3>2
  <2>5. ASSUME NEW c \in Caller, ExecuteAccepted(c)
        PROVE  ZoneInv'
    <3>1. pending[c] \in Execution
      BY <1>1, <2>5, MovesAssumption DEF ExecuteAccepted, WorldOK, NoCall, Call
    <3>2. pending[c].offer \in Offer /\ ExecuteTradeOffer(pending[c].offer)
      BY <2>5, <3>1 DEF ExecuteAccepted, Execution
    <3>3. \A e \in Caller : pending'[e] = pending[e] \/ pending'[e].op \in {"idle", "execute"}
      BY <1>1, <2>5 DEF ExecuteAccepted, Finish, WorldOK, NoCall
    <3> QED
      BY <1>4, <3>2, <3>3
  <2>6. ASSUME NEW o \in Offer, ExecuteTradeOffer(o), UNCHANGED pending
        PROVE  ZoneInv'
    BY <1>4, <2>6
  <2>7. ASSUME NEW o, CommissionerVeto(o) \/ \E voter \in Team : VoteVeto(o, voter)
        PROVE  ZoneInv'
    BY <1>2, <2>7 DEF CommissionerVeto, VoteVeto
  <2> QED
    BY <1>6, <2>1, <2>2, <2>3, <2>4, <2>5, <2>6, <2>7 DEF Trading, ApproveTrade, TickExecute, TickExpire
<1>7. CASE World \/ UNCHANGED vars
  <2>1. UNCHANGED <<rosters, zones, pending>>
    BY <1>7 DEF World, Kickoff, WeekCloses, WindowClears, InjuryReport, DeadlinePasses, vars
  <2> QED
    BY <1>2, <2>1
<1> QED
  BY <1>3, <1>5, <1>6, <1>7 DEF Healing

\* The season starts without tags and without requests.
LEMMA ZoneInit == Init => ZoneInv
<1> SUFFICES ASSUME Init PROVE ZoneInv
  OBVIOUS
<1>1. IInv /\ NoOrphanZone /\ WithinCap
  BY InitIInv, CapInit
<1>2. ASSUME NEW t \in Team
      PROVE  Cardinality(IROccupants(zones, t)) <= IRSlots
  <2>1. IROccupants(zones, t) = {}
    BY DEF Init, IROccupants
  <2> QED
    BY <2>1, FS_EmptySet, LedgerAssumption
<1>3. \A c \in Caller : Promise(rosters, zones, pending[c])
  BY DEF Init, Promise, NoCall
<1> QED
  BY <1>1, <1>2, <1>3, NoOrphanMeans DEF ZoneInv

\* As long as a request to or from IR is alone while it is under way, the cap,
\* the IR slots and the IR tags agree, whatever other requests, trades, healings
\* and automatic cuts interleave: what PlaceInIR and ActivateFromIR checked on
\* the snapshot, and the Store does not look at again, is then still so.
THEOREM RostersFitWhenAlone == Spec /\ []Alone => []RostersFit
<1>1. ZoneInv /\ Alone /\ [Next]_vars => ZoneInv'
  <2> SUFFICES ASSUME ZoneInv, Alone, [Next]_vars
               PROVE  ZoneInv'
    OBVIOUS
  <2>1. IInv'
    BY NextIInv DEF ZoneInv
  <2> QED
    BY <2>1, ZoneRequests, ZoneOthers DEF Next
<1>2. ZoneInv => RostersFit
  <2> SUFFICES ASSUME ZoneInv PROVE RostersFit
    OBVIOUS
  <2>1. ASSUME NEW t \in Team
        PROVE  Cardinality(rosters[t] \cap IROccupants(zones, t)) <= IRSlots
    <3>1. rosters[t] \cap IROccupants(zones, t) = IROccupants(zones, t)
      BY DEF ZoneInv, NoOrphanIR
    <3> QED
      BY <3>1 DEF ZoneInv
  <2> QED
    BY <2>1 DEF ZoneInv, RostersFit, IRWithinSlots
<1> QED
  BY <1>1, <1>2, ZoneInit, PTL DEF Spec
=============================================================================

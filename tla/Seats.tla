-------------------------------- MODULE Seats --------------------------------
(***************************************************************************)
(* Who holds a franchise (internal/league/store.go, service.go, admin.go): *)
(* admission, claims, co-managers, releases, the trim of unclaimed seats,  *)
(* and what belongs to a seat rather than to a person: READY, AUTO, the    *)
(* draft board. A manager's request takes its seat from a snapshot and     *)
(* changes the store in a later step; a claim looks for a pending          *)
(* invitation in the first step only. The commissioner's destructive forms *)
(* carry a token of what their page showed.                                *)
(***************************************************************************)
EXTENDS Integers, FiniteSets, SequencesExt

CONSTANTS
  Seat,               \* seats, numbered in the order of activeTeams
  Person,             \* canonical addresses
  Ranked,             \* players on boards
  BoardLimit,         \* entries of one board
  MinTeams,           \* seats a trim must leave
  NoMember, NoSeat, NoRequest, NoForm,
  MaxRequests,        \* bound: manager requests
  MaxTenures          \* bound: a seat's revision

ASSUME SeatAssumption ==
  /\ Seat \subseteq Nat /\ NoSeat \notin Seat /\ Seat \cap Person = {}
  /\ IsFiniteSet(Person) /\ BoardLimit \in Nat \ {0}
  /\ NoMember \notin [team : Seat \cup {NoSeat}, role : {"primary", "co"}]

VARIABLES
  member,             \* Members
  coInvite,           \* CoInvites, by invited person
  invited,            \* Invites
  ready, auto,        \* seats whose Ready, Autopick flag is on
  revision,           \* SeatRevisions
  board, escrow,      \* Boards, under an address and under a seat's escrow key
  trimmed,            \* TrimmedTeamIDs
  draftOrder, schedule, \* the teams DraftOrder and Schedule name, {} if unset
  started,            \* DraftStarted
  request,            \* per person, what its request took from the snapshot
  releaseForm,        \* per seat, the token of the release form
  trimForm,           \* the token of the trim form
  requests,
  stray               \* history: seats and people a late request reached

tenure   == <<member, coInvite, ready, auto, revision>>
boards   == <<board, escrow>>
topology == <<trimmed, draftOrder, schedule, started>>
forms    == <<releaseForm, trimForm>>
seatVars == <<tenure, invited, boards, topology, request, forms, requests, stray>>

Seated(t, role)  == [team |-> t, role |-> role]
Unseated         == Seated(NoSeat, "primary")
HasSeat(p)       == member[p] # NoMember /\ member[p] # Unseated
Members(t)       == {p \in Person : HasSeat(p) /\ member[p].team = t}
Holding(t, role) == {p \in Members(t) : member[p].role = role}
Pending(t)       == {p \in Person : coInvite[p] = t}

\* memberForTeam
Claimed(t) == Members(t) # {}

-----------------------------------------------------------------------------
(* Boards *)

\* Mutant: the second order loses what does not follow the first
MergeFirst(a, b) == a

\* mergeUniqueBoardOrders
Merge(a, b) ==
  LET merged[n \in 0..Len(b)] ==
        IF n = 0 THEN a
        ELSE IF Contains(merged[n - 1], b[n]) THEN merged[n - 1]
        ELSE Append(merged[n - 1], b[n])
  IN  merged[Len(b)]

Fits(s) == Len(s) <= BoardLimit

\* requestSeatAuthority: the board of a seat is its primary's
OwnerKey(p) ==
  LET primaries == Holding(member[p].team, "primary")
  IN  IF primaries = {} THEN p ELSE CHOOSE q \in primaries : TRUE

BoardAdd(key, x) ==
  /\ board' = [board EXCEPT ![key] =
                 IF Contains(@, x) \/ Len(@) >= BoardLimit THEN @ ELSE Append(@, x)]
  /\ UNCHANGED escrow

-----------------------------------------------------------------------------
(* Admission and claims *)

\* EmailAllowed without a configured domain: without an invitation anybody may
\* enter, and a member always
Admitted(p) == member[p] # NoMember \/ invited = {} \/ p \in invited

\* EnsureMember, at sign-in
SignIn(p) ==
  /\ Admitted(p) /\ member[p] = NoMember
  /\ member' = [member EXCEPT ![p] = Unseated]
  /\ UNCHANGED <<coInvite, ready, auto, revision, invited, boards, topology, request, forms, requests, stray>>

AddInvite(p) ==
  /\ p \notin invited
  /\ invited' = invited \cup {p}
  /\ UNCHANGED <<tenure, boards, topology, request, forms, requests, stray>>

RemoveInvite(p) ==
  /\ p \in invited
  /\ invited' = invited \ {p}
  /\ UNCHANGED <<tenure, boards, topology, request, forms, requests, stray>>

OpenSeats == {t \in Seat : ~Claimed(t) /\ t \notin trimmed}

\* The released order becomes the claimant's
Promotes(t, p) ==
  /\ board' = [board EXCEPT ![p] = IF escrow[t] = <<>> THEN @ ELSE Merge(escrow[t], @)]
  /\ escrow' = [escrow EXCEPT ![t] = <<>>]

\* ClaimFantasySeatTransaction
Claim(p) ==
  IF HasSeat(p) \/ OpenSeats = {}
  THEN UNCHANGED <<tenure, boards>>
  ELSE LET t == CHOOSE u \in OpenSeats : \A w \in OpenSeats : u <= w
       IN  IF ~Fits(Merge(escrow[t], board[p])) /\ escrow[t] # <<>>
           THEN UNCHANGED <<tenure, boards>>
           ELSE /\ member' = [member EXCEPT ![p] = Seated(t, "primary")]
                /\ revision' = [revision EXCEPT ![t] = @ + 1]
                /\ Promotes(t, p)
                /\ UNCHANGED <<coInvite, ready, auto>>

-----------------------------------------------------------------------------
(* Requests of managers *)

\* claimFantasySeat, on its snapshot
MayClaim(p) == coInvite[p] = NoSeat /\ member[p] = Unseated

Ask(p, op, arg, key) ==
  /\ request[p] = NoRequest /\ requests < MaxRequests
  /\ requests' = requests + 1
  /\ request' = [request EXCEPT ![p] =
       [op |-> op, seat |-> member[p].team, arg |-> arg, key |-> key,
        rev |-> IF HasSeat(p) THEN revision[member[p].team] ELSE 0]]
  /\ UNCHANGED <<tenure, invited, boards, topology, forms, stray>>

\* ToggleReady, ToggleAutopick, BoardAdd, InviteCoManager; ClaimFantasySeat
AskSome(p) ==
  \/ HasSeat(p) /\ Ask(p, "ready", NoSeat, p)
  \/ HasSeat(p) /\ Ask(p, "auto", member[p].team \notin auto, p)
  \/ HasSeat(p) /\ \E x \in Ranked : Ask(p, "board", x, OwnerKey(p))
  \/ HasSeat(p) /\ member[p].role = "primary" /\ \E q \in Person : Ask(p, "invite", q, p)
  \/ MayClaim(p) /\ Ask(p, "claim", NoSeat, p)

\* Mutant: a pending invitation of the seat does not count
MayInviteBound(t, q) == ~HasSeat(q) /\ Holding(t, "co") = {}

\* Store.InviteCoManager
MayInvite(t, q) ==
  ~HasSeat(q) /\ Holding(t, "co") = {} /\ Pending(t) \subseteq {q}

InviteCoManager(t, q) ==
  IF MayInvite(t, q)
  THEN coInvite' = [coInvite EXCEPT ![q] = t] /\ invited' = invited \cup {q}
  ELSE UNCHANGED <<coInvite, invited>>

\* The tenure a request was made in has ended, or the board's owner has left
Late(r) ==
  /\ r.op # "claim"
  /\ r.rev # revision[r.seat] \/ (r.op = "board" /\ r.key \notin Members(r.seat))

Land(p) ==
  LET r == request[p] IN
  /\ r # NoRequest
  /\ request' = [request EXCEPT ![p] = NoRequest]
  /\ \/ /\ r.op = "ready"
        /\ ready' = IF r.seat \in ready THEN ready \ {r.seat} ELSE ready \cup {r.seat}
        /\ UNCHANGED <<member, coInvite, auto, revision, invited, boards>>
     \/ /\ r.op = "auto"
        /\ auto' = IF r.arg THEN auto \cup {r.seat} ELSE auto \ {r.seat}
        /\ UNCHANGED <<member, coInvite, ready, revision, invited, boards>>
     \/ r.op = "board" /\ BoardAdd(r.key, r.arg) /\ UNCHANGED <<tenure, invited>>
     \/ /\ r.op = "invite" /\ InviteCoManager(r.seat, r.arg)
        /\ UNCHANGED <<member, ready, auto, revision, boards>>
     \/ r.op = "claim" /\ Claim(p) /\ UNCHANGED invited
  /\ stray' = stray \cup (IF Late(r) THEN {r.seat, r.key} ELSE {})
  /\ UNCHANGED <<topology, forms, requests>>

\* mergeLegacyCoBoardLocked
Folds(t, p) ==
  /\ board' = IF Holding(t, "primary") = {} THEN board
              ELSE LET q == CHOOSE r \in Holding(t, "primary") : TRUE
                   IN  [board EXCEPT ![q] = Merge(@, board[p]), ![p] = <<>>]
  /\ UNCHANGED escrow

MayBind(p) == ~HasSeat(p)

\* ConfirmCoManagerJoin: BindCoManager
Join(p) ==
  LET t == coInvite[p] IN
  /\ t # NoSeat /\ MayBind(p)
  /\ Holding(t, "primary") # {} => \A q \in Holding(t, "primary") : Fits(Merge(board[q], board[p]))
  /\ member' = [member EXCEPT ![p] = Seated(t, "co")]
  /\ coInvite' = [coInvite EXCEPT ![p] = NoSeat]
  /\ Folds(t, p)
  /\ UNCHANGED <<ready, auto, revision, invited, topology, request, forms, requests, stray>>

\* DetachCoManager, by the primary or the commissioner
Detach(t) ==
  /\ Holding(t, "co") \cup Pending(t) # {}
  /\ member' = [p \in Person |-> IF p \in Holding(t, "co") THEN NoMember ELSE member[p]]
  /\ coInvite' = [p \in Person |-> IF coInvite[p] = t THEN NoSeat ELSE coInvite[p]]
  /\ UNCHANGED <<ready, auto, revision, invited, boards, topology, request, forms, requests, stray>>

-----------------------------------------------------------------------------
(* The commissioner *)

\* SetReady and SetAutopickIfClaimed look for a member under the store's lock
SetReady(t) ==
  /\ Claimed(t)
  /\ ready' \in {ready \cup {t}, ready \ {t}} \ {ready}
  /\ UNCHANGED <<member, coInvite, auto, revision, invited, boards, topology, request, forms, requests, stray>>

SetAutopickIfClaimed(t) ==
  /\ Claimed(t)
  /\ auto' \in {auto \cup {t}, auto \ {t}} \ {auto}
  /\ UNCHANGED <<member, coInvite, ready, revision, invited, boards, topology, request, forms, requests, stray>>

\* Mutant: the token of a seat without its revision
SeatReleaseTokenOfPeople(t) ==
  [primary |-> Holding(t, "primary"), co |-> Holding(t, "co"), pending |-> Pending(t), revision |-> 0]

SeatReleaseToken(t) ==
  [primary |-> Holding(t, "primary"), co |-> Holding(t, "co"), pending |-> Pending(t),
   revision |-> revision[t]]

RenderReleaseForm(t) ==
  /\ Claimed(t) /\ releaseForm[t] = NoForm
  /\ releaseForm' = [releaseForm EXCEPT ![t] = [token |-> SeatReleaseToken(t), tenure |-> revision[t]]]
  /\ UNCHANGED <<tenure, invited, boards, topology, request, trimForm, requests, stray>>

\* Mutant: the seat's flags wait for the next manager
ReleasedFlagsKept(flags, t) == flags

ReleasedFlags(flags, t) == flags \ {t}

ReleasedInvites(t) == coInvite' = [p \in Person |-> IF coInvite[p] = t THEN NoSeat ELSE coInvite[p]]

\* What releaseSeat puts into escrow: the primary's order, the co's, an older escrow
EscrowedBoard(t) ==
  LET of(role) == IF Holding(t, role) = {} THEN <<>>
                  ELSE board[CHOOSE p \in Holding(t, role) : TRUE]
  IN  Merge(Merge(of("primary"), of("co")), escrow[t])

\* ReleaseSeatConfirmed
Release(t) ==
  /\ releaseForm[t] # NoForm
  /\ releaseForm' = [releaseForm EXCEPT ![t] = NoForm]
  /\ IF Claimed(t) /\ releaseForm[t].token = SeatReleaseToken(t) /\ Fits(EscrowedBoard(t))
     THEN /\ member' = [p \in Person |-> IF p \in Members(t) THEN NoMember ELSE member[p]]
          /\ ReleasedInvites(t)
          /\ ready' = ReleasedFlags(ready, t)
          /\ auto' = ReleasedFlags(auto, t)
          /\ revision' = [revision EXCEPT ![t] = @ + 1]
          /\ escrow' = [escrow EXCEPT ![t] = EscrowedBoard(t)]
          /\ board' = [p \in Person |-> IF p \in Members(t) THEN <<>> ELSE board[p]]
          /\ stray' = stray \ {t}
     ELSE UNCHANGED <<tenure, boards, stray>>
  /\ UNCHANGED <<invited, topology, request, trimForm, requests>>

Unclaimed == {t \in Seat : ~Claimed(t)}

SeatTrimToken == [seats |-> Unclaimed, order |-> draftOrder, schedule |-> schedule]

RenderTrimForm ==
  /\ trimForm = NoForm
  /\ trimForm' = [token |-> SeatTrimToken, seats |-> Unclaimed]
  /\ UNCHANGED <<tenure, invited, boards, topology, request, releaseForm, requests, stray>>

\* Mutant: order and schedule keep the seats that went
TrimsSeatsOnly == UNCHANGED <<draftOrder, schedule>>

TrimsPlans == draftOrder' = {} /\ schedule' = {}

\* TrimUnclaimedSeatsConfirmed
Trim ==
  /\ trimForm # NoForm
  /\ trimForm' = NoForm
  /\ IF /\ ~started /\ trimmed = {}
        /\ Cardinality(Seat \ Unclaimed) >= MinTeams
        /\ trimForm.token = SeatTrimToken
     THEN trimmed' = Unclaimed /\ TrimsPlans
     ELSE UNCHANGED <<trimmed, draftOrder, schedule>>
  /\ UNCHANGED <<tenure, invited, boards, started, request, releaseForm, requests, stray>>

\* AdminRandomizeDraftOrder draws the order and, without one, a schedule
DrawOrder ==
  /\ ~started /\ draftOrder # Seat \ trimmed
  /\ draftOrder' = Seat \ trimmed
  /\ schedule' = IF schedule = {} THEN Seat \ trimmed ELSE schedule
  /\ UNCHANGED <<tenure, invited, boards, trimmed, started, request, forms, requests, stray>>

GenerateSchedule ==
  /\ schedule = {}
  /\ schedule' = Seat \ trimmed
  /\ UNCHANGED <<tenure, invited, boards, trimmed, draftOrder, started, request, forms, requests, stray>>

StartDraft ==
  /\ ~started /\ draftOrder # {}
  /\ started' = TRUE
  /\ UNCHANGED <<tenure, invited, boards, trimmed, draftOrder, schedule, request, forms, requests, stray>>

\* ResetLeague: people sign in and claim again; invitations stay
ResetSeats ==
  /\ member' = [p \in Person |-> NoMember]
  /\ coInvite' = [p \in Person |-> NoSeat]
  /\ ready' = {} /\ auto' = {}
  /\ revision' = [t \in Seat |-> revision[t] + 1]
  /\ board' = [p \in Person |-> <<>>] /\ escrow' = [t \in Seat |-> <<>>]
  /\ trimmed' = {} /\ draftOrder' = {} /\ schedule' = {} /\ started' = FALSE
  /\ stray' = {}
  /\ UNCHANGED <<invited, request, forms, requests>>

-----------------------------------------------------------------------------

\* People and seatless members with a personal board of before the boards
\* belonged to seats
SeatsInit ==
  /\ member = [p \in Person |-> NoMember]
  /\ coInvite = [p \in Person |-> NoSeat]
  /\ invited = {} /\ ready = {} /\ auto = {}
  /\ revision = [t \in Seat |-> 0]
  /\ board \in [Person -> {<<>>} \cup {<<x>> : x \in Ranked}]
  /\ Cardinality({p \in Person : board[p] # <<>>}) <= 1
  /\ escrow = [t \in Seat |-> <<>>]
  /\ trimmed = {} /\ draftOrder = {} /\ schedule = {} /\ started = FALSE
  /\ request = [p \in Person |-> NoRequest]
  /\ releaseForm = [t \in Seat |-> NoForm] /\ trimForm = NoForm
  /\ requests = 0 /\ stray = {}

Tenures == \A t \in Seat : revision'[t] <= MaxTenures

SeatsNext ==
  /\ \/ \E p \in Person : SignIn(p) \/ AddInvite(p) \/ RemoveInvite(p)
     \/ \E p \in Person : AskSome(p) \/ Land(p) \/ Join(p)
     \/ \E t \in Seat : Detach(t) \/ SetReady(t) \/ SetAutopickIfClaimed(t)
     \/ \E t \in Seat : RenderReleaseForm(t) \/ Release(t)
     \/ RenderTrimForm \/ Trim \/ DrawOrder \/ GenerateSchedule \/ StartDraft
     \/ ResetSeats
  /\ Tenures

SeatsSpec == SeatsInit /\ [][SeatsNext]_seatVars

-----------------------------------------------------------------------------
(* Properties *)

SeatsTypeOK ==
  /\ \A p \in Person : /\ member[p] # NoMember => member[p].team \in Seat \cup {NoSeat}
                       /\ coInvite[p] \in Seat \cup {NoSeat}
                       /\ Fits(board[p]) /\ IsInjective(board[p])
  /\ \A t \in Seat : Fits(escrow[t]) /\ IsInjective(escrow[t])
  /\ ready \cup auto \cup trimmed \cup draftOrder \cup schedule \subseteq Seat

\* A seat has one primary and one co-manager, bound or pending, however claims,
\* invitations and joins interleave (InviteCoManager, BindCoManager).
OneOfEach ==
  \A t \in Seat : /\ Cardinality(Holding(t, "primary")) <= 1
                  /\ Cardinality(Holding(t, "co") \cup Pending(t)) <= 1

\* READY, AUTO, a co-manager or an invitation is on a seat somebody holds as
\* primary, unless a request landed after its manager had lost the seat
\* (SetReady: "a concurrent ReleaseSeat can never leave an unclaimed seat
\* marked ready").
NothingOutlivesTenure ==
  \A t \in Seat \ stray :
    Holding(t, "primary") = {} =>
      t \notin ready \cup auto /\ Members(t) = {} /\ Pending(t) = {}

\* A seat has one board: a co-manager keeps none of its own, nor a held seat an
\* escrowed one, and nobody but late writers a board without a seat
\* (mergeLegacyCoBoardLocked, Promotes, releaseSeat).
OneBoardPerSeat ==
  /\ \A p \in Person \ stray :
       HasSeat(p) /\ member[p].role = "co" /\ member[p].team \notin stray => board[p] = <<>>
  /\ \A t \in Seat : Holding(t, "primary") # {} => escrow[t] = <<>>

\* No member is on a trimmed seat, and order and schedule name the seats that
\* are left (TrimUnclaimedSeatsConfirmed, ResetLeague).
TrimHolds ==
  /\ \A t \in trimmed \ stray : Members(t) = {}
  /\ draftOrder \in {{}, Seat \ trimmed} /\ schedule \in {{}, Seat \ trimmed}

\* A release ends the tenure its page showed, not a later one of the same
\* people (seatReleaseToken), and a trim takes the seats its page showed.
FormsHitWhatTheyShowed ==
  [][/\ \A t \in Seat :
          releaseForm[t] # NoForm /\ releaseForm'[t] = NoForm /\ revision'[t] # revision[t]
            => releaseForm[t].tenure = revision[t]
     /\ trimForm # NoForm /\ trimForm' = NoForm /\ trimmed' # trimmed
            => trimmed' = trimForm.seats]_seatVars

Entries == UNION ({Range(board[p]) : p \in Person} \cup {Range(escrow[t]) : t \in Seat})

\* Nothing but a reset takes an entry off the boards: releases, claims and joins
\* only move it (mergeUniqueBoardOrders).
EntriesSurvive == [][Entries \subseteq Entries' \/ ResetSeats]_seatVars

\* The seats and what hangs on them: one holder each, nothing that outlives
\* its tenure, one board a seat, nobody on a trimmed seat.
SeatsAreSound ==
  SeatsTypeOK /\ OneOfEach /\ NothingOutlivesTenure /\ OneBoardPerSeat /\ TrimHolds

\* A confirmed form ends the tenure and trims the seats its page showed, and
\* no entry of a board is lost on the way.
ConfirmedMeansShown == FormsHitWhatTheyShowed /\ EntriesSurvive
=============================================================================

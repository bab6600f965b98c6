----------------------------- MODULE SeasonWeek -----------------------------
(***************************************************************************)
(* One team's season: the lineup a week resolves to, the manager's lineup  *)
(* edits, the final boxes of the NFL games, and the close of a week by the *)
(* roster tick or by the commissioner.                                     *)
(* Source: internal/league/lineup.go, season.go, rosterops.go, scorer.go,  *)
(* final_game_stats.go, week_authority.go, store.go.                       *)
(* Lineups of different teams never meet, so one team stands for each.  A  *)
(* lineup edit and a close read a snapshot and write later; the Store's    *)
(* write is one step.  Every game has a published kickoff; projections and *)
(* injuries stay as they are; players in the reserve and IR zones are not  *)
(* part of the roster here.                                                *)
(***************************************************************************)
EXTENDS Integers, FiniteSets, Sequences

CONSTANTS
  Player,       (* the pool                                               *)
  Nobody,       (* an empty slot                                          *)
  Slot, SlotOrder,  (* the starting slots, and their engine order         *)
  Fit,          (* SlotDef.Fits: the players each slot takes              *)
  Projection,   (* of each player; no two are equal                       *)
  RosterSize,   (* the roster cap                                         *)
  FirstRoster,  (* the roster at the start                                *)
  LastWeek,     (* the schedule's weeks are 1..LastWeek                   *)
  NFLGame,      (* the NFL schedule                                       *)
  WeekOf, Kickoff,  (* of each game                                       *)
  GameOf,       (* each week's game of a player, NoGame on a bye          *)
  NoGame,
  Turn,         (* weekCloseTurnAt of each week                           *)
  Horizon,      (* bound: the clock stops here                            *)
  EditWeeks,    (* the weeks the manager edits                            *)
  MaxEdits, MaxMoves, MaxReopens  (* bounds: lineup edits, roster moves,
                                     boxes reopened                       *)

Week == 1 .. LastWeek

Games(w) == {g \in NFLGame : WeekOf[g] = w}

LastKickoff(w) == CHOOSE k \in {Kickoff[g] : g \in Games(w)} :
                    \A g \in Games(w) : Kickoff[g] <= k

\* The estimated end of the week's last game, one tick after its kickoff
SettleFloor(w) == LastKickoff(w) + 1

ASSUME SeasonAssumption ==
  /\ LastWeek \in Nat \ {0} /\ Horizon \in Nat /\ RosterSize \in Nat
  /\ IsFiniteSet(Player) /\ Nobody \notin Player
  /\ FirstRoster \subseteq Player /\ Cardinality(FirstRoster) <= RosterSize
  /\ EditWeeks \subseteq Week

ASSUME LineupAssumption ==
  /\ SlotOrder \in Seq(Slot) /\ Fit \in [Slot -> SUBSET Player]
  /\ Projection \in [Player -> Int]
  /\ \A p, q \in Player : Projection[p] = Projection[q] => p = q

ASSUME ScheduleAssumption ==
  /\ IsFiniteSet(NFLGame) /\ NoGame \notin NFLGame
  /\ WeekOf \in [NFLGame -> Week] /\ Kickoff \in [NFLGame -> Nat] /\ Turn \in [Week -> Nat]
  /\ \A w \in Week : Games(w) # {} /\ Turn[w] > LastKickoff(w)
  /\ \A w \in Week, p \in Player : GameOf[w][p] \in Games(w) \cup {NoGame}
  /\ \A g \in NFLGame : Kickoff[g] + 1 <= Horizon

VARIABLES
  clock,     (* the time                                                  *)
  statsAt,   (* when the weekly stat mirror was last fetched              *)
  over,      (* games the schedule feed reports final                     *)
  boxes,     (* FinalGameStats                                            *)
  roster,
  lineups,   (* Lineups: each week's explicit slots, or Inherit           *)
  markers,   (* LineupAutoFilled: the explicit slots a write pinned       *)
  edit,      (* the manager's edit between its snapshot and its write     *)
  closing,   (* each closer's close between its snapshots and its write   *)
  final,     (* the weeks whose matchups are all final                    *)
  posted,    (* the score of a final week: who counted and how            *)
  closedBy,  (* history: who closed the week                              *)
  phase,
  edits, moves, reopens

vars == <<clock, statsAt, over, boxes, roster, lineups, markers, edit, closing,
          final, posted, closedBy, phase, edits, moves, reopens>>

Inherit == <<>>
NoBox   == "none"
Idle    == [stage |-> "idle"]

\* The tick and the commissioner
Closer == {"tick", "admin"}

Final(w) == w \in final

-----------------------------------------------------------------------------
(* The lineup of a week *)

EmptyMap == [s \in Slot |-> Nobody]

\* storedLineupSource: the nearest week, walking back, with an explicit map
SourceWeek(l, w) ==
  LET stored == {v \in 1 .. w : l[v] # Inherit}
  IN  IF stored = {} THEN 0 ELSE CHOOSE v \in stored : \A u \in stored : u <= v

Source(l, w) == IF SourceWeek(l, w) = 0 THEN EmptyMap ELSE l[SourceWeek(l, w)]

SourceMarkers(l, m, w) == IF SourceWeek(l, w) = 0 THEN {} ELSE m[SourceWeek(l, w)]

HasGame(p, w) == p # Nobody /\ GameOf[w][p] # NoGame

\* playerLocked
Locked(p, w, now) == HasGame(p, w) /\ now >= Kickoff[GameOf[w][p]]

\* bestAutoFillCandidate: a bye only when nobody else is left
Better(p, q, w) ==
  \/ HasGame(p, w) /\ ~HasGame(q, w)
  \/ HasGame(p, w) = HasGame(q, w) /\ Projection[p] > Projection[q]

Best(candidates, w) ==
  IF candidates = {} THEN Nobody
  ELSE CHOOSE p \in candidates : \A q \in candidates \ {p} : Better(p, q, w)

Starters(a) == {a[s] : s \in Slot} \ {Nobody}

FillSlot(a, s, pool, w) ==
  IF a[s] # Nobody THEN a ELSE [a EXCEPT ![s] = Best((pool \cap Fit[s]) \ Starters(a), w)]

\* Every empty slot takes the best of the pool that is left, in engine order
Fill(a, pool, w) ==
  LET fill[i \in 0 .. Len(SlotOrder)] ==
        IF i = 0 THEN a ELSE FillSlot(fill[i - 1], SlotOrder[i], pool, w)
  IN  fill[Len(SlotOrder)]

\* The explicit entries the roster still backs
Backed(l, r, w) ==
  [s \in Slot |-> IF Source(l, w)[s] \in r THEN Source(l, w)[s] ELSE Nobody]

\* effectiveLineup; whether a candidate is locked plays no part
Lineup(l, r, w) == Fill(Backed(l, r, w), r, w)

\* effectiveLineupWithState's AutoFilled
AutoFilled(l, m, r, w) ==
  {s \in Slot : /\ Lineup(l, r, w)[s] # Nobody
                /\ Backed(l, r, w)[s] = Nobody \/ s \in SourceMarkers(l, m, w)}

-----------------------------------------------------------------------------
(* Lineup edits *)

\* What a request's snapshot holds
Seen == [lineups |-> lineups, markers |-> markers, roster |-> roster, at |-> clock,
         now |-> [w \in EditWeeks |-> Lineup(lineups, roster, w)]]

Now(see, w) == see.now[w]

\* newLineupTransferSnapshot: the explicit base, with every locked auto-filled
\* starter pinned
Kept(see, w) ==
  {s \in AutoFilled(see.lineups, see.markers, see.roster, w) : Locked(Now(see, w)[s], w, see.at)}

\* Mutant: a starter auto-fill chose is not pinned once locked
BaseUnpinned(see, w) ==
  [map |-> Source(see.lineups, w), marks |-> SourceMarkers(see.lineups, see.markers, w)]

Base(see, w) ==
  [map   |-> [s \in Slot |-> IF s \in Kept(see, w) THEN Now(see, w)[s] ELSE Source(see.lineups, w)[s]],
   marks |-> SourceMarkers(see.lineups, see.markers, w) \cup Kept(see, w)]

\* Delete entries of a player wherever they stand, and their markers
Without(b, p) ==
  [map   |-> [s \in Slot |-> IF b.map[s] = p THEN Nobody ELSE b.map[s]],
   marks |-> {s \in b.marks : b.map[s] # p}]

Put(b, s, p) == [map |-> [b.map EXCEPT ![s] = p], marks |-> b.marks \ {s}]

SlotFree(see, w, s) == LET p == Now(see, w)[s] IN p = Nobody \/ ~Locked(p, w, see.at)

Playable(see, w, p, s) == p \in see.roster /\ p \in Fit[s] /\ ~Locked(p, w, see.at)

\* SetLineup with a player, L4 to L7
MaySet(see, w, p, s) ==
  /\ Playable(see, w, p, s)
  /\ Now(see, w)[s] = p \/ SlotFree(see, w, s)

\* Mutant: the player keeps the slot he came from
SetCopies(see, w, p, s) == Put(Base(see, w), s, p)

Set(see, w, p, s) == Put(Without(Base(see, w), p), s, p)

\* SetLineup with no player, L8
MayClear(see, w, s) == SlotFree(see, w, s)

Clear(see, w, s) == Put(Base(see, w), s, Nobody)

From(see, w, p) == {s \in Slot : Now(see, w)[s] = p}

\* LineupMovePlayerTo; LineupMove names the player by his slot
MayMove(see, w, p, s) ==
  /\ Playable(see, w, p, s)
  /\ SlotFree(see, w, s)
  /\ Now(see, w)[s] # p
  /\ \A f \in From(see, w, p) : Now(see, w)[s] \in Fit[f] \cup {Nobody}

Move(see, w, p, s) ==
  LET other == Now(see, w)[s]
      out   == Without(Without(Base(see, w), p), other)
      back  == [map   |-> [f \in Slot |-> IF f \in From(see, w, p) THEN other ELSE out.map[f]],
                marks |-> out.marks \ From(see, w, p)]
  IN  Put(IF other = Nobody THEN Without(Base(see, w), p) ELSE back, s, p)

\* autoFillWeek: the locked starters stay, the rest from the unlocked
AutoFillWeek(see, w) ==
  LET stay == [s \in Slot |-> IF Locked(Now(see, w)[s], w, see.at) THEN Now(see, w)[s] ELSE Nobody]
  IN  [map   |-> Fill(stay, {p \in see.roster : ~Locked(p, w, see.at)}, w),
       marks |-> {}]

Request == [op : {"set", "move"}, week : EditWeeks, player : Player, slot : Slot]
             \cup [op : {"clear"}, week : EditWeeks, slot : Slot]
             \cup [op : {"auto"}, week : EditWeeks]

Allowed(req, see) ==
  CASE req.op = "set"   -> MaySet(see, req.week, req.player, req.slot)
    [] req.op = "move"  -> MayMove(see, req.week, req.player, req.slot)
    [] req.op = "clear" -> MayClear(see, req.week, req.slot)
    [] req.op = "auto"  -> TRUE

Result(req, see) ==
  CASE req.op = "set"   -> Set(see, req.week, req.player, req.slot)
    [] req.op = "move"  -> Move(see, req.week, req.player, req.slot)
    [] req.op = "clear" -> Clear(see, req.week, req.slot)
    [] req.op = "auto"  -> AutoFillWeek(see, req.week)

\* lineupCurrentWeekAt: a week stays current for four hours after a kickoff
CurrentWeek ==
  LET upcoming == {w \in Week : \E g \in Games(w) : Kickoff[g] >= clock}
  IN  IF upcoming = {} THEN LastWeek
      ELSE CHOOSE w \in upcoming : \A v \in upcoming : w <= v

Ask(req, see) ==
  /\ edit = Idle /\ edits < MaxEdits
  /\ req.week >= CurrentWeek
  /\ Allowed(req, see)
  /\ edit' = [stage |-> "asked", req |-> req, see |-> see]
  /\ edits' = edits + 1
  /\ UNCHANGED <<clock, statsAt, over, boxes, roster, lineups, markers, closing,
                 final, posted, closedBy, phase, moves, reopens>>

\* Mutant: the inherited base is not compared
UnchangedHereOnly(see, w) ==
  lineups[w] = see.lineups[w] /\ markers[w] = see.markers[w]

\* SetLineupWeekIfUnchanged's comparison
Unchanged(see, w) ==
  /\ lineups[w] = see.lineups[w] /\ markers[w] = see.markers[w]
  /\ SourceWeek(lineups, w) = SourceWeek(see.lineups, w)
  /\ Source(lineups, w) = Source(see.lineups, w)
  /\ SourceMarkers(lineups, markers, w) = SourceMarkers(see.lineups, see.markers, w)

\* Mutant: a week that turned final takes the write
WritableLate(req, see) == req.op = "auto" \/ Unchanged(see, req.week)

\* LineupAuto's SetLineupWeek compares nothing
Writable(req, see) ==
  /\ req.op = "auto" \/ Unchanged(see, req.week)
  /\ ~Final(req.week)

Commit ==
  /\ edit # Idle
  /\ Writable(edit.req, edit.see)
  /\ LET r == Result(edit.req, edit.see)
     IN  /\ lineups' = [lineups EXCEPT ![edit.req.week] = r.map]
         /\ markers' = [markers EXCEPT ![edit.req.week] = r.marks]
  /\ edit' = Idle
  /\ UNCHANGED <<clock, statsAt, over, boxes, roster, closing, final, posted, closedBy,
                 phase, edits, moves, reopens>>

\* The write is refused, or the process stopped before it
Refused ==
  /\ edit # Idle
  /\ edit' = Idle
  /\ UNCHANGED <<clock, statsAt, over, boxes, roster, lineups, markers, closing,
                 final, posted, closedBy, phase, edits, moves, reopens>>

-----------------------------------------------------------------------------
(* Roster moves *)

\* playerLockedForRosterMutation
LockedForMutation(p) ==
  \/ Locked(p, CurrentWeek, clock)
  \/ \E w \in Week : Locked(p, w, clock) /\ ~Final(w)

AddOrDrop(p) ==
  /\ moves < MaxMoves
  /\ ~LockedForMutation(p)
  /\ \/ p \in roster /\ roster' = roster \ {p}
     \/ p \notin roster /\ Cardinality(roster) < RosterSize /\ roster' = roster \cup {p}
  /\ moves' = moves + 1
  /\ UNCHANGED <<clock, statsAt, over, boxes, lineups, markers, edit, closing,
                 final, posted, closedBy, phase, edits, reopens>>

-----------------------------------------------------------------------------
(* The feeds *)

GameOver(g) == clock >= Kickoff[g] + 1

FeedSaysFinal(g) ==
  /\ GameOver(g) /\ g \notin over
  /\ over' = over \cup {g}
  /\ UNCHANGED <<clock, statsAt, boxes, roster, lineups, markers, edit, closing,
                 final, posted, closedBy, phase, edits, moves, reopens>>

\* Mutant: the fetch is stamped with the time it is good for
FetchTimeAhead == clock + 1

FetchTime == clock

FetchStats ==
  /\ statsAt # FetchTime
  /\ statsAt' = FetchTime
  /\ UNCHANGED <<clock, over, boxes, roster, lineups, markers, edit, closing,
                 final, posted, closedBy, phase, edits, moves, reopens>>

BoxKind == {"partial", "full"}

Complete(b) == b = "full"

\* Mutant: a later box replaces the one that is saved
MayRecordAgain(g) == ~Final(WeekOf[g])

\* RecordFinalGameStats: the first box wins, and a posted week takes none
MayRecord(g) == boxes[g] = NoBox /\ ~Final(WeekOf[g])

RecordBox(g, b) ==
  /\ GameOver(g)
  /\ MayRecord(g)
  /\ boxes' = [boxes EXCEPT ![g] = b]
  /\ UNCHANGED <<clock, statsAt, over, roster, lineups, markers, edit, closing,
                 final, posted, closedBy, phase, edits, moves, reopens>>

\* ReopenFinalGameStats
ReopenBox(g) ==
  /\ reopens < MaxReopens
  /\ boxes[g] # NoBox /\ ~Final(WeekOf[g])
  /\ boxes' = [boxes EXCEPT ![g] = NoBox]
  /\ reopens' = reopens + 1
  /\ UNCHANGED <<clock, statsAt, over, roster, lineups, markers, edit, closing,
                 final, posted, closedBy, phase, edits, moves>>

\* A request is answered before the clock moves twice
PassTime ==
  /\ clock < Horizon
  /\ edit # Idle => edit.see.at = clock
  /\ clock' = clock + 1
  /\ UNCHANGED <<statsAt, over, boxes, roster, lineups, markers, edit, closing,
                 final, posted, closedBy, phase, edits, moves, reopens>>

-----------------------------------------------------------------------------
(* Closing a week *)

AllBoxes(w) == \A g \in Games(w) : Complete(boxes[g])

\* AdminWeekCloseInfo.Ready: every box is in, or every game is final and the
\* mirror was fetched after the last one ended
Ready(w) ==
  \/ AllBoxes(w)
  \/ /\ \A g \in Games(w) : g \in over \/ Complete(boxes[g])
     /\ clock >= SettleFloor(w)
     /\ statsAt >= SettleFloor(w)

\* Mutant: the weekly turn does not look at the mirror
TurnDueUnsettled(w) == clock >= Turn[w]

\* weekCloseTurnDue
TurnDue(w) == clock >= Turn[w] /\ statsAt >= SettleFloor(w)

\* Mutant: a later week closes past an open one
TickMayCloseAny(w) == ~Final(w) /\ (Ready(w) \/ TurnDue(w))

\* Mutant: without clean data the week waits for a person
TickMayCloseClean(w) ==
  /\ ~Final(w) /\ \A v \in 1 .. w - 1 : Final(v)
  /\ Ready(w)

\* evalWeekAutoClose stops at the first open week that is not due
TickMayClose(w) ==
  /\ ~Final(w) /\ \A v \in 1 .. w - 1 : Final(v)
  /\ Ready(w) \/ TurnDue(w)

\* closeWeek's first snapshot: the effective lineup becomes the pin.  The
\* commissioner may close any week at any time.
CloseRead(c, w) ==
  /\ closing[c] = Idle
  /\ ~Final(w)
  /\ c = "tick" => TickMayClose(w)
  /\ closing' = [closing EXCEPT ![c] =
                 [stage |-> "pinned", week |-> w, pins |-> Lineup(lineups, roster, w),
                  saw |-> <<lineups, roster>>]]
  /\ UNCHANGED <<clock, statsAt, over, boxes, roster, lineups, markers, edit,
                 final, posted, closedBy, phase, edits, moves, reopens>>

\* ApplyFinalGameStats over the mirror's line: a box wins
Credit(p, w) ==
  LET g == GameOf[w][p]
  IN  CASE g = NoGame               -> "none"
        [] g # NoGame /\ boxes[g] # NoBox -> boxes[g]
        [] g # NoGame /\ boxes[g] = NoBox ->
             IF statsAt > Kickoff[g] THEN "settled"
             ELSE IF statsAt = Kickoff[g] THEN "early" ELSE "none"

\* matchupScorer's own, later snapshot; "same" remembers whether it saw what
\* the pin saw
CloseScore(c) ==
  /\ closing[c].stage = "pinned"
  /\ LET w == closing[c].week
         starters == IF Final(w) THEN Starters(lineups[w]) ELSE Starters(Lineup(lineups, roster, w))
     IN  closing' = [closing EXCEPT ![c] =
           [stage |-> "scored", week |-> w, pins |-> closing[c].pins,
            same |-> closing[c].saw = <<lineups, roster>>, score |-> {<<p, Credit(p, w)>> : p \in starters}]]
  /\ UNCHANGED <<clock, statsAt, over, boxes, roster, lineups, markers, edit,
                 final, posted, closedBy, phase, edits, moves, reopens>>

\* Mutant: an explicit lineup the week already has is left as it is
PinnedIfUnset(w, pins) ==
  IF lineups[w] = Inherit THEN [lineups EXCEPT ![w] = pins] ELSE lineups

Pinned(w, pins) == [lineups EXCEPT ![w] = pins]

CloseWins(w) == ~Final(w)

\* Mutant: the phase waits for the weeks before it only
PhaseAfterLast(f) == IF LastWeek \in f THEN "playoffs" ELSE phase

PhaseAfter(f) == IF f = Week THEN "playoffs" ELSE phase

\* SetScheduleWeekWithLineups: pins, score and phase in one write; the loser
\* of a race changes nothing
CloseCommit(c) ==
  /\ closing[c].stage = "scored"
  /\ LET w == closing[c].week
     IN  IF CloseWins(w)
         THEN /\ final' = final \cup {w}
              /\ posted' = [posted EXCEPT ![w] = closing[c].score]
              /\ lineups' = Pinned(w, closing[c].pins)
              /\ closedBy' = [closedBy EXCEPT ![w] = c]
              /\ phase' = PhaseAfter(final')
         ELSE UNCHANGED <<final, posted, lineups, closedBy, phase>>
  /\ closing' = [closing EXCEPT ![c] = Idle]
  /\ UNCHANGED <<clock, statsAt, over, boxes, roster, markers, edit, edits, moves, reopens>>

\* The write fails and rolls back, or the process stops before it
CloseFails(c) ==
  /\ closing[c] # Idle
  /\ closing' = [closing EXCEPT ![c] = Idle]
  /\ UNCHANGED <<clock, statsAt, over, boxes, roster, lineups, markers, edit,
                 final, posted, closedBy, phase, edits, moves, reopens>>

-----------------------------------------------------------------------------

Init ==
  /\ clock = 0 /\ statsAt = 0
  /\ over = {}
  /\ boxes = [g \in NFLGame |-> NoBox]
  /\ roster = FirstRoster
  /\ lineups = [w \in Week |-> Inherit]
  /\ markers = [w \in Week |-> {}]
  /\ edit = Idle
  /\ closing = [c \in Closer |-> Idle]
  /\ final = {}
  /\ posted = [w \in Week |-> {}]
  /\ closedBy = [w \in Week |-> "nobody"]
  /\ phase = "regular"
  /\ edits = 0 /\ moves = 0 /\ reopens = 0

Managing == (\E see \in {Seen} : \E req \in Request : Ask(req, see)) \/ Commit \/ Refused \/ (\E p \in Player : AddOrDrop(p))

Feeding ==
  \/ \E g \in NFLGame : FeedSaysFinal(g) \/ ReopenBox(g) \/ (\E b \in BoxKind : RecordBox(g, b))
  \/ FetchStats \/ PassTime

CloseStep(c) == (\E w \in Week : CloseRead(c, w)) \/ CloseScore(c) \/ CloseCommit(c)

Closes == \E c \in Closer : CloseStep(c) \/ CloseFails(c)

Next == Managing \/ Feeding \/ Closes

Spec == Init /\ [][Next]_vars

\* Time passes, the mirror is fetched, the minute ticker runs, and a close that
\* is tried again and again is written in the end
Fairness ==
  /\ WF_vars(PassTime) /\ WF_vars(FetchStats)
  /\ WF_vars(\E w \in Week : CloseRead("tick", w))
  /\ SF_vars(CloseScore("tick")) /\ SF_vars(CloseCommit("tick"))

FairSpec == Spec /\ Fairness

-----------------------------------------------------------------------------
(* Properties *)

Slots == [Slot -> Player \cup {Nobody}]

\* Every variable keeps its type (PersistedState and the requests in flight).
SeasonTypeOK ==
  /\ clock \in 0 .. Horizon /\ statsAt \in 0 .. Horizon
  /\ over \subseteq NFLGame
  /\ boxes \in [NFLGame -> BoxKind \cup {NoBox}]
  /\ roster \subseteq Player
  /\ \A w \in Week : lineups[w] = Inherit \/ lineups[w] \in Slots
  /\ markers \in [Week -> SUBSET Slot]
  /\ final \subseteq Week
  /\ edit = Idle \/ edit.stage = "asked"
  /\ \A c \in Closer : closing[c].stage \in {"idle", "pinned", "scored"}
  /\ closedBy \in [Week -> Closer \cup {"nobody"}]
  /\ phase \in {"regular", "playoffs"}

\* A player starts in at most one slot and only where he fits, in every week,
\* after any sequence of sets, moves, clears, auto-fills, closes and roster
\* moves (effectiveLineup trusts the stored maps for both).
StartersAreSound ==
  \A w \in Week : LET a == Lineup(lineups, roster, w) IN
    /\ \A s, t \in Slot : a[s] = a[t] /\ a[s] # Nobody => s = t
    /\ \A s \in Slot : a[s] # Nobody => a[s] \in Fit[s]

\* A lineup edit never takes a starter out whose game had kicked off when the
\* request looked, although the lineup it writes replaces the whole week and
\* auto-filled starters are stored nowhere (SetLineup, LineupMovePlayerTo,
\* LineupAuto).
EditsKeepLocked ==
  [][Commit => LET see == edit.see
                   w   == edit.req.week
               IN  \A s \in Slot :
                     LET p == Lineup(lineups, roster, w)[s]
                     IN  p # Nobody /\ p = Now(see, w)[s] /\ Locked(p, w, see.at) /\ roster = see.roster
                           => Lineup(lineups', roster', w)[s] = p]_vars

\* An edit other than auto-fill that passes the comparison writes what it would
\* have written had it run now: nothing it read can have changed unseen, the
\* inherited week and the markers included (SetLineupWeekIfUnchanged).
ComparisonIsEnough ==
  [][Commit /\ edit.req.op # "auto" /\ roster = edit.see.roster
       => LET fresh == Result(edit.req, [Seen EXCEPT !.at = edit.see.at])
          IN  lineups'[edit.req.week] = fresh.map /\ markers'[edit.req.week] = fresh.marks]_vars

\* What a closed week scored, started and was scored from never changes again,
\* whatever edits, closes and boxes were under way (CommitScheduleWeekClose,
\* the final guards of the lineup and box writers).
ClosedWeekIsFrozen ==
  [][\A w \in Week : Final(w) =>
       /\ posted'[w] = posted[w] /\ lineups'[w] = lineups[w]
       /\ \A g \in Games(w) : boxes'[g] = boxes[g]]_vars

\* A saved box is replaced only after a commissioner reopened the game, so a
\* score already called final does not drift (RecordFinalGameStats).
BoxesAreFirstWins ==
  [][\A g \in NFLGame : boxes[g] # NoBox => boxes'[g] \in {boxes[g], NoBox}]_vars

\* The tick never posts a week while an earlier one is open, and never from
\* player stats older than the end of its last game unless every box is in
\* (evalWeekAutoClose, weekCloseTurnDue).
TickPostsInOrder ==
  \A w \in Week : closedBy[w] = "tick" => \A v \in 1 .. w - 1 : Final(v)

\* A starter the tick posted counts with his settled points, as long as nobody
\* reopened a box (evalWeekAutoClose decides on one snapshot and scores on
\* another; weekCloseTurnDue).
TickPostsSettled ==
  \A w \in Week : closedBy[w] = "tick" /\ reopens = 0 =>
    \A x \in posted[w] : HasGame(x[1], w) => x[2] \notin {"none", "early"}

\* The season is in the playoffs exactly when every week is final, by whoever
\* closed the last one and in whatever order (SetScheduleWeekWithLineups).
PhaseFollowsWeeks == phase = "playoffs" <=> final = Week

\* No edit brings a player into the lineup whose own game had kicked off when
\* the request looked.  The candidates of auto-fill are "eligible for the slot,
\* unassigned, and unlocked for week" (lineup.go:505).
NoLateStart ==
  [][Commit => LET w == edit.req.week
                   late == {p \in roster : Locked(p, w, edit.see.at)}
               IN  late \cap Starters(Lineup(lineups', roster', w))
                     \subseteq Starters(Lineup(lineups, roster, w))]_vars

\* The points posted are those of the starters pinned, although the close took
\* them from two snapshots and the week may already have had an explicit, even
\* partial lineup, when the two agreed on lineups and roster, whatever was
\* written afterwards (closeWeek).
PostedIsPinned ==
  [][\A c \in Closer :
       LET close == closing[c]
       IN  CloseCommit(c) /\ ~Final(close.week) /\ close.same
             => {x[1] : x \in close.score} = Starters(lineups'[close.week])]_vars

\* Every week closes by itself once the stats arrive, whoever else closes
\* weeks, edits lineups and reopens boxes (evalWeekAutoClose).
WeeksClose == <>(\A w \in Week : Final(w))

\* The lineups in force: every starter is a rostered player in a slot that
\* takes him, once, however edits, roster moves and closes interleave.
LineupsAreSound == SeasonTypeOK /\ StartersAreSound

\* The tick closes weeks in order and from settled points, and the season's
\* phase follows (evalWeekAutoClose).
TickIsPatient == TickPostsInOrder /\ TickPostsSettled /\ PhaseFollowsWeeks

\* A lineup edit that commits on what it saw an instant ago displaces no
\* locked player and writes what it would write now (SetLineupWeekIfUnchanged).
EditsAreSafe == EditsKeepLocked /\ ComparisonIsEnough

\* What is posted stays: points, pinned starters and the boxes behind them
\* (CommitScheduleWeekClose, RecordFinalGameStats).
PostedStays == ClosedWeekIsFrozen /\ BoxesAreFirstWins /\ PostedIsPinned

\* What edits and closings may never do to the record of a week.
RecordStays == EditsAreSafe /\ PostedStays
=============================================================================

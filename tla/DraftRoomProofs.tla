--------------------------- MODULE DraftRoomProofs ---------------------------
(***************************************************************************)
(* What holds of the draft room for every league, pool, clock setting and  *)
(* number of requests: type correctness, the tape invariants, and that the *)
(* room implements the abstract snake draft.                               *)
(***************************************************************************)
EXTENDS DraftRoom, TLAPS

\* Every pick number belongs to some seat.
LEMMA TeamOnClockType ==
  ASSUME NEW o \in {<< >>} \cup Orders, NEW n \in Nat \ {0}
  PROVE  TeamOnClock(o, n) \in Teams
<1> DEFINE c == Cardinality(Teams)
           ids == IF o = << >> THEN DefaultOrder ELSE o
           index == (n - 1) % c
<1>1. c \in Nat \ {0}
  BY DraftAssumption
<1>2. ids \in [1..c -> Teams]
  BY DraftAssumption DEF Orders, IsOrder
<1>3. index \in 0..(c - 1)
  BY <1>1
<1>4. c - index \in 1..c /\ index + 1 \in 1..c
  BY <1>1, <1>3
<1>5. ids[c - index] \in Teams /\ ids[index + 1] \in Teams
  BY <1>2, <1>4
<1> QED
  BY <1>5 DEF TeamOnClock

\* The pick clock is a positive number of seconds.
LEMMA PickClockType ==
  ASSUME durationSec \in Nat
  PROVE  PickClock \in Nat \ {0}
BY ClockAssumption DEF PickClock, ClampPickClock

\* A duration a commissioner sets is clamped to a positive number.
LEMMA ClampType ==
  ASSUME NEW d \in Int
  PROVE  ClampPickClock(d) \in Nat \ {0}
BY ClockAssumption DEF ClampPickClock

\* What an idle request, loop and commissioner hold is well typed.
LEMMA NothingInFlightType ==
  NoRequest \in RequestRecord /\ NoTick \in TickRecord /\ AdminTyped(NoAdmin)
<1>1. DefaultOrder[1] \in Teams
  BY DraftAssumption DEF IsOrder
<1> QED
  BY <1>1 DEF NoRequest, NoTick, NoAdmin, RequestRecord, TickRecord, AdminTyped

-----------------------------------------------------------------------------
(* Type correctness *)

\* The first state of the room is well typed.
LEMMA InitType == Init => TypeOK
<1> SUFFICES ASSUME Init PROVE TypeOK
  OBVIOUS
<1>1. req \in [Requests -> RequestRecord] /\ tick \in TickRecord /\ AdminTyped(admin)
  BY NothingInFlightType DEF Init
<1>2. acts \in 0..MaxActs
  BY ClockAssumption DEF Init
<1>3. picks \in Seq(PickRecord)
  BY DEF Init
<1>4. now \in Nat \ {0} /\ deadline \in Nat /\ remaining \in Nat /\ durationSec \in Nat
  BY DEF Init
<1>5. started \in BOOLEAN /\ paused \in BOOLEAN /\ up \in BOOLEAN
  BY DEF Init
<1>6. order \in {<< >>} \cup Orders /\ autopick \in SUBSET Teams
  BY DEF Init
<1>7. NamesPlayer
  BY DEF Init, NamesPlayer, NoRequest, NoTick, NoAdmin
<1> QED
  BY <1>1, <1>2, <1>3, <1>4, <1>5, <1>6, <1>7 DEF TypeOK

\* A pick of a seat and a pool player keeps the tape and the clock well typed.
LEMMA LandPickType ==
  ASSUME TypeOK, NEW team \in Teams, NEW player \in Players, NEW next \in Nat,
         NEW left \in Nat, LandPick(team, player, next, left)
  PROVE  /\ picks' \in Seq(PickRecord)
         /\ deadline' \in Nat /\ paused' \in BOOLEAN /\ remaining' \in Nat
<1>1. [team |-> team, player |-> player, madeAt |-> acts] \in PickRecord
  BY DEF TypeOK, PickRecord
<1>2. picks' \in Seq(PickRecord)
  BY <1>1 DEF TypeOK, LandPick
<1>3. deadline' \in Nat /\ remaining' \in Nat
  BY DEF TypeOK, LandPick
<1>4. paused' \in BOOLEAN
  BY DEF LandPick
<1> QED
  BY <1>2, <1>3, <1>4

\* The seat on the clock is a seat.
LEMMA OnClockType == TypeOK => OnClock \in Teams
<1> SUFFICES ASSUME TypeOK PROVE OnClock \in Teams
  OBVIOUS
<1>1. Len(picks) + 1 \in Nat \ {0} /\ order \in {<< >>} \cup Orders
  BY DEF TypeOK
<1> QED
  BY <1>1, TeamOnClockType DEF OnClock

\* Every step keeps the room well typed.
LEMMA NextType == TypeOK /\ [Next]_vars => TypeOK'
<1> SUFFICES ASSUME TypeOK, [Next]_vars PROVE TypeOK'
  OBVIOUS
<1> USE DEF store, clock
<1>p. PickClock \in Nat \ {0}
  BY PickClockType DEF TypeOK
<1>a. ASSUME acts < MaxActs, acts' = acts + 1 PROVE acts' \in 0..MaxActs
  BY <1>a, ClockAssumption DEF TypeOK
<1>c. OnClock \in Teams
  BY OnClockType
<1>1. ASSUME NEW r \in Requests, NEW t \in Teams, NEW p \in Players, PickBegin(r, t, p)
      PROVE  TypeOK'
  BY <1>1, <1>p DEF TypeOK, PickBegin, NamesPlayer, RequestRecord
<1>2. ASSUME NEW t \in Teams, ToggleAutopick(t) PROVE TypeOK'
  BY <1>2, <1>a DEF TypeOK, ToggleAutopick, NamesPlayer
<1>3. CASE TickSeesLeftover
  BY <1>3, NothingInFlightType DEF TypeOK, TickSeesLeftover, NamesPlayer, TickRecord
<1>4. CASE TickSeesUnarmed
  <2>1. now + PickClock \in Nat
    BY <1>p DEF TypeOK
  <2>2. tick' \in TickRecord /\ tick'.op = "arm"
    BY <1>4, <2>1, NothingInFlightType DEF TickSeesUnarmed, TickRecord
  <2> QED
    BY <1>4, <2>2 DEF TypeOK, TickSeesUnarmed, NamesPlayer
<1>5. ASSUME NEW notSeen \in BOOLEAN, TickSeesEmptyPool(notSeen) PROVE TypeOK'
  BY <1>5, NothingInFlightType DEF TypeOK, TickSeesEmptyPool, NamesPlayer, TickRecord
<1>6. ASSUME NEW notSeen \in BOOLEAN, NEW p \in Players, TickSeesDue(notSeen, p) PROVE TypeOK'
  BY <1>6, <1>p, <1>c DEF TypeOK, TickSeesDue, NamesPlayer, TickRecord
<1>7. CASE TickClear
  BY <1>7, NothingInFlightType DEF TypeOK, TickClear, NamesPlayer, NoTick
<1>8. CASE TickArm
  BY <1>8, NothingInFlightType DEF TypeOK, TickArm, NamesPlayer, NoTick, TickRecord
<1>9. CASE RenderPage
  BY <1>9 DEF TypeOK, RenderPage, NamesPlayer
<1>10. ASSUME NEW o \in Orders, DrawDraftOrder(o) PROVE TypeOK'
  BY <1>10, <1>a DEF TypeOK, DrawDraftOrder, NamesPlayer
<1>11. CASE StartBegin
  BY <1>11, <1>p, NothingInFlightType DEF TypeOK, StartBegin, NamesPlayer, AdminTyped, NoAdmin
<1>12. CASE StartCommit
  <2>1. deadline' \in Nat /\ remaining' \in Nat
    BY <1>12 DEF TypeOK, StartCommit, AdminTyped
  <2>2. started' \in BOOLEAN /\ paused' \in BOOLEAN
    BY <1>12 DEF TypeOK, StartCommit
  <2>3. AdminTyped(admin)' /\ admin'.op = "idle"
    BY <1>12, NothingInFlightType DEF StartCommit, NoAdmin, AdminTyped
  <2> QED
    BY <1>12, <2>1, <2>2, <2>3 DEF TypeOK, StartCommit, NamesPlayer
<1>13. CASE AdminPauseClock
  BY <1>13, <1>a DEF TypeOK, AdminPauseClock, StorePause, NamesPlayer
<1>14. CASE ResumeBegin
  BY <1>14, <1>a, <1>p, NothingInFlightType DEF TypeOK, ResumeBegin, NamesPlayer, AdminTyped, NoAdmin
<1>15. CASE ResumeCommit
  <2>1. deadline' \in Nat /\ remaining' \in Nat
    BY <1>15 DEF TypeOK, ResumeCommit, AdminTyped
  <2>2. paused' \in BOOLEAN
    BY <1>15 DEF TypeOK, ResumeCommit
  <2>3. AdminTyped(admin)' /\ admin'.op = "idle"
    BY <1>15, NothingInFlightType DEF ResumeCommit, NoAdmin, AdminTyped
  <2> QED
    BY <1>15, <2>1, <2>2, <2>3 DEF TypeOK, ResumeCommit, NamesPlayer
<1>16. ASSUME NEW secs \in Extensions, AdminExtendClock(secs) PROVE TypeOK'
  <2>1. ClampPickClock(deadline + secs - now) \in Nat
    BY ClampType, ClockAssumption DEF TypeOK
  <2> QED
    BY <1>16, <1>a, <2>1, SMTT(60) DEF TypeOK, AdminExtendClock, NamesPlayer
<1>17. ASSUME NEW secs \in Durations, AdminSetClockSeconds(secs) PROVE TypeOK'
  <2>1. ClampPickClock(secs) \in Nat
    BY ClampType, ClockAssumption
  <2> QED
    BY <1>17, <1>a, <2>1 DEF TypeOK, AdminSetClockSeconds, NamesPlayer
<1>18. CASE AdminUndoPick
  BY <1>18, <1>a, <1>p DEF TypeOK, AdminUndoPick, UndoCurrent, NamesPlayer
<1>19. ASSUME NEW p \in Players, ForceBegin(p) PROVE TypeOK'
  BY <1>19, <1>a, <1>c DEF TypeOK, ForceBegin, NamesPlayer, AdminTyped
<1>20. CASE AdminResetDraft
  <2>1. picks' \in Seq(PickRecord) /\ autopick' \in SUBSET Teams
    BY <1>20 DEF AdminResetDraft
  <2>2. started' \in BOOLEAN /\ paused' \in BOOLEAN
    BY <1>20 DEF AdminResetDraft
  <2> QED
    BY <1>20, <1>a, <2>1, <2>2 DEF TypeOK, AdminResetDraft, NamesPlayer
<1>21. CASE AdvanceTime
  BY <1>21 DEF TypeOK, AdvanceTime, NamesPlayer
<1>22. CASE Crash
  BY <1>22, <1>a, NothingInFlightType DEF TypeOK, Crash, NamesPlayer, NoRequest, NoTick, NoAdmin
<1>23. CASE Boot
  BY <1>23, <1>p, ClockAssumption DEF TypeOK, Boot, BootGrace, NamesPlayer
<1>24. ASSUME NEW r \in Requests, PickCommit(r) PROVE TypeOK'
  <2>1. req' \in [Requests -> RequestRecord]
    BY <1>24, NothingInFlightType DEF TypeOK, PickCommit
  <2>2. NamesPlayer'
    BY <1>24 DEF TypeOK, PickCommit, NamesPlayer, NoRequest
  <2>3. req[r].team \in Teams /\ req[r].player \in Players /\ req[r].next \in Nat
    BY <1>24 DEF TypeOK, PickCommit, NamesPlayer, RequestRecord
  <2>4. /\ picks' \in Seq(PickRecord)
        /\ deadline' \in Nat /\ paused' \in BOOLEAN /\ remaining' \in Nat
    <3>1. CASE PickAllowed(req[r].team, req[r].player)
      <4>1. remaining \in Nat
        BY DEF TypeOK
      <4>2. LandPick(req[r].team, req[r].player, req[r].next, remaining)
        BY <1>24, <3>1 DEF PickCommit, StoreMakePick
      <4> QED
        BY <2>3, <4>1, <4>2, LandPickType
    <3>2. CASE ~PickAllowed(req[r].team, req[r].player)
      BY <1>24, <3>2 DEF TypeOK, PickCommit
    <3> QED
      BY <3>1, <3>2
  <2> QED
    BY <1>24, <2>1, <2>2, <2>4 DEF TypeOK, PickCommit
<1>25. CASE TickPause
  <2>1. tick.at \in Nat /\ tick' \in TickRecord /\ tick'.op = "idle"
    BY <1>25, NothingInFlightType DEF TypeOK, TickPause, NoTick, TickRecord
  <2>2. deadline' \in Nat /\ remaining' \in Nat
    BY <1>25, <2>1 DEF TypeOK, TickPause, StorePause
  <2>3. paused' \in BOOLEAN
    BY <1>25 DEF TypeOK, TickPause, StorePause
  <2> QED
    BY <1>25, <2>1, <2>2, <2>3 DEF TypeOK, TickPause, NamesPlayer
<1>26. CASE TickFire
  <2>1. tick' \in TickRecord /\ tick'.op = "idle"
    BY <1>26, NothingInFlightType DEF TickFire, NoTick
  <2>2. tick.team \in Teams /\ tick.player \in Players /\ tick.next \in Nat
    BY <1>26 DEF TypeOK, TickFire, NamesPlayer, TickRecord
  <2>3. /\ picks' \in Seq(PickRecord)
        /\ deadline' \in Nat /\ paused' \in BOOLEAN /\ remaining' \in Nat
    <3>1. CASE AutoPickCurrent /\ PickAllowed(tick.team, tick.player)
      <4>1. LandPick(tick.team, tick.player, tick.next, 0)
        BY <1>26, <3>1 DEF TickFire, StoreAutoPick
      <4> QED
        BY <2>2, <4>1, LandPickType
    <3>2. CASE ~(AutoPickCurrent /\ PickAllowed(tick.team, tick.player))
      BY <1>26, <3>2 DEF TypeOK, TickFire
    <3> QED
      BY <3>1, <3>2
  <2> QED
    BY <1>26, <2>1, <2>3 DEF TypeOK, TickFire, NamesPlayer
<1>27. CASE ForceCommit
  <2>1. AdminTyped(admin)' /\ admin'.op = "idle"
    BY <1>27, NothingInFlightType DEF ForceCommit, NoAdmin, AdminTyped
  <2>2. admin.team \in Teams /\ admin.player \in Players /\ admin.read + PickClock \in Nat
    BY <1>27, <1>p DEF TypeOK, ForceCommit, NamesPlayer, AdminTyped
  <2>3. /\ picks' \in Seq(PickRecord)
        /\ deadline' \in Nat /\ paused' \in BOOLEAN /\ remaining' \in Nat
    <3>1. CASE admin.token = CurrentPickToken /\ PickAllowed(admin.team, admin.player)
      <4>1. LandPick(admin.team, admin.player, admin.read + PickClock, 0)
        BY <1>27, <3>1 DEF ForceCommit, StoreAutoPick
      <4> QED
        BY <2>2, <4>1, LandPickType
    <3>2. CASE ~(admin.token = CurrentPickToken /\ PickAllowed(admin.team, admin.player))
      BY <1>27, <3>2 DEF TypeOK, ForceCommit
    <3> QED
      BY <3>1, <3>2
  <2> QED
    BY <1>27, <2>1, <2>3 DEF TypeOK, ForceCommit, NamesPlayer
<1>28. CASE UNCHANGED vars
  BY <1>28 DEF TypeOK, vars, NamesPlayer
<1> QED
  BY <1>1, <1>2, <1>3, <1>4, <1>5, <1>6, <1>7, <1>8, <1>9, <1>10, <1>11, <1>12, <1>13, <1>14,
     <1>15, <1>16, <1>17, <1>18, <1>19, <1>20, <1>21, <1>22, <1>23, <1>24, <1>25, <1>26,
     <1>27, <1>28
  DEF Next, Manager, TickIdle, TickSees, TickActs, Commissioner

(***************************************************************************)
(* Type correctness of the draft room: whatever picks, controls, clock     *)
(* ticks, crashes and restarts interleave, the Store's fields keep their   *)
(* types; in particular no pause ever stores negative time and no request  *)
(* commits a pick of somebody who is not in the pool.                      *)
(***************************************************************************)
THEOREM TypeCorrect == Spec => []TypeOK
<1>1. Init => TypeOK
  BY InitType
<1>2. TypeOK /\ [Next]_vars => TypeOK'
  BY NextType
<1> QED
  BY <1>1, <1>2, PTL DEF Spec

-----------------------------------------------------------------------------
(* The room implements the abstract draft *)

\* The abstract draft, seen through the mapping, plays by the room's rules.
LEMMA SameRules ==
  /\ Draft!DraftComplete(picks) = DraftComplete(picks)
  /\ Draft!Drafted(picks) = Drafted(picks)
  /\ Draft!TeamOnClock(order, Len(picks) + 1) = TeamOnClock(order, Len(picks) + 1)
  /\ Draft!Orders = Orders
<1>1. Draft!Cardinality(Teams) = Cardinality(Teams)
  BY DEF Draft!Cardinality, Cardinality
<1>2. Draft!DraftComplete(picks) = DraftComplete(picks)
  BY <1>1 DEF Draft!DraftComplete, DraftComplete, Draft!Total, Total
<1>3. Draft!Drafted(picks) = Drafted(picks)
  BY DEF Draft!Drafted, Drafted
<1>4. Draft!TeamOnClock(order, Len(picks) + 1) = TeamOnClock(order, Len(picks) + 1)
  BY <1>1 DEF Draft!TeamOnClock, TeamOnClock
<1>5. Draft!Orders = Orders
  BY <1>1 DEF Draft!Orders, Orders, Draft!IsOrder, IsOrder
<1> QED
  BY <1>2, <1>3, <1>4, <1>5

\* A pick that passed the checks under the lock is a selection of the draft.
LEMMA PickSelects ==
  ASSUME TypeOK, NEW team \in Teams, NEW player \in Players, NEW next, NEW left,
         PickAllowed(team, player), LandPick(team, player, next, left),
         UNCHANGED <<started, order>>
  PROVE  Draft!Select
<1> DEFINE pick == [team |-> team, player |-> player, madeAt |-> acts]
<1>1. pick \in Draft!Pick
  BY DEF TypeOK, Draft!Pick
<1>2. started /\ ~Draft!DraftComplete(picks)
  BY SameRules DEF PickAllowed, Complete
<1>3. /\ pick.team = Draft!TeamOnClock(order, Len(picks) + 1)
      /\ pick.player \notin Draft!Drafted(picks)
  BY SameRules DEF PickAllowed, OnClock
<1>4. picks' = Append(picks, pick)
  BY DEF LandPick
<1> QED
  BY <1>1, <1>2, <1>3, <1>4 DEF Draft!Select

(***************************************************************************)
(* Every step of the room is a step of the abstract draft or leaves it     *)
(* alone: the three ways of picking select, the draw draws, the start      *)
(* opens, the undo retracts, the reset restarts, and nothing else touches  *)
(* the tape, the order or the lifecycle.                                   *)
(***************************************************************************)
LEMMA StepSimulates == TypeOK /\ [Next]_vars => [Draft!Next]_(Draft!draftVars)
<1> SUFFICES ASSUME TypeOK, [Next]_vars PROVE [Draft!Next]_(Draft!draftVars)
  OBVIOUS
<1> USE DEF store, clock
<1> DEFINE Still == UNCHANGED <<started, order, picks>>
<1>1. ASSUME NEW r \in Requests, PickCommit(r) PROVE Draft!Select \/ Still
  <2>1. CASE PickAllowed(req[r].team, req[r].player)
    <3>1. req[r].team \in Teams /\ req[r].player \in Players
      BY <1>1 DEF TypeOK, PickCommit, NamesPlayer, RequestRecord
    <3>2. LandPick(req[r].team, req[r].player, req[r].next, remaining)
      BY <1>1, <2>1 DEF PickCommit, StoreMakePick
    <3>3. UNCHANGED <<started, order>>
      BY <1>1 DEF PickCommit
    <3> QED
      BY <2>1, <3>1, <3>2, <3>3, PickSelects
  <2>2. CASE ~PickAllowed(req[r].team, req[r].player)
    BY <1>1, <2>2 DEF PickCommit
  <2> QED
    BY <2>1, <2>2
<1>2. CASE TickFire
  <2>1. CASE AutoPickCurrent /\ PickAllowed(tick.team, tick.player)
    <3>1. tick.team \in Teams /\ tick.player \in Players
      BY <1>2 DEF TypeOK, TickFire, NamesPlayer, TickRecord
    <3>2. LandPick(tick.team, tick.player, tick.next, 0)
      BY <1>2, <2>1 DEF TickFire, StoreAutoPick
    <3>3. UNCHANGED <<started, order>>
      BY <1>2 DEF TickFire
    <3>4. Draft!Select
      BY <2>1, <3>1, <3>2, <3>3, PickSelects
    <3> QED
      BY <3>4 DEF Draft!Next
  <2>2. CASE ~(AutoPickCurrent /\ PickAllowed(tick.team, tick.player))
    BY <1>2, <2>2 DEF TickFire, Draft!draftVars
  <2> QED
    BY <2>1, <2>2
<1>3. CASE ForceCommit
  <2>1. CASE admin.token = CurrentPickToken /\ PickAllowed(admin.team, admin.player)
    <3>1. admin.team \in Teams /\ admin.player \in Players
      BY <1>3 DEF TypeOK, ForceCommit, NamesPlayer, AdminTyped
    <3>2. LandPick(admin.team, admin.player, admin.read + PickClock, 0)
      BY <1>3, <2>1 DEF ForceCommit, StoreAutoPick
    <3>3. UNCHANGED <<started, order>>
      BY <1>3 DEF ForceCommit
    <3>4. Draft!Select
      BY <2>1, <3>1, <3>2, <3>3, PickSelects
    <3> QED
      BY <3>4 DEF Draft!Next
  <2>2. CASE ~(admin.token = CurrentPickToken /\ PickAllowed(admin.team, admin.player))
    BY <1>3, <2>2 DEF ForceCommit, Draft!draftVars
  <2> QED
    BY <2>1, <2>2
<1>4. ASSUME NEW o \in Orders, DrawDraftOrder(o) PROVE Draft!Draw
  BY <1>4, SameRules DEF DrawDraftOrder, DrawAllowed, Draft!Draw
<1>5. CASE StartCommit
  BY <1>5 DEF StartCommit, Draft!Open, Draft!Next, Draft!draftVars
<1>6. CASE AdminUndoPick
  BY <1>6 DEF AdminUndoPick, UndoCurrent, Draft!Retract, Draft!Next
<1>7. CASE AdminResetDraft
  BY <1>7 DEF AdminResetDraft, Draft!Restart, Draft!Next
<1>8. CASE \/ \E r \in Requests, t \in Teams, p \in Players : PickBegin(r, t, p)
           \/ \E t \in Teams : ToggleAutopick(t)
  BY <1>8 DEF PickBegin, ToggleAutopick, Draft!draftVars
<1>9. CASE TickSees
  BY <1>9 DEF TickSees, TickSeesLeftover, TickSeesUnarmed, TickSeesEmptyPool, TickSeesDue,
              Draft!draftVars
<1>10. CASE TickClear \/ TickArm \/ TickPause
  BY <1>10 DEF TickClear, TickArm, TickPause, Draft!draftVars
<1>11. CASE RenderPage \/ StartBegin \/ AdminPauseClock \/ ResumeBegin \/ ResumeCommit
  BY <1>11 DEF RenderPage, StartBegin, AdminPauseClock, ResumeBegin, ResumeCommit,
               Draft!draftVars
<1>12. CASE \/ \E secs \in Extensions : AdminExtendClock(secs)
            \/ \E secs \in Durations : AdminSetClockSeconds(secs)
            \/ \E p \in Players : ForceBegin(p)
  BY <1>12 DEF AdminExtendClock, AdminSetClockSeconds, ForceBegin, Draft!draftVars
<1>13. CASE AdvanceTime \/ Crash \/ Boot
  BY <1>13 DEF AdvanceTime, Crash, Boot, Draft!draftVars
<1>14. CASE UNCHANGED vars
  BY <1>14 DEF vars, Draft!draftVars
<1>15. ASSUME NEW r \in Requests, PickCommit(r) PROVE [Draft!Next]_(Draft!draftVars)
  BY <1>1, <1>15 DEF Draft!Next, Draft!draftVars
<1>16. ASSUME NEW o \in Orders, DrawDraftOrder(o) PROVE [Draft!Next]_(Draft!draftVars)
  BY <1>4, <1>16 DEF Draft!Next
<1> QED
  BY <1>2, <1>3, <1>5, <1>6, <1>7, <1>8, <1>9, <1>10, <1>11, <1>12, <1>13, <1>14, <1>15, <1>16
  DEF Next, Manager, TickIdle, TickActs, Commissioner

(***************************************************************************)
(* The draft room implements the snake draft: for every league, pool and   *)
(* clock setting, any number of concurrent requests, and crashes at any    *)
(* point, what happens to the tape is what SnakeDraft allows.              *)
(***************************************************************************)
THEOREM RoomImplementsSnakeDraft == Spec => ImplementsSnakeDraft
<1>1. Init => Draft!Init
  BY DEF Init, Draft!Init
<1>2. TypeOK /\ [Next]_vars => [Draft!Next]_(Draft!draftVars)
  BY StepSimulates
<1> QED
  BY <1>1, <1>2, TypeCorrect, PTL DEF Spec, Draft!Spec, ImplementsSnakeDraft

-----------------------------------------------------------------------------
(* The tape invariants *)

(***************************************************************************)
(* The three invariants hold together: that every pick fits the current    *)
(* order survives a redraw only because the tape is empty whenever the     *)
(* draft is closed.                                                        *)
(***************************************************************************)
TapeInv == TypeOK /\ NoDoubleDraft /\ TapeFollowsSnake /\ PicksOnlyInOpenDraft

\* The number of picks of a whole draft is a natural number.
LEMMA TotalType == Total \in Nat \ {0}
BY DraftAssumption DEF Total

\* A selection keeps every player once and every pick with its seat.
LEMMA SelectKeepsTape ==
  ASSUME TapeInv, Draft!Select
  PROVE  NoDoubleDraft' /\ TapeFollowsSnake' /\ PicksOnlyInOpenDraft'
<1>1. PICK pick \in Draft!Pick :
        /\ pick.team = TeamOnClock(order, Len(picks) + 1)
        /\ pick.player \notin Drafted(picks)
        /\ picks' = Append(picks, pick)
  BY SameRules DEF Draft!Select
<1>2. picks \in Seq(PickRecord) /\ pick \in PickRecord /\ Len(picks) \in Nat
  BY DEF TapeInv, TypeOK, Draft!Pick, PickRecord
<1>3. /\ Len(picks') = Len(picks) + 1
      /\ picks'[Len(picks) + 1] = pick
      /\ \A i \in 1..Len(picks) : picks'[i] = picks[i]
      /\ DOMAIN picks' = 1..(Len(picks) + 1) /\ DOMAIN picks = 1..Len(picks)
  BY <1>1, <1>2
<1>4. \A i \in 1..Len(picks) : picks[i].player # pick.player
  BY <1>1, <1>3 DEF Drafted
<1>5. NoDoubleDraft'
  BY <1>2, <1>3, <1>4 DEF TapeInv, NoDoubleDraft
<1>6. Len(picks') <= Total
  <2>1. ~DraftComplete(picks)
    BY SameRules DEF Draft!Select
  <2> QED
    BY <1>2, <1>3, <2>1, TotalType DEF DraftComplete
<1>7. \A i \in DOMAIN picks' : picks'[i].team = TeamOnClock(order, i)
  BY <1>1, <1>2, <1>3 DEF TapeInv, TapeFollowsSnake
<1>8. order' = order /\ started'
  BY DEF Draft!Select
<1> QED
  BY <1>5, <1>6, <1>7, <1>8 DEF TapeFollowsSnake, PicksOnlyInOpenDraft

\* A prefix of a sequence keeps the elements up to its length.
LEMMA PrefixProperties ==
  ASSUME NEW S, NEW s \in Seq(S), NEW n \in Nat, n <= Len(s)
  PROVE  /\ Len(SubSeq(s, 1, n)) = n
         /\ DOMAIN SubSeq(s, 1, n) = 1..n
         /\ \A i \in 1..n : SubSeq(s, 1, n)[i] = s[i]
<1>1. Len(SubSeq(s, 1, n)) = n
  BY SMT
<1>2. \A i \in 1..n : SubSeq(s, 1, n)[i] = s[i]
  BY SMT
<1>3. SubSeq(s, 1, n) \in Seq(S)
  BY SMT
<1> QED
  BY <1>1, <1>2, <1>3

\* Taking the last pick off keeps what held of the others.
LEMMA RetractKeepsTape ==
  ASSUME TapeInv, Draft!Retract
  PROVE  NoDoubleDraft' /\ TapeFollowsSnake' /\ PicksOnlyInOpenDraft'
<1>1. picks \in Seq(PickRecord) /\ picks # << >> /\ picks' = SubSeq(picks, 1, Len(picks) - 1)
  BY DEF TapeInv, TypeOK, Draft!Retract
<1>2. /\ Len(picks) \in Nat /\ Len(picks) > 0
      /\ Len(picks') = Len(picks) - 1
      /\ DOMAIN picks' = 1..(Len(picks) - 1) /\ DOMAIN picks = 1..Len(picks)
      /\ \A i \in 1..(Len(picks) - 1) : picks'[i] = picks[i]
  <2>1. Len(picks) \in Nat /\ Len(picks) > 0 /\ DOMAIN picks = 1..Len(picks)
    BY <1>1
  <2>2. Len(picks) - 1 \in Nat /\ Len(picks) - 1 <= Len(picks)
    BY <2>1
  <2> QED
    BY <1>1, <2>1, <2>2, PrefixProperties
<1>3. UNCHANGED <<started, order>>
  BY DEF Draft!Retract
<1>4. NoDoubleDraft'
  BY <1>2 DEF TapeInv, NoDoubleDraft
<1>5. TapeFollowsSnake'
  BY <1>2, <1>3, TotalType DEF TapeInv, TapeFollowsSnake
<1>6. PicksOnlyInOpenDraft'
  BY <1>1, <1>3 DEF TapeInv, PicksOnlyInOpenDraft
<1> QED
  BY <1>4, <1>5, <1>6

\* An empty tape satisfies all three.
LEMMA EmptyTape ==
  picks = << >> => NoDoubleDraft /\ TapeFollowsSnake /\ PicksOnlyInOpenDraft
BY TotalType DEF NoDoubleDraft, TapeFollowsSnake, PicksOnlyInOpenDraft

\* TapeInv is inductive.
LEMMA TapeInductive == TapeInv /\ [Next]_vars => TapeInv'
<1> SUFFICES ASSUME TapeInv, [Next]_vars PROVE TapeInv'
  OBVIOUS
<1>1. TypeOK' /\ [Draft!Next]_(Draft!draftVars)
  BY NextType, StepSimulates DEF TapeInv
<1> DEFINE Goal == NoDoubleDraft' /\ TapeFollowsSnake' /\ PicksOnlyInOpenDraft'
<1>2. CASE Draft!Draw
  <2>1. picks = << >> /\ picks' = << >>
    BY <1>2 DEF TapeInv, PicksOnlyInOpenDraft, Draft!Draw
  <2> QED
    BY <1>1, <2>1, TotalType
    DEF TapeInv, NoDoubleDraft, TapeFollowsSnake, PicksOnlyInOpenDraft
<1>3. CASE Draft!Open
  BY <1>1, <1>3 DEF TapeInv, Draft!Open, NoDoubleDraft, TapeFollowsSnake, PicksOnlyInOpenDraft
<1>4. CASE Draft!Select
  BY <1>1, <1>4, SelectKeepsTape DEF TapeInv
<1>5. CASE Draft!Retract
  BY <1>1, <1>5, RetractKeepsTape DEF TapeInv
<1>6. CASE Draft!Restart
  <2>1. picks' = << >>
    BY <1>6 DEF Draft!Restart
  <2> QED
    BY <1>1, <2>1, TotalType
    DEF TapeInv, NoDoubleDraft, TapeFollowsSnake, PicksOnlyInOpenDraft
<1>7. CASE UNCHANGED Draft!draftVars
  BY <1>1, <1>7
  DEF TapeInv, Draft!draftVars, NoDoubleDraft, TapeFollowsSnake, PicksOnlyInOpenDraft
<1> QED
  BY <1>1, <1>2, <1>3, <1>4, <1>5, <1>6, <1>7 DEF Draft!Next

\* TapeInv holds in every state of the room.
LEMMA TapeInvariant == Spec => []TapeInv
<1>1. Init => TapeInv
  BY InitType, EmptyTape DEF TapeInv, Init
<1> QED
  BY <1>1, TapeInductive, PTL DEF Spec

(***************************************************************************)
(* No player is ever drafted twice, whatever managers, the clock loop and  *)
(* the commissioner do at the same time (MakePick, autoPickLocked).        *)
(***************************************************************************)
THEOREM NoPlayerTwice == Spec => []NoDoubleDraft
BY TapeInvariant, PTL DEF TapeInv

(***************************************************************************)
(* Every pick on the tape belongs to the seat the current order puts at    *)
(* its number, and the tape never outgrows the draft (teamOnClock and the  *)
(* lock StartDraft puts on the order).                                     *)
(***************************************************************************)
THEOREM SnakeIsFollowed == Spec => []TapeFollowsSnake
BY TapeInvariant, PTL DEF TapeInv

(***************************************************************************)
(* A closed draft has an empty tape: the reset closes and empties in one   *)
(* transaction, and no late request picks into a closed draft.             *)
(***************************************************************************)
THEOREM ClosedDraftIsEmpty == Spec => []PicksOnlyInOpenDraft
BY TapeInvariant, PTL DEF TapeInv

(***************************************************************************)
(* The three together: the tape is sound, whoever picks, draws and undoes  *)
(* at the same time (MakePick, autoPickLocked, RandomizeDraftOrder).       *)
(***************************************************************************)
THEOREM TapeIsAlwaysSound == Spec => []TapeIsSound
<1>1. TapeInv => TapeIsSound
  BY DEF TapeInv, TapeIsSound
<1>2. QED
  BY <1>1, TapeInvariant, PTL

-----------------------------------------------------------------------------
(* The clock: what the loop may take, and what a restart may change *)

(***************************************************************************)
(* A due pick in flight: the loop saw a deadline that had passed when it   *)
(* looked, and time only goes forward.                                     *)
(***************************************************************************)
FireWasDue ==
  tick.op = "fire" =>
    /\ tick.seen # 0 /\ tick.at <= now
    /\ tick.reason = "clock" => tick.seen <= tick.at

\* FireWasDue is inductive, given the types.
LEMMA FireWasDueInductive == TypeOK /\ FireWasDue /\ [Next]_vars => FireWasDue'
<1> SUFFICES ASSUME TypeOK, FireWasDue, [Next]_vars PROVE FireWasDue'
  OBVIOUS
<1>1. ASSUME NEW notSeen \in BOOLEAN, NEW p \in Players, TickSeesDue(notSeen, p)
      PROVE  FireWasDue'
  BY <1>1 DEF TypeOK, FireWasDue, TickSeesDue
<1>2. CASE tick' = tick /\ now' \in Nat /\ now' >= now
  <2>1. tick.at \in Nat /\ now \in Nat
    BY DEF TypeOK, TickRecord
  <2> QED
    BY <1>2, <2>1 DEF FireWasDue
<1>3. CASE tick'.op # "fire"
  BY <1>3 DEF FireWasDue
<1>4. CASE TickSees /\ ~\E notSeen \in BOOLEAN, p \in Players : TickSeesDue(notSeen, p)
  BY <1>3, <1>4 DEF TickSees, TickSeesLeftover, TickSeesUnarmed, TickSeesEmptyPool, NoTick
<1>5. CASE TickActs \/ Crash
  BY <1>3, <1>5 DEF TickActs, TickClear, TickArm, TickPause, TickFire, Crash, NoTick
<1>6. CASE AdvanceTime
  BY <1>2, <1>6 DEF TypeOK, AdvanceTime
<1>7. CASE Manager
  BY <1>2, <1>7 DEF TypeOK, Manager, PickBegin, PickCommit, ToggleAutopick
<1>8. CASE Commissioner
  BY <1>2, <1>8 DEF TypeOK, Commissioner, RenderPage, DrawDraftOrder, StartBegin, StartCommit,
     AdminPauseClock, ResumeBegin, ResumeCommit, AdminExtendClock, AdminSetClockSeconds,
     AdminUndoPick, ForceBegin, ForceCommit, AdminResetDraft
<1>9. CASE Boot \/ UNCHANGED vars
  BY <1>2, <1>9 DEF TypeOK, Boot, vars
<1> QED
  BY <1>1, <1>4, <1>5, <1>6, <1>7, <1>8, <1>9 DEF Next, TickSees, TickIdle

\* A step that ends a due pick and lengthens the tape is the loop's commit.
LEMMA OnlyTickFireEndsFire ==
  ASSUME TypeOK, [Next]_vars, tick.op = "fire", tick' = NoTick, up', Len(picks') > Len(picks)
  PROVE  TickFire
<1>1. tick' # tick
  BY DEF NoTick
<1>2. Len(picks) \in Nat
  BY DEF TypeOK
<1>3. ~Manager
  BY <1>1 DEF Manager, PickBegin, PickCommit, ToggleAutopick
<1>4. ~Commissioner
  BY <1>1 DEF Commissioner, RenderPage, DrawDraftOrder, StartBegin, StartCommit,
     AdminPauseClock, ResumeBegin, ResumeCommit, AdminExtendClock, AdminSetClockSeconds,
     AdminUndoPick, ForceBegin, ForceCommit, AdminResetDraft
<1>5. ~AdvanceTime /\ ~Boot /\ ~UNCHANGED vars /\ ~Crash
  BY <1>1 DEF AdvanceTime, Boot, vars, Crash
<1>6. ~TickSees /\ ~\E notSeen \in BOOLEAN : TickIdle(notSeen)
  BY <1>5 DEF TickSees, TickSeesLeftover, TickSeesUnarmed, TickSeesEmptyPool, TickSeesDue, TickIdle
<1>7. ~TickClear /\ ~TickArm /\ ~TickPause
  BY DEF TickClear, TickArm, TickPause
<1> QED
  BY <1>3, <1>4, <1>5, <1>6, <1>7 DEF Next, TickActs

(***************************************************************************)
(* The clock loop never takes a pick on a clock that is still running: its *)
(* commit compares the deadline it saw with the one stored (autoPickLocked *)
(* and the expectedDeadline argument), and the one it saw had passed.      *)
(***************************************************************************)
THEOREM NoEarlyAutoPick == Spec => LoopPicksOnlyOnExpiredClock
<1> DEFINE Step == /\ tick.op = "fire" /\ tick' = NoTick /\ up'
                   /\ Len(picks') > Len(picks)
                   => ~paused /\ (tick.reason = "clock" => deadline # 0 /\ now >= deadline)
<1>1. Init => FireWasDue
  BY DEF Init, NoTick, FireWasDue
<1>2. TypeOK /\ FireWasDue /\ [Next]_vars => [Step]_vars
  <2> SUFFICES ASSUME TypeOK, FireWasDue, [Next]_vars,
                      tick.op = "fire", tick' = NoTick, up', Len(picks') > Len(picks)
               PROVE  ~paused /\ (tick.reason = "clock" => deadline # 0 /\ now >= deadline)
    OBVIOUS
  <2>1. TickFire
    BY OnlyTickFireEndsFire
  <2>2. AutoPickCurrent
    BY <2>1 DEF TickFire, TypeOK
  <2>3. tick.at \in Nat /\ tick.seen \in Nat /\ now \in Nat
    BY DEF TypeOK, TickRecord
  <2> QED
    BY <2>2, <2>3 DEF AutoPickCurrent, FireWasDue
<1> QED
  BY <1>1, <1>2, FireWasDueInductive, TypeCorrect, PTL DEF Spec, LoopPicksOnlyOnExpiredClock

(***************************************************************************)
(* Restart fairness (bootRecoverClock): a boot changes neither the draft   *)
(* nor a paused or running clock, and an expired clock becomes one that is *)
(* ahead by at most RestartGrace.                                          *)
(***************************************************************************)
THEOREM RestartIsFair == Spec => BootIsFair
<1> DEFINE Fair == /\ <<started, picks, order, paused, remaining>>' =
                        <<started, picks, order, paused, remaining>>
                   /\ deadline > now \/ paused => deadline' = deadline
                   /\ started /\ ~paused /\ deadline # 0 => deadline' > now
                   /\ deadline' # deadline => deadline' <= now + RestartGrace
<1>1. ASSUME TypeOK, [Next]_vars, ~up, up' PROVE Boot
  <2>1. ~Manager /\ ~TickSees /\ ~TickActs
    BY <1>1 DEF Manager, PickBegin, PickCommit, ToggleAutopick, TickSees, TickSeesLeftover,
       TickSeesUnarmed, TickSeesEmptyPool, TickSeesDue, TickActs, TickClear, TickArm,
       TickPause, TickFire
  <2>2. ~Commissioner
    BY <1>1 DEF Commissioner, RenderPage, DrawDraftOrder, StartBegin, StartCommit,
       AdminPauseClock, ResumeBegin, ResumeCommit, AdminExtendClock, AdminSetClockSeconds,
       AdminUndoPick, ForceBegin, ForceCommit, AdminResetDraft
  <2>3. ~AdvanceTime /\ ~Crash /\ ~UNCHANGED vars /\ ~\E notSeen \in BOOLEAN : TickIdle(notSeen)
    BY <1>1 DEF AdvanceTime, Crash, vars, TickIdle
  <2> QED
    BY <1>1, <2>1, <2>2, <2>3 DEF Next
<1>2. ASSUME TypeOK, Boot PROVE Fair
  <2>1. PickClock \in Nat \ {0} /\ RestartGrace \in Nat \ {0}
    BY <1>2, PickClockType, ClockAssumption DEF TypeOK
  <2>2. BootGrace \in Nat \ {0} /\ BootGrace <= RestartGrace
    BY <2>1 DEF BootGrace
  <2>3. UNCHANGED <<started, picks, order, paused, remaining>>
    BY <1>2 DEF Boot
  <2>4. /\ deadline > now \/ paused => deadline' = deadline
        /\ started /\ ~paused /\ deadline # 0 => deadline' > now
        /\ deadline' # deadline => deadline' <= now + RestartGrace
    <3>1. CASE started /\ ~paused /\ deadline # 0 /\ deadline <= now
      <4>1. deadline' = now + BootGrace
        BY <1>2, <3>1 DEF Boot
      <4> QED
        BY <1>2, <2>1, <2>2, <3>1, <4>1 DEF TypeOK
    <3>2. CASE ~(started /\ ~paused /\ deadline # 0 /\ deadline <= now)
      <4>1. deadline' = deadline
        BY <1>2, <3>2 DEF Boot
      <4> QED
        BY <1>2, <2>1, <3>2, <4>1 DEF TypeOK
    <3> QED
      BY <3>1, <3>2
  <2> QED
    BY <2>3, <2>4
<1>3. TypeOK /\ [Next]_vars => [~up /\ up' => Fair]_vars
  BY <1>1, <1>2
<1> QED
  BY <1>3, TypeCorrect, PTL DEF Spec, BootIsFair

\* A step that shortens the tape of a draft that stays open is the undo.
LEMMA OnlyUndoShortens ==
  ASSUME TypeOK, [Next]_vars, started', Len(picks') < Len(picks)
  PROVE  AdminUndoPick
<1>1. picks \in Seq(PickRecord) /\ Len(picks) \in Nat
  BY DEF TypeOK
<1>2. picks' # picks
  BY <1>1
<1>3. ASSUME NEW team, NEW player, NEW next, NEW left, LandPick(team, player, next, left)
      PROVE  FALSE
  <2>1. picks' = Append(picks, [team |-> team, player |-> player, madeAt |-> acts])
    BY <1>3 DEF LandPick
  <2>2. Len(picks') = Len(picks) + 1
    BY <1>1, <2>1
  <2> QED
    BY <1>1, <2>2
<1>4. ~Manager
  BY <1>2, <1>3 DEF Manager, PickBegin, PickCommit, ToggleAutopick, StoreMakePick, store
<1>5. ~TickSees /\ ~TickActs
  BY <1>2, <1>3 DEF TickSees, TickSeesLeftover, TickSeesUnarmed, TickSeesEmptyPool,
     TickSeesDue, TickActs, TickClear, TickArm, TickPause, TickFire, StoreAutoPick, store
<1>6. ~AdvanceTime /\ ~Crash /\ ~Boot /\ ~UNCHANGED vars
      /\ ~\E notSeen \in BOOLEAN : TickIdle(notSeen)
  BY <1>2 DEF AdvanceTime, Crash, Boot, TickIdle, vars, store
<1>7. ~ForceCommit /\ ~AdminResetDraft
  BY <1>2, <1>3 DEF ForceCommit, AdminResetDraft, StoreAutoPick
<1>8. Commissioner
  BY <1>4, <1>5, <1>6 DEF Next
<1> QED
  BY <1>2, <1>7, <1>8 DEF Commissioner, RenderPage, DrawDraftOrder, StartBegin, StartCommit,
     AdminPauseClock, ResumeBegin, ResumeCommit, AdminExtendClock, AdminSetClockSeconds,
     ForceBegin, store

(***************************************************************************)
(* An undo takes exactly the pick its page displayed, however many picks,  *)
(* undos, resets and restarts committed since the page was rendered, and   *)
(* leaves a paused clock as it was (UndoLastPickIfCurrent compares the     *)
(* form's token under the lock).                                           *)
(***************************************************************************)
THEOREM UndoTakesDisplayedPick == Spec => UndoRemovesDisplayedPick
<1> DEFINE Shortened == /\ picks # << >>
                        /\ picks' = SubSeq(picks, 1, Len(picks) - 1)
                        /\ started'
           Displayed == /\ page.prev # << >>
                        /\ page.prev[1].pick = picks[Len(picks)]
                        /\ paused => deadline' = deadline /\ remaining' = remaining
<1>1. ASSUME TypeOK, [Next]_vars, Shortened PROVE Displayed
  <2>1. picks \in Seq(PickRecord) /\ Len(picks) \in Nat /\ Len(picks) > 0
    BY <1>1 DEF TypeOK
  <2>2. Len(picks') = Len(picks) - 1
    <3>1. Len(picks) - 1 \in Nat /\ Len(picks) - 1 <= Len(picks)
      BY <2>1
    <3> QED
      BY <1>1, <2>1, <3>1, PrefixProperties
  <2>3. AdminUndoPick
    BY <1>1, <2>1, <2>2, OnlyUndoShortens
  <2>4. page.prev = <<[number |-> Len(picks), pick |-> picks[Len(picks)],
                       deadline |-> deadline, paused |-> paused,
                       remaining |-> remaining, duration |-> durationSec]>>
    BY <1>1, <2>3 DEF AdminUndoPick, UndoCurrent, PreviousPickToken
  <2>5. page.prev # << >> /\ page.prev[1].pick = picks[Len(picks)]
    BY <2>4
  <2>6. paused => deadline' = deadline /\ remaining' = remaining
    BY <2>3 DEF AdminUndoPick
  <2> QED
    BY <2>5, <2>6
<1>2. TypeOK /\ [Next]_vars => [Shortened => Displayed]_vars
  BY <1>1
<1> QED
  BY <1>2, TypeCorrect, PTL DEF Spec, UndoRemovesDisplayedPick

=============================================================================

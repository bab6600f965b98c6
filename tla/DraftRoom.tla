------------------------------ MODULE DraftRoom ------------------------------
(***************************************************************************)
(* The live draft room: the Store's draft state and pick clock, the        *)
(* managers' pick requests, the commissioner's controls, the one-second    *)
(* clock loop, and a crash and restart of the process between any two      *)
(* steps.  Each Store method runs under the Store's lock and is one step;  *)
(* a Service method reads a snapshot first and calls the Store afterwards, *)
(* so it is two steps with anything in between.                            *)
(* Source: internal/league/store.go, draftclock.go, service.go, admin.go,  *)
(* confirmations.go.  Every write that passes its checks persists here; a   *)
(* control that is one Store call reads the wall clock in the same step.   *)
(***************************************************************************)
EXTENDS DraftRules

CONSTANTS
  Requests,      (* in-flight pick requests of managers and co-managers    *)
  MinPickClock, MaxPickClock, DefaultPickClock,
  AutopickGrace, NotSeenClock, RestartGrace,
  Durations,     (* seconds a commissioner may set as pick clock           *)
  Extensions,    (* seconds a commissioner may add to the running pick     *)
  MaxNow,        (* bound: the clock stops here                            *)
  MaxActs        (* bound: commissioner actions, AUTO toggles and crashes  *)

ASSUME ClockAssumption ==
  /\ MinPickClock \in Nat \ {0}
  /\ MaxPickClock \in Nat /\ MinPickClock <= MaxPickClock
  /\ DefaultPickClock \in MinPickClock..MaxPickClock
  /\ AutopickGrace \in Nat /\ NotSeenClock \in Nat
  /\ RestartGrace \in Nat \ {0}
  /\ Durations \subseteq Nat
  /\ Extensions \subseteq Int
  /\ MaxNow \in Nat \ {0}
  /\ MaxActs \in Nat

VARIABLES
  now,          (* seconds; positive, so that 0 is Go's zero time          *)
  started,      (* DraftStarted                                            *)
  picks,        (* Picks; a pick's Number is its index                     *)
  order,        (* DraftOrder                                              *)
  deadline,     (* ClockDeadline, 0 when unarmed                           *)
  paused,       (* ClockPaused                                             *)
  remaining,    (* ClockRemainingSec                                       *)
  durationSec,  (* ClockDurationSec, 0 when the default applies            *)
  autopick,     (* the seats whose Autopick flag is on                     *)
  up,           (* the process is running                                  *)
  req,          (* each pick request between its snapshot and its commit   *)
  tick,         (* the clock loop between its snapshot and its commit      *)
  admin,        (* the commissioner's two-step request in flight           *)
  page,         (* the tokens on the commissioner's last rendered page     *)
  acts          (* bound counter; also the instant stamped on a pick, so   *)
                (* that two picks of one number never carry the same stamp *)

clock == <<deadline, paused, remaining>>
store == <<started, picks, order, deadline, paused, remaining, durationSec, autopick>>
vars  == <<now, started, picks, order, deadline, paused, remaining,
           durationSec, autopick, up, req, tick, admin, page, acts>>

-----------------------------------------------------------------------------
(* Reading the state *)

ClampPickClock(d) ==
  IF d < MinPickClock THEN MinPickClock
  ELSE IF d > MaxPickClock THEN MaxPickClock ELSE d

\* Service.pickClock and Store.clockDurationLocked
PickClock == IF durationSec > 0 THEN ClampPickClock(durationSec)
             ELSE DefaultPickClock

Complete == DraftComplete(picks)
OnClock  == TeamOnClock(order, Len(picks) + 1)

\* draftCurrentPickToken: what an extend or force form is bound to
CurrentPickToken ==
  [number |-> Len(picks) + 1, team |-> OnClock, deadline |-> deadline,
   paused |-> paused, remaining |-> remaining, duration |-> durationSec,
   started |-> started]

\* draftPreviousPickToken: what an undo form is bound to; none without picks
PreviousPickToken ==
  IF picks = << >> THEN << >>
  ELSE <<[number |-> Len(picks), pick |-> picks[Len(picks)], deadline |-> deadline,
          paused |-> paused, remaining |-> remaining, duration |-> durationSec]>>

\* effectiveDeadline; notSeen is what the presence tracker says of the seat
EffectiveDeadline(notSeen) ==
  LET armAt   == deadline - PickClock
      shorter == IF OnClock \in autopick THEN armAt + AutopickGrace
                 ELSE IF notSeen THEN armAt + NotSeenClock ELSE deadline
  IN  IF shorter < deadline THEN shorter ELSE deadline

NoRequest == [op |-> "idle", team |-> DefaultOrder[1], player |-> "none", next |-> 0]
NoTick    == [op |-> "idle", at |-> 0, number |-> 0, team |-> DefaultOrder[1],
              player |-> "none", seen |-> 0, next |-> 0, reason |-> "clock"]
NoAdmin   == [op |-> "idle", read |-> 0, team |-> DefaultOrder[1], player |-> "none",
              token |-> "none"]

-----------------------------------------------------------------------------
(* Store: the pick transactions *)

\* Mutant: the tape is not scanned for the player
PickAllowedUnscanned(team, player) == started /\ ~Complete /\ team = OnClock

\* Mutant: any seat may pick at any time
PickAllowedOutOfTurn(team, player) ==
  started /\ player \notin Drafted(picks) /\ ~Complete

\* Mutant: the lifecycle is not checked again under the lock
PickAllowedClosedRoom(team, player) ==
  player \notin Drafted(picks) /\ ~Complete /\ team = OnClock

\* The checks MakePick and autoPickLocked share
PickAllowed(team, player) ==
  /\ started
  /\ player \notin Drafted(picks)
  /\ ~Complete
  /\ team = OnClock

(***************************************************************************)
(* The pick and the clock it leaves behind, one transaction: the terminal  *)
(* pick disarms the clock, a pause wins over the caller's next deadline.   *)
(* What is left of the paused seat's time is the caller's: MakePick keeps  *)
(* it, autoPickLocked drops it.                                            *)
(***************************************************************************)
LandPick(team, player, next, leftWhenPaused) ==
  /\ picks' = Append(picks, [team |-> team, player |-> player, madeAt |-> acts])
  /\ LET last == Len(picks) + 1 >= Total
     IN  /\ deadline' = IF last \/ paused THEN 0 ELSE next
         /\ paused' = (paused /\ ~last)
         /\ remaining' = IF last THEN 0 ELSE IF paused THEN leftWhenPaused ELSE remaining

StoreMakePick(team, player, next) == LandPick(team, player, next, remaining)

StoreAutoPick(team, player, next) == LandPick(team, player, next, 0)

-----------------------------------------------------------------------------
(* Managers: Service.MakePick, from the snapshot it validates against to   *)
(* the Store call it makes with the deadline computed from that snapshot   *)

\* Two more refusals, the optional position limits and the scarcity guard, only
\* make fewer players eligible; a manager here may take any viable one.
PickBegin(r, team, player) ==
  /\ up /\ req[r].op = "idle"
  /\ started
  /\ KeepsRosterViable(picks, team, player)
  /\ req' = [req EXCEPT ![r] =
       [op |-> "store", team |-> team, player |-> player,
        next |-> IF ~paused /\ Len(picks) + 1 < Total THEN now + PickClock ELSE 0]]
  /\ UNCHANGED <<now, store, up, tick, admin, page, acts>>

PickCommit(r) ==
  /\ up /\ req[r].op = "store"
  /\ req' = [req EXCEPT ![r] = NoRequest]
  /\ IF PickAllowed(req[r].team, req[r].player)
     THEN StoreMakePick(req[r].team, req[r].player, req[r].next)
     ELSE UNCHANGED <<picks, clock>>
  /\ UNCHANGED <<now, started, order, durationSec, autopick, up, tick, admin, page, acts>>

\* ToggleAutopick, AdminSetAutopick
ToggleAutopick(team) ==
  /\ up /\ acts < MaxActs
  /\ autopick' = IF team \in autopick THEN autopick \ {team} ELSE autopick \cup {team}
  /\ acts' = acts + 1
  /\ UNCHANGED <<now, started, picks, order, clock, durationSec, up, req, tick, admin, page>>

-----------------------------------------------------------------------------
(* The clock loop: clockTick decides on a snapshot, then calls the Store   *)

\* Draft not open, complete with a clean clock, paused, or not yet due
TickIdle(notSeen) ==
  /\ up /\ tick.op = "idle"
  /\ \/ ~started
     \/ Complete /\ deadline = 0 /\ ~paused /\ remaining = 0
     \/ ~Complete /\ paused
     \/ ~Complete /\ deadline # 0 /\ now < EffectiveDeadline(notSeen)
  /\ UNCHANGED vars

TickSeesLeftover ==
  /\ up /\ tick.op = "idle" /\ started /\ Complete
  /\ deadline # 0 \/ paused \/ remaining # 0
  /\ tick' = [NoTick EXCEPT !.op = "clear"]
  /\ UNCHANGED <<now, store, up, req, admin, page, acts>>

\* Mutant: only the first pick of the draft is ever armed by the loop
TickSeesUnarmedStart ==
  /\ up /\ tick.op = "idle" /\ started /\ picks = << >> /\ ~paused /\ deadline = 0
  /\ tick' = [NoTick EXCEPT !.op = "arm", !.next = now + PickClock]
  /\ UNCHANGED <<now, store, up, req, admin, page, acts>>

TickSeesUnarmed ==
  /\ up /\ tick.op = "idle" /\ started /\ ~Complete /\ ~paused /\ deadline = 0
  /\ tick' = [NoTick EXCEPT !.op = "arm", !.next = now + PickClock]
  /\ UNCHANGED <<now, store, up, req, admin, page, acts>>

\* Due, and a player to take: the deadline seen is the token of the auto-pick
TickSeesDue(notSeen, player) ==
  /\ up /\ tick.op = "idle" /\ started /\ ~Complete /\ ~paused /\ deadline # 0
  /\ now >= EffectiveDeadline(notSeen)
  /\ player \in AutopickChoices(picks, OnClock)
  /\ tick' = [op |-> "fire", at |-> now, number |-> Len(picks) + 1, team |-> OnClock,
              player |-> player, seen |-> deadline,
              next |-> IF Len(picks) + 1 < Total THEN now + PickClock ELSE 0,
              reason |-> IF EffectiveDeadline(notSeen) = deadline THEN "clock" ELSE "short"]
  /\ UNCHANGED <<now, store, up, req, admin, page, acts>>

\* Due, and nobody to take
TickSeesEmptyPool(notSeen) ==
  /\ up /\ tick.op = "idle" /\ started /\ ~Complete /\ ~paused /\ deadline # 0
  /\ now >= EffectiveDeadline(notSeen)
  /\ AutopickChoices(picks, OnClock) = {}
  /\ tick' = [NoTick EXCEPT !.op = "pause", !.at = now]
  /\ UNCHANGED <<now, store, up, req, admin, page, acts>>

\* Mutant: the deadline survives the clear
TickClearKeepsDeadline ==
  /\ up /\ tick.op = "clear"
  /\ tick' = NoTick
  /\ paused' = FALSE /\ remaining' = 0
  /\ UNCHANGED <<now, started, picks, order, deadline, durationSec, autopick,
                 up, req, admin, page, acts>>

\* Store.ClearClock
TickClear ==
  /\ up /\ tick.op = "clear"
  /\ tick' = NoTick
  /\ deadline' = 0 /\ paused' = FALSE /\ remaining' = 0
  /\ UNCHANGED <<now, started, picks, order, durationSec, autopick, up, req, admin, page, acts>>

\* Store.ArmClock: only the lifecycle is checked again under the lock
TickArm ==
  /\ up /\ tick.op = "arm"
  /\ tick' = NoTick
  /\ deadline' = IF started THEN tick.next ELSE deadline
  /\ UNCHANGED <<now, started, picks, order, paused, remaining, durationSec, autopick,
                 up, req, admin, page, acts>>

\* Store.PauseClock's checks and effect, with the caller's instant
ClockRunning == started /\ ~Complete /\ ~paused /\ deadline # 0 /\ remaining = 0

\* Mutant: an overrun deadline is stored as negative time
StorePauseUnfloored(at) ==
  remaining' = deadline - at /\ deadline' = 0 /\ paused' = TRUE

StorePause(at) ==
  /\ remaining' = IF deadline > at THEN deadline - at ELSE 0
  /\ deadline' = 0
  /\ paused' = TRUE

TickPause ==
  /\ up /\ tick.op = "pause"
  /\ tick' = NoTick
  /\ IF ClockRunning THEN StorePause(tick.at) ELSE UNCHANGED clock
  /\ UNCHANGED <<now, started, picks, order, durationSec, autopick, up, req, admin, page, acts>>

\* Mutant: the deadline seen is not compared
AutoPickCurrentAnyDeadline == Len(picks) + 1 = tick.number /\ ~paused

\* Mutant: off by one in the expected pick number
AutoPickCurrentOffByOne ==
  Len(picks) = tick.number /\ ~paused /\ deadline = tick.seen

\* autoPickLocked's own checks for a pick of the clock loop
AutoPickCurrent ==
  /\ Len(picks) + 1 = tick.number
  /\ ~paused
  /\ deadline = tick.seen

TickFire ==
  /\ up /\ tick.op = "fire"
  /\ tick' = NoTick
  /\ IF AutoPickCurrent /\ PickAllowed(tick.team, tick.player)
     THEN StoreAutoPick(tick.team, tick.player, tick.next)
     ELSE UNCHANGED <<picks, clock>>
  /\ UNCHANGED <<now, started, order, durationSec, autopick, up, req, admin, page, acts>>

-----------------------------------------------------------------------------
(* The commissioner.  A rendered page carries the tokens of the state it   *)
(* shows and can be submitted late, or twice; a stale form changes nothing *)

RenderPage ==
  /\ up /\ acts < MaxActs
  /\ page' = [cur |-> CurrentPickToken, prev |-> PreviousPickToken, order |-> order]
  /\ UNCHANGED <<now, store, up, req, tick, admin, acts>>

\* Mutant: a page drawn before the start can redraw an open draft
DrawAllowedOpen == page.order = order

\* DrawDraftOrder: locked by the start, and bound to the order displayed
DrawAllowed == ~started /\ page.order = order

\* AdminRandomizeDraftOrder: a redraw never repeats the order
DrawDraftOrder(o) ==
  /\ up /\ acts < MaxActs
  /\ DrawAllowed
  /\ o # order
  /\ order' = o
  /\ acts' = acts + 1
  /\ UNCHANGED <<now, started, picks, clock, durationSec, autopick, up, req, tick, admin, page>>

\* AdminStartDraft: the duration is read before the Store call
StartBegin ==
  /\ up /\ admin.op = "idle" /\ ~started
  /\ admin' = [NoAdmin EXCEPT !.op = "start", !.read = PickClock]
  /\ UNCHANGED <<now, store, up, req, tick, page, acts>>

StartCommit ==
  /\ up /\ admin.op = "start"
  /\ admin' = NoAdmin
  /\ IF started THEN UNCHANGED <<started, clock>>
     ELSE /\ started' = TRUE
          /\ paused' = FALSE /\ remaining' = 0
          /\ deadline' = now + admin.read
  /\ UNCHANGED <<now, picks, order, durationSec, autopick, up, req, tick, page, acts>>

AdminPauseClock ==
  /\ up /\ acts < MaxActs
  /\ ClockRunning
  /\ StorePause(now)
  /\ acts' = acts + 1
  /\ UNCHANGED <<now, started, picks, order, durationSec, autopick, up, req, tick, admin, page>>

\* AdminResumeClock: the duration is read before the Store call
ResumeBegin ==
  /\ up /\ admin.op = "idle" /\ acts < MaxActs
  /\ started /\ ~Complete /\ (deadline = 0 \/ paused)
  /\ admin' = [NoAdmin EXCEPT !.op = "resume", !.read = PickClock]
  /\ acts' = acts + 1
  /\ UNCHANGED <<now, store, up, req, tick, page>>

\* ResumeClock's checks; the inconsistent clock states are refused
Resumable == started /\ ~Complete /\ deadline = 0 /\ (paused \/ remaining = 0)

ResumeCommit ==
  /\ up /\ admin.op = "resume"
  /\ admin' = NoAdmin
  /\ IF Resumable
     THEN /\ deadline' = now + (IF remaining > 0 THEN remaining ELSE admin.read)
          /\ paused' = FALSE /\ remaining' = 0
     ELSE UNCHANGED clock
  /\ UNCHANGED <<now, started, picks, order, durationSec, autopick, up, req, tick, page, acts>>

\* AdminExtendClock: clamped to [now + MinPickClock, now + MaxPickClock]
AdminExtendClock(secs) ==
  /\ up /\ acts < MaxActs
  /\ page.cur = CurrentPickToken
  /\ ~paused /\ deadline # 0
  /\ deadline' = now + ClampPickClock(deadline + secs - now)
  /\ acts' = acts + 1
  /\ UNCHANGED <<now, started, picks, order, paused, remaining, durationSec, autopick,
                 up, req, tick, admin, page>>

AdminSetClockSeconds(secs) ==
  /\ up /\ acts < MaxActs
  /\ durationSec' = ClampPickClock(secs)
  /\ acts' = acts + 1
  /\ UNCHANGED <<now, started, picks, order, clock, autopick, up, req, tick, admin, page>>

\* Mutant: the undo form is not bound to the pick it displays
UndoUnbound == picks # << >>

\* UndoLastPickIfCurrent: the form's token is compared under the lock
UndoCurrent == picks # << >> /\ page.prev = PreviousPickToken

\* AdminUndoPick: a paused clock stays as it is
AdminUndoPick ==
  /\ up /\ acts < MaxActs
  /\ UndoCurrent
  /\ picks' = SubSeq(picks, 1, Len(picks) - 1)
  /\ IF paused THEN UNCHANGED <<deadline, remaining>>
     ELSE deadline' = now + PickClock /\ remaining' = 0
  /\ acts' = acts + 1
  /\ UNCHANGED <<now, started, order, paused, durationSec, autopick, up, req, tick, admin, page>>

\* AdminForceAutopick: works while paused, bound to the page's current pick; the
\* instant is read before the Store call, the duration under its lock
ForceBegin(player) ==
  /\ up /\ admin.op = "idle" /\ acts < MaxActs
  /\ started /\ ~Complete
  /\ page.cur = CurrentPickToken
  /\ player \in AutopickChoices(picks, OnClock)
  /\ admin' = [op |-> "force", read |-> now, team |-> OnClock, player |-> player,
               token |-> CurrentPickToken]
  /\ acts' = acts + 1
  /\ UNCHANGED <<now, store, up, req, tick, page>>

ForceCommit ==
  /\ up /\ admin.op = "force"
  /\ admin' = NoAdmin
  /\ IF admin.token = CurrentPickToken /\ PickAllowed(admin.team, admin.player)
     THEN StoreAutoPick(admin.team, admin.player, admin.read + PickClock)
     ELSE UNCHANGED <<picks, clock>>
  /\ UNCHANGED <<now, started, order, durationSec, autopick, up, req, tick, page, acts>>

\* ResetDraft: the tape, the lifecycle, the clock and AUTO; the order stays
AdminResetDraft ==
  /\ up /\ acts < MaxActs
  /\ started' = FALSE /\ picks' = << >>
  /\ deadline' = 0 /\ paused' = FALSE /\ remaining' = 0 /\ durationSec' = 0
  /\ autopick' = {}
  /\ acts' = acts + 1
  /\ UNCHANGED <<now, order, up, req, tick, admin, page>>

-----------------------------------------------------------------------------
(* Time, crash and restart.  The Store is durable; whatever was in flight  *)
(* is lost; a browser keeps its page.  bootRecoverClock runs before the    *)
(* loop and before the server takes requests.                              *)

AdvanceTime ==
  /\ now < MaxNow
  /\ now' = now + 1
  /\ UNCHANGED <<store, up, req, tick, admin, page, acts>>

Crash ==
  /\ up /\ acts < MaxActs
  /\ up' = FALSE
  /\ req' = [r \in Requests |-> NoRequest]
  /\ tick' = NoTick
  /\ admin' = NoAdmin
  /\ acts' = acts + 1
  /\ UNCHANGED <<now, store, page>>

\* Mutant: the grace is not capped
BootGraceUncapped == PickClock

BootGrace == IF PickClock < RestartGrace THEN PickClock ELSE RestartGrace

Boot ==
  /\ ~up
  /\ up' = TRUE
  /\ deadline' = IF started /\ ~paused /\ deadline # 0 /\ deadline <= now
                 THEN now + BootGrace ELSE deadline
  /\ UNCHANGED <<now, started, picks, order, paused, remaining, durationSec, autopick,
                 req, tick, admin, page, acts>>

-----------------------------------------------------------------------------
Init ==
  /\ now = 1
  /\ started = FALSE /\ picks = << >> /\ order = << >>
  /\ deadline = 0 /\ paused = FALSE /\ remaining = 0 /\ durationSec = 0
  /\ autopick = {}
  /\ up = TRUE
  /\ req = [r \in Requests |-> NoRequest]
  /\ tick = NoTick
  /\ admin = NoAdmin
  /\ page = [cur |-> CurrentPickToken, prev |-> PreviousPickToken, order |-> order]
  /\ acts = 0

Manager ==
  \/ \E r \in Requests, t \in Teams, p \in Players : PickBegin(r, t, p)
  \/ \E r \in Requests : PickCommit(r)
  \/ \E t \in Teams : ToggleAutopick(t)

TickSees ==
  \/ TickSeesLeftover
  \/ TickSeesUnarmed
  \/ \E notSeen \in BOOLEAN : TickSeesEmptyPool(notSeen)
  \/ \E notSeen \in BOOLEAN, p \in Players : TickSeesDue(notSeen, p)

TickActs == TickClear \/ TickArm \/ TickPause \/ TickFire

Commissioner ==
  \/ RenderPage
  \/ \E o \in Orders : DrawDraftOrder(o)
  \/ StartBegin \/ StartCommit
  \/ AdminPauseClock
  \/ ResumeBegin \/ ResumeCommit
  \/ \E secs \in Extensions : AdminExtendClock(secs)
  \/ \E secs \in Durations : AdminSetClockSeconds(secs)
  \/ AdminUndoPick
  \/ \E p \in Players : ForceBegin(p)
  \/ ForceCommit
  \/ AdminResetDraft

Next ==
  \/ Manager
  \/ \E notSeen \in BOOLEAN : TickIdle(notSeen)
  \/ TickSees
  \/ TickActs
  \/ Commissioner
  \/ AdvanceTime
  \/ Crash
  \/ Boot

Spec == Init /\ [][Next]_vars

(***************************************************************************)
(* The loop runs every second for as long as the process is up, and an     *)
(* operator or the platform restarts a dead process.  Nobody has to pick,  *)
(* to use a control, or to finish a request.                               *)
(***************************************************************************)
Fairness ==
  /\ WF_vars(TickSees)
  /\ WF_vars(TickActs)
  /\ WF_vars(Boot)

FairSpec == Spec /\ Fairness

-----------------------------------------------------------------------------
(* Properties *)

PickRecord    == [team : Teams, player : Players, madeAt : 0..MaxActs]
RequestRecord == [op : {"idle", "store"}, team : Teams,
                  player : Players \cup {"none"}, next : Nat]
TickRecord    == [op : {"idle", "clear", "arm", "pause", "fire"}, at : Nat, number : Nat,
                  team : Teams, player : Players \cup {"none"}, seen : Nat, next : Nat,
                  reason : {"clock", "short"}]

\* An administrative request; its token is an opaque digest.
AdminTyped(a) ==
  /\ a.op \in {"idle", "start", "resume", "force"}
  /\ a.read \in Nat
  /\ a.team \in Teams
  /\ a.player \in Players \cup {"none"}

\* A request that will pick names a player of the pool.
NamesPlayer ==
  /\ \A r \in Requests : req[r].op = "store" => req[r].player \in Players
  /\ tick.op = "fire" => tick.player \in Players
  /\ admin.op = "force" => admin.player \in Players

\* Type invariant of the draft room: the Store's fields, and whatever a
\* manager, the clock loop or the commissioner has read and not yet applied.
TypeOK ==
  /\ now \in Nat \ {0}
  /\ started \in BOOLEAN
  /\ picks \in Seq(PickRecord)
  /\ order \in {<< >>} \cup Orders
  /\ deadline \in Nat
  /\ paused \in BOOLEAN
  /\ remaining \in Nat
  /\ durationSec \in Nat
  /\ autopick \in SUBSET Teams
  /\ up \in BOOLEAN
  /\ req \in [Requests -> RequestRecord]
  /\ tick \in TickRecord
  /\ AdminTyped(admin)
  /\ NamesPlayer
  /\ acts \in 0..MaxActs

(***************************************************************************)
(* No player is on the tape twice, whichever of a manager, the clock loop  *)
(* and the commissioner got him, and however their requests, undos, resets *)
(* and restarts interleave: MakePick and autoPickLocked scan the tape      *)
(* under the lock.                                                         *)
(***************************************************************************)
NoDoubleDraft ==
  \A i, j \in DOMAIN picks : picks[i].player = picks[j].player => i = j

(***************************************************************************)
(* Pick number n belongs to the seat the snake puts at n under the order   *)
(* as it stands now: no redraw, undo or late request leaves a pick on the  *)
(* tape that the current order gives to another seat, and the tape never   *)
(* outgrows the draft (teamOnClock, DrawDraftOrder's started check).       *)
(***************************************************************************)
TapeFollowsSnake ==
  /\ Len(picks) <= Total
  /\ \A i \in DOMAIN picks : picks[i].team = TeamOnClock(order, i)

(***************************************************************************)
(* A pick on the tape means the draft is open, so every draft-shaping      *)
(* control that StartDraft locks (the order draw) stays locked while picks *)
(* exist.                                                                  *)
(***************************************************************************)
PicksOnlyInOpenDraft == picks # << >> => started

(***************************************************************************)
(* The deadline the seat sees is the deadline it gets: when the clock loop *)
(* takes a pick because time ran out, the deadline stored at that instant  *)
(* has passed and the clock is not paused, whatever extension, pause,      *)
(* resume or other pick committed after the loop took its snapshot.        *)
(***************************************************************************)
LoopPicksOnlyOnExpiredClock ==
  [][ /\ tick.op = "fire" /\ tick' = NoTick /\ up'
      /\ Len(picks') > Len(picks)
      => ~paused /\ (tick.reason = "clock" => deadline # 0 /\ now >= deadline) ]_vars

(***************************************************************************)
(* season-operations.md, "Undo only the exact last pick displayed": a step *)
(* that takes one pick off the tape takes the pick the submitted page      *)
(* showed, never an earlier one, and leaves a paused clock as it was.      *)
(***************************************************************************)
UndoRemovesDisplayedPick ==
  [][ picks # << >> /\ picks' = SubSeq(picks, 1, Len(picks) - 1) /\ started'
      => /\ page.prev # << >>
         /\ page.prev[1].pick = picks[Len(picks)]
         /\ paused => deadline' = deadline /\ remaining' = remaining ]_vars

(***************************************************************************)
(* Restart fairness: a boot never starts, ends or advances a draft, leaves *)
(* a paused clock and a future deadline alone, and turns an expired one    *)
(* into a deadline that is still ahead, at most RestartGrace away.         *)
(***************************************************************************)
BootIsFair ==
  [][ ~up /\ up'
      => /\ <<started, picks, order, paused, remaining>>' =
              <<started, picks, order, paused, remaining>>
         /\ deadline > now \/ paused => deadline' = deadline
         /\ started /\ ~paused /\ deadline # 0
              => deadline' > now
         /\ deadline' # deadline => deadline' <= now + RestartGrace ]_vars

\* A running clock that has expired: the loop takes a pick for the seat, or
\* pauses when no legal player is left.
Overdue == started /\ ~Complete /\ ~paused /\ deadline # 0 /\ now >= deadline

\* A draft that runs without a deadline: the loop arms it (a pick that raced a
\* pause leaves it bare).
Bare == started /\ ~Complete /\ ~paused /\ deadline = 0

\* A complete draft with a clock: the loop clears it, also when an arm or a pause
\* decided before the last pick lands after it.
Leftover == started /\ Complete /\ (deadline # 0 \/ paused \/ remaining # 0)

(***************************************************************************)
(* The clock keeps the draft moving: whatever the loop owes the draft, the *)
(* time comes when it owes nothing, because it acted or because somebody   *)
(* acted first (startDraftClock).                                          *)
(***************************************************************************)
ClockKeepsMoving == []<>~(Overdue \/ Bare \/ Leftover)

(***************************************************************************)
(* The tape: no player twice, the seats in snake order, empty until the    *)
(* draft opens, whoever picks, draws or undoes at the same time.           *)
(***************************************************************************)
TapeIsSound == NoDoubleDraft /\ TapeFollowsSnake /\ PicksOnlyInOpenDraft

(***************************************************************************)
(* The room implements the abstract snake draft.                           *)
(***************************************************************************)
Draft == INSTANCE SnakeDraft WITH open <- started, tape <- picks, Stamps <- 0..MaxActs

ImplementsSnakeDraft == Draft!Spec

=============================================================================

---------------------------- MODULE DraftEvents ----------------------------
(***************************************************************************)
(* How a committed change of the draft reaches the open rooms.  A handler  *)
(* (a manager's pick, the clock loop, a commissioner's undo, reset, start) *)
(* commits to the Store, reads its own snapshot afterwards and then emits; *)
(* emitting never blocks: a full queue drops the event and asks the repair *)
(* loop for one draft:state that describes everything.  One drain          *)
(* goroutine hands events to the sink, which broadcasts them.              *)
(* Source: internal/league/draft_events.go, the handlers in service.go,    *)
(* draftclock.go and admin.go, and the sink in app/draft/live.go.          *)
(* The draft itself is DraftRoom; here a commit is a version number.       *)
(***************************************************************************)
EXTENDS Integers, Sequences, FiniteSets

CONSTANTS
  Handlers,    (* requests and the clock loop, each a goroutine             *)
  Total,       (* picks of a complete draft                                 *)
  QueueSize,   (* draftEventQueueSize                                       *)
  MaxCommits,  (* bound: committed changes                                  *)
  MaxClocks    (* bound: clock and seat events are emitted below this       *)
               (* generation only                                           *)

ASSUME EventsAssumption ==
  /\ Total \in Nat \ {0}
  /\ QueueSize \in Nat \ {0}
  /\ MaxCommits \in Nat /\ MaxClocks \in Nat

VARIABLES
  started,     (* DraftStarted                                              *)
  made,        (* len(Picks)                                                *)
  commits,     (* how many changes the Store has committed: its version     *)
  latch,       (* draftCompleteEmitted                                      *)
  h,           (* each handler between two of its steps                     *)
  generation,  (* draftGeneration                                           *)
  queue,       (* draftQueue                                                *)
  signal,      (* draftRepairSignal, one slot                               *)
  repair,      (* the repair loop: idle, building, or sending an event      *)
  repairQueue, (* draftRepairQueue, one slot                                *)
  lastGen,     (* LiveUpdates.lastGeneration                                *)
  shown,       (* versions some broadcast has described to the rooms        *)
  lost,        (* versions whose event was dropped at the full queue        *)
  mended,      (* the newest version a repair has described                 *)
  emitted,     (* every draft:state emitted, regular or repair              *)
  announced    (* completion announcements since the latch was last cleared *)

storeVars == <<started, made, commits>>
wireVars  == <<generation, queue, signal>>
ghosts    == <<lost, mended, emitted, announced>>
vars == <<started, made, commits, latch, h, generation, queue, signal, repair,
          repairQueue, lastGen, shown, lost, mended, emitted, announced>>

Complete == made >= Total

(***************************************************************************)
(* An event.  A draft:state (a completion, the reopening by an undo, a     *)
(* reset or start, a repair) describes every version up to "at"; any other *)
(* only the version it announces, 0 for a clock or seat change.            *)
(***************************************************************************)
Event(name, gen, at) == [name |-> name, gen |-> gen, at |-> at]

IsState(e) == e.name \in {"completion", "reopening", "lifecycle", "repair"}

Idle == [pc |-> "idle", before |-> FALSE, after |-> FALSE, mine |-> 0, at |-> 0,
         clock |-> FALSE]

-----------------------------------------------------------------------------
(***************************************************************************)
(* emitDraftEvent: the generation and the enqueue are one step under       *)
(* draftEmitMu; a drop raises the one-slot signal.                         *)
(***************************************************************************)
Emit(name, at) ==
  LET e == Event(name, generation + 1, at)
  IN  /\ generation' = generation + 1
      /\ IF Len(queue) < QueueSize
         THEN queue' = Append(queue, e) /\ UNCHANGED <<signal, lost>>
         ELSE /\ signal' = TRUE
              /\ lost' = lost \cup ({at} \ {0})
              /\ UNCHANGED queue
      /\ emitted' = emitted \cup (IF IsState(e) THEN {e} ELSE {})

-----------------------------------------------------------------------------
(* A pick: Service.MakePick, clockTick's auto-pick, AdminForceAutopick *)

\* On a complete snapshot all three stop: no roster has a spot left
PickRead(x) ==
  /\ h[x].pc = "idle" /\ started /\ ~Complete
  /\ h' = [h EXCEPT ![x] = [Idle EXCEPT !.pc = "pick", !.before = Complete]]
  /\ UNCHANGED <<storeVars, latch, wireVars, repair, repairQueue, lastGen, shown, ghosts>>

\* Mutant: the Store does not check again that a pick is left
PickCommitUncapped(x) ==
  /\ h[x].pc = "pick" /\ started /\ commits < MaxCommits
  /\ made' = made + 1
  /\ commits' = commits + 1
  /\ h' = [h EXCEPT ![x].pc = "pickSnap", ![x].mine = commits + 1]
  /\ UNCHANGED <<started, latch, wireVars, repair, repairQueue, lastGen, shown, ghosts>>

PickCommit(x) ==
  /\ h[x].pc = "pick" /\ started /\ ~Complete /\ commits < MaxCommits
  /\ made' = made + 1
  /\ commits' = commits + 1
  /\ h' = [h EXCEPT ![x].pc = "pickSnap", ![x].mine = commits + 1]
  /\ UNCHANGED <<started, latch, wireVars, repair, repairQueue, lastGen, shown, ghosts>>

\* The Store refused: closed, complete, out of turn, drafted, stale
PickRefused(x) ==
  /\ h[x].pc = "pick"
  /\ h' = [h EXCEPT ![x] = Idle]
  /\ UNCHANGED <<storeVars, latch, wireVars, repair, repairQueue, lastGen, shown, ghosts>>

PickSnapshot(x) ==
  /\ h[x].pc = "pickSnap"
  /\ h' = [h EXCEPT ![x].pc = "pickEmit", ![x].after = Complete, ![x].at = commits]
  /\ UNCHANGED <<storeVars, latch, wireVars, repair, repairQueue, lastGen, shown, ghosts>>

PickEmit(x) ==
  /\ h[x].pc = "pickEmit"
  /\ Emit("pick", h[x].mine)
  /\ h' = [h EXCEPT ![x].pc = "latch"]
  /\ UNCHANGED <<storeVars, latch, repair, repairQueue, lastGen, shown, mended, announced>>

\* Mutant: the latch is set but nobody looks whether it already was
CompletionIsMineUnlatched(x) == ~h[x].before /\ h[x].after

\* maybeEmitDraftComplete: the crossing, and the compare-and-swap
CompletionIsMine(x) == ~h[x].before /\ h[x].after /\ ~latch

PickLatch(x) ==
  /\ h[x].pc = "latch"
  /\ IF CompletionIsMine(x)
     THEN /\ latch' = TRUE
          /\ announced' = announced + 1
          /\ h' = [h EXCEPT ![x].pc = "complete"]
     ELSE /\ h' = [h EXCEPT ![x] = Idle]
          /\ UNCHANGED <<latch, announced>>
  /\ UNCHANGED <<storeVars, wireVars, repair, repairQueue, lastGen, shown, lost, mended, emitted>>

CompleteEmit(x) ==
  /\ h[x].pc = "complete"
  /\ Emit("completion", h[x].at)
  /\ h' = [h EXCEPT ![x] = Idle]
  /\ UNCHANGED <<storeVars, latch, repair, repairQueue, lastGen, shown, mended, announced>>

-----------------------------------------------------------------------------
(* AdminUndoPick: bound to the state it read; clears the latch when it     *)
(* reopens the last slot                                                   *)

UndoRead(x) ==
  /\ h[x].pc = "idle" /\ made > 0
  /\ h' = [h EXCEPT ![x] = [Idle EXCEPT !.pc = "undo", !.before = Complete, !.at = commits]]
  /\ UNCHANGED <<storeVars, latch, wireVars, repair, repairQueue, lastGen, shown, ghosts>>

UndoCommit(x) ==
  /\ h[x].pc = "undo"
  /\ IF h[x].at = commits /\ commits < MaxCommits
     THEN /\ made' = made - 1
          /\ commits' = commits + 1
          /\ h' = [h EXCEPT ![x].pc = "undoSnap", ![x].mine = commits + 1]
     ELSE /\ h' = [h EXCEPT ![x] = Idle]
          /\ UNCHANGED <<made, commits>>
  /\ UNCHANGED <<started, latch, wireVars, repair, repairQueue, lastGen, shown, ghosts>>

UndoSnapshot(x) ==
  /\ h[x].pc = "undoSnap"
  /\ h' = [h EXCEPT ![x].pc = "undoEmit", ![x].after = Complete, ![x].at = commits]
  /\ UNCHANGED <<storeVars, latch, wireVars, repair, repairQueue, lastGen, shown, ghosts>>

UndoEmit(x) ==
  /\ h[x].pc = "undoEmit"
  /\ Emit("undo", h[x].mine)
  /\ h' = [h EXCEPT ![x] = IF h[x].before /\ ~h[x].after THEN [@ EXCEPT !.pc = "undoClear"]
                           ELSE Idle]
  /\ UNCHANGED <<storeVars, latch, repair, repairQueue, lastGen, shown, mended, announced>>

UndoClear(x) ==
  /\ h[x].pc = "undoClear"
  /\ latch' = FALSE /\ announced' = 0
  /\ h' = [h EXCEPT ![x].pc = "undoState"]
  /\ UNCHANGED <<storeVars, wireVars, repair, repairQueue, lastGen, shown, lost, mended, emitted>>

UndoStateEmit(x) ==
  /\ h[x].pc = "undoState"
  /\ Emit("reopening", h[x].at)
  /\ h' = [h EXCEPT ![x] = Idle]
  /\ UNCHANGED <<storeVars, latch, repair, repairQueue, lastGen, shown, mended, announced>>

-----------------------------------------------------------------------------
(* AdminResetDraft and AdminStartDraft: commit, clear the latch, then      *)
(* snapshot and announce; the start also emits draft:clock                 *)

ResetCommit(x) ==
  /\ h[x].pc = "idle" /\ commits < MaxCommits
  /\ started' = FALSE /\ made' = 0
  /\ commits' = commits + 1
  /\ h' = [h EXCEPT ![x] = [Idle EXCEPT !.pc = "lifeClear"]]
  /\ UNCHANGED <<latch, wireVars, repair, repairQueue, lastGen, shown, ghosts>>

StartCommit(x) ==
  /\ h[x].pc = "idle" /\ ~started /\ commits < MaxCommits
  /\ started' = TRUE
  /\ commits' = commits + 1
  /\ h' = [h EXCEPT ![x] = [Idle EXCEPT !.pc = "lifeClear", !.clock = TRUE]]
  /\ UNCHANGED <<made, latch, wireVars, repair, repairQueue, lastGen, shown, ghosts>>

LifecycleClear(x) ==
  /\ h[x].pc = "lifeClear"
  /\ latch' = FALSE /\ announced' = 0
  /\ h' = [h EXCEPT ![x].pc = "lifeSnap"]
  /\ UNCHANGED <<storeVars, wireVars, repair, repairQueue, lastGen, shown, lost, mended, emitted>>

LifecycleSnapshot(x) ==
  /\ h[x].pc = "lifeSnap"
  /\ h' = [h EXCEPT ![x].pc = "lifeEmit", ![x].at = commits]
  /\ UNCHANGED <<storeVars, latch, wireVars, repair, repairQueue, lastGen, shown, ghosts>>

LifecycleEmit(x) ==
  /\ h[x].pc = "lifeEmit"
  /\ Emit("lifecycle", h[x].at)
  /\ h' = [h EXCEPT ![x] = IF @.clock THEN [@ EXCEPT !.pc = "clock"] ELSE Idle]
  /\ UNCHANGED <<storeVars, latch, repair, repairQueue, lastGen, shown, mended, announced>>

StartClockEmit(x) ==
  /\ h[x].pc = "clock"
  /\ Emit("clock", 0)
  /\ h' = [h EXCEPT ![x] = Idle]
  /\ UNCHANGED <<storeVars, latch, repair, repairQueue, lastGen, shown, mended, announced>>

-----------------------------------------------------------------------------
(* A clock or seat change of another handler (pause, resume, extend, AUTO, *)
(* presence): emitDraftClock, draft:seat                                   *)

ClockEmit ==
  /\ generation < MaxClocks
  /\ Emit("clock", 0)
  /\ UNCHANGED <<storeVars, latch, h, repair, repairQueue, lastGen, shown, mended, announced>>

-----------------------------------------------------------------------------
(* draftRepairLoop and sendDraftRepair *)

RepairTake ==
  /\ signal /\ repair.pc = "idle"
  /\ signal' = FALSE
  /\ repair' = [repair EXCEPT !.pc = "build"]
  /\ UNCHANGED <<storeVars, latch, h, generation, queue, repairQueue, lastGen, shown, ghosts>>

\* The generation and the snapshot are taken together under draftEmitMu
RepairBuild ==
  /\ repair.pc = "build"
  /\ generation' = generation + 1
  /\ repair' = [pc |-> "send", event |-> Event("repair", generation + 1, commits)]
  /\ mended' = commits
  /\ UNCHANGED <<storeVars, latch, h, queue, signal, repairQueue, lastGen, shown, lost,
                 emitted, announced>>

\* Mutant: the generation is assigned at the send, long after the snapshot
RepairSendLateGeneration ==
  /\ repair.pc = "send" /\ repairQueue = << >>
  /\ generation' = generation + 1
  /\ LET e == [repair.event EXCEPT !.gen = generation + 1]
     IN  /\ repairQueue' = <<e>>
         /\ emitted' = emitted \cup {e}
  /\ repair' = [repair EXCEPT !.pc = "idle"]
  /\ UNCHANGED <<storeVars, latch, h, queue, signal, lastGen, shown, lost, mended, announced>>

\* Mutant: the signal is cleared once the repair is out, not when it is taken up
RepairSendClearsSignal ==
  /\ repair.pc = "send" /\ repairQueue = << >>
  /\ repairQueue' = <<repair.event>>
  /\ emitted' = emitted \cup {repair.event}
  /\ repair' = [repair EXCEPT !.pc = "idle"]
  /\ signal' = FALSE
  /\ UNCHANGED <<storeVars, latch, h, generation, queue, lastGen, shown, lost, mended, announced>>

\* The send parks until the single slot is free
RepairSend ==
  /\ repair.pc = "send" /\ repairQueue = << >>
  /\ repairQueue' = <<repair.event>>
  /\ emitted' = emitted \cup {repair.event}
  /\ repair' = [repair EXCEPT !.pc = "idle"]
  /\ UNCHANGED <<storeVars, latch, h, wireVars, lastGen, shown, lost, mended, announced>>

-----------------------------------------------------------------------------
(***************************************************************************)
(* draftEventDrain takes from either channel as it likes; the sink refuses *)
(* a draft:state that is not newer than the newest event it has passed on. *)
(***************************************************************************)
Deliver(e) ==
  /\ lastGen' = IF e.gen > lastGen THEN e.gen ELSE lastGen
  /\ shown' = IF IsState(e) /\ e.gen <= lastGen THEN shown
              ELSE shown \cup (IF IsState(e) THEN 1..e.at ELSE ({e.at} \ {0}))

DrainQueue ==
  /\ queue # << >>
  /\ queue' = Tail(queue)
  /\ Deliver(Head(queue))
  /\ UNCHANGED <<storeVars, latch, h, generation, signal, repair, repairQueue, ghosts>>

DrainRepair ==
  /\ repairQueue # << >>
  /\ repairQueue' = << >>
  /\ Deliver(repairQueue[1])
  /\ UNCHANGED <<storeVars, latch, h, wireVars, repair, ghosts>>

-----------------------------------------------------------------------------
Init ==
  /\ started = FALSE /\ made = 0 /\ commits = 0
  /\ latch = FALSE
  /\ h = [x \in Handlers |-> Idle]
  /\ generation = 0 /\ queue = << >> /\ signal = FALSE
  /\ repair = [pc |-> "idle", event |-> Event("repair", 0, 0)]
  /\ repairQueue = << >>
  /\ lastGen = 0 /\ shown = {}
  /\ lost = {} /\ mended = 0 /\ emitted = {} /\ announced = 0

\* The steps that finish what a handler has begun.
Handler(x) ==
  \/ PickCommit(x) \/ PickRefused(x) \/ PickSnapshot(x) \/ PickEmit(x) \/ PickLatch(x)
  \/ CompleteEmit(x)
  \/ UndoCommit(x) \/ UndoSnapshot(x) \/ UndoEmit(x) \/ UndoClear(x)
  \/ UndoStateEmit(x)
  \/ LifecycleClear(x) \/ LifecycleSnapshot(x) \/ LifecycleEmit(x) \/ StartClockEmit(x)

Request(x) == PickRead(x) \/ UndoRead(x) \/ ResetCommit(x) \/ StartCommit(x)

RepairLoop == RepairTake \/ RepairBuild \/ RepairSend

Drain == DrainQueue \/ DrainRepair

Next ==
  \/ \E x \in Handlers : Request(x) \/ Handler(x)
  \/ ClockEmit
  \/ RepairLoop
  \/ Drain

Spec == Init /\ [][Next]_vars

(***************************************************************************)
(* The repair loop and the drain are goroutines of their own that only     *)
(* wait for their channels, and a select over two ready channels does not  *)
(* starve either.                                                          *)
(***************************************************************************)
FairSpec == /\ Spec
            /\ WF_vars(RepairLoop)
            /\ WF_vars(DrainQueue)
            /\ WF_vars(DrainRepair)

-----------------------------------------------------------------------------
(* Properties *)

Events == [name : {"pick", "undo", "clock", "completion", "reopening", "lifecycle", "repair"},
           gen : Nat, at : 0..MaxCommits]

\* Type invariant of the event path.
TypeOK ==
  /\ started \in BOOLEAN /\ latch \in BOOLEAN /\ signal \in BOOLEAN
  /\ made \in 0..Total
  /\ commits \in 0..MaxCommits
  /\ generation \in Nat /\ lastGen \in Nat /\ mended \in Nat /\ announced \in Nat
  /\ queue \in Seq(Events) /\ Len(queue) <= QueueSize
  /\ repairQueue \in Seq(Events) /\ Len(repairQueue) <= 1
  /\ repair \in [pc : {"idle", "build", "send"}, event : Events]
  /\ shown \subseteq 1..MaxCommits /\ lost \subseteq 1..MaxCommits

(***************************************************************************)
(* However many picks cross into completion at the same time (each judges  *)
(* by snapshots of its own), one completion is announced until the latch   *)
(* is cleared: the comment on maybeEmitDraftComplete calls the             *)
(* compare-and-swap "the actual single-emit guarantee".                    *)
(***************************************************************************)
SingleCompletion == announced <= 1

(***************************************************************************)
(* A repair never overrules news: whatever a regular draft:state of a      *)
(* lower generation described, the repair has seen it too, so a room that  *)
(* applies the higher generation never falls back (sendDraftRepair takes   *)
(* generation and snapshot under one lock).                                *)
(***************************************************************************)
RepairIsFresh ==
  \A r, e \in emitted :
    r.name = "repair" /\ e.name # "repair" /\ e.gen < r.gen => e.at <= r.at

(***************************************************************************)
(* Every drop is answered: a repair whose snapshot includes the dropped    *)
(* change is built, however the drop falls between the repair loop's taking *)
(* of the signal, its snapshot and its send (draftRepairLoop).             *)
(***************************************************************************)
DropsAreMended == []<>(\A v \in lost : mended >= v)

\* What the rooms hear of the draft: one completion, and no repair that takes
\* back newer news (maybeEmitDraftComplete, sendDraftRepair).
AnnouncementsAreSound == SingleCompletion /\ RepairIsFresh
=============================================================================

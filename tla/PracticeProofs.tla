---------------------------- MODULE PracticeProofs ----------------------------
(***************************************************************************)
(* Proofs about practice drafts: the registry stays within its cap and     *)
(* leaks no sandbox, a finished practice stays finished and an open one    *)
(* is kept.                                                                *)
(***************************************************************************)
EXTENDS Practice, FiniteSetTheorems, TLAPS

Minutes == 1..LastMinute
Marks   == 0..LastMinute

Sandboxes ==
  [picks : 0..FullBoard, due : 0..FullBoard, armed : BOOLEAN, touched : Marks,
   done : BOOLEAN, closed : BOOLEAN, realAt : Marks]

Building == [at : {"build"}, who : Viewer, asked : Minutes, picks : FirstPick]
Handling ==
  [at : {"insert", "close", "touch", "check", "pick", "settle"}, who : Viewer, asked : Minutes, session : Built]

\* A request that holds a session no member sees
Holds(r) == errand[r] # NoErrand /\ errand[r].at \in {"insert", "close"}

-----------------------------------------------------------------------------
(* The inductive invariant *)

PracticeShape ==
  /\ PracticeTypeOK /\ Cardinality(DOMAIN drafts) \in Nat
  /\ errand \in [Request -> {NoErrand} \cup Building \cup Handling]
  /\ round # NoErrand => round \subseteq Built

\* A session is one member's or one request's.
OneHolder ==
  /\ \A v, w \in Viewer : v # w /\ open[v] # NoSession => open[v] # open[w]
  /\ \A r \in Request : Holds(r) => errand[r].session \notin Registered
  /\ \A r, q \in Request : r # q /\ Holds(r) /\ Holds(q) => errand[r].session # errand[q].session

\* What is registered, or about to be, is open.
OpenInside ==
  /\ RegisteredAreOpen
  /\ \A r \in Request : Holds(r) /\ errand[r].at = "insert" => ~drafts[errand[r].session].closed

\* A session learns of the real draft from the real draft.
RealIsReal == \A s \in Built : drafts[s].realAt # 0 => live

PracticeInv == PracticeShape /\ OneHolder /\ OpenInside /\ NothingLeaks /\ RealIsReal /\ CapHolds

-----------------------------------------------------------------------------
(* Sessions and counts *)

LEMMA ConstantsAreNumbers ==
  /\ Capacity \in Nat /\ Ttl \in Nat /\ Grace \in Nat /\ FullBoard \in Nat /\ LastMinute \in Nat \ {0}
  /\ \A n \in FirstPick \cup MyTurns : n \in 0..FullBoard
BY PracticeNumbers

\* With the domain's count a number, the sessions built are an interval.
LEMMA BuiltFinite ==
  ASSUME PracticeShape
  PROVE  /\ Cardinality(DOMAIN drafts) \in Nat /\ Built = DOMAIN drafts /\ Built \subseteq Nat
         /\ IsFiniteSet(Built) /\ NoSession \notin Built
<1>1. IsFiniteSet(1 .. Cardinality(DOMAIN drafts))
  BY FS_Interval, 0 \in Int DEF PracticeShape
<1> QED
  BY <1>1, PracticeNumbers, SMTT(60) DEF PracticeShape, PracticeTypeOK, Built

LEMMA RegisteredBuilt ==
  ASSUME PracticeShape
  PROVE  Registered \subseteq Built /\ IsFiniteSet(Registered) /\ Cardinality(Registered) \in Nat
<1>1. Registered \subseteq Built
  BY DEF PracticeShape, PracticeTypeOK, Registered
<1> QED
  BY <1>1, BuiltFinite, FS_Subset, FS_CardinalityType

\* Closing sessions keeps every sandbox a sandbox.
LEMMA ClosingKeeps ==
  ASSUME PracticeShape, NEW S
  PROVE  /\ CloseAll(S) \in [Built -> Sandboxes]
         /\ \A s \in Built : /\ CloseAll(S)[s].closed <=> (s \in S \/ drafts[s].closed)
                             /\ CloseAll(S)[s].done <=> (s \in S \/ drafts[s].done)
                             /\ CloseAll(S)[s].picks = drafts[s].picks /\ CloseAll(S)[s].armed = drafts[s].armed
                             /\ CloseAll(S)[s].realAt = drafts[s].realAt
BY ZenonT(60) DEF PracticeShape, PracticeTypeOK, CloseAll, Closed, Sandboxes, Marks

\* A sweep takes the stale sessions out and closes them.
LEMMA SweepRemoves ==
  ASSUME PracticeShape, NEW S, S \subseteq Registered, open' = Removing(S)
  PROVE  /\ open' \in [Viewer -> Built \cup {NoSession}]
         /\ Registered' = Registered \ S
         /\ \A v \in Viewer : open'[v] # NoSession => open'[v] = open[v]
<1>1. NoSession \notin S /\ S \subseteq Built
  BY RegisteredBuilt, BuiltFinite
<1> QED
  BY <1>1 DEF PracticeShape, PracticeTypeOK, Registered, Removing

-----------------------------------------------------------------------------
(* Every action keeps the shape *)

\* The same sessions stay built when only what is known of them changes.
LEMMA SameSessions ==
  ASSUME PracticeShape, drafts' \in [Built -> Sandboxes]
  PROVE  Built' = Built
BY BuiltFinite DEF Built

\* What a request does next is its own affair.
LEMMA ErrandType ==
  ASSUME PracticeShape, NEW r \in Request, NEW e \in {NoErrand} \cup Building \cup Handling, Do(r, e)
  PROVE  /\ errand' \in [Request -> {NoErrand} \cup Building \cup Handling]
         /\ errand'[r] = e /\ \A q \in Request \ {r} : errand'[q] = errand[q]
BY DEF PracticeShape, Do

\* A step that builds nothing keeps the shape if its parts do.
LEMMA ShapeFrame ==
  ASSUME PracticeShape, drafts' \in [Built -> Sandboxes],
         minute' \in Minutes, live' \in BOOLEAN,
         open' \in [Viewer -> Built \cup {NoSession}],
         errand' \in [Request -> {NoErrand} \cup Building \cup Handling],
         round' # NoErrand => round' \subseteq Built
  PROVE  PracticeShape' /\ Built' = Built
<1>1. Built' = Built /\ DOMAIN drafts' = DOMAIN drafts
  BY SameSessions, BuiltFinite
<1>2. Handling' = Handling
  BY <1>1 DEF Handling
<1> QED
  BY <1>1, <1>2, BuiltFinite DEF PracticeShape, PracticeTypeOK, Minutes, Sandboxes, Marks

\* What the parts of the shape say, for a step to cite.
LEMMA ShapeParts ==
  ASSUME PracticeShape
  PROVE  /\ drafts \in [Built -> Sandboxes] /\ minute \in Minutes /\ live \in BOOLEAN
         /\ open \in [Viewer -> Built \cup {NoSession}]
         /\ errand \in [Request -> {NoErrand} \cup Building \cup Handling]
         /\ round # NoErrand => round \subseteq Built
BY DEF PracticeShape, PracticeTypeOK, Minutes, Sandboxes, Marks

\* A request that is at something is known by what it is at.
LEMMA ErrandParts ==
  ASSUME PracticeShape, NEW r \in Request, errand[r] # NoErrand
  PROVE  /\ errand[r].who \in Viewer /\ errand[r].asked \in Minutes
         /\ errand[r].at = "build" => errand[r] \in Building /\ errand[r].picks \in FirstPick
         /\ errand[r].at # "build" => errand[r] \in Handling /\ errand[r].session \in Built
BY DEF PracticeShape, Building, Handling

\* A sandbox that picks, settles, is touched or finishes is a sandbox.
LEMMA SandboxMoves ==
  ASSUME NEW d \in Sandboxes, NEW m \in Minutes
  PROVE  /\ FinishedIfOver(d) \in Sandboxes /\ Finished(d) \in Sandboxes
         /\ [d EXCEPT !.touched = m] \in Sandboxes /\ [d EXCEPT !.due = FullBoard] \in Sandboxes
         /\ [d EXCEPT !.due = d.picks] \in Sandboxes /\ [d EXCEPT !.realAt = m] \in Sandboxes
         /\ d.picks # FullBoard => Picked(d) \in Sandboxes
<1>1. FullBoard \in Nat /\ FullBoard \in 0..FullBoard /\ d.picks \in 0..FullBoard
  BY PracticeNumbers DEF Sandboxes
<1>2. Finished(d) \in Sandboxes
  BY DEF Finished, Sandboxes
<1>3. FinishedIfOver(d) \in Sandboxes
  BY <1>2 DEF FinishedIfOver
<1>4. m \in Marks
  BY DEF Minutes, Marks
<1>5. [d EXCEPT !.touched = m] \in Sandboxes /\ [d EXCEPT !.realAt = m] \in Sandboxes
  BY <1>4 DEF Sandboxes
<1>6. [d EXCEPT !.due = FullBoard] \in Sandboxes /\ [d EXCEPT !.due = d.picks] \in Sandboxes
  BY <1>1 DEF Sandboxes
<1>7. ASSUME d.picks # FullBoard PROVE Picked(d) \in Sandboxes
  <2>1. d.picks + 1 \in 0..FullBoard /\ (d.picks + 1 < FullBoard) \in BOOLEAN
    BY <1>1, <1>7
  <2> QED
    BY <2>1 DEF Picked, Sandboxes
<1> QED
  BY <1>2, <1>3, <1>5, <1>6, <1>7

\* Finishing a sandbox neither closes it nor tells it of the real draft.
LEMMA FinishedIsOpen ==
  ASSUME NEW d \in Sandboxes, NEW m \in Minutes
  PROVE  /\ Finished(d).closed = d.closed /\ Finished(d).realAt = d.realAt
         /\ [d EXCEPT !.realAt = m].closed = d.closed
BY DEF Finished, Sandboxes

LEMMA MovesAreSandboxes ==
  ASSUME NEW d \in Sandboxes, d.picks # FullBoard, NEW e \in Moves(d)
  PROVE  e \in Sandboxes /\ e.closed = d.closed /\ e.realAt = d.realAt
<1>1. 1 \in Minutes
  BY PracticeNumbers DEF Minutes
<1> DEFINE late == [d EXCEPT !.due = FullBoard]
<1>2. late \in Sandboxes /\ late.picks = d.picks
  BY <1>1, SandboxMoves DEF Sandboxes
<1>3. Picked(d) \in Sandboxes /\ Picked(late) \in Sandboxes
  BY <1>1, <1>2, SandboxMoves
<1>4. e \in {late, FinishedIfOver(Picked(late)), [d EXCEPT !.due = d.picks], d, FinishedIfOver(Picked(d)), Finished(d)}
  BY DEF Moves
<1>5. e \in Sandboxes
  BY <1>1, <1>2, <1>3, <1>4, SandboxMoves
<1> QED
  BY <1>4, <1>5 DEF Picked, Finished, FinishedIfOver, Sandboxes

-----------------------------------------------------------------------------
(* The invariant across a step *)

\* A request that no longer holds a session, or holds it on.
HoldsOn(r) ==
  Holds(r)' => Holds(r) /\ errand'[r].session = errand[r].session /\ (errand'[r].at = "insert" => errand[r].at = "insert")

\* A step that leaves the registry and the holders alone keeps the invariant.
LEMMA InvFrame ==
  ASSUME PracticeInv, PracticeShape', Built' = Built, open' = open, live => live',
         \A s \in Built : /\ drafts'[s].closed = drafts[s].closed
                          /\ drafts'[s].realAt # 0 => drafts[s].realAt # 0 \/ live',
         \A r \in Request : HoldsOn(r) /\ (Holds(r) => Holds(r)')
  PROVE  PracticeInv'
<1>1. Registered' = Registered
  BY DEF Registered
<1>2. Registered \subseteq Built
  BY RegisteredBuilt DEF PracticeInv
<1>3. \A r \in Request : Holds(r) => errand[r].session \in Built
  BY ErrandParts DEF PracticeInv, Holds
<1>4. OneHolder'
  BY <1>1 DEF PracticeInv, OneHolder, HoldsOn
<1>5. OpenInside'
  BY <1>1, <1>2, <1>3 DEF PracticeInv, OpenInside, RegisteredAreOpen, HoldsOn
<1>6. NothingLeaks'
  <2> SUFFICES ASSUME NEW s \in Built, ~drafts'[s].closed, s \notin Registered
               PROVE  s \in Held'
    BY <1>1 DEF NothingLeaks
  <2>1. PICK r \in Request : Holds(r) /\ errand[r].session = s
    BY DEF PracticeInv, NothingLeaks, Held, Holds
  <2>2. Holds(r)' /\ errand'[r].session = s
    BY <2>1 DEF HoldsOn
  <2> QED
    BY <2>2 DEF Held, Holds
<1>7. RealIsReal'
  BY DEF PracticeInv, RealIsReal
<1>8. CapHolds'
  BY <1>1 DEF PracticeInv, CapHolds
<1> QED
  BY <1>4, <1>5, <1>6, <1>7, <1>8 DEF PracticeInv

\* A sweep keeps the invariant.
LEMMA InvSweep ==
  ASSUME PracticeInv, PracticeShape', Built' = Built, live' = live,
         open' = Removing(Stale), drafts' = CloseAll(Stale),
         \A r \in Request : HoldsOn(r) /\ (Holds(r) => Holds(r)')
  PROVE  PracticeInv'
<1> USE DEF PracticeInv
<1>1. Stale \subseteq Registered
  BY DEF Stale
<1>2. /\ Registered' = Registered \ Stale
      /\ \A v \in Viewer : open'[v] # NoSession => open'[v] = open[v]
  BY <1>1, SweepRemoves
<1>3. Registered \subseteq Built /\ IsFiniteSet(Registered)
  BY RegisteredBuilt
<1>4. \A s \in Built : /\ drafts'[s].closed <=> (s \in Stale \/ drafts[s].closed)
                       /\ drafts'[s].realAt = drafts[s].realAt
  BY ClosingKeeps
<1>5. \A r \in Request : Holds(r) => errand[r].session \in Built
  BY ErrandParts DEF Holds
<1>6. OneHolder'
  BY <1>2 DEF OneHolder, HoldsOn
<1>7. RegisteredAreOpen'
  BY <1>2, <1>3, <1>4 DEF OpenInside, RegisteredAreOpen
<1>8. \A r \in Request : Holds(r)' /\ errand'[r].at = "insert" => ~drafts'[errand'[r].session].closed
  BY <1>1, <1>4, <1>5 DEF OpenInside, OneHolder, HoldsOn
<1>9. NothingLeaks'
  <2> SUFFICES ASSUME NEW s \in Built, ~drafts'[s].closed, s \notin Registered'
               PROVE  s \in Held'
    BY DEF NothingLeaks
  <2>1. ~drafts[s].closed /\ s \notin Registered
    BY <1>2, <1>4
  <2>2. PICK r \in Request : Holds(r) /\ errand[r].session = s
    BY <2>1 DEF NothingLeaks, Held, Holds
  <2>3. Holds(r)' /\ errand'[r].session = s
    BY <2>2 DEF HoldsOn
  <2> QED
    BY <2>3 DEF Held, Holds
<1>10. RealIsReal'
  BY <1>4 DEF RealIsReal
<1>11. CapHolds'
  BY <1>2, <1>3, FS_Subset, FS_CardinalityType, PracticeNumbers DEF CapHolds
<1> QED
  BY <1>6, <1>7, <1>8, <1>9, <1>10, <1>11 DEF OpenInside

-----------------------------------------------------------------------------
(* The steps that leave the registry alone *)

\* A request that changes what it is at, holding nothing before and after.
LEMMA ErrandStep ==
  ASSUME PracticeInv, NEW r \in Request, NEW e \in {NoErrand} \cup Building \cup Handling, Do(r, e),
         ~Holds(r), e # NoErrand => e.at \notin {"insert", "close"},
         drafts' \in [Built -> Sandboxes],
         \A s \in Built : drafts'[s].closed = drafts[s].closed /\ drafts'[s].realAt = drafts[s].realAt,
         UNCHANGED <<minute, live, open, round>>
  PROVE  PracticeInv'
<1>1. PracticeShape /\ errand'[r] = e /\ \A q \in Request \ {r} : errand'[q] = errand[q]
  BY ErrandType DEF PracticeInv
<1>2. PracticeShape' /\ Built' = Built
  BY <1>1, ErrandType, ShapeParts, ShapeFrame
<1>3. \A q \in Request : HoldsOn(q) /\ (Holds(q) => Holds(q)')
  BY <1>1 DEF HoldsOn, Holds
<1> QED
  BY <1>2, <1>3, InvFrame

\* A step of the clock, the round or the real draft.
LEMMA QuietStep ==
  ASSUME PracticeInv, minute' \in Minutes, live' \in BOOLEAN, live => live',
         round' # NoErrand => round' \subseteq Built, UNCHANGED <<open, drafts, errand>>
  PROVE  PracticeInv'
<1>1. PracticeShape' /\ Built' = Built
  BY ShapeParts, ShapeFrame DEF PracticeInv
<1>2. \A q \in Request : HoldsOn(q) /\ (Holds(q) => Holds(q)')
  BY DEF HoldsOn, Holds
<1> QED
  BY <1>1, <1>2, InvFrame

LEMMA RequestStep ==
  ASSUME PracticeInv, NEW r \in Request,
         BuildFails(r) \/ Touch(r) \/ CheckDone(r) \/ SandboxPick(r) \/ \E v \in Viewer : Visit(r, v)
  PROVE  PracticeInv'
<1>0. PracticeShape
  BY DEF PracticeInv
<1>1. CASE BuildFails(r)
  BY <1>0, <1>1, ShapeParts, ErrandStep DEF BuildFails, Ends, Holds
<1>2. CASE Touch(r)
  <2> DEFINE s == errand[r].session
             d == IF errand[r].at = "touch" THEN Touched(s) ELSE FinishedIfOver([Touched(s) EXCEPT !.due = FullBoard])
  <2>1. s \in Built /\ drafts[s] \in Sandboxes /\ minute \in Minutes /\ drafts' = [drafts EXCEPT ![s] = d]
    BY <1>0, <1>2, ErrandParts, ShapeParts DEF Touch
  <2>2. Touched(s) \in Sandboxes
    BY <2>1, SandboxMoves DEF Touched
  <2>3. [Touched(s) EXCEPT !.due = FullBoard] \in Sandboxes
    BY <2>1, <2>2, SandboxMoves
  <2>4. d \in Sandboxes
    BY <2>1, <2>2, <2>3, SandboxMoves
  <2>5. d.closed = drafts[s].closed /\ d.realAt = drafts[s].realAt
    BY <2>1 DEF Touched, FinishedIfOver, Finished, Sandboxes
  <2> HIDE DEF d
  <2>6. drafts' \in [Built -> Sandboxes] /\ \A t \in Built : drafts'[t].closed = drafts[t].closed /\ drafts'[t].realAt = drafts[t].realAt
    BY <1>0, <2>1, <2>4, <2>5, ShapeParts
  <2> QED
    BY <1>2, <2>6, ErrandStep DEF Touch, Ends, Holds
<1>3. CASE CheckDone(r)
  <2>1. errand[r] \in Handling /\ [errand[r] EXCEPT !.at = "pick"] \in Handling
    BY <1>0, <1>3, ErrandParts DEF CheckDone, Handling
  <2> DEFINE e == IF drafts[errand[r].session].done THEN NoErrand ELSE [errand[r] EXCEPT !.at = "pick"]
  <2>2. Do(r, e) /\ e \in {NoErrand} \cup Building \cup Handling /\ (e # NoErrand => e.at = "pick")
    BY <1>3, <2>1 DEF CheckDone, Ends, Handling
  <2> HIDE DEF e
  <2> QED
    BY <1>0, <1>3, <2>2, ShapeParts, ErrandStep DEF CheckDone, Holds
<1>4. CASE SandboxPick(r)
  <2> DEFINE s == errand[r].session
  <2>1. s \in Built /\ drafts[s] \in Sandboxes /\ errand[r] \in Handling
    BY <1>0, <1>4, ErrandParts, ShapeParts DEF SandboxPick
  <2>2. CASE drafts[s].picks \in MyTurns /\ ~IsOver(s)
    <3>1. Picked(drafts[s]) \in Sandboxes
      BY <2>1, <2>2, ShapeParts, <1>0, SandboxMoves DEF IsOver
    <3>2. Picked(drafts[s]).closed = drafts[s].closed /\ Picked(drafts[s]).realAt = drafts[s].realAt
      BY <2>1 DEF Picked, Sandboxes
    <3>3. drafts' = [drafts EXCEPT ![s] = Picked(drafts[s])] /\ Do(r, [errand[r] EXCEPT !.at = "settle"])
      BY <1>0, <1>4, <2>1, <2>2, ShapeParts DEF SandboxPick
    <3>4. drafts' \in [Built -> Sandboxes] /\ \A t \in Built : drafts'[t].closed = drafts[t].closed /\ drafts'[t].realAt = drafts[t].realAt
      BY <1>0, <2>1, <3>1, <3>2, <3>3, ShapeParts
    <3>5. [errand[r] EXCEPT !.at = "settle"] \in Handling /\ [errand[r] EXCEPT !.at = "settle"].at = "settle"
      BY <2>1 DEF Handling
    <3> QED
      BY <1>4, <3>3, <3>4, <3>5, ErrandStep DEF SandboxPick, Holds
  <2>3. CASE ~(drafts[s].picks \in MyTurns /\ ~IsOver(s))
    BY <1>0, <1>4, <2>3, ShapeParts, ErrandStep DEF SandboxPick, Ends, Holds
  <2> QED
    BY <2>2, <2>3
<1>5. CASE \E v \in Viewer : Visit(r, v)
  <2>1. PICK v \in Viewer, what \in {"touch", "check"} :
          /\ open[v] # NoSession /\ AtRest(r)
          /\ Do(r, [at |-> what, who |-> v, asked |-> minute, session |-> open[v]])
          /\ UNCHANGED <<minute, live, open, drafts, round>>
    BY <1>5 DEF Visit
  <2>2. [at |-> what, who |-> v, asked |-> minute, session |-> open[v]] \in Handling
    BY <1>0, <2>1, ShapeParts DEF Handling
  <2> QED
    BY <1>0, <2>1, <2>2, ShapeParts, ErrandStep DEF AtRest, Holds
<1> QED
  BY <1>1, <1>2, <1>3, <1>4, <1>5

LEMMA ClockStep ==
  ASSUME PracticeInv, BeginRound \/ RealDraftStarts \/ MinutePasses
  PROVE  PracticeInv'
<1>0. PracticeShape /\ Registered \subseteq Built /\ minute \in Minutes /\ live \in BOOLEAN
  BY ShapeParts, RegisteredBuilt DEF PracticeInv
<1>1. CASE BeginRound
  BY <1>0, <1>1, QuietStep DEF BeginRound
<1>2. CASE RealDraftStarts
  BY <1>0, <1>2, ShapeParts, QuietStep DEF RealDraftStarts
<1>3. CASE MinutePasses
  <2>1. minute' \in Minutes
    BY <1>0, <1>3, PracticeNumbers DEF MinutePasses, Minutes
  <2> QED
    BY <1>0, <1>3, <2>1, ShapeParts, QuietStep DEF MinutePasses
<1> QED
  BY <1>1, <1>2, <1>3

LEMMA TickStep ==
  ASSUME PracticeInv, NEW s \in Built, TickSession(s)
  PROVE  PracticeInv'
<1>1. PracticeShape /\ drafts \in [Built -> Sandboxes] /\ drafts[s] \in Sandboxes /\ minute \in Minutes
  BY ShapeParts DEF PracticeInv
<1>2. PICK d \in IF ~Ticks(s) THEN {drafts[s]}
                 ELSE IF live THEN {Finished([drafts[s] EXCEPT !.realAt = minute])}
                 ELSE IF IsOver(s) THEN {Finished(drafts[s])} ELSE Moves(drafts[s]) :
        drafts' = [drafts EXCEPT ![s] = d]
  BY DEF TickSession
<1>3. d \in Sandboxes /\ d.closed = drafts[s].closed /\ (d.realAt = drafts[s].realAt \/ live)
  <2>1. CASE ~Ticks(s)
    BY <1>1, <1>2, <2>1
  <2>2. CASE Ticks(s) /\ live
    <3>1. [drafts[s] EXCEPT !.realAt = minute] \in Sandboxes
      BY <1>1, SandboxMoves
    <3>2. d = Finished([drafts[s] EXCEPT !.realAt = minute])
      BY <1>2, <2>2
    <3> QED
      BY <1>1, <2>2, <3>1, <3>2, SandboxMoves, FinishedIsOpen
  <2>3. CASE Ticks(s) /\ ~live /\ IsOver(s)
    <3>1. d = Finished(drafts[s])
      BY <1>2, <2>3
    <3> QED
      BY <1>1, <3>1, SandboxMoves, FinishedIsOpen
  <2>4. CASE Ticks(s) /\ ~live /\ ~IsOver(s)
    BY <1>1, <1>2, <2>4, MovesAreSandboxes DEF IsOver
  <2> QED
    BY <2>1, <2>2, <2>3, <2>4
<1>4. UNCHANGED <<minute, live, open, errand>> /\ round # NoErrand /\ round' = round \ {s}
  BY DEF TickSession
<1>5. drafts' \in [Built -> Sandboxes] /\ round' \subseteq Built
  BY <1>1, <1>2, <1>3, <1>4, ShapeParts
<1>6. PracticeShape' /\ Built' = Built
  BY <1>1, <1>4, <1>5, ShapeParts, ShapeFrame
<1>7. \A t \in Built : drafts'[t].closed = drafts[t].closed /\ (drafts'[t].realAt # 0 => drafts[t].realAt # 0 \/ live')
  BY <1>1, <1>2, <1>3, <1>4
<1>8. \A q \in Request : HoldsOn(q) /\ (Holds(q) => Holds(q)')
  BY <1>4 DEF HoldsOn, Holds
<1> QED
  BY <1>4, <1>6, <1>7, <1>8, InvFrame

-----------------------------------------------------------------------------
(* The steps that change the registry or a holder *)

LEMMA SweepShape ==
  ASSUME PracticeShape, open' = Removing(Stale), drafts' = CloseAll(Stale), UNCHANGED <<minute, live>>,
         errand' \in [Request -> {NoErrand} \cup Building \cup Handling],
         round' # NoErrand => round' \subseteq Built
  PROVE  PracticeShape' /\ Built' = Built
<1>1. open' \in [Viewer -> Built \cup {NoSession}]
  BY SweepRemoves DEF Stale
<1> QED
  BY <1>1, ClosingKeeps, ShapeParts, ShapeFrame

LEMMA SweepStep ==
  ASSUME PracticeInv, Sweep
  PROVE  PracticeInv'
<1>1. PracticeShape' /\ Built' = Built
  BY ShapeParts, SweepShape, RegisteredBuilt DEF Sweep, PracticeInv
<1>2. \A q \in Request : HoldsOn(q) /\ (Holds(q) => Holds(q)')
  BY DEF Sweep, HoldsOn, Holds
<1> QED
  BY <1>1, <1>2, InvSweep DEF Sweep

LEMMA AskStartStep ==
  ASSUME PracticeInv, NEW r \in Request, NEW v \in Viewer, NEW picks \in FirstPick, AskStart(r, v, picks)
  PROVE  PracticeInv'
<1> DEFINE e == [at |-> "build", who |-> v, asked |-> minute, picks |-> picks]
<1>1. PracticeShape /\ minute \in Minutes /\ AtRest(r) /\ UNCHANGED <<minute, live, round>>
  BY ShapeParts DEF AskStart, PracticeInv
<1>2. e \in Building /\ e.at = "build"
  BY <1>1 DEF Building
<1>3. errand' = errand \/ Do(r, e)
  BY DEF AskStart
<1>4. /\ errand' \in [Request -> {NoErrand} \cup Building \cup Handling]
      /\ \A q \in Request : errand'[q] = errand[q] \/ (errand[q] = NoErrand /\ errand'[q] # NoErrand => errand'[q].at = "build")
  <2> HIDE DEF e
  <2> QED
    BY <1>1, <1>2, <1>3, ErrandType, ShapeParts DEF AtRest
<1>5. \A q \in Request : HoldsOn(q) /\ (Holds(q) => Holds(q)')
  <2> HIDE DEF e
  <2>1. CASE errand' = errand
    BY <2>1 DEF HoldsOn, Holds
  <2>2. CASE Do(r, e)
    <3>1. errand'[r] = e /\ \A q \in Request \ {r} : errand'[q] = errand[q]
      BY <1>1, <1>2, <2>2, ErrandType
    <3> QED
      BY <1>1, <1>2, <3>1 DEF HoldsOn, Holds, AtRest
  <2> QED
    BY <1>3, <2>1, <2>2
<1>6. open' = Removing(Stale) /\ drafts' = CloseAll(Stale)
  BY DEF AskStart
<1>7. PracticeShape' /\ Built' = Built
  BY <1>1, <1>4, <1>6, ShapeParts, SweepShape
<1> QED
  BY <1>1, <1>5, <1>6, <1>7, InvSweep

\* A built session is new, and its request holds it.
LEMMA BuildStep ==
  ASSUME PracticeInv, NEW r \in Request, Build(r)
  PROVE  PracticeInv'
<1> DEFINE n == Cardinality(DOMAIN drafts)
           s == n + 1
           e == [at |-> "insert", who |-> errand[r].who, asked |-> errand[r].asked, session |-> s]
           d == [picks |-> errand[r].picks, due |-> FullBoard, armed |-> TRUE, touched |-> errand[r].asked,
                 done |-> FALSE, closed |-> FALSE, realAt |-> 0]
<1>1. PracticeShape /\ n \in Nat /\ Built = 1..n /\ errand[r] # NoErrand /\ errand[r].at = "build"
  BY BuiltFinite DEF PracticeInv, Build, Built
<1>2. Cardinality(Built) = n
  BY <1>1, BuiltFinite
<1>3. drafts' = [t \in 1..s |-> IF t # s THEN drafts[t] ELSE d] /\ Do(r, e) /\ UNCHANGED <<minute, live, open, round>>
  BY <1>2 DEF Build
<1>4. errand[r].who \in Viewer /\ errand[r].asked \in Minutes /\ errand[r].picks \in FirstPick
  BY <1>1, ErrandParts
<1>5. d \in Sandboxes /\ ~d.closed /\ d.realAt = 0
  <2>1. FullBoard \in 0..FullBoard /\ 0 \in Marks /\ errand[r].asked \in Marks /\ errand[r].picks \in 0..FullBoard
    BY <1>4, ConstantsAreNumbers DEF Minutes, Marks
  <2>2. d \in Sandboxes
    BY <2>1 DEF Sandboxes
  <2>3. ~d.closed
    OBVIOUS
  <2>4. d.realAt = 0
    OBVIOUS
  <2> QED
    BY <2>2, <2>3, <2>4
<1>6. DOMAIN drafts' = 1..s /\ Cardinality(1..s) = s
  BY <1>1, <1>3, FS_Interval
<1>7. Built' = Built \cup {s} /\ s \notin Built /\ Cardinality(DOMAIN drafts)' = s
  BY <1>1, <1>6 DEF Built
<1>8. drafts'[s] = d /\ \A t \in Built : drafts'[t] = drafts[t]
  BY <1>1, <1>3
<1> HIDE DEF d
<1>9. drafts' \in [Built' -> Sandboxes]
  BY <1>1, <1>3, <1>5, <1>6, <1>7, ShapeParts
<1>10. e \in Handling' /\ Handling \subseteq Handling'
  BY <1>4, <1>7 DEF Handling
<1>11. errand'[r] = e /\ (\A q \in Request \ {r} : errand'[q] = errand[q])
  BY <1>1, <1>3, ShapeParts DEF Do
<1>12. errand' \in [Request -> {NoErrand} \cup Building \cup Handling']
  <2> HIDE DEF e
  <2> QED
    BY <1>1, <1>3, <1>10, ShapeParts DEF Do
<1>13. PracticeShape'
  <2>1. minute' \in 1..LastMinute /\ live' \in BOOLEAN
    BY <1>1, <1>3, ShapeParts DEF Minutes
  <2>2. open' \in [Viewer -> Built' \cup {NoSession}] /\ (round' # NoErrand => round' \subseteq Built')
    BY <1>1, <1>3, <1>7, ShapeParts
  <2>3. Cardinality(DOMAIN drafts)' \in Nat
    BY <1>1, <1>7
  <2>4. PracticeTypeOK'
    BY <2>1, <2>2, <1>9 DEF PracticeTypeOK, Sandboxes, Marks
  <2> QED
    BY <2>2, <2>3, <2>4, <1>12 DEF PracticeShape, Building
<1>14. e # NoErrand
  <2>1. errand[r].asked \in Nat /\ s \in Nat
    BY <1>1, <1>4, PracticeNumbers DEF Minutes
  <2> QED
    BY <1>4, <2>1, PracticeNumbers
<1>15. ~Holds(r) /\ Holds(r)' /\ errand'[r].session = s /\ errand'[r].at = "insert"
  BY <1>1, <1>11, <1>14 DEF Holds
<1>16. \A q \in Request \ {r} : (Holds(q)' <=> Holds(q)) /\ errand'[q] = errand[q]
  BY <1>11 DEF Holds
<1>17. \A q \in Request : Holds(q) => errand[q].session \in Built
  BY <1>1, ErrandParts DEF Holds
<1>18. Registered' = Registered /\ Registered \subseteq Built
  BY <1>1, <1>3, RegisteredBuilt DEF Registered
<1> HIDE DEF n, s, e
<1>19. OneHolder'
  <2>1. \A v, w \in Viewer : v # w /\ open'[v] # NoSession => open'[v] # open'[w]
    BY <1>3 DEF PracticeInv, OneHolder
  <2>2. \A q \in Request : Holds(q)' => errand'[q].session \notin Registered'
    BY <1>7, <1>15, <1>16, <1>18 DEF PracticeInv, OneHolder
  <2>3. \A p, q \in Request : p # q /\ Holds(p)' /\ Holds(q)' => errand'[p].session # errand'[q].session
    BY <1>7, <1>15, <1>16, <1>17 DEF PracticeInv, OneHolder
  <2> QED
    BY <2>1, <2>2, <2>3 DEF OneHolder, Holds
<1>20. OpenInside'
  <2>1. \A t \in Registered' : ~drafts'[t].closed
    BY <1>8, <1>18 DEF PracticeInv, OpenInside, RegisteredAreOpen
  <2>2. \A q \in Request : Holds(q)' /\ errand'[q].at = "insert" => ~drafts'[errand'[q].session].closed
    BY <1>5, <1>8, <1>15, <1>16, <1>17 DEF PracticeInv, OpenInside
  <2> QED
    BY <2>1, <2>2 DEF OpenInside, RegisteredAreOpen
<1>21. NothingLeaks'
  <2> SUFFICES ASSUME NEW t \in Built', ~drafts'[t].closed, t \notin Registered'
               PROVE  t \in Held'
    BY DEF NothingLeaks
  <2>1. CASE t = s
    BY <1>15, <2>1 DEF Held, Holds
  <2>2. CASE t # s
    <3>1. PICK q \in Request : Holds(q) /\ errand[q].session = t
      BY <1>7, <1>8, <1>18, <2>2 DEF PracticeInv, NothingLeaks, Held, Holds
    <3>2. Holds(q)' /\ errand'[q].session = t
      BY <1>15, <1>16, <3>1
    <3> QED
      BY <3>2 DEF Held, Holds
  <2> QED
    BY <2>1, <2>2
<1>22. RealIsReal' /\ CapHolds'
  BY <1>3, <1>5, <1>7, <1>8, <1>18 DEF PracticeInv, RealIsReal, CapHolds
<1> QED
  BY <1>13, <1>19, <1>20, <1>21, <1>22 DEF PracticeInv

\* Removing a session's last holder closes it.
LEMMA CloseStep ==
  ASSUME PracticeInv, NEW r \in Request, CloseSession(r)
  PROVE  PracticeInv'
<1> USE DEF PracticeInv
<1> DEFINE s == errand[r].session
<1>1. PracticeShape /\ Holds(r) /\ s \in Built
  BY ErrandParts DEF CloseSession, Holds
<1>2. drafts' = CloseAll({s}) /\ Do(r, NoErrand) /\ UNCHANGED <<minute, live, open, round>>
  BY DEF CloseSession, Ends
<1>3. errand'[r] = NoErrand /\ \A q \in Request \ {r} : errand'[q] = errand[q]
  BY <1>1, <1>2, ErrandType
<1>4. PracticeShape' /\ Built' = Built
  BY <1>1, <1>2, ErrandType, ClosingKeeps, ShapeParts, ShapeFrame
<1>5. \A t \in Built : /\ drafts'[t].closed <=> (t = s \/ drafts[t].closed)
                       /\ drafts'[t].realAt = drafts[t].realAt
  BY <1>1, <1>2, ClosingKeeps
<1>6. \A q \in Request : Holds(q)' => Holds(q) /\ q # r /\ errand'[q] = errand[q] /\ errand[q].session \in Built
  BY <1>1, <1>3, ErrandParts DEF Holds
<1>7. Registered' = Registered /\ Registered \subseteq Built
  BY <1>1, <1>2, RegisteredBuilt DEF Registered
<1>8. OneHolder'
  BY <1>2, <1>6, <1>7 DEF OneHolder
<1>9. OpenInside'
  <2>1. \A t \in Registered' : ~drafts'[t].closed
    BY <1>1, <1>5, <1>7 DEF OneHolder, OpenInside, RegisteredAreOpen
  <2>2. \A q \in Request : Holds(q)' /\ errand'[q].at = "insert" => ~drafts'[errand'[q].session].closed
    BY <1>1, <1>5, <1>6 DEF OneHolder, OpenInside
  <2> QED
    BY <2>1, <2>2 DEF OpenInside, RegisteredAreOpen
<1>10. NothingLeaks'
  <2> SUFFICES ASSUME NEW t \in Built, ~drafts'[t].closed, t \notin Registered'
               PROVE  t \in Held'
    BY <1>4 DEF NothingLeaks
  <2>1. t # s /\ ~drafts[t].closed /\ t \notin Registered
    BY <1>5, <1>7
  <2>2. PICK q \in Request : Holds(q) /\ errand[q].session = t
    BY <2>1 DEF NothingLeaks, Held, Holds
  <2>3. q # r /\ errand'[q] = errand[q]
    BY <1>3, <2>1, <2>2
  <2> QED
    BY <2>2, <2>3 DEF Held, Holds
<1>11. RealIsReal' /\ CapHolds'
  BY <1>2, <1>4, <1>5, <1>7 DEF RealIsReal, CapHolds
<1> QED
  BY <1>4, <1>8, <1>9, <1>10, <1>11

\* A request that is to close or insert a session is no free one.
LEMMA HoldingIsBusy ==
  ASSUME PracticeShape, NEW e \in Handling, e.at \in {"insert", "close"}
  PROVE  e # NoErrand
<1>1. e = [at |-> e.at, who |-> e.who, asked |-> e.asked, session |-> e.session]
  BY DEF Handling
<1>2. e.who \in Viewer /\ e.asked \in Nat /\ e.session \in Nat
  BY BuiltFinite, ConstantsAreNumbers DEF Handling, Minutes
<1> QED
  BY <1>1, <1>2, PracticeNumbers

\* One session leaves the registry into a request's hands.
LEMMA LeaveStep ==
  ASSUME PracticeInv, NEW r \in Request, NEW v \in Viewer, Leave(r, v)
  PROVE  PracticeInv'
<1> USE DEF PracticeInv
<1> DEFINE s == open[v]
           e == [at |-> "close", who |-> v, asked |-> minute, session |-> s]
<1>1. /\ PracticeShape /\ s \in Built /\ s # NoSession /\ s \in Registered /\ minute \in Minutes
      /\ errand[r] = NoErrand /\ open \in [Viewer -> Built \cup {NoSession}]
  BY ShapeParts DEF Leave, AtRest, Registered
<1>2. open' = [open EXCEPT ![v] = NoSession] /\ Do(r, e) /\ UNCHANGED <<minute, live, drafts, round>>
  BY DEF Leave
<1>3. e \in Handling /\ e.at = "close" /\ e.session = s
  BY <1>1 DEF Handling
<1>4. e # NoErrand
  BY <1>1, <1>3, HoldingIsBusy
<1> HIDE DEF e
<1>5. errand'[r] = e /\ \A q \in Request \ {r} : errand'[q] = errand[q]
  BY <1>1, <1>2, <1>3, ErrandType
<1>6. PracticeShape' /\ Built' = Built
  BY <1>1, <1>2, <1>3, ErrandType, ShapeParts, ShapeFrame
<1>7. \A w \in Viewer : (w # v => open'[w] = open[w]) /\ open'[v] = NoSession
  BY <1>1, <1>2
<1>8. Registered' = Registered \ {s}
  BY <1>1, <1>7 DEF Registered, OneHolder
<1>9. Registered \subseteq Built /\ IsFiniteSet(Registered)
  BY <1>1, RegisteredBuilt
<1>10. Holds(r)' /\ ~Holds(r) /\ \A q \in Request \ {r} : Holds(q)' <=> Holds(q)
  BY <1>1, <1>3, <1>4, <1>5 DEF Holds
<1>11. OneHolder'
  <2>1. \A w, x \in Viewer : w # x /\ open'[w] # NoSession => open'[w] # open'[x]
    BY <1>7 DEF OneHolder
  <2>2. \A q \in Request : Holds(q)' => errand'[q].session \notin Registered'
    BY <1>3, <1>5, <1>8, <1>10 DEF OneHolder
  <2>3. \A p, q \in Request : p # q /\ Holds(p)' /\ Holds(q)' => errand'[p].session # errand'[q].session
    BY <1>1, <1>3, <1>5, <1>10 DEF OneHolder
  <2> QED
    BY <2>1, <2>2, <2>3 DEF OneHolder, Holds
<1>12. OpenInside'
  <2>1. \A t \in Registered' : ~drafts'[t].closed
    BY <1>2, <1>8 DEF OpenInside, RegisteredAreOpen
  <2>2. \A q \in Request : Holds(q)' /\ errand'[q].at = "insert" => ~drafts'[errand'[q].session].closed
    BY <1>2, <1>3, <1>5, <1>10 DEF OpenInside
  <2> QED
    BY <2>1, <2>2 DEF OpenInside, RegisteredAreOpen
<1>13. NothingLeaks'
  <2> SUFFICES ASSUME NEW t \in Built, ~drafts[t].closed, t \notin Registered'
               PROVE  t \in Held'
    BY <1>2, <1>6 DEF NothingLeaks
  <2>1. CASE t = s
    BY <1>3, <1>5, <1>10, <2>1 DEF Held, Holds
  <2>2. CASE t # s
    <3>1. PICK q \in Request : Holds(q) /\ errand[q].session = t
      BY <1>8, <2>2 DEF NothingLeaks, Held, Holds
    <3> QED
      BY <1>5, <1>10, <3>1 DEF Held, Holds
  <2> QED
    BY <2>1, <2>2
<1>14. RealIsReal' /\ CapHolds'
  BY <1>2, <1>6, <1>8, <1>9, FS_Subset, FS_CardinalityType, ConstantsAreNumbers DEF RealIsReal, CapHolds
<1> QED
  BY <1>6, <1>11, <1>12, <1>13, <1>14

\* A session enters the registry, whose place was free or was the member's.
LEMMA InsertStep ==
  ASSUME PracticeInv, NEW r \in Request, Insert(r)
  PROVE  PracticeInv'
<1> USE DEF PracticeInv
<1> DEFINE v == errand[r].who
           s == errand[r].session
           old == open[v]
<1>1. /\ PracticeShape /\ Holds(r) /\ errand[r].at = "insert" /\ errand[r] # NoErrand
      /\ errand[r] \in Handling /\ v \in Viewer /\ s \in Built /\ errand[r].asked \in Minutes
  BY ErrandParts DEF Insert, Holds
<1>2. s \notin Registered /\ ~drafts[s].closed
  BY <1>1 DEF OneHolder, OpenInside
<1>3. UNCHANGED <<minute, live, drafts, round>>
  BY DEF Insert
<1>4. \A q \in Request : Holds(q) => errand[q].session \in Built
  BY <1>1, ErrandParts DEF Holds
<1>5. CASE Full(v)
  <2> DEFINE e == [errand[r] EXCEPT !.at = "close"]
  <2>1. e \in Handling /\ e.at = "close" /\ e.session = s
    BY <1>1 DEF Handling
  <2>2. e # NoErrand /\ Do(r, e) /\ open' = open
    BY <1>1, <1>5, <2>1, HoldingIsBusy DEF Insert
  <2> HIDE DEF e
  <2>3. errand'[r] = e /\ \A q \in Request \ {r} : errand'[q] = errand[q]
    BY <1>1, <2>1, <2>2, ErrandType
  <2>4. PracticeShape' /\ Built' = Built
    BY <1>1, <1>3, <2>1, <2>2, ErrandType, ShapeParts, ShapeFrame
  <2>5. \A q \in Request : HoldsOn(q) /\ (Holds(q) => Holds(q)')
    BY <1>1, <2>1, <2>2, <2>3 DEF HoldsOn, Holds
  <2> QED
    BY <1>3, <2>2, <2>4, <2>5, InvFrame
<1>6. CASE ~Full(v)
  <2>1. open' = [open EXCEPT ![v] = s] /\ Do(r, Replaces(r, v))
    BY <1>6 DEF Insert
  <2>2. /\ open \in [Viewer -> Built \cup {NoSession}] /\ NoSession \notin Built
        /\ Registered \subseteq Built /\ IsFiniteSet(Registered) /\ Cardinality(Registered) \in Nat
    BY <1>1, ShapeParts, BuiltFinite, RegisteredBuilt
  <2>3. \A w \in Viewer : (w # v => open'[w] = open[w]) /\ open'[v] = s
    BY <1>1, <2>1, <2>2
  <2>4. Registered' = (Registered \ {old}) \cup {s}
    <3>1. \A w \in Viewer \ {v} : open[w] # NoSession => open[w] # old
      BY <1>1 DEF OneHolder
    <3> QED
      BY <1>1, <2>2, <2>3, <3>1 DEF Registered
  <2>5. \A w, x \in Viewer : w # x /\ open'[w] # NoSession => open'[w] # open'[x]
    <3>1. \A w \in Viewer : open[w] # s
      BY <1>1, <1>2, <2>2 DEF Registered
    <3> QED
      BY <2>3, <3>1 DEF OneHolder
  <2>6. CapHolds'
    <3>1. CASE old = NoSession
      <4>1. Cardinality(Registered) < Capacity /\ Registered' = Registered \cup {s}
        BY <1>6, <2>2, <2>4, <3>1, ConstantsAreNumbers DEF Full
      <4>2. Cardinality(Registered') = Cardinality(Registered) + 1
        BY <1>2, <2>2, <4>1, FS_AddElement
      <4> QED
        BY <2>2, <4>1, <4>2, ConstantsAreNumbers DEF CapHolds
    <3>2. CASE old # NoSession
      <4>1. old \in Registered
        BY <1>1, <3>2 DEF Registered
      <4>2. IsFiniteSet(Registered \ {old}) /\ Cardinality(Registered \ {old}) = Cardinality(Registered) - 1
        BY <2>2, <4>1, FS_RemoveElement
      <4>3. Cardinality(Registered') = Cardinality(Registered \ {old}) + 1
        BY <1>2, <2>4, <4>2, FS_AddElement
      <4> QED
        BY <2>2, <4>2, <4>3, ConstantsAreNumbers DEF CapHolds
    <3> QED
      BY <3>1, <3>2
  <2>7. Replaces(r, v) \in {NoErrand} \cup Building \cup Handling
    BY <1>1, <2>2 DEF Replaces, Handling
  <2>8. errand'[r] = Replaces(r, v) /\ \A q \in Request \ {r} : errand'[q] = errand[q]
    BY <1>1, <2>1, <2>7, ErrandType
  <2>9. PracticeShape' /\ Built' = Built
    BY <1>1, <1>3, <2>1, <2>2, <2>7, ErrandType, ShapeParts, ShapeFrame
  <2>10. \A q \in Request \ {r} : (Holds(q)' <=> Holds(q)) /\ (Holds(q) => errand[q].session # s)
    BY <1>1, <2>8 DEF Holds, OneHolder
  <2>11. /\ old = NoSession => ~Holds(r)'
         /\ old # NoSession => Holds(r)' /\ errand'[r].session = old /\ errand'[r].at = "close"
    <3>1. CASE old = NoSession
      BY <2>8, <3>1 DEF Replaces, Holds
    <3>2. CASE old # NoSession
      <4> DEFINE e == [at |-> "close", who |-> v, asked |-> errand[r].asked, session |-> old]
      <4>1. e \in Handling /\ e.at = "close" /\ e.session = old
        BY <1>1, <2>2, <3>2 DEF Handling
      <4>2. errand'[r] = e
        BY <2>8, <3>2 DEF Replaces
      <4>3. e # NoErrand
        BY <1>1, <4>1, HoldingIsBusy
      <4> HIDE DEF e
      <4> QED
        BY <3>2, <4>1, <4>2, <4>3 DEF Holds
    <3> QED
      BY <3>1, <3>2
  <2>12. old # NoSession => old \in Registered /\ old # s
    BY <1>1, <1>2 DEF Registered
  <2>13. OneHolder'
    <3>1. \A q \in Request : Holds(q)' => errand'[q].session \notin Registered'
      BY <2>4, <2>8, <2>10, <2>11, <2>12 DEF OneHolder
    <3>2. \A p, q \in Request : p # q /\ Holds(p)' /\ Holds(q)' => errand'[p].session # errand'[q].session
      BY <2>8, <2>10, <2>11, <2>12 DEF OneHolder
    <3> QED
      BY <2>5, <3>1, <3>2 DEF OneHolder, Holds
  <2>14. OpenInside'
    <3>1. \A t \in Registered' : ~drafts'[t].closed
      BY <1>2, <1>3, <2>4 DEF OpenInside, RegisteredAreOpen
    <3>2. \A q \in Request : Holds(q)' /\ errand'[q].at = "insert" => ~drafts'[errand'[q].session].closed
      BY <1>3, <2>8, <2>10, <2>11 DEF OpenInside
    <3> QED
      BY <3>1, <3>2 DEF OpenInside, RegisteredAreOpen
  <2>15. NothingLeaks'
    <3> SUFFICES ASSUME NEW t \in Built, ~drafts[t].closed, t \notin Registered'
                 PROVE  t \in Held'
      BY <1>3, <2>9 DEF NothingLeaks
    <3>1. CASE t = old
      BY <2>2, <2>11, <3>1 DEF Held, Holds
    <3>2. CASE t # old
      <4>1. t \notin Registered /\ t # s
        BY <2>4, <3>2
      <4>2. PICK q \in Request : Holds(q) /\ errand[q].session = t
        BY <4>1 DEF NothingLeaks, Held, Holds
      <4>3. q # r
        BY <4>1, <4>2
      <4> QED
        BY <2>8, <2>10, <4>2, <4>3 DEF Held, Holds
    <3> QED
      BY <3>1, <3>2
  <2> QED
    BY <1>3, <2>6, <2>9, <2>13, <2>14, <2>15 DEF RealIsReal
<1> QED
  BY <1>5, <1>6

-----------------------------------------------------------------------------
(* The theorems *)

LEMMA PracticeStarts ==
  ASSUME PracticeInit
  PROVE  PracticeInv
<1>1. DOMAIN drafts = {} /\ Cardinality(DOMAIN drafts) = 0 /\ Built = {}
  BY FS_EmptySet DEF PracticeInit, Built
<1>2. Registered = {}
  BY DEF PracticeInit, Registered
<1>3. PracticeShape
  <2>1. minute \in 1..LastMinute
    BY ConstantsAreNumbers, PracticeNumbers DEF PracticeInit
  <2>2. PracticeTypeOK
    BY <1>1, <2>1 DEF PracticeInit, PracticeTypeOK
  <2> QED
    BY <1>1, <2>2 DEF PracticeInit, PracticeShape
<1>4. \A r \in Request : ~Holds(r)
  BY DEF PracticeInit, Holds
<1>5. OneHolder /\ OpenInside /\ NothingLeaks /\ RealIsReal
  BY <1>1, <1>2, <1>4 DEF PracticeInit, OneHolder, OpenInside, RegisteredAreOpen, NothingLeaks, RealIsReal
<1>6. CapHolds
  BY <1>2, FS_EmptySet, ConstantsAreNumbers DEF CapHolds
<1> QED
  BY <1>3, <1>5, <1>6 DEF PracticeInv

LEMMA PracticeSteps ==
  ASSUME PracticeInv, [PracticeNext]_practiceVars
  PROVE  PracticeInv'
<1>1. CASE UNCHANGED practiceVars
  <2>1. PracticeShape' /\ Built' = Built
    BY <1>1, ShapeParts, ShapeFrame DEF practiceVars, PracticeInv
  <2>2. \A q \in Request : HoldsOn(q) /\ (Holds(q) => Holds(q)')
    BY <1>1 DEF practiceVars, HoldsOn, Holds
  <2> QED
    BY <1>1, <2>1, <2>2, InvFrame DEF practiceVars
<1>2. CASE BeginRound \/ RealDraftStarts \/ MinutePasses
  BY <1>2, ClockStep
<1>3. CASE Sweep
  BY <1>3, SweepStep
<1>4. CASE \E s \in Built : TickSession(s)
  BY <1>4, TickStep
<1>5. ASSUME NEW r \in Request,
             BuildFails(r) \/ Touch(r) \/ CheckDone(r) \/ SandboxPick(r) \/ \E v \in Viewer : Visit(r, v)
      PROVE  PracticeInv'
  BY <1>5, RequestStep
<1>6. ASSUME NEW r \in Request, Build(r) \/ Insert(r) \/ CloseSession(r)
      PROVE  PracticeInv'
  BY <1>6, BuildStep, InsertStep, CloseStep
<1>7. ASSUME NEW r \in Request, NEW v \in Viewer, Leave(r, v) \/ \E picks \in FirstPick : AskStart(r, v, picks)
      PROVE  PracticeInv'
  BY <1>7, LeaveStep, AskStartStep
<1> QED
  BY <1>1, <1>2, <1>3, <1>4, <1>5, <1>6, <1>7 DEF PracticeNext

LEMMA PracticeAlways == PracticeSpec => []PracticeInv
BY PracticeStarts, PracticeSteps, PTL DEF PracticeSpec

\* However starts, leaves, sweeps and the tick interleave, the registry keeps
\* its cap, shows open sessions only, and every sandbox that is not in it is
\* closed or about to be (Start, Leave, Sweep).
THEOREM RegistryIsSound == PracticeSpec => []PracticeIsSound
<1>1. PracticeInv => PracticeIsSound
  BY DEF PracticeInv, PracticeShape, OpenInside, PracticeIsSound
<1> QED
  BY <1>1, PracticeAlways, PTL

-----------------------------------------------------------------------------
(* What a step may never do *)

FinishedStep ==
  \A s \in Built : drafts[s].done =>
    /\ drafts'[s].done
    /\ drafts'[s].picks # drafts[s].picks \/ (drafts'[s].armed /\ ~drafts[s].armed) =>
         \E r \in Request : SandboxPick(r) /\ errand[r].session = s

\* What a step may do to a finished session, short of a pick.
Rests(s) == drafts[s].done => drafts'[s].done /\ drafts'[s].picks = drafts[s].picks /\ (drafts'[s].armed => drafts[s].armed)

LEMMA FinishedSteps ==
  ASSUME PracticeInv, [PracticeNext]_practiceVars
  PROVE  FinishedStep
<1>0. PracticeShape /\ drafts \in [Built -> Sandboxes]
  BY ShapeParts DEF PracticeInv
<1>1. SUFFICES ASSUME NEW s \in Built,
                      \A r \in Request : SandboxPick(r) => errand[r].session # s
               PROVE  Rests(s)
  <2>1. ASSUME NEW s \in Built, NEW r \in Request, SandboxPick(r), errand[r].session = s, drafts[s].done
        PROVE  drafts'[s].done
    <3>1. drafts' = drafts \/ drafts' = [drafts EXCEPT ![s] = Picked(@)]
      BY <2>1 DEF SandboxPick
    <3>2. Picked(drafts[s]).done = drafts[s].done
      BY <1>0 DEF Picked, Sandboxes
    <3> QED
      BY <1>0, <2>1, <3>1, <3>2
  <2> QED
    BY <2>1 DEF FinishedStep, Rests
<1>2. CASE drafts' = drafts
  BY <1>2 DEF Rests
<1>3. ASSUME NEW S, drafts' = CloseAll(S)
      PROVE  Rests(s)
  BY <1>0, <1>1, <1>3, ClosingKeeps DEF Rests
<1>4. ASSUME NEW r \in Request, Touch(r)
      PROVE  Rests(s)
  <2> DEFINE u == errand[r].session
             t == [drafts[u] EXCEPT !.touched = minute]
             d == IF errand[r].at = "touch" THEN t ELSE FinishedIfOver([t EXCEPT !.due = FullBoard])
  <2>1. u \in Built /\ drafts' = [drafts EXCEPT ![u] = d]
    BY <1>0, <1>4, ErrandParts DEF Touch, Touched
  <2>2. drafts[u].done => d.done /\ d.picks = drafts[u].picks /\ (d.armed => drafts[u].armed)
    <3>1. drafts[u] \in Sandboxes
      BY <1>0, <2>1
    <3>2. t \in Sandboxes /\ t.done = drafts[u].done /\ t.picks = drafts[u].picks /\ t.armed = drafts[u].armed
      BY <1>0, <3>1, SandboxMoves, ShapeParts DEF Sandboxes
    <3> HIDE DEF t
    <3>3. LET f == FinishedIfOver([t EXCEPT !.due = FullBoard])
          IN  t.done => f.done /\ f.picks = t.picks /\ (f.armed => t.armed)
      BY <3>2 DEF FinishedIfOver, Finished, Sandboxes
    <3> QED
      BY <3>2, <3>3
  <2> HIDE DEF d
  <2> QED
    BY <1>0, <1>1, <2>1, <2>2 DEF Rests
<1>5. ASSUME NEW r \in Request, SandboxPick(r)
      PROVE  Rests(s)
  BY <1>0, <1>1, <1>5 DEF SandboxPick, Rests
<1>6. ASSUME NEW r \in Request, Build(r)
      PROVE  Rests(s)
  <2>1. \A t \in Built : drafts'[t] = drafts[t]
    <3>1. Built = 1..Cardinality(Built) /\ Cardinality(Built) \in Nat
      BY <1>0, BuiltFinite DEF Built
    <3> QED
      BY <1>6, <3>1 DEF Build
  <2> QED
    BY <1>1, <2>1 DEF Rests
<1>7. ASSUME NEW t \in Built, TickSession(t)
      PROVE  Rests(s)
  <2>1. drafts[t].done => drafts' = drafts
    BY <1>0, <1>7 DEF TickSession, Ticks
  <2>2. \E d : drafts' = [drafts EXCEPT ![t] = d]
    BY <1>7 DEF TickSession
  <2> QED
    BY <1>0, <1>1, <2>1, <2>2 DEF Rests
<1> QED
  BY <1>2, <1>3, <1>4, <1>5, <1>6, <1>7
     DEF PracticeNext, practiceVars, BeginRound, Sweep, RealDraftStarts, MinutePasses, BuildFails, Insert,
         CloseSession, CheckDone, Leave, Visit, AskStart

KeptStep ==
  \A v \in Viewer : open[v] # NoSession /\ open'[v] # open[v] =>
    \/ \E r \in Request : Leave(r, v) \/ (Insert(r) /\ errand[r].who = v)
    \/ minute > drafts[open[v]].touched + Ttl
    \/ live /\ drafts[open[v]].realAt # 0 /\ minute > drafts[open[v]].realAt + Grace

LEMMA KeptSteps ==
  ASSUME PracticeInv, [PracticeNext]_practiceVars
  PROVE  KeptStep
<1>0. PracticeShape /\ drafts \in [Built -> Sandboxes] /\ open \in [Viewer -> Built \cup {NoSession}] /\ minute \in Minutes
  BY ShapeParts DEF PracticeInv
<1>1. SUFFICES ASSUME NEW v \in Viewer, open[v] # NoSession, open'[v] # open[v],
                      ~\E r \in Request : Leave(r, v) \/ (Insert(r) /\ errand[r].who = v)
               PROVE  \/ minute > drafts[open[v]].touched + Ttl
                      \/ live /\ drafts[open[v]].realAt # 0 /\ minute > drafts[open[v]].realAt + Grace
  BY DEF KeptStep
<1>2. ASSUME open' = Removing(Stale)
      PROVE  \/ minute > drafts[open[v]].touched + Ttl
             \/ live /\ drafts[open[v]].realAt # 0 /\ minute > drafts[open[v]].realAt + Grace
  <2>1. open[v] \in Stale /\ open[v] \in Built
    BY <1>0, <1>1, <1>2 DEF Removing
  <2>2. drafts[open[v]].touched \in Nat /\ drafts[open[v]].realAt \in Nat /\ minute \in Nat
    BY <1>0, <2>1, ConstantsAreNumbers DEF Sandboxes, Marks, Minutes
  <2>3. drafts[open[v]].realAt # 0 => live
    BY <2>1 DEF PracticeInv, RealIsReal
  <2> QED
    BY <2>1, <2>2, <2>3, ConstantsAreNumbers DEF Stale, Expired, EndedLongAgo
<1>3. ASSUME NEW r \in Request, NEW w \in Viewer, Leave(r, w)
      PROVE  FALSE
  BY <1>0, <1>1, <1>3 DEF Leave
<1>4. ASSUME NEW r \in Request, Insert(r)
      PROVE  FALSE
  <2>1. errand[r].who \in Viewer
    BY <1>0, <1>4, ErrandParts DEF Insert
  <2> QED
    BY <1>0, <1>1, <1>4, <2>1 DEF Insert
<1>5. \/ open' = open \/ open' = Removing(Stale)
      \/ \E r \in Request : Insert(r) \/ \E w \in Viewer : Leave(r, w)
  BY DEF PracticeNext, practiceVars, BeginRound, Sweep, RealDraftStarts, MinutePasses, BuildFails, Build, Touch,
         CloseSession, CheckDone, SandboxPick, TickSession, Visit, AskStart
<1> QED
  BY <1>1, <1>2, <1>3, <1>4, <1>5

\* Nothing is drafted in a finished practice except by the pick that had looked
\* before, and a member loses an open one only by an act of its own, by being
\* away, or some grace after the real draft (finishLocked, Start, Sweep).
THEOREM PracticeStaysKept == PracticeSpec => PracticeIsKept
<1>1. PracticeInv /\ [PracticeNext]_practiceVars => [FinishedStep]_practiceVars /\ [KeptStep]_practiceVars
  BY FinishedSteps, KeptSteps
<1> QED
  BY <1>1, PracticeAlways, PTL
     DEF PracticeSpec, PracticeIsKept, FinishedStays, SessionsAreKept, FinishedStep, KeptStep

=============================================================================

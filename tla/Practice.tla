------------------------------- MODULE Practice -------------------------------
(***************************************************************************)
(* Practice drafts: the registry of one sandbox a member, built outside    *)
(* the registry's lock, its tick and sweep, and the requests that start,   *)
(* leave, touch and pick. The sandbox's draft is its number of picks; the  *)
(* room itself is DraftRoom's.                                             *)
(***************************************************************************)
EXTENDS Naturals, FiniteSets

CONSTANTS
  Viewer,       \* signed-in members with a seat
  Request,      \* requests in flight
  Capacity,     \* p.max
  Ttl,          \* p.ttl
  Grace,        \* practiceRealStartedGrace
  FirstPick,    \* picks already made by start round
  MyTurns,      \* picks made before each of the viewer's turns
  FullBoard,    \* picks of a complete draft
  NoSession,    \* no session
  NoErrand,     \* a free request, no tick underway
  LastSession,  \* bound on sessions built
  LastMinute    \* bound on time

ASSUME PracticeNumbers ==
  /\ {Capacity, Ttl, Grace, FullBoard, LastSession, LastMinute} \subseteq Nat
  /\ LastMinute > 0 /\ FirstPick \subseteq 0..FullBoard /\ MyTurns \subseteq 0..FullBoard
  /\ NoSession \notin Nat
  /\ NoErrand \notin [at : {"insert", "close"}, who : Viewer, asked : Nat, session : Nat]

VARIABLES
  minute,
  live,      \* the real draft has started
  open,      \* sessions, [Viewer -> session or NoSession]
  drafts,    \* every session built
  errand,    \* what a request is at
  round      \* the registry's tick: the sessions it has yet to tick, or NoErrand

practiceVars == <<minute, live, open, drafts, errand, round>>

Built == 1..Cardinality(DOMAIN drafts)
Registered == {open[v] : v \in Viewer} \ {NoSession}
IsOver(s) == drafts[s].picks = FullBoard

Closed(s) == [drafts[s] EXCEPT !.closed = TRUE, !.done = TRUE]
CloseAll(S) == [s \in Built |-> IF s \in S THEN Closed(s) ELSE drafts[s]]

\* finishLocked
Finished(d) == [d EXCEPT !.done = TRUE, !.armed = FALSE]
FinishedIfOver(d) == IF d.picks = FullBoard THEN Finished(d) ELSE d

Expired(s) == minute - drafts[s].touched > Ttl
EndedLongAgo(s) == drafts[s].realAt # 0 /\ minute - drafts[s].realAt > Grace
Stale == {s \in Registered : Expired(s) \/ EndedLongAgo(s)}
Removing(S) == [v \in Viewer |-> IF open[v] \in S THEN NoSession ELSE open[v]]

-----------------------------------------------------------------------------
(* Requests *)

AtRest(r) == errand[r] = NoErrand
Do(r, e) == errand' = [errand EXCEPT ![r] = e]
Ends(r) == Do(r, NoErrand)

\* Start: the gate, the sweep and the first look at the cap, in one lock
AskStart(r, v, picks) ==
  /\ AtRest(r) /\ ~live
  /\ open' = Removing(Stale) /\ drafts' = CloseAll(Stale)
  /\ IF open'[v] = NoSession /\ Cardinality(Registered \ Stale) >= Capacity THEN UNCHANGED errand
     ELSE Do(r, [at |-> "build", who |-> v, asked |-> minute, picks |-> picks])
  /\ UNCHANGED <<minute, live, round>>

\* newPracticeDraft, which may fail
BuildFails(r) ==
  /\ errand[r] # NoErrand /\ errand[r].at = "build" /\ Ends(r)
  /\ UNCHANGED <<minute, live, open, drafts, round>>

Build(r) ==
  /\ errand[r] # NoErrand /\ errand[r].at = "build" /\ Cardinality(Built) < LastSession
  /\ LET s == Cardinality(Built) + 1
     IN  /\ drafts' = [t \in 1..s |-> IF t # s THEN drafts[t] ELSE
                         [picks |-> errand[r].picks, due |-> FullBoard, armed |-> TRUE, touched |-> errand[r].asked,
                          done |-> FALSE, closed |-> FALSE, realAt |-> 0]]
         /\ Do(r, [at |-> "insert", who |-> errand[r].who, asked |-> errand[r].asked, session |-> s])
  /\ UNCHANGED <<minute, live, open, round>>

\* Mutant: the cap is not looked at again
NeverFull(v) == FALSE

\* The second look at the cap, in the lock that inserts
Full(v) == open[v] = NoSession /\ Cardinality(Registered) >= Capacity

\* Mutant: the session that is replaced is left open
DropsPrevious(r, v) == NoErrand

Replaces(r, v) ==
  IF open[v] = NoSession THEN NoErrand
  ELSE [at |-> "close", who |-> v, asked |-> errand[r].asked, session |-> open[v]]

Insert(r) ==
  /\ errand[r] # NoErrand /\ errand[r].at = "insert"
  /\ LET v == errand[r].who
     IN  IF Full(v) THEN Do(r, [errand[r] EXCEPT !.at = "close"]) /\ UNCHANGED open
         ELSE open' = [open EXCEPT ![v] = errand[r].session] /\ Do(r, Replaces(r, v))
  /\ UNCHANGED <<minute, live, drafts, round>>

CloseSession(r) ==
  /\ errand[r] # NoErrand /\ errand[r].at = "close"
  /\ drafts' = CloseAll({errand[r].session}) /\ Ends(r)
  /\ UNCHANGED <<minute, live, open, round>>

Leave(r, v) ==
  /\ AtRest(r) /\ open[v] # NoSession
  /\ open' = [open EXCEPT ![v] = NoSession]
  /\ Do(r, [at |-> "close", who |-> v, asked |-> minute, session |-> open[v]])
  /\ UNCHANGED <<minute, live, drafts, round>>

\* Current and Session; the session is touched once the lock is let go.
Visit(r, v) ==
  /\ AtRest(r) /\ open[v] # NoSession
  /\ \E what \in {"touch", "check"} : Do(r, [at |-> what, who |-> v, asked |-> minute, session |-> open[v]])
  /\ UNCHANGED <<minute, live, open, drafts, round>>

Touched(s) == [drafts[s] EXCEPT !.touched = minute]

Touch(r) ==
  /\ errand[r] # NoErrand /\ errand[r].at \in {"touch", "settle"}
  /\ LET s == errand[r].session
     IN  drafts' = [drafts EXCEPT ![s] =
           IF errand[r].at = "touch" THEN Touched(s) ELSE FinishedIfOver([Touched(s) EXCEPT !.due = FullBoard])]
  /\ Ends(r)
  /\ UNCHANGED <<minute, live, open, round>>

\* PracticeDraft.MakePick: the look at done, the sandbox's pick, the settling
CheckDone(r) ==
  /\ errand[r] # NoErrand /\ errand[r].at = "check"
  /\ IF drafts[errand[r].session].done THEN Ends(r) ELSE Do(r, [errand[r] EXCEPT !.at = "pick"])
  /\ UNCHANGED <<minute, live, open, drafts, round>>

Picked(d) == [d EXCEPT !.picks = @ + 1, !.armed = d.picks + 1 < FullBoard]

SandboxPick(r) ==
  /\ errand[r] # NoErrand /\ errand[r].at = "pick"
  /\ LET s == errand[r].session
     IN  IF drafts[s].picks \in MyTurns /\ ~IsOver(s)
         THEN drafts' = [drafts EXCEPT ![s] = Picked(@)] /\ Do(r, [errand[r] EXCEPT !.at = "settle"])
         ELSE Ends(r) /\ UNCHANGED drafts
  /\ UNCHANGED <<minute, live, open, round>>

-----------------------------------------------------------------------------
(* The registry's tick *)

BeginRound ==
  /\ round = NoErrand /\ round' = Registered
  /\ UNCHANGED <<minute, live, open, drafts, errand>>

\* Mutant: a session that is over ticks on
TicksDone(s) == TRUE

Ticks(s) == ~drafts[s].done

\* The viewer's clock may have run out; a bot thinks first, then picks, or has
\* no legal candidate left.
Moves(d) ==
  IF d.picks \in MyTurns
  THEN {[d EXCEPT !.due = FullBoard], FinishedIfOver(Picked([d EXCEPT !.due = FullBoard]))}
  ELSE IF d.due # d.picks THEN {[d EXCEPT !.due = d.picks]}
  ELSE {d, FinishedIfOver(Picked(d)), Finished(d)}

TickSession(s) ==
  /\ round # NoErrand /\ s \in round /\ round' = round \ {s}
  /\ \E d \in IF ~Ticks(s) THEN {drafts[s]}
              ELSE IF live THEN {Finished([drafts[s] EXCEPT !.realAt = minute])}
              ELSE IF IsOver(s) THEN {Finished(drafts[s])} ELSE Moves(drafts[s]) :
       drafts' = [drafts EXCEPT ![s] = d]
  /\ UNCHANGED <<minute, live, open, errand>>

Sweep ==
  /\ round = {} /\ round' = NoErrand
  /\ open' = Removing(Stale) /\ drafts' = CloseAll(Stale)
  /\ UNCHANGED <<minute, live, errand>>

-----------------------------------------------------------------------------

RealDraftStarts == ~live /\ live' = TRUE /\ UNCHANGED <<minute, open, drafts, errand, round>>

\* A request is answered and a round over before two minutes have passed.
MinutePasses ==
  /\ minute < LastMinute /\ minute' = minute + 1
  /\ \A r \in Request : errand[r] # NoErrand => errand[r].asked = minute
  /\ UNCHANGED <<live, open, drafts, errand, round>>

PracticeInit ==
  /\ minute = 1 /\ live = FALSE /\ open = [v \in Viewer |-> NoSession]
  /\ drafts = [s \in {} |-> 0] /\ errand = [r \in Request |-> NoErrand] /\ round = NoErrand

PracticeNext ==
  \/ BeginRound \/ Sweep \/ RealDraftStarts \/ MinutePasses
  \/ \E s \in Built : TickSession(s)
  \/ \E r \in Request :
       \/ BuildFails(r) \/ Build(r) \/ Insert(r) \/ CloseSession(r) \/ Touch(r) \/ CheckDone(r) \/ SandboxPick(r)
       \/ \E v \in Viewer : Leave(r, v) \/ Visit(r, v) \/ \E picks \in FirstPick : AskStart(r, v, picks)

PracticeSpec == PracticeInit /\ [][PracticeNext]_practiceVars

-----------------------------------------------------------------------------
(* Properties *)

\* Type invariant of practice.
PracticeTypeOK ==
  /\ minute \in 1..LastMinute /\ live \in BOOLEAN
  /\ open \in [Viewer -> Built \cup {NoSession}]
  /\ drafts \in [Built -> [picks : 0..FullBoard, due : 0..FullBoard, armed : BOOLEAN, touched : 0..LastMinute,
                           done : BOOLEAN, closed : BOOLEAN, realAt : 0..LastMinute]]

\* The registry never holds more sessions than its cap, although a session is
\* built between the look at the cap and the insertion (Start).
CapHolds == Cardinality(Registered) <= Capacity

\* A session out of the registry is closed, or a request is about to close or
\* insert it: no sandbox's event drain is forgotten (close "stops the
\* sandbox's event drain").
Held == {errand[r].session : r \in {q \in Request : errand[q] # NoErrand /\ errand[q].at \in {"insert", "close"}}}
NothingLeaks == \A s \in Built : drafts[s].closed \/ s \in Registered \/ s \in Held

\* A registered session is one the room can still show.
RegisteredAreOpen == \A s \in Registered : ~drafts[s].closed

PracticeIsSound == PracticeTypeOK /\ CapHolds /\ NothingLeaks /\ RegisteredAreOpen

\* A finished practice stays finished: nothing is drafted in it any more, except
\* by the viewer's pick that had looked at it before (finishLocked).
FinishedStays ==
  [][\A s \in Built : drafts[s].done =>
       /\ drafts'[s].done
       /\ drafts'[s].picks # drafts[s].picks \/ (drafts'[s].armed /\ ~drafts[s].armed) =>
            \E r \in Request : SandboxPick(r) /\ errand[r].session = s]_practiceVars

\* A member loses an open practice by starting another, by leaving, by being
\* away for the time to live, or some grace after the real draft began: not by
\* a start that failed or was refused, nor by anybody else's.
SessionsAreKept ==
  [][\A v \in Viewer : open[v] # NoSession /\ open'[v] # open[v] =>
       \/ \E r \in Request : Leave(r, v) \/ (Insert(r) /\ errand[r].who = v)
       \/ minute > drafts[open[v]].touched + Ttl
       \/ live /\ drafts[open[v]].realAt # 0 /\ minute > drafts[open[v]].realAt + Grace]_practiceVars

PracticeIsKept == FinishedStays /\ SessionsAreKept
=============================================================================

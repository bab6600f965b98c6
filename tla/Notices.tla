------------------------------- MODULE Notices -------------------------------
(***************************************************************************)
(* One member's notifications: the receipts of the sent log, the notifier  *)
(* tick and a closing week that look at the same notices, the bounded mail *)
(* queue and its worker (internal/league/notifications.go, store.go,       *)
(* internal/notify/notify.go). Everything that makes a notice due is       *)
(* derived from the season at each look, so the receipt alone stands       *)
(* between a second look, or a restart, and a second message.              *)
(* The member's preference, read from the tick's snapshot, is a free       *)
(* choice, and so is the season's course: the draft starts or is reset,    *)
(* the current week moves on, a week is reopened. An evaluation ends       *)
(* before the clock, in days, moves twice.                                 *)
(***************************************************************************)
EXTENDS Integers, Sequences, FiniteSets

CONSTANTS
  Windowed, Lasting,   \* notices with a freshness window, and without one
  Opens, Closes,       \* the day a notice becomes due; the last fresh day
  AtClose,             \* notices a week's close looks at too (matchup recaps)
  Retention,           \* sentLogRetention
  MailSlots,           \* queueCapacity
  Never,
  MaxDay, MaxSlips     \* bounds: the clock; failed writes, panics, restarts

Notice == Windowed \cup Lasting

ASSUME NoticeNumbers ==
  /\ Retention \in Nat /\ MailSlots \in Nat /\ MaxDay \in Nat /\ MaxSlips \in Nat
  /\ Never \notin Nat /\ Never \notin Notice

\* A receipt is kept for longer than any window is open
ASSUME WindowAssumption ==
  /\ AtClose \subseteq Windowed
  /\ \A n \in Windowed : Opens[n] \in Nat /\ Closes[n] \in Nat /\ Closes[n] - Opens[n] < Retention

VARIABLES
  day,
  sentLog,     \* state.SentLog
  rows,        \* the sent log's rows in the Store's index
  stored,      \* and in the database
  look,        \* the evaluations under way: the tick and the closing week
  mail,        \* the queue
  outstanding, \* its counter
  worker,
  offered,     \* history: how often a notice entered the queue or was dropped
  tries,       \* history: how often the transport was called for it
  standing,    \* notices whose occasion stands: draft not begun, week current or final
  slips

noticeVars == <<day, sentLog, rows, stored, look, mail, outstanding, worker, offered, tries, standing, slips>>
logVars    == <<sentLog, rows, stored>>
mailVars   == <<mail, outstanding, worker, offered, tries>>

AtRest   == [pc |-> "idle", at |-> 0, todo |-> {}, notice |-> Never]
NoLetter == [pc |-> "idle", notice |-> Never]

Slip == slips < MaxSlips /\ slips' = slips + 1

-----------------------------------------------------------------------------
(* The sent log *)

With(n, at) == [sentLog EXCEPT ![n] = at]

\* persistLocked writes the difference to the index
Written(log) == [n \in Notice |-> IF log[n] # rows[n] THEN log[n] ELSE stored[n]]

Saves(log) == sentLog' = log /\ rows' = log /\ stored' = Written(log)

\* The commit failed, or reported an error and landed
Misses(log) == rows' = rows /\ stored' \in {stored, Written(log)} /\ Slip

\* Mutant: a receipt that could not be written is believed
FirstSendBelieves(n, at, new) ==
  \/ sentLog[n] # Never /\ ~new /\ UNCHANGED <<logVars, slips>>
  \/ sentLog[n] = Never /\ new /\ Saves(With(n, at)) /\ UNCHANGED slips
  \/ sentLog[n] = Never /\ new /\ Misses(With(n, at)) /\ UNCHANGED sentLog

\* FirstSend: check and write under one lock, nothing kept of a failed write
FirstSend(n, at, new) ==
  \/ sentLog[n] # Never /\ ~new /\ UNCHANGED <<logVars, slips>>
  \/ sentLog[n] = Never /\ new /\ Saves(With(n, at)) /\ UNCHANGED slips
  \/ sentLog[n] = Never /\ ~new /\ Misses(With(n, at)) /\ UNCHANGED sentLog

\* Mutant: the cutoff is today
PrunedEarly(at) ==
  [n \in Notice |-> IF sentLog[n] # Never /\ sentLog[n] < at THEN Never ELSE sentLog[n]]

Pruned(at) ==
  [n \in Notice |-> IF sentLog[n] # Never /\ sentLog[n] < at - Retention THEN Never ELSE sentLog[n]]

\* PruneSentLog keeps its deletions when the write fails
PruneSentLog(at) ==
  LET log == Pruned(at)
  IN  \/ log = sentLog /\ UNCHANGED <<logVars, slips>>
      \/ log # sentLog /\ Saves(log) /\ UNCHANGED slips
      \/ log # sentLog /\ Misses(log) /\ sentLog' = log

\* Any later write of the Store covers what the failed one left
OtherWrite ==
  /\ sentLog # rows /\ Saves(sentLog)
  /\ UNCHANGED <<day, look, mailVars, standing, slips>>

-----------------------------------------------------------------------------
(* Evaluations *)

\* The window of the evaluation's own instant; scoring changes have none
Fresh(n, at) == n \in Windowed => at <= Closes[n]

\* No draft reminder once the draft has started; lineup warnings and pick'em
\* reminders for the current week alone; a recap while its week is final
Due(e) == {n \in standing : Opens[n] <= day /\ (e = "close" => n \in AtClose)}

\* notifierTick, emitMatchupRecap: the instant, and what is due in the
\* snapshot; a tick with nothing due still prunes
Begin(e) ==
  /\ look[e].pc = "idle" /\ (e = "close" => Due(e) # {})
  /\ look' = [look EXCEPT ![e] = [AtRest EXCEPT !.pc = "look", !.at = day, !.todo = Due(e)]]
  /\ UNCHANGED <<day, logVars, mailVars, standing, slips>>

Looked(e, n, pc) ==
  look' = [look EXCEPT ![e].todo = @ \ {n}, ![e].pc = pc,
                       ![e].notice = IF pc = "offer" THEN n ELSE Never]

\* Mutant: out of its window a notice is not recorded
EvaluateFresh(e, n) ==
  LET at == look[e].at
  IN  \/ Looked(e, n, "look") /\ UNCHANGED <<logVars, slips>>
      \/ Fresh(n, at) /\ FirstSend(n, at, TRUE) /\ Looked(e, n, "offer")
      \/ Fresh(n, at) /\ FirstSend(n, at, FALSE) /\ Looked(e, n, "look")

\* recordAndSend up to the receipt, or recordOnly; a member who does not want
\* the notice gets neither message nor receipt while it is fresh
Evaluate(e, n) ==
  LET at == look[e].at
  IN  \/ Fresh(n, at) /\ Looked(e, n, "look") /\ UNCHANGED <<logVars, slips>>
      \/ Fresh(n, at) /\ FirstSend(n, at, TRUE) /\ Looked(e, n, "offer")
      \/ Fresh(n, at) /\ FirstSend(n, at, FALSE) /\ Looked(e, n, "look")
      \/ ~Fresh(n, at) /\ (\E new \in BOOLEAN : FirstSend(n, at, new)) /\ Looked(e, n, "look")

LookAt(e, n) ==
  /\ look[e].pc = "look" /\ n \in look[e].todo
  /\ Evaluate(e, n)
  /\ UNCHANGED <<day, mailVars, standing>>

\* Mutant: one message more than the queue holds
RoomOffByOne == Len(mail) <= MailSlots

Room == Len(mail) < MailSlots

\* Enqueue never blocks: a full queue drops the message for good
Offer(e) ==
  /\ look[e].pc = "offer"
  /\ LET n    == look[e].notice
         fits == Room
     IN  /\ offered' = [offered EXCEPT ![n] = @ + 1]
         /\ mail' = IF fits THEN Append(mail, n) ELSE mail
         /\ look' = [look EXCEPT ![e].pc = IF fits THEN "count" ELSE "look", ![e].notice = Never]
  /\ UNCHANGED <<day, logVars, outstanding, worker, tries, standing, slips>>

\* The counter follows the channel in a step of its own
Count(e) ==
  /\ look[e].pc = "count"
  /\ outstanding' = outstanding + 1
  /\ look' = [look EXCEPT ![e].pc = "look"]
  /\ UNCHANGED <<day, logVars, mail, worker, offered, tries, standing, slips>>

\* The tick ends with dailyPrune when a day has passed since the last one
Finish(e) ==
  /\ look[e].pc = "look" /\ look[e].todo = {}
  /\ look' = [look EXCEPT ![e] = AtRest]
  /\ \/ e = "tick" /\ PruneSentLog(look[e].at)
     \/ UNCHANGED <<logVars, slips>>
  /\ UNCHANGED <<day, mailVars, standing>>

\* The loop guard ends the evaluation, receipt written or not
Panics(e) ==
  /\ look[e].pc \in {"look", "offer"} /\ Slip
  /\ look' = [look EXCEPT ![e] = AtRest]
  /\ UNCHANGED <<day, logVars, mailVars, standing>>

-----------------------------------------------------------------------------
(* The worker *)

Take ==
  /\ worker = NoLetter /\ mail # << >>
  /\ worker' = [pc |-> "send", notice |-> Head(mail)]
  /\ mail' = Tail(mail)
  /\ UNCHANGED <<day, logVars, look, outstanding, offered, tries, standing, slips>>

Calls == tries' = [tries EXCEPT ![worker.notice] = @ + 1]

\* Mutant: the counter keeps a message that was given up
SettlesQuietly == worker' = NoLetter /\ outstanding' = outstanding

\* The deferred decrement: sent, given up, or the delivery panicked
Settles == worker' = NoLetter /\ outstanding' = outstanding - 1

\* Only a first failure that is not permanent waits for the retry
FailsOnce == worker.pc = "send" /\ worker' = [worker EXCEPT !.pc = "retry"] /\ outstanding' = outstanding

Attempt ==
  /\ worker # NoLetter /\ Calls
  /\ Settles \/ FailsOnce
  /\ UNCHANGED <<day, logVars, look, mail, offered, standing, slips>>

-----------------------------------------------------------------------------

\* The season goes on, under an evaluation too; before the notice is due no
\* look would see it
OccasionTurns(n) ==
  /\ Opens[n] <= day
  /\ standing' = IF n \in standing THEN standing \ {n} ELSE standing \cup {n}
  /\ UNCHANGED <<day, logVars, look, mailVars, slips>>

Running(e) == look[e].pc # "idle"

DayPasses ==
  /\ day < MaxDay
  /\ \A e \in {"tick", "close"} : Running(e) => look[e].at = day
  /\ day' = day + 1
  /\ UNCHANGED <<logVars, look, mailVars, standing, slips>>

ProcessRestarts ==
  /\ Slip
  /\ sentLog' = stored /\ rows' = stored
  /\ look' = [e \in {"tick", "close"} |-> AtRest]
  /\ mail' = << >> /\ outstanding' = 0 /\ worker' = NoLetter
  /\ UNCHANGED <<day, stored, offered, tries, standing>>

NoticeInit ==
  /\ day = 0 /\ slips = 0 /\ standing = Notice
  /\ sentLog = [n \in Notice |-> Never] /\ rows = sentLog /\ stored = sentLog
  /\ look = [e \in {"tick", "close"} |-> AtRest]
  /\ mail = << >> /\ outstanding = 0 /\ worker = NoLetter
  /\ offered = [n \in Notice |-> 0] /\ tries = [n \in Notice |-> 0]

Proceeds(e) ==
  \/ \E n \in Notice : LookAt(e, n)
  \/ Offer(e) \/ Count(e) \/ Finish(e)

NoticeNext ==
  \/ \E e \in {"tick", "close"} : Begin(e) \/ Proceeds(e) \/ Panics(e)
  \/ \E n \in Windowed : OccasionTurns(n)
  \/ Take \/ Attempt \/ OtherWrite \/ DayPasses \/ ProcessRestarts

NoticeSpec == NoticeInit /\ [][NoticeNext]_noticeVars

\* StartNotifier's ticker comes back every minute, goroutines run, days pass
NoticeFairSpec ==
  /\ NoticeSpec
  /\ WF_noticeVars(Begin("tick")) /\ WF_noticeVars(Proceeds("tick"))
  /\ WF_noticeVars(Proceeds("close")) /\ WF_noticeVars(DayPasses)

-----------------------------------------------------------------------------
(* Properties *)

NoticeTypeOK ==
  /\ day \in 0..MaxDay /\ slips \in 0..MaxSlips
  /\ \A log \in {sentLog, rows, stored} : \A n \in Notice : log[n] \in {Never} \cup 0..day
  /\ Len(mail) <= MailSlots /\ standing \subseteq Notice

\* A notice enters the queue at most once and reaches the transport at most
\* twice, whatever races, failed writes, restarts and prunings lie between two
\* looks at it (recordAndSend: "the at-most-once send path").
AtMostOnce == \A n \in Windowed : offered[n] <= 1 /\ tries[n] <= 2

\* While its window is open, the receipt of a notice that may reach the queue
\* is in the database and in memory, so neither a restart nor the daily prune
\* lets another look send it again (FirstSend: "true always means on disk").
ReceiptOutlivesWindow ==
  \A n \in Windowed :
    (day <= Closes[n] /\ (offered[n] > 0 \/ \E e \in {"tick", "close"} : look[e].notice = n))
      => sentLog[n] # Never /\ stored[n] # Never

\* What Drain waits for is what is queued or being delivered, but for messages
\* whose Enqueue is still running (Queue.outstanding).
CountIsHonest ==
  outstanding + Cardinality({e \in {"tick", "close"} : look[e].pc = "count"})
    = Len(mail) + (IF worker = NoLetter THEN 0 ELSE 1)

\* A due notice whose occasion stands gets a receipt in the end, with a message
\* or without one, or its occasion passes first (the draft starts, the week
\* moves on or is reopened), although a write fails, a tick panics or the
\* process restarts (recordAndSend and recordOnly drop a failed write: only the
\* next tick looks again).
EveryNoticeSettles ==
  \A n \in Windowed : []<>(sentLog[n] # Never \/ day < Opens[n] \/ n \notin standing)

\* A notice with a window is sent once at most, because its receipt is stored
\* before the message and outlives the window (FirstSend, PruneSentLog), and the
\* queue's count is what Drain may rely on.
NoticesAreSound == AtMostOnce /\ ReceiptOutlivesWindow /\ CountIsHonest
=============================================================================

---------------------------- MODULE DeliveryProofs ----------------------------
(***************************************************************************)
(* Proofs about what leaves the league: the notices to a member are sent   *)
(* at most once and the mail queue's count is honest; the draft's rooms    *)
(* hear of one completion and of no repair that takes back newer news.     *)
(***************************************************************************)
EXTENDS MCDelivery, FiniteSetTheorems, TLAPS

Evaluators == {"tick", "close"}

Looks == [pc : {"idle", "look", "offer", "count"}, at : Nat, todo : SUBSET Notice, notice : Notice \cup {Never}]
Letters == [pc : {"send", "retry"}, notice : Notice]
Logs  == [Notice -> Nat \cup {Never}]

-----------------------------------------------------------------------------
(* Notices: the inductive invariant *)

NoticeShape ==
  /\ day \in 0..MaxDay /\ slips \in 0..MaxSlips /\ outstanding \in Int
  /\ sentLog \in Logs /\ rows \in Logs /\ stored \in Logs
  /\ look \in [Evaluators -> Looks]
  /\ mail \in Seq(Notice) /\ Len(mail) <= MailSlots
  /\ worker \in {NoLetter} \cup Letters
  /\ offered \in [Notice -> Nat] /\ tries \in [Notice -> Nat]
  /\ standing \subseteq Notice

\* An evaluation is at most a day old, has only what was due, and holds a
\* notice while it offers it.
LooksAreTimely ==
  \A e \in Evaluators :
    /\ look[e].pc # "idle" => look[e].at <= day /\ day <= look[e].at + 1
    /\ look[e].pc # "idle" => \A n \in look[e].todo \cap Windowed : Opens[n] <= look[e].at
    /\ look[e].notice \in Notice <=> look[e].pc = "offer"

\* Receipts are of the past, and of days on which the notice was due.
ReceiptsAreDated ==
  \A log \in {sentLog, rows, stored} : \A n \in Notice :
    log[n] # Never => log[n] <= day /\ (n \in Windowed => Opens[n] <= log[n])

\* An evaluation may still find the notice fresh.
Current(n) == day <= Closes[n] + 1

Touched(n) == offered[n] > 0 \/ \E e \in Evaluators : look[e].notice = n

\* While a notice is current the index agrees with memory about it, and
\* whatever may reach the queue has its receipt in memory and on disk.
ReceiptsHold ==
  \A n \in Windowed : Current(n) =>
    /\ rows[n] = sentLog[n]
    /\ Touched(n) => sentLog[n] # Never /\ stored[n] # Never

\* One evaluation offers a notice, once.
OfferedOnce ==
  \A n \in Windowed :
    /\ offered[n] <= 1
    /\ offered[n] = 1 => \A e \in Evaluators : look[e].notice # n
    /\ \A e, f \in Evaluators : look[e].notice = n /\ look[f].notice = n => e = f

Queued(n) == \E i \in 1..Len(mail) : mail[i] = n

\* A notice is queued, or being delivered, or done.
TriedTwice ==
  \A n \in Windowed :
    /\ tries[n] <= 2
    /\ offered[n] = 0 => tries[n] = 0 /\ ~Queued(n) /\ worker.notice # n
    /\ Queued(n) => tries[n] = 0 /\ worker.notice # n
    /\ \A i, j \in 1..Len(mail) : mail[i] = n /\ mail[j] = n => i = j
    /\ worker.notice = n => tries[n] = IF worker.pc = "send" THEN 0 ELSE 1

Counting(e) == IF look[e].pc = "count" THEN 1 ELSE 0

\* CountIsHonest without the set.
CountAddsUp ==
  outstanding + Counting("tick") + Counting("close") = Len(mail) + (IF worker = NoLetter THEN 0 ELSE 1)

LogInv  == ReceiptsAreDated /\ ReceiptsHold
MailInv == OfferedOnce /\ TriedTwice /\ CountAddsUp
NoticeInv == NoticeShape /\ LooksAreTimely /\ LogInv /\ MailInv

-----------------------------------------------------------------------------
(* Notices: the sent log *)

\* What a step may do to the log: receipts stay dated, and those of current
\* notices stay.
LogKept ==
  /\ sentLog' \in Logs /\ rows' \in Logs /\ stored' \in Logs
  /\ \A log \in {sentLog', rows', stored'} : \A n \in Notice :
       log[n] # Never => log[n] <= day /\ (n \in Windowed => Opens[n] <= log[n])
  /\ \A n \in Windowed : Current(n) =>
       /\ rows'[n] = sentLog'[n]
       /\ sentLog[n] # Never /\ stored[n] # Never => sentLog'[n] # Never /\ stored'[n] # Never

\* Writing a log, or failing to, keeps it.
LEMMA WritingKeeps ==
  ASSUME NoticeInv, NEW log \in Logs,
         \A n \in Notice : log[n] # Never => log[n] <= day /\ (n \in Windowed => Opens[n] <= log[n]),
         \A n \in Windowed : Current(n) /\ sentLog[n] # Never => log[n] # Never
  PROVE  /\ Saves(log) => LogKept
         /\ Misses(log) /\ sentLog' = sentLog => LogKept
         /\ (\A n \in Windowed : Current(n) => log[n] = sentLog[n]) /\ Misses(log) /\ sentLog' = log => LogKept
<1>1. Written(log) \in Logs
  BY DEF Written, NoticeInv, NoticeShape, Logs
<1>2. \A n \in Notice : Written(log)[n] # Never => Written(log)[n] <= day /\ (n \in Windowed => Opens[n] <= Written(log)[n])
  BY DEF Written, NoticeInv, NoticeShape, Logs, LogInv, ReceiptsAreDated
<1>3. \A n \in Windowed : Current(n) /\ sentLog[n] # Never /\ stored[n] # Never => Written(log)[n] # Never
  BY DEF Written, NoticeInv, NoticeShape, Notice
<1>4. Saves(log) => LogKept
  BY <1>1, <1>2, <1>3 DEF Saves, LogKept, NoticeInv, NoticeShape, LogInv, ReceiptsAreDated
<1>5. Misses(log) => stored' \in {stored, Written(log)} /\ rows' = rows
  BY DEF Misses
<1>6. Misses(log) /\ sentLog' = sentLog => LogKept
  BY <1>1, <1>2, <1>3, <1>5 DEF LogKept, NoticeInv, NoticeShape, LogInv, ReceiptsAreDated, ReceiptsHold
<1>7. (\A n \in Windowed : Current(n) => log[n] = sentLog[n]) /\ Misses(log) /\ sentLog' = log => LogKept
  BY <1>1, <1>2, <1>3, <1>5 DEF LogKept, NoticeInv, NoticeShape, LogInv, ReceiptsAreDated, ReceiptsHold
<1> QED
  BY <1>4, <1>6, <1>7

\* A log that stands still is kept.
LEMMA StandingKeeps ==
  ASSUME NoticeInv, UNCHANGED logVars
  PROVE  LogKept
BY DEF logVars, LogKept, NoticeInv, NoticeShape, LogInv, ReceiptsAreDated, ReceiptsHold

\* A receipt of a day that has come, for a notice that was due on it, keeps the
\* log; one written for a message is in memory and on disk.
LEMMA FirstSendKeeps ==
  ASSUME NoticeInv, NEW n \in Notice, NEW at \in Nat, at <= day, n \in Windowed => Opens[n] <= at,
         NEW new \in BOOLEAN, FirstSend(n, at, new)
  PROVE  /\ LogKept
         /\ slips' \in 0..MaxSlips
         /\ new /\ n \in Windowed /\ Current(n) =>
              /\ ~Touched(n)
              /\ sentLog'[n] # Never /\ stored'[n] # Never
<1>1. With(n, at) \in Logs /\ With(n, at)[n] = at /\ \A m \in Notice \ {n} : With(n, at)[m] = sentLog[m]
  BY DEF With, NoticeInv, NoticeShape, Logs
<1>2. /\ \A m \in Notice : With(n, at)[m] # Never => With(n, at)[m] <= day /\ (m \in Windowed => Opens[m] <= With(n, at)[m])
      /\ \A m \in Windowed : Current(m) /\ sentLog[m] # Never => With(n, at)[m] # Never
  BY <1>1, NoticeNumbers DEF NoticeInv, LogInv, ReceiptsAreDated, Notice
<1>3. CASE sentLog[n] # Never /\ ~new /\ UNCHANGED <<logVars, slips>>
  BY <1>3, StandingKeeps DEF NoticeInv, NoticeShape
<1>4. CASE sentLog[n] = Never /\ new /\ Saves(With(n, at)) /\ UNCHANGED slips
  <2>1. LogKept
    BY <1>1, <1>2, <1>4, WritingKeeps
  <2>2. ASSUME n \in Windowed, Current(n)
        PROVE  ~Touched(n) /\ sentLog'[n] # Never /\ stored'[n] # Never
    <3>1. rows[n] = Never /\ ~Touched(n)
      BY <1>4, <2>2 DEF NoticeInv, LogInv, ReceiptsHold
    <3>2. Written(With(n, at))[n] = at
      BY <3>1, <1>1, NoticeNumbers DEF Written
    <3> QED
      BY <3>1, <3>2, <1>1, <1>4, NoticeNumbers DEF Saves
  <2> QED
    BY <2>1, <2>2, <1>4 DEF NoticeInv, NoticeShape
<1>5. CASE sentLog[n] = Never /\ ~new /\ Misses(With(n, at)) /\ UNCHANGED sentLog
  BY <1>1, <1>2, <1>5, WritingKeeps, NoticeNumbers, SMTT(60) DEF Misses, Slip, NoticeInv, NoticeShape
<1> QED
  BY <1>3, <1>4, <1>5 DEF FirstSend

\* A pruning of a day that has come reaches no current notice: its receipt is
\* of a day on which it was due, and the window is shorter than the retention.
LEMMA PruneKeeps ==
  ASSUME NoticeInv, NEW at \in Nat, at <= day, PruneSentLog(at)
  PROVE  LogKept /\ slips' \in 0..MaxSlips
<1>1. Pruned(at) \in Logs
  BY DEF Pruned, NoticeInv, NoticeShape, Logs
<1>2. \A n \in Notice : Pruned(at)[n] = IF sentLog[n] # Never /\ sentLog[n] < at - Retention THEN Never ELSE sentLog[n]
  BY DEF Pruned
<1>3. ASSUME NEW n \in Windowed, Current(n)
      PROVE  Pruned(at)[n] = sentLog[n]
  <2>1. n \in Notice /\ Opens[n] \in Nat /\ Closes[n] \in Nat /\ Retention \in Nat /\ Closes[n] - Opens[n] < Retention
    BY WindowAssumption, NoticeNumbers DEF Notice
  <2>2. sentLog[n] # Never => sentLog[n] \in Nat /\ Opens[n] <= sentLog[n]
    BY <2>1 DEF NoticeInv, NoticeShape, Logs, LogInv, ReceiptsAreDated
  <2>3. day \in Nat
    BY NoticeNumbers DEF NoticeInv, NoticeShape
  <2>4. sentLog[n] # Never => ~(sentLog[n] < at - Retention)
    BY <1>3, <2>1, <2>2, <2>3 DEF Current
  <2> QED
    BY <1>2, <2>1, <2>4
<1>4. \A n \in Notice : Pruned(at)[n] # Never => Pruned(at)[n] <= day /\ (n \in Windowed => Opens[n] <= Pruned(at)[n])
  BY <1>2 DEF NoticeInv, LogInv, ReceiptsAreDated
<1>5. Saves(Pruned(at)) => LogKept
  BY <1>1, <1>3, <1>4, WritingKeeps
<1>6. Misses(Pruned(at)) /\ sentLog' = Pruned(at) => LogKept
  BY <1>1, <1>3, <1>4, WritingKeeps
<1>7. slips' \in 0..MaxSlips
  BY NoticeNumbers DEF PruneSentLog, Misses, Slip, NoticeInv, NoticeShape
<1> QED
  BY <1>5, <1>6, <1>7, StandingKeeps DEF PruneSentLog

-----------------------------------------------------------------------------
\* A step that keeps the log, stays within the day and touches no notice anew
\* keeps what is said of the log.
LEMMA LogInvKept ==
  ASSUME NoticeInv, LogKept, day' = day, \A n \in Windowed : Current(n) /\ Touched(n)' => Touched(n) \/ (sentLog'[n] # Never /\ stored'[n] # Never)
  PROVE  LogInv'
BY DEF LogKept, LogInv, ReceiptsAreDated, ReceiptsHold, NoticeInv, Current

-----------------------------------------------------------------------------
(* Notices: every action *)

\* What the invariant says of one evaluation.
LEMMA LookParts ==
  ASSUME NoticeInv, NEW e \in Evaluators
  PROVE  /\ look[e] \in Looks /\ look[e].at \in Nat /\ look[e].todo \subseteq Notice
         /\ look[e].pc # "offer" => look[e].notice = Never
         /\ look[e].pc = "offer" => look[e].notice \in Notice
         /\ look[e].pc # "idle" => look[e].at <= day /\ \A n \in look[e].todo \cap Windowed : Opens[n] <= look[e].at
BY NoticeNumbers DEF NoticeInv, NoticeShape, LooksAreTimely, Looks

\* The member's preference, or no write: the evaluation goes on.
LEMMA BeginKeeps ==
  ASSUME NoticeInv, NEW e \in Evaluators, Begin(e)
  PROVE  NoticeInv'
<1> DEFINE new == [AtRest EXCEPT !.pc = "look", !.at = day, !.todo = Due(e)]
<1>1. new \in Looks /\ new.pc = "look" /\ new.at = day /\ new.todo = Due(e) /\ new.notice = Never
  <2>1. Due(e) \in SUBSET Notice /\ day \in Nat
    BY NoticeNumbers DEF Due, NoticeInv, NoticeShape
  <2> QED
    BY <2>1 DEF AtRest, Looks
<1>2. look' = [look EXCEPT ![e] = new] /\ look[e].pc = "idle" /\ UNCHANGED <<day, logVars, mailVars, standing, slips>>
  BY DEF Begin
<1> HIDE DEF new
<1>3. \A n \in Due(e) \cap Windowed : Opens[n] <= day
  BY DEF Due
<1>4. look[e].notice = Never
  BY <1>2, LookParts
<1>5. look'[e] = new /\ \A f \in Evaluators \ {e} : look'[f] = look[f]
  BY <1>2 DEF NoticeInv, NoticeShape
<1>6. NoticeShape'
  BY <1>1, <1>2 DEF NoticeInv, NoticeShape, logVars, mailVars
<1>7. LooksAreTimely'
  BY <1>1, <1>2, <1>3, <1>5, NoticeNumbers DEF NoticeInv, NoticeShape, LooksAreTimely
<1>8. \A n \in Notice : Touched(n)' = Touched(n)
  BY <1>1, <1>2, <1>4, <1>5, NoticeNumbers DEF Touched, mailVars
<1>9. LogInv'
  BY <1>2, <1>8, StandingKeeps, LogInvKept DEF Notice
<1>10. MailInv'
  BY <1>1, <1>2, <1>4, <1>5, NoticeNumbers
     DEF NoticeInv, MailInv, OfferedOnce, TriedTwice, Queued, CountAddsUp, Counting, mailVars, Evaluators, Notice
<1> QED
  BY <1>6, <1>7, <1>9, <1>10 DEF NoticeInv

\* A look at a notice ends with an offer, for a receipt that was written, or
\* without one.
LEMMA LookAtKeeps ==
  ASSUME NoticeInv, NEW e \in Evaluators, NEW n \in Notice, LookAt(e, n)
  PROVE  NoticeInv'
<1> DEFINE at == look[e].at
<1>1. /\ look[e].pc = "look" /\ n \in look[e].todo /\ UNCHANGED <<day, mailVars, standing>>
      /\ at \in Nat /\ at <= day /\ day <= at + 1 /\ (n \in Windowed => Opens[n] <= at) /\ look[e].notice = Never
  BY LookParts DEF LookAt, NoticeInv, LooksAreTimely
<1>2. /\ LogKept /\ slips' \in 0..MaxSlips
      /\ \/ Looked(e, n, "look")
         \/ /\ Looked(e, n, "offer")
            /\ n \in Windowed => ~Touched(n) /\ sentLog'[n] # Never /\ stored'[n] # Never
  <2>1. CASE Looked(e, n, "look") /\ UNCHANGED <<logVars, slips>>
    BY <2>1, StandingKeeps DEF NoticeInv, NoticeShape
  <2>2. CASE Fresh(n, at) /\ FirstSend(n, at, TRUE) /\ Looked(e, n, "offer")
    <3>1. n \in Windowed => Current(n)
      BY <1>1, <2>2, WindowAssumption, NoticeNumbers DEF Fresh, Current, NoticeInv, NoticeShape
    <3> QED
      BY <1>1, <2>2, <3>1, FirstSendKeeps
  <2>3. ASSUME NEW new \in BOOLEAN, FirstSend(n, at, new), Looked(e, n, "look")
        PROVE  LogKept /\ slips' \in 0..MaxSlips
    BY <1>1, <2>3, FirstSendKeeps
  <2> QED
    BY <2>1, <2>2, <2>3 DEF LookAt, Evaluate
<1>3. \E pc \in {"look", "offer"} : Looked(e, n, pc) /\ (pc = "offer" /\ n \in Windowed => ~Touched(n) /\ sentLog'[n] # Never /\ stored'[n] # Never)
  BY <1>2
<1>4. PICK pc \in {"look", "offer"} : Looked(e, n, pc) /\ (pc = "offer" /\ n \in Windowed => ~Touched(n) /\ sentLog'[n] # Never /\ stored'[n] # Never)
  BY <1>3
<1>5. /\ look'[e].pc = pc /\ look'[e].at = at /\ look'[e].todo = look[e].todo \ {n}
      /\ look'[e].notice = IF pc = "offer" THEN n ELSE Never
      /\ look'[e] \in Looks /\ look' \in [Evaluators -> Looks]
      /\ \A f \in Evaluators \ {e} : look'[f] = look[f]
  BY <1>4, LookParts, NoticeNumbers, ZenonT(60) DEF Looked, Looks, NoticeInv, NoticeShape
<1>6. NoticeShape'
  BY <1>1, <1>2, <1>5 DEF NoticeInv, NoticeShape, mailVars, LogKept
<1>7. LooksAreTimely'
  BY <1>1, <1>4, <1>5, NoticeNumbers DEF NoticeInv, LooksAreTimely
<1>8. \A m \in Notice : Touched(m)' => Touched(m) \/ (pc = "offer" /\ m = n)
  BY <1>1, <1>4, <1>5, NoticeNumbers DEF Touched, mailVars
<1>9. LogInv'
  BY <1>1, <1>2, <1>4, <1>8, LogInvKept DEF Notice
<1>10. OfferedOnce'
  <2> SUFFICES ASSUME NEW m \in Windowed
               PROVE  /\ offered'[m] <= 1
                      /\ offered'[m] = 1 => \A f \in Evaluators : look'[f].notice # m
                      /\ \A f, g \in Evaluators : look'[f].notice = m /\ look'[g].notice = m => f = g
    BY DEF OfferedOnce
  <2>1. m \in Notice /\ m # Never /\ offered'[m] = offered[m] /\ offered[m] \in Nat
    BY <1>1, NoticeNumbers DEF Notice, mailVars, NoticeInv, NoticeShape
  <2>2. CASE pc = "offer" /\ m = n
    <3>1. offered[m] = 0 /\ \A f \in Evaluators : look[f].notice # m
      BY <1>4, <2>1, <2>2 DEF Touched
    <3> QED
      BY <1>5, <2>1, <3>1
  <2>3. CASE ~(pc = "offer" /\ m = n)
    <3>1. \A f \in Evaluators : look'[f].notice = m => f # e /\ look[f].notice = m
      BY <1>5, <2>1, <2>3
    <3> QED
      BY <2>1, <3>1 DEF NoticeInv, MailInv, OfferedOnce
  <2> QED
    BY <2>2, <2>3
<1>11. TriedTwice'
  BY <1>1 DEF NoticeInv, MailInv, TriedTwice, Queued, mailVars
<1>12. CountAddsUp'
  BY <1>1, <1>4, <1>5 DEF NoticeInv, MailInv, CountAddsUp, Counting, mailVars, Evaluators
<1> QED
  BY <1>6, <1>7, <1>9, <1>10, <1>11, <1>12 DEF NoticeInv, MailInv

\* Appending and taking keep track of where a notice is.
LEMMA Appends ==
  ASSUME NEW q \in Seq(Notice), NEW n \in Notice
  PROVE  /\ Append(q, n) \in Seq(Notice) /\ Len(Append(q, n)) = Len(q) + 1
         /\ \A i \in 1..Len(q) : Append(q, n)[i] = q[i]
         /\ Append(q, n)[Len(q) + 1] = n
OBVIOUS

LEMMA OfferKeeps ==
  ASSUME NoticeInv, NEW e \in Evaluators, Offer(e)
  PROVE  NoticeInv'
<1> DEFINE n == look[e].notice
<1>1. /\ look[e].pc = "offer" /\ n \in Notice /\ UNCHANGED <<day, logVars, outstanding, worker, tries, standing, slips>>
      /\ offered' = [offered EXCEPT ![n] = @ + 1]
      /\ mail' = IF Room THEN Append(mail, n) ELSE mail
      /\ look' = [look EXCEPT ![e].pc = IF Room THEN "count" ELSE "look", ![e].notice = Never]
  BY LookParts DEF Offer
<1> HIDE DEF n
<1>2. /\ look'[e].pc = (IF Room THEN "count" ELSE "look") /\ look'[e].at = look[e].at /\ look'[e].todo = look[e].todo
      /\ look'[e].notice = Never /\ look' \in [Evaluators -> Looks]
      /\ \A f \in Evaluators \ {e} : look'[f] = look[f]
  BY <1>1, LookParts, ZenonT(60) DEF Looks, NoticeInv, NoticeShape
<1>3. /\ offered' \in [Notice -> Nat] /\ offered'[n] = offered[n] + 1 /\ \A m \in Notice \ {n} : offered'[m] = offered[m]
      /\ mail \in Seq(Notice) /\ Len(mail) \in Nat
  BY <1>1 DEF NoticeInv, NoticeShape
<1>4. NoticeShape'
  <2>1. mail' \in Seq(Notice) /\ Len(mail') <= MailSlots
    BY <1>1, <1>3, Appends, NoticeNumbers DEF Room, NoticeInv, NoticeShape
  <2> QED
    BY <1>1, <1>2, <1>3, <2>1 DEF NoticeInv, NoticeShape, logVars
<1>5. LooksAreTimely'
  BY <1>1, <1>2, NoticeNumbers DEF NoticeInv, LooksAreTimely
<1>6. \A m \in Notice : Touched(m)' => Touched(m)
  BY <1>1, <1>2, <1>3, NoticeNumbers DEF Touched, n, NoticeInv, NoticeShape
<1>7. LogInv'
  BY <1>1, <1>6, StandingKeeps, LogInvKept DEF Notice
<1>8. n \in Windowed => offered[n] = 0
  <2>1. n \in Windowed => offered[n] <= 1 /\ (offered[n] = 1 => \A f \in Evaluators : look[f].notice # n)
    BY DEF NoticeInv, MailInv, OfferedOnce
  <2>2. offered[n] \in Nat /\ look[e].notice = n
    BY <1>1 DEF n, NoticeInv, NoticeShape
  <2> QED
    BY <2>1, <2>2
<1>9. OfferedOnce'
  BY <1>1, <1>2, <1>3, <1>8, NoticeNumbers DEF n, NoticeInv, MailInv, OfferedOnce, Notice
<1>10. TriedTwice'
  <2> SUFFICES ASSUME NEW m \in Windowed
               PROVE  /\ tries'[m] <= 2
                      /\ offered'[m] = 0 => tries'[m] = 0 /\ ~Queued(m)' /\ worker'.notice # m
                      /\ Queued(m)' => tries'[m] = 0 /\ worker'.notice # m
                      /\ \A i, j \in 1..Len(mail') : mail'[i] = m /\ mail'[j] = m => i = j
                      /\ worker'.notice = m => tries'[m] = IF worker'.pc = "send" THEN 0 ELSE 1
    BY DEF TriedTwice
  <2>1. CASE m # n
    <3>1. \A i \in 1..Len(mail') : mail'[i] = m => i \in 1..Len(mail) /\ mail[i] = m
      BY <1>1, <1>3, <2>1, Appends
    <3> QED
      BY <1>1, <1>3, <2>1, <3>1 DEF NoticeInv, MailInv, TriedTwice, Queued, Notice
  <2>2. CASE m = n
    <3>1. tries[m] = 0 /\ ~Queued(m) /\ worker.notice # m
      BY <1>8, <2>2 DEF NoticeInv, MailInv, TriedTwice
    <3>2. \A i \in 1..Len(mail') : mail'[i] = m => i = Len(mail) + 1
      BY <1>1, <1>3, <3>1, Appends DEF Queued
    <3> QED
      BY <1>1, <1>3, <2>2, <3>1, <3>2 DEF NoticeInv, NoticeShape, Notice
  <2> QED
    BY <2>1, <2>2
<1>11. CountAddsUp'
  <2>1. Len(mail') = IF Room THEN Len(mail) + 1 ELSE Len(mail)
    BY <1>1, <1>3, Appends
  <2>2. /\ Counting(e) = 0 /\ Counting(e)' = IF Room THEN 1 ELSE 0
        /\ \A f \in Evaluators \ {e} : Counting(f)' = Counting(f)
    BY <1>1, <1>2 DEF Counting
  <2>3. outstanding' = outstanding /\ worker' = worker /\ outstanding \in Int
    BY <1>1 DEF NoticeInv, NoticeShape
  <2>4. \A f \in {"tick", "close"} : Counting(f) \in {0, 1} /\ Counting(f)' \in {0, 1}
    BY DEF Counting
  <2>5. Counting("tick")' + Counting("close")' = Counting("tick") + Counting("close") + (IF Room THEN 1 ELSE 0)
    BY <2>2, <2>4 DEF Evaluators
  <2> DEFINE held == IF worker = NoLetter THEN 0 ELSE 1
  <2>6. held' = held /\ held \in Int
    BY <2>3
  <2>7. outstanding + Counting("tick") + Counting("close") = Len(mail) + held
    BY DEF NoticeInv, MailInv, CountAddsUp
  <2> HIDE DEF held
  <2>8. outstanding' + Counting("tick")' + Counting("close")' = Len(mail') + held'
    BY <1>3, <2>1, <2>3, <2>4, <2>5, <2>6, <2>7
  <2> QED
    BY <2>8 DEF CountAddsUp, held
<1> QED
  BY <1>4, <1>5, <1>7, <1>9, <1>10, <1>11 DEF NoticeInv, MailInv

LEMMA CountKeeps ==
  ASSUME NoticeInv, NEW e \in Evaluators, Count(e)
  PROVE  NoticeInv'
<1>1. /\ look[e].pc = "count" /\ outstanding' = outstanding + 1 /\ look[e].notice = Never
      /\ UNCHANGED <<day, logVars, mail, worker, offered, tries, standing, slips>>
  BY LookParts DEF Count
<1>2. /\ look'[e].pc = "look" /\ look'[e].at = look[e].at /\ look'[e].todo = look[e].todo
      /\ look'[e].notice = Never /\ look' \in [Evaluators -> Looks]
      /\ \A f \in Evaluators \ {e} : look'[f] = look[f]
  BY <1>1, LookParts DEF Count, Looks, NoticeInv, NoticeShape
<1>3. NoticeShape'
  BY <1>1, <1>2 DEF NoticeInv, NoticeShape, logVars
<1>4. LooksAreTimely'
  BY <1>1, <1>2, NoticeNumbers DEF NoticeInv, LooksAreTimely
<1>5. \A n \in Notice : Touched(n)' = Touched(n)
  BY <1>1, <1>2, NoticeNumbers DEF Touched
<1>6. LogInv'
  BY <1>1, <1>5, StandingKeeps, LogInvKept DEF Notice
<1>7. OfferedOnce' /\ TriedTwice'
  BY <1>1, <1>2, NoticeNumbers DEF NoticeInv, MailInv, OfferedOnce, TriedTwice, Queued, Notice
<1>8. CountAddsUp'
  BY <1>1, <1>2 DEF NoticeInv, NoticeShape, MailInv, CountAddsUp, Counting, Evaluators
<1> QED
  BY <1>3, <1>4, <1>6, <1>7, <1>8 DEF NoticeInv, MailInv

\* An evaluation that ends, by itself or by a panic, leaves the mail alone.
LEMMA RestKeeps ==
  ASSUME NoticeInv, NEW e \in Evaluators, look[e].pc \in {"look", "offer"},
         look' = [look EXCEPT ![e] = AtRest], LogKept, slips' \in 0..MaxSlips, UNCHANGED <<day, mailVars, standing>>
  PROVE  NoticeInv'
<1>1. /\ look'[e] = AtRest /\ look' \in [Evaluators -> Looks]
      /\ AtRest.pc = "idle" /\ AtRest.notice = Never /\ \A f \in Evaluators \ {e} : look'[f] = look[f]
  BY DEF AtRest, Looks, NoticeInv, NoticeShape
<1>2. NoticeShape'
  BY <1>1 DEF NoticeInv, NoticeShape, mailVars, LogKept
<1>3. LooksAreTimely'
  BY <1>1, NoticeNumbers DEF NoticeInv, LooksAreTimely
<1>4. \A n \in Notice : Touched(n)' => Touched(n)
  BY <1>1, NoticeNumbers DEF Touched, mailVars
<1>5. LogInv'
  BY <1>4, LogInvKept DEF Notice
<1>6. OfferedOnce' /\ TriedTwice'
  BY <1>1, NoticeNumbers DEF NoticeInv, MailInv, OfferedOnce, TriedTwice, Queued, Notice, mailVars
<1>7. CountAddsUp'
  BY <1>1 DEF NoticeInv, MailInv, CountAddsUp, Counting, Evaluators, mailVars
<1> QED
  BY <1>2, <1>3, <1>5, <1>6, <1>7 DEF NoticeInv, MailInv

LEMMA FinishKeeps ==
  ASSUME NoticeInv, NEW e \in Evaluators, Finish(e)
  PROVE  NoticeInv'
<1>1. LogKept /\ slips' \in 0..MaxSlips
  BY LookParts, PruneKeeps, StandingKeeps DEF Finish, NoticeInv, NoticeShape
<1> QED
  BY <1>1, RestKeeps DEF Finish

LEMMA PanicsKeep ==
  ASSUME NoticeInv, NEW e \in Evaluators, Panics(e)
  PROVE  NoticeInv'
<1>1. slips' \in 0..MaxSlips
  BY NoticeNumbers DEF Panics, Slip, NoticeInv, NoticeShape
<1> QED
  BY <1>1, StandingKeeps, RestKeeps DEF Panics

LEMMA TakeKeeps ==
  ASSUME NoticeInv, Take
  PROVE  NoticeInv'
<1>1. /\ worker = NoLetter /\ mail # << >> /\ worker' = [pc |-> "send", notice |-> Head(mail)] /\ mail' = Tail(mail)
      /\ mail \in Seq(Notice) /\ UNCHANGED <<day, logVars, look, outstanding, offered, tries, standing, slips>>
  BY DEF Take, NoticeInv, NoticeShape
<1>2. /\ Head(mail) = mail[1] /\ Len(mail) \in Nat \ {0} /\ Head(mail) \in Notice
      /\ Tail(mail) \in Seq(Notice) /\ Len(Tail(mail)) = Len(mail) - 1
      /\ \A i \in 1..Len(Tail(mail)) : Tail(mail)[i] = mail[i + 1]
  BY <1>1
<1>3. worker' \in Letters /\ worker'.pc = "send" /\ worker'.notice = mail[1] /\ worker' # NoLetter
  BY <1>1, <1>2 DEF Letters, NoLetter
<1>4. NoticeShape'
  BY <1>1, <1>2, <1>3, NoticeNumbers DEF NoticeInv, NoticeShape, logVars
<1>5. LooksAreTimely'
  BY <1>1 DEF NoticeInv, LooksAreTimely
<1>6. LogInv'
  BY <1>1, StandingKeeps, LogInvKept DEF Touched
<1>7. OfferedOnce'
  BY <1>1 DEF NoticeInv, MailInv, OfferedOnce
<1>8. TriedTwice'
  <2> SUFFICES ASSUME NEW m \in Windowed
               PROVE  /\ tries'[m] <= 2
                      /\ offered'[m] = 0 => tries'[m] = 0 /\ ~Queued(m)' /\ worker'.notice # m
                      /\ Queued(m)' => tries'[m] = 0 /\ worker'.notice # m
                      /\ \A i, j \in 1..Len(mail') : mail'[i] = m /\ mail'[j] = m => i = j
                      /\ worker'.notice = m => tries'[m] = IF worker'.pc = "send" THEN 0 ELSE 1
    BY DEF TriedTwice
  <2>1. \A i \in 1..Len(mail') : mail'[i] = mail[i + 1] /\ i + 1 \in 1..Len(mail)
    BY <1>1, <1>2
  <2>2. 1 \in 1..Len(mail) /\ \A i, j \in 1..Len(mail) : mail[i] = m /\ mail[j] = m => i = j
    BY <1>2 DEF NoticeInv, MailInv, TriedTwice
  <2>3. Queued(m)' => Queued(m) /\ mail[1] # m
    BY <2>1, <2>2 DEF Queued
  <2>4. mail[1] = m => Queued(m) /\ ~Queued(m)'
    BY <2>2, <2>3 DEF Queued
  <2>5. \A i, j \in 1..Len(mail') : mail'[i] = m /\ mail'[j] = m => i = j
    <3> SUFFICES ASSUME NEW i \in 1..Len(mail'), NEW j \in 1..Len(mail'), mail'[i] = m, mail'[j] = m
                 PROVE  i = j
      OBVIOUS
    <3>1. i + 1 = j + 1
      BY <2>1, <2>2
    <3> QED
      BY <3>1
  <2> QED
    BY <1>1, <1>3, <2>3, <2>4, <2>5 DEF NoticeInv, MailInv, TriedTwice
<1>9. CountAddsUp'
  BY <1>1, <1>2, <1>3 DEF NoticeInv, NoticeShape, MailInv, CountAddsUp, Counting
<1> QED
  BY <1>4, <1>5, <1>6, <1>7, <1>8, <1>9 DEF NoticeInv, MailInv

LEMMA AttemptKeeps ==
  ASSUME NoticeInv, Attempt
  PROVE  NoticeInv'
<1> DEFINE n == worker.notice
<1>1. /\ worker \in Letters /\ n \in Notice /\ worker.pc \in {"send", "retry"}
      /\ tries' = [tries EXCEPT ![n] = @ + 1] /\ tries' \in [Notice -> Nat]
      /\ UNCHANGED <<day, logVars, look, mail, offered, standing, slips>>
      /\ \/ worker' = NoLetter /\ outstanding' = outstanding - 1
         \/ worker.pc = "send" /\ worker' = [worker EXCEPT !.pc = "retry"] /\ outstanding' = outstanding
  BY DEF Attempt, Calls, Settles, FailsOnce, NoticeInv, NoticeShape, Letters
<1>2. \/ worker' = NoLetter /\ outstanding' = outstanding - 1
      \/ /\ worker.pc = "send" /\ worker' \in Letters /\ worker' # NoLetter /\ outstanding' = outstanding
         /\ worker'.pc = "retry" /\ worker'.notice = n
  BY <1>1 DEF Letters, NoLetter
<1>3. tries'[n] = tries[n] + 1 /\ \A m \in Notice \ {n} : tries'[m] = tries[m]
  BY <1>1 DEF NoticeInv, NoticeShape
<1>4. NoLetter.notice = Never /\ worker # NoLetter
  BY <1>1 DEF NoLetter, Letters
<1> HIDE DEF n
<1>5. NoticeShape'
  BY <1>1, <1>2 DEF NoticeInv, NoticeShape, logVars
<1>6. LooksAreTimely'
  BY <1>1 DEF NoticeInv, LooksAreTimely
<1>7. LogInv'
  BY <1>1, StandingKeeps, LogInvKept DEF Touched
<1>8. OfferedOnce'
  BY <1>1 DEF NoticeInv, MailInv, OfferedOnce
<1>9. TriedTwice'
  <2> SUFFICES ASSUME NEW m \in Windowed
               PROVE  /\ tries'[m] <= 2
                      /\ offered'[m] = 0 => tries'[m] = 0 /\ ~Queued(m)' /\ worker'.notice # m
                      /\ Queued(m)' => tries'[m] = 0 /\ worker'.notice # m
                      /\ \A i, j \in 1..Len(mail') : mail'[i] = m /\ mail'[j] = m => i = j
                      /\ worker'.notice = m => tries'[m] = IF worker'.pc = "send" THEN 0 ELSE 1
    BY DEF TriedTwice
  <2>1. m \in Notice /\ Queued(m)' = Queued(m) /\ m # Never
    BY <1>1, NoticeNumbers DEF Notice, Queued
  <2>2. CASE m # n
    BY <1>1, <1>2, <1>3, <1>4, <2>1, <2>2 DEF NoticeInv, MailInv, TriedTwice
  <2>3. CASE m = n
    <3>1. tries[m] = (IF worker.pc = "send" THEN 0 ELSE 1) /\ ~Queued(m) /\ offered[m] # 0
      BY <2>3 DEF n, NoticeInv, MailInv, TriedTwice
    <3> QED
      BY <1>1, <1>2, <1>3, <1>4, <2>1, <2>3, <3>1 DEF NoticeInv, MailInv, TriedTwice
  <2> QED
    BY <2>2, <2>3
<1>10. CountAddsUp'
  BY <1>1, <1>2, <1>4 DEF NoticeInv, NoticeShape, MailInv, CountAddsUp, Counting
<1> QED
  BY <1>5, <1>6, <1>7, <1>8, <1>9, <1>10 DEF NoticeInv, MailInv

LEMMA OtherWriteKeeps ==
  ASSUME NoticeInv, OtherWrite
  PROVE  NoticeInv'
<1>1. LogKept /\ UNCHANGED <<day, look, mailVars, standing, slips>>
  BY WritingKeeps DEF OtherWrite, NoticeInv, NoticeShape, LogInv, ReceiptsAreDated
<1>2. LogInv'
  BY <1>1, LogInvKept DEF Touched, mailVars
<1> QED
  BY <1>1, <1>2 DEF NoticeInv, NoticeShape, LogKept, LooksAreTimely, MailInv, OfferedOnce, TriedTwice, Queued,
     CountAddsUp, Counting, mailVars

\* What the season still asks for is not what has been sent.
LEMMA OccasionTurnsKeeps ==
  ASSUME NoticeInv, NEW n \in Windowed, OccasionTurns(n)
  PROVE  NoticeInv'
<1>1. standing' \subseteq Notice /\ UNCHANGED <<day, logVars, look, mailVars, slips>>
  BY DEF OccasionTurns, NoticeInv, NoticeShape, Notice
<1>2. LogInv'
  BY <1>1, StandingKeeps, LogInvKept DEF Touched, mailVars
<1> QED
  BY <1>1, <1>2 DEF NoticeInv, NoticeShape, LooksAreTimely, MailInv, OfferedOnce, TriedTwice, Queued,
     CountAddsUp, Counting, mailVars, logVars

LEMMA DayPassesKeeps ==
  ASSUME NoticeInv, DayPasses
  PROVE  NoticeInv'
<1>1. day \in 0..MaxDay /\ day' = day + 1 /\ day' \in 0..MaxDay /\ UNCHANGED <<logVars, look, mailVars, standing, slips>>
  BY NoticeNumbers DEF DayPasses, NoticeInv, NoticeShape
<1>2. NoticeShape'
  BY <1>1 DEF NoticeInv, NoticeShape, logVars, mailVars
<1>3. LooksAreTimely'
  BY <1>1, LookParts DEF NoticeInv, LooksAreTimely, DayPasses, Running, Evaluators
<1>4. ReceiptsAreDated'
  <2>1. \A log \in {sentLog, rows, stored} : \A n \in Notice : log[n] # Never => log[n] \in Nat
    BY DEF NoticeInv, NoticeShape, Logs
  <2> QED
    BY <1>1, <2>1 DEF NoticeInv, LogInv, ReceiptsAreDated, logVars
<1>5. ReceiptsHold'
  <2>1. \A n \in Windowed : Current(n)' => Current(n)
    BY <1>1, WindowAssumption DEF Current
  <2> QED
    BY <1>1, <2>1 DEF NoticeInv, LogInv, ReceiptsHold, Touched, logVars, mailVars
<1>6. MailInv'
  BY <1>1 DEF NoticeInv, MailInv, OfferedOnce, TriedTwice, Queued, CountAddsUp, Counting, mailVars
<1> QED
  BY <1>2, <1>3, <1>4, <1>5, <1>6 DEF NoticeInv, LogInv

LEMMA RestartKeeps ==
  ASSUME NoticeInv, ProcessRestarts
  PROVE  NoticeInv'
<1>1. /\ slips' \in 0..MaxSlips /\ sentLog' = stored /\ rows' = stored /\ stored' = stored
      /\ look' = [e \in Evaluators |-> AtRest] /\ mail' = << >> /\ outstanding' = 0 /\ worker' = NoLetter
      /\ UNCHANGED <<day, offered, tries, standing>>
  BY NoticeNumbers DEF ProcessRestarts, Slip, NoticeInv, NoticeShape, Evaluators
<1>2. AtRest \in Looks /\ AtRest.pc = "idle" /\ AtRest.notice = Never /\ NoLetter.notice = Never /\ NoLetter.pc = "idle"
  BY DEF AtRest, Looks, NoLetter
<1>3. NoticeShape'
  BY <1>1, <1>2, NoticeNumbers DEF NoticeInv, NoticeShape
<1>4. LooksAreTimely'
  BY <1>1, <1>2, NoticeNumbers DEF LooksAreTimely
<1>5. LogKept
  BY <1>1 DEF LogKept, NoticeInv, NoticeShape, LogInv, ReceiptsAreDated
<1>6. \A n \in Notice : Touched(n)' => Touched(n)
  BY <1>1, <1>2, NoticeNumbers DEF Touched
<1>7. LogInv'
  BY <1>1, <1>5, <1>6, LogInvKept DEF Notice
<1>8. OfferedOnce' /\ TriedTwice'
  BY <1>1, <1>2, NoticeNumbers DEF NoticeInv, MailInv, OfferedOnce, TriedTwice, Queued, Notice
<1>9. CountAddsUp'
  BY <1>1, <1>2 DEF CountAddsUp, Counting, Evaluators
<1> QED
  BY <1>3, <1>4, <1>7, <1>8, <1>9 DEF NoticeInv, MailInv

-----------------------------------------------------------------------------
(* Notices: together *)

LEMMA NoticeInvInitially == NoticeInit => NoticeInv
<1> SUFFICES ASSUME NoticeInit PROVE NoticeInv
  OBVIOUS
<1>1. AtRest \in Looks /\ AtRest.pc = "idle" /\ AtRest.notice = Never /\ NoLetter.notice = Never
  BY DEF AtRest, Looks, NoLetter
<1>2. look = [e \in Evaluators |-> AtRest] /\ NoticeShape
  BY <1>1, NoticeNumbers DEF NoticeInit, NoticeShape, Logs, Evaluators
<1>3. LooksAreTimely
  BY <1>1, <1>2, NoticeNumbers DEF LooksAreTimely
<1>4. LogInv
  BY <1>1, <1>2, NoticeNumbers DEF NoticeInit, LogInv, ReceiptsAreDated, ReceiptsHold, Touched, Notice
<1>5. MailInv
  BY <1>1, <1>2, NoticeNumbers
     DEF NoticeInit, MailInv, OfferedOnce, TriedTwice, Queued, CountAddsUp, Counting, Notice, Evaluators
<1> QED
  BY <1>2, <1>3, <1>4, <1>5 DEF NoticeInv

LEMMA NoticeStepsKeep == NoticeInv /\ [NoticeNext]_noticeVars => NoticeInv'
<1> SUFFICES ASSUME NoticeInv, [NoticeNext]_noticeVars PROVE NoticeInv'
  OBVIOUS
<1>1. ASSUME NEW e \in Evaluators, Begin(e) \/ Proceeds(e) \/ Panics(e)
      PROVE  NoticeInv'
  BY <1>1, BeginKeeps, LookAtKeeps, OfferKeeps, CountKeeps, FinishKeeps, PanicsKeep DEF Proceeds
<1>2. CASE UNCHANGED noticeVars
  <2>1. UNCHANGED <<day, logVars, look, mailVars, standing, slips>>
    BY <1>2 DEF noticeVars, logVars, mailVars
  <2>2. LogInv'
    BY <2>1, StandingKeeps, LogInvKept DEF Touched, mailVars
  <2> QED
    BY <2>1, <2>2 DEF NoticeInv, NoticeShape, LooksAreTimely, MailInv, OfferedOnce, TriedTwice, Queued,
       CountAddsUp, Counting, mailVars, logVars
<1> QED
  BY <1>1, <1>2, TakeKeeps, AttemptKeeps, OtherWriteKeeps, OccasionTurnsKeeps, DayPassesKeeps, RestartKeeps DEF NoticeNext, Evaluators

\* The set of the two evaluations that have queued and not yet counted.
LEMMA CountIsCounted ==
  ASSUME NoticeInv
  PROVE  CountIsHonest
<1> DEFINE C == {e \in {"tick", "close"} : look[e].pc = "count"}
<1>1. Cardinality(C) = Counting("tick") + Counting("close")
  <2>1. CASE look["tick"].pc = "count" /\ look["close"].pc = "count"
    <3>1. C = {"tick"} \cup {"close"} /\ "close" \notin {"tick"}
      BY <2>1
    <3>2. IsFiniteSet({"tick"}) /\ Cardinality({"tick"}) = 1
      BY FS_Singleton
    <3>3. Cardinality({"tick"} \cup {"close"}) = Cardinality({"tick"}) + 1
      BY <3>1, <3>2, FS_AddElement
    <3>4. Cardinality(C) = 2
      BY <3>1, <3>2, <3>3
    <3> QED
      BY <2>1, <3>4 DEF Counting
  <2>2. CASE look["tick"].pc = "count" /\ look["close"].pc # "count"
    <3>1. C = {"tick"}
      BY <2>2
    <3>2. Cardinality(C) = 1
      BY <3>1, FS_Singleton
    <3> QED
      BY <2>2, <3>2 DEF Counting
  <2>3. CASE look["tick"].pc # "count" /\ look["close"].pc = "count"
    <3>1. C = {"close"}
      BY <2>3
    <3>2. Cardinality(C) = 1
      BY <3>1, FS_Singleton
    <3> QED
      BY <2>3, <3>2 DEF Counting
  <2>4. CASE look["tick"].pc # "count" /\ look["close"].pc # "count"
    <3>1. C = {}
      BY <2>4
    <3> QED
      BY <2>4, <3>1, FS_EmptySet DEF Counting
  <2> QED
    BY <2>1, <2>2, <2>3, <2>4
<1> QED
  BY <1>1 DEF CountIsHonest, NoticeInv, NoticeShape, MailInv, CountAddsUp, Counting

\* Every notice with a window reaches the queue once and the transport twice at
\* most, its receipt outlives the window, and the queue's counter is honest,
\* for every set of notices, retention and queue, whatever fails or restarts.
THEOREM NoticesStaySound == NoticeSpec => []NoticesAreSound
<1>1. NoticeInv => NoticesAreSound
  <2> SUFFICES ASSUME NoticeInv PROVE NoticesAreSound
    OBVIOUS
  <2>1. AtMostOnce
    BY DEF AtMostOnce, NoticeInv, MailInv, OfferedOnce, TriedTwice
  <2>2. ReceiptOutlivesWindow
    BY WindowAssumption, NoticeNumbers
       DEF ReceiptOutlivesWindow, NoticeInv, NoticeShape, LogInv, ReceiptsHold, Current, Touched, Evaluators
  <2> QED
    BY <2>1, <2>2, CountIsCounted DEF NoticesAreSound
<1> QED
  BY <1>1, NoticeInvInitially, NoticeStepsKeep, PTL DEF NoticeSpec

\* The types of the notices hold throughout.
THEOREM NoticesTypeCorrect == NoticeSpec => []NoticeTypeOK
<1>1. NoticeInv => NoticeTypeOK
  BY DEF NoticeInv, NoticeShape, LogInv, ReceiptsAreDated, NoticeTypeOK, Logs
<1> QED
  BY <1>1, NoticeInvInitially, NoticeStepsKeep, PTL DEF NoticeSpec

-----------------------------------------------------------------------------
Names == {"pick", "undo", "clock", "completion", "reopening", "lifecycle", "repair"}

Steps == {"idle", "pick", "pickSnap", "pickEmit", "latch", "complete", "undo", "undoSnap", "undoEmit",
          "undoClear", "undoState", "lifeClear", "lifeSnap", "lifeEmit", "clock"}

States == [pc : Steps, before : BOOLEAN, after : BOOLEAN, mine : 0..MaxCommits, at : 0..MaxCommits,
           clock : BOOLEAN]

-----------------------------------------------------------------------------
(* Draft events: the inductive invariant *)

EventsShape ==
  /\ TypeOK
  /\ h \in [Handlers -> States]
  /\ emitted \subseteq Events

\* An undo that still applies has something to undo; what a handler, the
\* repair loop and the rooms know is not ahead of the Store.
NothingAhead ==
  /\ \A x \in Handlers : h[x].mine <= commits /\ h[x].at <= commits
  /\ \A x \in Handlers : h[x].pc = "undo" /\ h[x].at = commits => made > 0
  /\ \A e \in emitted : e.at <= commits /\ e.gen <= generation
  /\ repair.event.at <= commits /\ repair.event.gen <= generation

\* The latch is the count of announcements.
LatchCounts == announced = IF latch THEN 1 ELSE 0

\* A repair on its way to the rooms is as fresh as one that is there.
Fresher(r) == \A e \in emitted : e.name # "repair" /\ e.gen < r.gen => e.at <= r.at

EventsInv ==
  /\ EventsShape /\ NothingAhead /\ LatchCounts /\ RepairIsFresh
  /\ repair.pc = "send" => repair.event.name = "repair" /\ Fresher(repair.event)

-----------------------------------------------------------------------------
(* Draft events: every action *)

\* A handler's next state.
LEMMA HandlerMoves ==
  ASSUME EventsInv, NEW x \in Handlers, NEW s \in States, s.mine <= commits', s.at <= commits',
         s.pc = "undo" /\ s.at = commits' => made' > 0,
         h' = [h EXCEPT ![x] = s],
         commits' \in 0..MaxCommits,
         (commits' = commits /\ made' = made) \/ commits' = commits + 1
  PROVE  /\ h' \in [Handlers -> States]
         /\ \A y \in Handlers : h'[y].mine <= commits' /\ h'[y].at <= commits'
         /\ \A y \in Handlers : h'[y].pc = "undo" /\ h'[y].at = commits' => made' > 0
<1>1. h \in [Handlers -> States] /\ commits \in Nat /\ commits' \in Nat
  BY EventsAssumption DEF EventsInv, EventsShape, TypeOK
<1>2. \A y \in Handlers \ {x} : h'[y] = h[y] /\ h[y].at \in Nat /\ h[y].mine \in Nat
  BY <1>1, EventsAssumption DEF States
<1>3. h'[x] = s /\ h' \in [Handlers -> States]
  BY <1>1
<1> QED
  BY <1>1, <1>2, <1>3 DEF EventsInv, NothingAhead

\* A commit moves the version on and leaves everything else of it behind.
LEMMA CommitKeeps ==
  ASSUME EventsInv, NEW x \in Handlers, NEW s \in States, s.mine <= commits', s.at <= commits', s.pc # "undo",
         h' = [h EXCEPT ![x] = s], commits < MaxCommits,
         commits' = commits + 1, made' \in 0..Total, started' \in BOOLEAN,
         UNCHANGED <<latch, wireVars, repair, repairQueue, lastGen, shown, ghosts>>
  PROVE  EventsInv'
<1>1. commits \in Nat /\ commits' \in 0..MaxCommits
  BY EventsAssumption DEF EventsInv, EventsShape, TypeOK
<1>2. /\ h' \in [Handlers -> States]
      /\ \A y \in Handlers : h'[y].mine <= commits' /\ h'[y].at <= commits'
      /\ \A y \in Handlers : h'[y].pc = "undo" /\ h'[y].at = commits' => made' > 0
  BY <1>1, HandlerMoves
<1>3. EventsShape'
  BY <1>1, <1>2 DEF EventsInv, EventsShape, TypeOK, wireVars, ghosts
<1>4. NothingAhead'
  BY <1>1, <1>2, EventsAssumption DEF EventsInv, EventsShape, TypeOK, NothingAhead, wireVars, ghosts, Events
<1> QED
  BY <1>3, <1>4 DEF EventsInv, LatchCounts, RepairIsFresh, Fresher, wireVars, ghosts

\* A step of a handler that only looks, or sets or clears the latch.
LEMMA QuietKeeps ==
  ASSUME EventsInv, NEW x \in Handlers, NEW s \in States, s.mine <= commits, s.at <= commits,
         s.pc = "undo" => made > 0,
         h' = [h EXCEPT ![x] = s], latch' \in BOOLEAN, announced' = IF latch' THEN 1 ELSE 0,
         UNCHANGED <<storeVars, wireVars, repair, repairQueue, lastGen, shown, lost, mended, emitted>>
  PROVE  EventsInv'
<1>1. commits' \in 0..MaxCommits /\ UNCHANGED storeVars /\ commits' = commits /\ made' = made
  BY DEF EventsInv, EventsShape, TypeOK, storeVars
<1>2. /\ h' \in [Handlers -> States]
      /\ \A y \in Handlers : h'[y].mine <= commits' /\ h'[y].at <= commits'
      /\ \A y \in Handlers : h'[y].pc = "undo" /\ h'[y].at = commits' => made' > 0
  BY <1>1, HandlerMoves
<1>3. EventsShape'
  BY <1>1, <1>2 DEF EventsInv, EventsShape, TypeOK, storeVars, wireVars
<1>4. NothingAhead'
  BY <1>1, <1>2 DEF EventsInv, NothingAhead, storeVars, wireVars
<1> QED
  BY <1>3, <1>4 DEF EventsInv, LatchCounts, RepairIsFresh, Fresher, wireVars

\* An emitted event is of the newest generation, so no repair is older news.
LEMMA EmitKeeps ==
  ASSUME EventsInv, NEW name \in Names \ {"repair"}, NEW at \in 0..MaxCommits, at <= commits, Emit(name, at),
         h' \in [Handlers -> States], \A x \in Handlers : h'[x] # h[x] => h'[x].pc # "undo",
         \A x \in Handlers : h'[x].mine <= commits /\ h'[x].at <= commits,
         UNCHANGED <<storeVars, latch, repair, repairQueue, lastGen, shown, mended, announced>>
  PROVE  EventsInv'
<1> DEFINE e == Event(name, generation + 1, at)
<1>1. generation \in Nat /\ e \in Events /\ e.gen = generation + 1 /\ e.at = at /\ e.name # "repair"
  BY EventsAssumption DEF EventsInv, EventsShape, TypeOK, Event, Events, Names
<1>2. /\ generation' = generation + 1
      /\ emitted' \subseteq emitted \cup {e} /\ emitted \subseteq emitted'
  BY DEF Emit
<1> HIDE DEF e
<1>3. queue' \in Seq(Events) /\ Len(queue') <= QueueSize /\ signal' \in BOOLEAN /\ lost' \subseteq 1..MaxCommits
  <2>1. queue \in Seq(Events) /\ Len(queue) \in Nat /\ Len(queue) <= QueueSize /\ QueueSize \in Nat
    BY EventsAssumption DEF EventsInv, EventsShape, TypeOK
  <2>2. Append(queue, e) \in Seq(Events) /\ Len(Append(queue, e)) = Len(queue) + 1
    BY <1>1, <2>1
  <2>3. {at} \ {0} \subseteq 1..MaxCommits
    BY EventsAssumption
  <2>4. CASE Len(queue) < QueueSize
    <3>1. queue' = Append(queue, e) /\ UNCHANGED <<signal, lost>>
      BY <2>4 DEF Emit, e
    <3> QED
      BY <2>1, <2>2, <2>4, <3>1 DEF EventsInv, EventsShape, TypeOK
  <2>5. CASE ~(Len(queue) < QueueSize)
    <3>1. signal' = TRUE /\ lost' = lost \cup ({at} \ {0}) /\ UNCHANGED queue
      BY <2>5 DEF Emit
    <3> QED
      BY <2>1, <2>3, <3>1 DEF EventsInv, EventsShape, TypeOK
  <2> QED
    BY <2>4, <2>5
<1>4. EventsShape'
  BY <1>1, <1>2, <1>3 DEF EventsInv, EventsShape, TypeOK, storeVars
<1>5. NothingAhead'
  <2>1. \A f \in emitted' : f.at <= commits /\ f.gen <= generation'
    BY <1>1, <1>2 DEF EventsInv, EventsShape, NothingAhead, Events
  <2>2. repair.event.gen \in Nat
    BY DEF EventsInv, EventsShape, TypeOK, Events
  <2> QED
    BY <1>1, <1>2, <2>1, <2>2 DEF EventsInv, NothingAhead, storeVars
<1>6. \A r \in Events : r.gen <= generation /\ Fresher(r) => Fresher(r)'
  BY <1>1, <1>2 DEF Fresher, Events
<1>7. RepairIsFresh'
  <2>1. \A r \in emitted' : r.name = "repair" => r \in emitted /\ r \in Events /\ r.gen <= generation /\ Fresher(r)
    BY <1>1, <1>2 DEF EventsInv, EventsShape, NothingAhead, RepairIsFresh, Fresher
  <2> QED
    BY <1>6, <2>1 DEF RepairIsFresh, Fresher
<1>8. (repair.pc = "send" => repair.event.name = "repair" /\ Fresher(repair.event))'
  BY <1>6 DEF EventsInv, EventsShape, TypeOK, NothingAhead
<1> QED
  BY <1>4, <1>5, <1>7, <1>8 DEF EventsInv, LatchCounts

\* What the invariant says of one handler.
LEMMA HandlerParts ==
  ASSUME EventsInv, NEW x \in Handlers
  PROVE  /\ h[x] \in States /\ h[x].mine <= commits /\ h[x].at <= commits
         /\ commits \in 0..MaxCommits /\ commits \in Nat /\ made \in 0..Total /\ made \in Nat
         /\ h[x].at \in 0..MaxCommits /\ h[x].mine \in 0..MaxCommits
         /\ started \in BOOLEAN /\ latch \in BOOLEAN /\ announced = IF latch THEN 1 ELSE 0
         /\ Idle \in States /\ Idle.mine <= commits /\ Idle.at <= commits /\ Idle.pc = "idle"
         /\ Complete \in BOOLEAN
BY EventsAssumption
   DEF EventsInv, EventsShape, TypeOK, NothingAhead, LatchCounts, States, Steps, Idle, Complete

\* A handler's state with another step, or more known, is a state.
LEMMA StateMoves ==
  ASSUME NEW s \in States, NEW pc \in Steps, NEW b \in BOOLEAN, NEW n \in 0..MaxCommits
  PROVE  /\ [s EXCEPT !.pc = pc] \in States
         /\ [s EXCEPT !.pc = pc, !.mine = n] \in States
         /\ [s EXCEPT !.pc = pc, !.at = n] \in States
         /\ [s EXCEPT !.pc = pc, !.before = b] \in States
         /\ [s EXCEPT !.pc = pc, !.clock = b] \in States
         /\ [s EXCEPT !.pc = pc, !.after = b, !.at = n] \in States
         /\ [s EXCEPT !.pc = pc, !.before = b, !.at = n] \in States
BY DEF States

LEMMA CommitsKeep ==
  ASSUME EventsInv, NEW x \in Handlers, PickCommit(x) \/ UndoCommit(x) \/ ResetCommit(x) \/ StartCommit(x)
  PROVE  EventsInv'
<1>1. Total \in Nat /\ MaxCommits \in Nat
  BY EventsAssumption
<1>2. commits < MaxCommits => commits + 1 \in 0..MaxCommits
  BY <1>1, HandlerParts
<1>3. CASE PickCommit(x)
  <2> DEFINE s == [h[x] EXCEPT !.pc = "pickSnap", !.mine = commits + 1]
  <2>1. s \in States /\ s.mine = commits + 1 /\ s.at = h[x].at /\ s.pc = "pickSnap"
    BY <1>2, <1>3, HandlerParts DEF PickCommit, States, Steps
  <2>2. h' = [h EXCEPT ![x] = s] /\ commits' = commits + 1 /\ commits < MaxCommits /\ made' \in 0..Total /\ started' \in BOOLEAN
    <3>1. h' = [h EXCEPT ![x] = s] /\ commits' = commits + 1 /\ commits < MaxCommits /\ started' = started
      BY <1>3 DEF PickCommit
    <3>2. made' = made + 1 /\ ~(made >= Total)
      BY <1>3 DEF PickCommit, Complete
    <3>3. made' \in 0..Total
      BY <1>1, <3>2, HandlerParts
    <3> QED
      BY <3>1, <3>3, HandlerParts
  <2> HIDE DEF s
  <2>3. s.mine <= commits' /\ s.at <= commits'
    BY <2>1, <2>2, <1>1, HandlerParts
  <2> QED
    BY <1>3, <2>1, <2>2, <2>3, CommitKeeps DEF PickCommit
<1>4. CASE UndoCommit(x) /\ h[x].at = commits /\ commits < MaxCommits
  <2> DEFINE s == [h[x] EXCEPT !.pc = "undoSnap", !.mine = commits + 1]
  <2>1. s \in States /\ s.mine = commits + 1 /\ s.at = h[x].at /\ s.pc = "undoSnap"
    BY <1>2, <1>4, HandlerParts DEF UndoCommit, States, Steps
  <2>2. made > 0
    BY <1>4 DEF UndoCommit, EventsInv, NothingAhead
  <2>3. h' = [h EXCEPT ![x] = s] /\ commits' = commits + 1 /\ made' \in 0..Total /\ started' \in BOOLEAN
    <3>1. h' = [h EXCEPT ![x] = s] /\ commits' = commits + 1 /\ started' = started /\ made' = made - 1
      BY <1>4 DEF UndoCommit
    <3>2. made' \in 0..Total
      BY <1>1, <2>2, <3>1, HandlerParts
    <3> QED
      BY <3>1, <3>2, HandlerParts
  <2> HIDE DEF s
  <2>4. s.mine <= commits' /\ s.at <= commits'
    BY <2>1, <2>3, <1>1, HandlerParts
  <2> QED
    BY <1>4, <2>1, <2>3, <2>4, CommitKeeps DEF UndoCommit
<1>5. CASE UndoCommit(x) /\ ~(h[x].at = commits /\ commits < MaxCommits)
  BY <1>5, HandlerParts, QuietKeeps DEF UndoCommit, storeVars, ghosts
<1>6. CASE ResetCommit(x)
  <2> DEFINE s == [Idle EXCEPT !.pc = "lifeClear"]
  <2>1. s \in States /\ s.mine = 0 /\ s.at = 0 /\ s.pc = "lifeClear"
    BY HandlerParts DEF Idle, States, Steps
  <2>2. h' = [h EXCEPT ![x] = s] /\ commits' = commits + 1 /\ commits < MaxCommits /\ made' \in 0..Total /\ started' \in BOOLEAN
    <3>1. h' = [h EXCEPT ![x] = s] /\ commits' = commits + 1 /\ commits < MaxCommits /\ made' = 0 /\ started' = FALSE
      BY <1>6 DEF ResetCommit
    <3>2. made' \in 0..Total
      BY <1>1, <3>1
    <3>3. started' \in BOOLEAN
      BY <3>1
    <3> QED
      BY <3>1, <3>2, <3>3
  <2> HIDE DEF s
  <2>3. s.mine <= commits' /\ s.at <= commits'
    BY <2>1, <2>2, HandlerParts
  <2> QED
    BY <1>6, <2>1, <2>2, <2>3, CommitKeeps DEF ResetCommit
<1>7. CASE StartCommit(x)
  <2> DEFINE s == [Idle EXCEPT !.pc = "lifeClear", !.clock = TRUE]
  <2>1. s \in States /\ s.mine = 0 /\ s.at = 0 /\ s.pc = "lifeClear"
    BY HandlerParts DEF Idle, States, Steps
  <2>2. h' = [h EXCEPT ![x] = s] /\ commits' = commits + 1 /\ commits < MaxCommits /\ made' \in 0..Total /\ started' \in BOOLEAN
    BY <1>1, <1>7, HandlerParts DEF StartCommit
  <2> HIDE DEF s
  <2>3. s.mine <= commits' /\ s.at <= commits'
    BY <2>1, <2>2, HandlerParts
  <2> QED
    BY <1>7, <2>1, <2>2, <2>3, CommitKeeps DEF StartCommit
<1> QED
  BY <1>3, <1>4, <1>5, <1>6, <1>7

LEMMA LooksKeep ==
  ASSUME EventsInv, NEW x \in Handlers,
         \/ PickRead(x) \/ PickRefused(x) \/ PickSnapshot(x) \/ PickLatch(x)
         \/ UndoRead(x) \/ UndoSnapshot(x) \/ UndoClear(x) \/ LifecycleClear(x) \/ LifecycleSnapshot(x)
  PROVE  EventsInv'
<1>1. CASE PickRead(x)
  <2>1. [Idle EXCEPT !.pc = "pick", !.before = Complete] \in States
    BY HandlerParts DEF Idle, States, Steps
  <2> QED
    BY <1>1, <2>1, HandlerParts, QuietKeeps DEF PickRead, Idle, storeVars, ghosts
<1>2. CASE PickRefused(x)
  BY <1>2, HandlerParts, QuietKeeps DEF PickRefused, ghosts
<1>3. CASE PickSnapshot(x)
  <2> DEFINE s == [h[x] EXCEPT !.pc = "pickEmit", !.after = Complete, !.at = commits]
  <2>1. s \in States /\ s.mine = h[x].mine /\ s.at = commits /\ s.pc = "pickEmit"
    BY HandlerParts DEF States, Steps
  <2>2. h' = [h EXCEPT ![x] = s]
    BY <1>3 DEF PickSnapshot
  <2> HIDE DEF s
  <2>3. s.mine <= commits /\ s.at <= commits
    BY <2>1, HandlerParts
  <2>4. latch' \in BOOLEAN /\ announced' = IF latch' THEN 1 ELSE 0
    BY <1>3, HandlerParts DEF PickSnapshot, ghosts
  <2> QED
    BY <1>3, <2>1, <2>2, <2>3, <2>4, QuietKeeps DEF PickSnapshot, ghosts
<1>4. CASE PickLatch(x)
  <2> DEFINE s == [h[x] EXCEPT !.pc = "complete"]
  <2>1. s \in States /\ s.mine = h[x].mine /\ s.at = h[x].at /\ s.pc = "complete"
    BY HandlerParts DEF States, Steps
  <2>2. CASE CompletionIsMine(x)
    <3>1. latch' = TRUE /\ announced' = 1 /\ h' = [h EXCEPT ![x] = s]
      BY <1>4, <2>2, HandlerParts DEF PickLatch, CompletionIsMine
    <3> HIDE DEF s
    <3> QED
      BY <1>4, <2>1, <3>1, HandlerParts, QuietKeeps DEF PickLatch
  <2>3. CASE ~CompletionIsMine(x)
    BY <1>4, <2>3, HandlerParts, QuietKeeps DEF PickLatch
  <2> QED
    BY <2>2, <2>3
<1>5. CASE UndoRead(x)
  <2> DEFINE s == [Idle EXCEPT !.pc = "undo", !.before = Complete, !.at = commits]
  <2>1. s \in States /\ s.mine = 0 /\ s.at = commits
    BY HandlerParts DEF Idle, States, Steps
  <2>2. h' = [h EXCEPT ![x] = s] /\ made > 0
    BY <1>5 DEF UndoRead
  <2> HIDE DEF s
  <2>3. s.mine <= commits /\ s.at <= commits
    BY <2>1, HandlerParts
  <2>4. latch' \in BOOLEAN /\ announced' = IF latch' THEN 1 ELSE 0
    BY <1>5, HandlerParts DEF UndoRead, ghosts
  <2> QED
    BY <1>5, <2>1, <2>2, <2>3, <2>4, QuietKeeps DEF UndoRead, ghosts
<1>6. CASE UndoSnapshot(x)
  <2> DEFINE s == [h[x] EXCEPT !.pc = "undoEmit", !.after = Complete, !.at = commits]
  <2>1. s \in States /\ s.mine = h[x].mine /\ s.at = commits /\ s.pc = "undoEmit"
    BY HandlerParts DEF States, Steps
  <2>2. h' = [h EXCEPT ![x] = s]
    BY <1>6 DEF UndoSnapshot
  <2> HIDE DEF s
  <2>3. s.mine <= commits /\ s.at <= commits
    BY <2>1, HandlerParts
  <2>4. latch' \in BOOLEAN /\ announced' = IF latch' THEN 1 ELSE 0
    BY <1>6, HandlerParts DEF UndoSnapshot, ghosts
  <2> QED
    BY <1>6, <2>1, <2>2, <2>3, <2>4, QuietKeeps DEF UndoSnapshot, ghosts
<1>7. CASE UndoClear(x)
  <2> DEFINE s == [h[x] EXCEPT !.pc = "undoState"]
  <2>1. s \in States /\ s.mine = h[x].mine /\ s.at = h[x].at /\ s.pc = "undoState"
    BY HandlerParts DEF States, Steps
  <2>2. h' = [h EXCEPT ![x] = s] /\ latch' = FALSE /\ announced' = 0
    BY <1>7 DEF UndoClear
  <2> HIDE DEF s
  <2> QED
    BY <1>7, <2>1, <2>2, HandlerParts, QuietKeeps DEF UndoClear
<1>8. CASE LifecycleClear(x)
  <2> DEFINE s == [h[x] EXCEPT !.pc = "lifeSnap"]
  <2>1. s \in States /\ s.mine = h[x].mine /\ s.at = h[x].at /\ s.pc = "lifeSnap"
    BY HandlerParts DEF States, Steps
  <2>2. h' = [h EXCEPT ![x] = s] /\ latch' = FALSE /\ announced' = 0
    BY <1>8 DEF LifecycleClear
  <2> HIDE DEF s
  <2> QED
    BY <1>8, <2>1, <2>2, HandlerParts, QuietKeeps DEF LifecycleClear
<1>9. CASE LifecycleSnapshot(x)
  <2> DEFINE s == [h[x] EXCEPT !.pc = "lifeEmit", !.at = commits]
  <2>1. s \in States /\ s.mine = h[x].mine /\ s.at = commits /\ s.pc = "lifeEmit"
    BY HandlerParts DEF States, Steps
  <2>2. h' = [h EXCEPT ![x] = s]
    BY <1>9 DEF LifecycleSnapshot
  <2> HIDE DEF s
  <2>3. s.mine <= commits /\ s.at <= commits
    BY <2>1, HandlerParts
  <2>4. latch' \in BOOLEAN /\ announced' = IF latch' THEN 1 ELSE 0
    BY <1>9, HandlerParts DEF LifecycleSnapshot, ghosts
  <2> QED
    BY <1>9, <2>1, <2>2, <2>3, <2>4, QuietKeeps DEF LifecycleSnapshot, ghosts
<1> QED
  BY <1>1, <1>2, <1>3, <1>4, <1>5, <1>6, <1>7, <1>8, <1>9

\* A handler emits and goes to a step that is not an undo's commit.
LEMMA HandlerEmitKeeps ==
  ASSUME EventsInv, NEW x \in Handlers, NEW name \in Names \ {"repair"}, NEW at \in {0, h[x].mine, h[x].at},
         Emit(name, at), NEW s \in States, s.mine \in {0, h[x].mine}, s.at \in {0, h[x].at}, s.pc # "undo",
         h' = [h EXCEPT ![x] = s],
         UNCHANGED <<storeVars, latch, repair, repairQueue, lastGen, shown, mended, announced>>
  PROVE  EventsInv'
<1>1. at \in 0..MaxCommits /\ at <= commits /\ s.mine <= commits /\ s.at <= commits
  BY HandlerParts, EventsAssumption
<1>2. h \in [Handlers -> States] /\ h'[x] = s /\ \A y \in Handlers \ {x} : h'[y] = h[y]
  BY DEF EventsInv, EventsShape
<1>3. /\ h' \in [Handlers -> States] /\ \A y \in Handlers : h'[y] # h[y] => h'[y].pc # "undo"
      /\ \A y \in Handlers : h'[y].mine <= commits /\ h'[y].at <= commits
  BY <1>1, <1>2 DEF EventsInv, NothingAhead
<1> QED
  BY <1>1, <1>3, EmitKeeps

LEMMA EmitsKeep ==
  ASSUME EventsInv, NEW x \in Handlers,
         \/ PickEmit(x) \/ CompleteEmit(x) \/ UndoEmit(x) \/ UndoStateEmit(x) \/ LifecycleEmit(x)
         \/ StartClockEmit(x)
  PROVE  EventsInv'
<1>1. \A pc \in Steps : /\ [h[x] EXCEPT !.pc = pc] \in States /\ [h[x] EXCEPT !.pc = pc].pc = pc
                        /\ [h[x] EXCEPT !.pc = pc].mine = h[x].mine /\ [h[x] EXCEPT !.pc = pc].at = h[x].at
  BY HandlerParts DEF States
<1>2. Idle \in States /\ Idle.mine = 0 /\ Idle.at = 0 /\ Idle.pc = "idle"
  BY HandlerParts DEF Idle
<1>3. "latch" \in Steps /\ "undoClear" \in Steps /\ "clock" \in Steps
      /\ {"pick", "completion", "undo", "reopening", "lifecycle", "clock"} \subseteq Names \ {"repair"}
  BY DEF Steps, Names
<1>4. CASE PickEmit(x)
  BY <1>1, <1>3, <1>4, HandlerEmitKeeps DEF PickEmit
<1>5. CASE CompleteEmit(x)
  BY <1>2, <1>3, <1>5, HandlerEmitKeeps DEF CompleteEmit
<1>6. CASE UndoEmit(x)
  <2> DEFINE s == IF h[x].before /\ ~h[x].after THEN [h[x] EXCEPT !.pc = "undoClear"] ELSE Idle
  <2>1. s \in States /\ s.mine \in {0, h[x].mine} /\ s.at \in {0, h[x].at} /\ s.pc # "undo"
    BY <1>1, <1>2, <1>3
  <2>2. h' = [h EXCEPT ![x] = s] /\ Emit("undo", h[x].mine)
    BY <1>6 DEF UndoEmit
  <2> HIDE DEF s
  <2> QED
    BY <1>3, <1>6, <2>1, <2>2, HandlerEmitKeeps DEF UndoEmit
<1>7. CASE UndoStateEmit(x)
  BY <1>2, <1>3, <1>7, HandlerEmitKeeps DEF UndoStateEmit
<1>8. CASE LifecycleEmit(x)
  <2> DEFINE s == IF h[x].clock THEN [h[x] EXCEPT !.pc = "clock"] ELSE Idle
  <2>1. s \in States /\ s.mine \in {0, h[x].mine} /\ s.at \in {0, h[x].at} /\ s.pc # "undo"
    BY <1>1, <1>2, <1>3
  <2>2. h' = [h EXCEPT ![x] = s] /\ Emit("lifecycle", h[x].at)
    BY <1>8 DEF LifecycleEmit
  <2> HIDE DEF s
  <2> QED
    BY <1>3, <1>8, <2>1, <2>2, HandlerEmitKeeps DEF LifecycleEmit
<1>9. CASE StartClockEmit(x)
  BY <1>2, <1>3, <1>9, HandlerEmitKeeps DEF StartClockEmit
<1> QED
  BY <1>4, <1>5, <1>6, <1>7, <1>8, <1>9

LEMMA ClockEmitKeeps ==
  ASSUME EventsInv, ClockEmit
  PROVE  EventsInv'
<1>1. 0 \in 0..MaxCommits /\ 0 <= commits /\ "clock" \in Names \ {"repair"}
  BY EventsAssumption DEF Names, EventsInv, EventsShape, TypeOK
<1> QED
  BY <1>1, EmitKeeps DEF ClockEmit, EventsInv, EventsShape, NothingAhead

LEMMA RepairKeeps ==
  ASSUME EventsInv, RepairLoop
  PROVE  EventsInv'
<1>1. CASE RepairTake
  <2>1. repair' \in [pc : {"idle", "build", "send"}, event : Events] /\ repair'.event = repair.event /\ repair'.pc = "build"
    BY <1>1 DEF RepairTake, EventsInv, EventsShape, TypeOK
  <2>2. signal' = FALSE /\ UNCHANGED <<storeVars, latch, h, generation, queue, repairQueue, lastGen, shown, ghosts>>
    BY <1>1 DEF RepairTake
  <2>3. EventsShape' /\ NothingAhead'
    BY <2>1, <2>2 DEF EventsInv, EventsShape, TypeOK, NothingAhead, storeVars, ghosts
  <2> QED
    BY <2>1, <2>2, <2>3 DEF EventsInv, LatchCounts, RepairIsFresh, ghosts
<1>2. CASE RepairBuild
  <2> DEFINE r == Event("repair", generation + 1, commits)
  <2>1. r \in Events /\ r.gen = generation + 1 /\ r.at = commits /\ r.name = "repair"
    BY DEF EventsInv, EventsShape, TypeOK, Event, Events
  <2>2. /\ generation' = generation + 1 /\ repair' = [pc |-> "send", event |-> r] /\ mended' = commits
        /\ UNCHANGED <<storeVars, latch, h, queue, signal, repairQueue, lastGen, shown, lost, emitted, announced>>
    BY <1>2 DEF RepairBuild
  <2> HIDE DEF r
  <2>3. EventsShape'
    BY <2>1, <2>2, EventsAssumption DEF EventsInv, EventsShape, TypeOK, storeVars
  <2>4. NothingAhead'
    <3>1. generation \in Nat /\ commits \in Nat /\ \A e \in emitted : e.gen \in Nat
      BY EventsAssumption DEF EventsInv, EventsShape, TypeOK, Events
    <3> QED
      BY <2>1, <2>2, <3>1 DEF EventsInv, NothingAhead, storeVars
  <2>5. Fresher(r)
    BY <2>1 DEF Fresher, EventsInv, NothingAhead
  <2> QED
    BY <2>1, <2>2, <2>3, <2>4, <2>5 DEF EventsInv, LatchCounts, RepairIsFresh, Fresher
<1>3. CASE RepairSend
  <2> DEFINE r == repair.event
  <2>1. r \in Events /\ r.name = "repair" /\ Fresher(r) /\ r.at <= commits /\ r.gen <= generation
    BY <1>3 DEF RepairSend, EventsInv, EventsShape, TypeOK, NothingAhead
  <2>2. /\ repairQueue' = <<r>> /\ emitted' = emitted \cup {r} /\ repair' = [repair EXCEPT !.pc = "idle"]
        /\ UNCHANGED <<storeVars, latch, h, wireVars, lastGen, shown, lost, mended, announced>>
    BY <1>3 DEF RepairSend
  <2>3. repair' \in [pc : {"idle", "build", "send"}, event : Events] /\ repair'.event = r /\ repair'.pc = "idle"
    BY <2>2 DEF EventsInv, EventsShape, TypeOK
  <2> HIDE DEF r
  <2>4. repairQueue' \in Seq(Events) /\ Len(repairQueue') = 1
    BY <2>1, <2>2
  <2>5. EventsShape' /\ NothingAhead'
    BY <2>1, <2>2, <2>3, <2>4 DEF EventsInv, EventsShape, TypeOK, NothingAhead, storeVars, wireVars
  <2>6. RepairIsFresh'
    BY <2>1, <2>2 DEF EventsInv, RepairIsFresh, Fresher
  <2> QED
    BY <2>2, <2>3, <2>5, <2>6 DEF EventsInv, LatchCounts
<1> QED
  BY <1>1, <1>2, <1>3 DEF RepairLoop

\* What the rooms have been shown is of versions that there are.
LEMMA DeliverTypes ==
  ASSUME EventsInv, NEW e \in Events, Deliver(e)
  PROVE  lastGen' \in Nat /\ shown' \subseteq 1..MaxCommits
<1>1. e.gen \in Nat /\ e.at \in 0..MaxCommits /\ MaxCommits \in Nat /\ lastGen \in Nat /\ shown \subseteq 1..MaxCommits
  BY EventsAssumption DEF Events, EventsInv, EventsShape, TypeOK
<1>2. 1..e.at \subseteq 1..MaxCommits /\ {e.at} \ {0} \subseteq 1..MaxCommits
  BY <1>1
<1> QED
  BY <1>1, <1>2 DEF Deliver

LEMMA DrainKeeps ==
  ASSUME EventsInv, Drain
  PROVE  EventsInv'
<1>1. CASE DrainQueue
  <2>1. queue \in Seq(Events) /\ queue # << >> /\ queue' = Tail(queue) /\ Len(queue) <= QueueSize
    BY <1>1 DEF DrainQueue, EventsInv, EventsShape, TypeOK
  <2>2. Head(queue) \in Events /\ queue' \in Seq(Events) /\ Len(queue') <= QueueSize
    BY <2>1, EventsAssumption
  <2> QED
    BY <1>1, <2>2, DeliverTypes
       DEF DrainQueue, EventsInv, EventsShape, TypeOK, NothingAhead, LatchCounts, RepairIsFresh, Fresher, storeVars, ghosts
<1>2. CASE DrainRepair
  <2>1. repairQueue \in Seq(Events) /\ repairQueue # << >> /\ repairQueue' = << >>
    BY <1>2 DEF DrainRepair, EventsInv, EventsShape, TypeOK
  <2>2. repairQueue[1] \in Events /\ repairQueue' \in Seq(Events) /\ Len(repairQueue') <= 1
    BY <2>1
  <2> QED
    BY <1>2, <2>2, DeliverTypes
       DEF DrainRepair, EventsInv, EventsShape, TypeOK, NothingAhead, LatchCounts, RepairIsFresh, Fresher, storeVars, wireVars, ghosts
<1> QED
  BY <1>1, <1>2 DEF Drain

-----------------------------------------------------------------------------
(* Draft events: together *)

LEMMA EventsInvInitially == Init => EventsInv
<1> SUFFICES ASSUME Init PROVE EventsInv
  OBVIOUS
<1>1. Idle \in States /\ Idle.mine = 0 /\ Idle.at = 0 /\ Idle.pc = "idle"
  BY EventsAssumption DEF Idle, States, Steps
<1>2. Event("repair", 0, 0) \in Events /\ Event("repair", 0, 0).gen = 0 /\ Event("repair", 0, 0).at = 0
  BY EventsAssumption DEF Event, Events
<1>3. EventsShape
  <2>1. << >> \in Seq(Events) /\ Len(<< >>) = 0
    OBVIOUS
  <2>2. h \in [Handlers -> States] /\ repair \in [pc : {"idle", "build", "send"}, event : Events]
    BY <1>1, <1>2 DEF Init
  <2>3. 0 \in 0..Total /\ 0 \in 0..MaxCommits /\ 0 <= QueueSize
    BY EventsAssumption
  <2>4. started \in BOOLEAN /\ latch \in BOOLEAN /\ signal \in BOOLEAN
    BY DEF Init
  <2>5. /\ made \in 0..Total /\ commits \in 0..MaxCommits
        /\ generation \in Nat /\ lastGen \in Nat /\ mended \in Nat /\ announced \in Nat
        /\ shown \subseteq 1..MaxCommits /\ lost \subseteq 1..MaxCommits
    BY <2>3 DEF Init
  <2>6. /\ queue \in Seq(Events) /\ Len(queue) <= QueueSize
        /\ repairQueue \in Seq(Events) /\ Len(repairQueue) <= 1
    BY <2>1, <2>3 DEF Init
  <2>7. TypeOK
    BY <2>2, <2>4, <2>5, <2>6 DEF TypeOK
  <2> QED
    BY <2>2, <2>7 DEF Init, EventsShape
<1>4. NothingAhead
  BY <1>1, <1>2 DEF Init, NothingAhead
<1> QED
  BY <1>3, <1>4 DEF Init, EventsInv, LatchCounts, RepairIsFresh

LEMMA EventsStepsKeep == EventsInv /\ [Next]_vars => EventsInv'
<1> SUFFICES ASSUME EventsInv, [Next]_vars PROVE EventsInv'
  OBVIOUS
<1>1. ASSUME NEW x \in Handlers, Request(x) \/ Handler(x)
      PROVE  EventsInv'
  BY <1>1, CommitsKeep, LooksKeep, EmitsKeep DEF Request, Handler
<1>2. CASE UNCHANGED vars
  BY <1>2 DEF vars, EventsInv, EventsShape, TypeOK, NothingAhead, LatchCounts, RepairIsFresh, Fresher
<1> QED
  BY <1>1, <1>2, ClockEmitKeeps, RepairKeeps, DrainKeeps DEF Next

\* One completion is announced until the latch is cleared, and no repair takes
\* back newer news, for every number of handlers, picks and queue slots.
THEOREM AnnouncementsStaySound == Spec => []AnnouncementsAreSound
<1>1. EventsInv => AnnouncementsAreSound
  BY DEF EventsInv, LatchCounts, AnnouncementsAreSound, SingleCompletion
<1> QED
  BY <1>1, EventsInvInitially, EventsStepsKeep, PTL DEF Spec

\* The types of the event path hold throughout.
THEOREM EventsTypeCorrect == Spec => []TypeOK
<1>1. EventsInv => TypeOK
  BY DEF EventsInv, EventsShape
<1> QED
  BY <1>1, EventsInvInitially, EventsStepsKeep, PTL DEF Spec

-----------------------------------------------------------------------------
(* Both *)

\* A run of both parts is a run of each, so what is proved of each holds in it:
\* the types, one receipt before any message, one completion, fresh repairs.
THEOREM DeliveryStaysSound == MCSpec => []DeliveryIsSound
<1>1. MCInit => Init /\ NoticeInit
  BY DEF MCInit
<1>2. [MCNext]_<<vars, noticeVars, part>> => [Next]_vars /\ [NoticeNext]_noticeVars
  BY DEF MCNext
<1>3. MCSpec => Spec /\ NoticeSpec
  BY <1>1, <1>2, PTL DEF MCSpec, Spec, NoticeSpec
<1>4. TypeOK /\ NoticeTypeOK /\ AnnouncementsAreSound => DeliveryIsSound
  BY DEF DeliveryIsSound
<1> QED
  BY <1>3, <1>4, EventsTypeCorrect, NoticesTypeCorrect, AnnouncementsStaySound, PTL
=============================================================================

----------------------------- MODULE MCWaiverRun -----------------------------
(***************************************************************************)
(* Small waiver seasons for TLC.                                           *)
(***************************************************************************)
EXTENDS WaiverRun, TLC

VARIABLE part

CONSTANTS a, b, p1, p2, p3, p4

MCTeam == {a, b}
MCPlayer == {p1, p2, p3, p4}
MCPosOf == [p \in MCPlayer |-> "RB"]
MCLimits == [pos \in {"RB"} |-> 0]
MCDrafted == {p1, p2}
MCStart == a :> {p1} @@ b :> {p2}
MCKick == [p \in MCPlayer |-> IF p = p1 THEN 1 ELSE NoGame]

Ticks == TickBaselines \/ TickSeesDue \/ TickRuns

Settle == FileCommit \/ FileRefused

\* Claims for p3, with the whole budget, and for p4 filed, moved and cancelled
\* before the first run; a second spot costs p1 or p2
Contest ==
  \/ /\ now = 0
     /\ \/ \E t \in Team, drop \in {{}, {p1}, {p2}}, bid \in Bids : FileBegin(t, p4, drop, bid)
        \/ FileBegin(a, p3, {}, IF mode = "faab" THEN Budget ELSE 0)
        \/ Settle
        \/ \E c \in claims : CancelClaim(c) \/ MoveClaim(c)
  \/ Ticks \/ TimePasses \/ WeekCloses

\* A claim for a player who may be missing, while the pool, the process, the
\* writes and the commissioner, whose page is loaded once, interfere with the runs
Trouble ==
  /\ \/ FileBegin(b, p4, {p2}, 0) \/ Settle
     \/ Runs \/ TimePasses \/ PoolOutage \/ Restart
     \/ \E omitted \in SUBSET Fickle : PoolRebuilt(omitted)
  /\ count' <= 1
  /\ page' # page => page = << >>

\* A claim that drops p1, while the players involved are signed, released and
\* kick off and the week closes
Moves ==
  /\ \/ FileBegin(a, p4, {p1}, 0) \/ Settle \/ Ticks
     \/ TimePasses \/ GamesFinal \/ WeekCloses
     \/ \E t \in Team, p \in {p1, p4} : Sign(t, p) \/ Release(t, p)
  /\ count' <= 1

Plain == mode = "perf-priority" /\ base[1] = a

MCInit == Init /\ part \in {"contest", "trouble", "moves"} /\ (part # "contest" => Plain)

MCSpec ==
  /\ MCInit
  /\ [][/\ part' = part
        /\ \/ part = "contest" /\ Contest
           \/ part = "trouble" /\ Trouble
           \/ part = "moves" /\ Moves]_<<vars, part>>

\* The fairness of FairSpec, in the part that troubles the runs
MCFairSpec ==
  /\ MCSpec
  /\ WF_vars(part = "trouble" /\ TickBaselines)
  /\ SF_vars(part = "trouble" /\ TickSeesDue)
  /\ SF_vars(part = "trouble" /\ TickRuns)
  /\ WF_vars(part = "trouble" /\ pool = {} /\ PoolRebuilt({}))

\* RunsCatchUp in that part
MCRunsCatchUp == (part = "trouble" /\ RunIsDue) ~> ~RunIsDue
=============================================================================

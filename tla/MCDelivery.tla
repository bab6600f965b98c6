------------------------------ MODULE MCDelivery ------------------------------
(***************************************************************************)
(* What leaves the league, in one run: the draft's events to the rooms and *)
(* the notices to a member. A behaviour stays in the part it starts in, so *)
(* the run explores the sum of the parts and not their product. In "drops" *)
(* the event queue fills up under two changes and a clock event; in        *)
(* "crossings" handlers cross into completion three times while the drain   *)
(* keeps up with them.                                                     *)
(***************************************************************************)
EXTENDS MCDraftEvents, Notices

CONSTANTS recap, reminder, scoring

VARIABLE part

MCOpens  == recap :> 1 @@ reminder :> 2 @@ scoring :> 1
MCCloses == recap :> 2 @@ reminder :> 2

MCInit == Init /\ NoticeInit /\ part \in {"drops", "crossings", "notices"}

MCNext ==
  /\ part' = part
  /\ \/ part = "drops" /\ Next /\ commits' <= 2 /\ UNCHANGED noticeVars
     \/ part = "crossings" /\ Next /\ lost' = {} /\ ~signal' /\ UNCHANGED noticeVars
     \/ part = "notices" /\ NoticeNext /\ UNCHANGED vars

MCSpec ==
  /\ MCInit /\ [][MCNext]_<<vars, noticeVars, part>>
  /\ WF_vars(RepairLoop) /\ WF_vars(DrainQueue) /\ WF_vars(DrainRepair)
  /\ WF_noticeVars(part = "notices" /\ Begin("tick"))
  /\ WF_noticeVars(part = "notices" /\ Proceeds("tick"))
  /\ WF_noticeVars(part = "notices" /\ Proceeds("close"))
  /\ WF_noticeVars(part = "notices" /\ DayPasses)

\* The type invariants of the events and of the notices, and what the rooms
\* hear of the draft.
DeliveryIsSound == TypeOK /\ NoticeTypeOK /\ AnnouncementsAreSound
=============================================================================

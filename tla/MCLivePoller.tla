----------------------------- MODULE MCLivePoller -----------------------------
(***************************************************************************)
(* Three intervals, a game of week 1 that somebody starts and a game of    *)
(* week 2, with nobody of interest, that only begins: it competes for the  *)
(* slot and the budget and its poll prunes week 1. A mishap comes before   *)
(* the last interval.                                                      *)
(***************************************************************************)
EXTENDS LivePoller, TLC

CONSTANTS g1, g2

MCGameWeek == g1 :> 1 @@ g2 :> 2
MCKick == g1 :> 0 @@ g2 :> 2

MCPollNext ==
  /\ PollNext
  /\ mishaps' # mishaps => clock < (IF tick' = tick THEN 2 ELSE 1)
  /\ stage'[g2] = 0 /\ lastTrigger'[g2] = Missing
  /\ flagged' # flagged => clock > 1 /\ tick.pc = "off"
  /\ stage' # stage => tick.pc \notin {"due", "boxes"} \/ Busy # {}
  /\ lastTrigger' # lastTrigger => clock > 0
  /\ lastTrigger' # lastTrigger => tick.pc # "due"
  /\ posted' # posted => clock > 1 /\ \E f \in Asker : fetch[f].pc = "save"
  /\ stage'[g1] = 4 => pickemFinals[g1] # Missing

MCPollSpec == PollInit /\ [][MCPollNext]_pollVars
=============================================================================

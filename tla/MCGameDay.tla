------------------------------ MODULE MCGameDay ------------------------------
(***************************************************************************)
(* The live score poller and the two contests in one run. A behaviour      *)
(* stays in the part it starts in and the others keep one initial state,   *)
(* so the run explores their sum: what the poller hands to Pick'em is      *)
(* LiveFinal.                                                              *)
(***************************************************************************)
EXTENDS MCLivePoller, MCPickem, MCBlitz

VARIABLE gamePart

PickemPart == <<pickemVars, pickemPart>>

GameDayInit ==
  /\ PollInit /\ MCPickemInit /\ BlitzInit
  /\ gamePart \in {"poller", "pickem", "blitz"}
  /\ gamePart # "pickem" => pickemPart = "pricing"

GameDayNext ==
  /\ gamePart' = gamePart
  /\ \/ gamePart = "poller" /\ MCPollNext /\ UNCHANGED <<PickemPart, blitzVars>>
     \/ gamePart = "pickem" /\ MCPickemNext /\ UNCHANGED <<pollVars, blitzVars>>
     \/ gamePart = "blitz" /\ MCBlitzNext /\ UNCHANGED <<pollVars, PickemPart>>

GameDaySpec == GameDayInit /\ [][GameDayNext]_<<pollVars, PickemPart, blitzVars, gamePart>>

-----------------------------------------------------------------------------

\* Pick'em's and the Blitz's invariants.
ContestsAreSound == PickemIsSound /\ BlitzIsSound

\* Pick'em's and the Blitz's action properties.
PicksStay == PicksStand /\ LockedStay
=============================================================================

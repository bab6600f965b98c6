------------------------------- MODULE MCPickem -------------------------------
(***************************************************************************)
(* Two games and two owners, in two parts: "pricing" moves lines and       *)
(* kickoffs before the locks, "playing" scores; the poller knows h1 only.  *)
(***************************************************************************)
EXTENDS Pickem, TLC

CONSTANTS h1, h2, early, late

VARIABLE pickemPart

MCEve == [t \in Time |-> t - 1]
MCKickoffs == h1 :> 3 @@ h2 :> 4
MCFirstLine == h1 :> 0 @@ h2 :> Unset
MCFirstPicks == early :> (h1 :> Unset @@ h2 :> "home") @@ late :> (h1 :> Unset @@ h2 :> Unset)

Pricing ==
  /\ PickemNext
  /\ live' = live /\ restarts' = restarts
  /\ \A g \in Contest : feed'[g].margin = feed[g].margin
  /\ call'[early] = NoCall /\ now' < LastTurn
  /\ call'[late] # NoCall => call'[late].side = "home"
  /\ feed'[h2].line # 1
  /\ call'[late] # NoCall => call'[late].game = h1

Playing ==
  /\ PickemNext
  /\ \A g \in Contest : feed'[g].line = feed[g].line /\ feed'[g].kick = feed[g].kick
  /\ seen' # seen => feed' # feed
  /\ live'[h2] = Unset /\ feed'[h2].margin # 1
  /\ Cardinality({o \in Owner : call'[o] # NoCall}) <= 1

MCPickemInit == PickemInit /\ pickemPart \in {"pricing", "playing"}

MCPickemNext ==
  /\ pickemPart' = pickemPart
  /\ \/ pickemPart = "pricing" /\ Pricing
     \/ pickemPart = "playing" /\ Playing

MCPickemSpec == MCPickemInit /\ [][MCPickemNext]_<<pickemVars, pickemPart>>
=============================================================================

------------------------------- MODULE MCBlitz -------------------------------
(***************************************************************************)
(* Four players of three games; the second tab leaves c1 and c4 alone.     *)
(***************************************************************************)
EXTENDS Blitz, TLC

CONSTANTS c1, c2, c3, c4, w1, w2

MCClub == c1 :> 1 @@ c2 :> 1 @@ c3 :> 2 @@ c4 :> 3
MCKickedAt == <<2, 2, 3>>

MCBlitzNext == BlitzNext /\ (tab'[w2] # NoAsk => tab'[w2].who \notin {c1, c4})

MCBlitzSpec == BlitzInit /\ [][MCBlitzNext]_blitzVars
=============================================================================

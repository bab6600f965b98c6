---------------------------- MODULE MCPublication ----------------------------
(***************************************************************************)
(* Two publications; a second upset comes only while the first is undone.  *)
(***************************************************************************)
EXTENDS Publication, TLC

CONSTANTS k1, k2, f0, f1, f2

MCBundle == k1 :> {f1} @@ k2 :> {f2}

MCPubNext ==
  /\ PubNext
  /\ upsets' = 2 => upsets = 2 \/ \E p \in Publisher : run[p].pc = "undo"
=============================================================================

---------------------------- MODULE MCDraftRoom ----------------------------
(***************************************************************************)
(* Small instances of the draft room for TLC.                              *)
(***************************************************************************)
EXTENDS DraftRoom, TLC

CONSTANTS t1, t2, qb1, qb2, k1, k2, qb

MCTeams == {t1, t2}
MCOrder == <<t1, t2>>
MCPlayers == {qb1, qb2, k1}
MCPlayers4 == {qb1, qb2, k1, k2}
MCSlots == {qb}
MCFits == {<<qb1, qb>>, <<qb2, qb>>}

\* Players of one position are interchangeable, and so are request slots.
MCSymmetry == Permutations({qb1, qb2}) \cup Permutations({k1, k2}) \cup Permutations(Requests)

\* In the races nobody toggles AUTO, an order that is drawn is the reverse one,
\* and at most two steps are between their snapshot and their commit once the
\* commissioner or a crash has interfered.
InFlight == {r \in Requests : req[r] # NoRequest} \cup {x \in {tick, admin} : x.op # "idle"}

MCRaces ==
  /\ Init
  /\ [][/\ Next /\ autopick' = {} /\ order' # MCOrder
        /\ acts' = MaxActs => Cardinality(InFlight') <= 2]_vars

\* FairSpec with one order to draw
MCFairSpec == Init /\ [][Next /\ order' # MCOrder]_vars /\ Fairness
=============================================================================

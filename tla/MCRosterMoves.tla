---------------------------- MODULE MCRosterMoves ----------------------------
(***************************************************************************)
(* Small leagues for TLC.                                                  *)
(***************************************************************************)
EXTENDS RosterMoves, TLC

CONSTANTS a, b, d, p1, p2, p3, p4

MCTwo == {a, b}
MCThree == {a, b, d}
MCTrio == {p1, p2, p3}
MCFour == {p1, p2, p3, p4}
MCPosOf == [p \in Player |-> "RB"]
MCReserve == [pos \in {"RB"} |-> 1]
MCUnlimited == [pos \in {"RB"} |-> 0]

\* Teams and callers are interchangeable, and so are players of the one
\* position that neither play nor get hurt in the run.
MCSymmetry ==
  Permutations(Team) \cup Permutations(Caller) \cup Permutations(Offer)
    \cup Permutations(Player \ (GameDay \cup Injurable))

\* A league that trades; nobody on IR has a game, so there is nobody to cut
MCTradingSpec == Init /\ [][Requests \/ Trading \/ World]_vars
=============================================================================

----------------------------- MODULE RosterBook -----------------------------
(***************************************************************************)
(* What every roster operation promises together: a player has at most one *)
(* owner, is signed only when free, is released only by the team that owns *)
(* the player, and changes hands between teams only in a two-sided trade.  *)
(***************************************************************************)
CONSTANTS Team, Player, Nobody

VARIABLE owner

Init == owner \in [Player -> Team \cup {Nobody}]

Owned(team) == {p \in Player : owner[p] = team}
Free == Owned(Nobody)

\* One transaction of one team, possibly empty on either side
Transact ==
  \E team \in Team : \E adds \in SUBSET Free, drops \in SUBSET Owned(team) :
    owner' = [p \in Player |-> IF p \in adds THEN team
                               ELSE IF p \in drops THEN Nobody ELSE owner[p]]

Trade ==
  \E from, to \in Team : \E give \in SUBSET Owned(from), get \in SUBSET Owned(to) :
    /\ from # to /\ give # {} /\ get # {}
    /\ owner' = [p \in Player |-> IF p \in give THEN to
                                  ELSE IF p \in get THEN from ELSE owner[p]]

Next == Transact \/ Trade

Spec == Init /\ [][Next]_owner

=============================================================================

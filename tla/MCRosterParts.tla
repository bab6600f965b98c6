---------------------------- MODULE MCRosterParts ----------------------------
(***************************************************************************)
(* Two parts of the roster model in one run; a behaviour stays in the part *)
(* it starts in, so the run explores their sum and not their product. In   *)
(* "zones" at most one player is on waivers.                               *)
(***************************************************************************)
EXTENDS MCRosterMoves

VARIABLE part

\* In the part "zones" one request is under way at a time and every operation
\* happens; in the part "races" two requests race, none is about a zone and
\* nobody plays or gets hurt.
Idle(c) == pending[c] = NoCall

ZonesNext ==
  \/ \E c \in Caller : /\ \A e \in Caller \ {c} : Idle(e)
                      /\ Request(c, Ops \ {"correction"})
  \/ Healing \/ World

RacesNext ==
  \/ \E c \in Caller : Request(c, {"add", "drop", "correction"})
  \/ \E p \in cooling : WindowClears(p)

MCSpec ==
  /\ Init /\ part \in {"zones", "races"}
  /\ [][/\ part' = part
        /\ \/ part = "zones" /\ ZonesNext /\ Cardinality(cooling') <= 1
           \/ part = "races" /\ RacesNext]_<<vars, part>>
=============================================================================

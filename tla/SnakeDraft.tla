----------------------------- MODULE SnakeDraft -----------------------------
(***************************************************************************)
(* What the draft room promises, without clock, requests or crashes: a     *)
(* tape of picks that only grows by the seat on the clock taking a free    *)
(* player, only shrinks by its last pick, and is emptied by a reset; the   *)
(* order is fixed while the draft is open.                                 *)
(***************************************************************************)
EXTENDS DraftRules

CONSTANT Stamps  (* the instants a pick can be made at, DraftPick.MadeAt *)

VARIABLES
  open,   (* DraftStarted                               *)
  order,  (* DraftOrder, the empty sequence when undrawn *)
  tape    (* Picks                                      *)

draftVars == <<open, order, tape>>

Pick == [team : Teams, player : Players, madeAt : Stamps]

Init == open = FALSE /\ order = << >> /\ tape = << >>

Draw == /\ ~open
        /\ order' \in Orders
        /\ UNCHANGED <<open, tape>>

Open == /\ ~open
        /\ open' = TRUE
        /\ UNCHANGED <<order, tape>>

Select ==
  /\ open
  /\ ~DraftComplete(tape)
  /\ \E pick \in Pick :
       /\ pick.team = TeamOnClock(order, Len(tape) + 1)
       /\ pick.player \notin Drafted(tape)
       /\ tape' = Append(tape, pick)
  /\ UNCHANGED <<open, order>>

Retract == /\ tape # << >>
           /\ tape' = SubSeq(tape, 1, Len(tape) - 1)
           /\ UNCHANGED <<open, order>>

Restart == /\ open' = FALSE
           /\ tape' = << >>
           /\ UNCHANGED order

Next == Draw \/ Open \/ Select \/ Retract \/ Restart

Spec == Init /\ [][Next]_draftVars

=============================================================================

-------------------------------- MODULE MCSeats --------------------------------
(***************************************************************************)
(* Two seats and three people, in three parts: "people" without boards and *)
(* trims, where the second seat has one tenure and no flags, p3 asks only  *)
(* for a seat and the commissioner edits the invitations before anybody    *)
(* asks; "boards" without flags and plans, where only p1 may come with a   *)
(* personal board, as people and players are alike; "plans" with the trim, *)
(* the order, the schedule and the reset, where p3 is invited at most.     *)
(***************************************************************************)
EXTENDS Seats, TLC

CONSTANTS p1, p2, p3

VARIABLE seatPart

MCSeatsInit ==
  /\ SeatsInit /\ seatPart \in {"people", "boards", "plans"}
  /\ \A p \in Person \ {p1} : board[p] = <<>>
  /\ board[p1] # <<>> => seatPart = "boards" /\ board[p1] = <<CHOOSE x \in Ranked : TRUE>>

Operations ==
  CASE seatPart = "people" -> {"claim", "invite", "ready", "auto"}
    [] seatPart = "boards" -> {"claim", "invite", "board"}
    [] OTHER               -> {"claim", "invite"}

PeopleBounds ==
  /\ invited' # invited => coInvite' # coInvite \/ requests = 0
  /\ 2 \notin ready' \cup auto' /\ revision'[2] < 2 /\ releaseForm'[2] = NoForm
  /\ request'[p3] # NoRequest => request'[p3].op = "claim"

MCSeatsNext ==
  /\ seatPart' = seatPart
  /\ SeatsNext
  /\ \A p \in Person : request'[p] # NoRequest => request'[p].op \in Operations
  /\ seatPart = "people" => PeopleBounds
  /\ seatPart # "plans"  => \A t \in Seat : revision'[t] < MaxTenures
  /\ seatPart # "plans"  => topology' = topology /\ trimForm' = trimForm
  /\ seatPart # "people" => ready' = ready /\ (invited' # invited => coInvite' # coInvite)
  /\ seatPart # "people" => auto' = auto
  /\ seatPart = "plans"  => requests' < MaxRequests /\ member'[p3] = NoMember
  /\ seatPart = "boards" => Cardinality({p \in Person : request'[p] # NoRequest}) <= 1
=============================================================================

---------------------------- MODULE MCGameEngine ----------------------------
(***************************************************************************)
(* GameEngine on small boards, with a bound on the requests of one game.   *)
(* Rejected requests are free, so MaxRequests bounds the moves, jumps and  *)
(* premoves that take effect; time is not bounded.                         *)
(***************************************************************************)
EXTENDS GameEngine, TLC

CONSTANT MaxRequests     \* requests that take effect in one game

VARIABLE requests

MCvars == <<vars, requests>>

MCInit == Init /\ requests = 0

MCTick == Tick /\ UNCHANGED requests

MCRequest ==
  /\ requests < MaxRequests
  /\ Request
  /\ requests' = requests + 1

MCSpec == MCInit /\ [][MCTick \/ MCRequest]_MCvars /\ WF_MCvars(MCTick)

-----------------------------------------------------------------------------
(* Positions.                                                              *)

Place(f) == [c \in Cells |-> IF c \in DOMAIN f THEN f[c] ELSE NoPiece]

\* Three pieces, two of them White.
MCColor == 1 :> "White" @@ 2 :> "White" @@ 3 :> "Black"

\* Two White Rooks whose lines cross, a Black King next to one of them.
CrossingRooks ==
  [board |-> Place(<<0, 1>> :> 1 @@ <<2, 0>> :> 2 @@ <<1, 0>> :> 3),
   kind  |-> 1 :> "Rook" @@ 2 :> "Rook" @@ 3 :> "King"]

\* A Pawn one step from promotion and a Knight, against a Queen.
PawnAndKnight ==
  [board |-> Place(<<1, 1>> :> 1 @@ <<2, 0>> :> 2 @@ <<0, 2>> :> 3),
   kind  |-> 1 :> "Pawn" @@ 2 :> "Knight" @@ 3 :> "Queen"]

MCSetups == {CrossingRooks, PawnAndKnight}
RookSetups == {CrossingRooks}
=============================================================================

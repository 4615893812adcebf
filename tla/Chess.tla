------------------------------- MODULE Chess -------------------------------
(***************************************************************************)
(* The data the whole game is built from: the board, the pieces and the    *)
(* per-piece state machine (shared/model/Board, Piece, PieceStateMachine). *)
(*                                                                         *)
(* A piece is its id, a positive number: ids break ties between motions    *)
(* that begin together. The grid of shared_ptr<Piece> is a function from   *)
(* cells to ids, and the EmptyPiece that fills a vacant cell (id 0, color  *)
(* None, kind None) is NoPiece.                                            *)
(***************************************************************************)
EXTENDS Integers, FiniteSets

CONSTANTS
  Height,     \* rows of the board
  Width,      \* columns of the board
  Pieces,     \* the ids of the pieces of one game
  Color       \* the color of each piece

NoPiece == 0
Colors == {"White", "Black"}
Kinds == {"King", "Queen", "Rook", "Bishop", "Knight", "Pawn"}
States == {"Idle", "Moving", "Jump", "ShortRest", "LongRest", "Captured"}

ASSUME ChessAssumption ==
  /\ Height \in Nat \ {0}
  /\ Width \in Nat \ {0}
  /\ Pieces \subseteq Nat \ {0}
  /\ Color \in [Pieces -> Colors]

Cells == (0 .. (Height - 1)) \X (0 .. (Width - 1))
Boards == [Cells -> Pieces \cup {NoPiece}]

Opponent(c) == IF c = "White" THEN "Black" ELSE "White"

-----------------------------------------------------------------------------
(* Board queries and updates, as functions of a board b.                   *)

IsCellEmpty(b, cell) == b[cell] = NoPiece

OnBoard(b, p) == \E cell \in Cells : b[cell] = p

ColorAt(b, cell) == IF b[cell] = NoPiece THEN "None" ELSE Color[b[cell]]

KindAt(b, kind, cell) == IF b[cell] = NoPiece THEN "None" ELSE kind[b[cell]]

RemovePieces(b, cells) == [cell \in Cells |-> IF cell \in cells THEN NoPiece ELSE b[cell]]

\* A move that leaves its piece behind as well.
MovePieceCopies(b, from, to) == [b EXCEPT ![to] = b[from]]

MovePiece(b, from, to) == [b EXCEPT ![to] = b[from], ![from] = NoPiece]

-----------------------------------------------------------------------------
(* The per-piece state machine: an illegal request leaves the state alone. *)

\* No way out of a short rest.
TransitionsWithoutShortRest ==
  { <<"Idle", "Moving">>, <<"Idle", "Jump">>, <<"Moving", "LongRest">>,
    <<"Jump", "ShortRest">>, <<"LongRest", "Idle">> }

LegalTransitions ==
  { <<"Idle", "Moving">>, <<"Idle", "Jump">>, <<"Moving", "LongRest">>,
    <<"Jump", "ShortRest">>, <<"ShortRest", "Idle">>, <<"LongRest", "Idle">> }

IsLegalTransition(s, t) == t = "Captured" \/ <<s, t>> \in LegalTransitions

TransitionTo(s, t) == IF IsLegalTransition(s, t) THEN t ELSE s

IsBusyState(s) == s \in {"Moving", "Jump"}

IsRestingState(s) == s \in {"ShortRest", "LongRest"}
=============================================================================

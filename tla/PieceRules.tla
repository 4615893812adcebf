----------------------------- MODULE PieceRules -----------------------------
(***************************************************************************)
(* Which cells a piece may be sent to (server/rules). The rules only look  *)
(* at the board: whether the piece is free to start is the engine's        *)
(* business. With relaxed blocking (simultaneous mode) a slide may be      *)
(* aimed through or at an occupied cell, because the blocker may be gone   *)
(* by the time the slide gets there; a Pawn and a Knight know no such      *)
(* relaxation.                                                             *)
(***************************************************************************)
EXTENDS Chess

Abs(n) == IF n < 0 THEN -n ELSE n
Sign(n) == IF n < 0 THEN -1 ELSE IF n > 0 THEN 1 ELSE 0
Max2(a, b) == IF a < b THEN b ELSE a

RowDelta(from, to) == to[1] - from[1]
ColDelta(from, to) == to[2] - from[2]

\* Squares travelled by a straight or diagonal move (Chebyshev distance).
Squares(from, to) == Max2(Abs(RowDelta(from, to)), Abs(ColDelta(from, to)))

-----------------------------------------------------------------------------
OnRankOrFile(from, to) == RowDelta(from, to) = 0 \/ ColDelta(from, to) = 0

\* A slope that is not compared.
OffRankAndFile(from, to) == RowDelta(from, to) # 0 /\ ColDelta(from, to) # 0

OnDiagonal(from, to) == Abs(RowDelta(from, to)) = Abs(ColDelta(from, to))

\* The cells strictly between from and to on a straight or diagonal line.
Between(from, to) ==
  { <<from[1] + i * Sign(RowDelta(from, to)), from[2] + i * Sign(ColDelta(from, to))>> :
      i \in 1 .. (Squares(from, to) - 1) }

Slides(b, from, to, relaxed) ==
  \/ relaxed
  \/ /\ \A cell \in Between(from, to) : IsCellEmpty(b, cell)
     /\ ColorAt(b, to) # ColorAt(b, from)

RookMoves(b, from, to, relaxed) ==
  OnRankOrFile(from, to) /\ Slides(b, from, to, relaxed)

BishopMoves(b, from, to, relaxed) ==
  OnDiagonal(from, to) /\ Slides(b, from, to, relaxed)

QueenMoves(b, from, to, relaxed) ==
  \/ RookMoves(b, from, to, relaxed)
  \/ BishopMoves(b, from, to, relaxed)

KnightMoves(from, to) ==
  {Abs(RowDelta(from, to)), Abs(ColDelta(from, to))} = {1, 2}

KingMoves(b, from, to, relaxed) ==
  Squares(from, to) = 1 /\ (relaxed \/ ColorAt(b, to) # ColorAt(b, from))

PawnDirection(c) == IF c = "White" THEN -1 ELSE 1
PawnStartRow(c) == IF c = "White" THEN Height - 2 ELSE 1

PawnMoves(b, from, to) ==
  LET c    == ColorAt(b, from)
      rows == RowDelta(from, to) * PawnDirection(c)
      one  == <<from[1] + PawnDirection(c), from[2]>>
  IN  \/ /\ ColDelta(from, to) = 0
         /\ IsCellEmpty(b, to)
         /\ \/ rows = 1
            \/ rows = 2 /\ from[1] = PawnStartRow(c) /\ IsCellEmpty(b, one)
      \/ /\ Abs(ColDelta(from, to)) = 1
         /\ rows = 1
         /\ ~IsCellEmpty(b, to)
         /\ ColorAt(b, to) # c

-----------------------------------------------------------------------------
\* PieceRules::legalDestinations, as the test "to is among them".
IsLegalDestination(b, kind, from, to, relaxed) ==
  /\ from # to
  /\ LET k == KindAt(b, kind, from)
     IN  \/ k = "Rook"   /\ RookMoves(b, from, to, relaxed)
         \/ k = "Bishop" /\ BishopMoves(b, from, to, relaxed)
         \/ k = "Queen"  /\ QueenMoves(b, from, to, relaxed)
         \/ k = "Knight" /\ KnightMoves(from, to)
         \/ k = "King"   /\ KingMoves(b, from, to, relaxed)
         \/ k = "Pawn"   /\ PawnMoves(b, from, to)

\* RuleEngine::validateMove: both cells on the board, a piece on the source,
\* no friend on the destination (Knights and relaxed blocking apart), and a
\* destination the piece's own rule offers.
ValidateMove(b, kind, from, to, relaxed) ==
  /\ from \in Cells /\ to \in Cells
  /\ ~IsCellEmpty(b, from)
  /\ \/ ColorAt(b, to) # ColorAt(b, from)
     \/ KindAt(b, kind, from) = "Knight"
     \/ relaxed
  /\ IsLegalDestination(b, kind, from, to, relaxed)

\* A jump of whatever is on the cell, nothing included.
ValidateJumpAnywhere(b, pos) == pos \in Cells

ValidateJump(b, pos) == pos \in Cells /\ ~IsCellEmpty(b, pos)
=============================================================================

-------------------------- MODULE MotionPathProofs --------------------------
(***************************************************************************)
(* The geometry of a path, for every board: its checkpoints stay on the    *)
(* board and the k-th is k squares from the source, so that a motion cut   *)
(* short at a checkpoint is again a well-timed motion.                     *)
(***************************************************************************)
EXTENDS MotionPath, TLAPS

\* Division of a smaller number by a larger one.
LEMMA QuotLess ==
  ASSUME NEW a \in Nat, NEW n \in Nat \ {0}, a < n
  PROVE  a \div n = 0
OBVIOUS

\* Division of a number by itself.
LEMMA QuotSame ==
  ASSUME NEW n \in Nat \ {0}
  PROVE  n \div n = 1
OBVIOUS

\* pathCheckpoints divides a delta by the number of steps: with C++ division
\* the result is a unit step, or 0 on a Knight's shorter side.
LEMMA QuotUnit ==
  ASSUME NEW a \in Int, NEW n \in Nat \ {0}, -n <= a, a <= n
  PROVE  Quot(a, n) = IF a = n THEN 1 ELSE IF a = -n THEN -1 ELSE 0
<1>1. CASE a >= 0 BY <1>1, QuotLess, QuotSame DEF Quot
<1>2. CASE a < 0 
  <2>1. -a \in Nat /\ -a <= n BY <1>2
  <2>2. (-a) \div n = IF -a = n THEN 1 ELSE 0
     <3>1. CASE -a = n BY <3>1, QuotSame
     <3>2. CASE -a < n BY <3>2, <2>1, QuotLess
     <3> QED BY <3>1, <3>2, <2>1
  <2> QED BY <1>2, <2>1, <2>2 DEF Quot
<1> QED BY <1>1, <1>2

\* A cell is its two coordinates, both within the board.
LEMMA CellCoords ==
  ASSUME NEW c \in Cells
  PROVE  /\ c = <<c[1], c[2]>>
         /\ c[1] \in Int /\ 0 <= c[1] /\ c[1] <= Height - 1
         /\ c[2] \in Int /\ 0 <= c[2] /\ c[2] <= Width - 1
BY ChessAssumption DEF Cells

\* Two coordinates within the board make a cell.
LEMMA IsCell ==
  ASSUME NEW i \in Int, NEW j \in Int, 0 <= i, i <= Height - 1, 0 <= j, j <= Width - 1
  PROVE  <<i, j>> \in Cells
BY ChessAssumption DEF Cells

\* The Chebyshev distance bounds both deltas and equals one of them.
LEMMA SquaresNat ==
  ASSUME NEW c \in Cells, NEW d \in Cells
  PROVE  /\ Squares(c, d) \in Nat
         /\ Squares(c, d) = 0 <=> c = d
         /\ RowDelta(c, d) \in Int /\ ColDelta(c, d) \in Int
         /\ -Squares(c, d) <= RowDelta(c, d) /\ RowDelta(c, d) <= Squares(c, d)
         /\ -Squares(c, d) <= ColDelta(c, d) /\ ColDelta(c, d) <= Squares(c, d)
         /\ \/ Squares(c, d) \in {RowDelta(c, d), -RowDelta(c, d)}
            \/ Squares(c, d) \in {ColDelta(c, d), -ColDelta(c, d)}
BY CellCoords DEF Squares, RowDelta, ColDelta, Max2, Abs

\* The k-th checkpoint pathCheckpoints yields is on the board, k squares away
\* from the source, and is not the source.
LEMMA CheckpointOnPath ==
  ASSUME NEW m \in Motion, NEW k \in 1 .. Steps(m)
  PROVE  /\ Checkpoint(m, k) \in Cells
         /\ Squares(m.from, Checkpoint(m, k)) = k
         /\ Checkpoint(m, k) # m.from
<1> DEFINE n == Steps(m)
           dr == RowDelta(m.from, m.to)
           dc == ColDelta(m.from, m.to)
           qr == Quot(dr, n)
           qc == Quot(dc, n)
           c == Checkpoint(m, k)
<1>1. m.from \in Cells /\ m.to \in Cells
  BY DEF Motion
<1>2. /\ n \in Nat \ {0} /\ k \in Nat /\ 1 <= k /\ k <= n
      /\ dr \in Int /\ -n <= dr /\ dr <= n
      /\ dc \in Int /\ -n <= dc /\ dc <= n
      /\ n \in {dr, -dr, dc, -dc}
  BY <1>1, SquaresNat DEF Steps
<1>3. /\ qr = IF dr = n THEN 1 ELSE IF dr = -n THEN -1 ELSE 0
      /\ qc = IF dc = n THEN 1 ELSE IF dc = -n THEN -1 ELSE 0
  BY <1>2, QuotUnit
<1>4. c = <<m.from[1] + k * qr, m.from[2] + k * qc>>
  BY DEF Checkpoint
<1>5. dr = m.to[1] - m.from[1] /\ dc = m.to[2] - m.from[2]
  BY DEF RowDelta, ColDelta
<1> HIDE DEF n, dr, dc, qr, qc, c
<1>6. /\ k * qr = IF qr = 1 THEN k ELSE IF qr = -1 THEN -k ELSE 0
      /\ k * qc = IF qc = 1 THEN k ELSE IF qc = -1 THEN -k ELSE 0
  BY <1>2, <1>3
<1>7. c \in Cells
  <2>1. /\ m.from[1] + k * qr \in Int
        /\ 0 <= m.from[1] + k * qr /\ m.from[1] + k * qr <= Height - 1
    BY <1>1, <1>2, <1>3, <1>5, <1>6, CellCoords, ChessAssumption
  <2>2. /\ m.from[2] + k * qc \in Int
        /\ 0 <= m.from[2] + k * qc /\ m.from[2] + k * qc <= Width - 1
    BY <1>1, <1>2, <1>3, <1>5, <1>6, CellCoords, ChessAssumption
  <2>3. QED
    BY <1>4, <2>1, <2>2, IsCell
<1>8. c[1] = m.from[1] + k * qr /\ c[2] = m.from[2] + k * qc
  BY <1>4
<1>9. Squares(m.from, c) = k
  <2>1. RowDelta(m.from, c) = k * qr /\ ColDelta(m.from, c) = k * qc
    BY <1>1, <1>2, <1>3, <1>6, <1>8, CellCoords DEF RowDelta, ColDelta
  <2>2. QED BY <2>1, <1>2, <1>3, <1>6 DEF Squares, Max2, Abs
<1>10. c # m.from
  BY <1>9, <1>1, <1>2, <1>7, SquaresNat
<1> QED BY <1>7, <1>9, <1>10 DEF c

\* Cutting a motion at one of its checkpoints (addMotion and the three resolver
\* functions do) yields a slide whose timestamps agree with its shorter path.
LEMMA EndAtMotion ==
  ASSUME NEW m \in Motion, NEW k \in 1 .. Steps(m)
  PROVE  /\ EndAt(m, k) \in Motion
         /\ ~IsJump(EndAt(m, k))
         /\ EndAt(m, k).from = m.from /\ EndAt(m, k).piece = m.piece
         /\ EndAt(m, k).arrival - EndAt(m, k).start
              = CalcTravelTime(EndAt(m, k).from, EndAt(m, k).to)
<1> DEFINE e == EndAt(m, k)
<1>0. k \in Nat /\ MsPerSquare \in Nat /\ k * MsPerSquare \in Int
  <2>1. Steps(m) \in Nat
    BY SquaresNat DEF Motion, Steps
  <2>2. k \in Nat /\ MsPerSquare \in Nat
    BY <2>1, MotionAssumption
  <2> QED BY <2>2
<1>1. Checkpoint(m, k) \in Cells /\ Squares(m.from, Checkpoint(m, k)) = k /\ Checkpoint(m, k) # m.from
  BY CheckpointOnPath
<1>2. m.start \in Int
  BY DEF Motion
<1>3. Enter(m, k) \in Int /\ Enter(m, k) - m.start = k * MsPerSquare
  BY <1>0, <1>2 DEF Enter
<1>4. /\ e \in Motion /\ e.from = m.from /\ e.piece = m.piece /\ e.to = Checkpoint(m, k)
      /\ e.start = m.start /\ e.arrival = Enter(m, k)
  BY <1>1, <1>3 DEF EndAt, Motion
<1> HIDE DEF e
<1>5. ~IsJump(e)
  BY <1>1, <1>4 DEF IsJump
<1>6. e.arrival - e.start = CalcTravelTime(e.from, e.to)
  BY <1>1, <1>3, <1>4 DEF CalcTravelTime
<1> QED BY <1>4, <1>5, <1>6 DEF e
=============================================================================

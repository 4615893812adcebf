---------------------------- MODULE MotionProofs ----------------------------
(***************************************************************************)
(* The course of the motions, on every board and for any speeds and ticks: *)
(* a path ends on its target, a motion is resolved in the tick in which it *)
(* is due and set back by less than two squares, and the motions due are   *)
(* resolved one by one, in the one order of the vector active_motions.     *)
(***************************************************************************)
EXTENDS GameEngineProofs

-----------------------------------------------------------------------------
(* Straight lines.                                                         *)

\* from and to lie on one rank, file or diagonal.
InLine(from, to) ==
  LET n == Squares(from, to)
  IN  RowDelta(from, to) \in {0, n, -n} /\ ColDelta(from, to) \in {0, n, -n}

\* pathCheckpoints of a straight slide ends at its destination.
LEMMA InLineReaches ==
  ASSUME NEW m \in Motion, ~IsJump(m), InLine(m.from, m.to)
  PROVE  Checkpoint(m, Steps(m)) = m.to
<1> DEFINE n == Steps(m)
           dr == RowDelta(m.from, m.to)
           dc == ColDelta(m.from, m.to)
           qr == Quot(dr, n)
           qc == Quot(dc, n)
<1>1. m.from \in Cells /\ m.to \in Cells
  BY DEF Motion
<1>2. /\ n \in Nat \ {0} /\ dr \in Int /\ dc \in Int
      /\ -n <= dr /\ dr <= n /\ -n <= dc /\ dc <= n
  BY <1>1, SquaresNat DEF Steps, IsJump
<1>3. /\ qr = IF dr = n THEN 1 ELSE IF dr = -n THEN -1 ELSE 0
      /\ qc = IF dc = n THEN 1 ELSE IF dc = -n THEN -1 ELSE 0
  BY <1>2, QuotUnit
<1>4. dr \in {0, n, -n} /\ dc \in {0, n, -n}
  BY DEF InLine, Steps
<1>5. Checkpoint(m, n) = <<m.from[1] + n * qr, m.from[2] + n * qc>>
  BY DEF Checkpoint
<1>6. dr = m.to[1] - m.from[1] /\ dc = m.to[2] - m.from[2]
  BY DEF RowDelta, ColDelta
<1> HIDE DEF n, dr, dc, qr, qc
<1>7. n * qr = dr /\ n * qc = dc
  BY <1>2, <1>3, <1>4
<1>8. m.from[1] + n * qr = m.to[1] /\ m.from[2] + n * qc = m.to[2]
  BY <1>1, <1>6, <1>7, CellCoords
<1>9. m.to = <<m.to[1], m.to[2]>>
  BY <1>1, CellCoords
<1> QED BY <1>5, <1>8, <1>9 DEF n

\* A cut of any motion is straight: its checkpoints are unit steps apart.
LEMMA CutInLine ==
  ASSUME NEW m \in Motion, NEW k \in 1 .. Steps(m)
  PROVE  InLine(m.from, Checkpoint(m, k))
<1> DEFINE n == Steps(m)
           dr == RowDelta(m.from, m.to)
           dc == ColDelta(m.from, m.to)
           qr == Quot(dr, n)
           qc == Quot(dc, n)
           c == Checkpoint(m, k)
<1>1. m.from \in Cells /\ m.to \in Cells
  BY DEF Motion
<1>2. /\ n \in Nat \ {0} /\ k \in Nat /\ dr \in Int /\ dc \in Int
      /\ -n <= dr /\ dr <= n /\ -n <= dc /\ dc <= n
  BY <1>1, SquaresNat DEF Steps
<1>3. qr \in {0, 1, -1} /\ qc \in {0, 1, -1}
  BY <1>2, QuotUnit
<1>4. c[1] = m.from[1] + k * qr /\ c[2] = m.from[2] + k * qc
  BY DEF Checkpoint
<1>5. Squares(m.from, c) = k
  BY CheckpointOnPath
<1> HIDE DEF n, dr, dc, qr, qc, c
<1>6. k * qr \in {0, k, -k} /\ k * qc \in {0, k, -k} /\ k * qr \in Int /\ k * qc \in Int
  BY <1>2, <1>3
<1>7. RowDelta(m.from, c) = k * qr /\ ColDelta(m.from, c) = k * qc
  BY <1>1, <1>4, <1>6, CellCoords DEF RowDelta, ColDelta
<1>8. InLine(m.from, c)
  BY <1>5, <1>6, <1>7 DEF InLine
<1> QED BY <1>8 DEF c

\* Every rule but the Knight's offers straight moves only.
LEMMA ValidInLine ==
  ASSUME NEW b, NEW kinds, NEW from \in Cells, NEW to \in Cells, NEW relaxed,
         ValidateMove(b, kinds, from, to, relaxed), KindAt(b, kinds, from) # "Knight"
  PROVE  InLine(from, to)
<1> DEFINE dr == RowDelta(from, to)
           dc == ColDelta(from, to)
           n == Squares(from, to)
<1>1. dr \in Int /\ dc \in Int
  BY SquaresNat
<1>2. n = Max2(Abs(dr), Abs(dc))
  BY DEF Squares
<1>3. \/ dr = 0 \/ dc = 0 \/ Abs(dr) = Abs(dc) \/ n = 1
      \/ Abs(dc) = 1 /\ Abs(dr) = 1
  <2>1. ASSUME PawnMoves(b, from, to) PROVE dc = 0 \/ (Abs(dc) = 1 /\ Abs(dr) = 1)
    <3>1. PawnDirection(ColorAt(b, from)) \in {1, -1}
      BY DEF PawnDirection
    <3>2. dc = 0 \/ (Abs(dc) = 1 /\ dr * PawnDirection(ColorAt(b, from)) = 1)
      BY <2>1 DEF PawnMoves
    <3> HIDE DEF dr, dc
    <3> QED BY <1>1, <3>1, <3>2 DEF Abs
  <2>2. \/ OnRankOrFile(from, to) \/ OnDiagonal(from, to)
        \/ Squares(from, to) = 1 \/ PawnMoves(b, from, to)
    BY DEF ValidateMove, IsLegalDestination, RookMoves, BishopMoves, QueenMoves, KingMoves
  <2> QED BY <2>1, <2>2 DEF OnRankOrFile, OnDiagonal
<1> HIDE DEF dr, dc, n
<1>4. dr \in {0, n, -n} /\ dc \in {0, n, -n}
  BY <1>1, <1>2, <1>3 DEF Max2, Abs
<1> QED BY <1>4 DEF InLine, dr, dc, n
-----------------------------------------------------------------------------
(* The invariant.                                                          *)

Kept == {"ready", "premoves"}     \* between two ticks

\* How long ago a motion may have been due.
Floor(ph) ==
  IF ph \in Kept THEN 0
  ELSE IF ph = "friendly" THEN -TickMs ELSE -(TickMs + 2 * MsPerSquare)

CourseOK(m) == IsJump(m) \/ kind[m.piece] = "Knight" \/ InLine(m.from, m.to)

BegunNow == {m \in motions : m.start = 0}

\* start and ord tell any two motions apart, and whatever is added now comes
\* after all that is there.
VectorOrdered ==
  /\ \A m \in motions : m.start <= 0 /\ (phase \notin Kept => m.start < 0)
  /\ \A m \in motions : m.start = 0 => m.ord < Cardinality(BegunNow)
  /\ \A m, n \in motions : m.start = n.start /\ m.ord = n.ord => m = n

SInv ==
  /\ \A m \in motions : CourseOK(m)
  /\ \A m \in motions : m.arrival > Floor(phase)
  /\ VectorOrdered

\* The times between which the phases of a tick lie are numbers.
LEMMA FloorInt ==
  ASSUME NEW ph
  PROVE  /\ Floor(ph) \in Int /\ TickMs \in Int /\ MsPerSquare \in Int
         /\ TickMs > 0 /\ MsPerSquare > 0
BY MotionAssumption DEF Floor

\* The next checkpoint is reached one square's travel later.
LEMMA EnterNext ==
  ASSUME NEW m \in Motion, NEW k \in Nat
  PROVE  Enter(m, k) \in Int /\ Enter(m, k + 1) = Enter(m, k) + MsPerSquare
<1>1. m.start \in Int /\ MsPerSquare \in Int
  BY MotionAssumption DEF Motion
<1>2. (k + 1) * MsPerSquare = k * MsPerSquare + MsPerSquare /\ k * MsPerSquare \in Int
  BY <1>1
<1> QED BY <1>1, <1>2 DEF Enter

\* A slide is due when it enters its last checkpoint.
LEMMA EnterLast ==
  ASSUME NEW m \in Motion, Timed(m), ~IsJump(m)
  PROVE  Enter(m, Steps(m)) = m.arrival
<1>1. m.start \in Int /\ m.arrival \in Int
  BY DEF Motion
<1>2. m.arrival - m.start = Steps(m) * MsPerSquare
  BY DEF Timed, CalcTravelTime, Steps
<1>3. Steps(m) \in Nat /\ MsPerSquare \in Nat /\ Steps(m) * MsPerSquare \in Int
  <2>1. Steps(m) \in Nat /\ MsPerSquare \in Nat
    BY SquaresNat, MotionAssumption DEF Motion, Steps
  <2> QED BY <2>1
<1> QED BY <1>1, <1>2, <1>3 DEF Enter

\* A slide takes some time.
LEMMA SlideTakesTime ==
  ASSUME NEW m \in Motion, Timed(m), ~IsJump(m)
  PROVE  m.arrival > m.start
<1>1. m.start \in Int /\ m.arrival \in Int /\ m.from \in Cells /\ m.to \in Cells
  BY DEF Motion
<1>2. Squares(m.from, m.to) \in Nat \ {0} /\ MsPerSquare \in Nat \ {0}
  BY <1>1, SquaresNat, MotionAssumption DEF IsJump
<1>3. Squares(m.from, m.to) * MsPerSquare > 0 /\ Squares(m.from, m.to) * MsPerSquare \in Int
  BY <1>2
<1>4. m.arrival - m.start = Squares(m.from, m.to) * MsPerSquare
  BY DEF Timed, CalcTravelTime
<1> QED BY <1>1, <1>3, <1>4

\* A cut keeps its place in the vector and stays straight.
LEMMA CutCourse ==
  ASSUME NEW m \in Motion, NEW e, CutOf(e, m)
  PROVE  /\ e.start = m.start /\ e.ord = m.ord /\ e.piece = m.piece /\ e.from = m.from
         /\ CourseOK(m) => CourseOK(e)
<1>1. CASE e = m
  BY <1>1
<1>2. ASSUME NEW k \in 1 .. Steps(m), e = EndAt(m, k)
      PROVE  /\ e.start = m.start /\ e.ord = m.ord /\ e.piece = m.piece /\ e.from = m.from
             /\ CourseOK(e)
  <2>1. /\ e.start = m.start /\ e.ord = m.ord /\ e.piece = m.piece /\ e.from = m.from
        /\ e.to = Checkpoint(m, k)
    BY <1>2 DEF EndAt, Motion
  <2> QED BY <2>1, CutInLine DEF CourseOK
<1> QED BY <1>1, <1>2 DEF CutOf

LEMMA InitSInv == Init => SInv
BY DEF Init, SInv, VectorOrdered

-----------------------------------------------------------------------------
(* Requests.                                                               *)

\* A motion that begins now is added behind all others.
LEMMA AddedCourse ==
  ASSUME IInv, SInv, NEW e \in Motion, motions' = motions \cup {e},
         e.start = 0, e.ord = Cardinality(BegunNow), e.arrival > 0, CourseOK(e),
         UNCHANGED kind, phase \in Kept, phase' \in Kept
  PROVE  SInv'
<1>1. \A m \in motions' : CourseOK(m)'
  BY DEF SInv, CourseOK
<1>2. \A m \in motions' : m.arrival > Floor(phase')
  BY DEF SInv, Floor
<1>3. VectorOrdered'
  <2>1. IsFiniteSet(BegunNow) /\ Cardinality(BegunNow) \in Nat
    BY FS_Subset, FS_CardinalityType DEF IInv, BegunNow
  <2>2. e \notin BegunNow
    BY <2>1 DEF SInv, VectorOrdered, BegunNow
  <2>3. BegunNow' = BegunNow \cup {e}
    BY DEF BegunNow
  <2>4. Cardinality(BegunNow') = Cardinality(BegunNow) + 1
    BY <2>1, <2>2, <2>3, FS_AddElement
  <2>5. \A m \in motions : m.ord \in Int /\ m.start \in Int
    BY DEF IInv, TypeOK, Motion
  <2> DEFINE c == Cardinality(BegunNow)
             d == Cardinality(BegunNow')
  <2>6. /\ c \in Nat /\ d = c + 1 /\ e.ord = c
        /\ \A m \in motions : m.start = 0 => m.ord < c
    BY <2>1, <2>4 DEF SInv, VectorOrdered
  <2> HIDE DEF c, d
  <2>7. \A m \in motions' : m.start = 0 => m.ord < d
    BY <2>5, <2>6
  <2>8. \A m, n \in motions' : m.start = n.start /\ m.ord = n.ord => m = n
    BY <2>5, <2>6 DEF SInv, VectorOrdered
  <2>9. \A m \in motions' : m.start <= 0 /\ (phase' \notin Kept => m.start < 0)
    BY DEF SInv, VectorOrdered
  <2> QED BY <2>7, <2>8, <2>9 DEF VectorOrdered, d
<1> QED BY <1>1, <1>2, <1>3 DEF SInv

\* addMotion, for a move that was validated: from requestMove or a premove.
LEMMA AddMotionCourse ==
  ASSUME IInv, SInv, NEW from \in Cells, NEW to \in Cells,
         ValidateMove(board, kind, from, to, simultaneousMode), AddMotion(from, to),
         UNCHANGED kind, phase \in Kept, phase' \in Kept
  PROVE  SInv'
<1> DEFINE m == NewMotion(from, to, CalcTravelTime(from, to))
<1>1. from # to /\ board[from] # NoPiece
  BY DEF ValidateMove, IsLegalDestination, IsCellEmpty
<1>2. CalcTravelTime(from, to) \in Nat
  <2>1. Squares(from, to) \in Nat /\ MsPerSquare \in Nat
    BY SquaresNat, MotionAssumption
  <2> QED BY <2>1 DEF CalcTravelTime
<1>3. /\ m \in Motion /\ Timed(m) /\ ~IsJump(m) /\ m.from = from /\ m.to = to
      /\ m.piece = board[from]
  BY <1>1, <1>2, NewMotionType DEF Timed, IsJump
<1>4. m.start = 0 /\ m.ord = Cardinality(BegunNow)
  BY DEF NewMotion, BegunNow
<1>5. CourseOK(m)
  BY <1>1, <1>3, ValidInLine DEF CourseOK, KindAt
<1>6. PICK e : motions' = motions \cup {e} /\ CutOf(e, m)
  BY <1>3, AddedIsCut
<1> HIDE DEF m
<1>7. e \in Motion /\ Timed(e) /\ ~IsJump(e)
  BY <1>3, <1>6, CutOfMotion
<1>8. e.start = 0 /\ e.ord = Cardinality(BegunNow) /\ CourseOK(e)
  BY <1>3, <1>4, <1>5, <1>6, CutCourse
<1>9. e.arrival > 0
  BY <1>7, <1>8, SlideTakesTime
<1> QED BY <1>6, <1>7, <1>8, <1>9, AddedCourse

LEMMA RequestCourse ==
  ASSUME IInv, SInv, Request
  PROVE  SInv'
<1>1. ASSUME NEW from \in Cells, NEW to \in Cells, StartMove(from, to) PROVE SInv'
  BY <1>1, AddMotionCourse DEF StartMove, Kept
<1>2. ASSUME NEW from \in Cells, NEW to \in Cells, QueuePremove(from, to) PROVE SInv'
  BY <1>2 DEF QueuePremove, SInv, CourseOK, VectorOrdered, BegunNow
<1>3. ASSUME NEW pos \in Cells, RequestJump(pos) PROVE SInv'
  <2> DEFINE e == NewMotion(pos, pos, JumpMs)
  <2>1. e \in Motion /\ e.from = pos /\ e.to = pos /\ e.arrival - e.start = JumpMs
    BY <1>3, NewMotionType, EngineAssumption DEF RequestJump, ValidateJump, IsCellEmpty
  <2>2. e.start = 0 /\ e.ord = Cardinality(BegunNow)
    BY DEF NewMotion, BegunNow
  <2>3. motions' = motions \cup {e} /\ UNCHANGED <<kind, phase>> /\ phase \in Kept
    BY <1>3 DEF RequestJump, Kept
  <2> HIDE DEF e
  <2>4. e.arrival > 0 /\ CourseOK(e)
    BY <2>1, <2>2, EngineAssumption DEF CourseOK, IsJump, Motion
  <2> QED BY <2>1, <2>2, <2>3, <2>4, AddedCourse
<1> QED BY <1>1, <1>2, <1>3 DEF Request

-----------------------------------------------------------------------------
(* One tick.                                                               *)

\* Time passes for all motions alike, and some of them are lost.
LEMMA CollisionsCourse ==
  ASSUME IInv, SInv, ResolveCollisions
  PROVE  SInv'
<1>1. /\ \A e \in motions' : \E m \in motions : e = Aged(m)
      /\ phase \in Kept /\ phase' \in {"friendly", "arrivals"} /\ UNCHANGED kind
  BY DEF ResolveCollisions, Kept
<1>2. ASSUME NEW m \in motions
      PROVE  /\ Aged(m).start = m.start - TickMs /\ Aged(m).arrival = m.arrival - TickMs
             /\ Aged(m).from = m.from /\ Aged(m).to = m.to
             /\ Aged(m).piece = m.piece /\ Aged(m).ord = m.ord
             /\ m.start \in Int /\ m.arrival \in Int
  BY DEF Aged, Motion, IInv, TypeOK
<1>3. TickMs \in Int /\ TickMs > 0 /\ MsPerSquare \in Int /\ MsPerSquare > 0
  BY MotionAssumption
<1>4. \A e \in motions' : CourseOK(e)'
  BY <1>1, <1>2 DEF SInv, CourseOK, IsJump
<1>5. \A e \in motions' : e.arrival > Floor(phase')
  <2> SUFFICES ASSUME NEW e \in motions' PROVE e.arrival > Floor(phase')
    OBVIOUS
  <2>1. PICK m \in motions : e = Aged(m)
    BY <1>1
  <2>2. m.arrival > 0
    BY <1>1 DEF SInv, Floor
  <2>3. e.arrival > -TickMs /\ e.arrival \in Int
    BY <1>2, <1>3, <2>1, <2>2
  <2> QED BY <1>1, <1>3, <2>3 DEF Floor, Kept
<1>6. VectorOrdered'
  <2>1. \A e \in motions' : e.start < 0
    <3> SUFFICES ASSUME NEW e \in motions' PROVE e.start < 0
      OBVIOUS
    <3>1. PICK m \in motions : e = Aged(m)
      BY <1>1
    <3>2. m.start <= 0
      BY DEF SInv, VectorOrdered
    <3> QED BY <1>2, <1>3, <3>1, <3>2
  <2>2. ASSUME NEW e \in motions', NEW f \in motions', e.start = f.start, e.ord = f.ord
        PROVE  e = f
    <3>1. PICK m \in motions, n \in motions : e = Aged(m) /\ f = Aged(n)
      BY <1>1
    <3>2. m.start = n.start /\ m.ord = n.ord
      BY <1>2, <1>3, <2>2, <3>1
    <3> QED BY <3>1, <3>2 DEF SInv, VectorOrdered
  <2>3. \A e \in motions' : e.start \in Int
    BY <1>1, <1>2, <1>3
  <2> QED BY <2>1, <2>2, <2>3 DEF VectorOrdered
<1> QED BY <1>4, <1>5, <1>6 DEF SInv

\* What the two blocking rules have in common: each motion is cut at most once.
LEMMA CutsCourse ==
  ASSUME IInv, SInv, NEW S \in SUBSET motions, NEW f,
         \A m \in S : CutOf(f[m], m),
         motions' = {f[m] : m \in S},
         \A m \in S : f[m].arrival > Floor(phase'),
         phase \in {"friendly", "stationary"}, phase' \in {"stationary", "arrivals"},
         UNCHANGED kind
  PROVE  SInv'
<1>1. \A m \in S : /\ m \in Motion /\ m \in motions
                   /\ f[m].start = m.start /\ f[m].ord = m.ord /\ CourseOK(f[m])
  BY CutCourse DEF SInv, IInv, TypeOK
<1>2. \A e \in motions' : CourseOK(e)'
  BY <1>1 DEF CourseOK
<1>3. \A e \in motions' : e.arrival > Floor(phase')
  OBVIOUS
<1>4. VectorOrdered'
  <2>1. \A e \in motions' : e.start < 0 /\ e.start \in Int
    BY <1>1 DEF SInv, VectorOrdered, Kept, Motion
  <2>2. \A d, e \in motions' : d.start = e.start /\ d.ord = e.ord => d = e
    BY <1>1 DEF SInv, VectorOrdered
  <2> QED BY <2>1, <2>2 DEF VectorOrdered
<1> QED BY <1>2, <1>3, <1>4 DEF SInv

\* A slide cut before a checkpoint it is in, or steps to, during this tick ends
\* less than two squares' travel before the tick.
LEMMA CutBeforeMeeting ==
  ASSUME NEW m \in Motion, Timed(m), ~IsJump(m), m.arrival > -TickMs,
         NEW i \in 2 .. Steps(m), NEW n, NEW j, Meet(m, i, n, j)
  PROVE  Enter(m, i - 1) > -(TickMs + 2 * MsPerSquare)
<1>1. /\ Steps(m) \in Nat /\ i \in Nat /\ i - 1 \in Nat /\ i + 1 \in Nat
      /\ i <= Steps(m)
  BY SquaresNat DEF Motion, Steps
<1>2. TickMs \in Int /\ MsPerSquare \in Int /\ MsPerSquare > 0
  BY MotionAssumption
<1>3. Enter(m, i - 1) \in Int /\ Enter(m, (i - 1) + 1) = Enter(m, i - 1) + MsPerSquare
  BY <1>1, EnterNext
<1>4. Enter(m, i) \in Int /\ Enter(m, i + 1) = Enter(m, i) + MsPerSquare
  BY <1>1, EnterNext
<1>5. (i - 1) + 1 = i
  BY <1>1
<1>6. Enter(m, i) > -TickMs \/ (i < Steps(m) /\ Enter(m, i + 1) > -TickMs)
  <2>1. CASE i < Steps(m)
    BY <2>1 DEF Meet, ShareCell, SwapCells, OccupiedThisTick, SteppedThisTick, Leave
  <2>2. CASE i = Steps(m)
    BY <2>2, EnterLast
  <2> QED BY <1>1, <2>1, <2>2
<1> QED BY <1>2, <1>3, <1>4, <1>5, <1>6

LEMMA FriendlyCourse ==
  ASSUME IInv, SInv, ResolveMovingFriendlyBlocks
  PROVE  SInv'
<1> DEFINE free == {m \in motions : FriendlyMeetings(m) = {}}
           given == {m \in motions : 1 \in FriendlyMeetings(m)}
           rest == (motions \ free) \ given
           cut(m) == EndAt(m, Least(FriendlyMeetings(m)) - 1)
           f == [m \in free \cup rest |-> IF m \in free THEN m ELSE cut(m)]
<1>1. /\ motions' = free \cup {cut(m) : m \in rest}
      /\ phase = "friendly" /\ phase' = "stationary" /\ UNCHANGED kind
  BY DEF ResolveMovingFriendlyBlocks
<1>2. \A m \in motions : m \in Motion /\ Timed(m) /\ m.arrival > -TickMs /\ m.arrival \in Int
  BY <1>1 DEF IInv, TypeOK, SInv, Floor, Kept, Motion
<1>3. /\ Floor(phase') = -(TickMs + 2 * MsPerSquare)
      /\ TickMs \in Int /\ MsPerSquare \in Int /\ MsPerSquare > 0
  BY <1>1, MotionAssumption DEF Floor, Kept
<1>4. ASSUME NEW m \in rest
      PROVE  CutOf(cut(m), m) /\ cut(m).arrival > Floor(phase')
  <2> DEFINE T == FriendlyMeetings(m)
  <2>1. Steps(m) \in Nat /\ m \in Motion
    BY <1>2, SquaresNat DEF Motion, Steps
  <2>2. T \in SUBSET (1 .. Steps(m)) /\ T # {} /\ 1 \notin T
    BY DEF FriendlyMeetings
  <2>3. \A i \in T : HasPath(m) /\ \E n \in motions, j \in Int : Meet(m, i, n, j)
    <3> SUFFICES ASSUME NEW i \in T
                 PROVE  HasPath(m) /\ \E n \in motions, j \in Int : Meet(m, i, n, j)
      OBVIOUS
    <3>1. HasPath(m) /\ \E n \in motions : \E j \in 1 .. Steps(n) : Meet(m, i, n, j)
      BY DEF FriendlyMeetings
    <3>2. \A n \in motions : \A j \in 1 .. Steps(n) : j \in Int
      OBVIOUS
    <3> QED BY <3>1, <3>2
  <2> HIDE DEF T
  <2>4. Least(T) \in T
    BY <2>1, <2>2, LeastIsMember
  <2>5. Least(T) \in 2 .. Steps(m) /\ Least(T) - 1 \in 1 .. Steps(m)
    <3>1. Least(T) \in 1 .. Steps(m) /\ Least(T) # 1
      BY <2>2, <2>4
    <3> QED BY <2>1, <3>1
  <2>6. PICK n \in motions, j \in Int : Meet(m, Least(T), n, j)
    BY <2>3, <2>4
  <2>7. ~IsJump(m)
    BY <2>3, <2>4 DEF HasPath
  <2>8. Enter(m, Least(T) - 1) > Floor(phase')
    BY <1>2, <1>3, <2>5, <2>6, <2>7, CutBeforeMeeting
  <2>9. cut(m).arrival = Enter(m, Least(T) - 1)
    BY <2>1 DEF EndAt, Motion, T
  <2> QED BY <2>5, <2>8, <2>9 DEF CutOf, T
<1>5. \A m \in free \cup rest : CutOf(f[m], m) /\ f[m].arrival > Floor(phase')
  <2>1. ASSUME NEW m \in free PROVE CutOf(f[m], m) /\ f[m].arrival > Floor(phase')
    <3>1. m \in motions /\ f[m] = m
      OBVIOUS
    <3> HIDE DEF f
    <3>2. m.arrival > -(TickMs + 2 * MsPerSquare)
      BY <1>2, <1>3, <3>1
    <3> QED BY <1>3, <3>1, <3>2 DEF CutOf
  <2>2. ASSUME NEW m \in rest PROVE CutOf(f[m], m) /\ f[m].arrival > Floor(phase')
    <3>1. f[m] = cut(m)
      OBVIOUS
    <3> HIDE DEF f, cut
    <3> QED BY <1>4, <3>1
  <2> QED BY <2>1, <2>2
<1>6. motions' = {f[m] : m \in free \cup rest} /\ free \cup rest \in SUBSET motions
  <2>1. \A m \in free : f[m] = m
    OBVIOUS
  <2>2. \A m \in rest : f[m] = cut(m)
    OBVIOUS
  <2>3. free \cup rest \in SUBSET motions
    OBVIOUS
  <2> HIDE DEF f, cut, free, rest
  <2> QED BY <1>1, <2>1, <2>2, <2>3
<1> HIDE DEF f, free, rest
<1> QED BY <1>1, <1>5, <1>6, CutsCourse

\* An obstacle is met at a checkpoint entered in this tick: stopping there, or
\* one checkpoint short of it, is less than a square too late.
LEMMA StationaryCourse ==
  ASSUME IInv, SInv, ResolveStationaryBlocks
  PROVE  SInv'
<1> DEFINE left(m, C) == motions \ {n \in C : Before(n, m)}
           given == CHOOSE C \in SUBSET motions :
                      C = {m \in motions : GivesUp(m, left(m, C))}
           rest == motions \ given
           cut(m) == Redirected(m, left(m, given))
           f == [m \in rest |-> cut(m)]
<1>1. /\ motions' = {cut(m) : m \in rest}
      /\ phase = "stationary" /\ phase' = "arrivals" /\ UNCHANGED kind
  BY DEF ResolveStationaryBlocks
<1>2. \A m \in rest : ~GivesUp(m, left(m, given))
  <2> DEFINE Fits(C) == C = {m \in motions : GivesUp(m, left(m, C))}
  <2>1. \E C \in SUBSET motions : Fits(C)
    BY GivenUpExists DEF IInv, TypeOK
  <2>2. given = CHOOSE C \in SUBSET motions : Fits(C)
    OBVIOUS
  <2>3. Fits(given)
    <3> HIDE DEF Fits, given
    <3> QED BY <2>1, <2>2
  <2> QED BY <2>3
<1> HIDE DEF given
<1>3. /\ Floor(phase') = -(TickMs + 2 * MsPerSquare) /\ Floor(phase) = Floor(phase')
      /\ TickMs \in Int /\ MsPerSquare \in Int /\ MsPerSquare > 0
  BY <1>1, MotionAssumption DEF Floor, Kept
<1>4. ASSUME NEW m \in rest
      PROVE  CutOf(cut(m), m) /\ cut(m).arrival > Floor(phase')
  <2> DEFINE ms == left(m, given)
             S == Obstacles(m, ms)
  <2>1. m \in Motion /\ Steps(m) \in Nat /\ m.arrival > Floor(phase')
    BY <1>3, SquaresNat DEF IInv, TypeOK, Motion, Steps, SInv
  <2>2. S \in SUBSET (1 .. Steps(m)) /\ \A i \in S : Enter(m, i) > -TickMs
    BY DEF Obstacles
  <2>3. CASE S = {}
    BY <2>1, <2>3 DEF CutOf, Redirected
  <2>4. CASE S # {}
    <3> DEFINE i == Least(S)
               k == IF StopsShortOf(m, i) THEN i - 1 ELSE i
    <3>1. cut(m) = EndAt(m, k)
      BY <2>4 DEF Redirected
    <3>2. ~(1 \in S /\ StopsShortOf(m, 1))
      BY <1>2 DEF GivesUp
    <3> HIDE DEF S, ms
    <3>3. i \in S
      BY <2>1, <2>2, <2>4, LeastIsMember
    <3>4. i \in 1 .. Steps(m) /\ Enter(m, i) > -TickMs /\ (StopsShortOf(m, i) => i # 1)
      BY <2>2, <3>2, <3>3
    <3> HIDE DEF i, cut
    <3>5. k \in 1 .. Steps(m) /\ (k = i \/ k = i - 1)
      BY <2>1, <3>4
    <3> HIDE DEF k
    <3>6. Enter(m, k) \in Int /\ (Enter(m, k) = Enter(m, i) \/ Enter(m, k) = Enter(m, i) - MsPerSquare)
      <4>1. k \in Nat /\ i \in Nat /\ (k = i \/ k + 1 = i)
        BY <2>1, <3>4, <3>5
      <4>2. Enter(m, k) \in Int /\ Enter(m, k + 1) = Enter(m, k) + MsPerSquare
        BY <2>1, <4>1, EnterNext
      <4> QED BY <1>3, <4>1, <4>2
    <3>7. Enter(m, k) > Floor(phase')
      <4>1. Enter(m, i) \in Int
        BY <2>1, <3>4, EnterNext
      <4> QED BY <1>3, <3>4, <3>6, <4>1
    <3>8. cut(m).arrival = Enter(m, k)
      BY <2>1, <3>1 DEF EndAt, Motion
    <3> QED BY <3>1, <3>5, <3>7, <3>8 DEF CutOf
  <2> QED BY <2>3, <2>4
<1>5. \A m \in rest : CutOf(f[m], m) /\ f[m].arrival > Floor(phase')
  <2> SUFFICES ASSUME NEW m \in rest PROVE CutOf(f[m], m) /\ f[m].arrival > Floor(phase')
    OBVIOUS
  <2>1. f[m] = cut(m)
    OBVIOUS
  <2> HIDE DEF f, cut
  <2> QED BY <1>4, <2>1
<1>6. motions' = {f[m] : m \in rest} /\ rest \in SUBSET motions
  <2>1. \A m \in rest : f[m] = cut(m)
    OBVIOUS
  <2>2. rest \in SUBSET motions
    OBVIOUS
  <2> HIDE DEF f, cut, rest
  <2> QED BY <1>1, <2>1, <2>2
<1> HIDE DEF f, rest
<1> QED BY <1>1, <1>5, <1>6, CutsCourse

\* Arrivals only take motions out, and promotion makes no Knight of a piece.
LEMMA ArriveCourse ==
  ASSUME IInv, SInv, Arrive
  PROVE  SInv'
<1>1. PICK m \in motions :
        /\ motions' = motions \ {m}
        /\ LandJump(m) \/ Vanished(m) \/ Repelled(m) \/ StayPut(m) \/ Land(m)
  BY DEF Arrive
<1>2. phase = "arrivals" /\ phase' = "arrivals"
  BY DEF Arrive
<1>3. \A p \in Pieces : kind[p] = "Knight" => kind'[p] = "Knight"
  <2>1. CASE kind' = kind
    BY <2>1
  <2>2. CASE kind[m.piece] = "Pawn" /\ kind' = [kind EXCEPT ![m.piece] = "Queen"]
    BY <2>2 DEF IInv, TypeOK
  <2> QED BY <1>1, <2>1, <2>2 DEF LandJump, Vanished, Repelled, StayPut, Land
<1>4. \A n \in motions' : CourseOK(n)'
  <2> SUFFICES ASSUME NEW n \in motions' PROVE CourseOK(n)'
    OBVIOUS
  <2>1. n \in motions /\ n.piece \in Pieces
    BY <1>1 DEF IInv, TypeOK, Motion
  <2> QED BY <1>3, <2>1 DEF SInv, CourseOK
<1>5. \A n \in motions' : n.arrival > Floor(phase')
  BY <1>1, <1>2 DEF SInv
<1>6. VectorOrdered'
  <2>1. \A n \in motions' : n.start < 0 /\ n.start \in Int
    BY <1>1, <1>2 DEF SInv, VectorOrdered, Kept, IInv, TypeOK, Motion
  <2>2. \A d, e \in motions' : d.start = e.start /\ d.ord = e.ord => d = e
    BY <1>1 DEF SInv, VectorOrdered
  <2> QED BY <2>1, <2>2 DEF VectorOrdered
<1> QED BY <1>4, <1>5, <1>6 DEF SInv

\* A tick is not over while a motion is due.
LEMMA FinishTickCourse ==
  ASSUME IInv, SInv, FinishTick
  PROVE  SInv'
<1>1. /\ phase = "arrivals" /\ phase' \in Kept /\ UNCHANGED <<motions, kind>>
      /\ \A m \in motions : ~Due(m)
  BY DEF FinishTick, Kept
<1>2. \A m \in motions : m.arrival \in Int /\ m.start \in Int /\ m.start < 0
  BY <1>1 DEF SInv, VectorOrdered, Kept, IInv, TypeOK, Motion
<1>3. \A m \in motions' : CourseOK(m)'
  BY <1>1 DEF SInv, CourseOK
<1>4. \A m \in motions' : m.arrival > Floor(phase')
  BY <1>1, <1>2 DEF Due, Floor
<1>5. VectorOrdered'
  BY <1>1, <1>2 DEF SInv, VectorOrdered
<1> QED BY <1>3, <1>4, <1>5 DEF SInv

LEMMA FirePremoveCourse ==
  ASSUME IInv, SInv, FirePremove
  PROVE  SInv'
<1>1. phase \in Kept /\ phase' \in Kept /\ UNCHANGED kind
  BY DEF FirePremove, Kept
<1>2. CASE UNCHANGED motions
  <2>1. \A m \in motions : m.start <= 0
    BY DEF SInv, VectorOrdered
  <2> QED BY <1>1, <1>2, <2>1 DEF SInv, CourseOK, VectorOrdered, BegunNow, Floor
<1>3. ASSUME NEW from, NEW to, ValidateMove(board, kind, from, to, simultaneousMode),
             AddMotion(from, to)
      PROVE  SInv'
  <2>1. from \in Cells /\ to \in Cells
    BY <1>3 DEF ValidateMove
  <2> QED BY <1>1, <1>3, <2>1, AddMotionCourse
<1> QED BY <1>2, <1>3 DEF FirePremove

LEMMA NextSInv == IInv /\ SInv /\ [Next]_vars => SInv'
<1> SUFFICES ASSUME IInv, SInv, [Next]_vars PROVE SInv'
  OBVIOUS
<1>1. CASE Request
  BY <1>1, RequestCourse
<1>2. CASE Tick
  BY <1>2, CollisionsCourse, FriendlyCourse, StationaryCourse, ArriveCourse,
     FinishTickCourse, FirePremoveCourse DEF Tick
<1>3. CASE UNCHANGED vars
  BY <1>3 DEF vars, SInv, CourseOK, VectorOrdered, BegunNow
<1> QED BY <1>1, <1>2, <1>3 DEF Next


-----------------------------------------------------------------------------
(* The theorems.                                                           *)

\* The motions the engine holds always have a straight course, a due time the
\* running tick has reached, and distinct places in the vector.
THEOREM CourseInvariance == Spec => []SInv
<1>1. IInv /\ SInv /\ [Next]_vars => SInv'
  BY NextSInv
<1> QED BY <1>1, Invariance, InitSInv, PTL DEF Spec

\* RealTimeArbiter::tick leaves no motion behind that is due, and the cuts of
\* the collision rules set an arrival back by less than two squares' travel.
THEOREM ArrivalsPunctual == Spec => []ArrivalsOnTime
<1>1. IInv /\ SInv => ArrivalsOnTime
  <2> SUFFICES ASSUME IInv, SInv PROVE ArrivalsOnTime
    OBVIOUS
  <2> SUFFICES ASSUME NEW m \in motions
               PROVE  m.arrival > IF phase \in {"ready", "premoves"} THEN 0
                                  ELSE -(TickMs + 2 * MsPerSquare)
    BY DEF ArrivalsOnTime
  <2>1. m.arrival \in Int /\ m.arrival > Floor(phase)
    BY DEF IInv, TypeOK, Motion, SInv
  <2>2. TickMs \in Int /\ MsPerSquare \in Int /\ MsPerSquare > 0
    BY MotionAssumption
  <2> QED BY <2>1, <2>2 DEF Floor, Kept
<1> QED BY <1>1, Invariance, CourseInvariance, PTL

\* pathCheckpoints of a slide ends where ArrivalResolver::resolve will put the
\* piece: the move was validated as straight and every cut of it is straight.
THEOREM PathsReachTargets == Spec => []PathReachesTarget
<1>1. IInv /\ SInv => PathReachesTarget
  <2> SUFFICES ASSUME IInv, SInv, NEW m \in motions
               PROVE  IsJump(m) \/ kind[m.piece] = "Knight" \/ Checkpoint(m, Steps(m)) = m.to
    BY DEF PathReachesTarget
  <2>1. m \in Motion /\ CourseOK(m)
    BY DEF IInv, TypeOK, SInv
  <2> QED BY <2>1, InLineReaches DEF CourseOK
<1> QED BY <1>1, Invariance, CourseInvariance, PTL

First(m) == Due(m) /\ \A n \in motions : Due(n) /\ n # m => Before(m, n)

\* Whenever motions are due, exactly one of them is resolved next.
OneFirstArrival ==
  (\E m \in motions : Due(m)) =>
    \E m \in motions : First(m) /\ \A n \in motions : First(n) => n = m

\* ArrivalResolver::resolve is called for the motions due in one fixed order,
\* that of active_motions, although motions begun in one tick share their start,
\* are cut short independently and may be due at the same time: the step Arrive
\* never lacks a candidate and never has two.
THEOREM ArrivalsOrdered == Spec => []OneFirstArrival
<1>1. IInv /\ SInv => OneFirstArrival
  <2> SUFFICES ASSUME IInv, SInv, NEW d \in motions, Due(d)
               PROVE  \E m \in motions : First(m) /\ \A n \in motions : First(n) => n = m
    BY DEF OneFirstArrival
  <2> DEFINE D == {m \in motions : Due(m)}
  <2>1. D \in SUBSET Motion /\ IsFiniteSet(D) /\ D # {}
    BY FS_Subset DEF IInv, TypeOK
  <2>2. PICK m \in D : \A n \in D : ~Before(n, m)
    BY <2>1, SomeoneFirst
  <2>3. \A n \in motions : n.start \in Int /\ n.ord \in Int
    BY DEF IInv, TypeOK, Motion
  <2>4. \A n \in D : n # m => Before(m, n)
    BY <2>2, <2>3 DEF SInv, VectorOrdered, Before
  <2>5. First(m) /\ m \in motions
    BY <2>4 DEF First
  <2>6. ASSUME NEW n \in motions, First(n), n # m PROVE FALSE
    <3>1. Before(n, m)
      BY <2>5, <2>6 DEF First
    <3>2. n \in D
      BY <2>6 DEF First
    <3> QED BY <2>2, <3>1, <3>2
  <2> QED BY <2>5, <2>6
<1> QED BY <1>1, Invariance, CourseInvariance, PTL

=============================================================================

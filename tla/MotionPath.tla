----------------------------- MODULE MotionPath -----------------------------
(***************************************************************************)
(* Motions and the geometry of their paths (server/realtime/Motion.h,      *)
(* MotionPath.cpp and the detection half of CollisionResolver.cpp).        *)
(*                                                                         *)
(* All times are relative to the game clock: start = start_time_ms -       *)
(* game_clock_ms and likewise for arrival, so the current instant is 0 and *)
(* the previous tick happened at -TickMs. Every comparison the code makes  *)
(* is between differences of timestamps, so nothing is lost, and the state *)
(* stays finite although the game never has to end. The unit is whatever   *)
(* MsPerSquare, TickMs and the rests are given in.                         *)
(*                                                                         *)
(* active_motions is a set of records. The position in the vector is       *)
(* recovered from start (a vector only grows at its end, while time        *)
(* passes) and, among motions begun at the same instant, from ord.         *)
(***************************************************************************)
EXTENDS PieceRules

CONSTANTS
  MsPerSquare,   \* MS_PER_SQUARE_TRAVELED
  TickMs         \* the clock advance of one tick

ASSUME MotionAssumption ==
  /\ MsPerSquare \in Nat \ {0}
  /\ TickMs \in Nat \ {0}

Motion == [from : Cells, to : Cells, start : Int, arrival : Int,
           piece : Pieces, ord : Nat]

IntMax == 2147483647    \* INT_MAX: a path's last cell is never left

IsJump(m) == m.from = m.to

\* C++ integer division truncates towards zero.
Quot(a, n) == IF a < 0 THEN -((-a) \div n) ELSE a \div n

CalcTravelTime(from, to) == Squares(from, to) * MsPerSquare

\* The number of checkpoints of m, and the k-th of them: checkpoint 0 is the
\* source, where the code's prevCell and prevTime begin. (A Knight's path
\* degenerates to a straight line; no rule looks at it while the Knight lives.)
Steps(m) == Squares(m.from, m.to)

Checkpoint(m, k) ==
  << m.from[1] + k * Quot(RowDelta(m.from, m.to), Steps(m)),
     m.from[2] + k * Quot(ColDelta(m.from, m.to), Steps(m)) >>

Enter(m, k) == m.start + k * MsPerSquare

Leave(m, k) == IF k < Steps(m) THEN Enter(m, k + 1) ELSE IntMax

\* A cut that forgets the time of arrival.
EndAtLate(m, k) == [m EXCEPT !.to = Checkpoint(m, k)]

\* m cut short so that it ends at its k-th checkpoint.
EndAt(m, k) == [m EXCEPT !.to = Checkpoint(m, k), !.arrival = Enter(m, k)]

\* m seen one tick later.
Aged(m) == [m EXCEPT !.start = @ - TickMs, !.arrival = @ - TickMs]

\* m comes before n in active_motions.
Before(m, n) == m.start < n.start \/ (m.start = n.start /\ m.ord < n.ord)

\* No tie-break: motions that began together beat each other.
BeatsOrTies(m, n) == m.start <= n.start

\* The motion that began first prevails, then the one of the lower piece id.
Beats(m, n) == m.start < n.start \/ (m.start = n.start /\ m.piece < n.piece)

Overlaps(enter1, leave1, enter2, leave2) ==
  Max2(enter1, enter2) < (IF leave1 < leave2 THEN leave1 ELSE leave2)

-----------------------------------------------------------------------------
(* collect(): the occupancies and the steps that touch the current tick.   *)

OccupiedThisTick(m, k) == Leave(m, k) > -TickMs /\ Enter(m, k) <= 0

SteppedThisTick(m, k) == Enter(m, k) > -TickMs /\ Enter(m, k - 1) <= 0

\* Both motions are in the same cell at the same time.
ShareCell(m, i, n, j) ==
  /\ OccupiedThisTick(m, i) /\ OccupiedThisTick(n, j)
  /\ Checkpoint(m, i) = Checkpoint(n, j)
  /\ Overlaps(Enter(m, i), Leave(m, i), Enter(n, j), Leave(n, j))

\* Both motions cross the same edge in opposite directions at the same time.
SwapCells(m, i, n, j) ==
  /\ SteppedThisTick(m, i) /\ SteppedThisTick(n, j)
  /\ Checkpoint(m, i - 1) = Checkpoint(n, j)
  /\ Checkpoint(m, i) = Checkpoint(n, j - 1)
  /\ Overlaps(Enter(m, i - 1), Enter(m, i), Enter(n, j - 1), Enter(n, j))

Meet(m, i, n, j) == ShareCell(m, i, n, j) \/ SwapCells(m, i, n, j)
=============================================================================

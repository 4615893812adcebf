--------------------------- MODULE MCMatchmaking ---------------------------
(***************************************************************************)
(* Matchmaking with ratings for its clients and a bound on what they do.   *)
(***************************************************************************)
EXTENDS Matchmaking, TLC

CONSTANTS
  c1, p1, p2,
  MaxClientSteps    \* searches begun and connections closed

\* p1 is in range of both others, which are too far apart for each other.
\* A connection that searches twice can be paired with itself.
MCElo == c1 :> 0 @@ p1 :> 1 @@ p2 :> 2

MCClientStep ==
  /\ issued + Cardinality(gone \cap Conns) < MaxClientSteps
  /\ ClientStep

MCSpec == Init /\ [][MCClientStep \/ ServiceStep]_vars /\ Fairness
=============================================================================

---------------------------- MODULE MCGameRooms ----------------------------
(***************************************************************************)
(* GameRooms with a bound on what the clients and the allocator do. What   *)
(* the server does on its own account, ticks and timers, is not bounded.   *)
(*                                                                         *)
(* Handles are numbers here and are first used in their order. They are    *)
(* interchangeable, so every other behaviour is one of these with the      *)
(* handles renamed; unlike TLC's symmetry sets this is sound for liveness. *)
(***************************************************************************)
EXTENDS GameRooms

CONSTANT MaxRequests     \* allocations, logins, joins, entries and closures

VARIABLE requests

MCvars == <<vars, requests>>

MCInit == Init /\ requests = 0

Used(c) == c \in closed \/ user[c] # Nobody \/ connectionRoom[c] # NoRoom

UsedInOrder == \A c, d \in Conns : c < d /\ Used(d) => Used(c)

MCClientStep ==
  /\ requests < MaxRequests
  /\ ClientStep
  /\ UsedInOrder'
  /\ requests' = requests + 1

MCServerStep == ServerStep /\ UNCHANGED requests

MCSpec == MCInit /\ [][MCClientStep \/ MCServerStep]_MCvars /\ Fairness
=============================================================================

---------------------------- MODULE GameOutcome ----------------------------
(***************************************************************************)
(* What a shard promises about its games, with no rooms, names, timers or  *)
(* threads: a game is opened once and closed once. It is decided at most   *)
(* once and only while it is open, by whichever comes first, the fall of a *)
(* king or a resignation. A king that fell in an undecided game decides it *)
(* for the other side, before the game is closed or at the same time.      *)
(***************************************************************************)
CONSTANTS Games, Sides, None

VARIABLES
  stage,     \* game -> "new", "open" or "closed"
  survivor,  \* game -> the side whose king is left alone on the board, or None
  outcome    \* game -> <<winner, reason>>, or <<>> while it is undecided

vars == <<stage, survivor, outcome>>

Init ==
  /\ stage = [g \in Games |-> "new"]
  /\ survivor = [g \in Games |-> None]
  /\ outcome = [g \in Games |-> <<>>]

Open(g) ==
  /\ stage[g] = "new"
  /\ stage' = [stage EXCEPT ![g] = "open"]
  /\ UNCHANGED <<survivor, outcome>>

\* The engine plays on after a resignation.
KingFalls(g, side) ==
  /\ stage[g] = "open" /\ survivor[g] = None
  /\ survivor' = [survivor EXCEPT ![g] = side]
  /\ UNCHANGED <<stage, outcome>>

AwaitsAnnouncement(g) == survivor[g] # None /\ outcome[g] = <<>>

Announce(g) ==
  /\ stage[g] = "open" /\ AwaitsAnnouncement(g)
  /\ outcome' = [outcome EXCEPT ![g] = <<survivor[g], "KingCapture">>]
  /\ stage' \in {stage, [stage EXCEPT ![g] = "closed"]}
  /\ UNCHANGED survivor

Resign(g, side) ==
  /\ stage[g] = "open" /\ survivor[g] = None /\ outcome[g] = <<>>
  /\ outcome' = [outcome EXCEPT ![g] = <<side, "Disconnect">>]
  /\ UNCHANGED <<stage, survivor>>

Close(g) ==
  /\ stage[g] = "open" /\ ~AwaitsAnnouncement(g)
  /\ stage' = [stage EXCEPT ![g] = "closed"]
  /\ UNCHANGED <<survivor, outcome>>

Next ==
  \E g \in Games :
    \/ Open(g) \/ Announce(g) \/ Close(g)
    \/ \E side \in Sides : KingFalls(g, side) \/ Resign(g, side)

Spec == Init /\ [][Next]_vars
=============================================================================

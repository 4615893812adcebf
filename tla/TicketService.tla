--------------------------- MODULE TicketService ---------------------------
(***************************************************************************)
(* What matchmaking promises about its tickets, with no messages, replicas *)
(* or timers: a ticket is issued once, gets at most one opponent, and is   *)
(* settled at most once: by a game, which needs an opponent, by a refusal  *)
(* ("no players available"), or by its player's leaving. A player may      *)
(* leave, or be refused, at any time, paired or not.                       *)
(***************************************************************************)
CONSTANTS Tickets, NoTicket

VARIABLES
  outcome,   \* ticket -> what became of it
  partner    \* ticket -> the ticket it was paired with, or NoTicket

vars == <<outcome, partner>>

Init ==
  /\ outcome = [t \in Tickets |-> "unissued"]
  /\ partner = [t \in Tickets |-> NoTicket]

Issue(t) ==
  /\ outcome[t] = "unissued"
  /\ outcome' = [outcome EXCEPT ![t] = "waiting"]
  /\ UNCHANGED partner

Pair(a, b) ==
  /\ a # b
  /\ outcome[a] # "unissued" /\ outcome[b] # "unissued"
  /\ partner[a] = NoTicket /\ partner[b] = NoTicket
  /\ partner' = [partner EXCEPT ![a] = b, ![b] = a]
  /\ UNCHANGED outcome

Settle(t, result) ==
  /\ outcome[t] = "waiting"
  /\ result = "game" => partner[t] # NoTicket
  /\ outcome' = [outcome EXCEPT ![t] = result]
  /\ UNCHANGED partner

Next ==
  \/ \E t \in Tickets : Issue(t)
  \/ \E a, b \in Tickets : Pair(a, b)
  \/ \E t \in Tickets, result \in {"game", "refused", "left"} : Settle(t, result)

Spec == Init /\ [][Next]_vars
=============================================================================

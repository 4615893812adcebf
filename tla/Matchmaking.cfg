SPECIFICATION MCSpec
CONSTANTS
  c1 = c1
  p1 = p1
  p2 = p2
  MaxTickets = 3
  MaxClientSteps = 3
  Conns = {c1}
  Requests = {p1, p2}
  Replicas = {r1, r2}
  Elo <- MCElo
  EloRange = 1
  NoClient = NoClient
  NoTicket = NoTicket
INVARIANTS TypeOK InfoReadable NoTicketForgotten
PROPERTIES TicketsServed EverySearchEnds
CHECK_DEADLOCK FALSE

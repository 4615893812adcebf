------------------------- MODULE MatchmakingProofs -------------------------
(***************************************************************************)
(* What holds of matchmaking for any number of replicas, clients, tickets  *)
(* and ratings: it implements TicketService, and forgets no ticket.        *)
(***************************************************************************)
EXTENDS Matchmaking, TLAPS

Adding(r) == handler[r].pc \in {"hset", "zadd"}
Pairing(r) == handler[r].pc \in {"publish", "watch"}

\* Tickets are numbered as they are issued, wait while someone waits on them,
\* and are not paired before they are issued.
Numbering ==
  \A t \in Tickets :
    /\ outcome[t] = "unissued" <=> t > issued
    /\ outcome[t] = "waiting" <=> client[t] # NoClient
    /\ partner[t] # NoTicket => t <= issued

\* A connection's ticket is one that it waits on.
Registry ==
  \A c \in Conns : ticketOf[c] # NoTicket => client[ticketOf[c]] = c

\* A busy handler has a ticket; one that found an opponent has a pair.
HandlersOK ==
  \A r \in Replicas :
    /\ handler[r].pc # "idle" => handler[r].ticket \in Tickets
    /\ Adding(r) => handler[r].opponent = NoTicket
    /\ Pairing(r) =>
         /\ handler[r].opponent \in Tickets
         /\ partner[handler[r].ticket] # NoTicket /\ partner[handler[r].opponent] # NoTicket

\* Tickets that can still be paired were issued and have no opponent ...
Unpaired ==
  /\ \A t \in requested \cup pool : t <= issued /\ partner[t] = NoTicket
  /\ \A r \in Replicas : Adding(r) =>
       handler[r].ticket <= issued /\ partner[handler[r].ticket] = NoTicket

\* ... and each of them is in one place only.
OnePlace ==
  /\ requested \cap pool = {}
  /\ \A r \in Replicas : Adding(r) =>
       /\ handler[r].ticket \notin requested \cup pool
       /\ \A s \in Replicas : Adding(s) /\ handler[s].ticket = handler[r].ticket => s = r

\* Only pairs are sent to the allocator and back.
PairedMessages ==
  /\ \A m \in matched : partner[m[1]] # NoTicket /\ partner[m[2]] # NoTicket
  /\ \A m \in assigned : partner[m[2]] # NoTicket /\ partner[m[3]] # NoTicket
  /\ \A m \in answers : m.event = "assigned" => partner[m.ticket] # NoTicket

\* Nobody waits on a ticket that is being cancelled.
Withdrawn == \A m \in cancelled : m[2] <= issued /\ client[m[2]] = NoClient

\* InfoReadable, and what it needs between HSET and ZADD.
HashesKept ==
  /\ InfoReadable
  /\ \A r \in Replicas : handler[r].pc = "zadd" /\ handler[r].ticket \notin info =>
       client[handler[r].ticket] = NoClient

\* A search timer is started when its ticket has been added, not before.
TimersRunOn ==
  \A t \in Tickets : timer[t] # "off" =>
    /\ t <= issued /\ t \notin requested
    /\ \A r \in Replicas : Adding(r) => handler[r].ticket # t

\* While replicas are told of an assignment, the owners are or have been told.
Announced ==
  \A m \in assigned : \A t \in {m[2], m[3]} :
    client[t] = NoClient \/ \E n \in answers : n.ticket = t

\* The inductive invariant.
MInv ==
  /\ TypeOK /\ Numbering /\ Registry /\ HandlersOK /\ Unpaired /\ OnePlace
  /\ PairedMessages /\ Withdrawn /\ HashesKept /\ TimersRunOn /\ Announced
  /\ NoTicketForgotten

-----------------------------------------------------------------------------
(* Every action keeps the invariant. Under each lemma there is one step for *)
(* each conjunct the action can disturb, and one for all the others.       *)

LEMMA FindGameKeeps ==
  ASSUME MInv, NEW c \in Conns, FindGame(c)
  PROVE  MInv'
<1> USE MatchmakingAssumption DEF MInv, TypeOK, Handlers, Answers, Clients, owners, redis
<1>1. TypeOK'
  <2>1. issued + 1 \in Tickets /\ Elo[c] \in Int /\ c \in Clients
    BY DEF FindGame, Issue
  <2>2. issued' \in 0 .. MaxTickets
    BY <2>1 DEF FindGame, Issue, Tickets
  <2> QED BY <2>1, <2>2 DEF FindGame, Issue
<1>2. Numbering'
  BY DEF FindGame, Issue, Numbering, Tickets, Unpaired
<1>3. Registry'
  BY DEF FindGame, Issue, Registry, Numbering
<1>4. Unpaired'
  BY DEF FindGame, Issue, Unpaired, Adding, Tickets, Numbering, HandlersOK
<1>5. OnePlace'
  BY DEF FindGame, Issue, OnePlace, Adding, Tickets, Unpaired, HandlersOK
<1>6. Withdrawn'
  BY DEF FindGame, Issue, Withdrawn, Tickets
<1>7. HashesKept'
  BY DEF FindGame, Issue, HashesKept, InfoReadable, Tickets, Unpaired, HandlersOK, Adding
<1>8. TimersRunOn'
  BY DEF FindGame, Issue, TimersRunOn, Adding, Tickets, Unpaired, HandlersOK
<1>9. Announced'
  BY DEF FindGame, Issue, Announced, Tickets, PairedMessages, Numbering
<1>10. NoTicketForgotten'
  BY DEF FindGame, Issue, NoTicketForgotten, InHand, Watched
<1>11. HandlersOK' /\ PairedMessages'
  BY DEF FindGame, Issue, HandlersOK, PairedMessages, Pairing, Adding
<1> QED BY <1>1, <1>2, <1>3, <1>4, <1>5, <1>6, <1>7, <1>8, <1>9, <1>10, <1>11 DEF MInv

LEMMA PlayKeeps ==
  ASSUME MInv, NEW c \in Requests, Play(c)
  PROVE  MInv'
<1> USE MatchmakingAssumption DEF MInv, TypeOK, Handlers, Answers, Clients, owners, redis
<1>1. TypeOK'
  <2>1. issued + 1 \in Tickets /\ Elo[c] \in Int /\ c \in Clients
    BY DEF Play, Issue
  <2>2. issued' \in 0 .. MaxTickets
    BY <2>1 DEF Play, Issue, Tickets
  <2> QED BY <2>1, <2>2 DEF Play, Issue
<1>2. Numbering'
  BY DEF Play, Issue, Numbering, Tickets, Unpaired
<1>3. Registry'
  BY DEF Play, Issue, Registry, Numbering
<1>4. Unpaired'
  BY DEF Play, Issue, Unpaired, Adding, Tickets, Numbering, HandlersOK
<1>5. OnePlace'
  BY DEF Play, Issue, OnePlace, Adding, Tickets, Unpaired, HandlersOK
<1>6. Withdrawn'
  BY DEF Play, Issue, Withdrawn, Tickets
<1>7. HashesKept'
  BY DEF Play, Issue, HashesKept, InfoReadable, Tickets, Unpaired, HandlersOK, Adding
<1>8. TimersRunOn'
  BY DEF Play, Issue, TimersRunOn, Adding, Tickets, Unpaired, HandlersOK
<1>9. Announced'
  BY DEF Play, Issue, Announced, Tickets, PairedMessages, Numbering
<1>10. NoTicketForgotten'
  BY DEF Play, Issue, NoTicketForgotten, InHand, Watched
<1>11. HandlersOK' /\ PairedMessages'
  BY DEF Play, Issue, HandlersOK, PairedMessages, Pairing, Adding
<1> QED BY <1>1, <1>2, <1>3, <1>4, <1>5, <1>6, <1>7, <1>8, <1>9, <1>10, <1>11 DEF MInv

LEMMA OnCloseKeeps ==
  ASSUME MInv, NEW c \in Conns, OnClose(c)
  PROVE  MInv'
<1> USE MatchmakingAssumption DEF MInv, TypeOK, Handlers, Answers, Clients, owners, redis
<1>1. TypeOK'
  <2>1. CASE ticketOf[c] = NoTicket
    BY <2>1 DEF OnClose
  <2>2. CASE ticketOf[c] # NoTicket
    BY <2>2 DEF OnClose
  <2> QED BY <2>1, <2>2
<1>2. Numbering'
  BY DEF OnClose, Numbering, Registry
<1>3. Registry'
  BY DEF OnClose, Registry
<1>4. Withdrawn'
  <2>1. ticketOf[c] # NoTicket => ticketOf[c] \in Tickets /\ ticketOf[c] <= issued
    <3> SUFFICES ASSUME ticketOf[c] # NoTicket
                 PROVE  ticketOf[c] \in Tickets /\ ticketOf[c] <= issued
      OBVIOUS
    <3>1. ticketOf[c] \in Tickets /\ client[ticketOf[c]] # NoClient
      BY DEF Registry
    <3>2. ~(ticketOf[c] > issued)
      BY <3>1 DEF Numbering
    <3> QED BY <3>1, <3>2 DEF Tickets
  <2>2. \A u \in Tickets : client[u] = NoClient => client'[u] = NoClient
    BY DEF OnClose
  <2>3. ASSUME NEW m \in cancelled' PROVE m[2] <= issued' /\ client'[m[2]] = NoClient
    <3>1. CASE m \in cancelled
      BY <2>2, <3>1 DEF OnClose, Withdrawn
    <3>2. CASE m \notin cancelled
      <4>1. ticketOf[c] # NoTicket /\ m \in Replicas \X {ticketOf[c]}
        BY <2>3, <3>2 DEF OnClose
      <4> QED BY <2>1, <4>1 DEF OnClose
    <3> QED BY <3>1, <3>2
  <2> QED BY <2>3 DEF Withdrawn
<1>5. HashesKept'
  BY DEF OnClose, HashesKept, InfoReadable, HandlersOK
<1>6. Announced'
  BY DEF OnClose, Announced
<1>7. NoTicketForgotten'
  BY DEF OnClose, NoTicketForgotten, InHand, Watched
<1>8. HandlersOK' /\ Unpaired' /\ OnePlace' /\ PairedMessages' /\ TimersRunOn'
  BY DEF OnClose, HandlersOK, Unpaired, OnePlace, PairedMessages, TimersRunOn, Pairing, Adding
<1> QED BY <1>1, <1>2, <1>3, <1>4, <1>5, <1>6, <1>7, <1>8 DEF MInv

LEMMA OwnerReceivesKeeps ==
  ASSUME MInv, NEW m \in answers, OwnerReceives(m)
  PROVE  MInv'
<1> USE MatchmakingAssumption DEF MInv, TypeOK, Handlers, Answers, Clients, owners, redis
<1>1. TypeOK'
  BY DEF OwnerReceives, TypeOK
<1>2. Numbering'
  BY DEF OwnerReceives, Numbering
<1>3. Registry'
  BY DEF OwnerReceives, Registry
<1>4. PairedMessages'
  BY DEF OwnerReceives, PairedMessages
<1>5. Withdrawn'
  BY DEF OwnerReceives, Withdrawn
<1>6. HashesKept'
  BY DEF OwnerReceives, HashesKept, InfoReadable, HandlersOK
<1>7. Announced'
  BY DEF OwnerReceives, Announced
<1>8. NoTicketForgotten'
  BY DEF OwnerReceives, NoTicketForgotten, InHand, Watched
<1>9. HandlersOK' /\ Unpaired' /\ OnePlace' /\ TimersRunOn'
  BY DEF OwnerReceives, HandlersOK, Unpaired, OnePlace, TimersRunOn, Pairing, Adding
<1> QED BY <1>1, <1>2, <1>3, <1>4, <1>5, <1>6, <1>7, <1>8, <1>9 DEF MInv

LEMMA OnRequestKeeps ==
  ASSUME MInv, NEW r \in Replicas, NEW t \in requested, OnRequest(r, t)
  PROVE  MInv'
<1> USE MatchmakingAssumption DEF MInv, TypeOK, Handlers, Answers, Clients, owners, redis
<1>1. TypeOK'
  <2>1. t \in Tickets
    OBVIOUS
  <2>2. CASE Continue(r, "hset", t, NoTicket) /\ UNCHANGED <<redis, partner>>
    BY <2>1, <2>2 DEF OnRequest, Continue
  <2>3. ASSUME NEW o \in Found(t), PopFromPool(o),
               \/ Continue(r, "publish", t, o) /\ partner' = [partner EXCEPT ![t] = o, ![o] = t]
               \/ Continue(r, "hset", t, NoTicket) /\ UNCHANGED partner
        PROVE  TypeOK'
    <3>1. o \in Tickets
      BY DEF Found, InRange
    <3>2. handler' \in [Replicas -> Handlers]
      BY <2>1, <2>3, <3>1 DEF Continue
    <3>3. partner' \in [Tickets -> Tickets \cup {NoTicket}]
      BY <2>1, <2>3, <3>1 DEF Continue
    <3> QED BY <2>3, <3>2, <3>3 DEF OnRequest, PopFromPool
  <2> QED BY <2>2, <2>3 DEF OnRequest
<1>2. Numbering'
  BY DEF OnRequest, PopFromPool, Continue, Found, InRange, Numbering, Unpaired
<1>3. HandlersOK'
  <2>1. \A u \in Tickets : partner[u] # NoTicket => partner'[u] # NoTicket
    BY DEF OnRequest, Found, InRange
  <2>2. \A s \in Replicas \ {r} : handler'[s] = handler[s]
    BY DEF OnRequest, Continue
  <2>3. \/ handler'[r] = [pc |-> "hset", ticket |-> t, opponent |-> NoTicket]
        \/ \E o \in pool : /\ handler'[r] = [pc |-> "publish", ticket |-> t, opponent |-> o]
                           /\ partner' = [partner EXCEPT ![t] = o, ![o] = t]
    BY DEF OnRequest, Continue, Found, InRange
  <2>4. ASSUME NEW s \in Replicas \ {r}
        PROVE  /\ handler'[s].pc # "idle" => handler'[s].ticket \in Tickets
               /\ Adding(s)' => handler'[s].opponent = NoTicket
               /\ Pairing(s)' => /\ handler'[s].opponent \in Tickets
                                 /\ partner'[handler'[s].ticket] # NoTicket
                                 /\ partner'[handler'[s].opponent] # NoTicket
    BY <2>1, <2>2 DEF HandlersOK, Adding, Pairing
  <2>5. CASE handler'[r] = [pc |-> "hset", ticket |-> t, opponent |-> NoTicket]
    BY <2>4, <2>5 DEF HandlersOK, Adding, Pairing
  <2>6. ASSUME NEW o \in pool, handler'[r] = [pc |-> "publish", ticket |-> t, opponent |-> o],
               partner' = [partner EXCEPT ![t] = o, ![o] = t]
        PROVE  HandlersOK'
    <3>1. o \in Tickets /\ t \in Tickets
      OBVIOUS
    <3>2. partner'[t] # NoTicket /\ partner'[o] # NoTicket
      BY <2>6, <3>1
    <3> QED BY <2>4, <2>6, <3>1, <3>2 DEF HandlersOK, Adding, Pairing
  <2> QED BY <2>3, <2>5, <2>6
<1>4. Unpaired'
  <2>1. /\ \A s \in Replicas \ {r} : handler'[s] = handler[s]
        /\ Adding(r)' => handler'[r].ticket = t /\ partner' = partner
    BY DEF OnRequest, Continue, Adding
  <2>2. requested' = requested \ {t} /\ pool' \subseteq pool /\ issued' = issued
    BY DEF OnRequest, PopFromPool
  <2>3. \A u \in Tickets : u # t /\ (u \in pool => u \in pool') => partner'[u] = partner[u]
    BY DEF OnRequest, PopFromPool, Found, InRange
  <2>4. ASSUME NEW u \in requested' \cup pool' PROVE u <= issued' /\ partner'[u] = NoTicket
    BY <2>2, <2>3 DEF Unpaired, OnePlace
  <2>5. ASSUME NEW s \in Replicas, Adding(s)'
        PROVE  handler'[s].ticket <= issued' /\ partner'[handler'[s].ticket] = NoTicket
    <3>1. CASE s = r
      BY <2>1, <2>2, <2>5, <3>1 DEF Unpaired
    <3>2. CASE s # r
      <4>1. /\ Adding(s) /\ handler'[s].ticket = handler[s].ticket
            /\ handler[s].ticket \in Tickets /\ handler[s].ticket \notin requested \cup pool
        BY <2>1, <2>5, <3>2 DEF Adding, HandlersOK, OnePlace
      <4> QED BY <2>2, <2>3, <4>1 DEF Unpaired
    <3> QED BY <3>1, <3>2
  <2> QED BY <2>4, <2>5 DEF Unpaired
<1>5. OnePlace'
  <2>1. \A s \in Replicas : Adding(s)' =>
          (s # r /\ Adding(s) /\ handler'[s] = handler[s]) \/ (s = r /\ handler'[s].ticket = t)
    BY DEF OnRequest, Continue, Adding
  <2>2. requested' = requested \ {t} /\ pool' \subseteq pool
    BY DEF OnRequest, PopFromPool
  <2> QED BY <2>1, <2>2 DEF OnePlace
<1>6. PairedMessages'
  <2>1. \A u \in Tickets : partner[u] # NoTicket => partner'[u] # NoTicket
    BY DEF OnRequest, Found, InRange
  <2> QED BY <2>1 DEF OnRequest, PairedMessages
<1>7. HashesKept'
  <2>1. \A u \in pool' : u \in pool /\ (u \in info => u \in info')
    BY DEF OnRequest, PopFromPool
  <2>2. ASSUME NEW s \in Replicas, handler'[s].pc = "zadd"
        PROVE  /\ handler'[s] = handler[s] /\ handler[s].ticket \in Tickets
               /\ handler[s].ticket \in info => handler[s].ticket \in info'
    <3>1. s # r /\ handler'[s] = handler[s]
      BY <2>2 DEF OnRequest, Continue
    <3>2. handler[s].ticket \in Tickets /\ handler[s].ticket \notin pool
      BY <2>2, <3>1 DEF HandlersOK, OnePlace, Adding
    <3> QED BY <3>1, <3>2 DEF OnRequest, PopFromPool, Found, InRange
  <2> QED BY <2>1, <2>2 DEF OnRequest, HashesKept, InfoReadable
<1>8. TimersRunOn'
  <2>1. \A s \in Replicas : Adding(s)' => (Adding(s) /\ handler'[s] = handler[s]) \/ handler'[s].ticket = t
    BY DEF OnRequest, Continue, Adding
  <2>2. timer[t] = "off"
    BY DEF TimersRunOn
  <2> QED BY <2>1, <2>2 DEF OnRequest, TimersRunOn
<1>9. NoTicketForgotten'
  <2> SUFFICES ASSUME NEW u \in Tickets, client[u] # NoClient, u # t, u \notin requested,
                      ~InHand(u)', u \in pool => u \in pool'
               PROVE  InHand(u) => FALSE
    <3>1. InHand(t)'
      BY DEF OnRequest, Continue, InHand
    <3>2. ASSUME NEW u \in pool, u \notin pool', client[u] # NoClient PROVE InHand(u)'
      BY <3>2 DEF OnRequest, Continue, PopFromPool, InHand, HashesKept, InfoReadable
    <3> QED BY <3>1, <3>2 DEF OnRequest, NoTicketForgotten, Watched
  <2> QED BY DEF OnRequest, Continue, InHand
<1>10. Registry' /\ Withdrawn' /\ Announced'
  BY DEF OnRequest, PopFromPool, Continue, Found, InRange, Registry, Withdrawn, Announced
<1> QED BY <1>1, <1>2, <1>3, <1>4, <1>5, <1>6, <1>7, <1>8, <1>9, <1>10 DEF MInv

LEMMA HSetKeeps ==
  ASSUME MInv, NEW r \in Replicas, HSet(r)
  PROVE  MInv'
<1> USE MatchmakingAssumption DEF MInv, TypeOK, Handlers, Answers, Clients, owners, redis
<1>1. TypeOK'
  BY DEF HSet, Continue, TypeOK, HandlersOK
<1>2. HandlersOK'
  BY DEF HSet, Continue, HandlersOK, Pairing, Adding
<1>3. Unpaired'
  BY DEF HSet, Continue, Unpaired, Adding
<1>4. OnePlace'
  BY DEF HSet, Continue, OnePlace, Adding
<1>5. HashesKept'
  BY DEF HSet, Continue, HashesKept, InfoReadable
<1>6. TimersRunOn'
  BY DEF HSet, Continue, TimersRunOn, Adding
<1>7. NoTicketForgotten'
  <2>1. ASSUME NEW u \in Tickets, InHand(u) PROVE InHand(u)'
    <3>1. PICK s \in Replicas : handler[s].pc # "idle" /\ u \in {handler[s].ticket, handler[s].opponent}
      BY <2>1 DEF InHand
    <3>2. CASE s = r
      BY <3>1, <3>2 DEF HSet, Continue, InHand, HandlersOK, Adding
    <3>3. CASE s # r
      BY <3>1, <3>3 DEF HSet, Continue, InHand
    <3> QED BY <3>2, <3>3
  <2> QED BY <2>1 DEF HSet, NoTicketForgotten, Watched
<1>8. Numbering' /\ Registry' /\ PairedMessages' /\ Withdrawn' /\ Announced'
  BY DEF HSet, Continue, Numbering, Registry, PairedMessages, Withdrawn, Announced
<1> QED BY <1>1, <1>2, <1>3, <1>4, <1>5, <1>6, <1>7, <1>8 DEF MInv

LEMMA ZAddKeeps ==
  ASSUME MInv, NEW r \in Replicas, ZAdd(r)
  PROVE  MInv'
<1> USE MatchmakingAssumption DEF MInv, TypeOK, Handlers, Answers, Clients, owners, redis
<1>1. TypeOK'
  BY DEF ZAdd, Continue, TypeOK, HandlersOK
<1>2. HandlersOK'
  BY DEF ZAdd, Continue, HandlersOK, Pairing, Adding
<1>3. Unpaired'
  BY DEF ZAdd, Continue, Unpaired, Adding
<1>4. OnePlace'
  BY DEF ZAdd, Continue, OnePlace, Adding
<1>5. HashesKept'
  BY DEF ZAdd, Continue, HashesKept, InfoReadable
<1>6. TimersRunOn'
  <2>1. \A s \in Replicas : Adding(s)' => s # r /\ Adding(s) /\ handler'[s] = handler[s]
    BY DEF ZAdd, Continue, Adding
  <2>2. /\ handler[r].ticket \in Tickets /\ handler[r].ticket <= issued
        /\ handler[r].ticket \notin requested
        /\ \A s \in Replicas : Adding(s) /\ handler[s].ticket = handler[r].ticket => s = r
    BY DEF ZAdd, Adding, HandlersOK, Unpaired, OnePlace
  <2> QED BY <2>1, <2>2 DEF ZAdd, TimersRunOn
<1>7. NoTicketForgotten'
  <2>1. ASSUME NEW u \in Tickets, InHand(u)
        PROVE  InHand(u)' \/ (u \in pool' /\ timer'[u] # "off")
    <3>1. PICK s \in Replicas : handler[s].pc # "idle" /\ u \in {handler[s].ticket, handler[s].opponent}
      BY <2>1 DEF InHand
    <3>2. CASE s = r
      BY <3>1, <3>2 DEF ZAdd, HandlersOK, Adding
    <3>3. CASE s # r
      BY <3>1, <3>3 DEF ZAdd, Continue, InHand
    <3> QED BY <3>2, <3>3
  <2>2. \A u \in Tickets : timer[u] # "off" => timer'[u] # "off"
    BY DEF ZAdd
  <2> QED BY <2>1, <2>2 DEF ZAdd, NoTicketForgotten, Watched
<1>8. Numbering' /\ Registry' /\ PairedMessages' /\ Withdrawn' /\ Announced'
  BY DEF ZAdd, Continue, Numbering, Registry, PairedMessages, Withdrawn, Announced
<1> QED BY <1>1, <1>2, <1>3, <1>4, <1>5, <1>6, <1>7, <1>8 DEF MInv

LEMMA PublishMatchedKeeps ==
  ASSUME MInv, NEW r \in Replicas, PublishMatched(r)
  PROVE  MInv'
<1> USE MatchmakingAssumption DEF MInv, TypeOK, Handlers, Answers, Clients, owners, redis
<1>1. TypeOK'
  <2>1. handler[r].ticket \in Tickets /\ handler[r].opponent \in Tickets
    BY DEF PublishMatched, HandlersOK, Pairing
  <2>2. handler' \in [Replicas -> Handlers]
    BY <2>1 DEF PublishMatched, Continue
  <2> QED BY <2>1, <2>2 DEF PublishMatched
<1>2. HandlersOK'
  BY DEF PublishMatched, Continue, HandlersOK, Pairing, Adding
<1>3. Unpaired'
  BY DEF PublishMatched, Continue, Unpaired, Adding
<1>4. OnePlace'
  BY DEF PublishMatched, Continue, OnePlace, Adding
<1>5. PairedMessages'
  <2>1. /\ partner[handler[r].ticket] # NoTicket
        /\ partner[handler[r].opponent] # NoTicket
    BY DEF PublishMatched, HandlersOK, Pairing
  <2> QED BY <2>1 DEF PublishMatched, PairedMessages
<1>6. HashesKept'
  BY DEF PublishMatched, Continue, HashesKept, InfoReadable
<1>7. TimersRunOn'
  BY DEF PublishMatched, Continue, TimersRunOn, Adding
<1>8. NoTicketForgotten'
  <2>1. ASSUME NEW u \in Tickets, InHand(u) PROVE InHand(u)'
    <3>1. PICK s \in Replicas : handler[s].pc # "idle" /\ u \in {handler[s].ticket, handler[s].opponent}
      BY <2>1 DEF InHand
    <3>2. handler'[s].pc # "idle" /\ u \in {handler'[s].ticket, handler'[s].opponent}
      BY <3>1 DEF PublishMatched, Continue
    <3> QED BY <3>2 DEF InHand
  <2> QED BY <2>1 DEF PublishMatched, NoTicketForgotten, Watched
<1>9. Numbering' /\ Registry' /\ Withdrawn' /\ Announced'
  BY DEF PublishMatched, Continue, Numbering, Registry, Withdrawn, Announced
<1> QED BY <1>1, <1>2, <1>3, <1>4, <1>5, <1>6, <1>7, <1>8, <1>9 DEF MInv

LEMMA WatchForAssignmentKeeps ==
  ASSUME MInv, NEW r \in Replicas, WatchForAssignment(r)
  PROVE  MInv'
<1> USE MatchmakingAssumption DEF MInv, TypeOK, Handlers, Answers, Clients, owners, redis
<1>1. TypeOK'
  <2>1. handler[r].ticket \in Tickets /\ handler[r].opponent \in Tickets
    BY DEF WatchForAssignment, HandlersOK, Pairing
  <2>2. handler' \in [Replicas -> Handlers]
    BY <2>1 DEF WatchForAssignment, Continue
  <2>3. pending' \in [Replicas -> SUBSET Tickets]
    BY <2>1 DEF WatchForAssignment
  <2> QED BY <2>1, <2>2, <2>3 DEF WatchForAssignment
<1>2. HandlersOK'
  BY DEF WatchForAssignment, Continue, HandlersOK, Pairing, Adding
<1>3. Unpaired'
  BY DEF WatchForAssignment, Continue, Unpaired, Adding
<1>4. OnePlace'
  BY DEF WatchForAssignment, Continue, OnePlace, Adding
<1>5. HashesKept'
  BY DEF WatchForAssignment, Continue, HashesKept, InfoReadable
<1>6. TimersRunOn'
  BY DEF WatchForAssignment, Continue, TimersRunOn, Adding
<1>7. NoTicketForgotten'
  <2>1. \A s \in Replicas : pending[s] \subseteq pending'[s]
    BY DEF WatchForAssignment
  <2>2. ASSUME NEW u \in Tickets, Watched(u) PROVE Watched(u)'
    <3>1. PICK w \in watchdogs : u \in {w[2], w[3]} /\ u \in pending[w[1]]
      BY <2>2 DEF Watched
    <3>2. w \in watchdogs' /\ u \in pending'[w[1]]
      BY <2>1, <3>1 DEF WatchForAssignment
    <3> QED BY <3>1, <3>2 DEF Watched
  <2>3. ASSUME NEW u \in Tickets, InHand(u) PROVE InHand(u)' \/ Watched(u)'
    <3>1. PICK s \in Replicas : handler[s].pc # "idle" /\ u \in {handler[s].ticket, handler[s].opponent}
      BY <2>3 DEF InHand
    <3>2. CASE s = r
      <4>1. PICK w : w = <<r, handler[r].opponent, handler[r].ticket>>
        OBVIOUS
      <4>2. w \in watchdogs' /\ u \in {w[2], w[3]} /\ u \in pending'[w[1]]
        BY <3>1, <3>2, <4>1 DEF WatchForAssignment
      <4> QED BY <4>2 DEF Watched
    <3>3. CASE s # r
      BY <3>1, <3>3 DEF WatchForAssignment, Continue, InHand
    <3> QED BY <3>2, <3>3
  <2> QED BY <2>2, <2>3 DEF WatchForAssignment, NoTicketForgotten
<1>8. Numbering' /\ Registry' /\ PairedMessages' /\ Withdrawn' /\ Announced'
  BY DEF WatchForAssignment, Continue, Numbering, Registry, PairedMessages, Withdrawn, Announced
<1> QED BY <1>1, <1>2, <1>3, <1>4, <1>5, <1>6, <1>7, <1>8 DEF MInv

LEMMA OnCancelKeeps ==
  ASSUME MInv, NEW r \in Replicas, NEW t \in Tickets, <<r, t>> \in cancelled, OnCancel(r, t)
  PROVE  MInv'
<1> USE MatchmakingAssumption DEF MInv, TypeOK, Handlers, Answers, Clients, owners, redis
<1>1. TypeOK'
  BY DEF OnCancel, RemoveFromPool, TypeOK
<1>2. Unpaired'
  BY DEF OnCancel, RemoveFromPool, Unpaired, Adding
<1>3. OnePlace'
  BY DEF OnCancel, RemoveFromPool, OnePlace, Adding
<1>4. Withdrawn'
  BY DEF OnCancel, RemoveFromPool, Withdrawn
<1>5. HashesKept'
  <2>1. client[t] = NoClient
    BY DEF Withdrawn
  <2> QED BY <2>1 DEF OnCancel, RemoveFromPool, HashesKept, InfoReadable, HandlersOK
<1>6. NoTicketForgotten'
  <2>1. client[t] = NoClient
    BY DEF Withdrawn
  <2> QED BY <2>1 DEF OnCancel, RemoveFromPool, NoTicketForgotten, InHand, Watched
<1>7. Numbering' /\ Registry' /\ HandlersOK' /\ PairedMessages' /\ TimersRunOn' /\ Announced'
  BY DEF OnCancel, RemoveFromPool, Numbering, Registry, HandlersOK, PairedMessages, TimersRunOn, Announced, Pairing, Adding
<1> QED BY <1>1, <1>2, <1>3, <1>4, <1>5, <1>6, <1>7 DEF MInv

LEMMA OnAssignedKeeps ==
  ASSUME MInv, NEW r \in Replicas, NEW a \in Tickets, NEW b \in Tickets, <<r, a, b>> \in assigned, OnAssigned(r, a, b)
  PROVE  MInv'
<1> USE MatchmakingAssumption DEF MInv, TypeOK, Handlers, Answers, Clients, owners, redis
<1>1. TypeOK'
  BY DEF OnAssigned, TypeOK
<1>2. PairedMessages'
  BY DEF OnAssigned, PairedMessages
<1>3. Announced'
  BY DEF OnAssigned, Announced
<1>4. NoTicketForgotten'
  <2>1. ASSUME NEW u \in Tickets, client[u] # NoClient, Watched(u)
        PROVE  Watched(u)' \/ \E m \in answers : m.ticket = u
    <3>1. PICK w \in watchdogs : u \in {w[2], w[3]} /\ u \in pending[w[1]]
      BY <2>1 DEF Watched
    <3>2. CASE u \in {a, b}
      BY <2>1, <3>2 DEF Announced
    <3>3. CASE u \notin {a, b}
      <4>1. u \in pending'[w[1]]
        BY <3>1, <3>3 DEF OnAssigned
      <4> QED BY <3>1, <4>1 DEF OnAssigned, Watched
    <3> QED BY <3>2, <3>3
  <2> QED BY <2>1 DEF OnAssigned, NoTicketForgotten, InHand
<1>5. Numbering' /\ Registry' /\ HandlersOK' /\ Unpaired' /\ OnePlace' /\ Withdrawn' /\ HashesKept' /\ TimersRunOn'
  BY DEF OnAssigned, Numbering, Registry, HandlersOK, Unpaired, OnePlace, Withdrawn, HashesKept, TimersRunOn, Pairing, Adding, InfoReadable
<1> QED BY <1>1, <1>2, <1>3, <1>4, <1>5 DEF MInv

LEMMA SearchTimeoutChecksKeeps ==
  ASSUME MInv, NEW t \in Tickets, SearchTimeoutChecks(t)
  PROVE  MInv'
<1> USE MatchmakingAssumption DEF MInv, TypeOK, Handlers, Answers, Clients, owners, redis
<1>1. TypeOK'
  BY DEF SearchTimeoutChecks, TypeOK
<1>2. TimersRunOn'
  BY DEF SearchTimeoutChecks, TimersRunOn, Adding
<1>3. NoTicketForgotten'
  BY DEF SearchTimeoutChecks, NoTicketForgotten, InHand, Watched
<1>4. Numbering' /\ Registry' /\ HandlersOK' /\ Unpaired' /\ OnePlace' /\ PairedMessages' /\ Withdrawn' /\ HashesKept' /\ Announced'
  BY DEF SearchTimeoutChecks, Numbering, Registry, HandlersOK, Unpaired, OnePlace, PairedMessages, Withdrawn, HashesKept, Announced, Pairing, Adding, InfoReadable
<1> QED BY <1>1, <1>2, <1>3, <1>4 DEF MInv

LEMMA SearchTimeoutFiresKeeps ==
  ASSUME MInv, NEW t \in Tickets, SearchTimeoutFires(t)
  PROVE  MInv'
<1> USE MatchmakingAssumption DEF MInv, TypeOK, Handlers, Answers, Clients, owners, redis
<1>1. TypeOK'
  BY DEF SearchTimeoutFires, RemoveFromPool, TypeOK
<1>2. Unpaired'
  BY DEF SearchTimeoutFires, RemoveFromPool, Unpaired, Adding
<1>3. OnePlace'
  BY DEF SearchTimeoutFires, RemoveFromPool, OnePlace, Adding
<1>4. PairedMessages'
  BY DEF SearchTimeoutFires, RemoveFromPool, PairedMessages
<1>5. HashesKept'
  <2>1. \A s \in Replicas : handler[s].pc = "zadd" => handler[s].ticket # t
    BY DEF SearchTimeoutFires, TimersRunOn, Adding
  <2> QED BY <2>1 DEF SearchTimeoutFires, RemoveFromPool, HashesKept, InfoReadable
<1>6. TimersRunOn'
  BY DEF SearchTimeoutFires, RemoveFromPool, TimersRunOn, Adding
<1>7. Announced'
  BY DEF SearchTimeoutFires, RemoveFromPool, Announced
<1>8. NoTicketForgotten'
  <2>1. \E m \in answers' : m.ticket = t
    <3>1. [ticket |-> t, event |-> "searchTimeout"] \in answers'
      BY DEF SearchTimeoutFires
    <3> QED BY <3>1
  <2>2. \A u \in Tickets : (\E m \in answers : m.ticket = u) => \E m \in answers' : m.ticket = u
    BY DEF SearchTimeoutFires
  <2>3. \A u \in Tickets \ {t} : u \in pool /\ timer[u] # "off" => u \in pool' /\ timer'[u] # "off"
    BY DEF SearchTimeoutFires, RemoveFromPool
  <2>4. \A u \in Tickets : (InHand(u) => InHand(u)') /\ (Watched(u) => Watched(u)')
    BY DEF SearchTimeoutFires, InHand, Watched
  <2>5. UNCHANGED <<client, requested>>
    BY DEF SearchTimeoutFires
  <2> QED BY <2>1, <2>2, <2>3, <2>4, <2>5 DEF NoTicketForgotten
<1>9. Numbering' /\ Registry' /\ HandlersOK' /\ Withdrawn'
  BY DEF SearchTimeoutFires, RemoveFromPool, Numbering, Registry, HandlersOK, Withdrawn, Pairing, Adding
<1> QED BY <1>1, <1>2, <1>3, <1>4, <1>5, <1>6, <1>7, <1>8, <1>9 DEF MInv

LEMMA WatchdogFiresKeeps ==
  ASSUME MInv, NEW r \in Replicas, NEW a \in Tickets, NEW b \in Tickets, <<r, a, b>> \in watchdogs, WatchdogFires(r, a, b)
  PROVE  MInv'
<1> USE MatchmakingAssumption DEF MInv, TypeOK, Handlers, Answers, Clients, owners, redis
<1>1. TypeOK'
  BY DEF WatchdogFires, TypeOK
<1>2. PairedMessages'
  BY DEF WatchdogFires, PairedMessages
<1>3. Announced'
  BY DEF WatchdogFires, Announced
<1>4. NoTicketForgotten'
  <2>1. \A u \in {a, b} \cap pending[r] : \E m \in answers' : m.ticket = u
    <3>1. ASSUME NEW u \in {a, b} \cap pending[r] PROVE \E m \in answers' : m.ticket = u
      <4>1. [ticket |-> u, event |-> "assignTimeout"] \in answers'
        BY DEF WatchdogFires
      <4> QED BY <4>1
    <3> QED BY <3>1
  <2>2. ASSUME NEW u \in Tickets, Watched(u)
        PROVE  Watched(u)' \/ \E m \in answers' : m.ticket = u
    <3>1. PICK w \in watchdogs : u \in {w[2], w[3]} /\ u \in pending[w[1]]
      BY <2>2 DEF Watched
    <3>2. CASE w[1] = r /\ u \in {a, b}
      BY <2>1, <3>1, <3>2
    <3>3. CASE w[1] # r \/ u \notin {a, b}
      <4>1. w # <<r, a, b>>
        BY <3>1, <3>3
      <4>2. w \in watchdogs' /\ u \in pending'[w[1]]
        BY <3>1, <3>3, <4>1 DEF WatchdogFires
      <4> QED BY <3>1, <4>2 DEF Watched
    <3> QED BY <3>2, <3>3
  <2>3. \A u \in Tickets : (\E m \in answers : m.ticket = u) => \E m \in answers' : m.ticket = u
    BY DEF WatchdogFires
  <2>4. \A u \in Tickets : InHand(u) => InHand(u)'
    BY DEF WatchdogFires, InHand
  <2>5. UNCHANGED <<client, requested, pool, timer>>
    BY DEF WatchdogFires
  <2> QED BY <2>2, <2>3, <2>4, <2>5 DEF NoTicketForgotten
<1>5. Numbering' /\ Registry' /\ HandlersOK' /\ Unpaired' /\ OnePlace' /\ Withdrawn' /\ HashesKept' /\ TimersRunOn'
  BY DEF WatchdogFires, Numbering, Registry, HandlersOK, Unpaired, OnePlace, Withdrawn, HashesKept, TimersRunOn, Pairing, Adding, InfoReadable
<1> QED BY <1>1, <1>2, <1>3, <1>4, <1>5 DEF MInv

LEMMA AllocateKeeps ==
  ASSUME MInv, NEW a \in Tickets, NEW b \in Tickets, <<a, b>> \in matched, Allocate(a, b)
  PROVE  MInv'
<1> USE MatchmakingAssumption DEF MInv, TypeOK, Handlers, Answers, Clients, owners, redis
<1>1. TypeOK'
  BY DEF Allocate, TypeOK
<1>2. PairedMessages'
  BY DEF Allocate, PairedMessages
<1>3. Announced'
  <2>1. \A u \in {a, b} : \E n \in answers' : n.ticket = u
    <3>1. ASSUME NEW u \in {a, b} PROVE \E n \in answers' : n.ticket = u
      <4>1. [ticket |-> u, event |-> "assigned"] \in answers'
        BY DEF Allocate
      <4> QED BY <4>1
    <3> QED BY <3>1
  <2>2. \A u \in Tickets : (\E m \in answers : m.ticket = u) => \E m \in answers' : m.ticket = u
    BY DEF Allocate
  <2>3. ASSUME NEW m \in assigned', m \notin assigned PROVE m[2] = a /\ m[3] = b
    BY <2>3 DEF Allocate
  <2> QED BY <2>1, <2>2, <2>3 DEF Allocate, Announced
<1>4. NoTicketForgotten'
  BY DEF Allocate, NoTicketForgotten, InHand, Watched
<1>5. Numbering' /\ Registry' /\ HandlersOK' /\ Unpaired' /\ OnePlace' /\ Withdrawn' /\ HashesKept' /\ TimersRunOn'
  BY DEF Allocate, Numbering, Registry, HandlersOK, Unpaired, OnePlace, Withdrawn, HashesKept, TimersRunOn, Pairing, Adding, InfoReadable
<1> QED BY <1>1, <1>2, <1>3, <1>4, <1>5 DEF MInv

LEMMA DropMatchKeeps ==
  ASSUME MInv, NEW a \in Tickets, NEW b \in Tickets, <<a, b>> \in matched, DropMatch(a, b)
  PROVE  MInv'
<1> USE MatchmakingAssumption DEF MInv, TypeOK, Handlers, Answers, Clients, owners, redis
<1>1. TypeOK'
  BY DEF DropMatch, TypeOK
<1>2. PairedMessages'
  BY DEF DropMatch, PairedMessages
<1>3. Numbering' /\ Registry' /\ HandlersOK' /\ Unpaired' /\ OnePlace' /\ Withdrawn' /\ HashesKept' /\ TimersRunOn' /\ Announced' /\ NoTicketForgotten'
  BY DEF DropMatch, Numbering, Registry, HandlersOK, Unpaired, OnePlace, Withdrawn, HashesKept, TimersRunOn, Announced, NoTicketForgotten, Pairing, Adding, InfoReadable, InHand, Watched
<1> QED BY <1>1, <1>2, <1>3 DEF MInv
-----------------------------------------------------------------------------
LEMMA InitMInv == Init => MInv
BY MatchmakingAssumption
DEF Init, MInv, TypeOK, Numbering, Registry, HandlersOK, Unpaired, OnePlace, PairedMessages,
    Withdrawn, HashesKept, InfoReadable, TimersRunOn, Announced, NoTicketForgotten, Idle,
    Handlers, Adding, Pairing, Tickets

LEMMA NextMInv == MInv /\ [Next]_vars => MInv'
<1> SUFFICES ASSUME MInv, [Next]_vars PROVE MInv'
  OBVIOUS
<1>1. CASE UNCHANGED vars
  BY <1>1
  DEF vars, owners, redis, MInv, TypeOK, Numbering, Registry, HandlersOK, Unpaired, OnePlace,
      PairedMessages, Withdrawn, HashesKept, InfoReadable, TimersRunOn, Announced,
      NoTicketForgotten, InHand, Watched, Adding, Pairing
<1>2. CASE ClientStep
  BY <1>2, FindGameKeeps, OnCloseKeeps, PlayKeeps DEF ClientStep
<1>3. CASE ServiceStep
  <2>1. ASSUME NEW r \in Replicas, NEW t \in requested, OnRequest(r, t) PROVE MInv'
    BY <2>1, OnRequestKeeps
  <2>2. ASSUME NEW r \in Replicas, HandlerStep(r) PROVE MInv'
    BY <2>2, HSetKeeps, ZAddKeeps, PublishMatchedKeeps, WatchForAssignmentKeeps DEF HandlerStep
  <2>3. ASSUME NEW m \in cancelled, OnCancel(m[1], m[2]) PROVE MInv'
    <3>1. m[1] \in Replicas /\ m[2] \in Tickets /\ <<m[1], m[2]>> \in cancelled
      BY DEF MInv, TypeOK
    <3> QED BY <2>3, <3>1, OnCancelKeeps
  <2>4. ASSUME NEW m \in assigned, OnAssigned(m[1], m[2], m[3]) PROVE MInv'
    <3>1. /\ m[1] \in Replicas /\ m[2] \in Tickets /\ m[3] \in Tickets
          /\ <<m[1], m[2], m[3]>> \in assigned
      BY DEF MInv, TypeOK
    <3> QED BY <2>4, <3>1, OnAssignedKeeps
  <2>5. ASSUME NEW t \in Tickets, TimerStep(t) PROVE MInv'
    BY <2>5, SearchTimeoutChecksKeeps, SearchTimeoutFiresKeeps DEF TimerStep
  <2>6. ASSUME NEW m \in watchdogs, WatchdogFires(m[1], m[2], m[3]) PROVE MInv'
    <3>1. /\ m[1] \in Replicas /\ m[2] \in Tickets /\ m[3] \in Tickets
          /\ <<m[1], m[2], m[3]>> \in watchdogs
      BY DEF MInv, TypeOK
    <3> QED BY <2>6, <3>1, WatchdogFiresKeeps
  <2>7. ASSUME NEW m \in matched, Allocate(m[1], m[2]) \/ DropMatch(m[1], m[2]) PROVE MInv'
    <3>1. m[1] \in Tickets /\ m[2] \in Tickets /\ <<m[1], m[2]>> \in matched
      BY DEF MInv, TypeOK
    <3> QED BY <2>7, <3>1, AllocateKeeps, DropMatchKeeps
  <2>8. ASSUME NEW m \in answers, OwnerReceives(m) PROVE MInv'
    BY <2>8, OwnerReceivesKeeps
  <2> QED BY <1>3, <2>1, <2>2, <2>3, <2>4, <2>5, <2>6, <2>7, <2>8 DEF ServiceStep
<1> QED BY <1>1, <1>2, <1>3 DEF Next

\* The inductive invariant holds in every reachable state.
THEOREM MatchmakingInvariance == Spec => []MInv
BY InitMInv, NextMInv, PTL DEF Spec

\* The tables, the pool, the handlers and the messages keep their types.
THEOREM MatchmakingTypeCorrect == Spec => []TypeOK
<1>1. MInv => TypeOK
  BY DEF MInv
<1> QED BY <1>1, MatchmakingInvariance, PTL

\* findMatch never finds a waiting player's ticket without its hash, whatever
\* other replicas do between addToPool's HSET and ZADD.
THEOREM InfoAlwaysReadable == Spec => []InfoReadable
<1>1. MInv => InfoReadable
  BY DEF MInv, HashesKept
<1> QED BY <1>1, MatchmakingInvariance, PTL

\* Whoever waits on a ticket has a timer, a watchdog, a handler or a message
\* that will lead to an answer.
THEOREM NoTicketIsForgotten == Spec => []NoTicketForgotten
<1>1. MInv => NoTicketForgotten
  BY DEF MInv
<1> QED BY <1>1, MatchmakingInvariance, PTL

-----------------------------------------------------------------------------
(* Matchmaking implements TicketService.                                   *)

\* A request that finds a live opponent pairs the two; any other changes nothing.
LEMMA RequestPairs ==
  ASSUME MInv, NEW r \in Replicas, NEW t \in requested, OnRequest(r, t)
  PROVE  [TS!Next]_(TS!vars)
<1>1. CASE UNCHANGED partner
  BY <1>1 DEF OnRequest, owners, TS!vars
<1>2. ASSUME NEW o \in Found(t), partner' = [partner EXCEPT ![t] = o, ![o] = t]
      PROVE  TS!Next
  <2>1. /\ t \in Tickets /\ o \in Tickets /\ o # t
        /\ partner[t] = NoTicket /\ partner[o] = NoTicket
        /\ t <= issued /\ o <= issued
    BY DEF MInv, TypeOK, OnePlace, Unpaired, Found, InRange
  <2>2. outcome[t] # "unissued" /\ outcome[o] # "unissued"
    BY <2>1 DEF MInv, TypeOK, Numbering, Tickets
  <2>3. TS!Pair(t, o)
    BY <1>2, <2>1, <2>2 DEF OnRequest, owners, TS!Pair
  <2> QED BY <2>1, <2>3 DEF TS!Next
<1> QED BY <1>1, <1>2 DEF OnRequest

\* An answer settles its ticket if someone still waits on it.
LEMMA AnswerSettles ==
  ASSUME MInv, NEW m \in answers, OwnerReceives(m)
  PROVE  [TS!Next]_(TS!vars)
<1>1. CASE client[m.ticket] = NoClient
  BY <1>1 DEF OwnerReceives, TS!vars
<1>2. CASE client[m.ticket] # NoClient
  <2>1. m.ticket \in Tickets /\ outcome[m.ticket] = "waiting"
    BY <1>2 DEF MInv, TypeOK, Answers, Numbering
  <2>2. CASE m.event = "assigned"
    <3>1. TS!Settle(m.ticket, "game")
      BY <1>2, <2>1, <2>2 DEF OwnerReceives, TS!Settle, MInv, PairedMessages
    <3> QED BY <2>1, <3>1 DEF TS!Next
  <2>3. CASE m.event # "assigned"
    <3>1. TS!Settle(m.ticket, "refused")
      BY <1>2, <2>1, <2>3 DEF OwnerReceives, TS!Settle
    <3> QED BY <2>1, <3>1 DEF TS!Next
  <2> QED BY <2>2, <2>3
<1> QED BY <1>1, <1>2

\* A closing connection settles the ticket it waits on.
LEMMA CloseSettles ==
  ASSUME MInv, NEW c \in Conns, OnClose(c)
  PROVE  [TS!Next]_(TS!vars)
<1>1. CASE ticketOf[c] = NoTicket
  BY <1>1 DEF OnClose, TS!vars
<1>2. CASE ticketOf[c] # NoTicket
  <2>1. ticketOf[c] \in Tickets /\ outcome[ticketOf[c]] = "waiting"
    BY <1>2, MatchmakingAssumption DEF MInv, TypeOK, Registry, Numbering, Clients
  <2>2. TS!Settle(ticketOf[c], "left")
    BY <1>2, <2>1 DEF OnClose, TS!Settle
  <2> QED BY <2>1, <2>2 DEF TS!Next
<1> QED BY <1>1, <1>2

\* A search issues a ticket that was not issued before.
LEMMA SearchIssues ==
  ASSUME MInv, NEW c \in Clients, Issue(c), UNCHANGED partner
  PROVE  TS!Next
<1>1. issued + 1 \in Tickets /\ outcome[issued + 1] = "unissued"
  BY DEF Issue, MInv, TypeOK, Numbering, Tickets
<1>2. TS!Issue(issued + 1)
  BY <1>1 DEF Issue, TS!Issue
<1> QED BY <1>1, <1>2 DEF TS!Next

LEMMA StepSimulation == MInv /\ [Next]_vars => [TS!Next]_(TS!vars)
<1> SUFFICES ASSUME MInv, [Next]_vars PROVE [TS!Next]_(TS!vars)
  OBVIOUS
<1>1. CASE UNCHANGED vars
  BY <1>1 DEF vars, owners, TS!vars
<1>2. CASE ClientStep
  <2>1. ASSUME NEW c \in Conns, FindGame(c) PROVE TS!Next
    BY <2>1, SearchIssues DEF FindGame, Clients
  <2>2. ASSUME NEW c \in Requests, Play(c) PROVE TS!Next
    BY <2>2, SearchIssues DEF Play, Clients
  <2> QED BY <1>2, <2>1, <2>2, CloseSettles DEF ClientStep
<1>3. CASE ServiceStep
  <2>1. \/ UNCHANGED <<outcome, partner>>
        \/ \E r \in Replicas, t \in requested : OnRequest(r, t)
        \/ \E m \in answers : OwnerReceives(m)
    BY <1>3
    DEF ServiceStep, HandlerStep, TimerStep, HSet, ZAdd, PublishMatched, WatchForAssignment,
        OnCancel, OnAssigned, SearchTimeoutChecks, SearchTimeoutFires, WatchdogFires,
        Allocate, DropMatch, owners
  <2> QED BY <2>1, RequestPairs, AnswerSettles DEF TS!vars
<1> QED BY <1>1, <1>2, <1>3 DEF Next

\* Every behaviour of the replicas, owners and allocator is one of
\* TicketService: at most one opponent and one answer for every ticket.
THEOREM MatchmakingImplementsTickets == Spec => TicketsServed
<1>1. Init => TS!Init
  BY DEF Init, TS!Init
<1> QED BY <1>1, MatchmakingInvariance, StepSimulation, PTL DEF Spec, TS!Spec, TicketsServed

=============================================================================

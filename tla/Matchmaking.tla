---------------------------- MODULE Matchmaking ----------------------------
(***************************************************************************)
(* Matchmaking across processes: the shards and API gateways that own the  *)
(* tickets (MatchTicketRegistry, FindGameHandler, ConnectionHandler and    *)
(* ApiGateway's POST /play), the Matchmaker replicas with their shared     *)
(* pool in Redis, and the Game Allocator.                                  *)
(*                                                                         *)
(* They talk over NATS. A subject has a delivery thread of its own in      *)
(* every subscriber, so messages of different subjects are handled in any  *)
(* order: the messages under way are sets. A message of a queue group is   *)
(* handled by one replica, any other by each subscriber. Ticket ids carry  *)
(* their owner, so one table stands for the registries of all the shards   *)
(* and the playTickets of all the gateways. NATS loses nothing here and    *)
(* processes do not stop; an allocation may fail.                          *)
(*                                                                         *)
(* Time is left out: a timer may fire at any moment after it was armed.    *)
(***************************************************************************)
EXTENDS Integers, FiniteSets

CONSTANTS
  MaxTickets,   \* tickets issued in one behaviour
  Conns,        \* WebSocket connections to shards
  Requests,     \* POST /play requests to gateways, one ticket each
  Replicas,     \* Matchmaker replicas
  Elo,          \* client -> rating
  EloRange,     \* kEloRange
  NoClient, NoTicket

Clients == Conns \cup Requests
Tickets == 1 .. MaxTickets

ASSUME MatchmakingAssumption ==
  /\ MaxTickets \in Nat /\ EloRange \in Nat
  /\ Elo \in [Clients -> Int]
  /\ Conns \cap Requests = {}
  /\ NoClient \notin Clients /\ NoTicket \notin Tickets

VARIABLES
  issued,     \* how many tickets were issued
  elo,        \* ticket -> the rating its request carries
  client,     \* connectionByTicket_ and playTickets: ticket -> who waits on it
  ticketOf,   \* ticketByConnection_: connection -> its ticket, or NoTicket
  gone,       \* connections closed, requests made
  outcome,    \* ticket -> what its owner was told
  requested,  \* matchmaking.request under way
  cancelled,  \* matchmaking.cancel under way: <<replica, ticket>>
  matched,    \* matchmaking.matched under way: <<ticketA, ticketB>>
  assigned,   \* matchmaking.assigned under way: <<replica, ticketA, ticketB>>
  answers,    \* matchmaking.assigned and .timeout under way to the owners
  pool,       \* Redis: the sorted set "matchpool"
  info,       \* Redis: the tickets with a hash "ticket:<id>"
  handler,    \* replica -> the handler of its matchmaking.request
  timer,      \* ticket -> the search timeout's thread
  pending,    \* replica -> pendingAssignment
  watchdogs,  \* <<replica, ticketA, ticketB>>: armed watchForAssignment threads
  partner     \* the pairs findMatch made: ticket -> ticket, or NoTicket

owners == <<issued, elo, client, ticketOf, gone, outcome>>
redis == <<pool, info>>
vars == <<owners, requested, cancelled, matched, assigned, answers, redis,
          handler, timer, pending, watchdogs, partner>>

Idle == [pc |-> "idle", ticket |-> NoTicket, opponent |-> NoTicket]

Handlers == [pc : {"idle", "hset", "zadd", "publish", "watch"},
             ticket : Tickets \cup {NoTicket}, opponent : Tickets \cup {NoTicket}]

\* What the owner of a ticket is sent. The two timeouts are the same message
\* to it; the pool's timer and the watchdog are told apart here.
Answers == [ticket : Tickets, event : {"assigned", "searchTimeout", "assignTimeout"}]

TypeOK ==
  /\ issued \in 0 .. MaxTickets
  /\ elo \in [Tickets -> Int]
  /\ client \in [Tickets -> Clients \cup {NoClient}]
  /\ ticketOf \in [Conns -> Tickets \cup {NoTicket}]
  /\ gone \subseteq Clients
  /\ outcome \in [Tickets -> {"unissued", "waiting", "game", "refused", "left"}]
  /\ requested \subseteq Tickets
  /\ cancelled \subseteq Replicas \X Tickets
  /\ matched \subseteq Tickets \X Tickets
  /\ assigned \subseteq Replicas \X Tickets \X Tickets
  /\ answers \subseteq Answers
  /\ pool \subseteq Tickets /\ info \subseteq Tickets
  /\ handler \in [Replicas -> Handlers]
  /\ timer \in [Tickets -> {"off", "armed", "firing"}]
  /\ pending \in [Replicas -> SUBSET Tickets]
  /\ watchdogs \subseteq Replicas \X Tickets \X Tickets
  /\ partner \in [Tickets -> Tickets \cup {NoTicket}]

Init ==
  /\ issued = 0
  /\ elo = [t \in Tickets |-> 0]
  /\ client = [t \in Tickets |-> NoClient]
  /\ ticketOf = [c \in Conns |-> NoTicket]
  /\ gone = {}
  /\ outcome = [t \in Tickets |-> "unissued"]
  /\ requested = {} /\ cancelled = {} /\ matched = {} /\ assigned = {} /\ answers = {}
  /\ pool = {} /\ info = {}
  /\ handler = [r \in Replicas |-> Idle]
  /\ timer = [t \in Tickets |-> "off"]
  /\ pending = [r \in Replicas |-> {}]
  /\ watchdogs = {}
  /\ partner = [t \in Tickets |-> NoTicket]

-----------------------------------------------------------------------------
(* The owners of the tickets.                                              *)

\* A ticket is minted for c and published; ids are never used again.
Issue(c) ==
  LET t == issued + 1 IN
  /\ t \in Tickets
  /\ issued' = t
  /\ elo' = [elo EXCEPT ![t] = Elo[c]]
  /\ client' = [client EXCEPT ![t] = c]
  /\ outcome' = [outcome EXCEPT ![t] = "waiting"]
  /\ requested' = requested \cup {t}

\* FindGameHandler::handle with MatchTicketRegistry::add. A second search of
\* one connection overwrites ticketByConnection_; the first ticket stays.
FindGame(c) ==
  /\ c \notin gone
  /\ Issue(c)
  /\ ticketOf' = [ticketOf EXCEPT ![c] = issued']
  /\ UNCHANGED <<gone, cancelled, matched, assigned, answers, redis, handler,
                 timer, pending, watchdogs, partner>>

\* POST /play. There is no way to withdraw it.
Play(c) ==
  /\ c \notin gone
  /\ Issue(c)
  /\ gone' = gone \cup {c}
  /\ UNCHANGED <<ticketOf, cancelled, matched, assigned, answers, redis, handler,
                 timer, pending, watchdogs, partner>>

\* A cancellation that is published whether there was a ticket or not.
OnCloseUnasked(c) ==
  /\ c \notin gone
  /\ gone' = gone \cup {c}
  /\ cancelled' = cancelled \cup (Replicas \X {ticketOf[c]})
  /\ UNCHANGED <<issued, elo, client, ticketOf, outcome, requested, matched, assigned,
                 answers, redis, handler, timer, pending, watchdogs, partner>>

\* ConnectionHandler::onClose with MatchTicketRegistry::cancel.
OnClose(c) ==
  LET t == ticketOf[c] IN
  /\ c \notin gone
  /\ gone' = gone \cup {c}
  /\ ticketOf' = [ticketOf EXCEPT ![c] = NoTicket]
  /\ IF t = NoTicket
     THEN UNCHANGED <<client, outcome, cancelled>>
     ELSE /\ client' = [client EXCEPT ![t] = NoClient]
          /\ outcome' = [outcome EXCEPT ![t] = "left"]
          /\ cancelled' = cancelled \cup (Replicas \X {t})
  /\ UNCHANGED <<issued, elo, requested, matched, assigned, answers, redis, handler,
                 timer, pending, watchdogs, partner>>

\* FindGameHandler::handleAssigned and handleTimeout, and ApiGateway's
\* subscribers: whoever waits on the ticket is told, once. resolve() also
\* forgets the connection's current ticket, whichever that is. (An assigned
\* event whose two tickets have one owner is handled as two.)
OwnerReceives(m) ==
  LET c == client[m.ticket] IN
  /\ answers' = answers \ {m}
  /\ IF c = NoClient
     THEN UNCHANGED <<client, ticketOf, outcome>>
     ELSE /\ client' = [client EXCEPT ![m.ticket] = NoClient]
          /\ ticketOf' = [d \in Conns |-> IF d = c THEN NoTicket ELSE ticketOf[d]]
          /\ outcome' = [outcome EXCEPT ![m.ticket] =
                           IF m.event = "assigned" THEN "game" ELSE "refused"]
  /\ UNCHANGED <<issued, elo, gone, requested, cancelled, matched, assigned, redis,
                 handler, timer, pending, watchdogs, partner>>

-----------------------------------------------------------------------------
(* The shared pool. Each Redis command is one step; remove's ZREM and DEL   *)
(* are taken together, as the hash is only read through the sorted set.     *)

InRange(t) == {o \in pool : elo[o] >= elo[t] - EloRange /\ elo[o] <= elo[t] + EloRange}

\* ZRANGEBYSCORE ... LIMIT 0 1: a member of the lowest score in the range.
Found(t) == {o \in InRange(t) : \A p \in InRange(t) : elo[o] <= elo[p]}

\* A ZRANGEBYSCORE without the ZREM.
OnlyFind(o) == UNCHANGED redis

\* kFindAndRemoveScript takes the ticket and its hash out.
PopFromPool(o) == pool' = pool \ {o} /\ info' = info \ {o}

RemoveFromPool(t) == pool' = pool \ {t} /\ info' = info \ {t}

-----------------------------------------------------------------------------
(* The Matchmaker replicas.                                                *)

Continue(r, pc, t, o) ==
  handler' = [handler EXCEPT ![r] = [pc |-> pc, ticket |-> t, opponent |-> o]]

\* matchmaking.request: findMatch. A member of the pool whose hash is gone is
\* taken out of it, but does not count as an opponent.
OnRequest(r, t) ==
  /\ handler[r].pc = "idle"
  /\ requested' = requested \ {t}
  /\ \/ /\ Found(t) = {}
        /\ Continue(r, "hset", t, NoTicket)
        /\ UNCHANGED <<redis, partner>>
     \/ \E o \in Found(t) :
          /\ PopFromPool(o)
          /\ IF o \in info
             THEN /\ Continue(r, "publish", t, o)
                  /\ partner' = [partner EXCEPT ![t] = o, ![o] = t]
             ELSE /\ Continue(r, "hset", t, NoTicket)
                  /\ UNCHANGED partner
  /\ UNCHANGED <<owners, cancelled, matched, assigned, answers, timer, pending, watchdogs>>

\* ZADD first, the ticket's hash afterwards.
ZAddBeforeHSet(r) ==
  /\ handler[r].pc = "hset"
  /\ pool' = pool \cup {handler[r].ticket}
  /\ Continue(r, "zadd", handler[r].ticket, NoTicket)
  /\ UNCHANGED <<owners, requested, cancelled, matched, assigned, answers, info,
                 timer, pending, watchdogs, partner>>

\* waitForMatch: addToPool's HSET, then its ZADD, then the timer's thread.
HSet(r) ==
  /\ handler[r].pc = "hset"
  /\ info' = info \cup {handler[r].ticket}
  /\ Continue(r, "zadd", handler[r].ticket, NoTicket)
  /\ UNCHANGED <<owners, requested, cancelled, matched, assigned, answers, pool,
                 timer, pending, watchdogs, partner>>

ZAdd(r) ==
  /\ handler[r].pc = "zadd"
  /\ pool' = pool \cup {handler[r].ticket}
  /\ timer' = [timer EXCEPT ![handler[r].ticket] = "armed"]
  /\ Continue(r, "idle", NoTicket, NoTicket)
  /\ UNCHANGED <<owners, requested, cancelled, matched, assigned, answers, info,
                 pending, watchdogs, partner>>

PublishMatched(r) ==
  /\ handler[r].pc = "publish"
  /\ matched' = matched \cup {<<handler[r].opponent, handler[r].ticket>>}
  /\ Continue(r, "watch", handler[r].ticket, handler[r].opponent)
  /\ UNCHANGED <<owners, requested, cancelled, assigned, answers, redis, timer,
                 pending, watchdogs, partner>>

\* A watchdog that is told of one of the two tickets.
WatchOpponent(r) ==
  LET a == handler[r].opponent
      b == handler[r].ticket
  IN
  /\ handler[r].pc = "watch"
  /\ pending' = [pending EXCEPT ![r] = @ \cup {a}]
  /\ watchdogs' = watchdogs \cup {<<r, a, b>>}
  /\ Continue(r, "idle", NoTicket, NoTicket)
  /\ UNCHANGED <<owners, requested, cancelled, matched, assigned, answers, redis,
                 timer, partner>>

\* watchForAssignment, after the pair was published.
WatchForAssignment(r) ==
  LET a == handler[r].opponent
      b == handler[r].ticket
  IN
  /\ handler[r].pc = "watch"
  /\ pending' = [pending EXCEPT ![r] = @ \cup {a, b}]
  /\ watchdogs' = watchdogs \cup {<<r, a, b>>}
  /\ Continue(r, "idle", NoTicket, NoTicket)
  /\ UNCHANGED <<owners, requested, cancelled, matched, assigned, answers, redis,
                 timer, partner>>

\* matchmaking.cancel. The pool's mutex keeps it out of this replica's own
\* addToPool, not out of another's.
OnCancel(r, t) ==
  /\ handler[r].pc # "zadd"
  /\ cancelled' = cancelled \ {<<r, t>>}
  /\ RemoveFromPool(t)
  /\ UNCHANGED <<owners, requested, matched, assigned, answers, handler, timer,
                 pending, watchdogs, partner>>

OnAssigned(r, a, b) ==
  /\ assigned' = assigned \ {<<r, a, b>>}
  /\ pending' = [pending EXCEPT ![r] = @ \ {a, b}]
  /\ UNCHANGED <<owners, requested, cancelled, matched, answers, redis, handler,
                 timer, watchdogs, partner>>

\* The search timeout after its sleep: isWaiting, then remove and publish.
SearchTimeoutChecks(t) ==
  /\ timer[t] = "armed"
  /\ timer' = [timer EXCEPT ![t] = IF t \in pool THEN "firing" ELSE "off"]
  /\ UNCHANGED <<owners, requested, cancelled, matched, assigned, answers, redis,
                 handler, pending, watchdogs, partner>>

\* A search that goes on as long as the ticket is in the pool.
SearchAgain(t) ==
  /\ timer[t] = "firing"
  /\ timer' = [timer EXCEPT ![t] = "armed"]
  /\ UNCHANGED <<owners, requested, cancelled, matched, assigned, answers, redis,
                 handler, pending, watchdogs, partner>>

SearchTimeoutFires(t) ==
  /\ timer[t] = "firing"
  /\ timer' = [timer EXCEPT ![t] = "off"]
  /\ RemoveFromPool(t)
  /\ answers' = answers \cup {[ticket |-> t, event |-> "searchTimeout"]}
  /\ UNCHANGED <<owners, requested, cancelled, matched, assigned, handler, pending,
                 watchdogs, partner>>

\* The watchdog of a pair: a timeout for each ticket still pending here.
WatchdogFires(r, a, b) ==
  /\ watchdogs' = watchdogs \ {<<r, a, b>>}
  /\ pending' = [pending EXCEPT ![r] = @ \ {a, b}]
  /\ answers' = answers \cup
       [ticket : {a, b} \cap pending[r], event : {"assignTimeout"}]
  /\ UNCHANGED <<owners, requested, cancelled, matched, assigned, redis, handler,
                 timer, partner>>

-----------------------------------------------------------------------------
(* The Game Allocator: it seats the pair and tells everyone, or drops the   *)
(* match (no shard is known, or the shard refused or did not answer).       *)

Allocate(a, b) ==
  /\ matched' = matched \ {<<a, b>>}
  /\ assigned' = assigned \cup (Replicas \X {a} \X {b})
  /\ answers' = answers \cup [ticket : {a, b}, event : {"assigned"}]
  /\ UNCHANGED <<owners, requested, cancelled, redis, handler, timer, pending,
                 watchdogs, partner>>

DropMatch(a, b) ==
  /\ matched' = matched \ {<<a, b>>}
  /\ UNCHANGED <<owners, requested, cancelled, assigned, answers, redis, handler,
                 timer, pending, watchdogs, partner>>

-----------------------------------------------------------------------------
ClientStep ==
  \/ \E c \in Conns : FindGame(c) \/ OnClose(c)
  \/ \E c \in Requests : Play(c)

HandlerStep(r) == HSet(r) \/ ZAdd(r) \/ PublishMatched(r) \/ WatchForAssignment(r)

TimerStep(t) == SearchTimeoutChecks(t) \/ SearchTimeoutFires(t)

ServiceStep ==
  \/ \E r \in Replicas, t \in requested : OnRequest(r, t)
  \/ \E r \in Replicas : HandlerStep(r)
  \/ \E m \in cancelled : OnCancel(m[1], m[2])
  \/ \E m \in assigned : OnAssigned(m[1], m[2], m[3])
  \/ \E t \in Tickets : TimerStep(t)
  \/ \E m \in watchdogs : WatchdogFires(m[1], m[2], m[3])
  \/ \E m \in matched : Allocate(m[1], m[2]) \/ DropMatch(m[1], m[2])
  \/ \E m \in answers : OwnerReceives(m)

Next == ClientStep \/ ServiceStep

\* Messages are delivered, threads run and sleeping timers wake up. Each
\* ticket causes finitely many of these steps, so it is enough that the
\* processes together do not stop while there is one to take.
Fairness == WF_vars(ServiceStep)

Spec == Init /\ [][Next]_vars /\ Fairness

-----------------------------------------------------------------------------
(* What is checked.                                                        *)

\* Matchmaking implements TicketService: however the messages of two replicas
\* are interleaved, a ticket has at most one opponent and that one has it, a
\* ticket is settled once, and a game is only announced to a paired ticket.
TS == INSTANCE TicketService

TicketsServed == TS!Spec

\* The hash of a ticket in the pool is there when findMatch reads it, unless
\* its player has already left: HSET comes before ZADD in addToPool.
InfoReadable == \A t \in pool \ info : client[t] = NoClient

\* Someone is bound to answer every player still waiting: the ticket is on
\* its way to a replica or in a replica's hands, in the pool with its timer
\* running, pending with an armed watchdog, or its answer is under way.
InHand(t) ==
  \E r \in Replicas : handler[r].pc # "idle" /\ t \in {handler[r].ticket, handler[r].opponent}

Watched(t) ==
  \E w \in watchdogs : t \in {w[2], w[3]} /\ t \in pending[w[1]]

NoTicketForgotten ==
  \A t \in Tickets : client[t] # NoClient =>
    \/ t \in requested
    \/ InHand(t)
    \/ t \in pool /\ timer[t] # "off"
    \/ Watched(t)
    \/ \E m \in answers : m.ticket = t

\* Every search ends: the player is given a game or a refusal, or leaves
\* (kAssignmentTimeoutSeconds: no player is left "hung forever").
EverySearchEnds ==
  \A t \in Tickets : client[t] # NoClient ~> client[t] = NoClient

\* kAssignmentTimeoutSeconds: "Once matched, neither ticket has any other
\* timeout watching it - the popped ticket's own kSearchTimeoutSeconds pool
\* timer [...] just silently no-ops via pool.isWaiting()".
MatchedTicketHasNoSearchTimeout ==
  \A m \in answers : m.event = "searchTimeout" => partner[m.ticket] = NoTicket
=============================================================================

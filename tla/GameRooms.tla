------------------------------ MODULE GameRooms ------------------------------
(***************************************************************************)
(* The rooms of one shard: SessionRegistry with the GameSessions it owns,  *)
(* the handlers that seat connections (AllocateRoomHandler,                *)
(* JoinRoomHandler, EnterRoomHandler, ConnectionHandler), the disconnect   *)
(* countdowns, and WsServer's tick loop with its pool of worker threads.   *)
(*                                                                         *)
(* Every handler runs to completion on the one io_context thread and is a  *)
(* single step. Concurrent with them are the workers (computeStep, between *)
(* a tick's submission and its publication) and the reactor, which queues  *)
(* a timer's completion some time before its handler runs.                 *)
(*                                                                         *)
(* A GameSession is an id of its own, not the name of its room: a name can *)
(* be used again, while workers and timers still refer to the old room.    *)
(* Of its engine only the end by a king's capture is kept. The winner is   *)
(* the color survivingKingColor returns; a capture of both kings in one    *)
(* tick, which makes publishStep throw, is left out.                       *)
(***************************************************************************)
EXTENDS Integers, Sequences, FiniteSets

CONSTANTS
  Rooms,         \* room names
  Conns,         \* connection handles: opened once, closed once
  Users,         \* usernames
  MaxSessions,   \* rooms created in one behaviour
  GraceSeconds,  \* kDisconnectGraceSeconds
  NoRoom, NoConn,
  Nobody         \* the empty username

ASSUME GameRoomsAssumption ==
  /\ MaxSessions \in Nat /\ GraceSeconds \in Nat
  /\ NoRoom \notin Rooms /\ NoConn \notin Conns /\ Nobody \notin Users

Sessions == 1 .. MaxSessions
Colors == {"White", "Black"}
Seats == Colors \cup {"None"}           \* None: a spectator
Opponent(color) == IF color = "White" THEN "Black" ELSE "White"

SeatsByOrder == 2                       \* later arrivals are all spectators

VARIABLES
  rooms,           \* rooms_: a Room for every name in use
  connectionRoom,  \* connectionRoom_: handle -> name, or NoRoom
  closed,          \* handles whose close handler has run
  user,            \* ClientSessionRegistry: handle -> username, or Nobody
  directory,       \* IRoomDirectory: the names routed to this shard
  attached,        \* name -> subscribers of gameEndedTopic left by attach()
  created,         \* how many sessions were ever created
  roomName,        \* session -> roomName_
  tick,            \* session -> where its tick is
  winner,          \* session -> surviving king once the engine is game_over
  results,         \* session -> what was published on its gameEndedTopic
  records,         \* session -> rows GameHistoryService recorded for it
  banner,          \* session -> seat whose disconnectStatus_ is active
  identity,        \* session -> color -> username, as of the last tick
  timers           \* countdown started when a handle closed

registry == <<rooms, connectionRoom, directory>>
vars == <<registry, closed, user, attached, created, roomName, tick, winner, results, records,
          banner, identity, timers>>

Room == [session : Sessions,
         roles : [Conns -> Seats \cup {"Out"}],
         connectionCount : 0 .. SeatsByOrder + 1,
         seatReservations : [Users -> Seats],
         pendingRemoval : BOOLEAN,
         pendingDisconnects : [Colors -> Conns \cup {NoConn}]]

\* idle; submitted to the pool; computeStep done and publishStep posted.
TickStates == {"idle", "computing", "computed"}

Result == [winner : Colors, reason : {"KingCapture", "Disconnect"},
           winnerUser : Users \cup {Nobody}, loserUser : Users \cup {Nobody}]

\* off; waiting for its expiry; completion queued, out of cancel()'s reach.
Timer == [status : {"off", "waiting", "expired"}, room : Rooms \cup {NoRoom},
          color : Seats, user : Users \cup {Nobody}, remaining : 0 .. GraceSeconds]

TypeOK ==
  /\ DOMAIN rooms \subseteq Rooms
  /\ \A r \in DOMAIN rooms : rooms[r] \in Room
  /\ connectionRoom \in [Conns -> Rooms \cup {NoRoom}]
  /\ closed \subseteq Conns
  /\ user \in [Conns -> Users \cup {Nobody}]
  /\ directory \subseteq Rooms
  /\ attached \in [Rooms -> Nat]
  /\ created \in 0 .. MaxSessions
  /\ roomName \in [Sessions -> Rooms \cup {NoRoom}]
  /\ tick \in [Sessions -> TickStates]
  /\ winner \in [Sessions -> Seats]
  /\ results \in [Sessions -> Seq(Result)]
  /\ records \in [Sessions -> Nat]
  /\ banner \in [Sessions -> Seats]
  /\ identity \in [Sessions -> [Colors -> Users \cup {Nobody}]]
  /\ timers \in [Conns -> Timer]

-----------------------------------------------------------------------------
(* Queries.                                                                *)

Exists(r) == r \in DOMAIN rooms

Erase(r) == [n \in DOMAIN rooms \ {r} |-> rooms[n]]

Occupants(r) == IF Exists(r) THEN {c \in Conns : rooms[r].roles[c] # "Out"} ELSE {}

\* SessionRegistry::roleOf, which asks the room the handle joined last.
RoleOf(c) ==
  IF Exists(connectionRoom[c]) /\ c \in Occupants(connectionRoom[c])
    THEN rooms[connectionRoom[c]].roles[c] ELSE "None"

\* RoomIdentityResolver::resolve. Of several handles in one seat the last in
\* the map's order of addresses is taken: any of them.
Identities(r) ==
  LET seated(color) == {user[c] : c \in {d \in Occupants(r) :
                                           RoleOf(d) = color /\ user[d] # Nobody}}
  IN  { id \in [Colors -> Users \cup {Nobody}] :
          \A color \in Colors : id[color] \in IF seated(color) = {} THEN {Nobody}
                                              ELSE seated(color) }

-----------------------------------------------------------------------------
(* Seating.                                                                *)

\* AllocateRoomHandler::doAllocate: create the room, attach the subscribers,
\* and reserve the seats of a matched pair (regular rooms reserve none).
AllocateRoom(r, reservations) ==
  /\ ~Exists(r)
  /\ created < MaxSessions
  /\ created' = created + 1
  /\ rooms' = [n \in DOMAIN rooms \cup {r} |->
       IF n # r THEN rooms[n] ELSE
         [session |-> created + 1,
          roles |-> [c \in Conns |-> "Out"],
          connectionCount |-> 0,
          seatReservations |-> reservations,
          pendingRemoval |-> FALSE,
          pendingDisconnects |-> [color \in Colors |-> NoConn]]]
  /\ directory' = directory \cup {r}
  /\ attached' = [attached EXCEPT ![r] = @ + 1]
  /\ roomName' = [roomName EXCEPT ![created + 1] = r]
  /\ UNCHANGED <<connectionRoom, closed, user, tick, winner, results, records, banner,
                 identity, timers>>

\* SessionRegistry::joinRoom as a function of the room.
Joined(room, c, name) ==
  LET count    == IF room.connectionCount > SeatsByOrder THEN room.connectionCount
                  ELSE room.connectionCount + 1
      reserved == IF name = Nobody THEN "None" ELSE room.seatReservations[name]
      byOrder  == IF count = 1 THEN "White" ELSE IF count = 2 THEN "Black" ELSE "None"
  IN  [room EXCEPT !.connectionCount = count,
                   !.roles[c] = IF reserved # "None" THEN reserved ELSE byOrder]

\* LoginHandler and AuthHandler: the handle gets an identity. EnterRoom does
\* the same before it finds that the room does not exist.
Login(c, name) ==
  /\ c \notin closed
  /\ user' = [user EXCEPT ![c] = name]
  /\ UNCHANGED <<registry, closed, attached, created, roomName, tick, winner, results, records,
                 banner, identity, timers>>

JoinRoom(c, r) ==
  /\ c \notin closed /\ Exists(r)
  /\ rooms' = [rooms EXCEPT ![r] = Joined(@, c, Nobody)]
  /\ connectionRoom' = [connectionRoom EXCEPT ![c] = r]
  /\ UNCHANGED <<directory, closed, user, attached, created, roomName, tick, winner, results,
                 records, banner, identity, timers>>

\* SessionRegistry::cancelDisconnectCountdown's test, after the join.
Reclaims(room, color, name) ==
  /\ color \in Colors
  /\ room.pendingDisconnects[color] # NoConn
  /\ timers[room.pendingDisconnects[color]].user = name

\* timer->cancel(): aborts the wait, unless its completion is queued already.
CancelTimer(c) ==
  IF timers[c].status = "waiting"
    THEN [timers EXCEPT ![c].status = "off"] ELSE timers

\* setDisconnectStatus({}) once the seat has been claimed back.
ForgottenBanner(s) == banner

ClearedBanner(s) == [banner EXCEPT ![s] = "None"]

EnterRoom(c, name, r) ==
  LET room  == Joined(rooms[r], c, name)
      color == room.roles[c]
  IN  /\ c \notin closed /\ Exists(r)
      /\ user' = [user EXCEPT ![c] = name]
      /\ connectionRoom' = [connectionRoom EXCEPT ![c] = r]
      /\ IF Reclaims(room, color, name)
           THEN /\ rooms' = [rooms EXCEPT ![r] =
                               [room EXCEPT !.pendingDisconnects[color] = NoConn]]
                /\ timers' = CancelTimer(room.pendingDisconnects[color])
                /\ banner' = ClearedBanner(room.session)
           ELSE /\ rooms' = [rooms EXCEPT ![r] = room]
                /\ UNCHANGED <<timers, banner>>
      /\ UNCHANGED <<directory, closed, attached, created, roomName, tick, winner, results,
                     records, identity>>

-----------------------------------------------------------------------------
(* ConnectionHandler::onClose.                                             *)

\* A leave() that does not ask for the tick.
LeaveAtOnce(c) ==
  LET r     == connectionRoom[c]
      roles == [rooms[r].roles EXCEPT ![c] = "Out"]
  IN  IF ~Exists(r) THEN rooms
      ELSE IF \E d \in Conns : roles[d] # "Out" THEN [rooms EXCEPT ![r].roles = roles]
      ELSE Erase(r)

\* SessionRegistry::leave: the rooms left behind. The last one out takes the
\* room along, or marks it while a tick is in flight.
Leave(c) ==
  LET r     == connectionRoom[c]
      roles == [rooms[r].roles EXCEPT ![c] = "Out"]
      empty == \A d \in Conns : roles[d] = "Out"
  IN  IF ~Exists(r) THEN rooms
      ELSE IF ~empty THEN [rooms EXCEPT ![r].roles = roles]
      ELSE IF tick[rooms[r].session] # "idle"
        THEN [rooms EXCEPT ![r].roles = roles, ![r].pendingRemoval = TRUE]
      ELSE Erase(r)

\* leave, then startDisconnectCountdown for a seated player if the room is
\* still there: the seat is held under the username (a reservation for the
\* empty username is never looked up) and the first expiry is immediate.
OnClose(c) ==
  LET r     == connectionRoom[c]
      role  == RoleOf(c)
      after == Leave(c)
  IN  /\ c \notin closed
      /\ closed' = closed \cup {c}
      /\ user' = [user EXCEPT ![c] = Nobody]
      /\ connectionRoom' = [connectionRoom EXCEPT ![c] = NoRoom]
      /\ directory' = IF Exists(r) /\ r \notin DOMAIN after THEN directory \ {r} ELSE directory
      /\ IF role \in Colors /\ r \in DOMAIN after
           THEN /\ rooms' = [after EXCEPT
                     ![r].pendingDisconnects[role] = c,
                     ![r].seatReservations = [n \in Users |->
                        IF n = user[c] THEN role ELSE @[n]]]
                /\ timers' = [timers EXCEPT ![c] =
                     [status |-> "waiting", room |-> r, color |-> role,
                      user |-> user[c], remaining |-> GraceSeconds]]
           ELSE rooms' = after /\ UNCHANGED timers
      /\ UNCHANGED <<attached, created, roomName, tick, winner, results, records, banner, identity>>

-----------------------------------------------------------------------------
(* The end of a game.                                                      *)

\* publishGameEnded on session s of room r: every subscriber attached to the
\* name runs, and GameHistoryService records a result with both names known.
PublishGameEnded(s, r, result) ==
  /\ results' = [results EXCEPT ![s] = Append(@, result)]
  /\ records' = IF Nobody \in {result.winnerUser, result.loserUser} THEN records
                ELSE [records EXCEPT ![s] = @ + attached[r]]

Resignation(s, loser, loserUser) ==
  [winner |-> Opponent(loser), reason |-> "Disconnect",
   winnerUser |-> identity[s][Opponent(loser)], loserUser |-> loserUser]

\* A resignation that does not ask whether the engine is game_over, and one
\* that does not ask whether a result has been published.
ResignUnlessPublished(s, r, loser, loserUser) ==
  IF results[s] # <<>>
    THEN UNCHANGED <<results, records>>
    ELSE PublishGameEnded(s, r, Resignation(s, loser, loserUser))

ResignUnlessGameOver(s, r, loser, loserUser) ==
  IF winner[s] # "None"
    THEN UNCHANGED <<results, records>>
    ELSE PublishGameEnded(s, r, Resignation(s, loser, loserUser))

\* GameSession::markDisconnectResign: the first result wins.
MarkDisconnectResign(s, r, loser, loserUser) ==
  IF results[s] # <<>> \/ winner[s] # "None"
    THEN UNCHANGED <<results, records>>
    ELSE PublishGameEnded(s, r, Resignation(s, loser, loserUser))

-----------------------------------------------------------------------------
(* The countdown.                                                          *)

\* The reactor notices the expiry and queues the handler.
TimerExpires(c) ==
  /\ timers[c].status = "waiting"
  /\ timers' = [timers EXCEPT ![c].status = "expired"]
  /\ UNCHANGED <<registry, closed, user, attached, created, roomName, tick, winner, results,
                 records, banner, identity>>

\* A second too late.
GraceOverrun(t) == t.remaining < 0

GraceOver(t) == t.remaining <= 0

\* A countdown that is not started again.
NotRearmed(t) == [t EXCEPT !.remaining = @ - 1, !.status = "off"]

Rearmed(t) == [t EXCEPT !.remaining = @ - 1, !.status = "waiting"]

\* The handler finds its room by name, whichever session that is by now.
Countdown(c) ==
  LET t == timers[c]
      s == rooms[t.room].session
  IN  /\ t.status = "expired"
      /\ \/ /\ ~Exists(t.room)
            /\ timers' = [timers EXCEPT ![c].status = "off"]
            /\ UNCHANGED <<rooms, results, records, banner>>
         \/ /\ Exists(t.room) /\ ~GraceOver(t)
            /\ banner' = [banner EXCEPT ![s] = t.color]
            /\ timers' = [timers EXCEPT ![c] = Rearmed(t)]
            /\ UNCHANGED <<rooms, results, records>>
         \/ /\ Exists(t.room) /\ GraceOver(t)
            /\ banner' = [banner EXCEPT ![s] = t.color]
            /\ timers' = [timers EXCEPT ![c].status = "off"]
            /\ rooms' = [rooms EXCEPT
                 ![t.room].pendingDisconnects[t.color] = NoConn,
                 ![t.room].seatReservations = [n \in Users |->
                    IF n = t.user THEN "None" ELSE @[n]]]
            /\ MarkDisconnectResign(s, t.room, t.color, t.user)
      /\ UNCHANGED <<connectionRoom, directory, closed, user, attached, created, roomName, tick,
                     winner, identity>>

-----------------------------------------------------------------------------
(* The tick loop.                                                          *)

\* WsServer's onTick, for every room: refresh the identity, and submit
\* computeStep unless the previous tick is still in flight.
OnTick ==
  LET live == {rooms[r].session : r \in DOMAIN rooms}
  IN  /\ live # {}
      /\ \E id \in [live -> UNION {Identities(r) : r \in DOMAIN rooms}] :
           /\ \A r \in DOMAIN rooms : id[rooms[r].session] \in Identities(r)
           /\ identity' = [s \in Sessions |-> IF s \in live THEN id[s] ELSE identity[s]]
      /\ tick' = [s \in Sessions |-> IF s \in live /\ tick[s] = "idle"
                                       THEN "computing" ELSE tick[s]]
      /\ UNCHANGED <<registry, closed, user, attached, created, roomName, winner, results, records,
                     banner, timers>>

\* A worker runs computeStep, in which a king may fall, and posts publishStep.
ComputeStep(s) ==
  /\ tick[s] = "computing"
  /\ tick' = [tick EXCEPT ![s] = "computed"]
  /\ \/ UNCHANGED winner
     \/ winner[s] = "None" /\ \E color \in Colors : winner' = [winner EXCEPT ![s] = color]
  /\ UNCHANGED <<registry, closed, user, attached, created, roomName, results, records, banner,
                 identity, timers>>

KingCaptureResult(s) ==
  [winner |-> winner[s], reason |-> "KingCapture",
   winnerUser |-> identity[s][winner[s]], loserUser |-> identity[s][Opponent(winner[s])]]

\* Nobody is told when the room is empty.
FinishWatchedGame(s) ==
  IF results[s] = <<>> /\ winner[s] # "None" /\ Occupants(roomName[s]) # {}
    THEN PublishGameEnded(s, roomName[s], KingCaptureResult(s))
    ELSE UNCHANGED <<results, records>>

\* GameSession::publishStep: a king that fell ends the game, unless it is over.
FinishGame(s) ==
  IF results[s] = <<>> /\ winner[s] # "None"
    THEN PublishGameEnded(s, roomName[s], KingCaptureResult(s))
    ELSE UNCHANGED <<results, records>>

\* reapIfSafe before endTick.
ReapTooEarly(r) ==
  IF Exists(r) /\ rooms[r].pendingRemoval /\ tick[rooms[r].session] = "idle"
    THEN rooms' = Erase(r) /\ directory' = directory \ {r}
    ELSE UNCHANGED <<rooms, directory>>

\* SessionRegistry::reapIfSafe, after the tick was ended.
ReapIfSafe(r) ==
  IF Exists(r) /\ rooms[r].pendingRemoval /\ tick'[rooms[r].session] = "idle"
    THEN rooms' = Erase(r) /\ directory' = directory \ {r}
    ELSE UNCHANGED <<rooms, directory>>

\* The posted handler: publishStep, endTick, then reapIfSafe on the room's name.
PublishStep(s) ==
  /\ tick[s] = "computed"
  /\ tick' = [tick EXCEPT ![s] = "idle"]
  /\ FinishGame(s)
  /\ ReapIfSafe(roomName[s])
  /\ UNCHANGED <<connectionRoom, closed, user, attached, created, roomName, winner, banner,
                 identity, timers>>

-----------------------------------------------------------------------------
Init ==
  /\ rooms = <<>>
  /\ connectionRoom = [c \in Conns |-> NoRoom]
  /\ closed = {}
  /\ user = [c \in Conns |-> Nobody]
  /\ directory = {}
  /\ attached = [r \in Rooms |-> 0]
  /\ created = 0
  /\ roomName = [s \in Sessions |-> NoRoom]
  /\ tick = [s \in Sessions |-> "idle"]
  /\ winner = [s \in Sessions |-> "None"]
  /\ results = [s \in Sessions |-> <<>>]
  /\ records = [s \in Sessions |-> 0]
  /\ banner = [s \in Sessions |-> "None"]
  /\ identity = [s \in Sessions |-> [color \in Colors |-> Nobody]]
  /\ timers = [c \in Conns |-> [status |-> "off", room |-> NoRoom, color |-> "None",
                                user |-> Nobody, remaining |-> 0]]

\* No reservations, or the two seats of a matched pair: White's is written
\* first, so that a name given for both has Black.
Reservations ==
  { f \in [Users -> Seats] :
      \/ \A n \in Users : f[n] = "None"
      \/ \E w, b \in Users : \A n \in Users :
           f[n] = IF n = b THEN "Black" ELSE IF n = w THEN "White" ELSE "None" }

ClientStep ==
  \/ \E r \in Rooms, f \in Reservations : AllocateRoom(r, f)
  \/ \E c \in Conns, n \in Users : Login(c, n)
  \/ \E c \in Conns, r \in Rooms : JoinRoom(c, r)
  \/ \E c \in Conns, n \in Users, r \in Rooms : EnterRoom(c, n, r)
  \/ \E c \in Conns : OnClose(c)

ServerStep ==
  \/ OnTick
  \/ \E s \in Sessions : ComputeStep(s) \/ PublishStep(s)
  \/ \E c \in Conns : TimerExpires(c) \/ Countdown(c)

Next == ClientStep \/ ServerStep

\* Workers take every job of the pool's queue, timers fire, and the io_context
\* runs every handler that was posted to it. Clients promise nothing.
Fairness ==
  /\ \A s \in Sessions : WF_vars(ComputeStep(s)) /\ WF_vars(PublishStep(s))
  /\ \A c \in Conns : WF_vars(TimerExpires(c)) /\ WF_vars(Countdown(c))

Spec == Init /\ [][Next]_vars /\ Fairness

-----------------------------------------------------------------------------
(* Properties.                                                             *)

Owned(s) == \E r \in DOMAIN rooms : rooms[r].session = s

\* A GameSession is never destroyed while a worker computes its step or a
\* posted publishStep still holds a pointer to it, however the room empties,
\* refills or is taken by another session meanwhile (leave, reapIfSafe).
WorkerKeepsSession == \A s \in Sessions : tick[s] # "idle" => Owned(s)

\* A game has at most one result, although a king's capture (worker, then
\* publishStep) and two players' countdowns may all end it.
OneResult == \A s \in Sessions : Len(results[s]) <= 1

\* How far a session has come, and how its game was decided.
Stage ==
  [s \in Sessions |-> IF s > created THEN "new" ELSE IF Owned(s) THEN "open" ELSE "closed"]

Outcome ==
  [s \in Sessions |-> IF results[s] = <<>> THEN <<>>
                      ELSE <<results[s][1].winner, results[s][1].reason>>]

\* The rooms implement GameOutcome: whoever comes, goes, runs out of time or
\* reuses a room's name, a game is decided once, while its session is owned, by
\* what happened first, and no room goes (leave, reapIfSafe) with a king's
\* capture computed but not announced.
GO == INSTANCE GameOutcome WITH
        Games <- Sessions, Sides <- Colors, None <- "None",
        stage <- Stage, survivor <- winner, outcome <- Outcome

GamesDecided == GO!Spec

\* Once a king has fallen no countdown decides the game any more, even in the
\* window between computeStep and publishStep where nothing is published yet.
KingCaptureStands ==
  [][\A s \in Sessions : winner[s] # "None" /\ results'[s] # results[s] =>
       \A i \in DOMAIN results'[s] : results'[s][i].reason = "KingCapture"]_vars

\* The "disconnected" banner of a game still being played has a countdown
\* behind it, whichever of the two seats reconnected or ran out meanwhile.
BannerHasCountdown ==
  \A r \in DOMAIN rooms :
    LET s == rooms[r].session
    IN  banner[s] # "None" /\ results[s] = <<>> /\ winner[s] = "None" =>
          \E c \in Conns : /\ timers[c].status # "off" /\ timers[c].room = r
                           /\ timers[c].color = banner[s]

\* A king's capture is always reported (publishStep on gameEndedTopic), even if
\* everybody leaves between computeStep and publishStep.
KingCaptureReported ==
  \A s \in Sessions : winner[s] # "None" ~> results[s] # <<>>

\* A seat somebody left is not in limbo for ever: its player is back in time,
\* the game is decided (by the countdown or otherwise), or the room is gone.
SeatSettled ==
  \A s \in Sessions, c \in Conns :
    LET r == timers[c].room
    IN  timers[c].status # "off" /\ Exists(r) /\ rooms[r].session = s
          ~> \/ results[s] # <<>>
             \/ ~Owned(s)
             \/ \E d \in Occupants(r) : rooms[r].roles[d] = timers[c].color

\* A room leave() could only mark for removal, because its tick was in flight,
\* is removed when that tick is over, whoever comes and goes meanwhile.
MarkedRoomGoes ==
  \A s \in Sessions :
    (\E r \in DOMAIN rooms : rooms[r].session = s /\ rooms[r].pendingRemoval)
      ~> ~Owned(s)

\* A room goes when those who were in it have left, and only then: neither
\* leave() nor the reapIfSafe() that makes up for it after a tick takes it from
\* under a player who joined meanwhile, and the close of a connection that is
\* not among its roles takes no room away that nobody has entered yet.
RoomsGoWhenLeft ==
  [][\A r \in DOMAIN rooms \ DOMAIN rooms' :
       rooms[r].connectionCount > 0 /\ Occupants(r) \subseteq closed']_vars

\* A finished game leaves at most one row in the history: each of a topic's
\* subscribers records one, and attach() adds a subscriber to the name of the
\* room that nothing takes away when the room goes.
OneRecordPerGame == \A s \in Sessions : records[s] <= 1

\* A seat is resigned only while its room holds it for a player who is away: one
\* who is back in time (EnterRoom, cancelDisconnectCountdown) has ended the
\* countdown, and the countdown of a room that is gone has nothing to update,
\* least of all the game of the next room of that name.
OnlyHeldSeatsResign ==
  [][\A r \in DOMAIN rooms :
       LET s == rooms[r].session
       IN  results'[s] # results[s] =>
             LET end == results'[s][Len(results'[s])]
             IN  end.reason = "Disconnect" =>
                   rooms[r].pendingDisconnects[Opponent(end.winner)] # NoConn]_vars
=============================================================================

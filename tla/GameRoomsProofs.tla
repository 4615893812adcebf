-------------------------- MODULE GameRoomsProofs --------------------------
(***************************************************************************)
(* What holds of the rooms of a shard for any number of connections,       *)
(* users, names, sessions and seconds of grace.                            *)
(***************************************************************************)
EXTENDS GameRooms, TLAPS

\* Every room has a session of its own, created before, that knows the name.
RoomsNamed ==
  \A r \in DOMAIN rooms :
    rooms[r].session \in 1 .. created /\ roomName[rooms[r].session] = r

RInv == TypeOK /\ RoomsNamed /\ WorkerKeepsSession /\ OneResult

-----------------------------------------------------------------------------
(* Steps that remove or change rooms but create none.                      *)

\* Rooms keep their session, and those that go have no tick in flight.
RoomsShrink ==
  /\ DOMAIN rooms' \subseteq DOMAIN rooms
  /\ \A r \in DOMAIN rooms' : rooms'[r] \in Room /\ rooms'[r].session = rooms[r].session
  /\ \A r \in DOMAIN rooms \ DOMAIN rooms' : tick'[rooms[r].session] = "idle"

\* Shrinking keeps the names right and every worker its session, provided that
\* ticks are only begun for sessions some room owns.
LEMMA ShrinkKeepsSessions ==
  ASSUME TypeOK, RoomsNamed, WorkerKeepsSession, RoomsShrink,
         UNCHANGED <<created, roomName>>,
         \A s \in Sessions : tick'[s] # "idle" => tick[s] # "idle" \/ Owned(s)
  PROVE  RoomsNamed' /\ WorkerKeepsSession'
<1>1. RoomsNamed'
  BY DEF RoomsNamed, RoomsShrink
<1>2. ASSUME NEW s \in Sessions, tick'[s] # "idle" PROVE Owned(s)'
  <2>1. PICK r \in DOMAIN rooms : rooms[r].session = s
    BY <1>2 DEF WorkerKeepsSession, Owned
  <2>2. r \in DOMAIN rooms'
    BY <1>2, <2>1 DEF RoomsShrink
  <2> QED BY <2>1, <2>2 DEF RoomsShrink, Owned
<1> QED BY <1>1, <1>2 DEF WorkerKeepsSession

\* A session with a tick in flight knows the name of a room that exists.
LEMMA InFlightNamed ==
  ASSUME RInv, NEW s \in Sessions, tick[s] # "idle"
  PROVE  roomName[s] \in Rooms
<1>1. PICK r \in DOMAIN rooms : rooms[r].session = s
  BY DEF RInv, WorkerKeepsSession, Owned
<1>2. roomName[s] = r
  BY <1>1 DEF RInv, RoomsNamed
<1> QED BY <1>1, <1>2 DEF RInv, TypeOK

LEMMA ExceptRoom ==
  ASSUME TypeOK, NEW r \in DOMAIN rooms, NEW room \in Room,
         room.session = rooms[r].session, rooms' = [rooms EXCEPT ![r] = room]
  PROVE  /\ RoomsShrink
         /\ DOMAIN rooms' \subseteq Rooms /\ \A n \in DOMAIN rooms' : rooms'[n] \in Room
BY DEF TypeOK, RoomsShrink

\* joinRoom changes the roles and the count of the room.
LEMMA JoinedRoom ==
  ASSUME NEW room \in Room, NEW c \in Conns, NEW name \in Users \cup {Nobody}
  PROVE  /\ Joined(room, c, name) \in Room
         /\ Joined(room, c, name).session = room.session
         /\ Joined(room, c, name).roles[c] \in Seats
<1> DEFINE count == IF room.connectionCount > SeatsByOrder THEN room.connectionCount
                    ELSE room.connectionCount + 1
           reserved == IF name = Nobody THEN "None" ELSE room.seatReservations[name]
           byOrder == IF count = 1 THEN "White" ELSE IF count = 2 THEN "Black" ELSE "None"
           seat == IF reserved # "None" THEN reserved ELSE byOrder
           roles == [room.roles EXCEPT ![c] = seat]
<1>1. room.connectionCount \in 0 .. SeatsByOrder + 1 /\ room.roles \in [Conns -> Seats \cup {"Out"}]
  BY DEF Room
<1>2. count \in 0 .. SeatsByOrder + 1
  BY <1>1 DEF SeatsByOrder
<1>3. Joined(room, c, name) = [room EXCEPT !.connectionCount = count, !.roles = roles]
  BY <1>1 DEF Joined, Room
<1>4. seat \in Seats
  BY DEF Room, Seats, Colors
<1> HIDE DEF count, seat
<1>5. roles \in [Conns -> Seats \cup {"Out"}] /\ roles[c] = seat
  BY <1>1, <1>4
<1> HIDE DEF roles
<1>6. /\ Joined(room, c, name) \in Room
      /\ Joined(room, c, name).session = room.session
      /\ Joined(room, c, name).roles = roles
  BY <1>2, <1>3, <1>5 DEF Room
<1> QED BY <1>4, <1>5, <1>6

LEMMA CancelledTimer ==
  ASSUME TypeOK, NEW c \in Conns
  PROVE  CancelTimer(c) \in [Conns -> Timer]
<1>1. timers \in [Conns -> Timer] /\ timers[c] \in Timer
  BY DEF TypeOK
<1>2. [timers[c] EXCEPT !.status = "off"] \in Timer
  BY <1>1 DEF Timer
<1>3. [timers EXCEPT ![c].status = "off"] = [timers EXCEPT ![c] = [timers[c] EXCEPT !.status = "off"]]
  BY <1>1
<1> QED BY <1>1, <1>2, <1>3 DEF CancelTimer

\* leave() takes the handle out of its room, or the room away between ticks.
LEMMA LeftRooms ==
  ASSUME TypeOK, NEW c \in Conns
  PROVE  /\ DOMAIN Leave(c) \subseteq DOMAIN rooms
         /\ \A r \in DOMAIN Leave(c) :
              Leave(c)[r] \in Room /\ Leave(c)[r].session = rooms[r].session
         /\ \A r \in DOMAIN rooms \ DOMAIN Leave(c) : tick[rooms[r].session] = "idle"
<1> DEFINE r == connectionRoom[c]
           roles == [rooms[r].roles EXCEPT ![c] = "Out"]
<1>0. \A n \in DOMAIN rooms : rooms[n] \in Room
  BY DEF TypeOK
<1>1. CASE ~Exists(r)
  BY <1>0, <1>1 DEF Leave
<1>2. CASE Exists(r)
  <2>1. r \in DOMAIN rooms /\ rooms[r] \in Room /\ roles \in [Conns -> Seats \cup {"Out"}]
    BY <1>0, <1>2 DEF Exists, Room
  <2> HIDE DEF roles
  <2>2. /\ [rooms[r] EXCEPT !.roles = roles] \in Room
        /\ [rooms[r] EXCEPT !.roles = roles, !.pendingRemoval = TRUE] \in Room
        /\ [rooms[r] EXCEPT !.roles = roles].session = rooms[r].session
        /\ [rooms[r] EXCEPT !.roles = roles, !.pendingRemoval = TRUE].session = rooms[r].session
    BY <2>1 DEF Room
  <2>3. \/ Leave(c) = [rooms EXCEPT ![r] = [rooms[r] EXCEPT !.roles = roles]]
        \/ Leave(c) = [rooms EXCEPT ![r] =
                         [rooms[r] EXCEPT !.roles = roles, !.pendingRemoval = TRUE]]
        \/ Leave(c) = Erase(r) /\ tick[rooms[r].session] = "idle"
    BY <1>2, <2>1 DEF Leave, roles
  <2> QED BY <1>0, <2>1, <2>2, <2>3 DEF Erase
<1> QED BY <1>1, <1>2

\* publishGameEnded on a session without a result leaves it with one.
LEMMA PublishedOnce ==
  ASSUME TypeOK, OneResult, NEW s \in Sessions, NEW r \in Rooms, NEW e \in Result,
         results[s] = <<>>, PublishGameEnded(s, r, e)
  PROVE  /\ results' \in [Sessions -> Seq(Result)]
         /\ records' \in [Sessions -> Nat]
         /\ OneResult'
         /\ results' = [results EXCEPT ![s] = <<e>>]
<1>1. results \in [Sessions -> Seq(Result)] /\ records \in [Sessions -> Nat] /\ attached[r] \in Nat
  BY DEF TypeOK
<1>2. results' = [results EXCEPT ![s] = <<e>>]
  <2>1. Append(<<>>, e) = <<e>>
    OBVIOUS
  <2> QED BY <1>1, <2>1 DEF PublishGameEnded
<1>3. <<e>> \in Seq(Result) /\ Len(<<e>>) = 1
  OBVIOUS
<1>4. records' \in [Sessions -> Nat]
  BY <1>1 DEF PublishGameEnded
<1>5. results' \in [Sessions -> Seq(Result)]
  BY <1>1, <1>2, <1>3
<1>6. \A q \in Sessions : results'[q] = IF q = s THEN <<e>> ELSE results[q]
  BY <1>1, <1>2
<1>7. ASSUME NEW q \in Sessions PROVE Len(results'[q]) <= 1
  <2>1. CASE q = s
    <3>1. results'[q] = <<e>>
      BY <1>6, <2>1
    <3> QED BY <3>1
  <2>2. CASE q # s
    BY <1>6, <2>2 DEF OneResult
  <2> QED BY <2>1, <2>2
<1>8. OneResult'
  BY <1>7 DEF OneResult
<1> QED BY <1>2, <1>4, <1>5, <1>8

LEMMA TypeOfResults ==
  ASSUME TypeOK, NEW s \in Sessions
  PROVE  /\ \A color \in Seats, u \in Users \cup {Nobody} : Resignation(s, color, u) \in Result
         /\ winner[s] # "None" => KingCaptureResult(s) \in Result
BY DEF TypeOK, Resignation, KingCaptureResult, Result, Opponent, Seats, Colors

-----------------------------------------------------------------------------
(* One lemma per step.                                                     *)

LEMMA InitRInv == Init => RInv
<1> SUFFICES ASSUME Init PROVE RInv
  OBVIOUS
<1>1. TypeOK
  BY GameRoomsAssumption DEF Init, TypeOK, Sessions, Seats, Colors, TickStates, Timer
<1>2. RoomsNamed /\ WorkerKeepsSession /\ OneResult
  BY DEF Init, RoomsNamed, WorkerKeepsSession, OneResult
<1> QED BY <1>1, <1>2 DEF RInv

LEMMA AllocateRoomStep ==
  ASSUME RInv, NEW r \in Rooms, NEW f \in Reservations, AllocateRoom(r, f)
  PROVE  RInv'
<1> DEFINE new == rooms'[r]
<1>0. created + 1 \in Sessions /\ created \in Nat /\ f \in [Users -> Seats]
  BY GameRoomsAssumption DEF RInv, TypeOK, AllocateRoom, Sessions, Reservations
<1>1. new \in Room /\ new.session = created + 1
  BY <1>0 DEF AllocateRoom, Room, Seats, SeatsByOrder
<1>2. \A n \in DOMAIN rooms : n # r /\ n \in DOMAIN rooms' /\ rooms'[n] = rooms[n]
  BY DEF AllocateRoom, Exists
<1>3. DOMAIN rooms' = DOMAIN rooms \cup {r}
  BY DEF AllocateRoom
<1>4. TypeOK'
  BY <1>0, <1>1, <1>2, <1>3 DEF RInv, TypeOK, AllocateRoom, Sessions
<1>5. RoomsNamed'
  BY <1>0, <1>1, <1>2, <1>3 DEF RInv, RoomsNamed, AllocateRoom, TypeOK
<1>6. WorkerKeepsSession'
  BY <1>2 DEF RInv, WorkerKeepsSession, Owned, AllocateRoom
<1>7. OneResult'
  BY DEF RInv, OneResult, AllocateRoom
<1> QED BY <1>4, <1>5, <1>6, <1>7 DEF RInv

LEMMA LoginStep ==
  ASSUME RInv, NEW c \in Conns, NEW n \in Users, Login(c, n)
  PROVE  RInv'
<1>1. TypeOK'
  BY DEF RInv, TypeOK, Login, registry
<1>2. RoomsNamed' /\ WorkerKeepsSession' /\ OneResult'
  BY DEF RInv, RoomsNamed, WorkerKeepsSession, Owned, OneResult, Login, registry
<1> QED BY <1>1, <1>2 DEF RInv

LEMMA JoinRoomStep ==
  ASSUME RInv, NEW c \in Conns, NEW r \in Rooms, JoinRoom(c, r)
  PROVE  RInv'
<1> DEFINE room == Joined(rooms[r], c, Nobody)
<1>1. r \in DOMAIN rooms /\ rooms[r] \in Room
  BY DEF RInv, TypeOK, JoinRoom, Exists
<1>2. room \in Room /\ room.session = rooms[r].session
  BY <1>1, JoinedRoom
<1>3. rooms' = [rooms EXCEPT ![r] = room]
  BY DEF JoinRoom
<1> HIDE DEF room
<1>4. RoomsShrink /\ DOMAIN rooms' \subseteq Rooms /\ \A n \in DOMAIN rooms' : rooms'[n] \in Room
  BY <1>1, <1>2, <1>3, ExceptRoom DEF RInv
<1>5. TypeOK'
  BY <1>4 DEF RInv, TypeOK, JoinRoom
<1>6. RoomsNamed' /\ WorkerKeepsSession'
  BY <1>4, ShrinkKeepsSessions DEF RInv, JoinRoom
<1>7. OneResult'
  BY DEF RInv, OneResult, JoinRoom
<1> QED BY <1>5, <1>6, <1>7 DEF RInv

LEMMA EnterRoomStep ==
  ASSUME RInv, NEW c \in Conns, NEW name \in Users, NEW r \in Rooms, EnterRoom(c, name, r)
  PROVE  RInv'
<1> DEFINE room == Joined(rooms[r], c, name)
           color == room.roles[c]
           back == [room EXCEPT !.pendingDisconnects[color] = NoConn]
<1>1. r \in DOMAIN rooms /\ rooms[r] \in Room
  BY DEF RInv, TypeOK, EnterRoom, Exists
<1>2. room \in Room /\ room.session = rooms[r].session /\ color \in Seats
  BY <1>1, JoinedRoom
<1>3. CASE Reclaims(room, color, name)
  <2>1. /\ rooms' = [rooms EXCEPT ![r] = back]
        /\ timers' = CancelTimer(room.pendingDisconnects[color])
        /\ banner' = ClearedBanner(room.session)
    BY <1>3 DEF EnterRoom
  <2>2. color \in Colors
    BY <1>3 DEF Reclaims
  <2> HIDE DEF room, color
  <2>3. back \in Room /\ back.session = rooms[r].session
    BY <1>2, <2>2 DEF Room
  <2> HIDE DEF back
  <2>4. RoomsShrink /\ DOMAIN rooms' \subseteq Rooms /\ \A n \in DOMAIN rooms' : rooms'[n] \in Room
    BY <1>1, <2>1, <2>3, ExceptRoom DEF RInv
  <2>5. timers' \in [Conns -> Timer]
    <3>1. room.pendingDisconnects[color] \in Conns
      BY <1>2, <1>3, <2>2 DEF Reclaims, Room
    <3> QED BY <2>1, <3>1, CancelledTimer DEF RInv
  <2>6. banner' \in [Sessions -> Seats]
    BY <2>1 DEF ClearedBanner, RInv, TypeOK, Seats
  <2>7. TypeOK'
    BY <2>4, <2>5, <2>6 DEF RInv, TypeOK, EnterRoom
  <2>8. RoomsNamed' /\ WorkerKeepsSession'
    BY <2>4, ShrinkKeepsSessions DEF RInv, EnterRoom
  <2>9. OneResult'
    BY DEF RInv, OneResult, EnterRoom
  <2> QED BY <2>7, <2>8, <2>9 DEF RInv
<1>4. CASE ~Reclaims(room, color, name)
  <2>1. rooms' = [rooms EXCEPT ![r] = room] /\ UNCHANGED <<timers, banner>>
    BY <1>4 DEF EnterRoom
  <2> HIDE DEF room
  <2>4. RoomsShrink /\ DOMAIN rooms' \subseteq Rooms /\ \A n \in DOMAIN rooms' : rooms'[n] \in Room
    BY <1>1, <1>2, <2>1, ExceptRoom DEF RInv
  <2>7. TypeOK'
    BY <2>4, <2>1 DEF RInv, TypeOK, EnterRoom
  <2>8. RoomsNamed' /\ WorkerKeepsSession'
    BY <2>4, ShrinkKeepsSessions DEF RInv, EnterRoom
  <2>9. OneResult'
    BY DEF RInv, OneResult, EnterRoom
  <2> QED BY <2>7, <2>8, <2>9 DEF RInv
<1> QED BY <1>3, <1>4

LEMMA OnCloseStep ==
  ASSUME RInv, NEW c \in Conns, OnClose(c)
  PROVE  RInv'
<1> DEFINE r == connectionRoom[c]
           role == RoleOf(c)
           after == Leave(c)
<1>1. /\ DOMAIN after \subseteq DOMAIN rooms
      /\ \A n \in DOMAIN after : after[n] \in Room /\ after[n].session = rooms[n].session
      /\ \A n \in DOMAIN rooms \ DOMAIN after : tick[rooms[n].session] = "idle"
  BY LeftRooms DEF RInv
<1>2. /\ DOMAIN rooms' = DOMAIN after
      /\ \A n \in DOMAIN after : rooms'[n] \in Room /\ rooms'[n].session = after[n].session
      /\ timers' \in [Conns -> Timer]
  <2>1. CASE role \in Colors /\ r \in DOMAIN after
    <3> DEFINE held == [n \in Users |-> IF n = user[c] THEN role
                                        ELSE after[r].seatReservations[n]]
               room == [after[r] EXCEPT !.pendingDisconnects[role] = c,
                                        !.seatReservations = held]
               timer == [status |-> "waiting", room |-> r, color |-> role,
                         user |-> user[c], remaining |-> GraceSeconds]
    <3>1. rooms' = [after EXCEPT ![r] = room] /\ timers' = [timers EXCEPT ![c] = timer]
      <4> HIDE DEF after, role
      <4> QED BY <2>1 DEF OnClose, after, role
    <3>2. after[r] \in Room
      BY <1>1, <2>1
    <3> HIDE DEF after, role
    <3>3. held \in [Users -> Seats]
      BY <2>1, <3>2 DEF Room, Seats
    <3> HIDE DEF held
    <3>4. room \in Room /\ room.session = after[r].session
      BY <2>1, <3>2, <3>3 DEF Room
    <3>5. timer \in Timer
      BY <2>1, GameRoomsAssumption DEF RInv, TypeOK, Timer, Seats
    <3> HIDE DEF room, timer
    <3>6. timers' \in [Conns -> Timer]
      BY <3>1, <3>5 DEF RInv, TypeOK
    <3> QED BY <1>1, <2>1, <3>1, <3>4, <3>6
  <2>2. CASE ~(role \in Colors /\ r \in DOMAIN after)
    <3>1. rooms' = after /\ UNCHANGED timers
      BY <2>2 DEF OnClose
    <3> HIDE DEF after
    <3> QED BY <1>1, <3>1 DEF RInv, TypeOK
  <2> QED BY <2>1, <2>2
<1> HIDE DEF after
<1>3. RoomsShrink
  BY <1>1, <1>2 DEF RoomsShrink, OnClose
<1>4. directory' \subseteq Rooms
  BY DEF OnClose, RInv, TypeOK
<1>5. TypeOK'
  BY <1>1, <1>2, <1>4 DEF RInv, TypeOK, OnClose
<1>6. RoomsNamed' /\ WorkerKeepsSession'
  BY <1>3, ShrinkKeepsSessions DEF RInv, OnClose
<1>7. OneResult'
  BY DEF RInv, OneResult, OnClose
<1> QED BY <1>5, <1>6, <1>7 DEF RInv

LEMMA TimerExpiresStep ==
  ASSUME RInv, NEW c \in Conns, TimerExpires(c)
  PROVE  RInv'
<1>1. timers' \in [Conns -> Timer]
  <2>1. timers \in [Conns -> Timer] /\ timers[c] \in Timer
    BY DEF RInv, TypeOK
  <2>2. [timers[c] EXCEPT !.status = "expired"] \in Timer
    BY <2>1 DEF Timer
  <2>3. timers' = [timers EXCEPT ![c] = [timers[c] EXCEPT !.status = "expired"]]
    BY <2>1 DEF TimerExpires
  <2> QED BY <2>1, <2>2, <2>3
<1>2. TypeOK'
  BY <1>1 DEF RInv, TypeOK, TimerExpires, registry
<1>3. RoomsNamed' /\ WorkerKeepsSession' /\ OneResult'
  BY DEF RInv, RoomsNamed, WorkerKeepsSession, Owned, OneResult, TimerExpires, registry
<1> QED BY <1>2, <1>3 DEF RInv

LEMMA CountdownStep ==
  ASSUME RInv, NEW c \in Conns, Countdown(c)
  PROVE  RInv'
<1> DEFINE t == timers[c]
           s == rooms[t.room].session
           stopped == [t EXCEPT !.status = "off"]
<1>0. /\ timers \in [Conns -> Timer] /\ t \in Timer
      /\ t.color \in Seats /\ t.user \in Users \cup {Nobody} /\ t.remaining \in 0 .. GraceSeconds
  BY DEF RInv, TypeOK, Timer
<1>1. stopped \in Timer /\ [timers EXCEPT ![c].status = "off"] = [timers EXCEPT ![c] = stopped]
  BY <1>0 DEF Timer
<1>2. Exists(t.room) => t.room \in Rooms /\ rooms[t.room] \in Room /\ s \in Sessions
  BY DEF RInv, TypeOK, Exists, Room
<1>3. /\ RoomsShrink /\ DOMAIN rooms' \subseteq Rooms /\ \A n \in DOMAIN rooms' : rooms'[n] \in Room
      /\ timers' \in [Conns -> Timer] /\ banner' \in [Sessions -> Seats]
      /\ results' \in [Sessions -> Seq(Result)] /\ records' \in [Sessions -> Nat]
      /\ OneResult'
  <2> HIDE DEF stopped
  <2>1. CASE ~Exists(t.room)
    <3>1. UNCHANGED <<rooms, results, records, banner>> /\ timers' = [timers EXCEPT ![c] = stopped]
      BY <1>1, <2>1 DEF Countdown
    <3>2. RoomsShrink
      BY <3>1 DEF RoomsShrink, RInv, TypeOK
    <3> QED BY <1>0, <1>1, <3>1, <3>2 DEF RInv, TypeOK, OneResult
  <2>2. CASE Exists(t.room) /\ ~GraceOver(t)
    <3>1. /\ UNCHANGED <<rooms, results, records>> /\ timers' = [timers EXCEPT ![c] = Rearmed(t)]
          /\ banner' = [banner EXCEPT ![s] = t.color]
      BY <2>2 DEF Countdown
    <3>2. RoomsShrink
      BY <3>1 DEF RoomsShrink, RInv, TypeOK
    <3>3. Rearmed(t) \in Timer
      <4>1. t.remaining - 1 \in 0 .. GraceSeconds
        BY <1>0, <2>2, GameRoomsAssumption DEF GraceOver
      <4> QED BY <1>0, <4>1 DEF Rearmed, Timer
    <3> QED BY <1>0, <3>1, <3>2, <3>3 DEF RInv, TypeOK, OneResult
  <2>3. CASE Exists(t.room) /\ GraceOver(t)
    <3> DEFINE freed == [n \in Users |-> IF n = t.user THEN "None"
                                         ELSE rooms[t.room].seatReservations[n]]
               room == [rooms[t.room] EXCEPT !.pendingDisconnects[t.color] = NoConn,
                                             !.seatReservations = freed]
    <3>1. /\ rooms' = [rooms EXCEPT ![t.room] = room] /\ timers' = [timers EXCEPT ![c] = stopped]
          /\ banner' = [banner EXCEPT ![s] = t.color]
          /\ MarkDisconnectResign(s, t.room, t.color, t.user)
      BY <1>1, <2>3 DEF Countdown
    <3>2. freed \in [Users -> Seats]
      BY <1>2, <2>3 DEF Room, Seats
    <3> HIDE DEF freed
    <3>3. room \in Room /\ room.session = s
      BY <1>2, <2>3, <3>2 DEF Room
    <3> HIDE DEF room
    <3>4. RoomsShrink /\ DOMAIN rooms' \subseteq Rooms /\ \A n \in DOMAIN rooms' : rooms'[n] \in Room
      BY <2>3, <3>1, <3>3, ExceptRoom DEF RInv, Exists
    <3>5. results' \in [Sessions -> Seq(Result)] /\ records' \in [Sessions -> Nat] /\ OneResult'
      <4>1. CASE results[s] # <<>> \/ winner[s] # "None"
        BY <3>1, <4>1 DEF MarkDisconnectResign, RInv, TypeOK, OneResult
      <4>2. CASE ~(results[s] # <<>> \/ winner[s] # "None")
        <5>1. PublishGameEnded(s, t.room, Resignation(s, t.color, t.user))
          BY <3>1, <4>2 DEF MarkDisconnectResign
        <5>2. Resignation(s, t.color, t.user) \in Result
          BY <1>0, <1>2, <2>3, TypeOfResults DEF RInv
        <5> QED BY <1>2, <2>3, <4>2, <5>1, <5>2, PublishedOnce DEF RInv
      <4> QED BY <4>1, <4>2
    <3>6. timers' \in [Conns -> Timer] /\ banner' \in [Sessions -> Seats]
      BY <1>0, <1>1, <3>1 DEF RInv, TypeOK
    <3> QED BY <3>4, <3>5, <3>6
  <2> QED BY <2>1, <2>2, <2>3
<1>4. TypeOK'
  BY <1>3 DEF RInv, TypeOK, Countdown
<1>5. RoomsNamed' /\ WorkerKeepsSession'
  BY <1>3, ShrinkKeepsSessions DEF RInv, Countdown
<1> QED BY <1>3, <1>4, <1>5 DEF RInv

LEMMA OnTickStep ==
  ASSUME RInv, OnTick
  PROVE  RInv'
<1> DEFINE live == {rooms[r].session : r \in DOMAIN rooms}
<1>1. identity' \in [Sessions -> [Colors -> Users \cup {Nobody}]]
  <2>1. PICK id : /\ \A r \in DOMAIN rooms : id[rooms[r].session] \in Identities(r)
                  /\ identity' = [s \in Sessions |-> IF s \in live THEN id[s] ELSE identity[s]]
    BY DEF OnTick
  <2>2. \A r : Identities(r) \subseteq [Colors -> Users \cup {Nobody}]
    BY DEF Identities
  <2>3. \A s \in live : id[s] \in [Colors -> Users \cup {Nobody}]
    BY <2>1, <2>2
  <2> HIDE DEF live
  <2> QED BY <2>1, <2>3 DEF RInv, TypeOK
<1>2. tick' \in [Sessions -> TickStates]
  BY DEF OnTick, RInv, TypeOK, TickStates
<1>3. TypeOK'
  BY <1>1, <1>2 DEF RInv, TypeOK, OnTick, registry
<1>4. RoomsShrink
  BY DEF RoomsShrink, OnTick, registry, RInv, TypeOK
<1>5. \A s \in Sessions : tick'[s] # "idle" => tick[s] # "idle" \/ Owned(s)
  BY DEF OnTick, Owned
<1>6. RoomsNamed' /\ WorkerKeepsSession'
  BY <1>4, <1>5, ShrinkKeepsSessions DEF RInv, OnTick
<1>7. OneResult'
  BY DEF RInv, OneResult, OnTick
<1> QED BY <1>3, <1>6, <1>7 DEF RInv

LEMMA ComputeStepStep ==
  ASSUME RInv, NEW s \in Sessions, ComputeStep(s)
  PROVE  RInv'
<1>1. TypeOK'
  BY DEF RInv, TypeOK, ComputeStep, registry, TickStates, Seats
<1>2. RoomsShrink
  BY DEF RoomsShrink, ComputeStep, registry, RInv, TypeOK
<1>3. \A q \in Sessions : tick'[q] # "idle" => tick[q] # "idle" \/ Owned(q)
  BY DEF ComputeStep, RInv, TypeOK
<1>4. RoomsNamed' /\ WorkerKeepsSession'
  BY <1>2, <1>3, ShrinkKeepsSessions DEF RInv, ComputeStep
<1>5. OneResult'
  BY DEF RInv, OneResult, ComputeStep
<1> QED BY <1>1, <1>4, <1>5 DEF RInv

LEMMA PublishStepStep ==
  ASSUME RInv, NEW s \in Sessions, PublishStep(s)
  PROVE  RInv'
<1>1. roomName[s] \in Rooms
  BY InFlightNamed DEF PublishStep
<1>2. results' \in [Sessions -> Seq(Result)] /\ records' \in [Sessions -> Nat] /\ OneResult'
  <2>1. CASE results[s] = <<>> /\ winner[s] # "None"
    <3>1. PublishGameEnded(s, roomName[s], KingCaptureResult(s))
      BY <2>1 DEF PublishStep, FinishGame
    <3>2. KingCaptureResult(s) \in Result
      BY <2>1, TypeOfResults DEF RInv
    <3> QED BY <1>1, <2>1, <3>1, <3>2, PublishedOnce DEF RInv
  <2>2. CASE ~(results[s] = <<>> /\ winner[s] # "None")
    BY <2>2 DEF PublishStep, FinishGame, RInv, TypeOK, OneResult
  <2> QED BY <2>1, <2>2
<1>3. RoomsShrink /\ directory' \subseteq Rooms
  <2>1. CASE UNCHANGED <<rooms, directory>>
    BY <2>1 DEF RoomsShrink, RInv, TypeOK
  <2>2. CASE /\ tick'[rooms[roomName[s]].session] = "idle"
             /\ rooms' = Erase(roomName[s]) /\ directory' = directory \ {roomName[s]}
    BY <2>2 DEF RoomsShrink, Erase, RInv, TypeOK
  <2> QED BY <2>1, <2>2 DEF PublishStep, ReapIfSafe
<1>4. TypeOK'
  BY <1>2, <1>3 DEF RInv, TypeOK, PublishStep, RoomsShrink, TickStates
<1>5. \A q \in Sessions : tick'[q] # "idle" => tick[q] # "idle" \/ Owned(q)
  BY DEF PublishStep, RInv, TypeOK
<1>6. RoomsNamed' /\ WorkerKeepsSession'
  BY <1>3, <1>5, ShrinkKeepsSessions DEF RInv, PublishStep
<1> QED BY <1>2, <1>4, <1>6 DEF RInv

LEMMA NextRInv == RInv /\ [Next]_vars => RInv'
<1> SUFFICES ASSUME RInv, [Next]_vars PROVE RInv'
  OBVIOUS
<1>1. CASE ClientStep
  BY <1>1, AllocateRoomStep, LoginStep, JoinRoomStep, EnterRoomStep, OnCloseStep DEF ClientStep
<1>2. CASE ServerStep
  BY <1>2, OnTickStep, ComputeStepStep, PublishStepStep, TimerExpiresStep, CountdownStep
     DEF ServerStep
<1>3. CASE UNCHANGED vars
  <2>1. TypeOK'
    BY <1>3 DEF RInv, TypeOK, vars, registry
  <2>2. RoomsNamed' /\ WorkerKeepsSession' /\ OneResult'
    BY <1>3 DEF RInv, RoomsNamed, WorkerKeepsSession, Owned, OneResult, vars, registry
  <2> QED BY <2>1, <2>2 DEF RInv
<1> QED BY <1>1, <1>2, <1>3 DEF Next

-----------------------------------------------------------------------------
(* Theorems.                                                               *)

\* The inductive invariant of the handlers, timers, workers and tick loop.
THEOREM RoomsInvariance == Spec => []RInv
BY InitRInv, NextRInv, PTL DEF Spec

\* The registry, sessions and timers keep their types.
THEOREM RoomsTypeCorrect == Spec => []TypeOK
<1>1. RInv => TypeOK
  BY DEF RInv
<1> QED BY <1>1, RoomsInvariance, PTL

\* leave() and reapIfSafe() never destroy a GameSession that a worker computes
\* or a posted publishStep refers to, for any number of rooms and connections.
THEOREM SessionsOutliveWorkers == Spec => []WorkerKeepsSession
<1>1. RInv => WorkerKeepsSession
  BY DEF RInv
<1> QED BY <1>1, RoomsInvariance, PTL

\* publishGameEnded runs at most once for a session, whichever of a King's
\* capture and any number of disconnect countdowns comes first.
THEOREM AtMostOneResult == Spec => []OneResult
<1>1. RInv => OneResult
  BY DEF RInv
<1> QED BY <1>1, RoomsInvariance, PTL

\* The step form of KingCaptureStands.
KingStands ==
  \A s \in Sessions : winner[s] # "None" /\ results'[s] # results[s] =>
    \A i \in DOMAIN results'[s] : results'[s][i].reason = "KingCapture"

LEMMA NextKingStands == RInv /\ [Next]_vars => [KingStands]_vars
<1> SUFFICES ASSUME RInv, [Next]_vars, NEW s \in Sessions,
                    winner[s] # "None", results'[s] # results[s]
             PROVE  \A i \in DOMAIN results'[s] : results'[s][i].reason = "KingCapture"
  BY DEF KingStands
<1>1. ASSUME NEW q \in Sessions, PublishStep(q)
      PROVE  \A i \in DOMAIN results'[s] : results'[s][i].reason = "KingCapture"
  <2>1. roomName[q] \in Rooms
    BY <1>1, InFlightNamed DEF PublishStep
  <2>2. /\ results[q] = <<>> /\ winner[q] # "None"
        /\ PublishGameEnded(q, roomName[q], KingCaptureResult(q))
    BY <1>1 DEF PublishStep, FinishGame
  <2>3. KingCaptureResult(q) \in Result
    BY <2>2, TypeOfResults DEF RInv
  <2>4. results' = [results EXCEPT ![q] = <<KingCaptureResult(q)>>]
    BY <2>1, <2>2, <2>3, PublishedOnce DEF RInv
  <2>5. s = q /\ results'[s] = <<KingCaptureResult(q)>>
    BY <2>4 DEF RInv, TypeOK
  <2> QED BY <2>5 DEF KingCaptureResult
<1>2. ASSUME NEW c \in Conns, Countdown(c) PROVE FALSE
  <2> DEFINE q == rooms[timers[c].room].session
  <2>1. q \in Sessions /\ MarkDisconnectResign(q, timers[c].room, timers[c].color, timers[c].user)
    BY <1>2 DEF Countdown, RInv, TypeOK, Exists, Room
  <2>2. winner[q] = "None" /\ \E e : results' = [results EXCEPT ![q] = e]
    BY <2>1 DEF MarkDisconnectResign, PublishGameEnded
  <2> HIDE DEF q
  <2> QED BY <2>1, <2>2 DEF RInv, TypeOK
<1> QED
  BY <1>1, <1>2 DEF Next, ClientStep, ServerStep, vars, AllocateRoom, Login, JoinRoom, EnterRoom,
                    OnClose, OnTick, ComputeStep, TimerExpires

\* No markDisconnectResign decides a game whose King has fallen, even before
\* the publishStep that announces it has run.
THEOREM KingCapturePrevails == Spec => KingCaptureStands
BY RoomsInvariance, NextKingStands, PTL DEF Spec, KingCaptureStands, KingStands
=============================================================================

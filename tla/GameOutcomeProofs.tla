------------------------- MODULE GameOutcomeProofs -------------------------
(***************************************************************************)
(* How games end, for any number of connections, users, names, sessions    *)
(* and seconds of grace: GameRooms implements GameOutcome, and a banner    *)
(* has a countdown behind it. All rests on RInv and on the second layer of *)
(* invariants below.                                                       *)
(***************************************************************************)
EXTENDS GameRoomsProofs

\* Nothing has happened yet to a session that was not created.
Unborn ==
  \A s \in Sessions : s > created =>
    winner[s] = "None" /\ results[s] = <<>> /\ banner[s] = "None"

\* A capture that is not announced has its publishStep posted.
CaptureComputed ==
  \A s \in Sessions : winner[s] # "None" /\ results[s] = <<>> => tick[s] = "computed"

\* A timer runs for a handle that is closed, and the one a room remembers for
\* a seat was started in that room.
TimersTied ==
  /\ \A c \in Conns : timers[c].status # "off" => c \in closed
  /\ \A r \in DOMAIN rooms, color \in Colors :
       LET h == rooms[r].pendingDisconnects[color]
       IN  h # NoConn => h \in closed /\ timers[h].room = r

OInv == Unborn /\ CaptureComputed /\ TimersTied /\ BannerHasCountdown
-----------------------------------------------------------------------------
(* The stages of the sessions.                                             *)

\* A session some room owns has been created.
LEMMA OwnedIsCreated ==
  ASSUME RInv, NEW s \in Sessions, Owned(s)
  PROVE  s <= created /\ Stage[s] = "open"
<1>1. s \in 1 .. created /\ created \in Nat
  BY DEF RInv, RoomsNamed, Owned, TypeOK
<1> QED BY <1>1 DEF Stage, Sessions

\* The rooms are the same, with the same sessions.
RoomsKept ==
  /\ DOMAIN rooms' = DOMAIN rooms
  /\ \A r \in DOMAIN rooms : rooms'[r].session = rooms[r].session

LEMMA KeptStage ==
  ASSUME RoomsKept, UNCHANGED created
  PROVE  Stage' = Stage
<1>1. \A s \in Sessions : Owned(s)' <=> Owned(s)
  BY DEF RoomsKept, Owned
<1> QED BY <1>1 DEF Stage

\* One room goes and its session is closed.
LEMMA ErasedStage ==
  ASSUME RInv, NEW r \in DOMAIN rooms, DOMAIN rooms' = DOMAIN rooms \ {r},
         \A n \in DOMAIN rooms' : rooms'[n].session = rooms[n].session,
         UNCHANGED created
  PROVE  /\ rooms[r].session \in Sessions
         /\ Stage[rooms[r].session] = "open"
         /\ Stage' = [Stage EXCEPT ![rooms[r].session] = "closed"]
<1> DEFINE q == rooms[r].session
<1>1. q \in Sessions /\ Owned(q)
  BY DEF RInv, TypeOK, Room, Owned
<1>2. q <= created /\ Stage[q] = "open"
  BY <1>1, OwnedIsCreated
<1>3. \A s \in Sessions : Owned(s)' <=> Owned(s) /\ s # q
  BY DEF Owned, RInv, RoomsNamed
<1> HIDE DEF q
<1>4. created \in Int /\ Sessions \subseteq Int
  BY DEF RInv, TypeOK, Sessions
<1>5. \A s \in Sessions : Stage'[s] = IF s = q THEN "closed" ELSE Stage[s]
  BY <1>1, <1>2, <1>3, <1>4 DEF Stage
<1>6. Stage' = [s \in Sessions |-> Stage'[s]] /\ DOMAIN Stage = Sessions
  BY DEF Stage
<1>7. [Stage EXCEPT ![q] = "closed"] = [s \in Sessions |-> IF s = q THEN "closed" ELSE Stage[s]]
  BY <1>6
<1> QED BY <1>1, <1>2, <1>5, <1>6, <1>7 DEF q

\* A step that decides nothing and neither opens nor closes a game.
LEMMA QuietOutcome ==
  ASSUME RoomsKept, UNCHANGED <<created, winner, results>>
  PROVE  UNCHANGED GO!vars
<1>1. Outcome' = Outcome
  BY DEF Outcome
<1> QED BY <1>1, KeptStage DEF GO!vars

\* The game of s is decided by result e.
LEMMA DecidedOutcome ==
  ASSUME RInv, NEW s \in Sessions, NEW e \in Result, results' = [results EXCEPT ![s] = <<e>>]
  PROVE  Outcome' = [Outcome EXCEPT ![s] = <<e.winner, e.reason>>]
<1>1. <<e>> # <<>> /\ <<e>>[1] = e
  OBVIOUS
<1>2. DOMAIN results = Sessions
  BY DEF RInv, TypeOK
<1> QED BY <1>1, <1>2 DEF Outcome

-----------------------------------------------------------------------------
(* What most steps leave alone.                                            *)

\* Whatever does not touch the games keeps the facts about them, provided that
\* it cancels no publishStep.
LEMMA UntouchedGames ==
  ASSUME OInv, UNCHANGED <<created, winner, results, banner>>,
         \A s \in Sessions : tick[s] = "computed" => tick'[s] = "computed"
  PROVE  Unborn' /\ CaptureComputed'
<1>1. Unborn'
  BY DEF OInv, Unborn
<1>2. CaptureComputed'
  BY DEF OInv, CaptureComputed
<1> QED BY <1>1, <1>2

\* Rooms that stay keep their session and the countdowns of their seats.
SeatsKept ==
  /\ DOMAIN rooms' \subseteq DOMAIN rooms
  /\ \A r \in DOMAIN rooms' : /\ rooms'[r].session = rooms[r].session
                              /\ rooms'[r].pendingDisconnects = rooms[r].pendingDisconnects

\* Nobody's game is taken back.
Onwards ==
  \A s \in Sessions : /\ results'[s] = <<>> => results[s] = <<>>
                      /\ winner'[s] = "None" => winner[s] = "None"

LEMMA UntouchedCountdowns ==
  ASSUME RInv, OInv, SeatsKept, Onwards, closed \subseteq closed', UNCHANGED <<timers, banner>>
  PROVE  TimersTied' /\ BannerHasCountdown'
<1>1. TimersTied'
  BY DEF OInv, TimersTied, SeatsKept
<1>2. \A r \in DOMAIN rooms : rooms[r].session \in Sessions
  BY DEF RInv, TypeOK, Room
<1>3. BannerHasCountdown'
  BY <1>2 DEF OInv, BannerHasCountdown, SeatsKept, Onwards
<1> QED BY <1>1, <1>3

-----------------------------------------------------------------------------
(* One lemma per step: the invariant, and the step of GameOutcome it is.   *)

LEMMA InitOInv == Init => OInv /\ GO!Init
<1> SUFFICES ASSUME Init PROVE OInv /\ GO!Init
  OBVIOUS
<1>1. Unborn /\ CaptureComputed
  BY DEF Init, Unborn, CaptureComputed
<1>2. TimersTied /\ BannerHasCountdown
  BY DEF Init, TimersTied, BannerHasCountdown
<1>3. GO!Init
  <2>1. \A s \in Sessions : s > created
    BY DEF Init, Sessions
  <2>2. Stage = [s \in Sessions |-> "new"] /\ Outcome = [s \in Sessions |-> <<>>]
    BY <2>1 DEF Init, Stage, Outcome
  <2> QED BY <2>2 DEF Init, GO!Init
<1> QED BY <1>1, <1>2, <1>3 DEF OInv

\* AllocateRoom opens the game of a new session.
LEMMA AllocateOutcome ==
  ASSUME RInv, OInv, NEW r \in Rooms, NEW f \in Reservations, AllocateRoom(r, f)
  PROVE  OInv' /\ GO!Next
<1> DEFINE q == created + 1
<1>1. q \in Sessions /\ created \in Nat /\ created < q
  BY GameRoomsAssumption DEF RInv, TypeOK, AllocateRoom, Sessions
<1>2. /\ DOMAIN rooms' = DOMAIN rooms \cup {r} /\ r \notin DOMAIN rooms
      /\ \A n \in DOMAIN rooms : rooms'[n] = rooms[n]
      /\ rooms'[r].session = q
      /\ rooms'[r].pendingDisconnects = [color \in Colors |-> NoConn]
  BY DEF AllocateRoom, Exists
<1>3. winner[q] = "None" /\ results[q] = <<>> /\ banner[q] = "None"
  BY <1>1 DEF OInv, Unborn
<1>4. Unborn'
  BY <1>1 DEF OInv, Unborn, AllocateRoom, Sessions
<1>5. CaptureComputed'
  BY DEF OInv, CaptureComputed, AllocateRoom
<1>6. TimersTied'
  BY <1>2 DEF OInv, TimersTied, AllocateRoom
<1>7. BannerHasCountdown'
  BY <1>2, <1>3 DEF OInv, BannerHasCountdown, AllocateRoom
<1>8. GO!Open(q)
  <2>1. \A s \in Sessions : Owned(s)' <=> Owned(s) \/ s = q
    BY <1>2 DEF Owned
  <2>2. \A s \in Sessions : s \in Int /\ (s > created' <=> s > created /\ s # q)
    BY <1>1 DEF AllocateRoom, Sessions
  <2>3. \A s \in Sessions : Owned(s) => s <= created
    BY OwnedIsCreated
  <2>4. \A s \in Sessions : Stage'[s] = IF s = q THEN "open" ELSE Stage[s]
    BY <1>1, <2>1, <2>2, <2>3 DEF Stage
  <2>5. Stage' = [Stage EXCEPT ![q] = "open"]
    <3>1. Stage' = [s \in Sessions |-> Stage'[s]] /\ DOMAIN Stage = Sessions
      BY DEF Stage
    <3> QED BY <2>4, <3>1
  <2>6. Stage[q] = "new"
    BY <1>1 DEF Stage
  <2>7. winner' = winner /\ Outcome' = Outcome
    BY DEF AllocateRoom, Outcome
  <2> QED BY <2>5, <2>6, <2>7 DEF GO!Open
<1> QED BY <1>1, <1>4, <1>5, <1>6, <1>7, <1>8 DEF OInv, GO!Next

LEMMA LoginOutcome ==
  ASSUME RInv, OInv, NEW c \in Conns, NEW n \in Users, Login(c, n)
  PROVE  OInv' /\ UNCHANGED GO!vars
<1>1. SeatsKept /\ RoomsKept /\ Onwards
  BY DEF Login, registry, SeatsKept, RoomsKept, Onwards
<1> QED BY <1>1, UntouchedGames, UntouchedCountdowns, QuietOutcome DEF Login, OInv

\* joinRoom leaves the countdowns alone.
LEMMA JoinedPending ==
  ASSUME NEW room, NEW c, NEW name
  PROVE  Joined(room, c, name).pendingDisconnects = room.pendingDisconnects
BY DEF Joined

LEMMA JoinRoomOutcome ==
  ASSUME RInv, OInv, NEW c \in Conns, NEW r \in Rooms, JoinRoom(c, r)
  PROVE  OInv' /\ UNCHANGED GO!vars
<1> DEFINE room == Joined(rooms[r], c, Nobody)
<1>1. r \in DOMAIN rooms /\ rooms[r] \in Room
  BY DEF RInv, TypeOK, JoinRoom, Exists
<1>2. room.session = rooms[r].session /\ room.pendingDisconnects = rooms[r].pendingDisconnects
  BY <1>1, JoinedRoom, JoinedPending
<1>3. rooms' = [rooms EXCEPT ![r] = room]
  BY DEF JoinRoom
<1> HIDE DEF room
<1>4. SeatsKept /\ RoomsKept
  BY <1>1, <1>2, <1>3 DEF SeatsKept, RoomsKept
<1>5. Onwards
  BY DEF JoinRoom, Onwards
<1> QED BY <1>4, <1>5, UntouchedGames, UntouchedCountdowns, QuietOutcome DEF JoinRoom, OInv

\* EnterRoom cancels a countdown of its own room only, and takes the banner of
\* that room down with it.
LEMMA EnterRoomOutcome ==
  ASSUME RInv, OInv, NEW c \in Conns, NEW name \in Users, NEW r \in Rooms, EnterRoom(c, name, r)
  PROVE  OInv' /\ UNCHANGED GO!vars
<1> DEFINE room == Joined(rooms[r], c, name)
           color == room.roles[c]
           back == [room EXCEPT !.pendingDisconnects[color] = NoConn]
           h == room.pendingDisconnects[color]
           q == rooms[r].session
<1>1. r \in DOMAIN rooms /\ rooms[r] \in Room /\ q \in Sessions
  BY DEF RInv, TypeOK, EnterRoom, Exists, Room
<1>2. /\ room \in Room /\ room.session = q
      /\ room.pendingDisconnects = rooms[r].pendingDisconnects
  BY <1>1, JoinedRoom, JoinedPending
<1>3. Onwards
  BY DEF EnterRoom, Onwards
<1>4. CASE Reclaims(room, color, name)
  <2>1. /\ rooms' = [rooms EXCEPT ![r] = back]
        /\ timers' = CancelTimer(h)
        /\ banner' = ClearedBanner(room.session)
    BY <1>4 DEF EnterRoom
  <2>2. color \in Colors /\ h # NoConn
    BY <1>4 DEF Reclaims
  <2> HIDE DEF room, color
  <2>3. /\ back.session = q
        /\ \A k \in Colors : back.pendingDisconnects[k] =
             IF k = color THEN NoConn ELSE rooms[r].pendingDisconnects[k]
    BY <1>2, <2>2 DEF Room
  <2>4. h \in Conns /\ h \in closed /\ timers[h].room = r
    BY <1>1, <1>2, <2>2 DEF OInv, TimersTied, Room
  <2> HIDE DEF back, h
  <2>5. banner' = [banner EXCEPT ![q] = "None"]
    BY <1>2, <2>1 DEF ClearedBanner
  <2>6. /\ \A d \in Conns : /\ timers'[d].room = timers[d].room
                            /\ timers'[d].color = timers[d].color
                            /\ timers'[d].status # "off" => timers[d].status # "off"
        /\ \A d \in Conns \ {h} : timers'[d] = timers[d]
    <3>1. timers \in [Conns -> Timer] /\ timers[h] \in Timer
      BY <2>4 DEF RInv, TypeOK
    <3>2. CASE timers[h].status = "waiting"
      <4>1. timers' = [timers EXCEPT ![h] = [timers[h] EXCEPT !.status = "off"]]
        BY <2>1, <3>1, <3>2 DEF CancelTimer
      <4> QED BY <2>4, <3>1, <4>1 DEF Timer
    <3>3. CASE timers[h].status # "waiting"
      BY <2>1, <3>3 DEF CancelTimer
    <3> QED BY <3>2, <3>3
  <2>7. RoomsKept
    BY <1>1, <2>1, <2>3 DEF RoomsKept
  <2>8. \A n \in DOMAIN rooms \ {r} : rooms'[n] = rooms[n]
    BY <2>1
  <2>9. \A k \in Colors : rooms'[r].pendingDisconnects[k] =
           IF k = color THEN NoConn ELSE rooms[r].pendingDisconnects[k]
    BY <1>1, <2>1, <2>3
  <2>10. TimersTied'
    <3>1. \A d \in Conns : timers'[d].status # "off" => d \in closed'
      BY <2>6 DEF OInv, TimersTied, EnterRoom
    <3>2. ASSUME NEW n \in DOMAIN rooms', NEW k \in Colors,
                 rooms'[n].pendingDisconnects[k] # NoConn
          PROVE  /\ rooms'[n].pendingDisconnects[k] \in closed'
                 /\ timers'[rooms'[n].pendingDisconnects[k]].room = n
      <4>1. n \in DOMAIN rooms /\ rooms[n] \in Room
        BY <2>7 DEF RoomsKept, RInv, TypeOK
      <4>2. rooms'[n].pendingDisconnects[k] = rooms[n].pendingDisconnects[k]
        BY <2>8, <2>9, <3>2, <4>1
      <4>3. rooms[n].pendingDisconnects[k] \in Conns
        BY <3>2, <4>1, <4>2 DEF Room
      <4> QED BY <2>6, <3>2, <4>1, <4>2, <4>3 DEF OInv, TimersTied, EnterRoom
    <3> QED BY <3>1, <3>2 DEF TimersTied
  <2>11. BannerHasCountdown'
    <3> SUFFICES ASSUME NEW n \in DOMAIN rooms', banner'[rooms'[n].session] # "None",
                        results'[rooms'[n].session] = <<>>, winner'[rooms'[n].session] = "None"
                 PROVE  \E d \in Conns : /\ timers'[d].status # "off" /\ timers'[d].room = n
                                         /\ timers'[d].color = banner'[rooms'[n].session]
      BY DEF BannerHasCountdown
    <3> DEFINE s == rooms[n].session
    <3>1. n \in DOMAIN rooms /\ rooms'[n].session = s /\ s \in Sessions
      BY <2>7 DEF RoomsKept, RInv, TypeOK, Room
    <3>2. s # q /\ n # r /\ banner'[s] = banner[s]
      BY <1>1, <2>5, <3>1 DEF RInv, TypeOK
    <3>3. PICK d \in Conns : /\ timers[d].status # "off" /\ timers[d].room = n
                             /\ timers[d].color = banner[s]
      BY <3>1, <3>2 DEF OInv, BannerHasCountdown, EnterRoom
    <3>4. d # h
      BY <2>4, <3>2, <3>3
    <3> QED BY <2>6, <3>1, <3>2, <3>3, <3>4
  <2>12. Unborn'
    BY <1>1, <2>5 DEF OInv, Unborn, EnterRoom, RInv, TypeOK
  <2>13. CaptureComputed'
    BY DEF OInv, CaptureComputed, EnterRoom
  <2>14. UNCHANGED GO!vars
    BY <2>7, QuietOutcome DEF EnterRoom
  <2> QED BY <2>10, <2>11, <2>12, <2>13, <2>14 DEF OInv
<1>5. CASE ~Reclaims(room, color, name)
  <2>1. rooms' = [rooms EXCEPT ![r] = room] /\ UNCHANGED <<timers, banner>>
    BY <1>5 DEF EnterRoom
  <2> HIDE DEF room
  <2>2. SeatsKept /\ RoomsKept
    BY <1>1, <1>2, <2>1 DEF SeatsKept, RoomsKept
  <2> QED BY <1>3, <2>1, <2>2, UntouchedGames, UntouchedCountdowns, QuietOutcome
          DEF EnterRoom, OInv
<1> QED BY <1>4, <1>5

\* leave() takes away at most the room of the handle, with its tick idle, and
\* leaves the countdowns alone.
LEMMA LeftSeats ==
  ASSUME TypeOK, NEW c \in Conns
  PROVE  /\ \/ DOMAIN Leave(c) = DOMAIN rooms
            \/ /\ connectionRoom[c] \in DOMAIN rooms
               /\ tick[rooms[connectionRoom[c]].session] = "idle"
               /\ DOMAIN Leave(c) = DOMAIN rooms \ {connectionRoom[c]}
         /\ \A n \in DOMAIN Leave(c) :
              Leave(c)[n].pendingDisconnects = rooms[n].pendingDisconnects
<1> DEFINE r == connectionRoom[c]
           roles == [rooms[r].roles EXCEPT ![c] = "Out"]
<1>1. CASE ~Exists(r)
  BY <1>1 DEF Leave
<1>2. CASE Exists(r)
  <2>1. r \in DOMAIN rooms /\ rooms[r] \in Room
    BY <1>2 DEF Exists, TypeOK
  <2>2. \/ Leave(c) = [rooms EXCEPT ![r] = [rooms[r] EXCEPT !.roles = roles]]
        \/ Leave(c) = [rooms EXCEPT ![r] =
                         [rooms[r] EXCEPT !.roles = roles, !.pendingRemoval = TRUE]]
        \/ Leave(c) = Erase(r) /\ tick[rooms[r].session] = "idle"
    BY <1>2, <2>1 DEF Leave
  <2> HIDE DEF roles
  <2>3. /\ [rooms[r] EXCEPT !.roles = roles].pendingDisconnects = rooms[r].pendingDisconnects
        /\ [rooms[r] EXCEPT !.roles = roles, !.pendingRemoval = TRUE].pendingDisconnects
             = rooms[r].pendingDisconnects
    BY <2>1 DEF Room
  <2> QED BY <2>1, <2>2, <2>3 DEF Erase
<1> QED BY <1>1, <1>2

\* A game that is not waiting for its announcement may be closed.
LEMMA ClosedGame ==
  ASSUME RInv, OInv, NEW r \in DOMAIN rooms, DOMAIN rooms' = DOMAIN rooms \ {r},
         \A n \in DOMAIN rooms' : rooms'[n].session = rooms[n].session,
         UNCHANGED <<created, winner, results>>,
         winner[rooms[r].session] = "None" \/ results[rooms[r].session] # <<>>
  PROVE  GO!Next
<1> DEFINE q == rooms[r].session
<1>1. q \in Sessions /\ Stage[q] = "open" /\ Stage' = [Stage EXCEPT ![q] = "closed"]
  BY ErasedStage
<1> HIDE DEF q
<1>2. Outcome' = Outcome
  BY DEF Outcome
<1>3. ~(winner[q] # "None" /\ Outcome[q] = <<>>)
  BY <1>1 DEF q, Outcome
<1>4. GO!Close(q)
  BY <1>1, <1>2, <1>3 DEF GO!Close, GO!AwaitsAnnouncement
<1> QED BY <1>1, <1>4 DEF GO!Next

\* onClose starts a countdown of its own handle, which had none, and the room
\* it may take along has nothing left to announce.
LEMMA OnCloseOutcome ==
  ASSUME RInv, OInv, NEW c \in Conns, OnClose(c)
  PROVE  OInv' /\ (GO!Next \/ UNCHANGED GO!vars)
<1> DEFINE r == connectionRoom[c]
           role == RoleOf(c)
           after == Leave(c)
<1>1. /\ DOMAIN after \subseteq DOMAIN rooms
      /\ \A n \in DOMAIN after : after[n] \in Room /\ after[n].session = rooms[n].session
  BY LeftRooms DEF RInv
<1>2. /\ \/ DOMAIN after = DOMAIN rooms
         \/ /\ r \in DOMAIN rooms
            /\ tick[rooms[r].session] = "idle"
            /\ DOMAIN after = DOMAIN rooms \ {r}
      /\ \A n \in DOMAIN after : after[n].pendingDisconnects = rooms[n].pendingDisconnects
  BY LeftSeats DEF RInv
<1>3. /\ c \notin closed /\ closed' = closed \cup {c}
      /\ UNCHANGED <<attached, created, roomName, tick, winner, results, records, banner>>
  BY DEF OnClose
<1>4. /\ DOMAIN rooms' = DOMAIN after
      /\ \A n \in DOMAIN after : rooms'[n].session = rooms[n].session
      /\ \A n \in DOMAIN after, k \in Colors :
           \/ rooms'[n].pendingDisconnects[k] = rooms[n].pendingDisconnects[k]
           \/ rooms'[n].pendingDisconnects[k] = c /\ timers'[c].room = n
      /\ \A d \in Conns \ {c} : timers'[d] = timers[d]
  <2>1. CASE role \in Colors /\ r \in DOMAIN after
    <3> DEFINE held == [n \in Users |-> IF n = user[c] THEN role
                                        ELSE after[r].seatReservations[n]]
               room == [after[r] EXCEPT !.pendingDisconnects[role] = c,
                                        !.seatReservations = held]
               timer == [status |-> "waiting", room |-> r, color |-> role,
                         user |-> user[c], remaining |-> GraceSeconds]
    <3>1. rooms' = [after EXCEPT ![r] = room] /\ timers' = [timers EXCEPT ![c] = timer]
      <4> HIDE DEF after, role
      <4> QED BY <2>1 DEF OnClose, after, role
    <3>2. after[r] \in Room
      BY <1>1, <2>1
    <3> HIDE DEF after, role, held
    <3>3. /\ room.session = after[r].session
          /\ \A k \in Colors : room.pendingDisconnects[k] =
               IF k = role THEN c ELSE after[r].pendingDisconnects[k]
      BY <2>1, <3>2 DEF Room
    <3>4. timer.room = r
      OBVIOUS
    <3> HIDE DEF room, timer
    <3>5. timers'[c].room = r /\ \A d \in Conns \ {c} : timers'[d] = timers[d]
      BY <3>1, <3>4 DEF RInv, TypeOK
    <3> QED BY <1>1, <1>2, <2>1, <3>1, <3>3, <3>5
  <2>2. CASE ~(role \in Colors /\ r \in DOMAIN after)
    <3>1. rooms' = after /\ UNCHANGED timers
      BY <2>2 DEF OnClose
    <3> HIDE DEF after
    <3> QED BY <1>1, <1>2, <3>1
  <2> QED BY <2>1, <2>2
<1> HIDE DEF after
<1>5. Unborn' /\ CaptureComputed'
  BY <1>3, UntouchedGames
<1>6. TimersTied'
  <2>1. \A d \in Conns : timers'[d].status # "off" => d \in closed'
    BY <1>3, <1>4 DEF OInv, TimersTied
  <2>2. ASSUME NEW n \in DOMAIN rooms', NEW k \in Colors,
               rooms'[n].pendingDisconnects[k] # NoConn
        PROVE  /\ rooms'[n].pendingDisconnects[k] \in closed'
               /\ timers'[rooms'[n].pendingDisconnects[k]].room = n
    <3>1. n \in DOMAIN after /\ n \in DOMAIN rooms /\ rooms[n] \in Room
      BY <1>1, <1>4 DEF RInv, TypeOK
    <3>2. CASE rooms'[n].pendingDisconnects[k] = c /\ timers'[c].room = n
      BY <1>3, <3>2
    <3>3. CASE rooms'[n].pendingDisconnects[k] = rooms[n].pendingDisconnects[k]
      <4> DEFINE h == rooms[n].pendingDisconnects[k]
      <4>1. h \in Conns /\ h \in closed /\ timers[h].room = n
        BY <2>2, <3>1, <3>3 DEF Room, OInv, TimersTied
      <4> HIDE DEF h
      <4>2. timers'[h] = timers[h] /\ h \in closed'
        BY <1>3, <1>4, <4>1
      <4> QED BY <3>3, <4>1, <4>2 DEF h
    <3> QED BY <1>4, <3>1, <3>2, <3>3
  <2> QED BY <2>1, <2>2 DEF TimersTied
<1>7. BannerHasCountdown'
  <2> SUFFICES ASSUME NEW n \in DOMAIN rooms', banner'[rooms'[n].session] # "None",
                      results'[rooms'[n].session] = <<>>, winner'[rooms'[n].session] = "None"
               PROVE  \E d \in Conns : /\ timers'[d].status # "off" /\ timers'[d].room = n
                                       /\ timers'[d].color = banner'[rooms'[n].session]
    BY DEF BannerHasCountdown
  <2>1. n \in DOMAIN rooms /\ rooms'[n].session = rooms[n].session
    BY <1>1, <1>4
  <2>2. PICK d \in Conns : /\ timers[d].status # "off" /\ timers[d].room = n
                           /\ timers[d].color = banner[rooms[n].session]
    BY <1>3, <2>1 DEF OInv, BannerHasCountdown
  <2>3. d # c /\ timers'[d] = timers[d]
    BY <1>3, <1>4, <2>2 DEF OInv, TimersTied
  <2> QED BY <1>3, <2>1, <2>2, <2>3
<1>8. GO!Next \/ UNCHANGED GO!vars
  <2>1. CASE DOMAIN after = DOMAIN rooms
    BY <1>3, <1>4, <2>1, QuietOutcome DEF RoomsKept
  <2>2. CASE /\ r \in DOMAIN rooms /\ tick[rooms[r].session] = "idle"
             /\ DOMAIN after = DOMAIN rooms \ {r}
    <3>1. winner[rooms[r].session] = "None" \/ results[rooms[r].session] # <<>>
      BY <2>2 DEF OInv, CaptureComputed, RInv, TypeOK, Room
    <3> QED BY <1>3, <1>4, <2>2, <3>1, ClosedGame
  <2> QED BY <1>2, <2>1, <2>2
<1> QED BY <1>5, <1>6, <1>7, <1>8 DEF OInv

LEMMA TimerExpiresOutcome ==
  ASSUME RInv, OInv, NEW c \in Conns, TimerExpires(c)
  PROVE  OInv' /\ UNCHANGED GO!vars
<1>1. RoomsKept
  BY DEF TimerExpires, registry, RoomsKept
<1>2. \A d \in Conns : /\ timers'[d].room = timers[d].room
                       /\ timers'[d].color = timers[d].color
                       /\ timers'[d].status # "off" <=> timers[d].status # "off"
  <2>1. timers \in [Conns -> Timer] /\ timers[c] \in Timer
    BY DEF RInv, TypeOK
  <2>2. timers' = [timers EXCEPT ![c] = [timers[c] EXCEPT !.status = "expired"]]
    BY <2>1 DEF TimerExpires
  <2> QED BY <2>1, <2>2 DEF TimerExpires, Timer
<1>3. TimersTied'
  <2>1. \A r \in DOMAIN rooms, k \in Colors : rooms[r].pendingDisconnects[k] \in Conns \cup {NoConn}
    BY DEF RInv, TypeOK, Room
  <2> QED BY <1>2, <2>1 DEF OInv, TimersTied, TimerExpires, registry
<1>4. BannerHasCountdown'
  BY <1>2 DEF OInv, BannerHasCountdown, TimerExpires, registry
<1> QED BY <1>1, <1>3, <1>4, UntouchedGames, QuietOutcome DEF TimerExpires, OInv

\* publishGameEnded gives a session some room owns its result.
LEMMA PublishedResult ==
  ASSUME RInv, OInv, NEW s \in Sessions, Owned(s), NEW e \in Result, results[s] = <<>>,
         PublishGameEnded(s, roomName[s], e), UNCHANGED created
  PROVE  /\ results' = [results EXCEPT ![s] = <<e>>]
         /\ \A q \in Sessions : q > created => results'[q] = <<>>
<1>1. roomName[s] \in Rooms /\ s \in 1 .. created /\ created \in Nat
  BY DEF RInv, RoomsNamed, Owned, TypeOK
<1>2. results' = [results EXCEPT ![s] = <<e>>]
  BY <1>1, PublishedOnce DEF RInv
<1>3. \A q \in Sessions : q > created => results'[q] = <<>>
  BY <1>1, <1>2 DEF OInv, Unborn, RInv, TypeOK
<1> QED BY <1>2, <1>3

\* A countdown resigns a game that is open and undecided, or nothing; the
\* banner it puts up is its own.
LEMMA CountdownOutcome ==
  ASSUME RInv, OInv, NEW c \in Conns, Countdown(c)
  PROVE  OInv' /\ (GO!Next \/ UNCHANGED GO!vars)
<1> DEFINE t == timers[c]
           q == rooms[t.room].session
<1>1. /\ timers \in [Conns -> Timer] /\ t \in Timer /\ banner \in [Sessions -> Seats]
      /\ t.color \in Seats /\ t.user \in Users \cup {Nobody}
      /\ t.status = "expired" /\ c \in closed
  BY DEF RInv, TypeOK, Timer, Countdown, OInv, TimersTied
<1>2. UNCHANGED <<closed, attached, created, roomName, tick, winner>>
  BY DEF Countdown
<1>3. CASE ~Exists(t.room)
  <2>1. /\ UNCHANGED <<rooms, results, records, banner>>
        /\ timers' = [timers EXCEPT ![c] = [t EXCEPT !.status = "off"]]
    BY <1>1, <1>3 DEF Countdown
  <2>2. /\ \A d \in Conns \ {c} : timers'[d] = timers[d]
        /\ timers'[c].room = t.room
    BY <1>1, <2>1 DEF Timer
  <2>3. TimersTied'
    <3>1. \A r \in DOMAIN rooms, k \in Colors :
            rooms[r].pendingDisconnects[k] \in Conns \cup {NoConn}
      BY DEF RInv, TypeOK, Room
    <3> QED BY <1>1, <1>2, <2>1, <2>2, <3>1 DEF OInv, TimersTied
  <2>4. BannerHasCountdown'
    <3> SUFFICES ASSUME NEW n \in DOMAIN rooms', banner'[rooms'[n].session] # "None",
                        results'[rooms'[n].session] = <<>>, winner'[rooms'[n].session] = "None"
                 PROVE  \E d \in Conns : /\ timers'[d].status # "off" /\ timers'[d].room = n
                                         /\ timers'[d].color = banner'[rooms'[n].session]
      BY DEF BannerHasCountdown
    <3>1. PICK d \in Conns : /\ timers[d].status # "off" /\ timers[d].room = n
                             /\ timers[d].color = banner[rooms[n].session]
      BY <1>2, <2>1 DEF OInv, BannerHasCountdown
    <3>2. d # c
      BY <1>3, <2>1, <3>1 DEF Exists
    <3> QED BY <2>1, <2>2, <3>1, <3>2
  <2>5. RoomsKept
    BY <2>1 DEF RoomsKept
  <2> QED BY <1>2, <2>1, <2>3, <2>4, <2>5, UntouchedGames, QuietOutcome DEF OInv
<1>4. CASE Exists(t.room)
  <2>1. t.room \in DOMAIN rooms /\ rooms[t.room] \in Room /\ q \in Sessions /\ Owned(q)
    BY <1>4 DEF RInv, TypeOK, Exists, Room, Owned
  <2>2. q <= created /\ roomName[q] = t.room /\ Stage[q] = "open" /\ created \in Nat
    BY <2>1, OwnedIsCreated DEF RInv, RoomsNamed, TypeOK
  <2>3. banner' = [banner EXCEPT ![q] = t.color]
    BY <1>4 DEF Countdown
  <2>4. \A n \in DOMAIN rooms : n # t.room => rooms[n].session # q /\ rooms[n].session \in Sessions
    BY <2>1 DEF RInv, RoomsNamed, TypeOK, Room
  <2>5. CASE ~GraceOver(t)
    <3>1. UNCHANGED <<rooms, results, records>> /\ timers' = [timers EXCEPT ![c] = Rearmed(t)]
      BY <1>4, <2>5 DEF Countdown
    <3>2. /\ \A d \in Conns \ {c} : timers'[d] = timers[d]
          /\ timers'[c].room = t.room /\ timers'[c].color = t.color
          /\ timers'[c].status # "off"
      BY <1>1, <3>1 DEF Rearmed, Timer
    <3>3. TimersTied'
      <4>1. \A r \in DOMAIN rooms, k \in Colors :
              rooms[r].pendingDisconnects[k] \in Conns \cup {NoConn}
        BY DEF RInv, TypeOK, Room
      <4> QED BY <1>1, <1>2, <3>1, <3>2, <4>1 DEF OInv, TimersTied
    <3>4. BannerHasCountdown'
      <4> SUFFICES ASSUME NEW n \in DOMAIN rooms', banner'[rooms'[n].session] # "None",
                          results'[rooms'[n].session] = <<>>, winner'[rooms'[n].session] = "None"
                   PROVE  \E d \in Conns : /\ timers'[d].status # "off" /\ timers'[d].room = n
                                           /\ timers'[d].color = banner'[rooms'[n].session]
        BY DEF BannerHasCountdown
      <4> HIDE DEF q, t
      <4>1. CASE n = t.room
        BY <1>1, <2>1, <2>3, <3>1, <3>2, <4>1 DEF q
      <4>2. CASE n # t.room
        <5>1. banner'[rooms[n].session] = banner[rooms[n].session]
          BY <1>1, <2>3, <2>4, <3>1, <4>2
        <5>2. PICK d \in Conns : /\ timers[d].status # "off" /\ timers[d].room = n
                                 /\ timers[d].color = banner[rooms[n].session]
          BY <1>2, <3>1, <5>1 DEF OInv, BannerHasCountdown
        <5>3. d # c
          BY <4>2, <5>2 DEF t
        <5> QED BY <3>1, <3>2, <5>1, <5>2, <5>3
      <4> QED BY <4>1, <4>2
    <3>5. Unborn'
      BY <1>1, <1>2, <2>2, <2>3, <3>1 DEF OInv, Unborn, Sessions
    <3>6. CaptureComputed'
      BY <1>2, <3>1 DEF OInv, CaptureComputed
    <3>7. RoomsKept
      BY <3>1 DEF RoomsKept
    <3> QED BY <1>2, <3>1, <3>3, <3>4, <3>5, <3>6, <3>7, QuietOutcome DEF OInv
  <2>6. CASE GraceOver(t)
    <3> DEFINE freed == [n \in Users |-> IF n = t.user THEN "None"
                                         ELSE rooms[t.room].seatReservations[n]]
               room == [rooms[t.room] EXCEPT !.pendingDisconnects[t.color] = NoConn,
                                             !.seatReservations = freed]
    <3>1. /\ rooms' = [rooms EXCEPT ![t.room] = room]
          /\ timers' = [timers EXCEPT ![c] = [t EXCEPT !.status = "off"]]
          /\ MarkDisconnectResign(q, t.room, t.color, t.user)
      BY <1>1, <1>4, <2>6 DEF Countdown
    <3> HIDE DEF freed
    <3>2. /\ room.session = q
          /\ \A k \in Colors : room.pendingDisconnects[k] \in
                                 {NoConn, rooms[t.room].pendingDisconnects[k]}
      BY <2>1 DEF Room
    <3> HIDE DEF room
    <3>3. /\ RoomsKept
          /\ \A n \in DOMAIN rooms, k \in Colors :
               rooms'[n].pendingDisconnects[k] \in {NoConn, rooms[n].pendingDisconnects[k]}
      BY <2>1, <3>1, <3>2 DEF RoomsKept
    <3>4. /\ \A d \in Conns \ {c} : timers'[d] = timers[d]
          /\ timers'[c].room = t.room
      BY <1>1, <3>1 DEF Timer
    <3>5. TimersTied'
      <4>1. \A r \in DOMAIN rooms, k \in Colors :
              rooms[r].pendingDisconnects[k] \in Conns \cup {NoConn}
        BY DEF RInv, TypeOK, Room
      <4>2. \A d \in Conns : timers'[d].status # "off" => d \in closed'
        BY <1>1, <1>2, <3>4 DEF OInv, TimersTied
      <4>3. \A d \in Conns : timers'[d].room = timers[d].room
        BY <3>4
      <4> QED BY <1>2, <3>3, <4>1, <4>2, <4>3 DEF OInv, TimersTied, RoomsKept
    <3>6. /\ results'[q] # <<>> \/ winner[q] # "None"
          /\ \A s \in Sessions \ {q} : results'[s] = results[s]
          /\ \A s \in Sessions : s > created => results'[s] = <<>>
          /\ CaptureComputed'
          /\ GO!Next \/ UNCHANGED GO!vars
      <4>1. CASE results[q] # <<>> \/ winner[q] # "None"
        <5>1. UNCHANGED <<results, records>>
          BY <3>1, <4>1 DEF MarkDisconnectResign
        <5>2. CaptureComputed'
          BY <1>2, <5>1 DEF OInv, CaptureComputed
        <5>3. \A s \in Sessions : s > created => results'[s] = <<>>
          BY <5>1 DEF OInv, Unborn
        <5> QED BY <1>2, <3>3, <4>1, <5>1, <5>2, <5>3, QuietOutcome
      <4>2. CASE results[q] = <<>> /\ winner[q] = "None"
        <5> DEFINE e == Resignation(q, t.color, t.user)
        <5>1. PublishGameEnded(q, roomName[q], e)
          BY <2>2, <3>1, <4>2 DEF MarkDisconnectResign
        <5>2. e \in Result /\ e.reason = "Disconnect" /\ e.winner \in Colors
          BY <1>1, <2>1, TypeOfResults DEF RInv, Resignation, Result
        <5> HIDE DEF e, q
        <5>3. /\ results' = [results EXCEPT ![q] = <<e>>]
              /\ \A s \in Sessions : s > created => results'[s] = <<>>
          BY <1>2, <2>1, <4>2, <5>1, <5>2, PublishedResult
        <5>4. results'[q] = <<e>> /\ <<e>> # <<>> /\ \A s \in Sessions \ {q} : results'[s] = results[s]
          BY <2>1, <5>3 DEF RInv, TypeOK
        <5>5. CaptureComputed'
          BY <1>2, <4>2, <5>4 DEF OInv, CaptureComputed
        <5>6. Outcome' = [Outcome EXCEPT ![q] = <<e.winner, "Disconnect">>]
          BY <2>1, <5>2, <5>3, DecidedOutcome
        <5>7. Stage' = Stage /\ Outcome[q] = <<>>
          BY <1>2, <2>1, <3>3, <4>2, KeptStage DEF Outcome
        <5>8. GO!Resign(q, e.winner)
          BY <1>2, <2>2, <4>2, <5>6, <5>7 DEF GO!Resign
        <5>9. GO!Next
          BY <2>1, <5>2, <5>8 DEF GO!Next
        <5> QED BY <5>3, <5>4, <5>5, <5>9
      <4> QED BY <4>1, <4>2
    <3>7. BannerHasCountdown'
      <4> SUFFICES ASSUME NEW n \in DOMAIN rooms', banner'[rooms'[n].session] # "None",
                          results'[rooms'[n].session] = <<>>, winner'[rooms'[n].session] = "None"
                   PROVE  \E d \in Conns : /\ timers'[d].status # "off" /\ timers'[d].room = n
                                           /\ timers'[d].color = banner'[rooms'[n].session]
        BY DEF BannerHasCountdown
      <4> DEFINE s == rooms[n].session
      <4> HIDE DEF q, t
      <4>1. n \in DOMAIN rooms /\ rooms'[n].session = s
        BY <3>3 DEF RoomsKept
      <4>2. s # q /\ n # t.room
        BY <1>2, <3>6, <4>1 DEF q
      <4>3. banner'[s] = banner[s] /\ results[s] = <<>> /\ s \in Sessions
        BY <1>1, <2>3, <2>4, <3>6, <4>1, <4>2
      <4>4. PICK d \in Conns : /\ timers[d].status # "off" /\ timers[d].room = n
                               /\ timers[d].color = banner[s]
        BY <1>2, <4>1, <4>3 DEF OInv, BannerHasCountdown
      <4>5. d # c
        BY <4>2, <4>4 DEF t
      <4> QED BY <3>4, <4>1, <4>3, <4>4, <4>5
    <3>8. Unborn'
      BY <1>1, <1>2, <2>2, <2>3, <3>6 DEF OInv, Unborn, Sessions
    <3> QED BY <3>5, <3>6, <3>7, <3>8 DEF OInv
  <2> QED BY <2>5, <2>6
<1> QED BY <1>3, <1>4

LEMMA OnTickOutcome ==
  ASSUME RInv, OInv, OnTick
  PROVE  OInv' /\ UNCHANGED GO!vars
<1>1. SeatsKept /\ RoomsKept /\ Onwards
  BY DEF OnTick, registry, SeatsKept, RoomsKept, Onwards
<1>2. \A s \in Sessions : tick[s] = "computed" => tick'[s] = "computed"
  BY DEF OnTick
<1>3. Unborn' /\ CaptureComputed'
  BY <1>2, UntouchedGames DEF OnTick
<1>4. TimersTied' /\ BannerHasCountdown'
  BY <1>1, UntouchedCountdowns DEF OnTick
<1> QED BY <1>1, <1>3, <1>4, QuietOutcome DEF OnTick, OInv

\* computeStep fells the king of a game that is still owned, and leaves its
\* publishStep posted.
LEMMA ComputeStepOutcome ==
  ASSUME RInv, OInv, NEW s \in Sessions, ComputeStep(s)
  PROVE  OInv' /\ (GO!Next \/ UNCHANGED GO!vars)
<1>1. /\ Owned(s) /\ s <= created /\ Stage[s] = "open"
      /\ created \in Nat /\ winner \in [Sessions -> Seats] /\ tick \in [Sessions -> TickStates]
  BY OwnedIsCreated DEF ComputeStep, RInv, WorkerKeepsSession, TypeOK
<1>2. /\ UNCHANGED <<registry, closed, attached, created, roomName, results, records, banner, timers>>
      /\ tick' = [tick EXCEPT ![s] = "computed"]
  BY DEF ComputeStep
<1>3. RoomsKept /\ SeatsKept
  BY <1>2 DEF registry, RoomsKept, SeatsKept
<1>4. CASE UNCHANGED winner
  <2>1. Onwards
    BY <1>2, <1>4 DEF Onwards
  <2>2. \A q \in Sessions : tick[q] = "computed" => tick'[q] = "computed"
    BY <1>1, <1>2
  <2>3. Unborn' /\ CaptureComputed'
    BY <1>2, <1>4, <2>2, UntouchedGames
  <2>4. TimersTied' /\ BannerHasCountdown'
    BY <1>2, <1>3, <2>1, UntouchedCountdowns
  <2> QED BY <1>2, <1>3, <1>4, <2>3, <2>4, QuietOutcome DEF OInv
<1>5. ASSUME NEW color \in Colors, winner[s] = "None", winner' = [winner EXCEPT ![s] = color]
      PROVE  OInv' /\ GO!Next
  <2>1. winner'[s] # "None" /\ \A q \in Sessions \ {s} : winner'[q] = winner[q]
    BY <1>1, <1>5 DEF Colors
  <2>2. tick'[s] = "computed" /\ \A q \in Sessions \ {s} : tick'[q] = tick[q]
    BY <1>1, <1>2
  <2>3. Onwards
    BY <1>2, <2>1 DEF Onwards
  <2>4. TimersTied' /\ BannerHasCountdown'
    BY <1>2, <1>3, <2>3, UntouchedCountdowns
  <2>5. Unborn'
    BY <1>1, <1>2, <2>1 DEF OInv, Unborn, Sessions
  <2>6. CaptureComputed'
    BY <1>2, <2>1, <2>2 DEF OInv, CaptureComputed
  <2>7. Stage' = Stage /\ Outcome' = Outcome
    BY <1>2, <1>3, KeptStage DEF Outcome
  <2>8. GO!KingFalls(s, color)
    BY <1>1, <1>5, <2>7 DEF GO!KingFalls
  <2>9. GO!Next
    BY <2>8 DEF GO!Next
  <2> QED BY <2>4, <2>5, <2>6, <2>9 DEF OInv
<1> QED BY <1>4, <1>5 DEF ComputeStep

\* publishStep announces a capture before, or while, it reaps the room of its
\* own session; it never reaps another.
LEMMA PublishStepOutcome ==
  ASSUME RInv, OInv, NEW s \in Sessions, PublishStep(s)
  PROVE  OInv' /\ (GO!Next \/ UNCHANGED GO!vars)
<1> DEFINE r == roomName[s]
<1>1. /\ UNCHANGED <<closed, attached, created, roomName, winner, banner, timers>>
      /\ tick' = [tick EXCEPT ![s] = "idle"] /\ FinishGame(s)
  BY DEF PublishStep
<1>2. Owned(s) /\ s <= created /\ Stage[s] = "open"
  BY OwnedIsCreated DEF PublishStep, RInv, WorkerKeepsSession
<1>3. r \in DOMAIN rooms /\ rooms[r].session = s
  BY <1>2 DEF RInv, RoomsNamed, Owned
<1>4. \/ rooms' = rooms
      \/ DOMAIN rooms' = DOMAIN rooms \ {r} /\ \A n \in DOMAIN rooms' : rooms'[n] = rooms[n]
  BY DEF PublishStep, ReapIfSafe, Erase
<1>5. SeatsKept
  BY <1>4 DEF SeatsKept
<1>6. \A q \in Sessions \ {s} : tick'[q] = tick[q]
  BY <1>1 DEF RInv, TypeOK
<1>7. Stage' \in {Stage, [Stage EXCEPT ![s] = "closed"]}
  <2>1. CASE rooms' = rooms
    BY <1>1, <2>1, KeptStage DEF RoomsKept
  <2>2. CASE DOMAIN rooms' = DOMAIN rooms \ {r} /\ \A n \in DOMAIN rooms' : rooms'[n] = rooms[n]
    BY <1>1, <1>3, <2>2, ErasedStage
  <2> QED BY <1>4, <2>1, <2>2
<1> HIDE DEF r
<1>8. CASE results[s] = <<>> /\ winner[s] # "None"
  <2> DEFINE e == KingCaptureResult(s)
  <2>1. PublishGameEnded(s, roomName[s], e)
    BY <1>1, <1>8 DEF FinishGame
  <2>2. e \in Result /\ e.reason = "KingCapture" /\ e.winner = winner[s]
    BY <1>8, TypeOfResults DEF RInv, KingCaptureResult
  <2> HIDE DEF e
  <2>3. /\ results' = [results EXCEPT ![s] = <<e>>]
        /\ \A q \in Sessions : q > created => results'[q] = <<>>
    BY <1>1, <1>2, <1>8, <2>1, <2>2, PublishedResult
  <2>4. /\ results'[s] = <<e>> /\ <<e>> # <<>>
        /\ \A q \in Sessions \ {s} : results'[q] = results[q]
    BY <2>3 DEF RInv, TypeOK
  <2>5. Onwards
    BY <1>1, <1>8, <2>4 DEF Onwards
  <2>6. TimersTied' /\ BannerHasCountdown'
    BY <1>1, <1>5, <2>5, UntouchedCountdowns
  <2>7. Unborn'
    BY <1>1, <2>3 DEF OInv, Unborn
  <2>8. CaptureComputed'
    BY <1>1, <1>6, <2>4 DEF OInv, CaptureComputed
  <2>9. Outcome' = [Outcome EXCEPT ![s] = <<winner[s], "KingCapture">>] /\ Outcome[s] = <<>>
    BY <1>8, <2>2, <2>3, DecidedOutcome DEF Outcome
  <2>10. GO!Announce(s)
    BY <1>1, <1>2, <1>7, <1>8, <2>9 DEF GO!Announce, GO!AwaitsAnnouncement
  <2>11. GO!Next
    BY <2>10 DEF GO!Next
  <2> QED BY <2>3, <2>6, <2>7, <2>8, <2>11 DEF OInv
<1>9. CASE ~(results[s] = <<>> /\ winner[s] # "None")
  <2>1. UNCHANGED <<results, records>>
    BY <1>1, <1>9 DEF FinishGame
  <2>2. Onwards
    BY <1>1, <2>1 DEF Onwards
  <2>3. TimersTied' /\ BannerHasCountdown'
    BY <1>1, <1>5, <2>2, UntouchedCountdowns
  <2>4. Unborn'
    BY <1>1, <2>1 DEF OInv, Unborn
  <2>5. CaptureComputed'
    BY <1>1, <1>6, <1>9, <2>1 DEF OInv, CaptureComputed
  <2>6. GO!Next \/ UNCHANGED GO!vars
    <3>1. CASE rooms' = rooms
      BY <1>1, <2>1, <3>1, QuietOutcome DEF RoomsKept
    <3>2. CASE DOMAIN rooms' = DOMAIN rooms \ {r} /\ \A n \in DOMAIN rooms' : rooms'[n] = rooms[n]
      BY <1>1, <1>3, <1>9, <2>1, <3>2, ClosedGame
    <3> QED BY <1>4, <3>1, <3>2
  <2> QED BY <2>3, <2>4, <2>5, <2>6 DEF OInv
<1> QED BY <1>8, <1>9

LEMMA NextOInv == RInv /\ OInv /\ [Next]_vars => OInv' /\ [GO!Next]_(GO!vars)
<1> SUFFICES ASSUME RInv, OInv, [Next]_vars PROVE OInv' /\ (GO!Next \/ UNCHANGED GO!vars)
  OBVIOUS
<1>1. CASE ClientStep
  BY <1>1, AllocateOutcome, LoginOutcome, JoinRoomOutcome, EnterRoomOutcome, OnCloseOutcome
     DEF ClientStep
<1>2. CASE ServerStep
  BY <1>2, OnTickOutcome, ComputeStepOutcome, PublishStepOutcome, TimerExpiresOutcome,
     CountdownOutcome DEF ServerStep
<1>3. CASE UNCHANGED vars
  <2>1. SeatsKept /\ RoomsKept /\ Onwards
    BY <1>3 DEF vars, registry, SeatsKept, RoomsKept, Onwards
  <2>2. Unborn' /\ CaptureComputed'
    BY <1>3, UntouchedGames DEF vars
  <2>3. TimersTied' /\ BannerHasCountdown'
    BY <1>3, <2>1, UntouchedCountdowns DEF vars
  <2>4. UNCHANGED GO!vars
    BY <1>3, <2>1, QuietOutcome DEF vars
  <2> QED BY <2>2, <2>3, <2>4 DEF OInv
<1> QED BY <1>1, <1>2, <1>3 DEF Next

-----------------------------------------------------------------------------
(* Theorems.                                                               *)

\* The second layer of the invariant of the handlers, timers and tick loop:
\* how captures, countdowns and banners hang together.
THEOREM OutcomeInvariance == Spec => []OInv
<1>1. Init => OInv
  BY InitOInv
<1>2. RInv /\ OInv /\ [Next]_vars => OInv'
  BY NextOInv
<1> QED BY <1>1, <1>2, RoomsInvariance, PTL DEF Spec

\* Whichever seat is claimed back (cancelDisconnectCountdown) or runs out, the
\* banner of a game still being played has a running countdown of that room and
\* that color, for any number of handles and reused names.
THEOREM BannersCount == Spec => []BannerHasCountdown
<1>1. OInv => BannerHasCountdown
  BY DEF OInv
<1> QED BY <1>1, OutcomeInvariance, PTL

\* The rooms of a shard implement GameOutcome: one decision per game, while it
\* is open, by what came first; no game closed with its decision unannounced.
THEOREM RoomsImplementOutcome == Spec => GamesDecided
<1>1. Init => GO!Init
  BY InitOInv
<1>2. RInv /\ OInv /\ [Next]_vars => [GO!Next]_(GO!vars)
  BY NextOInv
<1> QED BY <1>1, <1>2, RoomsInvariance, OutcomeInvariance, PTL DEF Spec, GamesDecided, GO!Spec

=============================================================================

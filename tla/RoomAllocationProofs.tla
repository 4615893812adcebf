------------------------ MODULE RoomAllocationProofs ------------------------
(***************************************************************************)
(* What holds of room allocation for any number of shards, clients,        *)
(* allocators and names, typed names of the form of minted ones included:  *)
(* a room asked for once lives on the shard the directory names, an entry  *)
(* of the directory names an open room, and so does what clients are told. *)
(***************************************************************************)
EXTENDS RoomAllocation, TLAPS

Busy(a, k) == job[a][k].pc # "idle"

\* There is, or has been, a room where a client is sent.
Open(p) == p.room \in rooms[p.shard] \/ p.room \in vacated \/ p.shard \in restarted

\* A busy handler has a shard and a room; a user's room has a typed name.
JobsPlaced ==
  \A a \in Allocators, k \in Threads : Busy(a, k) =>
    /\ job[a][k].place \in Places
    /\ k = "request" => job[a][k].place.room \in TypedNames

\* A client that has asked for nothing is in no request.
Fresh ==
  \A c \in Clients : status[c] = "new" =>
    /\ \A q \in posted : c \notin q.who
    /\ \A W \in matched : c \notin W
    /\ \A a \in Allocators, k \in Threads : c \notin job[a][k].who
    /\ \A m \in allocs : c \notin m.who

\* A request is in one queue or in one handler's hands.
RequestsApart ==
  /\ \A p, q \in posted : p.who = q.who => p = q
  /\ \A q \in posted, W \in matched : q.who # W
  /\ \A a \in Allocators, k \in Threads : Busy(a, k) =>
       /\ \A q \in posted : q.who # job[a][k].who
       /\ \A W \in matched : W # job[a][k].who
       /\ \A b \in Allocators, j \in Threads :
            Busy(b, j) /\ job[b][j].who = job[a][k].who => b = a /\ j = k

\* It is sent to one shard, by a handler that then waits.
AllocsApart ==
  /\ \A m, l \in allocs : m.who = l.who => m = l
  /\ \A m \in allocs :
       /\ \A q \in posted : q.who # m.who
       /\ \A W \in matched : W # m.who
       /\ \A a \in Allocators, k \in Threads : Busy(a, k) /\ job[a][k].who = m.who =>
            job[a][k].pc # "lock" /\ job[a][k].place = m.place

\* An answer has its receiver and comes when the request has arrived.
RepliesAwaited ==
  /\ \A r \in replies : Awaited(r.who)
  /\ \A r, u \in replies : r.who = u.who => r = u
  /\ \A r \in replies, m \in allocs : r.who # m.who

\* No room, no request on its way to a shard and no handler has the name.
Unused(n) ==
  /\ \A s \in Shards : n \notin rooms[s]
  /\ \A m \in allocs : m.place.room # n
  /\ \A a \in Allocators, k \in Threads : Busy(a, k) => job[a][k].place.room # n

\* A name nobody asked for is nowhere; one that was asked for once is in one
\* queue, in one handler's hands or on its way to one shard, and has no room
\* before it arrives.
AskedOnce ==
  /\ \A n \in RoomNames : n \notin asked =>
       Unused(n) /\ \A q \in posted : q.room # n
  /\ \A q \in posted : q.room \notin askedTwice =>
       Unused(q.room) /\ \A p \in posted : p.room = q.room => p = q
  /\ \A m \in allocs : m.place.room \notin askedTwice =>
       /\ \A s \in Shards : m.place.room \notin rooms[s]
       /\ \A l \in allocs : l.place.room = m.place.room => l = m
  /\ \A a \in Allocators, k \in Threads : Busy(a, k) /\ job[a][k].place.room \notin askedTwice =>
       /\ job[a][k].pc = "lock" =>
            /\ \A s \in Shards : job[a][k].place.room \notin rooms[s]
            /\ \A m \in allocs : m.place.room # job[a][k].place.room
       /\ \A b \in Allocators, j \in Threads :
            Busy(b, j) /\ job[b][j].place.room = job[a][k].place.room => b = a /\ j = k

\* Marked rooms are still there.
DoomedRoomsExist == \A d \in doomed : d[2] \in rooms[d[1]]

\* A shard's consent names an open room.
AnswersOpen ==
  \A a \in Allocators, k \in Threads :
    /\ job[a][k].pc = "publish" => Open(job[a][k].place)
    /\ job[a][k].pc = "wait" =>
         \A r \in replies : r.success /\ r.who = job[a][k].who => Open(job[a][k].place)

\* The inductive invariant.
AInv ==
  /\ TypeOK /\ JobsPlaced /\ Fresh /\ RequestsApart /\ AllocsApart /\ RepliesAwaited
  /\ AskedOnce /\ DoomedRoomsExist /\ LoneRoomListed /\ ListedRoomIsOpen /\ AnswersOpen
  /\ ToldRoomIsOpen

USE DEF askvars

-----------------------------------------------------------------------------
(* Jobs change one at a time.                                              *)

\* A handler's record is replaced.
LEMMA JobReplaced ==
  ASSUME TypeOK, NEW a \in Allocators, NEW k \in Threads, NEW j \in Jobs,
         job' = [job EXCEPT ![a][k] = j]
  PROVE  /\ job' \in [Allocators -> [Threads -> Jobs]]
         /\ job'[a][k] = j
         /\ \A b \in Allocators, i \in Threads : b # a \/ i # k => job'[b][i] = job[b][i]
BY DEF TypeOK

\* A handler goes on with the same request.
LEMMA JobContinued ==
  ASSUME TypeOK, NEW a \in Allocators, NEW k \in Threads, NEW pc \in {"wait", "publish"},
         Continue(a, k, pc)
  PROVE  /\ job' \in [Allocators -> [Threads -> Jobs]]
         /\ job'[a][k].pc = pc /\ job'[a][k].who = job[a][k].who
         /\ job'[a][k].place = job[a][k].place
         /\ \A b \in Allocators, i \in Threads : b # a \/ i # k => job'[b][i] = job[b][i]
<1>1. job[a][k] \in Jobs
  BY DEF TypeOK
<1>2. [job[a][k] EXCEPT !.pc = pc] \in Jobs
  BY <1>1 DEF Jobs
<1>3. job' = [job EXCEPT ![a][k] = [job[a][k] EXCEPT !.pc = pc]]
  BY DEF Continue, TypeOK
<1>4. /\ [job[a][k] EXCEPT !.pc = pc].pc = pc
      /\ [job[a][k] EXCEPT !.pc = pc].who = job[a][k].who
      /\ [job[a][k] EXCEPT !.pc = pc].place = job[a][k].place
  BY <1>1 DEF Jobs
<1> QED BY <1>2, <1>3, <1>4, JobReplaced

\* A handler at rest has no request.
LEMMA IdleJob == Idle \in Jobs /\ Idle.pc = "idle" /\ Idle.who = {} /\ Idle.place.room = NoRoom
BY DEF Idle, Jobs, Nowhere

\* The parts of the invariant that are about handlers and their requests.
HandlerInv ==
  /\ JobsPlaced /\ Fresh /\ RequestsApart /\ AllocsApart /\ RepliesAwaited /\ AskedOnce
  /\ AnswersOpen

\* A handler that is done, with its answer taken or given up.
LEMMA HandlerReturns ==
  ASSUME AInv, NEW a \in Allocators, NEW k \in Threads, Return(a, k),
         \A c \in Clients : status'[c] = "new" => status[c] = "new",
         replies' \subseteq replies, \A r \in replies' : r.who # job[a][k].who,
         UNCHANGED <<rooms, posted, matched, minted, allocs, vacated, restarted, asked, askedTwice>>
  PROVE  HandlerInv' /\ job' \in [Allocators -> [Threads -> Jobs]]
<1>1. /\ job' \in [Allocators -> [Threads -> Jobs]]
      /\ job'[a][k] = Idle
      /\ \A b \in Allocators, i \in Threads : b # a \/ i # k => job'[b][i] = job[b][i]
  <2>1. TypeOK /\ Idle \in Jobs /\ job' = [job EXCEPT ![a][k] = Idle]
    BY IdleJob DEF AInv, Return
  <2> QED BY <2>1, JobReplaced
<1>2. job'[a][k].pc = "idle" /\ job'[a][k].who = {} /\ job'[a][k].place.room = NoRoom
  BY <1>1, IdleJob
<1>3. JobsPlaced'
  BY <1>1, <1>2 DEF AInv, JobsPlaced, Busy
<1>4. Fresh'
  BY <1>1, <1>2 DEF AInv, Fresh
<1>5. RequestsApart'
  BY <1>1, <1>2 DEF AInv, RequestsApart, Busy
<1>6. AllocsApart'
  BY <1>1, <1>2 DEF AInv, AllocsApart, Busy
<1>7. RepliesAwaited'
  <2>1. ASSUME NEW r \in replies' PROVE Awaited(r.who)'
    <3>1. PICK b \in Allocators, i \in Threads : job[b][i].pc = "wait" /\ job[b][i].who = r.who
      BY DEF AInv, RepliesAwaited, Awaited
    <3>2. b # a \/ i # k
      BY <3>1
    <3> QED BY <1>1, <3>1, <3>2 DEF Awaited
  <2> QED BY <2>1 DEF AInv, RepliesAwaited
<1>8. AskedOnce'
  BY <1>1, <1>2 DEF AInv, AskedOnce, Unused, Busy
<1>9. AnswersOpen'
  BY <1>1, <1>2 DEF AInv, AnswersOpen, Open
<1> QED BY <1>1, <1>3, <1>4, <1>5, <1>6, <1>7, <1>8, <1>9 DEF HandlerInv

\* A handler that takes up a request.
LEMMA HandlerBegins ==
  ASSUME AInv, NEW a \in Allocators, NEW k \in Threads, NEW W \in SUBSET Clients,
         NEW p \in Places, NEW j \in Jobs, j.pc = "lock", j.who = W, j.place = p,
         ~Busy(a, k), job' = [job EXCEPT ![a][k] = j],
         \A c \in Clients : status'[c] = "new" => status[c] = "new" /\ c \notin W,
         posted' \subseteq posted, \A q \in posted' : q.who # W,
         matched' \subseteq matched, W \notin matched',
         \A m \in allocs : m.who # W,
         \A b \in Allocators, i \in Threads : Busy(b, i) => job[b][i].who # W,
         k = "request" => p.room \in TypedNames,
         asked \subseteq asked', askedTwice \subseteq askedTwice', p.room \in asked',
         p.room \notin askedTwice' => Unused(p.room) /\ \A q \in posted' : q.room # p.room,
         UNCHANGED <<rooms, allocs, replies, vacated, restarted>>
  PROVE  HandlerInv' /\ job' \in [Allocators -> [Threads -> Jobs]]
<1>1. /\ job' \in [Allocators -> [Threads -> Jobs]]
      /\ job'[a][k] = j
      /\ \A b \in Allocators, i \in Threads : b # a \/ i # k => job'[b][i] = job[b][i]
  <2>1. job \in [Allocators -> [Threads -> Jobs]]
    BY DEF AInv, TypeOK
  <2> QED BY <2>1
<1>2. job'[a][k].pc = "lock" /\ job'[a][k].who = W /\ job'[a][k].place = p
  BY <1>1
<1>3. JobsPlaced'
  BY <1>1, <1>2, RoomAllocationAssumption DEF AInv, JobsPlaced, Busy
<1>4. Fresh'
  BY <1>1, <1>2 DEF AInv, Fresh
<1>5. RequestsApart'
  BY <1>1, <1>2 DEF AInv, RequestsApart, Busy
<1>6. AllocsApart'
  BY <1>1, <1>2 DEF AInv, AllocsApart, Busy
<1>7. RepliesAwaited'
  <2>1. ASSUME NEW r \in replies' PROVE Awaited(r.who)'
    <3>1. PICK b \in Allocators, i \in Threads : job[b][i].pc = "wait" /\ job[b][i].who = r.who
      BY DEF AInv, RepliesAwaited, Awaited
    <3>2. b # a \/ i # k
      BY <3>1 DEF Busy
    <3> QED BY <1>1, <3>1, <3>2 DEF Awaited
  <2> QED BY <2>1 DEF AInv, RepliesAwaited
<1>8. AskedOnce'
  <2>1. \A n \in RoomNames : n \notin asked' =>
          Unused(n)' /\ \A q \in posted' : q.room # n
    BY <1>1, <1>2 DEF AInv, AskedOnce, Unused, Busy
  <2>2. \A q \in posted' : q.room \notin askedTwice' =>
          Unused(q.room)' /\ \A o \in posted' : o.room = q.room => o = q
    BY <1>1, <1>2 DEF AInv, AskedOnce, Unused, Busy
  <2>3. \A m \in allocs' : m.place.room \notin askedTwice' =>
          /\ \A s \in Shards : m.place.room \notin rooms'[s]
          /\ \A l \in allocs' : l.place.room = m.place.room => l = m
    BY DEF AInv, AskedOnce
  <2>4. ASSUME NEW b \in Allocators, NEW i \in Threads, Busy(b, i)',
               job'[b][i].place.room \notin askedTwice'
        PROVE  /\ job'[b][i].pc = "lock" =>
                    /\ \A s \in Shards : job'[b][i].place.room \notin rooms'[s]
                    /\ \A m \in allocs' : m.place.room # job'[b][i].place.room
               /\ \A c \in Allocators, h \in Threads :
                    Busy(c, h)' /\ job'[c][h].place.room = job'[b][i].place.room => c = b /\ h = i
    BY <1>1, <1>2, <2>4 DEF AInv, AskedOnce, Unused, Busy
  <2> QED BY <2>1, <2>2, <2>3, <2>4 DEF AskedOnce
<1>9. AnswersOpen'
  BY <1>1, <1>2 DEF AInv, AnswersOpen, Open
<1> QED BY <1>1, <1>3, <1>4, <1>5, <1>6, <1>7, <1>8, <1>9 DEF HandlerInv


\* A room goes: no other shard has a match of that name, and nobody minds an
\* entry that is missing.
LEMMA EraseKeeps ==
  ASSUME AInv, NEW s \in Shards, NEW n \in RoomNames, n \in rooms[s], Erase(s, n),
         seat' \in [Clients -> Places \cup {Nowhere}],
         status' \in [Clients -> {"new", "waiting", "told", "refused", "left"}],
         \A d \in Clients : status'[d] = "new" => status[d] = "new",
         UNCHANGED <<restarted, told, busvars, asked, askedTwice>>
  PROVE  AInv'
<1>1. /\ rooms' \in [Shards -> SUBSET RoomNames]
      /\ \A t \in Shards : \A l : l \in rooms'[t] <=> l \in rooms[t] /\ (t # s \/ l # n)
  BY DEF Erase, AInv, TypeOK
<1>2. /\ directory' \in [RoomNames -> Shards \cup {NoShard}]
      /\ directory'[n] = NoShard
      /\ \A l \in RoomNames : l # n => directory'[l] = directory[l]
  BY DEF Erase, AInv, TypeOK
<1>3. doomed' = doomed \ {<<s, n>>} /\ guests' \subseteq guests /\ vacated' = vacated \cup {n}
  BY DEF Erase
<1>4. TypeOK'
  BY <1>1, <1>2, <1>3 DEF AInv, TypeOK, busvars
<1>5. JobsPlaced' /\ Fresh' /\ RequestsApart' /\ AllocsApart' /\ RepliesAwaited'
  BY DEF busvars, AInv, JobsPlaced, Fresh, RequestsApart, AllocsApart, RepliesAwaited, Awaited,
     Busy
<1>6. AskedOnce'
  BY <1>1 DEF busvars, AInv, AskedOnce, Unused, Busy
<1>7. DoomedRoomsExist'
  <2>1. ASSUME NEW d \in doomed' PROVE d[2] \in rooms'[d[1]]
    <3>1. d \in Shards \X RoomNames /\ d \in doomed /\ d # <<s, n>>
      BY <1>3 DEF AInv, TypeOK
    <3>2. d[1] \in Shards /\ (d[1] # s \/ d[2] # n)
      BY <3>1
    <3>3. d[2] \in rooms[d[1]]
      BY <3>1 DEF AInv, DoomedRoomsExist
    <3> QED BY <1>1, <3>2, <3>3
  <2> QED BY <2>1 DEF DoomedRoomsExist
<1>8. LoneRoomListed'
  <2>1. n \notin askedTwice => \A t \in Shards : n \in rooms[t] => t = s
    BY DEF AInv, LoneRoomListed
  <2> QED BY <1>1, <1>2, <2>1 DEF AInv, LoneRoomListed
<1>9. \A t \in Shards, l \in RoomNames :
        l \in rooms[t] \/ l \in vacated \/ t \in restarted =>
        l \in rooms'[t] \/ l \in vacated' \/ t \in restarted'
  BY <1>1, <1>3
<1>10. ListedRoomIsOpen'
  <2>1. ASSUME NEW l \in RoomNames, directory'[l] # NoShard
        PROVE  l # n /\ directory'[l] = directory[l] /\ directory[l] \in Shards
    BY <1>2, <2>1 DEF AInv, TypeOK
  <2> QED BY <1>1, <2>1 DEF AInv, ListedRoomIsOpen
<1>11. \A a \in Allocators, k \in Threads : Busy(a, k) /\ Open(job[a][k].place) =>
         Open(job[a][k].place)'
  BY <1>9 DEF Open, AInv, JobsPlaced, Places, busvars
<1>12. AnswersOpen'
  BY <1>11 DEF AInv, AnswersOpen, Busy, busvars
<1>13. ToldRoomIsOpen'
  <2>1. \A c \in Clients : told[c] # Nowhere =>
          told[c].shard \in Shards /\ told[c].room \in RoomNames
    BY DEF AInv, TypeOK, Places
  <2> QED BY <1>9, <2>1 DEF AInv, ToldRoomIsOpen
<1> QED BY <1>4, <1>5, <1>6, <1>7, <1>8, <1>10, <1>12, <1>13 DEF AInv
-----------------------------------------------------------------------------
\* A client that asks is in no request yet.
LEMMA PostRoomsKeeps ==
  ASSUME AInv, NEW c \in Clients, NEW n \in TypedNames, PostRooms(c, n)
  PROVE  AInv'
<1> USE RoomAllocationAssumption DEF AInv, TypeOK, Jobs, Places, shardvars, busvars
<1>1. TypeOK'
  BY DEF PostRooms, AskFor, RoomNames
<1>2. Fresh'
  BY DEF PostRooms, Fresh
<1>3. RequestsApart'
  <2>1. \A q \in posted : q.who # {c}
    BY DEF PostRooms, Fresh
  <2>2. \A W \in matched : W # {c}
    BY DEF PostRooms, Fresh
  <2>3. \A a \in Allocators, k \in Threads : job[a][k].who # {c}
    BY DEF PostRooms, Fresh
  <2>4. \A q \in posted' : q \in posted \/ q = [who |-> {c}, room |-> n]
    BY DEF PostRooms
  <2>5. [who |-> {c}, room |-> n].who = {c} /\ matched' = matched /\ job' = job
    BY DEF PostRooms
  <2>6. /\ \A p, q \in posted : p.who = q.who => p = q
        /\ \A q \in posted, W \in matched : q.who # W
    BY DEF RequestsApart
  <2>7. \A p, q \in posted' : p.who = q.who => p = q
    BY ONLY <2>1, <2>4, <2>5, <2>6
  <2>8. \A q \in posted', W \in matched' : q.who # W
    BY ONLY <2>2, <2>4, <2>5, <2>6
  <2>9. \A a \in Allocators, k \in Threads, q \in posted' : Busy(a, k) => q.who # job[a][k].who
    BY <2>3, <2>4, <2>5 DEF RequestsApart
  <2> QED BY <2>5, <2>7, <2>8, <2>9 DEF RequestsApart, Busy
<1>4. AllocsApart'
  <2>1. \A m \in allocs : m.who # {c}
    BY DEF PostRooms, Fresh
  <2>2. \A q \in posted' : q \in posted \/ q.who = {c}
    BY DEF PostRooms
  <2>3. matched' = matched /\ job' = job /\ allocs' = allocs
    BY DEF PostRooms
  <2> QED BY <2>1, <2>2, <2>3 DEF AllocsApart, Busy
<1>5. AskedOnce'
  <2>1. /\ \A q \in posted' : q \in posted \/ q.room = n
        /\ \A q \in posted' : q \in posted \/ q = [who |-> {c}, room |-> n]
        /\ asked' = asked \cup {n} /\ askedTwice \subseteq askedTwice'
        /\ n \in asked => n \in askedTwice'
        /\ UNCHANGED <<rooms, allocs, job>>
    BY DEF PostRooms, AskFor
  <2>2. n \in RoomNames
    BY DEF RoomNames
  <2>3. \A l : Unused(l)' <=> Unused(l)
    BY <2>1 DEF Unused, Busy
  <2>4. \A l \in RoomNames : l \notin asked' =>
          Unused(l)' /\ \A q \in posted' : q.room # l
    BY <2>1, <2>3 DEF AskedOnce
  <2>5. n \notin askedTwice' => Unused(n) /\ \A q \in posted : q.room # n
    BY <2>1, <2>2 DEF AskedOnce
  <2>6. \A q \in posted' : q.room \notin askedTwice' =>
          Unused(q.room)' /\ \A p \in posted' : p.room = q.room => p = q
    BY ONLY AskedOnce, <2>1, <2>3, <2>5 DEF AskedOnce
  <2> QED BY <2>1, <2>4, <2>6 DEF AskedOnce, Busy
<1>6. LoneRoomListed'
  BY DEF PostRooms, AskFor, LoneRoomListed
<1>7. /\ JobsPlaced' /\ RepliesAwaited' /\ DoomedRoomsExist' /\ ListedRoomIsOpen'
      /\ AnswersOpen' /\ ToldRoomIsOpen'
  BY DEF PostRooms, JobsPlaced, RepliesAwaited, DoomedRoomsExist, ListedRoomIsOpen, AnswersOpen,
     ToldRoomIsOpen, Busy, Awaited, Open
<1> QED BY <1>1, <1>2, <1>3, <1>4, <1>5, <1>6, <1>7 DEF AInv

\* The directory names open rooms only.
LEMMA PostJoinKeeps ==
  ASSUME AInv, NEW c \in Clients, NEW n \in RoomNames, PostJoin(c, n)
  PROVE  AInv'
<1> USE RoomAllocationAssumption DEF AInv, TypeOK, Jobs, Places, shardvars, busvars
<1>1. TypeOK'
  <2>1. CASE directory[n] = NoShard
    BY <2>1 DEF PostJoin
  <2>2. CASE directory[n] # NoShard
    <3>1. [shard |-> directory[n], room |-> n] \in Places
      BY <2>2
    <3>2. told' \in [Clients -> Places \cup {Nowhere}]
      BY <2>2, <3>1 DEF PostJoin
    <3>3. status' \in [Clients -> {"new", "waiting", "told", "refused", "left"}]
      BY <2>2 DEF PostJoin
    <3> QED BY <3>2, <3>3 DEF PostJoin
  <2> QED BY <2>1, <2>2
<1>2. Fresh'
  BY DEF PostJoin, Fresh
<1>3. ToldRoomIsOpen'
  <2>1. CASE directory[n] = NoShard
    BY <2>1 DEF PostJoin, ToldRoomIsOpen
  <2>2. CASE directory[n] # NoShard
    <3>1. Open([shard |-> directory[n], room |-> n])
      BY <2>2 DEF ListedRoomIsOpen, Open
    <3>2. \A d \in Clients : told'[d] = told[d] \/ told'[d] = [shard |-> directory[n], room |-> n]
      BY <2>2 DEF PostJoin
    <3> QED BY <3>1, <3>2 DEF PostJoin, ToldRoomIsOpen, Open
  <2> QED BY <2>1, <2>2
<1>4. /\ JobsPlaced' /\ RequestsApart' /\ AllocsApart' /\ RepliesAwaited' /\ AskedOnce'
      /\ DoomedRoomsExist' /\ LoneRoomListed' /\ ListedRoomIsOpen' /\ AnswersOpen'
  BY DEF PostJoin, JobsPlaced, RequestsApart, AllocsApart, RepliesAwaited, AskedOnce,
     Unused, DoomedRoomsExist, LoneRoomListed, ListedRoomIsOpen, AnswersOpen, Busy, Awaited, Open
<1> QED BY <1>1, <1>2, <1>3, <1>4 DEF AInv

\* Two fresh clients, a new match.
LEMMA PairKeeps ==
  ASSUME AInv, NEW c \in Clients, NEW d \in Clients, Pair(c, d)
  PROVE  AInv'
<1> USE RoomAllocationAssumption DEF AInv, TypeOK, Jobs, Places, shardvars, busvars
<1>1. TypeOK'
  BY DEF Pair
<1>2. Fresh'
  BY DEF Pair, Fresh
<1>3. RequestsApart'
  <2>1. \A q \in posted : q.who # {c, d}
    BY DEF Pair, Fresh
  <2>2. \A a \in Allocators, k \in Threads : job[a][k].who # {c, d}
    BY DEF Pair, Fresh
  <2>3. \A W \in matched' : W \in matched \/ W = {c, d}
    BY DEF Pair
  <2>4. posted' = posted /\ job' = job
    BY DEF Pair
  <2>5. /\ \A p, q \in posted : p.who = q.who => p = q
        /\ \A q \in posted, W \in matched : q.who # W
    BY DEF RequestsApart
  <2>6. \A q \in posted', W \in matched' : q.who # W
    BY ONLY <2>1, <2>3, <2>4, <2>5
  <2>7. \A a \in Allocators, k \in Threads, W \in matched' : Busy(a, k) => W # job[a][k].who
    BY <2>2, <2>3, <2>4 DEF RequestsApart
  <2> QED BY <2>4, <2>5, <2>6, <2>7 DEF RequestsApart, Busy
<1>4. AllocsApart'
  <2>1. \A m \in allocs : m.who # {c, d}
    BY DEF Pair, Fresh
  <2>2. \A W \in matched' : W \in matched \/ W = {c, d}
    BY DEF Pair
  <2>3. posted' = posted /\ job' = job /\ allocs' = allocs
    BY DEF Pair
  <2> QED BY <2>1, <2>2, <2>3 DEF AllocsApart, Busy
<1>5. /\ JobsPlaced' /\ RepliesAwaited' /\ AskedOnce' /\ DoomedRoomsExist' /\ LoneRoomListed'
      /\ ListedRoomIsOpen' /\ AnswersOpen' /\ ToldRoomIsOpen'
  BY DEF Pair, JobsPlaced, RepliesAwaited, AskedOnce, Unused, DoomedRoomsExist, LoneRoomListed,
     ListedRoomIsOpen, AnswersOpen, ToldRoomIsOpen, Busy, Awaited, Open
<1> QED BY <1>1, <1>2, <1>3, <1>4, <1>5 DEF AInv

\* Only the client forgets the request.
LEMMA GiveUpKeeps ==
  ASSUME AInv, NEW c \in Clients, GiveUp(c)
  PROVE  AInv'
<1> USE RoomAllocationAssumption DEF AInv, TypeOK, Jobs, Places, shardvars, busvars
<1>1. TypeOK'
  BY DEF GiveUp, Refuse, StillWaiting
<1>2. Fresh'
  BY DEF GiveUp, Refuse, StillWaiting, Fresh
<1>3. /\ JobsPlaced' /\ RequestsApart' /\ AllocsApart' /\ RepliesAwaited' /\ AskedOnce'
      /\ DoomedRoomsExist' /\ LoneRoomListed' /\ ListedRoomIsOpen' /\ AnswersOpen'
      /\ ToldRoomIsOpen'
  BY DEF GiveUp, Refuse, StillWaiting, JobsPlaced, RequestsApart, AllocsApart, RepliesAwaited,
     AskedOnce, Unused, DoomedRoomsExist, LoneRoomListed, ListedRoomIsOpen, AnswersOpen,
     ToldRoomIsOpen, Busy, Awaited, Open
<1> QED BY <1>1, <1>2, <1>3 DEF AInv

\* A load report moves no request.
LEMMA OnHeartbeatKeeps ==
  ASSUME AInv, NEW a \in Allocators, NEW s \in Shards, NEW count \in 0 .. MaxLoad,
         OnHeartbeat(a, s, count)
  PROVE  AInv'
<1> USE RoomAllocationAssumption DEF AInv, TypeOK, Jobs, Places, shardvars, busvars
<1>1. TypeOK'
  BY DEF OnHeartbeat
<1>2. /\ JobsPlaced' /\ Fresh' /\ RequestsApart' /\ AllocsApart' /\ RepliesAwaited'
      /\ AskedOnce' /\ DoomedRoomsExist' /\ LoneRoomListed' /\ ListedRoomIsOpen' /\ AnswersOpen'
      /\ ToldRoomIsOpen'
  BY DEF OnHeartbeat, JobsPlaced, Fresh, RequestsApart, AllocsApart, RepliesAwaited, AskedOnce,
     Unused, DoomedRoomsExist, LoneRoomListed, ListedRoomIsOpen, AnswersOpen, ToldRoomIsOpen, Busy,
     Awaited, Open
<1> QED BY <1>1, <1>2 DEF AInv

\* The match leaves the queue and gets a new name.
LEMMA OnMatchedKeeps ==
  ASSUME AInv, NEW a \in Allocators, NEW W \in matched, OnMatched(a, W)
  PROVE  AInv'
<1>1. /\ W \in SUBSET Clients /\ W \in matched
      /\ \A c \in Clients : status'[c] = "new" => status[c] = "new" /\ c \notin W
      /\ \A q \in posted : q.who # W
      /\ \A m \in allocs : m.who # W
      /\ \A b \in Allocators, i \in Threads : Busy(b, i) => job[b][i].who # W
  BY DEF OnMatched, AInv, TypeOK, Fresh, RequestsApart, AllocsApart
<1>2. CASE UNCHANGED <<minted, job, asked, askedTwice>>
  BY <1>2 DEF OnMatched, shardvars, AInv, TypeOK, JobsPlaced, Fresh, RequestsApart, AllocsApart,
     RepliesAwaited, Awaited, AskedOnce, Unused, DoomedRoomsExist, LoneRoomListed, ListedRoomIsOpen,
     AnswersOpen, Open, ToldRoomIsOpen, Busy
<1>3. ASSUME NEW s \in LeastLoaded(a), minted < MaxMatches, minted' = minted + 1,
             AskFor(minted'),
             job' = [job EXCEPT ![a]["matched"] =
                       [pc |-> "lock", who |-> W, place |-> [shard |-> s, room |-> minted']]]
      PROVE  AInv'
  <2> DEFINE p == [shard |-> s, room |-> minted']
             j == [pc |-> "lock", who |-> W, place |-> p]
  <2>1. s \in Shards /\ minted' \in MintedNames /\ minted' \in 0 .. MaxMatches
    BY <1>3, RoomAllocationAssumption DEF LeastLoaded, Known, AInv, TypeOK, MintedNames
  <2>2. p \in Places /\ p.room = minted'
    BY <2>1 DEF Places, RoomNames
  <2>3. j \in Jobs /\ j.pc = "lock" /\ j.who = W /\ j.place = p
    BY <1>1, <2>2 DEF Jobs
  <2>4. job' = [job EXCEPT ![a]["matched"] = j] /\ ~Busy(a, "matched") /\ "matched" \in Threads
    BY <1>3 DEF OnMatched, Busy, Threads
  <2>5. /\ posted' = posted /\ matched' \subseteq matched /\ W \notin matched'
        /\ UNCHANGED <<rooms, allocs, replies, vacated, restarted>>
    BY DEF OnMatched, shardvars
  <2> HIDE DEF p, j
  <2>6. HandlerInv' /\ job' \in [Allocators -> [Threads -> Jobs]]
    <3>1. \A q \in posted' : q.who # W
      BY <1>1, <2>5
    <3>2. /\ asked \subseteq asked' /\ askedTwice \subseteq askedTwice' /\ p.room \in asked'
          /\ p.room \in asked => p.room \in askedTwice'
      BY <1>3, <2>2 DEF AskFor
    <3>3. p.room \notin askedTwice' => Unused(p.room) /\ \A q \in posted' : q.room # p.room
      BY <2>2, <2>5, <3>2 DEF AInv, AskedOnce, Places
    <3>4. "matched" = "request" => p.room \in TypedNames
      OBVIOUS
    <3> QED BY <1>1, <2>2, <2>3, <2>4, <2>5, <3>1, <3>2, <3>3, <3>4, HandlerBegins
  <2>7. TypeOK'
    BY <1>3, <2>1, <2>6 DEF AInv, TypeOK, OnMatched, AskFor, RoomNames, shardvars
  <2>8. DoomedRoomsExist' /\ LoneRoomListed' /\ ListedRoomIsOpen' /\ ToldRoomIsOpen'
    BY <1>3 DEF OnMatched, AskFor, AInv, DoomedRoomsExist, LoneRoomListed, ListedRoomIsOpen,
       ToldRoomIsOpen, Open, shardvars
  <2> QED BY <2>6, <2>7, <2>8 DEF AInv, HandlerInv
<1> QED BY <1>2, <1>3 DEF OnMatched

\* A request is refused, or it leaves the queue with a typed name.
LEMMA OnRequestKeeps ==
  ASSUME AInv, NEW a \in Allocators, NEW q \in posted, OnRequest(a, q)
  PROVE  AInv'
<1>1. /\ q.who \in SUBSET Clients /\ q.room \in TypedNames
      /\ \A c \in Clients : status[c] = "new" => c \notin q.who
      /\ \A o \in posted : o.who = q.who => o = q
      /\ q.who \notin matched
      /\ \A m \in allocs : m.who # q.who
      /\ \A b \in Allocators, i \in Threads : Busy(b, i) => job[b][i].who # q.who
  BY DEF AInv, TypeOK, Fresh, RequestsApart, AllocsApart
<1>2. CASE Refuse(q.who) /\ UNCHANGED job
  <2>1. /\ \A c \in Clients : status'[c] = "new" => status[c] = "new"
        /\ status' \in [Clients -> {"new", "waiting", "told", "refused", "left"}]
    BY <1>2 DEF Refuse, StillWaiting, AInv, TypeOK
  <2> QED BY <1>2, <2>1 DEF OnRequest, Refuse, shardvars, AInv, TypeOK, JobsPlaced, Fresh,
     RequestsApart,
     AllocsApart, RepliesAwaited, Awaited, AskedOnce, Unused, DoomedRoomsExist, LoneRoomListed,
     ListedRoomIsOpen, AnswersOpen, Open, ToldRoomIsOpen, Busy
<1>3. ASSUME NEW s \in LeastLoaded(a), UNCHANGED <<status, told>>,
             job' = [job EXCEPT ![a]["request"] =
                       [pc |-> "lock", who |-> q.who, place |-> [shard |-> s, room |-> q.room]]]
      PROVE  AInv'
  <2> DEFINE p == [shard |-> s, room |-> q.room]
             j == [pc |-> "lock", who |-> q.who, place |-> p]
  <2>1. s \in Shards
    BY DEF LeastLoaded, Known
  <2>2. p \in Places /\ p.room \in TypedNames
    BY <1>1, <2>1 DEF Places, RoomNames
  <2>3. j \in Jobs /\ j.pc = "lock" /\ j.who = q.who /\ j.place = p
    BY <1>1, <2>2 DEF Jobs
  <2>4. job' = [job EXCEPT ![a]["request"] = j] /\ ~Busy(a, "request") /\ "request" \in Threads
    BY <1>3 DEF OnRequest, Busy, Threads
  <2>5. /\ posted' \subseteq posted /\ \A o \in posted' : o.who # q.who
        /\ matched' = matched /\ minted' = minted
        /\ UNCHANGED <<rooms, allocs, replies, vacated, restarted>>
    BY <1>1 DEF OnRequest, shardvars
  <2>6. \A c \in Clients : status'[c] = "new" => status[c] = "new" /\ c \notin q.who
    BY <1>1, <1>3
  <2> HIDE DEF p, j
  <2>7. HandlerInv' /\ job' \in [Allocators -> [Threads -> Jobs]]
    <3>1. /\ asked' = asked /\ askedTwice' = askedTwice /\ posted' = posted \ {q}
          /\ p.room = q.room /\ p.room \in RoomNames
      BY <2>2 DEF OnRequest, Places, p
    <3>2. /\ p.room \in asked'
          /\ p.room \notin askedTwice' => Unused(p.room) /\ \A o \in posted' : o.room # p.room
      BY <3>1 DEF AInv, AskedOnce
    <3> QED BY <1>1, <2>2, <2>3, <2>4, <2>5, <2>6, <3>1, <3>2, HandlerBegins
  <2>8. TypeOK'
    BY <1>3, <2>7 DEF AInv, TypeOK, OnRequest, shardvars
  <2>9. DoomedRoomsExist' /\ LoneRoomListed' /\ ListedRoomIsOpen' /\ ToldRoomIsOpen'
    BY <1>3 DEF OnRequest, AInv, DoomedRoomsExist, LoneRoomListed, ListedRoomIsOpen, ToldRoomIsOpen,
           Open, shardvars
  <2> QED BY <2>7, <2>8, <2>9 DEF AInv, HandlerInv
<1> QED BY <1>2, <1>3 DEF OnRequest

\* The request is under way for the first time.
LEMMA AskKeeps ==
  ASSUME AInv, NEW a \in Allocators, NEW k \in Threads, Ask(a, k)
  PROVE  AInv'
<1> DEFINE m0 == [who |-> job[a][k].who, place |-> job[a][k].place]
<1>1. /\ job' \in [Allocators -> [Threads -> Jobs]]
      /\ job'[a][k].pc = "wait" /\ job'[a][k].who = job[a][k].who
      /\ job'[a][k].place = job[a][k].place
      /\ \A b \in Allocators, i \in Threads : b # a \/ i # k => job'[b][i] = job[b][i]
  BY JobContinued DEF AInv, Ask
<1>2. /\ job[a][k].pc = "lock" /\ job[a][k].who \in SUBSET Clients /\ job[a][k].place \in Places
      /\ allocs' = allocs \cup {m0} /\ m0.who = job[a][k].who /\ m0.place = job[a][k].place
      /\ UNCHANGED <<rooms, doomed, guests, seat, directory, vacated, restarted, status, told,
                      posted, matched, minted, load, replies, asked, askedTwice>>
  BY DEF Ask, AInv, JobsPlaced, Busy, TypeOK, Jobs, shardvars
<1>3. m0 \in [who : SUBSET Clients, place : Places]
  BY <1>2
<1> HIDE DEF m0
<1>4. TypeOK'
  BY <1>1, <1>2, <1>3 DEF AInv, TypeOK
<1>5. JobsPlaced'
  BY <1>1, <1>2 DEF AInv, JobsPlaced, Busy
<1>6. Fresh'
  BY <1>1, <1>2 DEF AInv, Fresh
<1>7. RequestsApart'
  BY <1>1, <1>2 DEF AInv, RequestsApart, Busy
<1>8. \A m \in allocs : m.who # job[a][k].who
  BY <1>2 DEF AInv, AllocsApart, Busy
<1>9. AllocsApart'
  <2>1. \A b \in Allocators, i \in Threads : Busy(b,
        i) /\ job[b][i].who = m0.who => b = a /\ i = k
    BY <1>2 DEF AInv, RequestsApart, Busy
  <2>2. (\A q \in posted : q.who # m0.who) /\ (\A W \in matched : W # m0.who)
    BY <1>2 DEF AInv, RequestsApart, Busy
  <2> QED BY <1>1, <1>2, <1>8, <2>1, <2>2 DEF AInv, AllocsApart, Busy
<1>10. \A r \in replies : r.who # job[a][k].who
  BY <1>2 DEF AInv, RepliesAwaited, Awaited, RequestsApart, Busy
<1>11. RepliesAwaited'
  <2>1. ASSUME NEW r \in replies' PROVE Awaited(r.who)'
    <3>1. PICK b \in Allocators, i \in Threads : job[b][i].pc = "wait" /\ job[b][i].who = r.who
      BY <1>2 DEF AInv, RepliesAwaited, Awaited
    <3> QED BY <1>1, <1>2, <3>1 DEF Awaited
  <2> QED BY <1>2, <1>10, <2>1 DEF AInv, RepliesAwaited
<1>12. AskedOnce'
  <2>1. \A b \in Allocators, i \in Threads :
          /\ (Busy(b, i)' <=> Busy(b, i)) /\ job'[b][i].place = job[b][i].place
          /\ job'[b][i].pc = "lock" => job[b][i].pc = "lock" /\ (b # a \/ i # k)
    BY <1>1, <1>2 DEF Busy
  <2>2. job[a][k].place.room \notin askedTwice =>
          /\ \A s \in Shards : job[a][k].place.room \notin rooms[s]
          /\ \A m \in allocs : m.place.room # job[a][k].place.room
          /\ \A b \in Allocators, i \in Threads :
               Busy(b, i) /\ job[b][i].place.room = job[a][k].place.room => b = a /\ i = k
    BY <1>2 DEF AInv, AskedOnce, Unused, Busy
  <2>3. \A m \in allocs' : m \in allocs \/ (m = m0 /\ m.place = job[a][k].place)
    BY <1>2
  <2>4. \A n : Unused(n) => n # job[a][k].place.room /\ Unused(n)'
    BY <1>2, <2>1, <2>3 DEF Unused, Busy
  <2>5. \A m \in allocs' : m.place.room \notin askedTwice =>
          /\ \A s \in Shards : m.place.room \notin rooms'[s]
          /\ \A l \in allocs' : l.place.room = m.place.room => l = m
    BY <1>2, <2>2, <2>3 DEF AInv, AskedOnce, Unused
  <2>6. \A b \in Allocators, i \in Threads :
          Busy(b, i) /\ job[b][i].place.room \notin askedTwice =>
          /\ job'[b][i].pc = "lock" =>
               /\ \A s \in Shards : job[b][i].place.room \notin rooms'[s]
               /\ \A m \in allocs' : m.place.room # job[b][i].place.room
          /\ \A c \in Allocators, j \in Threads :
               Busy(c, j) /\ job[c][j].place.room = job[b][i].place.room => c = b /\ j = i
    <3>1. \A b \in Allocators, i \in Threads :
            Busy(b, i) /\ job[b][i].place.room \notin askedTwice =>
            \A c \in Allocators, j \in Threads :
               Busy(c, j) /\ job[c][j].place.room = job[b][i].place.room => c = b /\ j = i
      BY DEF AInv, AskedOnce, Unused
    <3>2. ASSUME NEW b \in Allocators, NEW i \in Threads, Busy(b, i),
                 job[b][i].place.room \notin askedTwice, job'[b][i].pc = "lock"
          PROVE  /\ \A s \in Shards : job[b][i].place.room \notin rooms'[s]
                 /\ \A m \in allocs' : m.place.room # job[b][i].place.room
      <4>1. job[b][i].pc = "lock" /\ (b # a \/ i # k)
        BY <2>1, <3>2
      <4>2. job[a][k].place.room # job[b][i].place.room
        BY <2>2, <3>2, <4>1
      <4> QED BY <1>2, <2>3, <3>2, <4>1, <4>2 DEF AInv, AskedOnce, Unused
    <3> QED BY <3>1, <3>2
  <2>7. /\ \A n \in RoomNames : n \notin asked =>
             Unused(n)' /\ \A q \in posted : q.room # n
        /\ \A q \in posted : q.room \notin askedTwice =>
             Unused(q.room)' /\ \A o \in posted : o.room = q.room => o = q
    BY <2>4 DEF AInv, AskedOnce
  <2> QED BY <1>2, <2>1, <2>5, <2>6, <2>7 DEF AskedOnce
<1>13. AnswersOpen'
  BY <1>1, <1>2, <1>10 DEF AInv, AnswersOpen, Open
<1>14. DoomedRoomsExist' /\ LoneRoomListed' /\ ListedRoomIsOpen' /\ ToldRoomIsOpen'
  BY <1>2 DEF AInv, DoomedRoomsExist, LoneRoomListed, ListedRoomIsOpen, ToldRoomIsOpen, Open
<1> QED BY <1>4, <1>5, <1>6, <1>7, <1>9, <1>11, <1>12, <1>13, <1>14 DEF AInv

\* A consent means that the room is there.
LEMMA AnsweredKeeps ==
  ASSUME AInv, NEW a \in Allocators, NEW k \in Threads, NEW r \in replies, Answered(a, k, r)
  PROVE  AInv'
<1> DEFINE W == job[a][k].who
           p == job[a][k].place
<1>1. /\ job[a][k].pc = "wait" /\ r.who = W /\ W \in SUBSET Clients /\ p \in Places
      /\ replies' = replies \ {r} /\ (\A u \in replies' : u.who # W)
      /\ UNCHANGED <<rooms, doomed, guests, seat, directory, vacated, restarted, posted, matched,
                      minted, load, allocs, asked, askedTwice>>
  BY DEF Answered, AInv, RepliesAwaited, JobsPlaced, Busy, TypeOK, Jobs, shardvars
<1>2. r.success => Open(p)
  BY <1>1 DEF AInv, AnswersOpen
<1> HIDE DEF W, p
<1>3. CASE Return(a, k) /\ (Refuse(W) \/ UNCHANGED <<status, told>> \/ (r.success /\ Tell(W, p)))
  <2>1. /\ \A c \in Clients : status'[c] = "new" => status[c] = "new"
        /\ status' \in [Clients -> {"new", "waiting", "told", "refused", "left"}]
        /\ told' \in [Clients -> Places \cup {Nowhere}]
        /\ \A c \in Clients : told'[c] = told[c] \/ (r.success /\ told'[c] = p)
    BY <1>1, <1>3 DEF Refuse, Tell, StillWaiting, AInv, TypeOK
  <2>2. HandlerInv' /\ job' \in [Allocators -> [Threads -> Jobs]]
    BY <1>1, <1>3, <2>1, HandlerReturns DEF W
  <2>3. TypeOK'
    BY <1>1, <2>1, <2>2 DEF AInv, TypeOK
  <2>4. DoomedRoomsExist' /\ LoneRoomListed' /\ ListedRoomIsOpen' /\ ToldRoomIsOpen'
    BY <1>1, <1>2, <2>1 DEF AInv, DoomedRoomsExist, LoneRoomListed, ListedRoomIsOpen,
       ToldRoomIsOpen,
       Open
  <2> QED BY <2>2, <2>3, <2>4 DEF AInv, HandlerInv
<1>4. CASE r.success /\ Continue(a, k, "publish") /\ UNCHANGED <<status, told>>
  <2>1. /\ job' \in [Allocators -> [Threads -> Jobs]]
        /\ job'[a][k].pc = "publish" /\ job'[a][k].who = W /\ job'[a][k].place = p
        /\ \A b \in Allocators, i \in Threads : b # a \/ i # k => job'[b][i] = job[b][i]
    BY <1>4, JobContinued DEF AInv, W, p
  <2>2. TypeOK'
    BY <1>1, <1>4, <2>1 DEF AInv, TypeOK
  <2>3. JobsPlaced' /\ Fresh' /\ RequestsApart' /\ AllocsApart'
    <3>1. \A b \in Allocators, i \in Threads :
            /\ Busy(b, i)' <=> Busy(b, i)
            /\ job'[b][i].who = job[b][i].who /\ job'[b][i].place = job[b][i].place
            /\ job'[b][i].pc = "lock" => job[b][i].pc = "lock"
      BY <1>1, <2>1 DEF Busy, W, p
    <3>2. JobsPlaced' /\ Fresh'
      BY <1>1, <1>4, <3>1 DEF AInv, JobsPlaced, Fresh
    <3>3. RequestsApart'
      BY <1>1, <3>1 DEF AInv, RequestsApart
    <3>4. AllocsApart'
      BY <1>1, <3>1 DEF AInv, AllocsApart
    <3> QED BY <3>2, <3>3, <3>4
  <2>4. RepliesAwaited'
    <3>1. ASSUME NEW u \in replies' PROVE Awaited(u.who)'
      <4>1. PICK b \in Allocators, i \in Threads : job[b][i].pc = "wait" /\ job[b][i].who = u.who
        BY <1>1 DEF AInv, RepliesAwaited, Awaited
      <4>2. b # a \/ i # k
        BY <1>1, <3>1, <4>1 DEF W
      <4> QED BY <2>1, <4>1, <4>2 DEF Awaited
    <3> QED BY <1>1, <3>1 DEF AInv, RepliesAwaited
  <2>5. AskedOnce'
    <3>1. \A b \in Allocators, i \in Threads :
            /\ (Busy(b, i)' <=> Busy(b, i)) /\ job'[b][i].place = job[b][i].place
            /\ job'[b][i].pc = "lock" => job[b][i].pc = "lock"
      BY <1>1, <2>1 DEF Busy, W, p
    <3> QED BY <1>1, <3>1 DEF AInv, AskedOnce, Unused
  <2>6. AnswersOpen'
    BY <1>1, <1>2, <1>4, <2>1 DEF AInv, AnswersOpen, Open
  <2>7. DoomedRoomsExist' /\ LoneRoomListed' /\ ListedRoomIsOpen' /\ ToldRoomIsOpen'
    BY <1>1, <1>4 DEF AInv, DoomedRoomsExist, LoneRoomListed, ListedRoomIsOpen, ToldRoomIsOpen, Open
  <2> QED BY <2>2, <2>3, <2>4, <2>5, <2>6, <2>7 DEF AInv
<1> QED BY <1>1, <1>3, <1>4 DEF Answered, Fail, W, p

\* The pair is told what the shard consented to.
LEMMA PublishAssignedKeeps ==
  ASSUME AInv, NEW a \in Allocators, PublishAssigned(a)
  PROVE  AInv'
<1> DEFINE W == job[a]["matched"].who
           p == job[a]["matched"].place
<1>1. /\ "matched" \in Threads /\ job[a]["matched"].pc = "publish"
      /\ W \in SUBSET Clients /\ p \in Places /\ Open(p)
      /\ Return(a, "matched") /\ Tell(W, p)
      /\ UNCHANGED <<rooms, doomed, guests, seat, directory, vacated, restarted, posted, matched,
                      minted, load, allocs, replies, asked, askedTwice>>
  BY DEF PublishAssigned, AInv, AnswersOpen, JobsPlaced, Busy, TypeOK, Jobs, shardvars, Threads
<1>2. \A r \in replies' : r.who # W
  BY <1>1 DEF AInv, RepliesAwaited, Awaited, RequestsApart, Busy
<1> HIDE DEF W, p
<1>3. /\ \A c \in Clients : status'[c] = "new" => status[c] = "new"
      /\ status' \in [Clients -> {"new", "waiting", "told", "refused", "left"}]
      /\ told' \in [Clients -> Places \cup {Nowhere}]
      /\ \A c \in Clients : told'[c] = told[c] \/ told'[c] = p
  BY <1>1 DEF Tell, StillWaiting, AInv, TypeOK
<1>4. HandlerInv' /\ job' \in [Allocators -> [Threads -> Jobs]]
  BY <1>1, <1>2, <1>3, HandlerReturns DEF W
<1>5. TypeOK'
  BY <1>1, <1>3, <1>4 DEF AInv, TypeOK
<1>6. DoomedRoomsExist' /\ LoneRoomListed' /\ ListedRoomIsOpen' /\ ToldRoomIsOpen'
  BY <1>1, <1>3 DEF AInv, DoomedRoomsExist, LoneRoomListed, ListedRoomIsOpen, ToldRoomIsOpen, Open
<1> QED BY <1>4, <1>5, <1>6 DEF AInv, HandlerInv

\* The request may still be under way, but nobody waits for it.
LEMMA TimeOutKeeps ==
  ASSUME AInv, NEW a \in Allocators, NEW k \in Threads, TimeOut(a, k)
  PROVE  AInv'
<1> DEFINE W == job[a][k].who
<1>1. /\ W \in SUBSET Clients /\ Return(a, k) /\ (Refuse(W) \/ UNCHANGED <<status, told>>)
      /\ replies' \subseteq replies /\ (\A r \in replies' : r.who # W)
      /\ UNCHANGED <<rooms, doomed, guests, seat, directory, vacated, restarted, posted, matched,
                      minted, load, allocs, asked, askedTwice>>
  BY DEF TimeOut, Fail, AInv, TypeOK, Jobs, shardvars
<1> HIDE DEF W
<1>2. /\ \A c \in Clients : status'[c] = "new" => status[c] = "new"
      /\ status' \in [Clients -> {"new", "waiting", "told", "refused", "left"}]
      /\ told' = told
  BY <1>1 DEF Refuse, StillWaiting, AInv, TypeOK
<1>3. HandlerInv' /\ job' \in [Allocators -> [Threads -> Jobs]]
  BY <1>1, <1>2, HandlerReturns DEF W
<1>4. TypeOK'
  BY <1>1, <1>2, <1>3 DEF AInv, TypeOK
<1>5. DoomedRoomsExist' /\ LoneRoomListed' /\ ListedRoomIsOpen' /\ ToldRoomIsOpen'
  BY <1>1, <1>2 DEF AInv, DoomedRoomsExist, LoneRoomListed, ListedRoomIsOpen, ToldRoomIsOpen, Open
<1> QED BY <1>3, <1>4, <1>5 DEF AInv, HandlerInv

\* The room opens, and the answer goes to the handler that asked for it.
LEMMA DoAllocateKeeps ==
  ASSUME AInv, NEW m \in allocs, DoAllocate(m)
  PROVE  AInv'
<1> DEFINE s == m.place.shard
           n == m.place.room
<1>1. /\ m \in [who : SUBSET Clients, place : Places] /\ s \in Shards /\ n \in RoomNames
      /\ allocs' = allocs \ {m} /\ Reply(m.who, n \notin rooms[s])
      /\ UNCHANGED <<doomed, guests, seat, vacated, restarted, status, told, posted, matched,
                      minted, load, job, asked, askedTwice>>
  BY DEF DoAllocate, AInv, TypeOK, Places
<1>2. \/ n \in rooms[s] /\ UNCHANGED <<rooms, directory>>
      \/ /\ n \notin rooms[s] /\ rooms' = [rooms EXCEPT ![s] = @ \cup {n}]
         /\ directory' = [directory EXCEPT ![n] = s]
  BY DEF DoAllocate
<1>3. \A r \in replies' : r \in replies \/
        (Awaited(m.who) /\ r = [who |-> m.who, success |-> n \notin rooms[s]])
  BY <1>1 DEF Reply
<1>4. /\ rooms' \in [Shards -> SUBSET RoomNames]
      /\ \A t \in Shards : rooms[t] \subseteq rooms'[t]
      /\ \A t \in Shards : \A l \in rooms'[t] : l \in rooms[t] \/ (t = s /\ l = n)
      /\ n \in rooms'[s]
  <2> HIDE DEF s, n
  <2>1. rooms \in [Shards -> SUBSET RoomNames]
    BY DEF AInv, TypeOK
  <2>2. CASE rooms' = rooms /\ n \in rooms[s]
    BY <2>1, <2>2
  <2>3. CASE rooms' = [rooms EXCEPT ![s] = @ \cup {n}]
    BY <1>1, <2>1, <2>3
  <2> QED BY <1>2, <2>2, <2>3
<1>5. /\ directory' \in [RoomNames -> Shards \cup {NoShard}]
      /\ \A l \in RoomNames : directory'[l] = directory[l] \/ (l = n /\ directory'[l] = s)
      /\ n \in rooms[s] \/ directory'[n] = s
  BY <1>1, <1>2 DEF AInv, TypeOK
<1> HIDE DEF s, n
<1>6. TypeOK'
  <2>1. replies' \subseteq [who : SUBSET Clients, success : BOOLEAN]
    <3>1. [who |-> m.who, success |-> n \notin rooms[s]] \in [who : SUBSET Clients,
          success : BOOLEAN]
      <4>1. (n \notin rooms[s]) \in BOOLEAN
        OBVIOUS
      <4> QED BY <1>1, <4>1
    <3>2. replies \subseteq [who : SUBSET Clients, success : BOOLEAN]
      BY DEF AInv, TypeOK
    <3> QED BY <1>3, <3>1, <3>2
  <2> QED BY <1>1, <1>4, <1>5, <2>1 DEF AInv, TypeOK
<1>7. JobsPlaced' /\ Fresh' /\ RequestsApart' /\ AllocsApart'
  BY <1>1 DEF AInv, JobsPlaced, Fresh, RequestsApart, AllocsApart, Busy
<1>8. RepliesAwaited'
  <2>1. \A r \in replies' : Awaited(r.who)'
    BY <1>1, <1>3 DEF AInv, RepliesAwaited, Awaited
  <2>2. \A r, u \in replies' : r.who = u.who => r = u
    BY <1>3 DEF AInv, RepliesAwaited
  <2>3. \A r \in replies', l \in allocs' : r.who # l.who
    BY <1>1, <1>3 DEF AInv, RepliesAwaited, AllocsApart
  <2> QED BY <2>1, <2>2, <2>3 DEF RepliesAwaited
<1>9. AskedOnce'
  <2>1. \A l : Unused(l) => l # n /\ Unused(l)'
    BY <1>1, <1>4 DEF Unused, Busy, n
  <2>2. \A l \in allocs' : l.place.room \notin askedTwice => l.place.room # n
    BY <1>1 DEF AInv, AskedOnce, n
  <2>3. \A a \in Allocators, k \in Threads :
          Busy(a, k) /\ job[a][k].place.room \notin askedTwice /\ job[a][k].pc = "lock" =>
            job[a][k].place.room # n
    BY DEF AInv, AskedOnce, n
  <2> QED BY <1>1, <1>4, <2>1, <2>2, <2>3 DEF AInv, AskedOnce, Busy
<1>10. LoneRoomListed'
  <2>1. n \notin askedTwice => \A t \in Shards : n \notin rooms[t]
    BY DEF AInv, AskedOnce, Unused, n
  <2>2. askedTwice' = askedTwice
    BY <1>1
  <2>3. ASSUME NEW l \in RoomNames \ askedTwice, NEW t \in Shards, l \in rooms'[t]
        PROVE  directory'[l] = t
    <3>1. CASE l = n
      BY <1>1, <1>4, <1>5, <2>1, <2>3, <3>1
    <3>2. CASE l # n
      BY <1>4, <1>5, <2>2, <2>3, <3>2 DEF AInv, LoneRoomListed
    <3> QED BY <3>1, <3>2
  <2> QED BY <2>2, <2>3 DEF LoneRoomListed
<1>11. ListedRoomIsOpen'
  <2>1. ASSUME NEW l \in RoomNames, directory'[l] # NoShard
        PROVE  l \in rooms'[directory'[l]] \/ directory'[l] \in restarted'
    <3>1. CASE directory'[l] = directory[l]
      <4>1. directory[l] \in Shards
        BY <2>1, <3>1 DEF AInv, TypeOK
      <4> QED BY <1>1, <1>4, <2>1, <3>1, <4>1 DEF AInv, ListedRoomIsOpen
    <3>2. CASE l = n /\ directory'[l] = s
      BY <1>4, <3>2
    <3> QED BY <1>5, <3>1, <3>2
  <2> QED BY <2>1 DEF ListedRoomIsOpen
<1>12. AnswersOpen'
  <2>1. ASSUME NEW a \in Allocators, NEW k \in Threads, job[a][k].pc = "publish"
        PROVE  Open(job[a][k].place)'
    <3>1. job[a][k].place.shard \in Shards /\ Open(job[a][k].place)
      BY <2>1 DEF AInv, AnswersOpen, JobsPlaced, Busy, Places
    <3> QED BY <1>1, <1>4, <3>1 DEF Open
  <2>2. ASSUME NEW a \in Allocators, NEW k \in Threads, job[a][k].pc = "wait",
               NEW r \in replies', r.success, r.who = job[a][k].who
        PROVE  Open(job[a][k].place)'
    <3>1. CASE r \in replies
      <4>1. job[a][k].place.shard \in Shards /\ Open(job[a][k].place)
        BY <2>2, <3>1 DEF AInv, AnswersOpen, JobsPlaced, Busy, Places
      <4> QED BY <1>1, <1>4, <4>1 DEF Open
    <3>2. CASE r.who = m.who
      <4>1. job[a][k].place = m.place
        <5>1. Busy(a, k) /\ job[a][k].who = m.who
          BY <2>2, <3>2 DEF Busy
        <5> QED BY <5>1 DEF AInv, AllocsApart
      <4> QED BY <1>1, <1>4, <4>1 DEF Open, s, n
    <3> QED BY <1>3, <3>1, <3>2
  <2> QED BY <1>1, <2>1, <2>2 DEF AnswersOpen
<1>13. ToldRoomIsOpen'
  <2>1. ASSUME NEW c \in Clients, told[c] # Nowhere
        PROVE  told[c].shard \in Shards
    BY <2>1 DEF AInv, TypeOK, Places
  <2> QED BY <1>1, <1>4, <2>1 DEF AInv, ToldRoomIsOpen
<1>14. DoomedRoomsExist'
  <2>1. \A d \in doomed : d[1] \in Shards
    BY DEF AInv, TypeOK
  <2> QED BY <1>1, <1>4, <2>1 DEF AInv, DoomedRoomsExist
<1> QED BY <1>6, <1>7, <1>8, <1>9, <1>10, <1>11, <1>12, <1>13, <1>14 DEF AInv

\* A guest changes no room.
LEMMA EnterKeeps ==
  ASSUME AInv, NEW c \in Clients, NEW s \in Shards, Enter(c, s)
  PROVE  AInv'
<1> USE RoomAllocationAssumption DEF AInv, TypeOK, Jobs, Places, shardvars, busvars
<1>1. TypeOK'
  BY DEF Enter
<1>2. /\ JobsPlaced' /\ Fresh' /\ RequestsApart' /\ AllocsApart' /\ RepliesAwaited'
      /\ AskedOnce' /\ DoomedRoomsExist' /\ LoneRoomListed' /\ ListedRoomIsOpen' /\ AnswersOpen'
      /\ ToldRoomIsOpen'
  BY DEF Enter, JobsPlaced, Fresh, RequestsApart, AllocsApart, RepliesAwaited, AskedOnce,
     Unused, DoomedRoomsExist, LoneRoomListed, ListedRoomIsOpen, AnswersOpen, ToldRoomIsOpen, Busy,
     Awaited, Open
<1> QED BY <1>1, <1>2 DEF AInv

\* The last guest closes the room or marks it.
LEMMA LeaveKeeps ==
  ASSUME AInv, NEW c \in Clients, Leave(c)
  PROVE  AInv'
<1> DEFINE s == seat[c].shard
           n == seat[c].room
<1>1. /\ s \in Shards /\ n \in RoomNames
      /\ seat' \in [Clients -> Places \cup {Nowhere}]
      /\ status' \in [Clients -> {"new", "waiting", "told", "refused", "left"}]
      /\ \A d \in Clients : status'[d] = "new" => status[d] = "new"
      /\ UNCHANGED <<restarted, told, busvars, asked, askedTwice>>
  BY DEF Leave, AInv, TypeOK, Places
<1>2. CASE n \in rooms[s] /\ Erase(s, n)
  BY <1>1, <1>2, EraseKeeps
<1>3. CASE /\ n \in rooms[s]
           /\ doomed' = doomed \cup {<<s, n>>}
           /\ guests' = guests \ {<<s, n, c>>}
           /\ UNCHANGED <<rooms, directory, vacated>>
  <2>1. TypeOK'
    BY <1>1, <1>3 DEF AInv, TypeOK, busvars
  <2>2. DoomedRoomsExist'
    BY <1>1, <1>3 DEF AInv, DoomedRoomsExist
  <2>3. JobsPlaced' /\ Fresh' /\ RequestsApart' /\ AllocsApart' /\ RepliesAwaited' /\ AskedOnce'
    BY <1>1, <1>3 DEF busvars, AInv, JobsPlaced, Fresh, RequestsApart, AllocsApart,
       RepliesAwaited,
       Awaited, AskedOnce, Unused, Busy
  <2>4. LoneRoomListed' /\ ListedRoomIsOpen' /\ AnswersOpen' /\ ToldRoomIsOpen'
    BY <1>1, <1>3 DEF busvars, AInv, LoneRoomListed, ListedRoomIsOpen, AnswersOpen, ToldRoomIsOpen,
       Open
  <2> QED BY <2>1, <2>2, <2>3, <2>4 DEF AInv
<1>4. CASE guests' = guests \ {<<s, n, c>>} /\ UNCHANGED <<rooms, doomed, directory, vacated>>
  <2>1. TypeOK'
    BY <1>1, <1>4 DEF AInv, TypeOK, busvars
  <2>2. JobsPlaced' /\ Fresh' /\ RequestsApart' /\ AllocsApart' /\ RepliesAwaited' /\ AskedOnce'
    BY <1>1, <1>4 DEF busvars, AInv, JobsPlaced, Fresh, RequestsApart, AllocsApart,
       RepliesAwaited,
       Awaited, AskedOnce, Unused, Busy
  <2>3. /\ DoomedRoomsExist' /\ LoneRoomListed' /\ ListedRoomIsOpen' /\ AnswersOpen'
        /\ ToldRoomIsOpen'
    BY <1>1, <1>4 DEF busvars, AInv, DoomedRoomsExist, LoneRoomListed, ListedRoomIsOpen,
       AnswersOpen,
       ToldRoomIsOpen, Open
  <2> QED BY <2>1, <2>2, <2>3 DEF AInv
<1> QED BY <1>2, <1>3, <1>4 DEF Leave

\* A marked room is still there.
LEMMA ReapIfSafeKeeps ==
  ASSUME AInv, NEW s \in Shards, NEW n \in RoomNames, ReapIfSafe(s, n)
  PROVE  AInv'
<1>1. n \in rooms[s]
  BY DEF ReapIfSafe, AInv, DoomedRoomsExist
<1>2. /\ Erase(s, n) /\ UNCHANGED <<restarted, told, busvars, asked, askedTwice>>
      /\ seat' \in [Clients -> Places \cup {Nowhere}]
      /\ status' \in [Clients -> {"new", "waiting", "told", "refused", "left"}]
      /\ \A d \in Clients : status'[d] = "new" => status[d] = "new"
  BY DEF ReapIfSafe, AInv, TypeOK
<1> QED BY <1>1, <1>2, EraseKeeps

\* Rooms and requests of the shard are gone.
LEMMA RestartKeeps ==
  ASSUME AInv, NEW s \in Shards, Restart(s)
  PROVE  AInv'
<1> USE RoomAllocationAssumption DEF AInv, TypeOK, Jobs, Places, shardvars, busvars
<1>1. TypeOK'
  BY DEF Restart
<1>2. Fresh'
  BY DEF Restart, Fresh
<1>3. AllocsApart'
  BY DEF Restart, AllocsApart, Busy
<1>4. RepliesAwaited'
  BY DEF Restart, RepliesAwaited, Awaited
<1>5. AskedOnce'
  BY DEF Restart, AskedOnce, Unused, Busy
<1>6. DoomedRoomsExist'
  BY DEF Restart, DoomedRoomsExist
<1>7. LoneRoomListed'
  BY DEF Restart, LoneRoomListed
<1>8. ListedRoomIsOpen'
  BY DEF Restart, ListedRoomIsOpen, Open
<1>9. AnswersOpen'
  BY DEF Restart, AnswersOpen, Open
<1>10. ToldRoomIsOpen'
  BY DEF Restart, ToldRoomIsOpen
<1>11. JobsPlaced' /\ RequestsApart'
  BY DEF Restart, JobsPlaced, RequestsApart, Busy
<1> QED BY <1>1, <1>2, <1>3, <1>4, <1>5, <1>6, <1>7, <1>8, <1>9, <1>10, <1>11 DEF AInv

\* Nothing is under way at first.
LEMMA InitAInv == Init => AInv
<1> SUFFICES ASSUME Init PROVE AInv
  OBVIOUS
<1> USE RoomAllocationAssumption DEF Init
<1>1. \A a \in Allocators, k \in Threads : job[a][k] = Idle
  OBVIOUS
<1>2. TypeOK
  <2>1. job \in [Allocators -> [Threads -> Jobs]]
    BY IdleJob
  <2>2. load \in [Allocators -> [Shards -> -1 .. MaxLoad]] /\ minted \in 0 .. MaxMatches
    OBVIOUS
  <2> QED BY <2>1, <2>2 DEF TypeOK
<1>3. JobsPlaced /\ Fresh /\ RequestsApart /\ AllocsApart /\ RepliesAwaited /\ AnswersOpen
  BY <1>1, IdleJob DEF JobsPlaced, Fresh, RequestsApart, AllocsApart, RepliesAwaited,
     AnswersOpen, Busy
<1>4. AskedOnce
  BY <1>1, IdleJob DEF AskedOnce, Unused, Busy
<1>5. DoomedRoomsExist /\ LoneRoomListed /\ ListedRoomIsOpen /\ ToldRoomIsOpen
  BY DEF DoomedRoomsExist, LoneRoomListed, ListedRoomIsOpen, ToldRoomIsOpen
<1> QED BY <1>2, <1>3, <1>4, <1>5 DEF AInv

\* One case per action.
LEMMA NextAInv == AInv /\ [Next]_vars => AInv'
<1> SUFFICES ASSUME AInv, [Next]_vars PROVE AInv'
  OBVIOUS
<1>1. CASE ClientStep
  BY <1>1, PostRoomsKeeps, PostJoinKeeps, PairKeeps, GiveUpKeeps, LeaveKeeps, EnterKeeps
     DEF ClientStep
<1>2. ASSUME NEW a \in Allocators, NEW s \in Shards, NEW count \in 0 .. MaxLoad,
             OnHeartbeat(a, s, count)
      PROVE  AInv'
  BY <1>2, OnHeartbeatKeeps
<1>3. ASSUME NEW a \in Allocators, NEW k \in Threads, ThreadStep(a, k) PROVE AInv'
  BY <1>3, AskKeeps, TimeOutKeeps, AnsweredKeeps, PublishAssignedKeeps, OnMatchedKeeps,
     OnRequestKeeps DEF ThreadStep
<1>4. ASSUME NEW m \in allocs, DoAllocate(m) PROVE AInv'
  BY <1>4, DoAllocateKeeps
<1>5. ASSUME NEW s \in Shards, NEW n \in RoomNames, ReapIfSafe(s, n) PROVE AInv'
  BY <1>5, ReapIfSafeKeeps
<1>6. ASSUME NEW s \in Shards, Restart(s) PROVE AInv'
  BY <1>6, RestartKeeps
<1>7. CASE UNCHANGED vars
  BY <1>7 DEF vars, shardvars, busvars, AInv, TypeOK, JobsPlaced, Fresh, RequestsApart,
     AllocsApart, RepliesAwaited, Awaited, AskedOnce, Unused, DoomedRoomsExist, LoneRoomListed,
     ListedRoomIsOpen,
     AnswersOpen, Open, ToldRoomIsOpen, Busy
<1> QED BY <1>1, <1>2, <1>3, <1>4, <1>5, <1>6, <1>7 DEF Next

-----------------------------------------------------------------------------
\* The allocators, the shards and the directory keep the inductive invariant
\* through timeouts, late requests and crashes of shards.
THEOREM AllocationInvariance == Spec => []AInv
<1> QED BY InitAInv, NextAInv, PTL DEF Spec

\* Every variable keeps its type.
THEOREM AllocationTypeCorrect == Spec => []TypeOK
<1>1. AInv => TypeOK
  BY DEF AInv
<1> QED BY <1>1, AllocationInvariance, PTL

\* A room that one request asked for lives on one shard, the one the directory
\* gives, whatever other rooms are made and erased meanwhile: by how often
\* doAllocate runs for a request, not by what the names look like.
THEOREM LoneRoomsAreListed == Spec => []LoneRoomListed
<1>1. AInv => LoneRoomListed
  BY DEF AInv
<1> QED BY <1>1, AllocationInvariance, PTL

\* An entry of the directory names a shard that has the room or has crashed,
\* also where two shards have rooms of one name and either is erased.
THEOREM ListedRoomsAreOpen == Spec => []ListedRoomIsOpen
<1>1. AInv => ListedRoomIsOpen
  BY DEF AInv
<1> QED BY <1>1, AllocationInvariance, PTL

\* Nobody is told of a room that was never made.
THEOREM ToldRoomsAreOpen == Spec => []ToldRoomIsOpen
<1>1. AInv => ToldRoomIsOpen
  BY DEF AInv
<1> QED BY <1>1, AllocationInvariance, PTL

=============================================================================

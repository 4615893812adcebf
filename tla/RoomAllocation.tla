--------------------------- MODULE RoomAllocation ---------------------------
(***************************************************************************)
(* How a room gets its shard: the API gateways' POST /rooms and            *)
(* /rooms/{name}/join, the Game Allocator replicas, AllocateRoomHandler    *)
(* and SessionRegistry on the shards, and the room directory in Redis.     *)
(*                                                                         *)
(* A name is typed by a user or minted for a match: match-1, match-2, ...  *)
(* stand here as the numbers INCR gives out. Nothing keeps a user from     *)
(* typing such a name. A client is one connection: it asks once, is        *)
(* answered, may enter a room and finally leaves.                          *)
(*                                                                         *)
(* The allocator's request to a shard and the gateway's request to the     *)
(* allocator may time out at any moment; the message is then still under   *)
(* way. A shard may crash and come back at its old address without its     *)
(* rooms. Redis keeps what it was told.                                    *)
(***************************************************************************)
EXTENDS Integers, FiniteSets

CONSTANTS
  Shards, Clients, Allocators,
  TypedNames,    \* room names users type, minted ones among them perhaps
  MaxMatches,    \* matches made in one behaviour
  MaxRestarts,   \* shards that crash in one behaviour, once each
  MaxLoad,       \* largest number of rooms a heartbeat reports
  NoShard, NoRoom

MintedNames == 1 .. MaxMatches
RoomNames == TypedNames \cup MintedNames
Threads == {"matched", "request"}

ASSUME RoomAllocationAssumption ==
  /\ MaxMatches \in Nat /\ MaxRestarts \in Nat /\ MaxLoad \in Nat
  /\ NoShard \notin Shards /\ NoRoom \notin RoomNames

VARIABLES
  rooms,      \* shard -> the names in its rooms_
  doomed,     \* <<shard, name>>: rooms marked pendingRemoval
  guests,     \* <<shard, name, client>>: the roles of the rooms
  seat,       \* connectionRoom_ of the shards: client -> its shard and room
  directory,  \* Redis "room:<name>" -> shard
  status,     \* client -> what has become of it
  told,       \* client -> the room and shard it was told
  posted,     \* allocation.request under way
  matched,    \* matchmaking.matched under way
  minted,     \* Redis "matchmaking:nextRoomId"
  load,       \* allocator -> shardLoad; -1: no heartbeat yet
  job,        \* allocator, subject -> what its delivery thread is doing
  allocs,     \* shard.<address>.allocate under way
  replies,    \* and the answers to it
  vacated,    \* history: names some shard has erased
  restarted,  \* history: shards that have crashed
  asked,      \* history: names a room was asked for
  askedTwice  \* history: names a room was asked for more than once

shardvars == <<rooms, doomed, guests, seat, directory, vacated, restarted>>
busvars == <<posted, matched, minted, load, job, allocs, replies>>
askvars == <<asked, askedTwice>>
vars == <<shardvars, status, told, busvars, askvars>>

Nowhere == [shard |-> NoShard, room |-> NoRoom]
Places == [shard : Shards, room : RoomNames]

Idle == [pc |-> "idle", who |-> {}, place |-> Nowhere]
Jobs == [pc : {"idle", "lock", "wait", "publish"}, who : SUBSET Clients,
         place : Places \cup {Nowhere}]

TypeOK ==
  /\ rooms \in [Shards -> SUBSET RoomNames]
  /\ doomed \subseteq Shards \X RoomNames
  /\ guests \subseteq Shards \X RoomNames \X Clients
  /\ seat \in [Clients -> Places \cup {Nowhere}]
  /\ directory \in [RoomNames -> Shards \cup {NoShard}]
  /\ status \in [Clients -> {"new", "waiting", "told", "refused", "left"}]
  /\ told \in [Clients -> Places \cup {Nowhere}]
  /\ posted \subseteq [who : SUBSET Clients, room : TypedNames]
  /\ matched \subseteq SUBSET Clients
  /\ minted \in 0 .. MaxMatches
  /\ load \in [Allocators -> [Shards -> -1 .. MaxLoad]]
  /\ job \in [Allocators -> [Threads -> Jobs]]
  /\ allocs \subseteq [who : SUBSET Clients, place : Places]
  /\ replies \subseteq [who : SUBSET Clients, success : BOOLEAN]
  /\ vacated \subseteq RoomNames
  /\ restarted \subseteq Shards
  /\ asked \subseteq RoomNames /\ askedTwice \subseteq RoomNames

Init ==
  /\ rooms = [s \in Shards |-> {}]
  /\ doomed = {} /\ guests = {}
  /\ seat = [c \in Clients |-> Nowhere]
  /\ directory = [n \in RoomNames |-> NoShard]
  /\ status = [c \in Clients |-> "new"]
  /\ told = [c \in Clients |-> Nowhere]
  /\ posted = {} /\ matched = {} /\ minted = 0
  /\ load = [a \in Allocators |-> [s \in Shards |-> -1]]
  /\ job = [a \in Allocators |-> [k \in Threads |-> Idle]]
  /\ allocs = {} /\ replies = {}
  /\ vacated = {} /\ restarted = {} /\ asked = {} /\ askedTwice = {}

-----------------------------------------------------------------------------
(* What the clients learn. An answer to one that waits no longer is lost.   *)

StillWaiting(W) == {c \in W : status[c] = "waiting"}

Tell(W, place) ==
  /\ status' = [c \in Clients |-> IF c \in StillWaiting(W) THEN "told" ELSE status[c]]
  /\ told' = [c \in Clients |-> IF c \in StillWaiting(W) THEN place ELSE told[c]]

Refuse(W) ==
  /\ status' = [c \in Clients |-> IF c \in StillWaiting(W) THEN "refused" ELSE status[c]]
  /\ UNCHANGED told

\* Kept for the properties: one more room of this name is asked for.
AskFor(n) ==
  /\ asked' = asked \cup {n}
  /\ askedTwice' = askedTwice \cup ({n} \cap asked)

\* POST /rooms asks the allocators, from a thread of its own, for whatever
\* name the user typed.
PostRooms(c, n) ==
  /\ status[c] = "new"
  /\ status' = [status EXCEPT ![c] = "waiting"]
  /\ posted' = posted \cup {[who |-> {c}, room |-> n]}
  /\ AskFor(n)
  /\ UNCHANGED <<shardvars, told, matched, minted, load, job, allocs, replies>>

\* A lookup that does not ask whether there is an entry.
PostJoinUnchecked(c, n) ==
  /\ status[c] = "new"
  /\ status' = [status EXCEPT ![c] = "told"]
  /\ told' = [told EXCEPT ![c] = [shard |-> directory[n], room |-> n]]
  /\ UNCHANGED <<shardvars, busvars, askvars>>

\* POST /rooms/{name}/join looks the room up.
PostJoin(c, n) ==
  /\ status[c] = "new"
  /\ IF directory[n] = NoShard
     THEN /\ status' = [status EXCEPT ![c] = "refused"]
          /\ UNCHANGED told
     ELSE /\ status' = [status EXCEPT ![c] = "told"]
          /\ told' = [told EXCEPT ![c] = [shard |-> directory[n], room |-> n]]
  /\ UNCHANGED <<shardvars, busvars, askvars>>

\* The Matchmaker has paired two players (Matchmaking).
Pair(c, d) ==
  /\ c # d /\ status[c] = "new" /\ status[d] = "new"
  /\ status' = [status EXCEPT ![c] = "waiting", ![d] = "waiting"]
  /\ matched' = matched \cup {{c, d}}
  /\ UNCHANGED <<shardvars, told, posted, minted, load, job, allocs, replies, askvars>>

\* kAllocationRequestTimeoutMs, or the Matchmaker's watchdog.
GiveUp(c) ==
  /\ status[c] = "waiting"
  /\ Refuse({c})
  /\ UNCHANGED <<shardvars, busvars, askvars>>

-----------------------------------------------------------------------------
(* The Game Allocator. Each subject has its delivery thread; the mutex of   *)
(* NatsClient is held throughout a request, and taken by every publish.     *)

Known(a) == {s \in Shards : load[a][s] # -1}

\* pickLeastLoadedShard: among equals the order of an unordered_map decides.
LeastLoaded(a) == {s \in Known(a) : \A t \in Known(a) : load[a][s] <= load[a][t]}

Continue(a, k, pc) == job' = [job EXCEPT ![a][k].pc = pc]
Return(a, k) == job' = [job EXCEPT ![a][k] = Idle]

MutexFree(a) == \A k \in Threads : job[a][k].pc # "wait"

\* shard.heartbeat. The number was right, if at all, when the shard's
\* heartbeat thread read it beside the io thread: by now it is any number.
OnHeartbeat(a, s, count) ==
  /\ load' = [load EXCEPT ![a][s] = count]
  /\ UNCHANGED <<shardvars, status, told, posted, matched, minted, job, allocs, replies, askvars>>

\* matchmaking.matched, a queue group: one replica takes it. No shard known:
\* the match is dropped.
OnMatched(a, W) ==
  /\ job[a]["matched"].pc = "idle"
  /\ matched' = matched \ {W}
  /\ \/ Known(a) = {} /\ UNCHANGED <<minted, job, askvars>>
     \/ \E s \in LeastLoaded(a) :
          /\ minted < MaxMatches
          /\ minted' = minted + 1
          /\ AskFor(minted')
          /\ job' = [job EXCEPT ![a]["matched"] =
               [pc |-> "lock", who |-> W, place |-> [shard |-> s, room |-> minted']]]
  /\ UNCHANGED <<shardvars, status, told, posted, load, allocs, replies>>

\* allocation.request, a queue group as well.
OnRequest(a, q) ==
  /\ job[a]["request"].pc = "idle"
  /\ posted' = posted \ {q}
  /\ \/ Known(a) = {} /\ Refuse(q.who) /\ UNCHANGED job
     \/ \E s \in LeastLoaded(a) :
          /\ job' = [job EXCEPT ![a]["request"] =
               [pc |-> "lock", who |-> q.who, place |-> [shard |-> s, room |-> q.room]]]
          /\ UNCHANGED <<status, told>>
  /\ UNCHANGED <<shardvars, matched, minted, load, allocs, replies, askvars>>

\* A thread that yields to another that is not done yet.
AskWhenAlone(a, k) ==
  /\ job[a][k].pc = "lock"
  /\ \A other \in Threads \ {k} : job[a][other].pc = "idle"
  /\ Continue(a, k, "wait")
  /\ allocs' = allocs \cup {[who |-> job[a][k].who, place |-> job[a][k].place]}
  /\ UNCHANGED <<shardvars, status, told, posted, matched, minted, load, replies, askvars>>

\* A room that is announced before the shard has made it.
AskAndAnnounce(a, k) ==
  /\ job[a][k].pc = "lock" /\ MutexFree(a)
  /\ Continue(a, k, "wait")
  /\ allocs' = allocs \cup {[who |-> job[a][k].who, place |-> job[a][k].place]}
  /\ Tell(job[a][k].who, job[a][k].place)
  /\ UNCHANGED <<shardvars, posted, matched, minted, load, replies, askvars>>

\* A request that goes to every shard.
AskEveryShard(a, k) ==
  /\ job[a][k].pc = "lock" /\ MutexFree(a)
  /\ Continue(a, k, "wait")
  /\ allocs' = allocs \cup {[who |-> job[a][k].who,
                             place |-> [shard |-> s, room |-> job[a][k].place.room]] :
                            s \in Known(a)}
  /\ UNCHANGED <<shardvars, status, told, posted, matched, minted, load, replies, askvars>>

\* NatsClient::request: the lock is taken and the message sent ...
Ask(a, k) ==
  /\ job[a][k].pc = "lock" /\ MutexFree(a)
  /\ Continue(a, k, "wait")
  /\ allocs' = allocs \cup {[who |-> job[a][k].who, place |-> job[a][k].place]}
  /\ UNCHANGED <<shardvars, status, told, posted, matched, minted, load, replies, askvars>>

\* ... until the shard answers, or does not. A user is told so; the players
\* of a match are not.
Fail(a, k) ==
  /\ Return(a, k)
  /\ IF k = "request" THEN Refuse(job[a][k].who) ELSE UNCHANGED <<status, told>>

Answered(a, k, r) ==
  /\ job[a][k].pc = "wait" /\ r.who = job[a][k].who
  /\ replies' = replies \ {r}
  /\ \/ ~r.success /\ Fail(a, k)
     \/ /\ r.success /\ k = "matched"
        /\ Continue(a, k, "publish")
        /\ UNCHANGED <<status, told>>
     \/ /\ r.success /\ k = "request"
        /\ Return(a, k)
        /\ Tell(r.who, job[a][k].place)
  /\ UNCHANGED <<shardvars, posted, matched, minted, load, allocs, askvars>>

\* matchmaking.assigned reaches the owners of both tickets.
PublishAssigned(a) ==
  /\ job[a]["matched"].pc = "publish" /\ MutexFree(a)
  /\ Return(a, "matched")
  /\ Tell(job[a]["matched"].who, job[a]["matched"].place)
  /\ UNCHANGED <<shardvars, posted, matched, minted, load, allocs, replies, askvars>>

\* kAllocateTimeoutMs. An answer that comes later has no receiver.
TimeOut(a, k) ==
  /\ job[a][k].pc = "wait"
  /\ Fail(a, k)
  /\ replies' = {r \in replies : r.who # job[a][k].who}
  /\ UNCHANGED <<shardvars, posted, matched, minted, load, allocs, askvars>>

-----------------------------------------------------------------------------
(* The shards.                                                              *)

Awaited(W) == \E a \in Allocators, k \in Threads : job[a][k].pc = "wait" /\ job[a][k].who = W

Reply(W, success) ==
  replies' = IF Awaited(W) THEN replies \cup {[who |-> W, success |-> success]} ELSE replies

\* AllocateRoomHandler::doAllocate with SessionRegistry::createRoom.
DoAllocate(m) ==
  LET s == m.place.shard
      n == m.place.room
  IN
  /\ allocs' = allocs \ {m}
  /\ Reply(m.who, n \notin rooms[s])
  /\ IF n \in rooms[s] THEN UNCHANGED <<rooms, directory>>
     ELSE /\ rooms' = [rooms EXCEPT ![s] = @ \cup {n}]
          /\ directory' = [directory EXCEPT ![n] = s]
  /\ UNCHANGED <<doomed, guests, seat, vacated, restarted, status, told, posted,
                 matched, minted, load, job, askvars>>

\* EnterRoom on the shard the gateway chose: the one of the hint, or another
\* when that one is not known to be alive.
Enter(c, s) ==
  LET n == told[c].room IN
  /\ status[c] = "told" /\ seat[c] = Nowhere
  /\ n \in rooms[s]
  /\ guests' = guests \cup {<<s, n, c>>}
  /\ seat' = [seat EXCEPT ![c] = [shard |-> s, room |-> n]]
  /\ UNCHANGED <<rooms, doomed, directory, vacated, restarted, status, told, busvars, askvars>>

\* The name is free again, here and in the directory, whoever set it there.
Erase(s, n) ==
  /\ rooms' = [rooms EXCEPT ![s] = @ \ {n}]
  /\ directory' = [directory EXCEPT ![n] = NoShard]
  /\ doomed' = doomed \ {<<s, n>>}
  /\ guests' = {g \in guests : <<g[1], g[2]>> # <<s, n>>}
  /\ vacated' = vacated \cup {n}

\* SessionRegistry::leave. An empty room goes, at once or, when a worker is
\* in its tick, later.
Leave(c) ==
  LET s == seat[c].shard
      n == seat[c].room
      others == {g \in guests : g[1] = s /\ g[2] = n /\ g[3] # c}
  IN
  /\ seat[c] # Nowhere
  /\ seat' = [seat EXCEPT ![c] = Nowhere]
  /\ status' = [status EXCEPT ![c] = "left"]
  /\ \/ /\ n \in rooms[s] /\ others = {}
        /\ Erase(s, n)
     \/ /\ n \in rooms[s] /\ others = {}
        /\ doomed' = doomed \cup {<<s, n>>}
        /\ guests' = guests \ {<<s, n, c>>}
        /\ UNCHANGED <<rooms, directory, vacated>>
     \/ /\ n \notin rooms[s] \/ others # {}
        /\ guests' = guests \ {<<s, n, c>>}
        /\ UNCHANGED <<rooms, doomed, directory, vacated>>
  /\ UNCHANGED <<restarted, told, busvars, askvars>>

\* A deferred erase that leaves the directory as it is.
ReapHereOnly(s, n) ==
  /\ <<s, n>> \in doomed
  /\ rooms' = [rooms EXCEPT ![s] = @ \ {n}]
  /\ doomed' = doomed \ {<<s, n>>}
  /\ guests' = {g \in guests : <<g[1], g[2]>> # <<s, n>>}
  /\ vacated' = vacated \cup {n}
  /\ UNCHANGED <<directory, seat, restarted, status, told, busvars, askvars>>

\* SessionRegistry::reapIfSafe.
ReapIfSafe(s, n) ==
  /\ <<s, n>> \in doomed
  /\ Erase(s, n)
  /\ UNCHANGED <<seat, restarted, status, told, busvars, askvars>>

\* A shard dies and is started again: rooms, connections and the requests on
\* their way to it are gone, its entries in the directory are not.
Restart(s) ==
  LET here == {c \in Clients : seat[c].shard = s} IN
  /\ s \notin restarted /\ Cardinality(restarted) < MaxRestarts
  /\ restarted' = restarted \cup {s}
  /\ rooms' = [rooms EXCEPT ![s] = {}]
  /\ doomed' = {d \in doomed : d[1] # s}
  /\ guests' = {g \in guests : g[1] # s}
  /\ seat' = [c \in Clients |-> IF c \in here THEN Nowhere ELSE seat[c]]
  /\ status' = [c \in Clients |-> IF c \in here THEN "left" ELSE status[c]]
  /\ allocs' = {m \in allocs : m.place.shard # s}
  /\ UNCHANGED <<directory, vacated, told, posted, matched, minted, load, job, replies, askvars>>

-----------------------------------------------------------------------------
ClientStep ==
  \/ \E c \in Clients, n \in TypedNames : PostRooms(c, n)
  \/ \E c \in Clients, n \in RoomNames : PostJoin(c, n)
  \/ \E c, d \in Clients : Pair(c, d)
  \/ \E c \in Clients : GiveUp(c) \/ Leave(c)
  \/ \E c \in Clients, s \in Shards : Enter(c, s)

ThreadStep(a, k) ==
  \/ Ask(a, k) \/ TimeOut(a, k)
  \/ \E r \in replies : Answered(a, k, r)
  \/ k = "matched" /\ (PublishAssigned(a) \/ \E W \in matched : OnMatched(a, W))
  \/ k = "request" /\ \E q \in posted : OnRequest(a, q)

Next ==
  \/ ClientStep
  \/ \E a \in Allocators, s \in Shards, count \in 0 .. MaxLoad : OnHeartbeat(a, s, count)
  \/ \E a \in Allocators, k \in Threads : ThreadStep(a, k)
  \/ \E m \in allocs : DoAllocate(m)
  \/ \E s \in Shards, n \in RoomNames : ReapIfSafe(s, n)
  \/ \E s \in Shards : Restart(s)

\* The allocators' threads run, and a request times out in the end. Nothing
\* is assumed of shards, clients and heartbeats.
Fairness == \A a \in Allocators, k \in Threads : WF_vars(ThreadStep(a, k))

Spec == Init /\ [][Next]_vars /\ Fairness

-----------------------------------------------------------------------------
(* What is checked.                                                         *)

\* A room that was asked for once, by a user or for a match, lives on one
\* shard, and whoever looks it up is sent there: a request goes to one
\* allocator and from it to one shard, the number INCR gives is taken by
\* nobody else, and no other shard's erase takes the entry away.
LoneRoomListed ==
  \A n \in RoomNames \ askedTwice, s \in Shards : n \in rooms[s] => directory[n] = s

\* Whatever is asked for how often: an entry of the directory names a shard
\* that has the room, unless that shard has crashed. No order of creations,
\* closures and deferred closures on several shards leaves a dead entry.
ListedRoomIsOpen ==
  \A n \in RoomNames : directory[n] # NoShard =>
    n \in rooms[directory[n]] \/ directory[n] \in restarted

\* Nobody is told of a room that is not there: as long as no shard erased a
\* room of that name and the shard did not crash, the room a client was told
\* of is open on the shard it was told. The late answer of a request that
\* timed out, a lookup and a refusal of a second creation included.
ToldRoomIsOpen ==
  \A c \in Clients : told[c] # Nowhere =>
    \/ told[c].room \in rooms[told[c].shard]
    \/ told[c].room \in vacated
    \/ told[c].shard \in restarted

\* The allocator's two threads never block each other for good, though
\* NatsClient holds its mutex until a shard answers: every request and every
\* match that is taken up is finished.
InHand(c) ==
  \/ \E a \in Allocators, k \in Threads : c \in job[a][k].who
  \/ \E q \in posted : c \in q.who
  \/ \E W \in matched : c \in W

HandlersReturn == \A c \in Clients : []<>~InHand(c)

-----------------------------------------------------------------------------
(* What comments say and the code does not keep.                            *)

\* RedisSequence mints room names that are unique across every shard and do not
\* collide in the room directory: the room of a minted name is on one shard,
\* and the directory gives that shard.
MatchRoomListed ==
  \A n \in 1 .. minted, s \in Shards : n \in rooms[s] => directory[n] = s
=============================================================================

# Kung Fu Chess: TLA+ models and proofs

Kung Fu Chess is chess without turns. A server owns the board; players send
moves and jumps at any time, a move takes one second per square, and pieces that
meet on the way capture or block each other. Games live in rooms on server
shards; an allocator, a matchmaker and two gateways bring players to rooms.

This directory models the engine of one game, the rooms of one shard, the worker
pool, matchmaking and the allocation of rooms to shards. It model-checks them on
small instances and proves their invariants for every value of the constants;
the worker pool, matchmaking and the rooms are proved to implement abstract
specifications.
Source paths below are relative to `src/Kung_Fu_Chess/`.

## 1. Inventory

| Component | State | Operations | Hard behaviour | What makes it correct |
|---|---|---|---|---|
| Board, pieces, piece states (`shared/model`) | grid of pieces; color, kind, state of each | add, remove, move, `transitionTo` (an illegal transition is refused silently) | callers ignore the refusal | every piece on one cell or captured |
| Movement rules (`server/rules`) | none | `validateMove`, `validateJump`, `legalDestinations` | relaxed blocking: slides may be aimed through pieces | destinations as in chess, up to relaxation |
| Engine (`server/engine`, `server/realtime`) | active motions, cooldowns, premoves, captured pieces, game over | `requestMove`, `requestJump`, `wait` (one tick) | several motions end, meet or are cut in one tick; a motion may outlive its piece; premoves fire in hash order | pieces accounted for, nobody stranded, timestamps in step, one side survives a collision, a fallen King ends the game |
| Observers (`server/engine/*Observer`) | score, move log | called on captures and moves | called from a worker thread | each capture reported once |
| Rooms and sessions (`server/app/session`, `server/app/handlers`) | rooms by name, roles, reservations, countdown timers, results | allocate, login, join, enter, close, countdown, tick, publish | names are reused; workers and timers outlive rooms; cancel races expiry; two ways to end a game | the session outlives its worker, one result, seats settled, rooms removed only when empty |
| Tick loop and worker pool (`server/net/WsServer.cpp`, `server/concurrency`) | jobs, `tickInFlight_` | submit, compute, publish | worker against main thread | every submitted job runs; no second tick of a room in flight |
| History, ELO, state mirror, broadcasting (`server/app/logic`, `server/app/networking`, `shared/bus/EventBus`) | subscriptions per topic | attach, publish | subscriptions are never taken back | one reaction per game |
| Dispatch and tickets (`MessageDispatcher`, `CommandDispatcher`, `FindGameHandler`, `MatchTicketRegistry`) | tickets by connection | route, play, cancel | answers for a connection that is gone; commands against a worker's tick | a ticket is answered once |
| Matchmaking (`matchmaker`, `shared/matchmaking`) | waiting pool in Redis, pending assignments | request, cancel, timeout, assigned | replicas, timeout against match | a ticket has one opponent, is answered once, and is answered |
| Allocation, discovery (`allocator`, `shared/discovery`, `RedisRoomDirectory`) | shard loads, directory | heartbeat, allocate | dead shards, late and lost replies | a room on one shard; clients sent to rooms that exist |
| Gateways, NATS client (`gateway`, `shared/bus/NatsClient`) | relays, buffered messages | relay, request | messages before the backend is connected; a mutex held during a request | order kept, nothing lost |
| Client (`client`) | last snapshot, login flow | render, click, request | blocking requests against pushes | - |
| Codecs, databases, text tests | - | - | - | formatting and I/O |

Components call each other directly within the server process. `WsServer`'s
timer hands `GameSession::computeStep` to a worker, which posts `publishStep`
back to the main thread; `SessionRegistry` owns the sessions; the end of a game
is published on an in-process `EventBus`. Between processes there are NATS
messages, Redis and Postgres.

The hazards, each at the line where it bites, are listed in `PROJECT.json`.

## 2. Modules

| Module | Models | Extends |
|---|---|---|
| `Chess` | board, pieces, piece state machine | |
| `PieceRules` | the movement rules | `Chess` |
| `MotionPath` | motions, checkpoints, occupancy and meeting | `PieceRules` |
| `GameEngine` | requests, premoves, one tick; properties | `MotionPath` |
| `MCGameEngine` | positions and a bound on requests for TLC | `GameEngine` |
| `MotionPathProofs`, `GameEngineProofs` | lemmas and theorems | `MotionPath`, `GameEngine` |
| `MotionProofs` | theorems about the course of the motions | `GameEngineProofs` |
| `GameOutcome` | abstract: how a game is opened, decided and closed | |
| `GameRooms` | rooms, sessions, countdowns, tick loop; implements `GameOutcome` | |
| `MCGameRooms` | a bound on client requests and an order of handles for TLC | `GameRooms` |
| `GameRoomsProofs` | lemmas and theorems | `GameRooms` |
| `GameOutcomeProofs` | banners, the refinement | `GameRoomsProofs` |
| `JobQueue` | abstract: what a worker pool promises | |
| `ThreadPool` | the worker pool; implements `JobQueue` | |
| `MCThreadPool` | a bound on jobs for TLC | `ThreadPool` |
| `ThreadPoolProofs` | lemmas, invariants, the refinement | `ThreadPool` |
| `TicketService` | abstract: what happens to a ticket | |
| `Matchmaking` | tickets, Matchmaker replicas, the pool in Redis; implements `TicketService` | |
| `MCMatchmaking` | ratings and a bound on clients for TLC | `Matchmaking` |
| `MatchmakingProofs` | lemmas, invariants, the refinement | `Matchmaking` |
| `RoomAllocation` | API gateway, allocators, shards' registries and the directory, composed | |
| `MCRoomAllocation` | an order of clients for TLC | `RoomAllocation` |
| `RoomAllocationProofs` | lemmas and theorems | `RoomAllocation` |

### The engine

A piece is its id; the board is a function from cells to ids with `NoPiece` for
the `EmptyPiece` of a vacant cell. Piece state, kind, cooldown and premove are
functions of the piece. `active_motions` is a set of records whose order is
recovered from `start` and `ord`.

Times are relative to the game clock: each tick subtracts `TickMs` from every
timestamp, which keeps the state space finite without a bound on time. A rest
that is over is 0.

`StartMove` and `QueuePremove` are the two successful ends of `requestMove` (the
refused requests change nothing, except that an illegal move asked of a resting
piece drops its premove, which is part of `QueuePremove`); `RequestJump` is
`requestJump`. One call of `wait` is a succession of steps:

| Step | Code |
|---|---|
| `ResolveCollisions` | the clock, `CollisionResolver::resolveCollisions` |
| `ResolveMovingFriendlyBlocks` | the function of that name |
| `ResolveStationaryBlocks` | the function of that name; the loop that erases while it walks is the unique set of motions given up that is consistent with what each motion saw |
| `Arrive` | one call of `ArrivalResolver::resolve`, in vector order: `LandJump`, `Vanished`, `Repelled`, `StayPut` or `Land` |
| `FinishTick` | expired rests, `game_over`, the premoves that are ready |
| `FirePremove` | one iteration of `firePremoves`, in any order (an unordered map) |

The code looks a motion's piece up on the cell the motion came from, whoever
stands there by then; so do `HasPath`, `SameColor` and the steps that use them.
A captured piece may leave its motion behind; what that leads to is a finding.

Abstracted: the impact data of captures, the move log, scores (only how often a
capture is reported is counted), `snapshot()`. The engine is single-threaded, as
its own code and tests use it; see section 6.

### The rooms

A `GameSession` has an id of its own, because a room's name can be used again
while workers and timers still refer to the old room. Every handler on the
io_context is one step. A tick is three: `OnTick` (identities refreshed, job
submitted), `ComputeStep` (a worker; a King may fall), `PublishStep` (posted
back: `FinishGame`, `endTick`, `ReapIfSafe`). A countdown's timer is off, waiting
or expired; an expired one is queued and out of `cancel()`'s reach, which is what
asio documents. `Countdown` is the timer's handler and finds its room by name, as
the code does.

Of the engine only the winner is kept; both Kings falling in one tick is left
out. `connectionCount` is capped at 3, since only 1, 2 and "more" differ.
Between several handles in one seat `RoomIdentityResolver` keeps the last in map
order, here any of them. `GameOutcome` knows neither rooms nor timers: a game is
opened once, decided at most once and only while it is open, by whichever comes
first, a King's fall or a resignation, and it is not closed while the fall of a
King is still to be announced. Sessions are its games; a session is closed when
no room owns it any more. `reconnectStore_` and ELO numbers are left out; match
tickets are in `Matchmaking`.

### The worker pool

A critical section is one step; `notify_one` and `notify_all` come after the
unlock and are steps of their own. A waiting worker may wake up unasked. Jobs are
numbered as they are submitted. `JobQueue` knows neither threads nor locks: jobs
start in order, each once, and the pool is closed when all are finished. The
refinement mapping counts the jobs that have left the queue as started. This is
what `GameRooms` relies on when it assumes that submitted jobs run.

### Matchmaking

| Step | Code |
|---|---|
| `FindGame`, `OnClose` | `FindGameHandler::handle`, the ticket's part of `ConnectionHandler::onClose` |
| `Play` | POST `/play` of `ApiGateway` |
| `OwnerReceives` | `handleAssigned`, `handleTimeout` and the gateway's two subscribers |
| `OnRequest`, `HSet`, `ZAdd` | the `matchmaking.request` handler: `findMatch` (one Lua script), `addToPool`'s two commands |
| `PublishMatched`, `WatchForAssignment`, `WatchdogFires` | the matched pair, and the watchdog armed after it was published |
| `SearchTimeoutChecks`, `SearchTimeoutFires` | `isWaiting`, then `remove` and the publication |
| `OnCancel`, `OnAssigned` | the two fan-out subscribers of each replica |
| `Allocate`, `DropMatch` | what the allocator does with a match |

A subject has a delivery thread of its own, so messages of different subjects
overtake each other: what is under way is a set. `TicketService` says that a
ticket is issued once, has at most one opponent who has it in turn, and is settled
once, by a game (which needs an opponent), a refusal or the player's leaving.

Left out: usernames, loss of messages and crashes of Matchmaker replicas (nothing
in the code handles either: a ticket in a replica's memory is then lost), and
commands that Redis does not carry out. `RedisMatchPool` ignores the null reply of
a failed command: a ticket whose ZADD fails never enters the pool, and its search
timeout, which finds that it is not waiting, tells nobody. So
`NoTicketForgotten` and `EverySearchEnds` hold as long as Redis answers.

### Allocation of rooms

`RoomAllocation` composes the API gateway's `/rooms` and `/rooms/{name}/join`, the
allocator replicas, `AllocateRoomHandler` and `SessionRegistry` on the shards,
and the directory in Redis. An allocator has one thread for each of its two
subjects; `NatsClient::request` holds the client's mutex while it waits, and
`publish` takes it, which is the guard `MutexFree`. A request may time out while
it is still under way to the shard (`TimeOut`, later `DoAllocate`), the gateway or
the Matchmaker may give up earlier (`GiveUp`), and a shard may crash and come back
empty at its old address (`Restart`), whose directory entries stay. `Enter` lets a
client in at any shard that has the room, since `WsGateway` falls back to another
shard when the one of the hint has no recent heartbeat. Seats, games and ticks of
a room are in `GameRooms`; here a room is its name, its guests and the mark
`pendingRemoval`. The pair is given: `Pair` is the Matchmaker's publication.

Typed names are any set, and may contain the names the counter will mint: the
gateway refuses none. `asked` and `askedTwice` are history: the names a room was
asked for, by POST `/rooms` or by minting, once and more than once. A heartbeat
(`OnHeartbeat`) reports any number up to `MaxLoad` at any time. That is more than
the code does, on purpose: the shard's thread reads the registry without a lock,
and the message arrives when the number is already old.

## 3. Runs

All bounds are constants of the `.cfg` files.

| Run | Result | What it shows |
|---|---|---|
| `Engine` | pass | types, `PieceAccounting`, `NeverStranded`, `ArrivalMatchesPath`, `ArrivalsOnTime`, `PathReachesTarget`, `CollisionLeavesSurvivor`, and the liveness property `EventuallyFree` |
| `EngineGhost` | violation | `CollisionVictimsWereMoving`: a motion that outlived its piece gets a bystander captured |
| `EngineKing` | violation | `KingCaptureEndsGame`: a King repelled by a jump |
| `Rooms` | pass | types, `WorkerKeepsSession`, `OneResult`, `BannerHasCountdown`, `KingCaptureStands`, `GamesDecided` (implements `GameOutcome`), and the liveness properties `KingCaptureReported`, `SeatSettled`, `MarkedRoomGoes` |
| `RoomsReap` | violation | `RoomsGoWhenLeft`: a marked room is entered again and reaped |
| `RoomsReconnect` | violation | `OnlyHeldSeatsResign`: the expiry was queued when the player came back |
| `RoomsHistory` | violation | `OneRecordPerGame`: a reused name has two history subscribers |
| `Matchmaking` | pass | types, `InfoReadable`, `NoTicketForgotten`, `TicketsServed` (implements `TicketService`), `EverySearchEnds` |
| `MatchmakingRace` | violation | `MatchedTicketHasNoSearchTimeout`: a ticket is paired between `isWaiting` and `remove` |
| `ThreadPool` | pass | types, `WorkConserving`, `JobsServed` (implements `JobQueue`), `EveryJobRuns`, `DestructorReturns` |
| `RoomAllocation` | pass | types, `LoneRoomListed`, `ListedRoomIsOpen`, `ToldRoomIsOpen`, and the liveness property `HandlersReturn` |
| `RoomAllocationNames` | violation | `MatchRoomListed`: a user types the name a match gets |

`RoomsGoWhenLeft` and `OnlyHeldSeatsResign` each forbid two things the code does;
TLC stops at the nearer one. The other one of `RoomsGoWhenLeft` is a connection of
a reaped room that closes and takes the next room of that name along, which nobody
has entered yet (`SessionRegistry.cpp:97`). The other one of `OnlyHeldSeatsResign`
is a countdown that outlived its room and resigns the next game of that name
(`SessionRegistry.cpp:162`).

Engine bounds: a 3x3 board with three pieces and three requests that take effect,
at any times. One square takes two ticks, a jump two,
the long rest two and the short rest one, which is the ratio of the code's
1000/1000/1000/500 ms for a tick of 500 ms. Positions: two crossing Rooks and an
enemy King; a Pawn before promotion and a Knight against a Queen. Three pieces are
the fewest with which a motion can be blocked by a friend and meet an enemy, or
lose its piece and find another on its source. With
a unit four times as fine and the colors Black, White, Black a ghost motion's cut
can also put a moving piece into `LongRest`; the 500 ms unit does not reach that,
and `NeverStranded`, which is proved for every unit, allows for it. In the same way
a 3x3 board is too small for the extreme of `ArrivalsOnTime`, a motion that is cut
almost two squares before the running tick; the run shows that no motion outlives
its tick, the theorem bounds the cuts on every board.

Rooms bounds: one name, so that a second room must reuse it; two sessions; three
handles of one user (two users for the history), so that one player can stay and
another leave and come back; a grace period of one second after the immediate
first expiry; five client requests: a room is created, two players enter, both
leave, or one leaves and comes back with a third handle (six for the history: the
room is created, left and created again, and both players enter; and for
`RoomsReap`). Handles are interchangeable, so `MCGameRooms` has them first used in
their order; TLC's symmetry sets would not be sound for the liveness properties.
Ticks, workers and timers are not bounded. Deadlock is not checked for the rooms: a
shard without rooms or clients has nothing to do. The same holds for the modules
below.

Matchmaking bounds: three tickets and three client steps, so that a connection can
search twice, or search and close; ratings such that one client is in range of
two who are out of range of each other; two replicas, the fewest that can race.

Worker pool bounds: three workers and four jobs, more jobs than workers, with the
destructor at any moment.

Allocation bounds: three clients, who come in their order, two shards, one
allocator with its two threads, one crash, one match, and two typed names: one
that nobody mints and the one the match gets. `MaxLoad` is 0: all shards that have
reported are then tied and any of them may be chosen, which includes every choice
that other loads would lead to. The safety properties are proved for every number of allocators and every load.
`RoomAllocationNames` has the minted name only, and no crash.

Fairness. Engine: ticks keep coming, since the server's timer re-arms itself
(`WsServer.cpp:143`); no player has to move. Rooms: each worker job and each
posted publication is run, each armed timer expires and its handler runs. Nothing
is assumed of the clients, and not even that further ticks start. Worker pool: a
thread that can run does (sleepers are woken by notifications only), and the owner
completes what it has begun. Matchmaking: the processes do not all stop while a
message, a thread or a timer of theirs is due. Allocation: the allocators' threads
run and a blocking request ends at the latest with its timeout; nothing is assumed
of shards, heartbeats and clients.

## 4. Theorems

`GameEngineProofs` proves, for every board size, set of pieces, position, mode
and timing that satisfy the named assumptions of the modules:

- `TypeCorrect`, `PiecesAccounted`, `NobodyStranded`, `ArrivalsTimed`: the
  invariants of the run `Engine`;
- `SurvivorLeft`: `CollisionLeavesSurvivor`;
- `Invariance`: the inductive invariant `IInv` they rest on.

`IInv` is `TypeOK`, finiteness of the set of motions, `PieceAccounting`,
`NeverStranded` and `Timed(m)` for every motion. None of these is inductive
alone. `PieceAccounting` needs the types (a motion's cut stays on the board,
`CheckpointOnPath`). `NeverStranded` needs `Timed`: a cut must not turn a slide
into something that looks like a jump, and a rest that starts must still be
pending. Both need the accounting: two pieces on a cell, or one on two, would
let a step move the wrong one. `Timed` says of each motion that its arrival is
its start plus `JumpMs` for a jump and plus `CalcTravelTime(from, to)` for a
move; `EndAtMotion` shows that a cut preserves this. Finiteness is needed
for `SurvivorLeft` (a finite set has an unbeaten motion, `SomeoneUnbeaten`, as
`Beats`, older first and then by piece id, is a strict order) and for
`GivenUpExists`: the CHOOSE of `ResolveStationaryBlocks` denotes something,
which is a well-founded recursion over the vector's order.

There is one lemma per action (`StartMoveStep`, `ResolveCollisionsStep`,
`ArriveStep`, ...), combined in `NextIInv`.

`MotionProofs` adds, for the same constants:

- `PathsReachTargets` (`PathReachesTarget`): the cells the collision rules walk
  end on the cell where the arrival is resolved;
- `ArrivalsPunctual` (`ArrivalsOnTime`): no motion outlives the tick in which it is
  due, and a cut sets an arrival back by less than two squares' travel;
- `ArrivalsOrdered`: whenever motions are due, exactly one of them is resolved
  next, so `Arrive` never lacks a candidate and never has two;
- `CourseInvariance`: the inductive invariant `SInv` they rest on.

`SInv` is preserved together with `IInv`. That a path ends on its target is not
inductive: a cut says nothing about the old target. What is, is that source and
target lie on one rank, file or diagonal, or the piece is a Knight (`CourseOK`).
`ValidInLine` gets this from the movement rules, `CutInLine` for a cut of any
motion, `InLineReaches` draws the conclusion; promotion makes no Knight of a piece
and none of a Knight. `Floor` bounds the due times phase by phase: above 0 between
ticks, above `-TickMs` when the clock has advanced, and less than two squares lower
once `resolveMovingFriendlyBlocks` may have stopped a motion one checkpoint short
of a meeting whose cell it has entered a square's travel before
(`CutBeforeMeeting`); obstacles only count in the tick in which they are reached,
so `resolveStationaryBlocks` takes at most one square. `VectorOrdered` says that
`start` and `ord` tell any two motions apart; the part about the motions begun
since the last tick, whose places are below their number, is what makes it
inductive.

`GameRoomsProofs` proves, for any number of names, connections, users, sessions
and seconds of grace:

- `RoomsTypeCorrect`, `SessionsOutliveWorkers`, `AtMostOneResult`: the invariants
  `TypeOK`, `WorkerKeepsSession` and `OneResult` of the run `Rooms`;
- `KingCapturePrevails`: its action property `KingCaptureStands`;
- `RoomsInvariance`: the inductive invariant `RInv` they rest on.

`RInv` adds `RoomsNamed` to the three: a room's session was created before and
knows the room by its name. Without it `publishStep`, which looks its room up by
the name its session remembers, could publish on and reap somebody else's room.
Every step but `AllocateRoom` leaves each room its session and takes rooms away
only when their tick is idle (`RoomsShrink`); `ShrinkKeepsSessions` draws the
conclusion once for all of them. `PublishedOnce` is the argument for `OneResult`:
both ways to end a game ask for an empty list of results first. That a
resignation also asks for `game_over` is what `KingCapturePrevails` needs.

`GameOutcomeProofs` proves for the same constants:

- `BannersCount` (`BannerHasCountdown`): a banner always has a running countdown;
- `RoomsImplementOutcome` (`GamesDecided`): the refinement of `GameOutcome`;
- `OutcomeInvariance`: the inductive invariant `OInv` they rest on.

`OInv` is a second layer over `RInv`. `CaptureComputed` (a capture not announced
yet has its `publishStep` posted) makes a room with such a capture one that
`leave()` and `reapIfSafe` keep, which is the last clause of `GameOutcome`.
`Unborn` (nothing happened to a session that was not created) makes every creation
an opening. `TimersTied` (timers run for closed handles; the handle a room
remembers for a seat was started in that room) is what `BannerHasCountdown` lacks
to be inductive: without it, cancelling one seat's countdown could stop the timer
that another room's banner stands for.
Handles are never reused, so a closed handle starts no second countdown.

`ThreadPoolProofs` proves, for any number of workers and jobs: `PoolTypeCorrect`;
`PoolIsWorkConserving`, that no wake-up is lost; and `PoolImplementsQueue`, the
refinement of `JobQueue`. The invariant adds that the queue holds the jobs
submitted last, in order, that running jobs are distinct and neither queued nor
finished, that everything that left the queue runs or is finished, and that
workers return only when the pool is stopping and its queue is empty.

`MatchmakingProofs` proves, for any number of tickets, clients, replicas and
ratings: `MatchmakingTypeCorrect`, `InfoAlwaysReadable`, `NoTicketIsForgotten` and
`MatchmakingImplementsTickets`, the refinement of `TicketService`. The invariant
says where a ticket can be: requested, in one replica's handler, or in the pool,
never two of these, and none of them once it is paired; an announced, watched or
assigned pair is a pair findMatch made. `InfoReadable` needs that a ticket in the
second half of `addToPool` has its hash unless its player left.

`RoomAllocationProofs` proves, for any number of shards, clients, allocators,
matches and crashes and any set of typed names, minted ones included:
`AllocationTypeCorrect`, `LoneRoomsAreListed`, `ListedRoomsAreOpen` and
`ToldRoomsAreOpen`. The invariant `AInv` follows a request through its life: it
is in one queue, or in one handler's hands (`RequestsApart`), on its way to one
shard at most once (`AllocsApart`), and its answer comes when it has arrived and
somebody waits for it (`RepliesAwaited`). That is why a late answer is not taken
for that of another request, so a consent means that the room is there
(`AnswersOpen`). `AskedOnce` says that a name asked for once which is not open yet
is in one request only, and `Unused` that a name nobody asked for is in none;
hence no two shards have such a room, and nobody else's erase removes its entry
(`EraseKeeps`). Nothing is assumed about the names: for one that was asked for
twice, `ListedRoomsAreOpen` is what is left, and the run `RoomAllocationNames` shows
what is not.

Only model-checked: liveness under fairness (`EventuallyFree`,
`KingCaptureReported`, `SeatSettled`, `MarkedRoomGoes`, `EveryJobRuns`,
`DestructorReturns`, `EverySearchEnds`, `HandlersReturn`), which the provers do
not cover. Every invariant and every safety property of the passing runs is the
statement of a theorem.

## 5. Findings

Seven runs are expected to fail; `PROJECT.json` quotes the line each contradicts.
Besides these, reading the code against the models showed:

- a capture of the `EmptyPiece` on a ghost's vacated source is reported to
  `CaptureEventObserver`, whose codec has no name for the kind `None` and throws on
  the worker (`CaptureEventCodec.cpp:36`);
- `requestJump` accepts a resting piece, whose rest runs out during the jump;
  `requestMove`, which asks for the state only, then gives the piece a second
  motion (`GameEngine.cpp:58`);
- two POST `/rooms` of one typed name may make a room on each of two shards; the
  first to be erased takes the directory entry of both (`RedisRoomDirectory.cpp:32`),
  and the other room cannot be found any more;
- the directory entries of a crashed shard are never deleted: `/rooms/{name}/join`
  goes on answering "room found" (`ApiGateway.cpp:395`). A crash is the only way to
  such an entry, which is what `ListedRoomIsOpen` says;
- a match that timed out in the allocator may still be made on the shard, and stays
  there: nobody is told of it, nobody leaves it, so nothing erases it
  (`allocator_main.cpp:115`);
- in the API gateway, POST `/play` publishes on the io thread and waits for the
  mutex that a POST `/rooms` holds on its own thread (`NatsClient.cpp:99`);
- a client that closes before its upstream connection is open leaves that
  connection behind (`WsGateway.cpp:159`).

## 6. Not modelled, and the plan

Not modelled: rendering and input of the client, codecs, databases, process
wiring, text tests (formatting and I/O without protocol state); `Matchmaker`, the
in-memory pool no process uses any more; the WebSocket gateway's relay and the
login relay, which forward messages in order; `ShardRegistry`'s clock, which
`RoomAllocation` replaces by a free choice.

Plan, in this order:

1. Commands against a tick in progress: `MessageDispatcher` calls the engine on
   the main thread while a worker is in `wait()`; the engine's steps are already
   separate actions, so the guard on `phase` is what changes.
2. Broadcasting and the state mirror of a re-created room; both Kings in one tick.
3. The WebSocket gateway: buffering before the backend is connected, closing.
4. Client: message handler, blocking requests.

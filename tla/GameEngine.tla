----------------------------- MODULE GameEngine -----------------------------
(***************************************************************************)
(* One game: GameEngine with the RealTimeArbiter, CollisionResolver,       *)
(* ArrivalResolver and ScoreObserver it drives (server/engine,             *)
(* server/realtime, server/observers).                                     *)
(*                                                                         *)
(* requestMove and requestJump are single steps. GameEngine::wait, one     *)
(* tick, is a fixed succession of steps, one per function or loop          *)
(* iteration it calls; phase says which one is next:                       *)
(*                                                                         *)
(*   ready -> friendly -> stationary -> arrivals -> (premoves) -> ready    *)
(*                                                                         *)
(* The engine is single-threaded as its own code and tests use it:         *)
(* requests are only taken when no tick is under way.                      *)
(***************************************************************************)
EXTENDS MotionPath

CONSTANTS
  ShortRestMs,   \* RestDurations::SHORT_REST_MS
  LongRestMs,    \* RestDurations::LONG_REST_MS
  JumpMs,        \* RestDurations::JUMP_DURATION_MS
  Setups,        \* the starting positions: records of a board and the kinds
  Modes          \* the values simultaneousMode is constructed with

ASSUME EngineAssumption ==
  /\ ShortRestMs \in Nat \ {0}
  /\ LongRestMs \in Nat \ {0}
  /\ JumpMs \in Nat \ {0}
  /\ Modes \subseteq BOOLEAN
  /\ Setups \subseteq [board : Boards, kind : [Pieces -> Kinds]]
  /\ \A s \in Setups :
       /\ \A p \in Pieces : OnBoard(s.board, p)
       /\ \A c, d \in Cells : s.board[c] = s.board[d] => c = d \/ s.board[c] = NoPiece

VARIABLES
  simultaneousMode,  \* also the arbiter's collisionEnabled
  board,             \* the grid
  kind,              \* piece -> kind: a Pawn may be promoted
  pstate,            \* piece -> state
  motions,           \* active_motions
  cooldown,          \* cooldown_until_ms, relative; 0 when absent or over
  captures,          \* how often each piece was put in captured_pieces and
                     \* reported to the observers (counted up to MaxReports);
                     \* at NoPiece: how often a vacant cell's EmptyPiece was
  kingCaptured,      \* the tick's king_captured
  gameOver,          \* state.game_over
  premoves,          \* piece -> <<from, to>>, or NoPremove
  readyIds,          \* firePremoves' readyPieceIds still to be fired
  phase              \* what the engine does next

vars == <<simultaneousMode, board, kind, pstate, motions, cooldown, captures,
          kingCaptured, gameOver, premoves, readyIds, phase>>

NoPremove == <<>>
MaxReports == 2      \* "once" and "more than once" is all that is told apart
Phases == {"ready", "friendly", "stationary", "arrivals", "premoves"}

TypeOK ==
  /\ simultaneousMode \in BOOLEAN
  /\ board \in Boards
  /\ kind \in [Pieces -> Kinds]
  /\ pstate \in [Pieces -> States]
  /\ motions \subseteq Motion
  /\ cooldown \in [Pieces -> Int]
  /\ captures \in [Pieces \cup {NoPiece} -> 0 .. MaxReports]
  /\ kingCaptured \in BOOLEAN
  /\ gameOver \in BOOLEAN
  /\ premoves \in [Pieces -> {NoPremove} \cup (Cells \X Cells)]
  /\ readyIds \subseteq Pieces
  /\ phase \in Phases

-----------------------------------------------------------------------------
(* What the steps share.                                                   *)

StateAt(cell) == IF board[cell] = NoPiece THEN "Idle" ELSE pstate[board[cell]]

\* Every piece standing on one of the cells is asked to change to state t.
AllTransitionTo(cells, t) ==
  [p \in Pieces |-> IF \E cell \in cells : board[cell] = p
                      THEN TransitionTo(pstate[p], t) ELSE pstate[p]]

Reported(S) ==
  [p \in Pieces \cup {NoPiece} |->
     IF p \in S /\ captures[p] < MaxReports THEN captures[p] + 1 ELSE captures[p]]

\* A motion the collision rules look at: it has a path, and no Knight stands
\* on its source. The code asks the source cell, whoever stands there by now.
HasPath(m) == ~IsJump(m) /\ KindAt(board, kind, m.from) # "Knight"

SameColor(m, n) == ColorAt(board, m.from) = ColorAt(board, n.from)

IsPieceBusy(p) == \E m \in motions : m.piece = p

IsPieceSliding(p, ms) == \E m \in ms : m.piece = p /\ ~IsJump(m)

Least(S) == CHOOSE k \in S : \A j \in S : k <= j

-----------------------------------------------------------------------------
(* Requests. A rejected request changes nothing and is not a step.         *)

\* CollisionResolver::applyNearMiss: the checkpoints of the new motion m that
\* a friendly motion under way reaches no later than m would.
NearMisses(m) ==
  { i \in 1 .. Steps(m) :
      /\ HasPath(m)
      /\ \E n \in motions :
           /\ HasPath(n) /\ SameColor(m, n)
           /\ \E j \in 1 .. Steps(n) :
                Checkpoint(m, i) = Checkpoint(n, j) /\ Enter(m, i) >= Enter(n, j) }

NewMotion(from, to, duration) ==
  [from |-> from, to |-> to, start |-> 0, arrival |-> duration, piece |-> board[from],
   ord |-> Cardinality({m \in motions : m.start = 0})]

\* RealTimeArbiter::addMotion: cut the motion before the first near miss, give
\* up if that is its first step.
AddMotion(from, to) ==
  LET m    == NewMotion(from, to, CalcTravelTime(from, to))
      near == IF simultaneousMode THEN NearMisses(m) ELSE {}
  IN  /\ 1 \notin near
      /\ motions' = motions \cup {IF near = {} THEN m ELSE EndAt(m, Least(near) - 1)}
      /\ pstate' = AllTransitionTo({from}, "Moving")

AddMotionFails(from, to) ==
  /\ simultaneousMode
  /\ 1 \in NearMisses(NewMotion(from, to, CalcTravelTime(from, to)))

\* GameEngine::hasMotionOnPath, the only restriction without simultaneousMode.
HasMotionOnPath(from, to) ==
  \E m \in motions : m.from = from \/ (~IsJump(m) /\ m.to = to)

StartMove(from, to) ==
  /\ phase = "ready" /\ ~gameOver
  /\ IF simultaneousMode
       THEN ~IsBusyState(StateAt(from)) /\ ~IsRestingState(StateAt(from))
       ELSE ~HasMotionOnPath(from, to)
  /\ ValidateMove(board, kind, from, to, simultaneousMode)
  /\ AddMotion(from, to)
  /\ UNCHANGED <<simultaneousMode, board, kind, cooldown, captures, kingCaptured,
                 gameOver, premoves, readyIds, phase>>

\* A move asked of a resting piece is queued; an illegal one cancels the queue.
QueuePremove(from, to) ==
  /\ phase = "ready" /\ ~gameOver
  /\ simultaneousMode /\ IsRestingState(StateAt(from))
  /\ premoves' = [premoves EXCEPT ![board[from]] =
       IF ValidateMove(board, kind, from, to, simultaneousMode)
         THEN <<from, to>> ELSE NoPremove]
  /\ UNCHANGED <<simultaneousMode, board, kind, pstate, motions, cooldown, captures,
                 kingCaptured, gameOver, readyIds, phase>>

RequestJump(pos) ==
  /\ phase = "ready" /\ ~gameOver
  /\ ValidateJump(board, pos)
  /\ ~IsPieceBusy(board[pos])
  /\ motions' = motions \cup {NewMotion(pos, pos, JumpMs)}
  /\ pstate' = AllTransitionTo({pos}, "Jump")
  /\ UNCHANGED <<simultaneousMode, board, kind, cooldown, captures, kingCaptured,
                 gameOver, premoves, readyIds, phase>>

-----------------------------------------------------------------------------
(* One tick.                                                               *)

\* The motions of ms that lose a collision with a motion of the other color.
\* A source cell vacated meanwhile counts as a color of its own, None.
Losers(ms) ==
  { m \in ms :
      /\ HasPath(m)
      /\ \E n \in ms :
           /\ HasPath(n) /\ ~SameColor(m, n) /\ Beats(n, m)
           /\ \E i \in 1 .. Steps(m), j \in 1 .. Steps(n) : Meet(m, i, n, j) }

\* The clock advances, then CollisionResolver::resolveCollisions.
ResolveCollisions ==
  /\ phase = "ready"
  /\ LET ms   == {Aged(m) : m \in motions}
         lost == IF simultaneousMode THEN Losers(ms) ELSE {}
         hit  == {m.from : m \in lost}
         void == {m \in lost : \/ IsCellEmpty(board, m.from)
                               \/ \E n \in lost : n # m /\ n.from = m.from}
     IN  /\ board' = RemovePieces(board, hit)
         /\ pstate' = AllTransitionTo(hit, "Captured")
         /\ captures' = Reported({board[cell] : cell \in hit}
                                   \cup IF void = {} THEN {} ELSE {NoPiece})
         /\ kingCaptured' = \E cell \in hit : KindAt(board, kind, cell) = "King"
         /\ motions' = ms \ lost
  /\ cooldown' = [p \in Pieces |-> cooldown[p] - TickMs]
  /\ phase' = IF simultaneousMode THEN "friendly" ELSE "arrivals"
  /\ UNCHANGED <<simultaneousMode, kind, gameOver, premoves, readyIds>>

\* The checkpoints of m at which an earlier motion of its own color is met.
FriendlyMeetings(m) ==
  { i \in 1 .. Steps(m) :
      /\ HasPath(m)
      /\ \E n \in motions :
           /\ HasPath(n) /\ SameColor(m, n) /\ Beats(n, m)
           /\ \E j \in 1 .. Steps(n) : Meet(m, i, n, j) }

\* CollisionResolver::resolveMovingFriendlyBlocks: stop one checkpoint short of
\* the first meeting; with no checkpoint left, give the move up and rest.
ResolveMovingFriendlyBlocks ==
  /\ phase = "friendly"
  /\ LET free      == {m \in motions : FriendlyMeetings(m) = {}}
         cancelled == {m \in motions : 1 \in FriendlyMeetings(m)}
     IN  /\ motions' = free \cup {EndAt(m, Least(FriendlyMeetings(m)) - 1) :
                                    m \in (motions \ free) \ cancelled}
         /\ pstate' = AllTransitionTo({m.from : m \in cancelled}, "LongRest")
         /\ cooldown' = [p \in Pieces |-> IF \E m \in cancelled : m.piece = p
                                            THEN LongRestMs ELSE cooldown[p]]
  /\ phase' = "stationary"
  /\ UNCHANGED <<simultaneousMode, board, kind, captures, kingCaptured, gameOver,
                 premoves, readyIds>>

\* The checkpoints short of its destination that m reached in this tick and
\* found taken by a piece none of the motions ms carries away.
Obstacles(m, ms) ==
  { i \in 1 .. Steps(m) :
      /\ HasPath(m)
      /\ Enter(m, i) > -TickMs /\ Enter(m, i) <= 0
      /\ Checkpoint(m, i) # m.to
      /\ ~IsCellEmpty(board, Checkpoint(m, i))
      /\ ~IsPieceSliding(board[Checkpoint(m, i)], ms) }

\* The obstacle is a friend that does not defend its cell by a jump.
StopsShortOf(m, i) ==
  /\ ColorAt(board, Checkpoint(m, i)) = ColorAt(board, m.from)
  /\ StateAt(Checkpoint(m, i)) \notin {"Jump", "ShortRest"}

GivesUp(m, ms) == 1 \in Obstacles(m, ms) /\ StopsShortOf(m, 1)

Redirected(m, ms) ==
  LET i == Least(Obstacles(m, ms))
  IN  IF Obstacles(m, ms) = {} THEN m
      ELSE EndAt(m, IF StopsShortOf(m, i) THEN i - 1 ELSE i)

\* CollisionResolver::resolveStationaryBlocks, which walks the vector and
\* erases as it goes: a motion given up no longer carries its piece away when
\* the motions after it are looked at.
ResolveStationaryBlocks ==
  /\ phase = "stationary"
  /\ LET left(m, C) == motions \ {n \in C : Before(n, m)}
         cancelled  == CHOOSE C \in SUBSET motions :
                         C = {m \in motions : GivesUp(m, left(m, C))}
     IN  /\ motions' = {Redirected(m, left(m, cancelled)) : m \in motions \ cancelled}
         /\ pstate' = AllTransitionTo({m.from : m \in cancelled}, "LongRest")
         /\ cooldown' = [p \in Pieces |-> IF \E m \in cancelled : m.piece = p
                                            THEN LongRestMs ELSE cooldown[p]]
  /\ phase' = "arrivals"
  /\ UNCHANGED <<simultaneousMode, board, kind, captures, kingCaptured, gameOver,
                 premoves, readyIds>>

-----------------------------------------------------------------------------
(* ArrivalResolver::resolve, once for every motion due, in vector order.   *)

\* A tick too late.
DueLate(m) == m.arrival < 0

Due(m) == m.arrival <= 0

DefendsCell(cell) == StateAt(cell) \in {"Jump", "ShortRest"}

BlockedByFriendly(m) ==
  /\ simultaneousMode
  /\ ColorAt(board, m.to) = ColorAt(board, m.from)
  /\ KindAt(board, kind, m.from) # "Knight"

LandJump(m) ==
  /\ IsJump(m)
  /\ pstate' = IF board[m.from] = m.piece
                 THEN AllTransitionTo({m.from}, "ShortRest") ELSE pstate
  /\ UNCHANGED <<board, kind, captures, kingCaptured>>

\* The piece that set out is not on the source any more.
Vanished(m) ==
  /\ ~IsJump(m) /\ board[m.from] # m.piece
  /\ UNCHANGED <<board, kind, pstate, captures, kingCaptured>>

\* Whoever arrives at a cell defended by a jump is captured, friend or foe.
Repelled(m) ==
  /\ ~IsJump(m) /\ board[m.from] = m.piece
  /\ DefendsCell(m.to)
  /\ pstate' = AllTransitionTo({m.from}, "Captured")
  /\ captures' = Reported({m.piece})
  /\ board' = RemovePieces(board, {m.from})
  /\ UNCHANGED <<kind, kingCaptured>>

\* A piece that stays where it was and is not told to rest.
StayPutUnrested(m) ==
  /\ ~IsJump(m) /\ board[m.from] = m.piece
  /\ ~DefendsCell(m.to) /\ BlockedByFriendly(m)
  /\ UNCHANGED <<board, kind, pstate, captures, kingCaptured>>

StayPut(m) ==
  /\ ~IsJump(m) /\ board[m.from] = m.piece
  /\ ~DefendsCell(m.to) /\ BlockedByFriendly(m)
  /\ pstate' = AllTransitionTo({m.from}, "LongRest")
  /\ UNCHANGED <<board, kind, captures, kingCaptured>>

PromotionRow(c) == IF c = "White" THEN 0 ELSE Height - 1

Land(m) ==
  /\ ~IsJump(m) /\ board[m.from] = m.piece
  /\ ~DefendsCell(m.to) /\ ~BlockedByFriendly(m)
  /\ kingCaptured' = (kingCaptured \/ KindAt(board, kind, m.to) = "King")
  /\ captures' = Reported({board[m.to]} \ {NoPiece})
  /\ pstate' = [p \in Pieces |->
       CASE p = m.piece     -> TransitionTo(pstate[p], "LongRest")
         [] p = board[m.to] -> "Captured"
         [] OTHER           -> pstate[p]]
  /\ board' = MovePiece(board, m.from, m.to)
  /\ kind' = IF kind[m.piece] = "Pawn" /\ m.to[1] = PromotionRow(Color[m.piece])
               THEN [kind EXCEPT ![m.piece] = "Queen"] ELSE kind

Arrive ==
  /\ phase = "arrivals"
  /\ \E m \in motions :
       /\ Due(m)
       /\ \A n \in motions : Due(n) /\ n # m => Before(m, n)
       /\ motions' = motions \ {m}
       /\ cooldown' = [cooldown EXCEPT ![m.piece] =
                         IF IsJump(m) THEN ShortRestMs ELSE LongRestMs]
       /\ LandJump(m) \/ Vanished(m) \/ Repelled(m) \/ StayPut(m) \/ Land(m)
  /\ UNCHANGED <<simultaneousMode, gameOver, premoves, readyIds, phase>>

\* The rest of tick: rests that ran out make their pieces Idle. Then wait()
\* notes the end of the game and firePremoves picks the pieces it will fire.
FinishTick ==
  /\ phase = "arrivals"
  /\ \A m \in motions : ~Due(m)
  /\ pstate' = [p \in Pieces |->
       IF cooldown[p] > -TickMs /\ cooldown[p] <= 0 /\ OnBoard(board, p)
         THEN TransitionTo(pstate[p], "Idle") ELSE pstate[p]]
  /\ cooldown' = [p \in Pieces |-> Max2(cooldown[p], 0)]
  /\ gameOver' = (gameOver \/ kingCaptured)
  /\ kingCaptured' = FALSE
  /\ readyIds' = {p \in Pieces : /\ premoves[p] # NoPremove
                                 /\ OnBoard(board, p) /\ pstate'[p] = "Idle"}
  /\ phase' = IF readyIds' = {} THEN "ready" ELSE "premoves"
  /\ UNCHANGED <<simultaneousMode, board, kind, motions, captures, premoves>>

\* One iteration of firePremoves' loop, in any order: the map is unordered.
FirePremove ==
  /\ phase = "premoves"
  /\ \E p \in readyIds :
       LET from == premoves[p][1]
           to   == premoves[p][2]
       IN  /\ premoves' = [premoves EXCEPT ![p] = NoPremove]
           /\ readyIds' = readyIds \ {p}
           /\ \/ ValidateMove(board, kind, from, to, simultaneousMode) /\ AddMotion(from, to)
              \/ /\ \/ ~ValidateMove(board, kind, from, to, simultaneousMode)
                    \/ AddMotionFails(from, to)
                 /\ UNCHANGED <<motions, pstate>>
  /\ phase' = IF readyIds' = {} THEN "ready" ELSE "premoves"
  /\ UNCHANGED <<simultaneousMode, board, kind, cooldown, captures, kingCaptured, gameOver>>

-----------------------------------------------------------------------------
Init ==
  /\ simultaneousMode \in Modes
  /\ \E s \in Setups : board = s.board /\ kind = s.kind
  /\ pstate = [p \in Pieces |-> "Idle"]
  /\ motions = {}
  /\ cooldown = [p \in Pieces |-> 0]
  /\ captures = [p \in Pieces \cup {NoPiece} |-> 0]
  /\ kingCaptured = FALSE
  /\ gameOver = FALSE
  /\ premoves = [p \in Pieces |-> NoPremove]
  /\ readyIds = {}
  /\ phase = "ready"

Tick ==
  \/ ResolveCollisions
  \/ ResolveMovingFriendlyBlocks
  \/ ResolveStationaryBlocks
  \/ Arrive
  \/ FinishTick
  \/ FirePremove

Request ==
  \/ \E from, to \in Cells : StartMove(from, to)
  \/ \E from, to \in Cells : QueuePremove(from, to)
  \/ \E pos \in Cells : RequestJump(pos)

Next == Tick \/ Request

\* The server's timer fires for as long as the room exists; nobody has to move.
Spec == Init /\ [][Next]_vars /\ WF_vars(Tick)

-----------------------------------------------------------------------------
(* Properties.                                                             *)

\* Pieces are neither lost nor duplicated: each stands on exactly one cell
\* until it is captured, is then off the board for good, and its capture has
\* been put in captured_pieces and reported to the observers exactly once (so
\* ScoreObserver counts it once) - although captures are decided on the cell a
\* motion came from and a piece may meet several motions in one tick.
PieceAccounting ==
  /\ \A c, d \in Cells : board[c] = board[d] => c = d \/ board[c] = NoPiece
  /\ \A p \in Pieces :
       \/ OnBoard(board, p) /\ pstate[p] # "Captured" /\ captures[p] = 0
       \/ ~OnBoard(board, p) /\ pstate[p] = "Captured" /\ captures[p] = 1

\* No piece is left in a state nothing will take it out of, whatever was cut
\* short, cancelled or captured around it: a Moving piece has a slide under way
\* from the very cell it stands on, and a resting piece a rest that has yet to
\* run out, or such a motion (whose end starts a new rest).
RestPending(p) == cooldown[p] > IF phase \in {"ready", "premoves"} THEN 0 ELSE -TickMs

NeverStranded ==
  \A p \in Pieces :
    /\ pstate[p] = "Moving" =>
         \E m \in motions : m.piece = p /\ ~IsJump(m) /\ board[m.from] = p
    /\ IsRestingState(pstate[p]) =>
         RestPending(p) \/ \E m \in motions : m.piece = p /\ board[m.from] = p

\* However often a motion was cut short, the time it still takes is the time
\* calcTravelTime gives for the cells it still covers (or a jump's duration):
\* clients draw a piece from these two timestamps.
ArrivalMatchesPath ==
  \A m \in motions :
    m.arrival - m.start = IF IsJump(m) THEN JumpMs ELSE CalcTravelTime(m.from, m.to)

\* No motion outlives the tick in which it is due, and however often the blocks
\* of one tick cut a motion short, the arrival they rewrite lies less than two
\* squares' travel before that tick: a piece drawn on its way is set back by no
\* more than that.
ArrivalsOnTime ==
  \A m \in motions :
    m.arrival > IF phase \in {"ready", "premoves"} THEN 0 ELSE -(TickMs + 2 * MsPerSquare)

\* The checkpoints the collision rules walk end on the cell where the arrival
\* will be resolved, for every slide that was validated and then cut short any
\* number of times. (A Knight is exempt from these rules.)
PathReachesTarget ==
  \A m \in motions :
    IsJump(m) \/ kind[m.piece] = "Knight" \/ Checkpoint(m, Steps(m)) = m.to

\* A collision never wipes out both sides: whenever one captures something, a
\* slide survives it (the one that began first, ties going to the lower id).
CollisionLeavesSurvivor ==
  [][ResolveCollisions /\ captures' # captures => \E m \in motions' : ~IsJump(m)]_vars

\* Every piece that moves, jumps or rests is eventually free again (Idle), or
\* captured: no cut, cancelled or overwritten rest keeps it from play for good.
EventuallyFree ==
  \A p \in Pieces : []<>(pstate[p] \in {"Idle", "Captured"})

\* Once a king is captured, whether by a collision, an arrival or a jump that
\* defends its cell, the game is over at the end of the tick.
KingCaptureEndsGame ==
  phase = "ready" /\ (\E p \in Pieces : kind[p] = "King" /\ captures[p] > 0) => gameOver

\* Whatever resolveCollisions captures was itself on the move, although the
\* victim is looked up on the cell a losing motion came from.
CollisionVictimsWereMoving ==
  [][ResolveCollisions => \A p \in Pieces \cup {NoPiece} :
       captures'[p] > captures[p] => \E m \in motions : m.piece = p /\ ~IsJump(m)]_vars
=============================================================================

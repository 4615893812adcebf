-------------------------- MODULE GameEngineProofs --------------------------
(***************************************************************************)
(* What is true of every game, on every board, with any pieces, speeds and *)
(* rests: the invariants of GameEngine and the action property of its      *)
(* collision rule.                                                         *)
(*                                                                         *)
(* IInv is inductive. PieceAccounting, NeverStranded and the timing of the *)
(* motions need each other: a Moving piece keeps the slide that will end   *)
(* its state only because a piece that is taken off its cell is Captured   *)
(* at once, and because a slide that is cut short stays a slide.           *)
(***************************************************************************)
EXTENDS GameEngine, MotionPathProofs, FiniteSetTheorems, WellFoundedInduction

-----------------------------------------------------------------------------
(* Finite sets and least elements.                                         *)

\* A non-empty set of numbers has a least element: firstBlocked, the earliest
\* checkpoint in conflict, is one of those in conflict.
LEMMA LeastIsMember ==
  ASSUME NEW S \in SUBSET Nat, S # {}
  PROVE  Least(S) \in S /\ \A j \in S : Least(S) <= j
<1> DEFINE Pred(k) == {i \in S : i < k}
           T == {Pred(k) : k \in S}
<1>1. IsWellFoundedOn(StrictSubsetOrdering(S), FiniteSubsetsOf(S))
  BY FS_StrictSubsetOrderingWellFounded
<1>2. ASSUME NEW k \in S PROVE IsFiniteSet(Pred(k))
  BY FS_BoundedSetOfNaturals
<1>3. T \subseteq FiniteSubsetsOf(S) /\ T # {}
  BY <1>2 DEF FiniteSubsetsOf
<1>4. PICK P \in T : \A Q \in T : ~(<<Q, P>> \in StrictSubsetOrdering(S))
  <2> HIDE DEF T
  <2> QED BY <1>1, <1>3, WFMin
<1>5. PICK k \in S : P = Pred(k)
  OBVIOUS
<1>6. ASSUME NEW j \in S, j < k
      PROVE  FALSE
  <2>0. \A x \in S : x \in Nat
    OBVIOUS
  <2>1. \A i \in S : i < j => i < k
    BY <1>6, <2>0
  <2>2. Pred(j) \subseteq Pred(k)
    BY <2>1
  <2>3. j \in Pred(k) /\ j \notin Pred(j)
    BY <1>6, <2>0
  <2>4. <<Pred(j), P>> \in StrictSubsetOrdering(S)
    BY <1>5, <2>2, <2>3 DEF StrictSubsetOrdering
  <2> QED BY <1>4, <2>4
<1>7. \A j \in S : k <= j
  BY <1>6
<1> QED BY <1>7 DEF Least

\* The image of a finite set is finite.
LEMMA FiniteImage ==
  ASSUME NEW S, IsFiniteSet(S), NEW f, f = [x \in S |-> f[x]]
  PROVE  IsFiniteSet({f[x] : x \in S})
<1> DEFINE T == {f[x] : x \in S}
<1>1. f \in Surjection(S, T)
  BY DEF Surjection
<1> QED BY <1>1, FS_Surjection

\* A finite set has a minimal element in a transitive, irreflexive relation.
LEMMA FiniteMinimal ==
  ASSUME NEW S, IsFiniteSet(S), S # {}, NEW R,
         \A x \in S : <<x, x>> \notin R,
         \A x, y, z \in S : <<x, y>> \in R /\ <<y, z>> \in R => <<x, z>> \in R
  PROVE  \E m \in S : \A n \in S : <<n, m>> \notin R
<1> DEFINE Pred(m) == {n \in S : <<n, m>> \in R}
           T == {Pred(m) : m \in S}
<1>1. IsWellFoundedOn(StrictSubsetOrdering(S), FiniteSubsetsOf(S))
  BY FS_StrictSubsetOrderingWellFounded
<1>2. FiniteSubsetsOf(S) = SUBSET S
  BY FS_FiniteSubsetsOfFinite
<1>3. T \subseteq SUBSET S /\ T # {}
  <2>1. \A m \in S : Pred(m) \in SUBSET S
    OBVIOUS
  <2> HIDE DEF Pred
  <2> QED BY <2>1
<1>4. PICK P \in T : \A Q \in T : ~(<<Q, P>> \in StrictSubsetOrdering(S))
  <2> HIDE DEF T
  <2> QED BY <1>1, <1>2, <1>3, WFMin
<1>5. PICK m \in S : P = Pred(m)
  OBVIOUS
<1>6. ASSUME NEW n \in S, <<n, m>> \in R
      PROVE  FALSE
  <2>1. Pred(n) \subseteq Pred(m) /\ n \in Pred(m) /\ n \notin Pred(n)
    BY <1>6
  <2>2. <<Pred(n), P>> \in StrictSubsetOrdering(S)
    BY <1>5, <2>1 DEF StrictSubsetOrdering
  <2>3. Pred(n) \in T
    OBVIOUS
  <2> QED BY <1>4, <2>2, <2>3
<1> QED BY <1>6

\* Of finitely many motions, one is beaten by none of the others.
LEMMA SomeoneUnbeaten ==
  ASSUME NEW S \in SUBSET Motion, IsFiniteSet(S), S # {}
  PROVE  \E m \in S : \A n \in S : ~Beats(n, m)
<1> DEFINE R == {r \in S \X S : Beats(r[1], r[2])}
<1>1. \A x \in S : x.start \in Int /\ x.piece \in Nat
  BY ChessAssumption DEF Motion
<1>2. \A x, y \in S : <<x, y>> \in R <=> Beats(x, y)
  OBVIOUS
<1> HIDE DEF R
<1>3. \A x \in S : <<x, x>> \notin R
  BY <1>1, <1>2 DEF Beats
<1>4. \A x, y, z \in S : <<x, y>> \in R /\ <<y, z>> \in R => <<x, z>> \in R
  BY <1>1, <1>2 DEF Beats
<1> QED BY <1>2, <1>3, <1>4, FiniteMinimal

\* Of finitely many motions, none comes before some first one.
LEMMA SomeoneFirst ==
  ASSUME NEW S \in SUBSET Motion, IsFiniteSet(S), S # {}
  PROVE  \E m \in S : \A n \in S : ~Before(n, m)
<1> DEFINE R == {r \in S \X S : Before(r[1], r[2])}
<1>1. \A x \in S : x.start \in Int /\ x.ord \in Int
  BY DEF Motion
<1>2. \A x, y \in S : <<x, y>> \in R <=> Before(x, y)
  OBVIOUS
<1> HIDE DEF R
<1>3. \A x \in S : <<x, x>> \notin R
  BY <1>1, <1>2 DEF Before
<1>4. \A x, y, z \in S : <<x, y>> \in R /\ <<y, z>> \in R => <<x, z>> \in R
  BY <1>1, <1>2 DEF Before
<1> QED BY <1>2, <1>3, <1>4, FiniteMinimal

-----------------------------------------------------------------------------
(* Motions and their cuts.                                                 *)

\* The timestamps of m agree with its path (or with a jump's duration).
Timed(m) ==
  m.arrival - m.start = IF IsJump(m) THEN JumpMs ELSE CalcTravelTime(m.from, m.to)

\* e is m, or m cut short at one of its checkpoints.
CutOf(e, m) == e = m \/ \E k \in 1 .. Steps(m) : e = EndAt(m, k)

\* A cut is a well-timed motion of the same piece from the same source, and a
\* slide stays a slide.
LEMMA CutOfMotion ==
  ASSUME NEW m \in Motion, Timed(m), NEW e, CutOf(e, m)
  PROVE  /\ e \in Motion /\ Timed(e)
         /\ e.from = m.from /\ e.piece = m.piece
         /\ IsJump(e) <=> IsJump(m)
<1>1. CASE e = m
  BY <1>1
<1>2. CASE \E k \in 1 .. Steps(m) : e = EndAt(m, k)
  <2>1. PICK k \in 1 .. Steps(m) : e = EndAt(m, k)
    BY <1>2
  <2>2. ~IsJump(m)
    <3>1. Steps(m) \in Nat /\ Steps(m) # 0
      BY SquaresNat DEF Motion, Steps
    <3> QED BY <3>1, SquaresNat DEF Motion, Steps, IsJump
  <2> QED BY <2>1, <2>2, EndAtMotion DEF Timed
<1> QED BY <1>1, <1>2 DEF CutOf

\* One tick later a motion is the same motion, and as well timed.
LEMMA AgedMotion ==
  ASSUME NEW m \in Motion, Timed(m)
  PROVE  /\ Aged(m) \in Motion /\ Timed(Aged(m))
         /\ Aged(m).from = m.from /\ Aged(m).piece = m.piece
         /\ IsJump(Aged(m)) <=> IsJump(m)
<1> DEFINE a == Aged(m)
<1>1. /\ a.from = m.from /\ a.to = m.to /\ a.piece = m.piece
      /\ a.start = m.start - TickMs /\ a.arrival = m.arrival - TickMs
  BY DEF Aged, Motion
<1>2. m.start \in Int /\ m.arrival \in Int /\ TickMs \in Int
  BY MotionAssumption DEF Motion
<1>3. a \in Motion
  <2>1. m.start - TickMs \in Int /\ m.arrival - TickMs \in Int
    BY <1>2
  <2> QED BY <2>1, Zenon DEF Aged, Motion
<1>4. a.arrival - a.start = m.arrival - m.start
  BY <1>1, <1>2
<1> HIDE DEF a
<1>5. Timed(a) /\ (IsJump(a) <=> IsJump(m))
  BY <1>1, <1>4 DEF Timed, IsJump
<1> QED BY <1>1, <1>3, <1>5 DEF a

-----------------------------------------------------------------------------
(* The inductive invariant.                                                *)

IInv ==
  /\ TypeOK
  /\ IsFiniteSet(motions)
  /\ PieceAccounting
  /\ NeverStranded
  /\ \A m \in motions : Timed(m)

\* What transitionTo makes of each request.
LEMMA Transitions ==
  ASSUME NEW s \in States
  PROVE  /\ TransitionTo(s, "Moving") = IF s = "Idle" THEN "Moving" ELSE s
         /\ TransitionTo(s, "Jump") = IF s = "Idle" THEN "Jump" ELSE s
         /\ TransitionTo(s, "LongRest") = IF s = "Moving" THEN "LongRest" ELSE s
         /\ TransitionTo(s, "ShortRest") = IF s = "Jump" THEN "ShortRest" ELSE s
         /\ TransitionTo(s, "Idle") = IF IsRestingState(s) THEN "Idle" ELSE s
         /\ TransitionTo(s, "Captured") = "Captured"
BY DEF States, TransitionTo, IsLegalTransition, LegalTransitions, IsRestingState

\* AllTransitionTo yields a state for every piece, and leaves the pieces that
\* stand on none of the cells alone.
LEMMA AllTransitionToType ==
  ASSUME pstate \in [Pieces -> States], NEW cells, NEW t \in States
  PROVE  /\ AllTransitionTo(cells, t) \in [Pieces -> States]
         /\ \A p \in Pieces : AllTransitionTo(cells, t)[p] =
              IF \E cell \in cells : board[cell] = p
                THEN TransitionTo(pstate[p], t) ELSE pstate[p]
BY DEF AllTransitionTo, TransitionTo

\* The three facts about motions in IInv, as ArrivalMatchesPath states them.
LEMMA IInvImplies == IInv => TypeOK /\ PieceAccounting /\ NeverStranded /\ ArrivalMatchesPath
BY DEF IInv, ArrivalMatchesPath, Timed

\* Init establishes IInv: every piece stands on one cell and is Idle.
LEMMA InitIInv == Init => IInv
<1> SUFFICES ASSUME Init PROVE IInv
  OBVIOUS
<1>1. PICK s \in Setups : board = s.board /\ kind = s.kind
  BY DEF Init
<1>2. /\ board \in Boards /\ kind \in [Pieces -> Kinds]
      /\ \A p \in Pieces : OnBoard(board, p)
      /\ \A c, d \in Cells : board[c] = board[d] => c = d \/ board[c] = NoPiece
  BY <1>1, EngineAssumption
<1>3. TypeOK
  <2>1. simultaneousMode \in BOOLEAN /\ kingCaptured \in BOOLEAN /\ gameOver \in BOOLEAN
    BY EngineAssumption, Zenon DEF Init
  <2>2. captures \in [Pieces \cup {NoPiece} -> 0 .. MaxReports]
    BY DEF Init, MaxReports
  <2>3. /\ pstate \in [Pieces -> States] /\ motions \subseteq Motion
        /\ cooldown \in [Pieces -> Int] /\ readyIds \subseteq Pieces /\ phase \in Phases
        /\ premoves \in [Pieces -> {NoPremove} \cup (Cells \X Cells)]
    BY DEF Init, States, Phases
  <2> QED BY <1>2, <2>1, <2>2, <2>3 DEF TypeOK
<1>4. PieceAccounting
  BY <1>2, ChessAssumption DEF Init, PieceAccounting, NoPiece
<1>5. NeverStranded
  BY DEF Init, NeverStranded, IsRestingState
<1>6. IsFiniteSet(motions) /\ \A m \in motions : Timed(m)
  BY FS_EmptySet DEF Init
<1> QED BY <1>3, <1>4, <1>5, <1>6 DEF IInv

-----------------------------------------------------------------------------
(* Requests.                                                               *)

\* A motion about to be added is well formed.
LEMMA NewMotionType ==
  ASSUME IInv, NEW from \in Cells, NEW to \in Cells, NEW d \in Nat,
         board[from] # NoPiece
  PROVE  /\ NewMotion(from, to, d) \in Motion
         /\ NewMotion(from, to, d).from = from /\ NewMotion(from, to, d).to = to
         /\ NewMotion(from, to, d).piece = board[from]
         /\ NewMotion(from, to, d).arrival - NewMotion(from, to, d).start = d
<1>1. Cardinality({m \in motions : m.start = 0}) \in Nat
  BY FS_Subset, FS_CardinalityType DEF IInv
<1>2. board[from] \in Pieces
  BY DEF IInv, TypeOK, Boards
<1>3. NewMotion(from, to, d) \in Motion
  BY <1>1, <1>2 DEF NewMotion, Motion
<1> QED BY <1>3 DEF NewMotion

\* addMotion adds the motion asked for, or a cut of it.
LEMMA AddedIsCut ==
  ASSUME NEW from \in Cells, NEW to \in Cells, AddMotion(from, to),
         NewMotion(from, to, CalcTravelTime(from, to)) \in Motion
  PROVE  \E e : /\ motions' = motions \cup {e}
                /\ CutOf(e, NewMotion(from, to, CalcTravelTime(from, to)))
<1> DEFINE m == NewMotion(from, to, CalcTravelTime(from, to))
           near == IF simultaneousMode THEN NearMisses(m) ELSE {}
<1> HIDE DEF m
<1>1. CASE near = {}
  BY <1>1 DEF AddMotion, CutOf, m
<1>2. CASE near # {}
  <2>1. Steps(m) \in Nat /\ near \in SUBSET (1 .. Steps(m)) /\ 1 \notin near
    BY SquaresNat DEF AddMotion, Steps, Motion, NearMisses, m
  <2>2. Least(near) \in near
    BY <1>2, <2>1, LeastIsMember
  <2>3. Least(near) - 1 \in 1 .. Steps(m)
    BY <2>1, <2>2
  <2>4. motions' = motions \cup {EndAt(m, Least(near) - 1)}
    BY <1>2 DEF AddMotion, m
  <2> QED BY <2>3, <2>4 DEF CutOf, m
<1> QED BY <1>1, <1>2

\* addMotion preserves IInv: the new motion, cut short or not, is a well-timed
\* slide of the piece on the source, which is the one that starts Moving.
LEMMA AddMotionStep ==
  ASSUME IInv, NEW from \in Cells, NEW to \in Cells, from # to, board[from] # NoPiece,
         AddMotion(from, to),
         UNCHANGED <<simultaneousMode, board, kind, cooldown, captures, kingCaptured, gameOver>>,
         phase \in {"ready", "premoves"}, phase' \in {"ready", "premoves"},
         premoves' \in [Pieces -> {NoPremove} \cup (Cells \X Cells)],
         readyIds' \subseteq Pieces
  PROVE  IInv'
<1> DEFINE m == NewMotion(from, to, CalcTravelTime(from, to))
           p0 == board[from]
<1> USE DEF IInv
<1>1. CalcTravelTime(from, to) \in Nat
  <2>1. Squares(from, to) \in Nat /\ MsPerSquare \in Nat
    BY SquaresNat, MotionAssumption
  <2> QED BY <2>1 DEF CalcTravelTime
<1>2. /\ m \in Motion /\ Timed(m) /\ ~IsJump(m) /\ m.from = from /\ m.piece = p0
      /\ p0 \in Pieces
  BY <1>1, NewMotionType DEF Timed, IsJump, Motion
<1>3. PICK e : motions' = motions \cup {e} /\ CutOf(e, m)
  BY <1>2, AddedIsCut
<1>4. e \in Motion /\ Timed(e) /\ ~IsJump(e) /\ e.from = from /\ e.piece = p0
  <2> HIDE DEF m
  <2> QED BY <1>2, <1>3, CutOfMotion
<1> HIDE DEF m
<1>5. /\ pstate' \in [Pieces -> States]
      /\ \A p \in Pieces : pstate'[p] = IF p = p0 /\ pstate[p] = "Idle"
                                          THEN "Moving" ELSE pstate[p]
  BY AllTransitionToType, Transitions DEF AddMotion, TypeOK, States
<1>6. TypeOK'
  BY <1>3, <1>4, <1>5 DEF TypeOK, Phases
<1>7. IsFiniteSet(motions')
  BY <1>3, FS_AddElement
<1>8. PieceAccounting'
  BY <1>5 DEF PieceAccounting, OnBoard
<1>9. NeverStranded'
  <2> SUFFICES ASSUME NEW p \in Pieces
               PROVE  /\ pstate'[p] = "Moving" =>
                           \E n \in motions' : n.piece = p /\ ~IsJump(n) /\ board[n.from] = p
                      /\ IsRestingState(pstate'[p]) =>
                           RestPending(p)' \/ \E n \in motions' : n.piece = p /\ board[n.from] = p
    BY DEF NeverStranded
  <2>1. RestPending(p) => RestPending(p)'
    BY DEF RestPending
  <2> QED BY <1>3, <1>4, <1>5, <2>1 DEF NeverStranded, IsRestingState
<1>10. \A n \in motions' : Timed(n)
  BY <1>3, <1>4
<1> QED BY <1>6, <1>7, <1>8, <1>9, <1>10

\* requestMove starting a motion preserves IInv.
LEMMA StartMoveStep ==
  ASSUME IInv, NEW from \in Cells, NEW to \in Cells, StartMove(from, to)
  PROVE  IInv'
<1>1. from # to /\ board[from] # NoPiece
  BY DEF StartMove, ValidateMove, IsLegalDestination, IsCellEmpty
<1>2. /\ premoves' \in [Pieces -> {NoPremove} \cup (Cells \X Cells)]
      /\ readyIds' \subseteq Pieces
  BY DEF StartMove, IInv, TypeOK
<1> QED BY <1>1, <1>2, AddMotionStep DEF StartMove

\* requestMove queueing or dropping a premove only touches the premoves.
LEMMA QueuePremoveStep ==
  ASSUME IInv, NEW from \in Cells, NEW to \in Cells, QueuePremove(from, to)
  PROVE  IInv'
<1> USE DEF IInv
<1>1. TypeOK'
  <2>1. premoves' \in [Pieces -> {NoPremove} \cup (Cells \X Cells)]
    BY DEF QueuePremove, TypeOK
  <2> QED BY <2>1 DEF QueuePremove, TypeOK
<1>2. PieceAccounting' /\ NeverStranded'
  BY DEF QueuePremove, PieceAccounting, NeverStranded, RestPending, OnBoard
<1>3. IsFiniteSet(motions') /\ \A m \in motions' : Timed(m)
  BY DEF QueuePremove
<1> QED BY <1>1, <1>2, <1>3

\* requestJump preserves IInv, also when the piece it starts a jump for is
\* resting and keeps its state.
LEMMA RequestJumpStep ==
  ASSUME IInv, NEW pos \in Cells, RequestJump(pos)
  PROVE  IInv'
<1> USE DEF IInv
<1> DEFINE m == NewMotion(pos, pos, JumpMs)
<1>1. m \in Motion /\ Timed(m) /\ m.from = pos /\ m.piece = board[pos]
  BY NewMotionType, EngineAssumption
     DEF RequestJump, ValidateJump, IsCellEmpty, Timed, IsJump
<1>2. motions' = motions \cup {m}
  BY DEF RequestJump
<1> HIDE DEF m
<1>3. /\ pstate' \in [Pieces -> States]
      /\ \A p \in Pieces : pstate'[p] = IF p = board[pos] /\ pstate[p] = "Idle"
                                          THEN "Jump" ELSE pstate[p]
  BY AllTransitionToType, Transitions DEF RequestJump, TypeOK, States
<1>4. TypeOK'
  BY <1>1, <1>2, <1>3 DEF RequestJump, TypeOK
<1>5. IsFiniteSet(motions') /\ \A n \in motions' : Timed(n)
  BY <1>1, <1>2, FS_AddElement
<1>6. PieceAccounting'
  BY <1>3 DEF RequestJump, PieceAccounting, OnBoard
<1>7. NeverStranded'
  BY <1>2, <1>3 DEF RequestJump, NeverStranded, IsRestingState, RestPending
<1> QED BY <1>4, <1>5, <1>6, <1>7

-----------------------------------------------------------------------------
(* One tick.                                                               *)

\* resolveCollisions preserves IInv: it removes every piece it reports, once.
LEMMA ResolveCollisionsStep ==
  ASSUME IInv, ResolveCollisions
  PROVE  IInv'
<1> USE DEF IInv
<1> DEFINE ms == {Aged(m) : m \in motions}
           lost == IF simultaneousMode THEN Losers(ms) ELSE {}
           hit == {m.from : m \in lost}
           void == {m \in lost : \/ IsCellEmpty(board, m.from)
                                 \/ \E n \in lost : n # m /\ n.from = m.from}
           seen == {board[cell] : cell \in hit} \cup IF void = {} THEN {} ELSE {NoPiece}
<1>1. /\ ms \subseteq Motion /\ \A m \in ms : Timed(m)
      /\ \A m \in motions : Aged(m).from = m.from /\ Aged(m).piece = m.piece
                             /\ (IsJump(Aged(m)) <=> IsJump(m))
  BY AgedMotion DEF TypeOK
<1>2. IsFiniteSet(ms)
  <2> DEFINE f == [m \in motions |-> Aged(m)]
  <2>1. ms = {f[m] : m \in motions} /\ f = [m \in motions |-> f[m]]
    OBVIOUS
  <2> HIDE DEF f, ms
  <2> QED BY <2>1, FiniteImage
<1>3. lost \subseteq ms
  BY DEF Losers
<1>4. hit \subseteq Cells
  BY <1>1, <1>3 DEF Motion
<1>5. /\ board' = RemovePieces(board, hit) /\ pstate' = AllTransitionTo(hit, "Captured")
      /\ captures' = Reported(seen)
      /\ motions' = ms \ lost
      /\ kingCaptured' = (\E cell \in hit : KindAt(board, kind, cell) = "King")
      /\ cooldown' = [p \in Pieces |-> cooldown[p] - TickMs]
      /\ phase = "ready" /\ phase' \in {"friendly", "arrivals"}
      /\ UNCHANGED <<simultaneousMode, kind, gameOver, premoves, readyIds>>
  BY DEF ResolveCollisions
<1>6. \A p \in Pieces : p \in seen <=> \E cell \in hit : board[cell] = p
  BY ChessAssumption DEF NoPiece
<1> HIDE DEF ms, lost, hit, void, seen
<1>7. /\ pstate' \in [Pieces -> States]
      /\ \A p \in Pieces : pstate'[p] = IF p \in seen THEN "Captured" ELSE pstate[p]
  BY <1>5, <1>6, AllTransitionToType, Transitions DEF TypeOK, States
<1>8. /\ captures' \in [Pieces \cup {NoPiece} -> 0 .. MaxReports]
      /\ \A p \in Pieces : captures'[p] = IF p \in seen /\ captures[p] < 2
                                            THEN captures[p] + 1 ELSE captures[p]
  BY <1>5 DEF Reported, MaxReports, TypeOK
<1>9. /\ board' \in Boards
      /\ \A c \in Cells : board'[c] = IF c \in hit THEN NoPiece ELSE board[c]
  BY <1>5 DEF RemovePieces, Boards, TypeOK
<1>10. cooldown' \in [Pieces -> Int] /\ \A p \in Pieces : cooldown'[p] = cooldown[p] - TickMs
  BY <1>5, MotionAssumption DEF TypeOK
<1>11. TypeOK'
  <2>1. kingCaptured' \in BOOLEAN
    BY <1>5
  <2> QED BY <1>1, <1>3, <1>5, <1>7, <1>8, <1>9, <1>10, <2>1 DEF TypeOK, Phases
<1>12. IsFiniteSet(motions') /\ \A m \in motions' : Timed(m)
  BY <1>1, <1>2, <1>5, FS_Subset
<1>13. PieceAccounting'
  <2>1. \A c, d \in Cells : board'[c] = board'[d] => c = d \/ board'[c] = NoPiece
    BY <1>9 DEF PieceAccounting
  <2>2. ASSUME NEW p \in Pieces
        PROVE  \/ OnBoard(board, p)' /\ pstate'[p] # "Captured" /\ captures'[p] = 0
               \/ ~OnBoard(board, p)' /\ pstate'[p] = "Captured" /\ captures'[p] = 1
    <3>1. p # NoPiece
      BY ChessAssumption DEF NoPiece
    <3>2. CASE p \in seen
      <4>1. PICK cell \in hit : board[cell] = p
        BY <3>2, <1>6
      <4>2. OnBoard(board, p) /\ captures[p] = 0
        BY <4>1, <1>4 DEF PieceAccounting, OnBoard
      <4>3. ~OnBoard(board, p)'
        BY <4>1, <1>4, <1>9, <3>1 DEF PieceAccounting, OnBoard
      <4> QED BY <3>2, <4>2, <4>3, <1>7, <1>8
    <3>3. CASE p \notin seen
      <4>1. OnBoard(board, p)' <=> OnBoard(board, p)
        BY <3>1, <3>3, <1>6, <1>9 DEF OnBoard
      <4> QED BY <3>3, <4>1, <1>7, <1>8 DEF PieceAccounting
    <3> QED BY <3>2, <3>3
  <2> QED BY <2>1, <2>2 DEF PieceAccounting
<1>14. NeverStranded'
  <2> SUFFICES ASSUME NEW p \in Pieces
               PROVE  /\ pstate'[p] = "Moving" =>
                           \E n \in motions' : n.piece = p /\ ~IsJump(n) /\ board'[n.from] = p
                      /\ IsRestingState(pstate'[p]) =>
                           RestPending(p)' \/ \E n \in motions' : n.piece = p /\ board'[n.from] = p
    BY DEF NeverStranded
  <2>1. CASE p \in seen
    BY <2>1, <1>7 DEF IsRestingState
  <2>2. CASE p \notin seen
    <3>1. RestPending(p) => RestPending(p)'
      BY <1>5, <1>10, MotionAssumption DEF RestPending, TypeOK
    <3>2. ASSUME NEW m \in motions, m.piece = p, board[m.from] = p
          PROVE  Aged(m) \in motions' /\ board'[Aged(m).from] = p
      <4>1. Aged(m) \in ms /\ Aged(m).from = m.from /\ m.from \in Cells
        BY <1>1 DEF ms, TypeOK, Motion
      <4>2. m.from \notin hit
        BY <2>2, <3>2, <1>6
      <4>3. Aged(m) \notin lost
        BY <4>1, <4>2 DEF hit
      <4> QED BY <3>2, <4>1, <4>2, <4>3, <1>5, <1>9
    <3> QED BY <2>2, <3>1, <3>2, <1>1, <1>7 DEF NeverStranded
  <2> QED BY <2>1, <2>2
<1> QED BY <1>11, <1>12, <1>13, <1>14

\* What the two blocking rules have in common preserves IInv: some motions are
\* cut short, some are given up, and of those the piece rests. A given-up
\* motion may have the piece of another motion on its source: that one is then
\* put to rest too, but keeps its motion.
LEMMA CutsStep ==
  ASSUME IInv, NEW given,
         \A e \in motions' : \E m \in motions : CutOf(e, m),
         \A m \in motions \ given : \E e \in motions' : CutOf(e, m),
         IsFiniteSet(motions'),
         pstate' = AllTransitionTo({m.from : m \in given}, "LongRest"),
         cooldown' = [p \in Pieces |-> IF \E m \in given : m.piece = p
                                         THEN LongRestMs ELSE cooldown[p]],
         phase \in {"friendly", "stationary"}, phase' \in {"stationary", "arrivals"},
         UNCHANGED <<simultaneousMode, board, kind, captures, kingCaptured, gameOver,
                     premoves, readyIds>>
  PROVE  IInv'
<1> USE DEF IInv
<1>1. /\ pstate' \in [Pieces -> States]
      /\ \A p \in Pieces : pstate'[p] =
           IF (\E m \in given : board[m.from] = p) /\ pstate[p] = "Moving"
             THEN "LongRest" ELSE pstate[p]
  BY AllTransitionToType, Transitions DEF TypeOK, States
<1>2. cooldown' \in [Pieces -> Int]
  BY EngineAssumption DEF TypeOK
<1>3. motions' \subseteq Motion /\ \A e \in motions' : Timed(e)
  BY CutOfMotion DEF TypeOK
<1>4. TypeOK'
  BY <1>1, <1>2, <1>3 DEF TypeOK, Phases
<1>5. PieceAccounting'
  BY <1>1 DEF PieceAccounting, OnBoard
<1>6. NeverStranded'
  <2> SUFFICES ASSUME NEW p \in Pieces
               PROVE  /\ pstate'[p] = "Moving" =>
                           \E n \in motions' : n.piece = p /\ ~IsJump(n) /\ board[n.from] = p
                      /\ IsRestingState(pstate'[p]) =>
                           RestPending(p)' \/ \E n \in motions' : n.piece = p /\ board[n.from] = p
    BY DEF NeverStranded
  <2>1. ASSUME NEW m \in motions \ given, m.piece = p, board[m.from] = p
        PROVE  \E n \in motions' : /\ n.piece = p /\ board[n.from] = p
                                   /\ IsJump(n) <=> IsJump(m)
    BY <2>1, CutOfMotion DEF TypeOK
  <2>2. ASSUME NEW m \in given, m.piece = p
        PROVE  RestPending(p)'
    BY <2>2, EngineAssumption, MotionAssumption DEF RestPending
  <2>3. RestPending(p) => RestPending(p)'
    <3>1. CASE \E m \in given : m.piece = p
      BY <3>1, <2>2
    <3>2. CASE ~\E m \in given : m.piece = p
      BY <3>2 DEF RestPending
    <3> QED BY <3>1, <3>2
  <2>4. CASE pstate[p] = "Moving"
    <3>1. PICK m \in motions : m.piece = p /\ ~IsJump(m) /\ board[m.from] = p
      BY <2>4 DEF NeverStranded
    <3>2. CASE m \in given
      BY <3>1, <3>2, <2>2, <2>4, <1>1
    <3>3. CASE m \notin given
      BY <3>1, <3>3, <2>1
    <3> QED BY <3>2, <3>3
  <2>5. CASE pstate[p] # "Moving"
    <3>1. pstate'[p] = pstate[p]
      BY <2>5, <1>1
    <3>2. IsRestingState(pstate[p]) =>
            RestPending(p) \/ \E m \in motions : m.piece = p /\ board[m.from] = p
      BY DEF NeverStranded
    <3> QED BY <2>1, <2>2, <2>3, <2>5, <3>1, <3>2
  <2> QED BY <2>4, <2>5
<1> QED BY <1>3, <1>4, <1>5, <1>6

\* resolveMovingFriendlyBlocks preserves IInv.
LEMMA FriendlyBlocksStep ==
  ASSUME IInv, ResolveMovingFriendlyBlocks
  PROVE  IInv'
<1> DEFINE free == {m \in motions : FriendlyMeetings(m) = {}}
           given == {m \in motions : 1 \in FriendlyMeetings(m)}
           rest == (motions \ free) \ given
           cut(m) == EndAt(m, Least(FriendlyMeetings(m)) - 1)
<1>1. motions' = free \cup {cut(m) : m \in rest}
  BY DEF ResolveMovingFriendlyBlocks
<1>2. IsFiniteSet(motions')
  <2> DEFINE f == [m \in rest |-> cut(m)]
  <2>1. IsFiniteSet(free) /\ IsFiniteSet(rest)
    BY FS_Subset DEF IInv
  <2>2. {cut(m) : m \in rest} = {f[m] : m \in rest} /\ f = [m \in rest |-> f[m]]
    OBVIOUS
  <2> HIDE DEF f, rest, free, cut
  <2>3. IsFiniteSet({f[m] : m \in rest})
    BY <2>1, <2>2, FiniteImage
  <2> QED BY <1>1, <2>1, <2>2, <2>3, FS_Union
<1>3. ASSUME NEW m \in rest
      PROVE  CutOf(cut(m), m)
  <2> DEFINE S == FriendlyMeetings(m)
  <2>1. Steps(m) \in Nat
    BY SquaresNat DEF IInv, TypeOK, Motion, Steps
  <2>2. S \in SUBSET (1 .. Steps(m)) /\ S # {} /\ 1 \notin S
    BY DEF FriendlyMeetings
  <2> HIDE DEF S
  <2>3. Least(S) \in S
    BY <2>1, <2>2, LeastIsMember
  <2>4. Least(S) \in 1 .. Steps(m) /\ Least(S) # 1
    BY <2>2, <2>3
  <2>5. Least(S) - 1 \in 1 .. Steps(m)
    BY <2>1, <2>4
  <2> QED BY <2>5 DEF CutOf, S
<1>4. \A e \in motions' : \E m \in motions : CutOf(e, m)
  BY <1>1, <1>3 DEF CutOf
<1>5. \A m \in motions \ given : \E e \in motions' : CutOf(e, m)
  BY <1>1, <1>3 DEF CutOf
<1> HIDE DEF free, rest, cut
<1>6. /\ phase = "friendly" /\ phase' = "stationary"
      /\ pstate' = AllTransitionTo({m.from : m \in given}, "LongRest")
      /\ cooldown' = [p \in Pieces |-> IF \E m \in given : m.piece = p
                                         THEN LongRestMs ELSE cooldown[p]]
      /\ UNCHANGED <<simultaneousMode, board, kind, captures, kingCaptured, gameOver,
                     premoves, readyIds>>
  BY DEF ResolveMovingFriendlyBlocks
<1> HIDE DEF given
<1> QED BY <1>2, <1>4, <1>5, <1>6, CutsStep

\* The erase-while-walking loop of resolveStationaryBlocks is well defined: a
\* set of given-up motions exists that agrees with the vector as each motion
\* finds it, after the erasures before it.
LEMMA GivenUpExists ==
  ASSUME motions \subseteq Motion, IsFiniteSet(motions)
  PROVE  \E C \in SUBSET motions :
           C = {m \in motions : GivesUp(m, motions \ {n \in C : Before(n, m)})}
<1> DEFINE left(m, C) == motions \ {n \in C : Before(n, m)}
           Down(D) == \A m \in D, n \in motions : Before(n, m) => n \in D
           Good(D, C) == C = {m \in D : GivesUp(m, left(m, C))}
           T == {U \in SUBSET motions :
                   Down(motions \ U) /\ \E C \in SUBSET (motions \ U) : Good(motions \ U, C)}
<1>1. motions \in T
  OBVIOUS
<1>2. T \subseteq FiniteSubsetsOf(motions) /\ T # {}
  BY <1>1, FS_FiniteSubsetsOfFinite
<1>3. IsWellFoundedOn(StrictSubsetOrdering(motions), FiniteSubsetsOf(motions))
  BY FS_StrictSubsetOrderingWellFounded
<1>4. PICK U \in T : \A Q \in T : ~(<<Q, U>> \in StrictSubsetOrdering(motions))
  <2> HIDE DEF T
  <2> QED BY <1>2, <1>3, WFMin
<1> DEFINE D == motions \ U
<1>5. U \subseteq motions /\ Down(D) /\ \E C \in SUBSET D : Good(D, C)
  OBVIOUS
<1>6. PICK C \in SUBSET D : Good(D, C)
  BY <1>5
<1>7. CASE U # {}
  <2>1. IsFiniteSet(U) /\ U \in SUBSET Motion
    BY <1>5, FS_Subset
  <2>2. PICK m \in U : \A n \in U : ~Before(n, m)
    BY <1>7, <2>1, SomeoneFirst
  <2> DEFINE U2 == U \ {m}
             D2 == motions \ U2
             C2 == IF GivesUp(m, left(m, C)) THEN C \cup {m} ELSE C
  <2>3. D2 = D \cup {m} /\ m \notin D /\ m \in motions
    BY <1>5
  <2>4. Down(D2)
    BY <1>5, <2>2, <2>3
  <2>5. ~Before(m, m)
    BY <2>2
  <2>6. \A x \in D : ~Before(m, x)
    BY <1>5, <2>3
  <2>7. \A x \in D2 : left(x, C2) = left(x, C)
    BY <2>3, <2>5, <2>6
  <2>8. C2 \in SUBSET D2
    BY <2>3
  <2>9. Good(D2, C2)
    <3>1. \A x \in D : x \in C <=> GivesUp(x, left(x, C))
      BY <1>6
    <3>2. m \notin C
      BY <2>3
    <3>3. \A x \in D2 : x \in C2 <=> GivesUp(x, left(x, C2))
      <4> HIDE DEF left, D2, D
      <4> QED BY <2>3, <2>7, <3>1, <3>2
    <3> HIDE DEF left, D2, C2
    <3> QED BY <2>8, <3>3
  <2>10. U2 \in T
    <3> HIDE DEF left, Good, Down, C2, D2, D
    <3>1. U2 \in SUBSET motions
      BY <1>5
    <3> QED BY <2>4, <2>8, <2>9, <3>1 DEF D2
  <2>11. <<U2, U>> \in StrictSubsetOrdering(motions)
    BY <1>5 DEF StrictSubsetOrdering
  <2> QED BY <1>4, <2>10, <2>11
<1>8. CASE U = {}
  BY <1>6, <1>8
<1> QED BY <1>7, <1>8

\* resolveStationaryBlocks preserves IInv, whichever motions it gives up.
LEMMA StationaryBlocksStep ==
  ASSUME IInv, ResolveStationaryBlocks
  PROVE  IInv'
<1> DEFINE left(m, C) == motions \ {n \in C : Before(n, m)}
           given == CHOOSE C \in SUBSET motions :
                      C = {m \in motions : GivesUp(m, left(m, C))}
           rest == motions \ given
           cut(m) == Redirected(m, left(m, given))
<1>1. /\ motions' = {cut(m) : m \in rest}
      /\ phase = "stationary" /\ phase' = "arrivals"
      /\ pstate' = AllTransitionTo({m.from : m \in given}, "LongRest")
      /\ cooldown' = [p \in Pieces |-> IF \E m \in given : m.piece = p
                                         THEN LongRestMs ELSE cooldown[p]]
      /\ UNCHANGED <<simultaneousMode, board, kind, captures, kingCaptured, gameOver,
                     premoves, readyIds>>
  BY DEF ResolveStationaryBlocks
<1>0. \A m \in rest : ~GivesUp(m, left(m, given))
  <2> DEFINE Fits(C) == C = {m \in motions : GivesUp(m, left(m, C))}
  <2>1. \E C \in SUBSET motions : Fits(C)
    BY GivenUpExists DEF IInv, TypeOK
  <2>2. given = CHOOSE C \in SUBSET motions : Fits(C)
    OBVIOUS
  <2>3. Fits(given)
    <3> HIDE DEF Fits, given
    <3> QED BY <2>1, <2>2
  <2> QED BY <2>3
<1> HIDE DEF given
<1>2. IsFiniteSet(motions')
  <2> DEFINE f == [m \in rest |-> cut(m)]
  <2>1. IsFiniteSet(rest)
    BY FS_Subset DEF IInv
  <2>2. {cut(m) : m \in rest} = {f[m] : m \in rest} /\ f = [m \in rest |-> f[m]]
    OBVIOUS
  <2> HIDE DEF f, rest, cut
  <2> QED BY <1>1, <2>1, <2>2, FiniteImage
<1>3. ASSUME NEW m \in rest
      PROVE  CutOf(cut(m), m)
  <2> DEFINE ms == left(m, given)
             S == Obstacles(m, ms)
  <2>1. Steps(m) \in Nat
    BY SquaresNat DEF IInv, TypeOK, Motion, Steps
  <2>2. S \in SUBSET (1 .. Steps(m))
    BY DEF Obstacles
  <2>3. CASE S = {}
    BY <2>3 DEF CutOf, Redirected
  <2>4. CASE S # {}
    <3> HIDE DEF S, ms
    <3>1. Least(S) \in S
      BY <2>1, <2>2, <2>4, LeastIsMember
    <3>2. ~(1 \in S /\ StopsShortOf(m, 1))
      BY <1>0 DEF GivesUp, S, ms
    <3>3. Least(S) \in 1 .. Steps(m)
      BY <3>1, <2>2
    <3>4. StopsShortOf(m, Least(S)) => Least(S) - 1 \in 1 .. Steps(m)
      BY <3>1, <3>2, <3>3, <2>1
    <3>5. cut(m) = EndAt(m, IF StopsShortOf(m, Least(S)) THEN Least(S) - 1 ELSE Least(S))
      BY <2>4 DEF Redirected, S, ms
    <3> QED BY <3>3, <3>4, <3>5 DEF CutOf
  <2> QED BY <2>3, <2>4
<1>4. \A e \in motions' : \E m \in motions : CutOf(e, m)
  BY <1>1, <1>3
<1>5. \A m \in motions \ given : \E e \in motions' : CutOf(e, m)
  BY <1>1, <1>3
<1> HIDE DEF left, rest, cut
<1> QED BY <1>1, <1>2, <1>4, <1>5, CutsStep

\* Every outcome of ArrivalResolver::resolve preserves IInv. The arriving piece
\* begins a rest in all of them, which is what takes it out of its state.
LEMMA ArriveStep ==
  ASSUME IInv, Arrive
  PROVE  IInv'
<1> USE DEF IInv
<1>1. PICK m \in motions :
        /\ motions' = motions \ {m}
        /\ cooldown' = [cooldown EXCEPT ![m.piece] =
                          IF IsJump(m) THEN ShortRestMs ELSE LongRestMs]
        /\ LandJump(m) \/ Vanished(m) \/ Repelled(m) \/ StayPut(m) \/ Land(m)
  BY DEF Arrive
<1>2. /\ phase = "arrivals" /\ phase' = "arrivals"
      /\ UNCHANGED <<simultaneousMode, gameOver, premoves, readyIds>>
  BY DEF Arrive
<1>3. m \in Motion /\ m.from \in Cells /\ m.to \in Cells /\ m.piece \in Pieces
  BY DEF TypeOK, Motion
<1>4. /\ cooldown' \in [Pieces -> Int]
      /\ cooldown'[m.piece] > 0
      /\ \A p \in Pieces : p # m.piece => cooldown'[p] = cooldown[p]
  BY <1>1, <1>3, EngineAssumption DEF TypeOK
<1>5. motions' \subseteq Motion /\ IsFiniteSet(motions') /\ \A n \in motions' : Timed(n)
  BY <1>1, FS_RemoveElement DEF TypeOK
<1>6. RestPending(m.piece)' /\ \A p \in Pieces : RestPending(p) => RestPending(p)'
  BY <1>2, <1>3, <1>4, MotionAssumption DEF RestPending
<1>7. \A p \in Pieces : p # NoPiece
  BY ChessAssumption DEF NoPiece
\* What an outcome has to do for IInv: the four variables it may change, and
\* that no piece but the arriving one loses its motion or its place.
<1>8. ASSUME board' \in Boards, kind' \in [Pieces -> Kinds], pstate' \in [Pieces -> States],
             captures' \in [Pieces \cup {NoPiece} -> 0 .. MaxReports],
             kingCaptured' \in BOOLEAN, PieceAccounting',
             pstate'[m.piece] = "Moving" =>
               \E n \in motions' : n.piece = m.piece /\ ~IsJump(n) /\ board'[n.from] = m.piece,
             \A p \in Pieces \ {m.piece} :
               \/ pstate'[p] = "Captured"
               \/ pstate'[p] = pstate[p] /\ \A c \in Cells : board[c] = p => board'[c] = p
      PROVE  IInv'
  <2>1. TypeOK'
    BY <1>2, <1>4, <1>5, <1>8 DEF TypeOK
  <2>2. NeverStranded'
    <3> SUFFICES ASSUME NEW p \in Pieces
                 PROVE  /\ pstate'[p] = "Moving" =>
                             \E n \in motions' : n.piece = p /\ ~IsJump(n) /\ board'[n.from] = p
                        /\ IsRestingState(pstate'[p]) =>
                             RestPending(p)' \/ \E n \in motions' : n.piece = p /\ board'[n.from] = p
      BY DEF NeverStranded
    <3>1. CASE p = m.piece
      BY <3>1, <1>6, <1>8
    <3>2. CASE p # m.piece
      <4>1. ASSUME NEW n \in motions, n.piece = p
            PROVE  n \in motions' /\ n.from \in Cells
        BY <3>2, <4>1, <1>1 DEF TypeOK, Motion
      <4>2. CASE pstate'[p] = "Captured"
        BY <4>2 DEF IsRestingState
      <4>3. CASE pstate'[p] = pstate[p] /\ \A c \in Cells : board[c] = p => board'[c] = p
        BY <4>1, <4>3, <1>6 DEF NeverStranded
      <4> QED BY <3>2, <4>2, <4>3, <1>8
    <3> QED BY <3>1, <3>2
  <2> QED BY <1>5, <1>8, <2>1, <2>2
<1>9. /\ board \in Boards /\ kind \in [Pieces -> Kinds] /\ pstate \in [Pieces -> States]
      /\ captures \in [Pieces \cup {NoPiece} -> 0 .. MaxReports] /\ kingCaptured \in BOOLEAN
  BY DEF TypeOK
<1>10. CASE LandJump(m)
  <2>1. UNCHANGED <<board, kind, captures, kingCaptured>> /\ IsJump(m)
    BY <1>10 DEF LandJump
  <2>2. /\ pstate' \in [Pieces -> States]
        /\ \A p \in Pieces : \/ pstate'[p] = pstate[p]
                             \/ p = m.piece /\ pstate[p] = "Jump" /\ pstate'[p] = "ShortRest"
    <3>1. CASE board[m.from] = m.piece
      <4>1. pstate' = AllTransitionTo({m.from}, "ShortRest")
        BY <1>10, <3>1 DEF LandJump
      <4> QED BY <1>3, <1>9, <3>1, <4>1, AllTransitionToType, Transitions DEF States
    <3>2. CASE board[m.from] # m.piece
      BY <1>9, <1>10, <3>2 DEF LandJump
    <3> QED BY <3>1, <3>2
  <2>3. PieceAccounting'
    BY <2>1, <2>2 DEF PieceAccounting, OnBoard
  <2>4. pstate'[m.piece] = "Moving" =>
          \E n \in motions' : n.piece = m.piece /\ ~IsJump(n) /\ board'[n.from] = m.piece
    BY <1>1, <1>3, <2>1, <2>2 DEF NeverStranded
  <2> QED BY <1>8, <1>9, <2>1, <2>2, <2>3, <2>4
<1>11. CASE Vanished(m)
  <2>1. UNCHANGED <<board, kind, pstate, captures, kingCaptured>> /\ board[m.from] # m.piece
    BY <1>11 DEF Vanished
  <2>2. PieceAccounting'
    BY <2>1 DEF PieceAccounting, OnBoard
  <2>3. pstate'[m.piece] = "Moving" =>
          \E n \in motions' : n.piece = m.piece /\ ~IsJump(n) /\ board'[n.from] = m.piece
    BY <1>1, <1>3, <2>1 DEF NeverStranded
  <2> QED BY <1>8, <1>9, <2>1, <2>2, <2>3
<1>12. CASE Repelled(m)
  <2>1. /\ board[m.from] = m.piece /\ UNCHANGED <<kind, kingCaptured>>
        /\ board' = RemovePieces(board, {m.from}) /\ captures' = Reported({m.piece})
        /\ pstate' = AllTransitionTo({m.from}, "Captured")
    BY <1>12 DEF Repelled
  <2>2. board' \in Boards /\ \A c \in Cells : board'[c] = IF c = m.from THEN NoPiece ELSE board[c]
    BY <1>9, <2>1 DEF RemovePieces, Boards
  <2>3. /\ pstate' \in [Pieces -> States]
        /\ \A p \in Pieces : pstate'[p] = IF p = m.piece THEN "Captured" ELSE pstate[p]
    BY <1>9, <2>1, AllTransitionToType, Transitions DEF States
  <2>4. /\ captures' \in [Pieces \cup {NoPiece} -> 0 .. MaxReports]
        /\ \A p \in Pieces : captures'[p] = IF p = m.piece /\ captures[p] < 2
                                              THEN captures[p] + 1 ELSE captures[p]
    BY <1>9, <2>1 DEF Reported, MaxReports
  <2>5. OnBoard(board, m.piece) /\ ~OnBoard(board, m.piece)'
    BY <1>3, <1>7, <2>1, <2>2 DEF OnBoard, PieceAccounting
  <2>6. \A p \in Pieces \ {m.piece} : OnBoard(board, p)' <=> OnBoard(board, p)
    BY <1>7, <2>1, <2>2 DEF OnBoard
  <2>7. PieceAccounting'
    <3>1. \A c, d \in Cells : board'[c] = board'[d] => c = d \/ board'[c] = NoPiece
      BY <2>2 DEF PieceAccounting
    <3>2. ASSUME NEW p \in Pieces
          PROVE  \/ OnBoard(board, p)' /\ pstate'[p] # "Captured" /\ captures'[p] = 0
                 \/ ~OnBoard(board, p)' /\ pstate'[p] = "Captured" /\ captures'[p] = 1
      BY <2>3, <2>4, <2>5, <2>6 DEF PieceAccounting
    <3> QED BY <3>1, <3>2 DEF PieceAccounting
  <2>8. \A p \in Pieces \ {m.piece} : pstate'[p] = pstate[p] /\ \A c \in Cells : board[c] = p => board'[c] = p
    BY <2>1, <2>2, <2>3
  <2> QED BY <1>3, <1>8, <1>9, <2>1, <2>2, <2>3, <2>4, <2>7, <2>8
<1>13. CASE StayPut(m)
  <2>1. /\ UNCHANGED <<board, kind, captures, kingCaptured>> /\ board[m.from] = m.piece
        /\ pstate' = AllTransitionTo({m.from}, "LongRest")
    BY <1>13 DEF StayPut
  <2>2. /\ pstate' \in [Pieces -> States]
        /\ \A p \in Pieces : pstate'[p] = IF p = m.piece /\ pstate[p] = "Moving"
                                            THEN "LongRest" ELSE pstate[p]
    BY <1>9, <2>1, AllTransitionToType, Transitions DEF States
  <2>3. PieceAccounting'
    BY <2>1, <2>2 DEF PieceAccounting, OnBoard
  <2> QED BY <1>3, <1>8, <1>9, <2>1, <2>2, <2>3
<1>14. CASE Land(m)
  <2>1. /\ board[m.from] = m.piece /\ ~IsJump(m)
        /\ board' = MovePiece(board, m.from, m.to)
        /\ captures' = Reported({board[m.to]} \ {NoPiece})
        /\ pstate' = [p \in Pieces |->
             CASE p = m.piece     -> TransitionTo(pstate[p], "LongRest")
               [] p = board[m.to] -> "Captured"
               [] OTHER           -> pstate[p]]
    BY <1>14 DEF Land
  <2>2. m.from # m.to
    BY <2>1 DEF IsJump
  <2>3. board[m.to] # m.piece
    BY <1>3, <1>7, <2>1, <2>2 DEF PieceAccounting
  <2>4. /\ board' \in Boards
        /\ \A c \in Cells : board'[c] = IF c = m.from THEN NoPiece
                                        ELSE IF c = m.to THEN m.piece ELSE board[c]
    BY <1>3, <1>9, <2>1, <2>2 DEF MovePiece, Boards
  <2>5. \A p \in Pieces : pstate'[p] = IF p = m.piece
                                         THEN IF pstate[p] = "Moving" THEN "LongRest" ELSE pstate[p]
                                       ELSE IF p = board[m.to] THEN "Captured" ELSE pstate[p]
    <3> SUFFICES ASSUME NEW p \in Pieces
                 PROVE  pstate'[p] = IF p = m.piece
                                       THEN IF pstate[p] = "Moving" THEN "LongRest" ELSE pstate[p]
                                     ELSE IF p = board[m.to] THEN "Captured" ELSE pstate[p]
      OBVIOUS
    <3>1. pstate[p] \in States
      BY <1>9
    <3>2. CASE p = m.piece
      BY <2>1, <2>3, <3>1, <3>2, Transitions
    <3>3. CASE p # m.piece
      BY <2>1, <3>3
    <3> QED BY <3>2, <3>3
  <2>6. pstate' \in [Pieces -> States]
    BY <1>9, <2>1, <2>5 DEF States
  <2>7. /\ captures' \in [Pieces \cup {NoPiece} -> 0 .. MaxReports]
        /\ \A p \in Pieces : captures'[p] = IF p = board[m.to] /\ captures[p] < 2
                                              THEN captures[p] + 1 ELSE captures[p]
    BY <1>7, <1>9, <2>1 DEF Reported, MaxReports
  <2>8. kind' \in [Pieces -> Kinds]
    BY <1>9, <1>14 DEF Land, Kinds
  <2>9. kingCaptured' \in BOOLEAN
    BY <1>9, <1>14, Zenon DEF Land
  <2>10. PieceAccounting'
    <3>1. \A c, d \in Cells : board'[c] = board'[d] => c = d \/ board'[c] = NoPiece
      BY <1>3, <2>1, <2>4 DEF PieceAccounting
    <3>2. OnBoard(board, m.piece) /\ OnBoard(board, m.piece)'
      BY <1>3, <2>1, <2>2, <2>4 DEF OnBoard
    <3>3. ASSUME NEW p \in Pieces, p = board[m.to]
          PROVE  OnBoard(board, p) /\ ~OnBoard(board, p)'
      BY <1>3, <1>7, <2>3, <2>4, <3>3 DEF OnBoard, PieceAccounting
    <3>4. ASSUME NEW p \in Pieces, p # board[m.to], p # m.piece
          PROVE  OnBoard(board, p)' <=> OnBoard(board, p)
      BY <1>3, <1>7, <2>1, <2>4, <3>4 DEF OnBoard
    <3>5. ASSUME NEW p \in Pieces
          PROVE  \/ OnBoard(board, p)' /\ pstate'[p] # "Captured" /\ captures'[p] = 0
                 \/ ~OnBoard(board, p)' /\ pstate'[p] = "Captured" /\ captures'[p] = 1
      <4>1. CASE p = m.piece
        BY <4>1, <2>3, <2>5, <2>7, <3>2 DEF PieceAccounting
      <4>2. CASE p = board[m.to]
        BY <4>2, <2>3, <2>5, <2>7, <3>3 DEF PieceAccounting
      <4>3. CASE p # m.piece /\ p # board[m.to]
        BY <4>3, <2>5, <2>7, <3>4 DEF PieceAccounting
      <4> QED BY <4>1, <4>2, <4>3
    <3> QED BY <3>1, <3>5 DEF PieceAccounting
  <2>11. pstate'[m.piece] # "Moving"
    BY <1>3, <2>5
  <2>12. \A p \in Pieces \ {m.piece} :
           \/ pstate'[p] = "Captured"
           \/ pstate'[p] = pstate[p] /\ \A c \in Cells : board[c] = p => board'[c] = p
    BY <2>1, <2>4, <2>5
  <2> QED BY <1>8, <2>4, <2>6, <2>7, <2>8, <2>9, <2>10, <2>11, <2>12
<1> QED BY <1>1, <1>10, <1>11, <1>12, <1>13, <1>14

\* The end of a tick preserves IInv: a rest that ran out ends.
LEMMA FinishTickStep ==
  ASSUME IInv, FinishTick
  PROVE  IInv'
<1> USE DEF IInv
<1>1. /\ phase = "arrivals" /\ phase' \in {"ready", "premoves"}
      /\ kingCaptured' = FALSE /\ gameOver' = (gameOver \/ kingCaptured)
      /\ readyIds' \subseteq Pieces
      /\ UNCHANGED <<simultaneousMode, board, kind, motions, captures, premoves>>
  BY DEF FinishTick
<1>2. /\ pstate' \in [Pieces -> States]
      /\ \A p \in Pieces : pstate'[p] =
           IF /\ cooldown[p] > -TickMs /\ cooldown[p] <= 0
              /\ OnBoard(board, p) /\ IsRestingState(pstate[p])
             THEN "Idle" ELSE pstate[p]
  BY Transitions DEF FinishTick, TypeOK, States
<1>3. /\ cooldown' \in [Pieces -> Int]
      /\ \A p \in Pieces : cooldown'[p] = IF cooldown[p] < 0 THEN 0 ELSE cooldown[p]
  BY DEF FinishTick, TypeOK, Max2
<1>4. TypeOK'
  <2>1. kingCaptured' \in BOOLEAN /\ gameOver' \in BOOLEAN
    BY <1>1, Zenon DEF TypeOK
  <2> QED BY <1>1, <1>2, <1>3, <2>1 DEF TypeOK, Phases
<1>5. PieceAccounting'
  <2>1. \A p \in Pieces : pstate'[p] = "Captured" <=> pstate[p] = "Captured"
    BY <1>2 DEF IsRestingState
  <2> QED BY <1>1, <2>1 DEF PieceAccounting, OnBoard
<1>6. NeverStranded'
  <2> SUFFICES ASSUME NEW p \in Pieces
               PROVE  /\ pstate'[p] = "Moving" =>
                           \E n \in motions' : n.piece = p /\ ~IsJump(n) /\ board'[n.from] = p
                      /\ IsRestingState(pstate'[p]) =>
                           RestPending(p)' \/ \E n \in motions' : n.piece = p /\ board'[n.from] = p
    BY DEF NeverStranded
  <2>1. cooldown[p] \in Int /\ cooldown'[p] \in Int /\ TickMs \in Int
    BY <1>3, MotionAssumption DEF TypeOK
  <2>2. CASE pstate'[p] = pstate[p]
    <3>1. IsRestingState(pstate[p]) => OnBoard(board, p)
      BY DEF IsRestingState, PieceAccounting
    <3>2. RestPending(p) /\ IsRestingState(pstate[p]) => RestPending(p)'
      BY <1>1, <1>2, <1>3, <2>1, <2>2, <3>1 DEF RestPending, IsRestingState
    <3> QED BY <1>1, <2>2, <3>2 DEF NeverStranded
  <2>3. CASE pstate'[p] # pstate[p]
    BY <1>2, <2>3 DEF IsRestingState
  <2> QED BY <2>2, <2>3
<1> QED BY <1>1, <1>4, <1>5, <1>6

\* firePremoves preserves IInv, whether the queued move still starts or not.
LEMMA FirePremoveStep ==
  ASSUME IInv, FirePremove
  PROVE  IInv'
<1>1. PICK p \in readyIds :
        LET from == premoves[p][1]
            to   == premoves[p][2]
        IN  /\ premoves' = [premoves EXCEPT ![p] = NoPremove]
            /\ readyIds' = readyIds \ {p}
            /\ \/ ValidateMove(board, kind, from, to, simultaneousMode) /\ AddMotion(from, to)
               \/ UNCHANGED <<motions, pstate>>
  BY DEF FirePremove
<1>2. /\ phase = "premoves" /\ phase' \in {"ready", "premoves"}
      /\ UNCHANGED <<simultaneousMode, board, kind, cooldown, captures, kingCaptured, gameOver>>
  BY DEF FirePremove
<1>3. /\ premoves' \in [Pieces -> {NoPremove} \cup (Cells \X Cells)]
      /\ readyIds' \subseteq Pieces
  BY <1>1 DEF IInv, TypeOK
<1>4. CASE /\ ValidateMove(board, kind, premoves[p][1], premoves[p][2], simultaneousMode)
           /\ AddMotion(premoves[p][1], premoves[p][2])
  <2>1. /\ premoves[p][1] \in Cells /\ premoves[p][2] \in Cells
        /\ premoves[p][1] # premoves[p][2] /\ board[premoves[p][1]] # NoPiece
    BY <1>4 DEF ValidateMove, IsLegalDestination, IsCellEmpty
  <2> QED BY <1>2, <1>3, <1>4, <2>1, AddMotionStep
<1>5. CASE UNCHANGED <<motions, pstate>>
  <2>1. TypeOK'
    BY <1>2, <1>3, <1>5 DEF IInv, TypeOK, Phases
  <2>2. PieceAccounting' /\ NeverStranded'
    BY <1>2, <1>5 DEF IInv, PieceAccounting, NeverStranded, RestPending, OnBoard
  <2> QED BY <1>5, <2>1, <2>2 DEF IInv
<1> QED BY <1>1, <1>4, <1>5

-----------------------------------------------------------------------------
(* The theorems.                                                           *)

\* Every step of a game preserves IInv.
LEMMA NextIInv == IInv /\ [Next]_vars => IInv'
<1> SUFFICES ASSUME IInv, [Next]_vars PROVE IInv'
  OBVIOUS
<1>1. CASE Tick
  BY <1>1, ResolveCollisionsStep, FriendlyBlocksStep, StationaryBlocksStep, ArriveStep,
     FinishTickStep, FirePremoveStep DEF Tick
<1>2. CASE Request
  BY <1>2, StartMoveStep, QueuePremoveStep, RequestJumpStep DEF Request
<1>3. CASE UNCHANGED vars
  BY <1>3 DEF vars, IInv, TypeOK, PieceAccounting, NeverStranded, RestPending, OnBoard
<1> QED BY <1>1, <1>2, <1>3 DEF Next

\* IInv is an invariant of every game, whatever the board, the pieces and times.
THEOREM Invariance == Spec => []IInv
<1>1. Init => IInv
  BY InitIInv
<1>2. IInv /\ [Next]_vars => IInv'
  BY NextIInv
<1> QED BY <1>1, <1>2, PTL DEF Spec

\* The engine's state keeps its types; in particular motions stay on the board.
THEOREM TypeCorrect == Spec => []TypeOK
<1>1. IInv => TypeOK
  BY DEF IInv
<1> QED BY <1>1, Invariance, PTL

\* Pieces are neither lost nor duplicated, and are captured at most once.
THEOREM PiecesAccounted == Spec => []PieceAccounting
<1>1. IInv => PieceAccounting
  BY DEF IInv
<1> QED BY <1>1, Invariance, PTL

\* No piece is Moving without a slide to end it, or resting without an end.
THEOREM NobodyStranded == Spec => []NeverStranded
<1>1. IInv => NeverStranded
  BY DEF IInv
<1> QED BY <1>1, Invariance, PTL

\* A motion's timestamps agree with its path however often it was cut short.
THEOREM ArrivalsTimed == Spec => []ArrivalMatchesPath
<1>1. IInv => ArrivalMatchesPath
  BY IInvImplies
<1> QED BY <1>1, Invariance, PTL

\* resolveCollisions never destroys all sides of a collision: among the slides
\* that take part in collisions, one is beaten by none of the others.
THEOREM SurvivorLeft == Spec => CollisionLeavesSurvivor
<1>1. ASSUME IInv, ResolveCollisions, captures' # captures
      PROVE  \E m \in motions' : ~IsJump(m)
  <2> DEFINE ms == {Aged(m) : m \in motions}
             lost == IF simultaneousMode THEN Losers(ms) ELSE {}
             slides == {m \in ms : HasPath(m)}
  <2>1. ms \subseteq Motion
    BY <1>1, AgedMotion DEF IInv, TypeOK
  <2>2. IsFiniteSet(ms)
    <3> DEFINE f == [m \in motions |-> Aged(m)]
    <3>1. ms = {f[m] : m \in motions} /\ f = [m \in motions |-> f[m]]
      OBVIOUS
    <3> HIDE DEF f, ms
    <3> QED BY <1>1, <3>1, FiniteImage DEF IInv
  <2>3. motions' = ms \ lost
    BY <1>1 DEF ResolveCollisions
  <2>4. lost # {}
    <3> SUFFICES ASSUME lost = {} PROVE FALSE
      OBVIOUS
    <3>1. captures' = Reported({})
      BY <1>1 DEF ResolveCollisions
    <3> QED BY <1>1, <3>1 DEF Reported, IInv, TypeOK
  <2> HIDE DEF ms
  <2>5. lost = Losers(ms)
    BY <2>4
  <2>6. slides # {}
    BY <2>4, <2>5 DEF Losers
  <2>7. IsFiniteSet(slides) /\ slides \in SUBSET Motion
    BY <2>1, <2>2, FS_Subset
  <2>8. PICK m \in slides : \A n \in slides : ~Beats(n, m)
    BY <2>6, <2>7, SomeoneUnbeaten
  <2>9. m \notin lost
    BY <2>5, <2>8 DEF Losers
  <2> QED BY <2>3, <2>8, <2>9 DEF HasPath
<1>2. IInv /\ [Next]_vars =>
        [ResolveCollisions /\ captures' # captures => \E m \in motions' : ~IsJump(m)]_vars
  BY <1>1
<1> QED BY <1>2, Invariance, PTL DEF Spec, CollisionLeavesSurvivor
=============================================================================

-------------------------- MODULE ThreadPoolProofs --------------------------
(***************************************************************************)
(* The pool implements JobQueue and loses no notification, for any finite  *)
(* number of workers and any number of jobs.                               *)
(***************************************************************************)
EXTENDS ThreadPool, FiniteSetTheorems, SequenceTheorems, TLAPS

Started == submitted - Len(jobs)

\* The queue holds the jobs that were not started, in order.
QueueInOrder ==
  /\ Len(jobs) <= submitted
  /\ \A i \in 1 .. Len(jobs) : jobs[i] = Started + i

\* Started jobs are finished or run by one worker each.
JobsAccounted ==
  /\ finished \subseteq 1 .. Started
  /\ \A w \in Workers : worker[w] = "run" => job[w] \in (1 .. Started) \ finished
  /\ \A v, w \in Workers : worker[v] = "run" /\ worker[w] = "run" /\ job[v] = job[w] => v = w
  /\ \A j \in (1 .. Started) \ finished : \E w \in Workers : worker[w] = "run" /\ job[w] = j

\* Workers return only from a pool that is being destroyed, with nothing queued.
ReturnsLast ==
  /\ stopping <=> owner \in {"notify_all", "join", "destroyed"}
  /\ \A w \in Workers : worker[w] = "returned" => stopping /\ jobs = <<>>

PInv == TypeOK /\ QueueInOrder /\ JobsAccounted /\ ReturnsLast

-----------------------------------------------------------------------------
LEMMA InitEmpty == Init => jobs \in Seq(Nat) /\ Len(jobs) = 0 /\ submitted - Len(jobs) = 0
<1> SUFFICES ASSUME jobs = <<>>, submitted = 0
             PROVE  jobs \in Seq(Nat) /\ Len(jobs) = 0 /\ submitted - Len(jobs) = 0
  BY DEF Init
<1>1. jobs \in Seq(Nat)
  OBVIOUS
<1>2. Len(jobs) = 0
  BY EmptySeq
<1>3. \A n : n = 0 => submitted - n = 0
  OBVIOUS
<1> QED BY <1>1, <1>2, <1>3, Zenon

LEMMA InitPInv == Init => PInv
<1> SUFFICES ASSUME Init PROVE PInv
  OBVIOUS
<1> USE DEF Init
<1>1. jobs \in Seq(Nat) /\ Len(jobs) = 0 /\ Started = 0
  BY InitEmpty DEF Started
<1>2. TypeOK
  BY <1>1 DEF TypeOK
<1>3. ReturnsLast
  BY DEF ReturnsLast
<1>4. QueueInOrder /\ JobsAccounted
  BY <1>1 DEF QueueInOrder, JobsAccounted
<1> QED BY <1>2, <1>3, <1>4 DEF PInv

\* Only the owner's Push adds to the queue.
LEMMA PushKeeps ==
  ASSUME PInv, Push
  PROVE  PInv' /\ Started' = Started
<1> USE DEF PInv, TypeOK, Push
<1>1. /\ jobs' \in Seq(Nat) /\ submitted' = submitted + 1 /\ Len(jobs') = Len(jobs) + 1
      /\ \A i \in 1 .. Len(jobs) : jobs'[i] = jobs[i]
      /\ jobs'[Len(jobs) + 1] = submitted + 1
  OBVIOUS
<1>2. Started \in Nat /\ Started' = Started
  BY <1>1 DEF QueueInOrder, Started
<1>3. TypeOK'
  BY <1>1
<1>4. QueueInOrder'
  <2>1. jobs'[Len(jobs) + 1] = Started' + (Len(jobs) + 1)
    BY <1>1, <1>2 DEF Started
  <2>2. \A i \in 1 .. Len(jobs) : jobs'[i] = Started' + i
    BY <1>1, <1>2 DEF QueueInOrder
  <2>3. \A i \in 1 .. Len(jobs') : i \in 1 .. Len(jobs) \/ i = Len(jobs) + 1
    BY <1>1
  <2> QED BY <1>1, <2>1, <2>2, <2>3 DEF QueueInOrder
<1>5. JobsAccounted'
  BY <1>2 DEF JobsAccounted
<1>6. ReturnsLast'
  BY DEF ReturnsLast
<1> QED BY <1>2, <1>3, <1>4, <1>5, <1>6

\* Take starts the next job.
LEMMA TakeKeeps ==
  ASSUME PInv, NEW w \in Workers, Take(w)
  PROVE  PInv' /\ Started' = Started + 1 /\ Started < submitted
<1> USE DEF PInv, TypeOK, Take
<1>1. /\ jobs # <<>> /\ jobs' \in Seq(Nat) /\ Len(jobs') = Len(jobs) - 1 /\ Len(jobs) > 0
      /\ \A i \in 1 .. Len(jobs') : jobs'[i] = jobs[i + 1]
      /\ job'[w] = jobs[1] /\ jobs[1] \in Nat
  OBVIOUS
<1>2. Started \in Nat /\ Started' = Started + 1 /\ Started < submitted /\ job'[w] = Started + 1
  BY <1>1 DEF QueueInOrder, Started
<1>3. TypeOK'
  BY <1>1
<1>4. QueueInOrder'
  BY <1>1, <1>2 DEF QueueInOrder
<1>5. JobsAccounted'
  <2>1. \A v \in Workers : v # w => job'[v] = job[v] /\ worker'[v] = worker[v]
    OBVIOUS
  <2>2. worker'[w] = "run" /\ worker[w] = "lock" /\ finished' = finished
    OBVIOUS
  <2>3. ASSUME NEW j \in (1 .. Started') \ finished'
        PROVE  \E v \in Workers : worker'[v] = "run" /\ job'[v] = j
    <3>1. CASE j = Started + 1
      BY <1>2, <2>2, <3>1
    <3>2. CASE j # Started + 1
      <4>1. j \in (1 .. Started) \ finished
        BY <1>2, <2>2, <2>3, <3>2
      <4>2. PICK v \in Workers : worker[v] = "run" /\ job[v] = j
        BY <4>1 DEF JobsAccounted
      <4> QED BY <2>1, <2>2, <4>2
    <3> QED BY <3>1, <3>2
  <2>4. \A v \in Workers : worker'[v] = "run" => job'[v] \in (1 .. Started') \ finished'
    BY <1>2, <2>1, <2>2 DEF JobsAccounted
  <2>5. \A u, v \in Workers : worker'[u] = "run" /\ worker'[v] = "run" /\ job'[u] = job'[v] => u = v
    BY <1>2, <2>1, <2>2 DEF JobsAccounted
  <2> QED BY <1>2, <2>2, <2>3, <2>4, <2>5 DEF JobsAccounted
<1>6. ReturnsLast'
  BY <1>1 DEF ReturnsLast
<1> QED BY <1>2, <1>3, <1>4, <1>5, <1>6

\* Finish adds a started job that was not finished.
LEMMA FinishKeeps ==
  ASSUME PInv, NEW w \in Workers, Finish(w)
  PROVE  PInv' /\ Started' = Started /\ job[w] \in (1 .. Started) \ finished
<1> USE DEF PInv, TypeOK, Finish
<1>1. Started' = Started /\ job[w] \in (1 .. Started) \ finished
  BY DEF Started, JobsAccounted
<1>2. TypeOK'
  OBVIOUS
<1>3. QueueInOrder'
  BY <1>1 DEF QueueInOrder
<1>4. JobsAccounted'
  BY <1>1 DEF JobsAccounted
<1>5. ReturnsLast'
  BY DEF ReturnsLast
<1> QED BY <1>1, <1>2, <1>3, <1>4, <1>5

\* The other steps leave the jobs alone.
LEMMA QuietKeeps ==
  ASSUME PInv,
         \/ NotifyOne \/ Stop \/ NotifyAll \/ Join
         \/ \E w \in Workers : Sleep(w) \/ Return(w) \/ WakeUp(w)
         \/ UNCHANGED vars
  PROVE  PInv' /\ UNCHANGED <<jobs, submitted, finished>>
<1> USE DEF PInv, TypeOK, NotifyOne, Stop, NotifyAll, Join, Sleep, Return, WakeUp, vars, Waiting
<1>1. UNCHANGED <<jobs, submitted, finished, job>>
  OBVIOUS
<1>2. TypeOK'
  OBVIOUS
<1>3. QueueInOrder'
  BY <1>1 DEF QueueInOrder, Started
<1>4. \A w \in Workers : worker'[w] = "run" <=> worker[w] = "run"
  OBVIOUS
<1>5. JobsAccounted'
  BY <1>1, <1>4 DEF JobsAccounted, Started
<1>6. ReturnsLast'
  BY DEF ReturnsLast
<1> QED BY <1>1, <1>2, <1>3, <1>5, <1>6

LEMMA NextPInv == PInv /\ [Next]_vars => PInv'
BY PushKeeps, TakeKeeps, FinishKeeps, QuietKeeps DEF Next, WorkerStep

\* The inductive invariant holds in every reachable state.
THEOREM PoolInvariance == Spec => []PInv
BY InitPInv, NextPInv, PTL DEF Spec

\* The queue, the flag and the workers keep their types.
THEOREM PoolTypeCorrect == Spec => []TypeOK
<1>1. PInv => TypeOK
  BY DEF PInv
<1> QED BY <1>1, PoolInvariance, PTL

-----------------------------------------------------------------------------
(* The pool implements JobQueue.                                           *)

\* When all the workers have returned, every job has been finished.
LEMMA AllDone ==
  ASSUME PInv, \A w \in Workers : worker[w] = "returned"
  PROVE  Started = submitted /\ finished = 1 .. submitted
<1>1. jobs = <<>>
  BY ThreadPoolAssumption DEF PInv, ReturnsLast
<1>2. Started = submitted
  BY <1>1 DEF Started, PInv, TypeOK
<1> QED BY <1>2 DEF PInv, JobsAccounted

LEMMA PoolSimulation == PInv /\ [Next]_vars => [JQ!Next]_(JQ!vars)
<1> SUFFICES ASSUME PInv, [Next]_vars PROVE [JQ!Next]_(JQ!vars)
  OBVIOUS
<1> USE DEF Started
<1>1. CASE Push
  <2>1. JQ!Submit
    BY <1>1, PushKeeps DEF Push, JQ!Submit
  <2> QED BY <2>1 DEF JQ!Next
<1>2. ASSUME NEW w \in Workers, Take(w) PROVE JQ!Next
  <2>1. JQ!Start
    BY <1>2, TakeKeeps DEF Take, JQ!Start
  <2> QED BY <2>1 DEF JQ!Next
<1>3. ASSUME NEW w \in Workers, Finish(w) PROVE JQ!Next
  <2>1. JQ!Finish
    BY <1>3, FinishKeeps DEF Finish, JQ!Finish
  <2> QED BY <2>1 DEF JQ!Next
<1>4. CASE Stop
  <2>1. JQ!Close
    BY <1>4 DEF Stop, JQ!Close
  <2> QED BY <2>1 DEF JQ!Next
<1>5. CASE Join
  <2>1. JQ!Closed
    BY <1>5, AllDone DEF Join, JQ!Closed
  <2> QED BY <2>1 DEF JQ!Next
<1>6. CASE NotifyOne \/ NotifyAll
  BY <1>6 DEF NotifyOne, NotifyAll, JQ!vars
<1>7. ASSUME NEW w \in Workers, Sleep(w) \/ Return(w) \/ WakeUp(w) PROVE UNCHANGED JQ!vars
  BY <1>7 DEF Sleep, Return, WakeUp, JQ!vars
<1>8. CASE UNCHANGED vars
  BY <1>8 DEF vars, JQ!vars
<1> QED BY <1>1, <1>2, <1>3, <1>4, <1>5, <1>6, <1>7, <1>8 DEF Next, WorkerStep

\* Jobs start in the order of submission, each once, and the destructor
\* returns only when all of them are finished, however the workers, the
\* notifications and spurious wake-ups are interleaved.
THEOREM PoolImplementsQueue == Spec => JobsServed
<1>1. ASSUME Init PROVE JQ!Init
  <2>1. submitted - Len(jobs) = 0
    BY <1>1, InitEmpty
  <2> QED BY <1>1, <2>1 DEF Init, JQ!Init
<1> QED BY <1>1, PoolInvariance, PoolSimulation, PTL DEF Spec, JQ!Spec, JobsServed

-----------------------------------------------------------------------------
(* No notification is lost.                                                *)

Due == IF owner = "notify_one" THEN 1 ELSE 0

LEMMA LockingFinite ==
  ASSUME TypeOK
  PROVE  IsFiniteSet(Locking) /\ Cardinality(Locking) \in Nat /\ Due \in Nat
<1>1. IsFiniteSet(Locking)
  BY ThreadPoolAssumption, FS_Subset DEF Locking
<1> QED BY <1>1, FS_CardinalityType DEF Due

\* A worker that comes to the mutex, or leaves it, counts for one.
LEMMA LockingGains ==
  ASSUME TypeOK, NEW w \in Workers, worker[w] # "lock", worker' = [worker EXCEPT ![w] = "lock"]
  PROVE  Cardinality(Locking') = Cardinality(Locking) + 1
<1>1. Locking' = Locking \cup {w} /\ w \notin Locking
  BY DEF TypeOK, Locking
<1> QED BY <1>1, LockingFinite, FS_AddElement

LEMMA LockingLoses ==
  ASSUME TypeOK, NEW w \in Workers, worker[w] = "lock", NEW pc \in {"wait", "run", "returned"},
         worker' = [worker EXCEPT ![w] = pc]
  PROVE  Cardinality(Locking') = Cardinality(Locking) - 1
<1>1. Locking' = Locking \ {w} /\ w \in Locking
  BY DEF TypeOK, Locking
<1> QED BY <1>1, LockingFinite, FS_RemoveElement

LEMMA NextWorkConserving ==
  ASSUME PInv, WorkConserving, [Next]_vars
  PROVE  WorkConserving'
<1> SUFFICES ASSUME Waiting' # {}
             PROVE  Len(jobs') <= Cardinality(Locking') + Due'
  BY DEF WorkConserving, Due
<1>0. /\ TypeOK /\ Cardinality(Locking) \in Nat /\ Due \in Nat /\ Len(jobs) \in Nat
      /\ Waiting # {} => Len(jobs) <= Cardinality(Locking) + Due
  BY LockingFinite DEF PInv, TypeOK, WorkConserving, Due
<1>1. CASE Push
  <2>1. Locking' = Locking /\ Waiting' = Waiting /\ Due = 0 /\ Due' = 1 /\ Len(jobs') = Len(jobs) + 1
    BY <1>0, <1>1 DEF Push, Locking, Waiting, Due, TypeOK
  <2> QED BY <1>0, <2>1
<1>2. CASE NotifyOne
  <2>1. Waiting # {} /\ Due = 1 /\ Due' = 0 /\ jobs' = jobs
    BY <1>2 DEF NotifyOne, Waiting, Due
  <2>2. PICK w \in Waiting : worker' = [worker EXCEPT ![w] = "lock"]
    BY <1>2, <2>1 DEF NotifyOne
  <2>3. Cardinality(Locking') = Cardinality(Locking) + 1
    BY <1>0, <2>2, LockingGains DEF Waiting
  <2> QED BY <1>0, <2>1, <2>3
<1>3. CASE NotifyAll
  BY <1>0, <1>3 DEF NotifyAll, Waiting, TypeOK
<1>4. CASE Stop \/ Join \/ UNCHANGED vars
  <2>1. Locking' = Locking /\ Waiting' = Waiting /\ Due' = Due /\ jobs' = jobs
    BY <1>4 DEF Stop, Join, vars, Locking, Waiting, Due
  <2> QED BY <1>0, <2>1
<1>5. ASSUME NEW w \in Workers, Sleep(w) \/ Return(w) PROVE Len(jobs') <= Cardinality(Locking') + Due'
  <2>1. jobs' = jobs /\ jobs = <<>> /\ Due' = Due /\ Len(jobs') = 0
    BY <1>5 DEF Sleep, Return, Due
  <2>2. TypeOK'
    BY <1>0, <1>5 DEF Sleep, Return, TypeOK
  <2>3. Cardinality(Locking') \in Nat
    <3>1. Locking' \subseteq Workers
      BY DEF Locking
    <3> QED BY <3>1, ThreadPoolAssumption, FS_Subset, FS_CardinalityType
  <2> QED BY <1>0, <2>1, <2>3
<1>6. ASSUME NEW w \in Workers, Take(w) PROVE Len(jobs') <= Cardinality(Locking') + Due'
  <2>1. Cardinality(Locking') = Cardinality(Locking) - 1
    BY <1>0, <1>6, LockingLoses DEF Take
  <2>2. Len(jobs') = Len(jobs) - 1 /\ Due' = Due /\ Waiting # {}
    BY <1>0, <1>6 DEF Take, TypeOK, Due, Waiting
  <2> QED BY <1>0, <2>1, <2>2
<1>7. ASSUME NEW w \in Workers, Finish(w) \/ WakeUp(w) PROVE Len(jobs') <= Cardinality(Locking') + Due'
  <2>1. Cardinality(Locking') = Cardinality(Locking) + 1
    BY <1>0, <1>7, LockingGains DEF Finish, WakeUp
  <2>2. jobs' = jobs /\ Due' = Due /\ Waiting # {}
    BY <1>0, <1>7 DEF Finish, WakeUp, TypeOK, Due, Waiting
  <2> QED BY <1>0, <2>1, <2>2
<1> QED BY <1>1, <1>2, <1>3, <1>4, <1>5, <1>6, <1>7 DEF Next, WorkerStep

\* A job never stays queued while a worker sleeps with nobody on the way.
THEOREM PoolIsWorkConserving == Spec => []WorkConserving
<1>1. Init => WorkConserving
  BY DEF Init, WorkConserving, Waiting
<1> QED BY <1>1, PoolInvariance, NextWorkConserving, PTL DEF Spec
=============================================================================

----------------------------- MODULE ThreadPool -----------------------------
(***************************************************************************)
(* ThreadPool: one queue of jobs, a mutex, a condition variable and a fixed *)
(* set of workers. Its owner, the io thread, submits jobs and finally      *)
(* destroys it. A critical section is one step; a notification comes after *)
(* the mutex is released and is a step of its own. A worker may also wake  *)
(* up without being notified. Jobs end and do not throw.                   *)
(***************************************************************************)
EXTENDS Integers, Sequences, FiniteSets

CONSTANT Workers

\* The constructor makes one worker when asked for none.
ASSUME ThreadPoolAssumption == Workers # {} /\ IsFiniteSet(Workers)

VARIABLES
  jobs,       \* jobs_
  stopping,   \* stopping_
  owner,      \* what the owner does next
  worker,     \* worker -> where its loop is
  job,        \* worker -> the job it took last, 0 before the first
  submitted,  \* jobs are numbered as they are submitted
  finished    \* the jobs that have run to their end

vars == <<jobs, stopping, owner, worker, job, submitted, finished>>

TypeOK ==
  /\ jobs \in Seq(Nat)
  /\ stopping \in BOOLEAN
  /\ owner \in {"free", "notify_one", "notify_all", "join", "destroyed"}
  /\ worker \in [Workers -> {"lock", "wait", "run", "returned"}]
  /\ job \in [Workers -> Nat]
  /\ submitted \in Nat
  /\ finished \subseteq Nat

Init ==
  /\ jobs = <<>>
  /\ stopping = FALSE
  /\ owner = "free"
  /\ worker = [w \in Workers |-> "lock"]
  /\ job = [w \in Workers |-> 0]
  /\ submitted = 0
  /\ finished = {}

-----------------------------------------------------------------------------
(* The owner: submit() and the destructor.                                 *)

Waiting == {w \in Workers : worker[w] = "wait"}
Locking == {w \in Workers : worker[w] = "lock"}

Push ==
  /\ owner = "free"
  /\ submitted' = submitted + 1
  /\ jobs' = Append(jobs, submitted')
  /\ owner' = "notify_one"
  /\ UNCHANGED <<stopping, worker, job, finished>>

\* A notification that nobody gets.
NotifyNobody ==
  /\ owner = "notify_one"
  /\ owner' = "free"
  /\ UNCHANGED <<jobs, stopping, worker, job, submitted, finished>>

NotifyOne ==
  /\ owner = "notify_one"
  /\ owner' = "free"
  /\ IF Waiting = {} THEN UNCHANGED worker
     ELSE \E w \in Waiting : worker' = [worker EXCEPT ![w] = "lock"]
  /\ UNCHANGED <<jobs, stopping, job, submitted, finished>>

Stop ==
  /\ owner = "free"
  /\ stopping' = TRUE
  /\ owner' = "notify_all"
  /\ UNCHANGED <<jobs, worker, job, submitted, finished>>

\* notify_one in the destructor.
NotifyOneInstead ==
  /\ owner = "notify_all"
  /\ owner' = "join"
  /\ IF Waiting = {} THEN UNCHANGED worker
     ELSE \E w \in Waiting : worker' = [worker EXCEPT ![w] = "lock"]
  /\ UNCHANGED <<jobs, stopping, job, submitted, finished>>

NotifyAll ==
  /\ owner = "notify_all"
  /\ owner' = "join"
  /\ worker' = [w \in Workers |-> IF w \in Waiting THEN "lock" ELSE worker[w]]
  /\ UNCHANGED <<jobs, stopping, job, submitted, finished>>

Join ==
  /\ owner = "join"
  /\ \A w \in Workers : worker[w] = "returned"
  /\ owner' = "destroyed"
  /\ UNCHANGED <<jobs, stopping, worker, job, submitted, finished>>

-----------------------------------------------------------------------------
(* workerLoop. With the mutex held a worker goes to sleep, returns or      *)
(* takes the first job.                                                    *)

Sleep(w) ==
  /\ worker[w] = "lock"
  /\ ~stopping /\ jobs = <<>>
  /\ worker' = [worker EXCEPT ![w] = "wait"]
  /\ UNCHANGED <<jobs, stopping, owner, job, submitted, finished>>

\* A worker that leaves its queue behind when the pool is stopping.
ReturnAtOnce(w) ==
  /\ worker[w] = "lock"
  /\ stopping
  /\ worker' = [worker EXCEPT ![w] = "returned"]
  /\ UNCHANGED <<jobs, stopping, owner, job, submitted, finished>>

Return(w) ==
  /\ worker[w] = "lock"
  /\ stopping /\ jobs = <<>>
  /\ worker' = [worker EXCEPT ![w] = "returned"]
  /\ UNCHANGED <<jobs, stopping, owner, job, submitted, finished>>

\* A worker that trusts every wake-up: front() of an empty queue is garbage.
TakeUnchecked(w) ==
  /\ worker[w] = "lock"
  /\ job' = [job EXCEPT ![w] = IF jobs = <<>> THEN -1 ELSE Head(jobs)]
  /\ jobs' = IF jobs = <<>> THEN jobs ELSE Tail(jobs)
  /\ worker' = [worker EXCEPT ![w] = "run"]
  /\ UNCHANGED <<stopping, owner, submitted, finished>>

Take(w) ==
  /\ worker[w] = "lock"
  /\ jobs # <<>>
  /\ job' = [job EXCEPT ![w] = Head(jobs)]
  /\ jobs' = Tail(jobs)
  /\ worker' = [worker EXCEPT ![w] = "run"]
  /\ UNCHANGED <<stopping, owner, submitted, finished>>

Finish(w) ==
  /\ worker[w] = "run"
  /\ finished' = finished \cup {job[w]}
  /\ worker' = [worker EXCEPT ![w] = "lock"]
  /\ UNCHANGED <<jobs, stopping, owner, job, submitted>>

WakeUp(w) ==
  /\ worker[w] = "wait"
  /\ worker' = [worker EXCEPT ![w] = "lock"]
  /\ UNCHANGED <<jobs, stopping, owner, job, submitted, finished>>

-----------------------------------------------------------------------------
WorkerStep(w) == Sleep(w) \/ Return(w) \/ Take(w) \/ Finish(w)

Next ==
  \/ Push \/ NotifyOne \/ Stop \/ NotifyAll \/ Join
  \/ \E w \in Workers : WorkerStep(w) \/ WakeUp(w)

\* The owner may submit nothing more and never stop, but completes what it
\* began; workers keep running; nobody wakes up a sleeper but a notification.
Fairness ==
  /\ WF_vars(NotifyOne) /\ WF_vars(NotifyAll) /\ WF_vars(Join)
  /\ \A w \in Workers : WF_vars(WorkerStep(w))

Spec == Init /\ [][Next]_vars /\ Fairness

-----------------------------------------------------------------------------
(* What is checked.                                                        *)

\* The pool implements JobQueue: first come, first served, every job once,
\* and the destructor returns with no job queued or running.
JQ == INSTANCE JobQueue WITH
        started <- submitted - Len(jobs),
        phase <- CASE owner \in {"free", "notify_one"}    -> "open"
                   [] owner \in {"notify_all", "join"}    -> "closing"
                   [] owner = "destroyed"                 -> "closed"

JobsServed == JQ!Spec

\* No job is left in the queue while a worker sleeps, save those for which a
\* worker is already on its way to the mutex or a notification is due: the
\* notification after the unlock is not lost.
WorkConserving ==
  Waiting # {} =>
    Len(jobs) <= Cardinality(Locking) + (IF owner = "notify_one" THEN 1 ELSE 0)

\* The destructor returns: no worker sleeps through notify_all.
DestructorReturns == stopping ~> owner = "destroyed"
=============================================================================

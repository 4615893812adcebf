---------------------------- MODULE MCThreadPool ----------------------------
(***************************************************************************)
(* ThreadPool with a bound on the jobs that are submitted.                 *)
(***************************************************************************)
EXTENDS ThreadPool

CONSTANT MaxJobs    \* jobs submitted in one behaviour

MCNext ==
  \/ submitted < MaxJobs /\ Push
  \/ NotifyOne \/ Stop \/ NotifyAll \/ Join
  \/ \E w \in Workers : WorkerStep(w) \/ WakeUp(w)

MCSpec == Init /\ [][MCNext]_vars /\ Fairness

\* Every job that is submitted is run, also if the pool is being destroyed
\* meanwhile ("a job submitted just before shutdown still deserves to run").
EveryJobRuns == \A j \in 1 .. MaxJobs : j <= submitted ~> j \in finished
=============================================================================

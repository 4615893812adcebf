------------------------------ MODULE JobQueue ------------------------------
(***************************************************************************)
(* What a pool of workers promises, with no threads or locks: jobs start   *)
(* in the order of their submission, each of them once, and the pool is    *)
(* closed only when every job that was submitted has been finished.        *)
(***************************************************************************)
EXTENDS Naturals

VARIABLES
  submitted,   \* jobs are numbered as they are submitted
  started,     \* jobs 1 .. started have been begun
  finished,    \* the jobs that are done
  phase

vars == <<submitted, started, finished, phase>>

Init == submitted = 0 /\ started = 0 /\ finished = {} /\ phase = "open"

Submit ==
  /\ phase = "open"
  /\ submitted' = submitted + 1
  /\ UNCHANGED <<started, finished, phase>>

Start ==
  /\ started < submitted
  /\ started' = started + 1
  /\ UNCHANGED <<submitted, finished, phase>>

Finish ==
  /\ \E j \in 1 .. started : j \notin finished /\ finished' = finished \cup {j}
  /\ UNCHANGED <<submitted, started, phase>>

Close ==
  /\ phase = "open"
  /\ phase' = "closing"
  /\ UNCHANGED <<submitted, started, finished>>

Closed ==
  /\ phase = "closing"
  /\ started = submitted /\ finished = 1 .. submitted
  /\ phase' = "closed"
  /\ UNCHANGED <<submitted, started, finished>>

Next == Submit \/ Start \/ Finish \/ Close \/ Closed

Spec == Init /\ [][Next]_vars
=============================================================================

SPECIFICATION MCSpec
CONSTANTS
  Workers = {w1, w2, w3}
  MaxJobs = 4
INVARIANTS TypeOK WorkConserving
PROPERTIES JobsServed EveryJobRuns DestructorReturns
CHECK_DEADLOCK FALSE

CONSTANTS
  Runs = {r1, r2}
  Tasks = {t1, t2, t3}
  MaxWorkers = 2
  None = None
SPECIFICATION FairSpec
INVARIANTS
  WorkerBound
  CountIsExact
  NoWorkerLost
PROPERTIES
  AbortEndsRun
CHECK_DEADLOCK FALSE

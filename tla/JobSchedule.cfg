SPECIFICATION Spec
CONSTANTS
  j1 = j1
  j2 = j2
  t1 = t1
  t2 = t2
  t3 = t3
  th1 = th1
  th2 = th2
  c1 = c1
  c2 = c2
  Jobs = {j1}
  Tasks = {t1, t2}
  Things = {th1, th2}
  JobOf <- OneJob
  ThingOf <- TwoThings
  DirectJobs = {}
  ConcurrentOnTick = 10
  RunnerPoolSize = 2
  EventsLost = FALSE
  CheckerFails = FALSE
  EndBehaviors = {"NONE", "STOP_ROLLOUT", "CANCEL", "FORCE_CANCEL"}
  MaxPerMinute = 1
  TimeoutJobs = {}
  Callers = {c1}
  ApiOps = {"create", "update", "delete"}
  MaxCalls = 2
  MaxStarts = 2
SYMMETRY TasksAlike
INVARIANT TypeOK
INVARIANT ExecutedOncePerStart
INVARIANT NoEntryTwice
INVARIANT CompletedMeansDone
CHECK_DEADLOCK FALSE

SPECIFICATION FairSpec
CONSTANTS
  j1 = j1
  j2 = j2
  t1 = t1
  t2 = t2
  t3 = t3
  th1 = th1
  th2 = th2
  c1 = c1
  c2 = c2
  Jobs = {j1}
  Tasks = {t1, t2}
  Things = {th1, th2}
  JobOf <- OneJob
  ThingOf <- TwoThings
  DirectJobs = {j1}
  ConcurrentOnTick = 10
  RunnerPoolSize = 1
  EventsLost = TRUE
  CheckerFails = TRUE
  EndBehaviors = {"NONE"}
  MaxPerMinute = 0
  TimeoutJobs = {}
  Callers = {c1}
  ApiOps = {"create"}
  MaxCalls = 1
  MaxStarts = 2
PROPERTY JobFinishes
CHECK_DEADLOCK FALSE

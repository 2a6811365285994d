SPECIFICATION FairSpec
CONSTANTS
  j1 = j1
  j2 = j2
  t1 = t1
  t2 = t2
  t3 = t3
  th1 = th1
  th2 = th2
  c1 = c1
  c2 = c2
  Jobs = {j1, j2}
  Tasks = {t1, t2, t3}
  Things = {th1, th2}
  JobOf <- TwoJobs
  ThingOf <- ThreeTasks
  DirectJobs = {}
  ConcurrentOnTick = 10
  RunnerPoolSize = 2
  EventsLost = FALSE
  CheckerFails = FALSE
  EndBehaviors = {"NONE"}
  MaxPerMinute = 0
  TimeoutJobs = {}
  Callers = {c1}
  ApiOps = {"create", "update"}
  MaxCalls = 3
  MaxStarts = 1
PROPERTY RequestReturns
CHECK_DEADLOCK FALSE

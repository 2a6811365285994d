--------------------------- MODULE JobQueuedProofs ---------------------------
(***************************************************************************)
(* No queued task is lost.                                                 *)
(*                                                                         *)
(* A task goes from hand to hand: the goroutine that sets its job up, the  *)
(* list of rolloutLoop, the chunk it sends, the queue, sysOpTaskLoop, the  *)
(* parked tasks, the worker pool, the loop that records changes.  Each of  *)
(* them may let go of a task, on the ground of what it has read.           *)
(***************************************************************************)
EXTENDS JobOutcomeProofs

\* Nobody ends a job from outside: requests do not cancel or delete jobs and
\* no schedule stops them.  The code keeps the tasks of such jobs only: a job
\* that is canceled while it is set up is started again by rolloutLoop (module
\* JobSystem, CanceledJobNotRevived), its tasks with it or without, and
\* STOP_ROLLOUT drops the tasks that were not rolled out in time.
LeftAlone == ApiOps \cap {"cancel", "delete"} = {} /\ EndBehaviors \subseteq {"NONE"}

Live == {"WAITING", "IN_PROGRESS"}

\* Nothing is under way that ends a job.
CallsLive ==
  /\ \A c \in Callers : api[c].pc \in {"idle", "read", "write", "updateCtx"}
  /\ \A j \in Jobs : delJobW[j] = 0 /\ endBehavior[j] = "NONE" /\ phase[j] = "in"

\* A job runs until it is COMPLETED; tasks are of a job that has a row.
JobsLive ==
  \A j \in Jobs :
    /\ job[j] \in Live \union {NoRow, "COMPLETED"}
    /\ job[j] = NoRow => NoTasks(j) /\ creating[j].pc = "none"
    /\ job[j] = "IN_PROGRESS" => Begun(j)

\* So do the copies of its status.
EntriesLive ==
  /\ \A j \in Jobs : IsPending(j) => item[j].status \in Live
  /\ \A j \in Jobs : creating[j].pc # "none" => creating[j].status \in Live
  /\ ckPc = "finish" => ckStatus \in Live \union {"COMPLETED"}

\* rolloutLoop rolls out jobs that run, and drops entries without tasks only.
RoundLive ==
  /\ roPc \in {"select", "sched", "finish", "clear", "set", "put"}
  /\ roPc \in {"finish", "clear", "set", "put"} =>
       item[pending[roI]].status = "IN_PROGRESS"
  /\ roPc = "clear" => item[pending[roI]].tasks = {}

\* A job leaves the list, and loses its context, when it has no open task.
CheckedOver == \A j \in ckJob : AllTasksTerminal(j)

\* The tasks of job j were inserted, and will not be again.
Inserted(j) == /\ j \notin fresh /\ creating[j].pc # "insert"
               /\ \A c \in Callers : ~Creates(c, j)

\* The runner is told to drop a task that is canceled or deleted.
DroppedOver == \A t \in Tasks : delTaskW[t] > 0 => task[t] # "QUEUED" /\ Inserted(JobOf[t])

\* The loop that records changes has one at a time.
OneChange == \A c, d \in watchMsg : c = d

\* No queued task on its way to the pool is given up for its job's context.
LetThrough ==
  \A m \in roChunk \union curQ \union offline \union hand :
    task[IdOf(m)] = "QUEUED" => ctx[JobOfCopy(m)] \in Live

\* Who has task t: a list, a loop, a worker, or the change that will end it.
HasCopy(t, ms) == \E m \in ms : IdOf(m) = t
Held(t) ==
  \/ HasCopy(t, item[JobOf[t]].tasks)
  \/ HasCopy(t, roChunk)
  \/ HasCopy(t, curQ)
  \/ HasCopy(t, offline)
  \/ HasCopy(t, hand)
  \/ \E e \in inflight : e[1] = t
  \/ watchPc = "update" /\ \E c \in watchMsg : c[1] = t

QueuedHeld ==
  \A t \in Tasks : task[t] = "QUEUED" =>
    /\ creating[JobOf[t]].pc = "add" => HasCopy(t, creating[JobOf[t]].tasks)
    /\ Begun(JobOf[t]) => Held(t)

LiveInv == CallsLive /\ JobsLive /\ EntriesLive /\ RoundLive
HeldInv == /\ CompletionInv /\ LiveInv /\ CheckedOver /\ DroppedOver /\ OneChange
           /\ LetThrough /\ QueuedHeld

-----------------------------------------------------------------------------
(* Nothing ends a job.                                                     *)

\* What a request can be.
LEMMA RequestIs ==
  ASSUME LeftAlone, NEW c \in Callers, Request(c)
  PROVE  \/ \E j \in Jobs : CreateJob(c, j) \/ UpdateJob(c, j)
         \/ \E t \in Tasks, force \in BOOLEAN : CancelTask(c, t, force) \/ DeleteTask(c, t, force)
<1>1. ASSUME NEW j \in Jobs, NEW force \in BOOLEAN, CancelJob(c, j, force) \/ DeleteJob(c, j, force)
      PROVE  FALSE
  BY <1>1 DEF CancelJob, DeleteJob, Accept, LeftAlone
<1> QED BY <1>1 DEF Request, TasksOf

\* No request comes to a step that ends a job.
LEMMA CallsLiveStep ==
  ASSUME LeftAlone, TypeOK, CallsLive, [Next]_vars
  PROVE  CallsLive'
<1>1. ASSUME NEW c \in Callers  PROVE api'[c].pc \in {"idle", "read", "write", "updateCtx"}
  <2>1. CASE api'[c] = api[c]
    BY <2>1 DEF CallsLive
  <2>2. CASE Request(c)
    BY <2>1, <2>2, RequestIs
    DEF CreateJob, UpdateJob, CancelTask, DeleteTask, Accept, AcceptTask, TypeOK, ApiType
  <2>3. CASE CallerStep(c) \/ CallerSends(c)
    BY <2>3
    DEF CallsLive, CallerStep, CreateRead, UpdateWrite, DeleteTasks, CallerContext,
        CallerCanceled, CallerSends, UpdateContext, CallerRemove, GoTo, Return, Idle,
        TypeOK, ApiType
  <2>4. CASE Restart
    BY <2>4 DEF Restart, Idle
  <2> QED BY <2>1, <2>2, <2>3, <2>4, ApiMove
<1> DEFINE Others == \A j \in Jobs : delJobW'[j] = 0 /\ endBehavior'[j] = "NONE" /\ phase'[j] = "in"
<1>2. ASSUME UNCHANGED <<delJobW, timeVars>>  PROVE Others
  BY <1>2 DEF CallsLive, timeVars
<1>3. ASSUME NEW c \in Callers, Request(c)  PROVE Others
  <2>1. ASSUME NEW j \in Jobs, CreateJob(c, j)  PROVE Others
    <3>1. /\ delJobW' = delJobW
          /\ endBehavior' = [endBehavior EXCEPT ![j] = "NONE"]
          /\ phase' = [phase EXCEPT ![j] = "in"]
      BY <2>1 DEF CreateJob, LeftAlone, poolJobVars
    <3> QED BY <3>1 DEF CallsLive, TypeOK, TimeType
  <2>2. CASE \A j \in Jobs : ~CreateJob(c, j)
    BY <1>2, <1>3, <2>2, RequestIs
    DEF UpdateJob, CancelTask, DeleteTask, centerVars, poolJobVars
  <2> QED BY <2>1, <2>2
<1>4. ASSUME NEW c \in Callers, CallerStep(c) \/ CallerSends(c)  PROVE Others
  BY <1>2, <1>4
  DEF CallsLive, CallerStep, CreateRead, UpdateWrite, DeleteTasks, CallerContext,
      CallerCanceled, CallerSends, UpdateContext, CallerRemove, centerVars, poolJobVars
<1>5. ASSUME \/ \E j \in Jobs : PoolStep(j) \/ PoolAdd(j) \/ PoolDelJob(j)
             \/ \E t \in Tasks : PoolDelTask(t)
      PROVE  Others
  BY <1>2, <1>5 DEF CallsLive, PoolStep, PoolInsert, PoolFind, PoolAdd, PoolDelJob, PoolDelTask
<1>6. ASSUME RolloutStep \/ RolloutSends  PROVE Others
  BY <1>2, <1>6
  DEF RolloutStep, RolloutLocal, RolloutWritesJob, RolloutFinishes, RolloutWritesTasks,
      RolloutWritesContext, RolloutSends, RolloutFrame, poolJobVars
<1>7. ASSUME \/ LoopStep \/ LoopSends \/ LoopHears
             \/ \E e \in inflight : WorkerSends(e)
             \/ \E th \in DirectThings : Presence(th)
             \/ WatchWrites \/ WatchSends \/ CheckStep \/ CheckSends
             \/ UNCHANGED vars
      PROVE  Others
  BY <1>2, <1>7
  DEF LoopStep, LoopLocal, LoopToPool, LoopSends, LoopHears, WorkerSends, Presence,
      LoopFrame, WatchWrites, WatchSends, CheckStep, CheckLocal, CheckFinishes,
      CheckWritesContext, CheckSends, CheckFrame, vars, centerVars, poolJobVars
<1>8. ASSUME Clock  PROVE Others
  BY <1>2, <1>8 DEF Clock, TimePasses, CallsLive, poolJobVars
<1>9. ASSUME Restart  PROVE Others
  BY <1>9 DEF Restart, CallsLive, timeVars
<1> HIDE DEF Others
<1>10. Others
  BY <1>3, <1>4, <1>5, <1>6, <1>7, <1>8, <1>9 DEF Next
<1> QED BY <1>1, <1>10 DEF CallsLive, Others

\* What a step can do to the row of a job.
LEMMA JobMove ==
  ASSUME LeftAlone, TypeOK, LiveInv, [Next]_vars, NEW j \in Jobs
  PROVE  \/ job'[j] = job[j]
         \/ job[j] = NoRow /\ job'[j] = "WAITING"
         \/ job[j] # NoRow /\ job'[j] = "IN_PROGRESS" /\ RoInTime(j)
         \/ job[j] # NoRow /\ job'[j] = "COMPLETED"
<1> DEFINE Moved == \/ job'[j] = job[j]
                    \/ job[j] = NoRow /\ job'[j] = "WAITING"
                    \/ job[j] # NoRow /\ job'[j] = "IN_PROGRESS" /\ RoInTime(j)
                    \/ job[j] # NoRow /\ job'[j] = "COMPLETED"
<1>0. CallsLive /\ JobsLive /\ EntriesLive /\ RoundLive
  BY DEF LiveInv
<1>1. CASE UNCHANGED job
  BY <1>1
<1>2. ASSUME NEW c \in Callers, Request(c)  PROVE Moved
  BY <1>2, RequestIs
  DEF CreateJob, InsertJob, UpdateJob, CancelTask, DeleteTask, repoVars, TypeOK, RepoType
<1>3. ASSUME NEW c \in Callers, CallerStep(c) \/ CallerSends(c)  PROVE Moved
  BY <1>0, <1>3
  DEF CallsLive, CallerStep, CreateRead, UpdateWrite, DeleteTasks, CallerContext,
      CallerCanceled, CallerSends, UpdateContext, CallerRemove, repoVars
<1>4. ASSUME NEW i \in Jobs, NEW s \in Live \union {"COMPLETED"}, DoFinishJob(i, s)
      PROVE  Moved
  BY <1>0, <1>4 DEF DoFinishJob, FinishedRow, FinishedStatus, Live, TypeOK, RepoType
<1>5. ASSUME RolloutStep \/ RolloutSends  PROVE Moved
  <2>1. ASSUME NEW i \in Jobs, RoInTime(i)  PROVE Moved
    BY <2>1 DEF RoInTime, JobWritten, TypeOK, RepoType
  <2>2. ASSUME NEW i \in Jobs, RoFinish(i)  PROVE Moved
    BY <1>0, <1>4, <2>2 DEF RoFinish, RoundLive, Live
  <2>3. ASSUME NEW i \in Jobs  PROVE ~RoEndJob(i) /\ ~RoEndTasks(i)
    BY <1>0 DEF RoEndJob, RoEndTasks, RoundLive
  <2> QED BY <1>1, <1>5, <2>1, <2>2, <2>3
      DEF RolloutStep, RolloutLocal, RolloutWritesJob, RolloutFinishes,
          RolloutWritesTasks, RolloutWritesContext, RolloutSends
<1>6. ASSUME CheckFinishes  PROVE Moved
  <2>1. PICK i \in ckJob : CkFinish(i)
    BY <1>6 DEF CheckFinishes
  <2> QED BY <1>0, <1>4, <2>1 DEF CkFinish, EntriesLive, TypeOK, CheckType
<1>7. ASSUME Restart  PROVE Moved
  BY <1>0, <1>7 DEF Restart, FinishedRow, FinishedStatus, JobsLive, Live, PendingRows
<1>8. ASSUME \/ \E i \in Jobs : PoolStep(i) \/ PoolAdd(i) \/ PoolDelJob(i)
             \/ \E u \in Tasks : PoolDelTask(u)
             \/ LoopStep \/ LoopSends \/ LoopHears
             \/ \E e \in inflight : WorkerSends(e)
             \/ WatchWrites \/ WatchSends
             \/ CheckLocal \/ CheckWritesContext \/ CheckSends \/ Clock
             \/ \E th \in DirectThings : Presence(th)
             \/ UNCHANGED vars
      PROVE  job' = job
  BY <1>8
  DEF PoolStep, PoolInsert, PoolFind, PoolAdd, PoolDelJob, PoolDelTask,
      LoopStep, LoopLocal, LoopToPool, LoopSends, LoopHears, WorkerSends, Presence,
      LoopFrame, WatchWrites, WatchSends, CheckLocal, CheckWritesContext,
      CheckSends, Clock, vars, repoVars
<1> HIDE DEF Moved
<1>9. Moved
  BY <1>1, <1>2, <1>3, <1>5, <1>6, <1>7, <1>8 DEF Next, CheckStep, Moved
<1> QED BY <1>9 DEF Moved

\* A job that has a row keeps it.
LEMMA JobsLiveStep ==
  ASSUME LeftAlone, HandoverInv, LiveInv, [Next]_vars
  PROVE  JobsLive'
<1> SUFFICES ASSUME NEW j \in Jobs
             PROVE  /\ job'[j] \in Live \union {NoRow, "COMPLETED"}
                    /\ job'[j] = NoRow => NoTasks(j)' /\ creating'[j].pc = "none"
                    /\ job'[j] = "IN_PROGRESS" => Begun(j)'
  BY DEF JobsLive
<1>0. TypeOK /\ SetUpOnce /\ JobsLive /\ PendingBegun
  BY DEF HandoverInv, SafetyInv, ListInv, LiveInv
<1>1. job'[j] \in Live \union {NoRow, "COMPLETED"}
  BY <1>0, JobMove DEF JobsLive, Live
<1>2. ASSUME job'[j] = NoRow
      PROVE  NoTasks(j)' /\ creating'[j].pc = "none"
  <2>1. job[j] = NoRow /\ NoTasks(j) /\ creating[j].pc = "none"
    BY <1>0, <1>2, JobMove DEF JobsLive, NoRow
  <2>2. ASSUME NEW c \in Callers, CreateRead(c)  PROVE creating'[j] = creating[j]
    BY <1>0, <2>1, <2>2 DEF CreateRead, TypeOK, PoolJobType
  <2>3. ASSUME NEW c \in Callers, NEW i \in Jobs, CreateJob(c, i)
        PROVE  creating'[j] = creating[j]
    BY <2>3 DEF CreateJob, poolJobVars
  <2>4. creating'[j].pc = "none"
    BY <1>0, <2>1, <2>2, <2>3, SetUpMove
  <2> QED BY <1>0, <2>1, <2>4, NoTasksStay
<1>3. ASSUME job'[j] = "IN_PROGRESS"  PROVE Begun(j)'
  <2>1. CASE RoInTime(j)
    BY <1>0, <2>1, WorksOnPending, BegunStays DEF RoInTime, PendingBegun
  <2>2. CASE ~RoInTime(j)
    BY <1>0, <1>3, <2>2, JobMove, BegunStays DEF JobsLive, NoRow
  <2> QED BY <2>1, <2>2
<1> QED BY <1>1, <1>2, <1>3

\* A set-up starts with the status of a job that runs.
LEMMA SetUpLiveStep ==
  ASSUME CompletionInv, LiveInv, [Next]_vars, NEW j \in Jobs, creating'[j].pc # "none"
  PROVE  creating'[j].status \in Live
<1>0. TypeOK /\ SetUpOnce /\ JobsLive /\ EntriesLive /\ CompletedDone
  BY DEF CompletionInv, HandoverInv, SafetyInv, LiveInv
<1>1. CASE creating'[j] = creating[j]
  BY <1>0, <1>1 DEF EntriesLive
<1>2. ASSUME NEW c \in Callers, CreateRead(c), api[c].job = j
      PROVE  creating'[j].status \in Live
  <2>1. ~Begun(j)
    BY <1>2 DEF CreateRead, Begun, Creates
  <2>2. creating'[j] = creating[j] \/ (job[j] # NoRow /\ creating'[j].status = job[j])
    BY <1>0, <1>2 DEF CreateRead, TypeOK, PoolJobType
  <2> QED BY <1>0, <1>1, <2>1, <2>2 DEF JobsLive, CompletedDone, Live
<1>3. ASSUME PoolStep(j)  PROVE creating'[j].status \in Live
  <2>1. creating[j].pc # "none" /\ creating'[j].status = creating[j].status
    BY <1>0, <1>3 DEF PoolStep, PoolInsert, PoolFind, CreateInsert, CreateFind, TypeOK, PoolJobType
  <2> QED BY <1>0, <2>1 DEF EntriesLive
<1>4. \/ creating'[j] = creating[j] \/ PoolStep(j)
      \/ \E c \in Callers : CreateRead(c) /\ api[c].job = j
  <2>1. creating'[j] # NotCreating
    BY DEF NotCreating
  <2>2. CreatingMove(j)
    BY <1>0, EveryCreatingMove
  <2> QED BY <2>1, <2>2 DEF CreatingMove, PoolStep
<1> QED BY <1>1, <1>2, <1>3, <1>4

\* What rolloutLoop, the set-ups and the check hold are jobs that run.
LEMMA EntriesLiveStep ==
  ASSUME LeftAlone, CompletionInv, LiveInv, [Next]_vars
  PROVE  EntriesLive'
<1>0. /\ TypeOK /\ TypeOK' /\ PendingOnce /\ PendingBegun /\ ItemIfPending
      /\ JobsLive /\ EntriesLive /\ RoundLive
  BY NextType DEF CompletionInv, HandoverInv, SafetyInv, ListInv, LiveInv
<1>1. ASSUME NEW j \in Jobs, IsPending(j)'  PROVE item'[j].status \in Live
  <2>1. CASE ListKept
    <3>1. IsPending(j) /\ ~RoEndCancel(j)
      BY <1>0, <1>1, <2>1 DEF ListKept, IsPending, RoEndCancel, RoundLive
    <3> QED BY <1>0, <2>1, <3>1 DEF ListKept, StatusMove, EntriesLive, Live
  <2>2. ASSUME NEW i \in DOMAIN pending, RoTakeOut(i)  PROVE item'[j].status \in Live
    <3>1. IsPending(j) /\ j # pending[i]
      BY <1>0, <1>1, <2>2, TakeOutList
    <3> QED BY <1>0, <2>2, <3>1 DEF RoTakeOut, EntriesLive, TypeOK, RolloutType
  <2>3. ASSUME NEW i \in Jobs, PoolAdd(i)  PROVE item'[j].status \in Live
    <3>1. creating[i].pc = "add" /\ pending' = Append(pending, i)
      BY <2>3 DEF PoolAdd, RoAdd
    <3>2. ~IsPending(i)
      BY <1>0, <3>1 DEF PendingBegun, Begun
    <3>3. IsPending(j) \/ j = i
      BY <1>0, <1>1, <3>1, <3>2, AppendList
    <3>4. item'[i].status = creating[i].status /\ (j # i => item'[j] = item[j])
      BY <1>0, <2>3 DEF PoolAdd, RoAdd, TypeOK, RolloutType
    <3> QED BY <1>0, <3>1, <3>3, <3>4 DEF EntriesLive
  <2>4. ASSUME NEW i \in Jobs, RoReload(i)  PROVE item'[j].status \in Live
    BY <1>0, <2>4 DEF RoReload, RoundLive
  <2>5. CASE Restart
    <3>1. j \in PendingRows /\ OpenTasks(j) # {}
      BY <1>0, <1>1, <2>5, RestartList
    <3> QED BY <1>0, <2>5, <3>1 DEF Restart, JobsLive, PendingRows, Live, NoRow
  <2> QED BY <1>0, <2>1, <2>2, <2>3, <2>4, <2>5, EveryListMove DEF ListMove
<1>2. ASSUME ckPc' = "finish"  PROVE ckStatus' \in Live \union {"COMPLETED"}
  <2>1. CASE UNCHANGED ckVars
    BY <1>0, <1>2, <2>1 DEF ckVars, EntriesLive
  <2>2. CASE CheckLocal
    BY <1>0, <1>2, <2>2
    DEF CheckLocal, CkTick, CkCount, CkGoesOn, CkGet, EntriesLive, JobsLive, TypeOK, CheckType
  <2>3. CASE CheckFinishes \/ CheckWritesContext \/ CheckSends \/ WatchSends \/ Restart
    BY <1>0, <1>2, <2>3
    DEF CheckFinishes, CheckWritesContext, CheckSends, CkFinish, CkContext, CkRemove,
        CkGoesOn, WatchSends, CkReceive, Restart, EntriesLive
  <2> QED BY <2>1, <2>2, <2>3, CheckMove
<1>3. \A j \in Jobs : creating'[j].pc # "none" => creating'[j].status \in Live
  BY SetUpLiveStep
<1> QED BY <1>1, <1>2, <1>3 DEF EntriesLive

\* rolloutLoop meets no job that is not in its time, or that ends.
LEMMA RoundLiveStep ==
  ASSUME LeftAlone, CompletionInv, LiveInv, [Next]_vars
  PROVE  RoundLive'
<1>0. /\ TypeOK /\ CallsLive /\ EntriesLive /\ RoundLive /\ FinishEmpty
  BY DEF CompletionInv, HandoverInv, SafetyInv, LiveInv
<1>1. ASSUME UNCHANGED roVars  PROVE RoundLive'
  BY <1>0, <1>1 DEF RoundLive, roVars
<1>2. ASSUME roPc' \in {"select", "sched"}  PROVE RoundLive'
  BY <1>2 DEF RoundLive
<1>3. ASSUME NEW c \in Callers, Request(c) \/ CallerStep(c)  PROVE UNCHANGED roVars
  BY <1>3
  DEF Request, CreateJob, UpdateJob, CancelJob, DeleteJob, CancelTask, DeleteTask,
      CallerStep, CreateRead, UpdateWrite, DeleteTasks, CallerContext,
      CallerCanceled, centerVars
<1>4. ASSUME NEW c \in Callers, CallerSends(c)  PROVE roPc' \in {"select", "sched"}
  BY <1>4
  DEF CallerSends, UpdateContext, RoUpdateContext, RoundStarts, CallerRemove, RoRemove
<1>5. ASSUME NEW j \in Jobs, PoolAdd(j)  PROVE roPc' \in {"select", "sched"}
  BY <1>5 DEF PoolAdd, RoAdd, RoundStarts
<1>6. ASSUME \/ \E j \in Jobs : PoolStep(j) \/ PoolDelJob(j)
             \/ \E t \in Tasks : PoolDelTask(t)
             \/ LoopStep \/ LoopSends \/ LoopHears
             \/ \E e \in inflight : WorkerSends(e)
             \/ \E th \in DirectThings : Presence(th)
             \/ WatchWrites \/ WatchSends \/ CheckStep \/ UNCHANGED vars
      PROVE  UNCHANGED roVars
  BY <1>6
  DEF PoolStep, PoolInsert, PoolFind, PoolDelJob, PoolDelTask, LoopStep, LoopLocal,
      LoopToPool, LoopSends, LoopHears, WorkerSends, Presence, LoopFrame, WatchWrites,
      WatchSends, CheckStep, CheckLocal, CheckFinishes, CheckWritesContext, vars,
      centerVars
<1>7. ASSUME CheckSends \/ Restart  PROVE roPc' \in {"select", "sched"}
  BY <1>7 DEF CheckSends, RoRemove, Restart
<1>8. ASSUME Clock  PROVE RoundLive'
  <2>1. ASSUME NEW j \in Jobs, WindowSlides(j)  PROVE RoundLive'
    <3>1. \A i \in Jobs : item'[i].tasks = item[i].tasks /\ item'[i].status = item[i].status
      BY <1>0, <2>1 DEF WindowSlides, TypeOK, RolloutType
    <3>2. roPc # "select" => pending[roI] \in Jobs
      BY <1>0, WorksOnPending
    <3> QED BY <1>0, <2>1, <3>1, <3>2 DEF WindowSlides, RoundLive
  <2> QED BY <1>1, <1>8, <2>1 DEF Clock
<1>9. ASSUME RolloutStep \/ RolloutSends  PROVE RoundLive'
  <2>1. ASSUME NEW j \in Jobs, RoInTime(j)  PROVE RoundLive'
    <3>1. IsPending(j)
      BY <1>0, <2>1, WorksOnPending DEF RoInTime
    <3>2. pending'[roI'] = j /\ roPc' \in {"finish", "set"}
      BY <2>1 DEF RoInTime
    <3>3. item'[j].status = "IN_PROGRESS"
      BY <1>0, <2>1, <3>1 DEF RoInTime, EntriesLive, Live, TypeOK, RolloutType
    <3> QED BY <3>2, <3>3 DEF RoundLive
  <2>2. ASSUME NEW j \in Jobs, RoFinish(j)  PROVE RoundLive'
    BY <1>0, <2>2 DEF RoFinish, RoundLive, FinishEmpty
  <2>3. ASSUME NEW j \in Jobs, RoSet(j)  PROVE RoundLive'
    <3>1. pending'[roI'] = j /\ item[j].status = "IN_PROGRESS"
      BY <1>0, <2>3 DEF RoSet, RoundLive
    <3>2. item'[j].status = item[j].status
      BY <1>0, <2>3 DEF RoSet, TypeOK, RolloutType
    <3>3. roPc' = "put" \/ (roPc' = "clear" /\ item'[j].tasks = {})
      BY <2>3 DEF RoSet, NothingRemains
    <3> QED BY <3>1, <3>2, <3>3 DEF RoundLive
  <2>4. ASSUME NEW j \in Jobs, RoClear(j) \/ RoPut(j)  PROVE RoundLive'
    BY <1>2, <2>4 DEF RoClear, RoPut, RoundGoesOn
  <2>5. ASSUME NEW j \in Jobs
        PROVE  /\ ~RoNotInTime(j) /\ ~RoBeforeStart(j) /\ ~RoStopRollout(j) /\ ~RoEndCancel(j)
               /\ ~RoEndRunner(j) /\ ~RoEndTasks(j) /\ ~RoEndJob(j) /\ ~RoReload(j)
    BY <1>0 DEF RoNotInTime, RoBeforeStart, RoStopRollout, RoEndCancel, RoEndRunner,
                RoEndTasks, RoEndJob, RoReload, CallsLive, RoundLive
  <2>6. CASE RoTick
    BY <1>2, <2>6 DEF RoTick, RoundStarts
  <2> QED BY <1>9, <2>1, <2>2, <2>3, <2>4, <2>5, <2>6
      DEF RolloutStep, RolloutLocal, RolloutWritesJob, RolloutFinishes,
          RolloutWritesTasks, RolloutWritesContext, RolloutSends
<1> QED BY <1>1, <1>2, <1>3, <1>4, <1>5, <1>6, <1>7, <1>8, <1>9 DEF Next

-----------------------------------------------------------------------------
(* Nothing gives up a queued task.                                         *)

\* A task that is queued after a step was queued before it, or is inserted by
\* the step.
LEMMA QueuedBefore ==
  ASSUME TypeOK, SetUpOnce, [Next]_vars, NEW t \in Tasks, task'[t] = "QUEUED"
  PROVE  \/ task[t] = "QUEUED"
         \/ creating[JobOf[t]].pc = "insert" /\ creating'[JobOf[t]].pc = "find"
<1>1. TaskMove(t)
  BY EveryTaskMove
<1> QED BY <1>1 DEF TaskMove, NoRow

\* checkFinishJob.
LEMMA CheckedOverStep ==
  ASSUME HandoverInv, CheckedOver, [Next]_vars
  PROVE  CheckedOver'
<1> SUFFICES ASSUME NEW j \in ckJob'  PROVE AllTasksTerminal(j)'
  BY DEF CheckedOver
<1>0. TypeOK /\ TypeOK' /\ SetUpOnce /\ ChecksBegun
  BY NextType DEF HandoverInv, SafetyInv, RunnerInv
<1>1. ASSUME j \in ckTodo \union ckJob, AllTasksTerminal(j)
      PROVE  AllTasksTerminal(j)'
  BY <1>0, <1>1, TerminalStays DEF ChecksBegun, Begun, TypeOK, CheckType
<1>2. j \in ckJob \/ (j \in ckTodo /\ AllTasksTerminal(j)) \/ Restart
  <2>1. CASE UNCHANGED ckVars
    BY <2>1 DEF ckVars
  <2>2. CASE CheckLocal
    BY <2>2 DEF CheckLocal, CkTick, CkCount, CkGet
  <2>3. CASE CheckFinishes \/ CheckWritesContext \/ CheckSends \/ WatchSends
    BY <2>3 DEF CheckFinishes, CheckWritesContext, CheckSends, CkFinish, CkContext,
                CkRemove, WatchSends, CkReceive
  <2> QED BY <2>1, <2>2, <2>3, CheckMove
<1>3. ~Restart
  BY DEF Restart
<1> QED BY <1>1, <1>2, <1>3 DEF CheckedOver

\* The tasks of a job are not inserted a second time.
LEMMA InsertedStays ==
  ASSUME TypeOK, [Next]_vars, NEW j \in Jobs, Inserted(j)
  PROVE  Inserted(j)'
<1>1. creating'[j].pc # "insert"
  <2>1. ASSUME NEW c \in Callers, CreateRead(c)  PROVE api[c].job # j
    BY <2>1 DEF CreateRead, Inserted, Creates
  <2>2. ASSUME PoolFind(j)  PROVE creating'[j].pc = "add"
    BY <2>2 DEF PoolFind, CreateFind, TypeOK, PoolJobType
  <2>3. CreatingMove(j)
    BY EveryCreatingMove
  <2> QED BY <2>1, <2>2, <2>3 DEF CreatingMove, Inserted, NotCreating
<1>2. ASSUME NEW c \in Callers, NEW i \in Jobs, CreateJob(c, i)
      PROVE  j \notin fresh' /\ \A d \in Callers : ~Creates(d, j)'
  <2>1. i # j /\ fresh' = fresh \ {i}
    BY <1>2 DEF CreateJob, Inserted
  <2>2. \A d \in Callers : Creates(d, j)' => Creates(d, j)
    BY <1>2, <2>1 DEF CreateJob, Accept, Creates, TypeOK, ApiType
  <2> QED BY <2>1, <2>2 DEF Inserted
<1>3. ASSUME NEW c \in Callers, CreateRead(c)
      PROVE  j \notin fresh' /\ \A d \in Callers : ~Creates(d, j)'
  <2>1. fresh' = fresh
    BY <1>3 DEF CreateRead
  <2>2. \A d \in Callers : Creates(d, j)' => Creates(d, j)
    BY <1>3 DEF CreateRead, Return, Idle, Creates, TypeOK, ApiType
  <2> QED BY <2>1, <2>2 DEF Inserted
<1> QED BY <1>1, <1>2, <1>3, SetUpMove DEF Inserted

\* Who starts a goroutine that tells the runner to drop a task.
LEMMA DropMove ==
  ASSUME TypeOK, [Next]_vars, NEW t \in Tasks, delTaskW'[t] > 0
  PROVE  \/ delTaskW[t] > 0
         \/ \E c \in Callers, force \in BOOLEAN :
              CancelTask(c, t, force) \/ DeleteTask(c, t, force)
<1>1. ASSUME UNCHANGED delTaskW  PROVE delTaskW[t] > 0
  BY <1>1
<1>2. ASSUME NEW c \in Callers, NEW u \in Tasks, NEW force \in BOOLEAN,
             CancelTask(c, u, force) \/ DeleteTask(c, u, force), u # t
      PROVE  delTaskW[t] > 0
  BY <1>2 DEF CancelTask, DeleteTask, TypeOK, PoolJobType
<1>3. ASSUME NEW c \in Callers, NEW j \in Jobs,
             \/ CreateJob(c, j) \/ UpdateJob(c, j)
             \/ \E force \in BOOLEAN : CancelJob(c, j, force) \/ DeleteJob(c, j, force)
      PROVE  delTaskW[t] > 0
  BY <1>1, <1>3 DEF CreateJob, UpdateJob, CancelJob, DeleteJob, centerVars, poolJobVars
<1>4. ASSUME NEW c \in Callers, CallerStep(c) \/ CallerSends(c)
      PROVE  delTaskW[t] > 0
  BY <1>1, <1>4
  DEF CallerStep, CreateRead, UpdateWrite, DeleteTasks, CallerContext, CallerCanceled,
      CallerSends, UpdateContext, CallerRemove, centerVars, poolJobVars
<1>5. ASSUME NEW u \in Tasks, PoolDelTask(u)  PROVE delTaskW[t] > 0
  BY <1>5 DEF PoolDelTask, TypeOK, PoolJobType
<1>6. ASSUME \/ \E i \in Jobs : PoolStep(i) \/ PoolAdd(i) \/ PoolDelJob(i)
             \/ RolloutStep \/ RolloutSends
      PROVE  delTaskW[t] > 0
  BY <1>1, <1>6
  DEF PoolStep, PoolInsert, PoolFind, PoolAdd, PoolDelJob, RolloutStep,
      RolloutLocal, RolloutWritesJob, RolloutFinishes, RolloutWritesTasks,
      RolloutWritesContext, RolloutSends, RolloutFrame, poolJobVars
<1>7. ASSUME \/ LoopStep \/ LoopSends \/ LoopHears
             \/ \E e \in inflight : WorkerSends(e)
             \/ \E th \in DirectThings : Presence(th)
             \/ WatchWrites \/ WatchSends \/ CheckStep \/ CheckSends \/ Clock
             \/ UNCHANGED vars
      PROVE  delTaskW[t] > 0
  BY <1>1, <1>7
  DEF LoopStep, LoopLocal, LoopToPool, LoopSends, LoopHears, WorkerSends, Presence,
      LoopFrame, WatchWrites, WatchSends, CheckStep, CheckLocal, CheckFinishes,
      CheckWritesContext, CheckSends, CheckFrame, Clock, vars, centerVars, poolJobVars
<1>8. ~Restart
  BY DEF Restart
<1>9. ASSUME NEW c \in Callers, Request(c)
      PROVE  \/ delTaskW[t] > 0
             \/ \E force \in BOOLEAN : CancelTask(c, t, force) \/ DeleteTask(c, t, force)
  BY <1>2, <1>3, <1>9 DEF Request, TasksOf
<1> QED BY <1>4, <1>5, <1>6, <1>7, <1>8, <1>9 DEF Next

\* A task that is being dropped does not become queued again.
LEMMA DroppedOverStep ==
  ASSUME TypeOK, SetUpOnce, DroppedOver, [Next]_vars
  PROVE  DroppedOver'
<1> SUFFICES ASSUME NEW t \in Tasks, delTaskW'[t] > 0
             PROVE  task'[t] # "QUEUED" /\ Inserted(JobOf[t])'
  BY DEF DroppedOver, Inserted
<1>0. JobOf[t] \in Jobs
  BY RepoAssumption
<1>1. CASE delTaskW[t] > 0
  BY <1>0, <1>1, QueuedBefore, InsertedStays DEF DroppedOver, Inserted
<1>2. ASSUME NEW c \in Callers, NEW force \in BOOLEAN,
             CancelTask(c, t, force) \/ DeleteTask(c, t, force)
      PROVE  task'[t] # "QUEUED" /\ Inserted(JobOf[t])'
  <2>1. task[t] # NoRow /\ task'[t] # "QUEUED"
    BY <1>2 DEF CancelTask, DeleteTask, TypeOK, RepoType, NoRow
  <2>2. Inserted(JobOf[t])
    BY <1>0, <2>1 DEF SetUpOnce, NoTasks, TasksOf, Inserted
  <2> QED BY <1>0, <2>1, <2>2, InsertedStays
<1> QED BY <1>1, <1>2, DropMove

\* Which steps are of the runner.
LEMMA RunnerMove ==
  ASSUME [Next]_vars
  PROVE  \/ UNCHANGED <<loopVars, poolVars, watchVars>>
         \/ \E j \in Jobs : PoolDelJob(j)
         \/ \E u \in Tasks : PoolDelTask(u)
         \/ RolloutSends
         \/ LoopLocal \/ LoopToPool \/ LoopSends \/ LoopHears
         \/ \E e \in inflight : WorkerSends(e)
         \/ WatchWrites \/ WatchSends \/ Restart
<1> DEFINE Same == UNCHANGED <<loopVars, poolVars, watchVars>>
<1>1. ASSUME NEW c \in Callers, Request(c) \/ CallerStep(c) \/ CallerSends(c)
      PROVE  Same
  BY <1>1
  DEF Request, CreateJob, UpdateJob, CancelJob, DeleteJob, CancelTask, DeleteTask,
      CallerStep, CreateRead, UpdateWrite, DeleteTasks, CallerContext,
      CallerCanceled, CallerSends, UpdateContext, CallerRemove, runnerVars
<1>2. ASSUME \/ \E i \in Jobs : PoolStep(i) \/ PoolAdd(i)
             \/ RolloutStep \/ CheckStep \/ CheckSends \/ Clock
             \/ \E th \in DirectThings : Presence(th)
             \/ UNCHANGED vars
      PROVE  Same
  BY <1>2
  DEF PoolStep, PoolInsert, PoolFind, PoolAdd, RolloutStep, RolloutLocal,
      RolloutWritesJob, RolloutFinishes, RolloutWritesTasks, RolloutWritesContext,
      RolloutFrame, CheckStep, CheckLocal, CheckFinishes, CheckWritesContext,
      CheckSends, CheckFrame, Clock, Presence, vars, runnerVars
<1> QED BY <1>1, <1>2 DEF Next, LoopStep

\* The loop that records changes receives the next one when it is done.
LEMMA OneChangeStep ==
  ASSUME OneChange, [Next]_vars
  PROVE  OneChange'
<1>1. ASSUME watchMsg' = watchMsg  PROVE OneChange'
  BY <1>1 DEF OneChange
<1>2. ASSUME \/ UNCHANGED <<loopVars, poolVars, watchVars>>
             \/ \E j \in Jobs : PoolDelJob(j)
             \/ \E u \in Tasks : PoolDelTask(u)
             \/ RolloutSends \/ LoopLocal \/ LoopToPool \/ LoopHears \/ WatchWrites
      PROVE  watchMsg' = watchMsg
  BY <1>2 DEF PoolDelJob, PoolDelTask, RolloutSends, RolloutFrame, LoopLocal,
              LoopToPool, LoopHears, WatchWrites, WatchUpdate, watchVars
<1>3. ASSUME NEW m, watchMsg' = {m}  PROVE OneChange'
  BY <1>3 DEF OneChange
<1>4. ASSUME LoopSends  PROVE OneChange'
  BY <1>3, <1>4 DEF LoopSends, LoopReportSent
<1>5. ASSUME NEW e \in inflight, WorkerSends(e)  PROVE OneChange'
  BY <1>3, <1>5 DEF WorkerSends, WorkerReport
<1>6. ASSUME WatchSends \/ Restart  PROVE OneChange'
  BY <1>6 DEF WatchSends, WatchOut, Restart, OneChange
<1> QED BY <1>1, <1>2, <1>4, <1>5, <1>6, RunnerMove

\* A job in the list keeps the context of a job that runs.
LEMMA CtxMove ==
  ASSUME TypeOK, CallsLive, RoundLive, [Next]_vars, NEW j \in Jobs
  PROVE  \/ ctx'[j] = ctx[j]
         \/ IsPending(j) /\ ctx'[j] = item[j].status
         \/ j \in ckJob
         \/ Restart
<1> DEFINE Moved == \/ ctx'[j] = ctx[j]
                    \/ IsPending(j) /\ ctx'[j] = item[j].status
                    \/ j \in ckJob
                    \/ Restart
<1>0. ASSUME UNCHANGED ctx  PROVE Moved
  BY <1>0
<1>1. ASSUME NEW i, i = j => IsPending(j), SetContext(i, item[i].status)  PROVE Moved
  BY <1>1 DEF SetContext, TypeOK, CtxType
<1>2. ASSUME NEW i \in ckJob, RemoveContext(i)  PROVE Moved
  BY <1>2 DEF RemoveContext, TypeOK, CtxType
<1> HIDE DEF Moved
<1>3. ASSUME NEW c \in Callers, Request(c) \/ CallerStep(c)  PROVE Moved
  <2>1. ~CallerContext(c)
    BY DEF CallerContext, CallsLive
  <2> QED BY <1>0, <1>3, <2>1
      DEF Request, CreateJob, UpdateJob, CancelJob, DeleteJob, CancelTask, DeleteTask,
          CallerStep, CreateRead, UpdateWrite, DeleteTasks, CallerCanceled, centerVars
<1>4. ASSUME NEW c \in Callers, CallerSends(c)  PROVE Moved
  <2>1. ~CallerRemove(c)
    BY DEF CallerRemove, CallsLive
  <2> QED BY <1>0, <1>1, <1>4, <2>1 DEF CallerSends, UpdateContext, RoUpdateContext
<1>5. ASSUME \/ \E i \in Jobs : PoolStep(i) \/ PoolAdd(i) \/ PoolDelJob(i)
             \/ \E u \in Tasks : PoolDelTask(u)
      PROVE  Moved
  BY <1>0, <1>5 DEF PoolStep, PoolInsert, PoolFind, PoolAdd, RoAdd, PoolDelJob, PoolDelTask
<1>6. ASSUME NEW i \in Jobs, RoClear(i) \/ RoSet(i)  PROVE Moved
  <2>1. pending[roI] = i /\ roPc \in {"clear", "set"}
    BY <1>6 DEF RoClear, RoSet
  <2>2. IsPending(i)
    BY <2>1, WorksOnPending
  <2>3. CASE RoClear(i)
    BY <1>0, <2>1, <2>3 DEF RoClear, RoundLive
  <2>4. CASE RoSet(i)
    BY <1>0, <1>1, <2>2, <2>4 DEF RoSet
  <2> QED BY <1>6, <2>3, <2>4
<1>7. ASSUME RolloutStep \/ RolloutSends  PROVE Moved
  BY <1>0, <1>6, <1>7
  DEF RolloutStep, RolloutLocal, RolloutWritesJob, RolloutFinishes,
      RolloutWritesTasks, RolloutWritesContext, RolloutSends
<1>8. ASSUME CheckWritesContext \/ CheckSends  PROVE Moved
  BY <1>0, <1>2, <1>8 DEF CheckWritesContext, CkContext, CheckSends, RoRemove
<1>9. ASSUME \/ LoopStep \/ LoopSends \/ LoopHears
             \/ \E e \in inflight : WorkerSends(e)
             \/ \E th \in DirectThings : Presence(th)
             \/ WatchWrites \/ WatchSends \/ CheckLocal \/ CheckFinishes \/ Clock
             \/ UNCHANGED vars
      PROVE  Moved
  BY <1>0, <1>9
  DEF LoopStep, LoopLocal, LoopToPool, LoopSends, LoopHears, WorkerSends, Presence,
      LoopFrame, WatchWrites, WatchSends, CheckLocal, CheckFinishes, Clock, vars,
      centerVars
<1>10. ASSUME Restart  PROVE Moved
  BY <1>10 DEF Moved
<1>11. Moved
  BY <1>3, <1>4, <1>5, <1>7, <1>8, <1>9, <1>10 DEF Next, CheckStep
<1> QED BY <1>11 DEF Moved

\* What rolloutLoop sends to the runner.
LEMMA ChunkMove ==
  ASSUME [Next]_vars
  PROVE  \/ roChunk' = roChunk
         \/ \E j \in Jobs : RoSet(j)
         \/ roChunk' = {} /\ (Restart \/ (roPc = "put" /\ LoopAdd(roChunk)))
<1> DEFINE Moved == \/ roChunk' = roChunk
                    \/ \E j \in Jobs : RoSet(j)
                    \/ roChunk' = {} /\ (Restart \/ (roPc = "put" /\ LoopAdd(roChunk)))
<1>0. ASSUME UNCHANGED roChunk  PROVE Moved
  BY <1>0
<1>1. ASSUME NEW j \in Jobs, RoSet(j)  PROVE Moved
  BY <1>1
<1>2. ASSUME NEW j \in Jobs, RoPut(j), LoopAdd(roChunk)  PROVE Moved
  BY <1>2 DEF RoPut
<1>3. ASSUME Restart  PROVE Moved
  BY <1>3 DEF Restart
<1> HIDE DEF Moved
<1>4. ASSUME NEW c \in Callers, Request(c) \/ CallerStep(c) \/ CallerSends(c)  PROVE Moved
  BY <1>0, <1>4
  DEF Request, CreateJob, UpdateJob, CancelJob, DeleteJob, CancelTask, DeleteTask,
      CallerStep, CreateRead, UpdateWrite, DeleteTasks, CallerContext,
      CallerCanceled, CallerSends, UpdateContext, RoUpdateContext, CallerRemove,
      RoRemove, centerVars, roVars
<1>5. ASSUME \/ \E i \in Jobs : PoolStep(i) \/ PoolAdd(i) \/ PoolDelJob(i)
             \/ \E u \in Tasks : PoolDelTask(u)
      PROVE  Moved
  BY <1>0, <1>5 DEF PoolStep, PoolInsert, PoolFind, PoolAdd, RoAdd, PoolDelJob,
                    PoolDelTask, roVars
<1>6. ASSUME RolloutStep \/ RolloutSends  PROVE Moved
  BY <1>0, <1>1, <1>2, <1>6
  DEF RolloutStep, RolloutLocal, RolloutWritesJob, RolloutFinishes,
      RolloutWritesTasks, RolloutWritesContext, RolloutSends, RoTick, RoNotInTime,
      RoBeforeStart, RoStopRollout, RoEndCancel, RoReload, RoInTime, RoEndJob,
      RoFinish, RoEndTasks, RoClear, RoEndRunner
<1>7. ASSUME \/ LoopStep \/ LoopSends \/ LoopHears
             \/ \E e \in inflight : WorkerSends(e)
             \/ \E th \in DirectThings : Presence(th)
             \/ WatchWrites \/ WatchSends \/ CheckStep \/ CheckSends \/ Clock
             \/ UNCHANGED vars
      PROVE  Moved
  BY <1>0, <1>7
  DEF LoopStep, LoopLocal, LoopToPool, LoopSends, LoopHears, WorkerSends, Presence,
      LoopFrame, WatchWrites, WatchSends, CheckStep, CheckLocal, CheckFinishes,
      CheckWritesContext, CheckSends, RoRemove, Clock, WindowSlides, vars, centerVars, roVars
<1>8. Moved
  BY <1>3, <1>4, <1>5, <1>6, <1>7 DEF Next
<1> QED BY <1>8 DEF Moved

\* The jobs whose tasks are on their way to the pool were set up.
LEMMA OnTheWay ==
  ASSUME HandoverInv, NEW m \in roChunk \union curQ \union offline \union hand
  PROVE  IdOf(m) \in Tasks /\ JobOfCopy(m) \in Jobs /\ Begun(JobOfCopy(m))
<1>0. /\ TypeOK /\ PendingBegun /\ ChunkOwn /\ RunnerBegun
  BY DEF HandoverInv, SafetyInv, ListInv, RunnerInv
<1>1. m \in TaskCopy
  BY <1>0 DEF TypeOK, LoopType, RolloutType
<1>2. IdOf(m) \in Tasks /\ JobOfCopy(m) \in Jobs
  BY <1>1, RepoAssumption DEF TaskCopy, IdOf, JobOfCopy
<1>3. CASE m \in roChunk
  <2>1. roPc = "put" /\ JobOfCopy(m) = pending[roI]
    BY <1>0, <1>3 DEF ChunkOwn, Own
  <2> QED BY <1>0, <1>2, <2>1, WorksOnPending DEF PendingBegun
<1>4. CASE m \notin roChunk
  <2>1. m \in curQ \union offline \union hand
    BY <1>4
  <2>2. Begun(JobOfCopy(m))
    BY <1>0, <2>1 DEF RunnerBegun
  <2> QED BY <1>2, <2>2
<1> QED BY <1>2, <1>3, <1>4

\* No queued task comes to a loop that gives it up.
LEMMA LetThroughStep ==
  ASSUME CompletionInv, LiveInv, CheckedOver, LetThrough, [Next]_vars
  PROVE  LetThrough'
<1>0. /\ HandoverInv /\ TypeOK /\ SetUpOnce /\ HandInv /\ ItemsOwn
      /\ CallsLive /\ EntriesLive /\ RoundLive
  BY DEF CompletionInv, HandoverInv, SafetyInv, ListInv, RunnerInv, LiveInv
<1> SUFFICES ASSUME NEW m \in roChunk' \union curQ' \union offline' \union hand',
                    task'[IdOf(m)] = "QUEUED"
             PROVE  ctx'[JobOfCopy(m)] \in Live
  BY DEF LetThrough
<1>1. CASE m \in roChunk \union curQ \union offline \union hand
  <2>1. IdOf(m) \in Tasks /\ JobOfCopy(m) \in Jobs /\ Begun(JobOfCopy(m))
    BY <1>0, <1>1, OnTheWay
  <2>2. task[IdOf(m)] = "QUEUED"
    BY <1>0, <2>1, QueuedBefore DEF Begun, JobOfCopy, IdOf
  <2>3. JobOfCopy(m) \notin ckJob
    BY <2>1, <2>2 DEF CheckedOver, AllTasksTerminal, TasksOf, JobOfCopy, IdOf,
                      IsTaskTerminal, NoRow
  <2>4. ~Restart
    BY DEF Restart
  <2>5. ctx[JobOfCopy(m)] \in Live
    BY <1>1, <2>2 DEF LetThrough
  <2> QED BY <1>0, <2>1, <2>3, <2>4, <2>5, CtxMove DEF EntriesLive
<1>2. CASE m \notin roChunk \union curQ \union offline \union hand
  <2>1. m \in roChunk'
    BY <1>0, <1>2, RunnerGets
  <2>2. PICK j \in Jobs : RoSet(j)
    BY <1>2, <2>1, ChunkMove
  <2>3. m \in item[j].tasks /\ ctx' = [ctx EXCEPT ![j] = item[j].status]
    BY <1>2, <2>1, <2>2 DEF RoSet, SetContext
  <2>4. JobOfCopy(m) = j
    BY <1>0, <2>3 DEF ItemsOwn, Own
  <2>5. IsPending(j)
    BY <1>0, <2>2, WorksOnPending DEF RoSet
  <2> QED BY <1>0, <2>3, <2>4, <2>5 DEF EntriesLive, TypeOK, CtxType
<1> QED BY <1>1, <1>2

-----------------------------------------------------------------------------
(* Who has a queued task, place by place.                                  *)

\* The list of rolloutLoop.
LEMMA ItemKept ==
  ASSUME CompletionInv, LiveInv, CheckedOver, [Next]_vars, ~Restart,
         NEW j \in Jobs, Begun(j), ~AllTasksTerminal(j), NEW m \in item[j].tasks
  PROVE  m \in item'[j].tasks \union roChunk'
<1>0. /\ HandoverInv /\ TypeOK /\ PendingOnce /\ ItemIfPending
      /\ CallsLive /\ EntriesLive /\ RoundLive
  BY DEF CompletionInv, HandoverInv, SafetyInv, ListInv, LiveInv
<1> DEFINE Kept == m \in item'[j].tasks \union roChunk'
<1>1. ASSUME UNCHANGED item  PROVE Kept
  BY <1>1
<1>2. ASSUME NEW i, RoRemove(i, TRUE), i \in ckJob  PROVE Kept
  <2>1. i # j
    BY <1>2 DEF CheckedOver
  <2> QED BY <1>0, <2>1, <1>2 DEF RoRemove, RoTakeOut, TypeOK, RolloutType
<1>3. ASSUME NEW i \in Jobs, PoolAdd(i)  PROVE Kept
  <2>1. i # j
    BY <1>3 DEF PoolAdd, RoAdd, Begun
  <2> QED BY <1>0, <1>3, <2>1 DEF PoolAdd, RoAdd, TypeOK, RolloutType
<1>4. ASSUME NEW c \in Callers, UpdateContext(c)  PROVE Kept
  <2>1. \/ UNCHANGED item
        \/ item' = [item EXCEPT ![api[c].job].timeout = TRUE]
    BY <1>4 DEF UpdateContext, RoUpdateContext
  <2> QED BY <1>0, <2>1 DEF TypeOK, RolloutType
<1>5. ASSUME NEW i \in Jobs, RoInTime(i)  PROVE Kept
  <2>1. item[i].status \in Live
    BY <1>0, <1>5, WorksOnPending DEF RoInTime, EntriesLive
  <2>2. item'[j].tasks = item[j].tasks
    BY <1>0, <1>5, <2>1 DEF RoInTime, Live, IsJobToTerminal, TypeOK, RolloutType
  <2> QED BY <2>2
<1>6. ASSUME NEW i \in Jobs, RoSet(i)  PROVE Kept
  <2>1. CASE UNCHANGED item
    BY <1>1, <2>1
  <2>2. ASSUME NEW chunk, roChunk' = chunk,
               item' = [item EXCEPT ![i].tasks = @ \ chunk]
        PROVE  Kept
    <3>1. CASE i = j
      <4>1. item'[j].tasks = item[j].tasks \ chunk
        BY <1>0, <2>2, <3>1 DEF TypeOK, RolloutType
      <4> QED BY <2>2, <4>1
    <3>2. CASE i # j
      BY <1>0, <2>2, <3>2 DEF TypeOK, RolloutType
    <3> QED BY <3>1, <3>2
  <2> QED BY <1>6, <2>1, <2>2 DEF RoSet
<1>7. ASSUME NEW i \in Jobs, RoClear(i) \/ RoPut(i)  PROVE Kept
  <2>0. pending[roI] = i /\ roI \in DOMAIN pending
    BY <1>0, <1>7, WorksOnPending DEF RoClear, RoPut
  <2>1. CASE item[i].tasks = {} /\ RoTakeOut(roI)
    <3>1. i # j
      BY <2>1
    <3> QED BY <1>0, <2>0, <2>1, <3>1 DEF RoTakeOut, TypeOK, RolloutType
  <2>2. ASSUME NEW n, item' = [item EXCEPT ![i].used = n]  PROVE Kept
    BY <1>0, <2>2 DEF TypeOK, RolloutType
  <2> QED BY <1>0, <1>7, <2>0, <2>1, <2>2 DEF RoClear, RoPut, RoundLive
<1>8. ASSUME NEW i \in Jobs, WindowSlides(i)  PROVE Kept
  BY <1>0, <1>8 DEF WindowSlides, TypeOK, RolloutType
<1> HIDE DEF Kept
<1>9. ASSUME NEW c \in Callers, Request(c) \/ CallerStep(c)  PROVE Kept
  BY <1>1, <1>9
  DEF Request, CreateJob, UpdateJob, CancelJob, DeleteJob, CancelTask, DeleteTask,
      CallerStep, CreateRead, UpdateWrite, DeleteTasks, CallerContext,
      CallerCanceled, centerVars, roVars
<1>10. ASSUME NEW c \in Callers  PROVE ~CallerRemove(c)
  BY <1>0 DEF CallerRemove, CallsLive
<1>11. ASSUME \/ \E i \in Jobs : PoolStep(i) \/ PoolDelJob(i)
              \/ \E u \in Tasks : PoolDelTask(u)
       PROVE  Kept
  BY <1>1, <1>11 DEF PoolStep, PoolInsert, PoolFind, PoolDelJob, PoolDelTask, roVars
<1>12. ASSUME RolloutStep \/ RolloutSends  PROVE Kept
  <2>1. ASSUME NEW i \in Jobs
        PROVE  /\ ~RoStopRollout(i) /\ ~RoEndCancel(i) /\ ~RoReload(i)
    BY <1>0 DEF RoStopRollout, RoEndCancel, RoReload, RoundLive
  <2> QED BY <1>1, <1>5, <1>6, <1>7, <1>12, <2>1
      DEF RolloutStep, RolloutLocal, RolloutWritesJob, RolloutFinishes,
          RolloutWritesTasks, RolloutWritesContext, RolloutSends, RoTick, RoNotInTime,
          RoBeforeStart, RoEndJob, RoFinish, RoEndTasks, RoEndRunner
<1>13. ASSUME \/ LoopStep \/ LoopSends \/ LoopHears
              \/ \E e \in inflight : WorkerSends(e)
              \/ \E th \in DirectThings : Presence(th)
              \/ WatchWrites \/ WatchSends \/ CheckStep \/ UNCHANGED vars
       PROVE  Kept
  BY <1>1, <1>13
  DEF LoopStep, LoopLocal, LoopToPool, LoopSends, LoopHears, WorkerSends, Presence,
      LoopFrame, WatchWrites, WatchSends, CheckStep, CheckLocal, CheckFinishes,
      CheckWritesContext, vars, centerVars, roVars
<1>14. ASSUME CheckSends  PROVE Kept
  BY <1>2, <1>14 DEF CheckSends
<1>15. ASSUME Clock  PROVE Kept
  BY <1>1, <1>8, <1>15 DEF Clock, roVars
<1>16. Kept
  BY <1>3, <1>4, <1>9, <1>10, <1>11, <1>12, <1>13, <1>14, <1>15 DEF Next, CallerSends
<1> QED BY <1>16 DEF Kept

\* The list on its way from rolloutLoop to sysOpTaskLoop.
LEMMA ChunkKept ==
  ASSUME HandoverInv, [Next]_vars, ~Restart, NEW m \in roChunk
  PROVE  m \in roChunk' \union curQ'
<1>1. ASSUME NEW j \in Jobs, RoSet(j)  PROVE FALSE
  BY <1>1 DEF RoSet, HandoverInv, ListInv, ChunkOwn
<1>2. ASSUME LoopAdd(roChunk)  PROVE m \in curQ'
  BY <1>2 DEF LoopAdd
<1> QED BY <1>1, <1>2, ChunkMove

\* The queue, the parked tasks and the task in the hand of sysOpTaskLoop.
LEMMA RunnerKept ==
  ASSUME HandoverInv, CallsLive, RoundLive, DroppedOver, LetThrough, [Next]_vars,
         ~Restart, NEW m \in curQ \union offline \union hand, task[IdOf(m)] = "QUEUED"
  PROVE  \/ m \in curQ' \union offline' \union hand'
         \/ \E e \in inflight' : e[1] = IdOf(m)
         \/ watchPc' = "update" /\ \E c \in watchMsg' : c[1] = IdOf(m)
<1> DEFINE Kept == \/ m \in curQ' \union offline' \union hand'
                   \/ \E e \in inflight' : e[1] = IdOf(m)
                   \/ watchPc' = "update" /\ \E c \in watchMsg' : c[1] = IdOf(m)
<1>0. /\ TypeOK /\ HandInv /\ IdOf(m) \in Tasks /\ JobOfCopy(m) \in Jobs
  BY OnTheWay DEF HandoverInv, SafetyInv, RunnerInv
<1>1. ASSUME UNCHANGED loopVars  PROVE Kept
  BY <1>1 DEF loopVars
<1>2. ASSUME NEW j \in Jobs  PROVE ~PoolDelJob(j)
  BY <1>0 DEF PoolDelJob, CallsLive
<1>3. ASSUME NEW u \in Tasks, PoolDelTask(u)  PROVE Kept
  <2>1. IdOf(m) # u
    BY <1>3 DEF PoolDelTask, DroppedOver
  <2> QED BY <1>3, <2>1 DEF PoolDelTask, LoopDelTask
<1>4. ASSUME RolloutSends  PROVE Kept
  <2>1. \A j \in Jobs : ~RoEndRunner(j)
    BY DEF RoEndRunner, RoundLive
  <2> QED BY <1>4, <2>1 DEF RolloutSends, LoopAdd
<1>5. ASSUME LoopLocal  PROVE Kept
  <2>1. ASSUME NEW n \in Tops, LoopPop(n, ctx[JobOfCopy(n)])  PROVE Kept
    <3>1. hand = {}
      BY <1>0, <2>1 DEF LoopPop, HandInv
    <3>2. CASE n # m
      BY <2>1, <3>1, <3>2 DEF LoopPop
    <3>3. CASE n = m
      <4>1. ctx[JobOfCopy(m)] \in Live
        BY DEF LetThrough
      <4>2. hand' = {m}
        BY <2>1, <3>3, <4>1 DEF LoopPop, Live, NoContext, IsJobToTerminal
      <4> QED BY <4>2
    <3> QED BY <3>2, <3>3
  <2>2. ASSUME NEW n \in hand, LoopPark(n)  PROVE Kept
    BY <2>2 DEF LoopPark
  <2>3. CASE LoopTick \/ LoopTurnEnds
    BY <2>3 DEF LoopTick, LoopTurnEnds
  <2> QED BY <1>5, <2>1, <2>2, <2>3 DEF LoopLocal
<1>6. ASSUME NEW n \in hand, LoopSubmit(n)  PROVE Kept
  <2>1. /\ hand = {n} /\ UNCHANGED <<curQ, offline>>
        /\ <<IdOf(n), execs[IdOf(n)] + 1>> \in inflight'
    BY <1>6 DEF LoopSubmit
  <2> QED BY <2>1
<1>7. ASSUME NEW n \in hand, LoopPoolFull(n)  PROVE Kept
  BY <1>7 DEF LoopPoolFull
<1>8. ASSUME NEW n \in hand, LoopReportSent(n)  PROVE Kept
  <2>1. /\ hand = {n} /\ UNCHANGED <<curQ, offline>>
        /\ watchPc' = "update" /\ watchMsg' = {<<IdOf(n), "SENT">>}
    BY <1>8 DEF LoopReportSent
  <2> QED BY <2>1
<1>9. ASSUME LoopHears  PROVE Kept
  BY <1>9 DEF LoopHears, LoopConnected
<1>10. ASSUME \/ \E e \in inflight : WorkerSends(e)
              \/ WatchWrites \/ WatchSends
              \/ UNCHANGED <<loopVars, poolVars, watchVars>>
       PROVE  UNCHANGED loopVars
  BY <1>10 DEF WorkerSends, WatchWrites, WatchSends
<1> HIDE DEF Kept
<1>11. Kept
  BY <1>1, <1>2, <1>3, <1>4, <1>5, <1>6, <1>7, <1>8, <1>9, <1>10, RunnerMove
  DEF LoopToPool, LoopSends
<1> QED BY <1>11 DEF Kept

\* The worker pool.
LEMMA PoolKept ==
  ASSUME [Next]_vars, ~Restart, NEW e \in inflight
  PROVE  \/ e \in inflight'
         \/ watchPc' = "update" /\ \E c \in watchMsg' : c[1] = e[1]
<1> DEFINE Kept == \/ e \in inflight'
                   \/ watchPc' = "update" /\ \E c \in watchMsg' : c[1] = e[1]
<1>1. ASSUME UNCHANGED inflight  PROVE Kept
  BY <1>1
<1>2. ASSUME LoopToPool  PROVE Kept
  BY <1>2 DEF LoopToPool, LoopSubmit, LoopPoolFull, poolVars
<1>3. ASSUME NEW f \in inflight, WorkerSends(f)  PROVE Kept
  <2>1. PICK s \in TaskStatus : WorkerReport(f, s)
    BY <1>3 DEF WorkerSends
  <2>2. /\ inflight' = inflight \ {f} /\ watchPc' = "update"
        /\ watchMsg' = {<<f[1], s>>}
    BY <2>1 DEF WorkerReport
  <2> QED BY <2>2
<1>4. ASSUME \/ UNCHANGED <<loopVars, poolVars, watchVars>>
             \/ \E j \in Jobs : PoolDelJob(j)
             \/ \E u \in Tasks : PoolDelTask(u)
             \/ RolloutSends \/ LoopLocal \/ LoopSends \/ LoopHears
             \/ WatchSends
      PROVE  UNCHANGED inflight
  BY <1>4 DEF PoolDelJob, PoolDelTask, RolloutSends, RolloutFrame, LoopLocal,
              LoopSends, LoopHears, WatchSends, poolVars
<1>5. ASSUME WatchWrites  PROVE UNCHANGED inflight
  BY <1>5 DEF WatchWrites, poolVars
<1> HIDE DEF Kept
<1>6. Kept
  BY <1>1, <1>2, <1>3, <1>4, <1>5, RunnerMove
<1> QED BY <1>6 DEF Kept

\* The loop that records changes: when it is done the task is not queued.
LEMMA ChangeKept ==
  ASSUME TypeOK, OneChange, [Next]_vars, ~Restart, watchPc = "update",
         NEW c \in watchMsg, task'[c[1]] = "QUEUED", task[c[1]] = "QUEUED"
  PROVE  watchPc' = "update" /\ c \in watchMsg'
<1>1. c[1] \in Tasks /\ c[2] \in {"SENT", "SUCCEEDED", "FAILED"}
  BY DEF TypeOK, WatchType
<1>2. ~WatchWrites
  <2>1. ASSUME NEW d \in watchMsg, WatchUpdate(d)  PROVE FALSE
    <3>1. d = c
      BY DEF OneChange
    <3>2. task'[c[1]] = c[2]
      BY <1>1, <2>1, <3>1
      DEF WatchUpdate, UpdateTaskStatus, IsTaskTerminal, NoRow, TypeOK, RepoType
    <3> QED BY <1>1, <3>2
  <2> QED BY <2>1 DEF WatchWrites
<1>3. ~LoopSends /\ ~WatchSends /\ \A e \in inflight : ~WorkerSends(e)
  BY DEF LoopSends, LoopReportSent, WatchSends, WatchOut, WorkerSends, WorkerReport
<1>4. UNCHANGED watchVars
  BY <1>2, <1>3, RunnerMove
  DEF PoolDelJob, PoolDelTask, RolloutSends, RolloutFrame, LoopLocal, LoopToPool,
      LoopHears
<1> QED BY <1>4 DEF watchVars

\* The set-up of a job is over when its tasks are in the list, unless it has
\* none.
LEMMA BecomesBegun ==
  ASSUME TypeOK, SetUpOnce, [Next]_vars, ~Restart, NEW j \in Jobs,
         ~Begun(j), Begun(j)'
  PROVE  NoTasks(j) \/ PoolAdd(j)
<1>1. ASSUME creating[j].pc # "none"  PROVE PoolAdd(j)
  <2>1. creating'[j].pc = "none"
    BY DEF Begun
  <2>2. ASSUME PoolFind(j)  PROVE creating'[j].pc = "add"
    BY <2>2 DEF PoolFind, CreateFind, TypeOK, PoolJobType
  <2>3. CreatingMove(j)
    BY EveryCreatingMove
  <2> QED BY <1>1, <2>1, <2>2, <2>3 DEF CreatingMove
<1>2. ASSUME j \in fresh \/ \E c \in Callers : Creates(c, j)  PROVE NoTasks(j)
  BY <1>2 DEF SetUpOnce
<1> QED BY <1>1, <1>2 DEF Begun

\* A restart reads the rows of all queued tasks.
LEMMA RestartHolds ==
  ASSUME CompletionInv, JobsLive, Restart, NEW t \in Tasks, task[t] = "QUEUED"
  PROVE  HasCopy(t, item'[JobOf[t]].tasks)
<1> DEFINE j == JobOf[t]
           m == <<t, "QUEUED">>
<1>0. TypeOK /\ CompletedDone /\ j \in Jobs
  BY RepoAssumption DEF CompletionInv, HandoverInv, SafetyInv
<1>1. m \in OpenTasks(j)
  BY DEF OpenTasks, ReadTasks, TaskCopy, TaskStatus, JobOfCopy, IdOf, StatusOf
<1>2. job[j] \in Live
  <2>1. job[j] # NoRow
    BY <1>0 DEF JobsLive, NoTasks, TasksOf, NoRow
  <2>2. job[j] # "COMPLETED"
    BY <1>0 DEF CompletedDone, AllTasksTerminal, TasksOf, IsTaskTerminal, NoRow
  <2> QED BY <1>0, <2>1, <2>2 DEF JobsLive
<1>3. item'[j].tasks = OpenTasks(j)
  BY <1>0, <1>1, <1>2 DEF Restart, PendingRows, Live
<1> QED BY <1>1, <1>3 DEF HasCopy, IdOf

\* Every queued task of a job that is set up is held by someone.
LEMMA QueuedHeldStep ==
  ASSUME HeldInv, [Next]_vars
  PROVE  QueuedHeld'
<1>0. /\ CompletionInv /\ LiveInv /\ HandoverInv /\ TypeOK /\ SetUpOnce
      /\ CallsLive /\ JobsLive /\ RoundLive /\ CheckedOver /\ DroppedOver
      /\ OneChange /\ LetThrough /\ QueuedHeld
  BY DEF HeldInv, CompletionInv, LiveInv, HandoverInv, SafetyInv
<1> SUFFICES ASSUME NEW t \in Tasks, task'[t] = "QUEUED"
             PROVE  /\ creating'[JobOf[t]].pc = "add" =>
                         HasCopy(t, creating'[JobOf[t]].tasks)
                    /\ Begun(JobOf[t])' => Held(t)'
  BY DEF QueuedHeld, HasCopy
<1> DEFINE j == JobOf[t]
<1>1. j \in Jobs
  BY RepoAssumption
<1>2. CASE Restart
  <2>1. creating'[j].pc = "none" /\ task' = task
    BY <1>1, <1>2 DEF Restart, NotCreating
  <2> QED BY <1>0, <1>2, <2>1, RestartHolds DEF Held, HasCopy
<1>3. CASE ~Restart /\ task[t] # "QUEUED"
  <2>1. creating'[j].pc = "find"
    BY <1>0, <1>3, QueuedBefore
  <2> QED BY <2>1 DEF Begun
<1>4. ASSUME task[t] = "QUEUED", creating'[j].pc = "add"
      PROVE  HasCopy(t, creating'[j].tasks)
  <2>1. CASE creating'[j] = creating[j]
    BY <1>0, <1>4, <2>1 DEF QueuedHeld
  <2>2. CASE PoolFind(j)
    <3>1. creating'[j].tasks = ReadTasks(j, TaskStatus)
      BY <1>0, <1>1, <2>2 DEF PoolFind, CreateFind, TypeOK, PoolJobType
    <3>2. <<t, "QUEUED">> \in ReadTasks(j, TaskStatus)
      BY <1>4 DEF ReadTasks, TaskCopy, TaskStatus, JobOfCopy, IdOf, StatusOf
    <3> QED BY <3>1, <3>2 DEF HasCopy, IdOf
  <2> QED BY <1>0, <1>1, <1>4, <2>1, <2>2, EveryCreatingMove DEF CreatingMove, NotCreating
<1>5. ASSUME task[t] = "QUEUED", Begun(j)', ~Begun(j), ~Restart  PROVE Held(t)'
  <2>1. ~NoTasks(j)
    BY <1>5 DEF NoTasks, TasksOf, NoRow
  <2>2. PoolAdd(j)
    BY <1>0, <1>1, <1>5, <2>1, BecomesBegun
  <2>3. creating[j].pc = "add" /\ item'[j].tasks = creating[j].tasks
    BY <1>0, <1>1, <2>2 DEF PoolAdd, RoAdd, TypeOK, RolloutType
  <2> QED BY <1>0, <1>5, <2>3 DEF QueuedHeld, Held, HasCopy
<1>6. ASSUME task[t] = "QUEUED", Begun(j), ~Restart  PROVE Held(t)'
  <2>0. Held(t) /\ ~AllTasksTerminal(j)
    BY <1>0, <1>6 DEF QueuedHeld, AllTasksTerminal, TasksOf, IsTaskTerminal, NoRow
  <2>1. ASSUME NEW m \in item[j].tasks, IdOf(m) = t  PROVE Held(t)'
    <3>1. m \in item'[j].tasks \union roChunk'
      BY <1>0, <1>1, <1>6, <2>0, ItemKept
    <3> QED BY <2>1, <3>1 DEF Held, HasCopy
  <2>2. ASSUME NEW m \in roChunk, IdOf(m) = t  PROVE Held(t)'
    <3>1. m \in roChunk' \union curQ'
      BY <1>0, <1>6, ChunkKept
    <3> QED BY <2>2, <3>1 DEF Held, HasCopy
  <2>3. ASSUME NEW m \in curQ \union offline \union hand, IdOf(m) = t  PROVE Held(t)'
    <3>1. \/ m \in curQ' \union offline' \union hand'
          \/ \E e \in inflight' : e[1] = t
          \/ watchPc' = "update" /\ \E c \in watchMsg' : c[1] = t
      BY <1>0, <1>6, <2>3, RunnerKept
    <3> QED BY <2>3, <3>1 DEF Held, HasCopy
  <2>4. ASSUME NEW e \in inflight, e[1] = t  PROVE Held(t)'
    BY <1>6, <2>4, PoolKept DEF Held
  <2>5. ASSUME watchPc = "update", NEW c \in watchMsg, c[1] = t  PROVE Held(t)'
    BY <1>0, <1>6, <2>5, ChangeKept DEF Held
  <2> QED BY <2>0, <2>1, <2>2, <2>3, <2>4, <2>5 DEF Held, HasCopy
<1> QED BY <1>2, <1>3, <1>4, <1>5, <1>6

-----------------------------------------------------------------------------
(* The theorem.                                                            *)

\* At the start no task is queued.
LEMMA HeldInit == Init => HeldInv
<1> SUFFICES ASSUME Init  PROVE HeldInv
  OBVIOUS
<1>1. CompletionInv
  BY CompletionInit
<1>2. LiveInv
  BY DEF Init, CenterInit, Idle, NotCreating, IsPending, NoTasks, TasksOf, NoRow,
         LiveInv, CallsLive, JobsLive, EntriesLive, RoundLive
<1>3. CheckedOver /\ DroppedOver /\ OneChange /\ LetThrough /\ QueuedHeld
  BY DEF Init, CenterInit, RunnerInit, NoRow, CheckedOver, DroppedOver, OneChange,
         LetThrough, QueuedHeld
<1> QED BY <1>1, <1>2, <1>3 DEF HeldInv

\* Every step keeps the invariant.
LEMMA HeldNext ==
  ASSUME LeftAlone, HeldInv, [Next]_vars
  PROVE  HeldInv'
<1>0. /\ CompletionInv /\ LiveInv /\ HandoverInv /\ TypeOK /\ SetUpOnce /\ CallsLive
      /\ CheckedOver /\ DroppedOver /\ OneChange /\ LetThrough
  BY DEF HeldInv, CompletionInv, LiveInv, HandoverInv, SafetyInv
<1>1. CompletionInv'
  BY <1>0, CompletionNext
<1>2. CallsLive' /\ JobsLive' /\ EntriesLive' /\ RoundLive'
  BY <1>0, CallsLiveStep, JobsLiveStep, EntriesLiveStep, RoundLiveStep
<1>3. CheckedOver' /\ DroppedOver' /\ OneChange' /\ LetThrough' /\ QueuedHeld'
  BY <1>0, CheckedOverStep, DroppedOverStep, OneChangeStep, LetThroughStep,
     QueuedHeldStep
<1> QED BY <1>1, <1>2, <1>3 DEF HeldInv, LiveInv

\* A task that is QUEUED in the table while its job is IN_PROGRESS is held by
\* one of the goroutines, as long as no job is canceled, deleted or stopped by
\* its schedule: requests may update jobs and cancel or delete single tasks,
\* things come and go, the pool refuses tasks, and the process starts anew.
THEOREM NoQueuedTaskIsLost ==
  ASSUME LeftAlone
  PROVE  Spec => []NoTaskLost
<1>1. HeldInv => NoTaskLost
  <2> SUFFICES ASSUME HeldInv, NEW t \in Tasks, task[t] = "QUEUED",
                      job[JobOf[t]] = "IN_PROGRESS"
               PROVE  \/ \E m \in CopiesHeld(JobOf[t]) \union hand : IdOf(m) = t
                      \/ \E e \in inflight : e[1] = t
                      \/ \E c \in watchMsg : c[1] = t
    BY DEF NoTaskLost
  <2>1. JobOf[t] \in Jobs
    BY RepoAssumption
  <2>2. Held(t)
    BY <2>1 DEF HeldInv, LiveInv, JobsLive, QueuedHeld
  <2>3. ASSUME NEW m \in item[JobOf[t]].tasks \union roChunk \union curQ \union offline,
               IdOf(m) = t
        PROVE  m \in CopiesHeld(JobOf[t])
    BY <2>3 DEF CopiesHeld, CopiesOf, JobOfCopy, IdOf
  <2> QED BY <2>2, <2>3 DEF Held, HasCopy
<1>2. HeldInv /\ [Next]_vars => HeldInv'
  BY HeldNext
<1> QED BY <1>1, <1>2, HeldInit, PTL DEF Spec
==============================================================================

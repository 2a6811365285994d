------------------------------ MODULE JobSystem ------------------------------
(***************************************************************************)
(* The job subsystem: MgrService (job/service.go) called by concurrent     *)
(* HTTP requests, ReceiveMgrMsg (job/center.go), the center, the runner    *)
(* and the tables, and restarts of the process.                            *)
(***************************************************************************)
EXTENDS JobCenter

CONSTANTS
  Callers,     \* concurrent HTTP requests
  ApiOps,      \* the operations that requests use in this instance
  MaxCalls,    \* bound: accepted requests in a behaviour
  MaxStarts    \* bound: starts of the process in a behaviour

ASSUME SystemAssumption ==
  /\ ApiOps \subseteq {"create", "update", "cancel", "delete", "cancelTask",
                       "deleteTask"}
  /\ MaxCalls \in Nat
  /\ MaxStarts \in Nat \ {0}

VARIABLES
  api,      \* api[c]: the request that c is working on
  fresh,    \* job ids that were not used yet
  calls,    \* accepted requests
  starts,   \* starts of the process
  forced    \* history: jobs canceled with force by a request that came after
            \* their tasks had been handed to rolloutLoop

apiVars == <<api, fresh, calls, forced>>
vars == <<repoVars, runnerVars, centerVars, apiVars, starts>>

Idle == [pc |-> "idle", op |-> "none", job |-> "none", force |-> FALSE]

Init ==
  /\ job = [j \in Jobs |-> NoRow]
  /\ task = [t \in Tasks |-> NoRow]
  /\ jobTimeout = {}
  /\ RunnerInit
  /\ CenterInit
  /\ api = [c \in Callers |-> Idle]
  /\ fresh = Jobs
  /\ calls = 0
  /\ starts = 1
  /\ forced = {}

-----------------------------------------------------------------------------
(* MgrService.                                                             *)

\* Request c has passed its first statement and goes on at pc.
Accept(c, op, j, force, pc) ==
  /\ op \in ApiOps
  /\ api[c].pc = "idle"
  /\ calls < MaxCalls
  /\ calls' = calls + 1
  /\ api' = [api EXCEPT ![c] = [pc |-> pc, op |-> op, job |-> j,
                                force |-> force]]

\* A request on one task is over for its caller after its transaction.
AcceptTask(c, op) ==
  /\ op \in ApiOps
  /\ api[c].pc = "idle"
  /\ calls < MaxCalls
  /\ calls' = calls + 1
  /\ UNCHANGED api

GoTo(c, pc) == api' = [api EXCEPT ![c].pc = pc]
Return(c) == api' = [api EXCEPT ![c] = Idle]

CreateJob(c, j) ==
  /\ j \in fresh
  /\ Accept(c, "create", j, FALSE, "read")
  /\ fresh' = fresh \ {j}
  /\ InsertJob(j)
  /\ jobTimeout' = IF j \in TimeoutJobs THEN jobTimeout \union {j} ELSE jobTimeout
  /\ \E b \in EndBehaviors :
       /\ endBehavior' = [endBehavior EXCEPT ![j] = b]
       /\ \E p \in IF b = "NONE" THEN {"in"} ELSE {"before", "in", "after"} :
            phase' = [phase EXCEPT ![j] = p]
  /\ UNCHANGED <<task, runnerVars, roVars, ckVars, poolJobVars, ctx, starts,
                 forced>>

\* repo.CreateJob reads the row back; without a row the handler panics and
\* the request is lost.  Otherwise the center starts the pool goroutine.
CreateRead(c) ==
  LET j == api[c].job
  IN  /\ api[c].pc = "read"
      /\ creating' = IF job[j] = NoRow THEN creating
                     ELSE [creating EXCEPT ![j] = [pc |-> "insert",
                                                   status |-> job[j],
                                                   tasks |-> {}]]
      /\ Return(c)
      /\ UNCHANGED <<repoVars, runnerVars, roVars, ckVars, delJobW, delTaskW,
                     timeVars, ctx, fresh, calls, starts, forced>>

\* UpdateJob with a timeout config: the check, the statement, the message.
UpdateJob(c, j) ==
  /\ job[j] # NoRow /\ ~IsJobToTerminal(job[j])
  /\ Accept(c, "update", j, FALSE, "write")
  /\ UNCHANGED <<repoVars, runnerVars, centerVars, fresh, starts, forced>>

UpdateWrite(c) ==
  LET j == api[c].job
  IN  /\ api[c].pc = "write"
      /\ jobTimeout' = IF job[j] = NoRow THEN jobTimeout ELSE jobTimeout \union {j}
      /\ GoTo(c, "updateCtx")
      /\ UNCHANGED <<job, task, runnerVars, centerVars, fresh, calls, starts,
                     forced>>

UpdateContext(c) ==
  /\ api[c].pc = "updateCtx"
  /\ RoUpdateContext(api[c].job)
  /\ Return(c)
  /\ UNCHANGED <<repoVars, runnerVars, ckVars, poolJobVars, timeVars, fresh,
                 calls, starts, forced>>

\* The request that creates job j, or its pool goroutine, is not done yet.
SettingUp(j) ==
  \/ creating[j].pc # "none"
  \/ \E c \in Callers : api[c].op = "create" /\ api[c].job = j

\* CancelJob: its transaction.
CancelJob(c, j, force) ==
  /\ job[j] # NoRow /\ ~IsJobToTerminal(job[j])
  /\ force \/ job[j] # "IN_PROGRESS"
  /\ Accept(c, "cancel", j, force, IF force THEN "context" ELSE "remove")
  /\ job' = [job EXCEPT ![j] = "CANCELING"]
  /\ task' = TasksCanceled(j, force)
  /\ forced' = IF force /\ ~SettingUp(j) THEN forced \union {j} ELSE forced
  /\ UNCHANGED <<jobTimeout, runnerVars, centerVars, fresh, starts>>

\* DeleteJob: with force any row, or none; otherwise a row that is not
\* IN_PROGRESS.  The tasks go in a second statement.
DeleteJob(c, j, force) ==
  /\ force \/ job[j] \notin {NoRow, "IN_PROGRESS"}
  /\ Accept(c, "delete", j, force, "deleteTasks")
  /\ job' = [job EXCEPT ![j] = NoRow]
  /\ jobTimeout' = jobTimeout \ {j}
  /\ UNCHANGED <<task, runnerVars, centerVars, fresh, starts, forced>>

DeleteTasks(c) ==
  /\ api[c].pc = "deleteTasks"
  /\ task' = TasksDeleted(api[c].job)
  /\ GoTo(c, "context")
  /\ UNCHANGED <<job, jobTimeout, runnerVars, centerVars, fresh, calls, starts,
                 forced>>

(* ReceiveMgrMsg for cancelJob and deleteJob, in the request's goroutine.  *)

CallerContext(c) ==
  /\ api[c].pc = "context"
  /\ RemoveContext(api[c].job)
  /\ GoTo(c, "remove")
  /\ UNCHANGED <<repoVars, runnerVars, roVars, ckVars, poolJobVars, timeVars,
                 fresh, calls, starts, forced>>

\* Mutant: the runner is never told to drop the tasks.
CallerRemoveOnly(c) ==
  LET r == api[c]
  IN  /\ r.pc = "remove"
      /\ RoRemove(r.job, r.force)
      /\ IF r.op = "cancel" THEN GoTo(c, "canceled") ELSE Return(c)
      /\ UNCHANGED <<repoVars, runnerVars, ckVars, poolJobVars, timeVars, fresh,
                     calls, starts, forced>>

\* removePendingJob waits for rolloutLoop; then the pool goroutine for the
\* runner is started.  With force, DeleteJob has returned an entity without
\* its operation, and DeleteTaskOfJob does nothing for an empty operation.
CallerRemove(c) ==
  LET r == api[c]
  IN  /\ r.pc = "remove"
      /\ RoRemove(r.job, r.force)
      /\ delJobW' = IF r.op = "delete" /\ r.force THEN delJobW
                    ELSE [delJobW EXCEPT ![r.job] = @ + 1]
      /\ IF r.op = "cancel" THEN GoTo(c, "canceled") ELSE Return(c)
      /\ UNCHANGED <<repoVars, runnerVars, ckVars, creating, delTaskW,
                     timeVars, fresh, calls, starts, forced>>

CallerCanceled(c) ==
  /\ api[c].pc = "canceled"
  /\ job' = JobWritten(api[c].job, "CANCELED")
  /\ Return(c)
  /\ UNCHANGED <<task, jobTimeout, runnerVars, centerVars, fresh, calls, starts,
                 forced>>

\* CancelTask: its transaction, and the pool goroutine for the runner.
CancelTask(c, t, force) ==
  /\ task[t] # NoRow /\ ~IsTaskTerminal(task[t])
  /\ force \/ task[t] # "IN_PROGRESS"
  /\ AcceptTask(c, "cancelTask")
  /\ task' = [task EXCEPT ![t] = "CANCELED"]
  /\ delTaskW' = [delTaskW EXCEPT ![t] = @ + 1]
  /\ UNCHANGED <<job, jobTimeout, runnerVars, roVars, ckVars, creating, delJobW,
                 timeVars, ctx, fresh, starts, forced>>

DeleteTask(c, t, force) ==
  /\ task[t] # NoRow
  /\ force \/ task[t] # "IN_PROGRESS"
  /\ AcceptTask(c, "deleteTask")
  /\ task' = [task EXCEPT ![t] = NoRow]
  /\ delTaskW' = [delTaskW EXCEPT ![t] = @ + 1]
  /\ UNCHANGED <<job, jobTimeout, runnerVars, roVars, ckVars, creating, delJobW,
                 timeVars, ctx, fresh, starts, forced>>

-----------------------------------------------------------------------------
(* The pool goroutines of the center.                                      *)

PoolInsert(j) ==
  /\ CreateInsert(j)
  /\ UNCHANGED <<job, jobTimeout, runnerVars, roVars, ckVars, delJobW, delTaskW,
                 timeVars, ctx, apiVars, starts>>

PoolFind(j) ==
  /\ CreateFind(j)
  /\ UNCHANGED <<repoVars, runnerVars, roVars, ckVars, delJobW, delTaskW,
                 timeVars, ctx, apiVars, starts>>

PoolAdd(j) ==
  /\ RoAdd(j)
  /\ UNCHANGED <<repoVars, runnerVars, ckVars, delJobW, delTaskW, timeVars,
                 apiVars, starts>>

PoolDelJob(j) ==
  /\ delJobW[j] > 0
  /\ delJobW' = [delJobW EXCEPT ![j] = @ - 1]
  /\ LoopDelJob(j)
  /\ UNCHANGED <<repoVars, poolVars, watchVars, presenceVars, roVars, ckVars,
                 creating, delTaskW, timeVars, ctx, apiVars, starts>>

PoolDelTask(t) ==
  /\ delTaskW[t] > 0
  /\ delTaskW' = [delTaskW EXCEPT ![t] = @ - 1]
  /\ LoopDelTask(t)
  /\ UNCHANGED <<repoVars, poolVars, watchVars, presenceVars, roVars, ckVars,
                 creating, delJobW, timeVars, ctx, apiVars, starts>>

-----------------------------------------------------------------------------
(* rolloutLoop.                                                            *)

\* What a step of rolloutLoop leaves alone whatever it does.
RolloutFrame == UNCHANGED <<jobTimeout, poolVars, watchVars, presenceVars,
                            ckVars, poolJobVars, timeVars, apiVars, starts>>

RolloutLocal ==
  /\ \/ RoTick
     \/ \E j \in Jobs : \/ RoNotInTime(j)
                        \/ RoBeforeStart(j)
                        \/ RoStopRollout(j)
                        \/ RoEndCancel(j)
                        \/ RoReload(j)
  /\ RolloutFrame
  /\ UNCHANGED <<job, task, ctx, loopVars>>

RolloutWritesJob ==
  /\ \E j \in Jobs : RoInTime(j) \/ RoEndJob(j)
  /\ RolloutFrame
  /\ UNCHANGED <<task, ctx, loopVars>>

RolloutFinishes ==
  /\ \E j \in Jobs : RoFinish(j)
  /\ RolloutFrame
  /\ UNCHANGED <<ctx, loopVars>>

RolloutWritesTasks ==
  /\ \E j \in Jobs : RoEndTasks(j)
  /\ RolloutFrame
  /\ UNCHANGED <<job, ctx, loopVars>>

RolloutWritesContext ==
  /\ \E j \in Jobs : RoClear(j) \/ RoSet(j)
  /\ RolloutFrame
  /\ UNCHANGED <<job, task, loopVars>>

\* The two sends of rolloutLoop to sysOpTaskLoop.
RolloutSends ==
  /\ \E j \in Jobs : \/ RoEndRunner(j) /\ LoopDelJob(j)
                     \/ RoPut(j) /\ LoopAdd(roChunk)
  /\ RolloutFrame
  /\ UNCHANGED <<job, task, ctx>>

RolloutStep == \/ RolloutLocal \/ RolloutWritesJob \/ RolloutFinishes
               \/ RolloutWritesTasks \/ RolloutWritesContext

-----------------------------------------------------------------------------
(* sysOpTaskLoop, the runner's workers and watchTaskChangeLoop.            *)

LoopFrame == UNCHANGED <<repoVars, centerVars, apiVars, starts>>

LoopLocal ==
  /\ \/ LoopTick
     \/ LoopTurnEnds
     \/ \E m \in Tops : LoopPop(m, ctx[JobOfCopy(m)])
     \/ \E m \in hand : LoopPark(m)
  /\ LoopFrame
  /\ UNCHANGED <<poolVars, watchVars, presenceVars>>

LoopToPool ==
  /\ \E m \in hand : LoopSubmit(m) \/ LoopPoolFull(m)
  /\ LoopFrame
  /\ UNCHANGED <<watchVars, presenceVars>>

LoopSends ==
  /\ \E m \in hand : LoopReportSent(m)
  /\ LoopFrame
  /\ UNCHANGED <<poolVars, presenceVars>>

LoopHears ==
  /\ \E th \in Things : LoopConnected(th)
  /\ LoopFrame
  /\ UNCHANGED <<poolVars, watchVars>>

LoopStep == LoopLocal \/ LoopToPool

WorkerSends(e) ==
  /\ \E s \in TaskStatus : WorkerReport(e, s)
  /\ LoopFrame
  /\ UNCHANGED <<loopVars, presenceVars>>

WatchWrites ==
  /\ \E c \in watchMsg : WatchUpdate(c)
  /\ UNCHANGED <<job, jobTimeout, loopVars, poolVars, presenceVars, centerVars,
                 apiVars, starts>>

WatchSends ==
  /\ \E c \in watchMsg : WatchOut(c) /\ CkReceive(c[1], c[2])
  /\ UNCHANGED <<repoVars, loopVars, poolVars, presenceVars, roVars, poolJobVars,
                 timeVars, ctx, apiVars, starts>>

-----------------------------------------------------------------------------
(* watchTaskChangeLoop of the center.                                      *)

CheckFrame == UNCHANGED <<jobTimeout, runnerVars, poolJobVars, timeVars,
                          apiVars, starts>>

CheckLocal ==
  /\ \/ CkTick
     \/ \E j \in ckTodo : CkCount(j)
     \/ \E j \in ckJob : CkGet(j)
  /\ CheckFrame
  /\ UNCHANGED <<job, task, roVars, ctx>>

CheckFinishes ==
  /\ \E j \in ckJob : CkFinish(j)
  /\ CheckFrame
  /\ UNCHANGED <<roVars, ctx>>

CheckWritesContext ==
  /\ \E j \in ckJob : CkContext(j)
  /\ CheckFrame
  /\ UNCHANGED <<job, task, roVars>>

CheckSends ==
  /\ \E j \in ckJob : CkRemove(j) /\ RoRemove(j, TRUE)
  /\ CheckFrame
  /\ UNCHANGED <<job, task>>

CheckStep == CheckLocal \/ CheckFinishes \/ CheckWritesContext

-----------------------------------------------------------------------------
(* Time, things, and restarts.                                             *)

Clock ==
  \/ /\ \E j \in Jobs : TimePasses(j)
     /\ UNCHANGED <<repoVars, runnerVars, roVars, ckVars, poolJobVars, ctx,
                    apiVars, starts>>
  \/ /\ \E j \in Jobs : WindowSlides(j)
     /\ UNCHANGED <<repoVars, runnerVars, ckVars, poolJobVars, timeVars, ctx,
                    apiVars, starts>>

Presence(th) ==
  /\ ThingConnects(th) \/ ThingDisconnects(th) \/ EventTimesOut(th)
  /\ LoopFrame
  /\ UNCHANGED <<loopVars, poolVars, watchVars>>

\* Mutant: a task that was sent is not taken up again.
OpenTasksQueued(j) == ReadTasks(j, {"QUEUED"})

\* The tasks that GetPendingJobs preloads with a job.
OpenTasks(j) == ReadTasks(j, {"QUEUED", "SENT", "IN_PROGRESS"})

\* The process ends between any two steps and starts again.  Start:
\* preloadPendingJobs finishes the jobs that have no open task, and takes up
\* the other ones with the rows as they are.
Restart ==
  LET resumed == {j \in PendingRows : OpenTasks(j) # {}}
      finished == PendingRows \ resumed
  IN
  /\ starts < MaxStarts
  /\ starts' = starts + 1
  /\ job' = [j \in Jobs |-> IF j \in finished THEN FinishedRow(job[j], job[j])
                                              ELSE job[j]]
  /\ \E s \in [1 .. Cardinality(resumed) -> resumed] :
       /\ \A j \in resumed : \E i \in DOMAIN s : s[i] = j
       /\ pending' = s
  /\ item' = [j \in Jobs |-> IF j \in resumed
                 THEN [status |-> job[j], tasks |-> OpenTasks(j), used |-> 0,
                       timeout |-> j \in jobTimeout]
                 ELSE NoItem]
  /\ ctx' = [j \in Jobs |-> NoContext]
  /\ roPc' = "select" /\ roI' = 0 /\ roChunk' = {}
  /\ checkJobs' = {} /\ ckPc' = "select" /\ ckTodo' = {} /\ ckJob' = {}
  /\ ckStatus' = NoContext
  /\ creating' = [j \in Jobs |-> NotCreating]
  /\ delJobW' = [j \in Jobs |-> 0] /\ delTaskW' = [t \in Tasks |-> 0]
  /\ curQ' = {} /\ offline' = {} /\ loopPc' = "select" /\ hand' = {}
  /\ popped' = 0 /\ inflight' = {} /\ watchPc' = "select" /\ watchMsg' = {}
  /\ online' = {} /\ events' = {}
  /\ api' = [c \in Callers |-> Idle]
  /\ execs' = [t \in Tasks |-> 0]
  /\ UNCHANGED <<task, jobTimeout, executed, timeVars, fresh, calls, forced>>

-----------------------------------------------------------------------------
Request(c) ==
  \E j \in Jobs :
    \/ CreateJob(c, j)
    \/ UpdateJob(c, j)
    \/ \E force \in BOOLEAN : CancelJob(c, j, force) \/ DeleteJob(c, j, force)
    \/ \E t \in TasksOf(j), force \in BOOLEAN :
         CancelTask(c, t, force) \/ DeleteTask(c, t, force)

CallerStep(c) == \/ CreateRead(c) \/ UpdateWrite(c) \/ DeleteTasks(c)
                 \/ CallerContext(c) \/ CallerCanceled(c)
CallerSends(c) == UpdateContext(c) \/ CallerRemove(c)

PoolStep(j) == PoolInsert(j) \/ PoolFind(j)

Next ==
  \/ \E c \in Callers : Request(c) \/ CallerStep(c) \/ CallerSends(c)
  \/ \E j \in Jobs : PoolStep(j) \/ PoolAdd(j) \/ PoolDelJob(j)
  \/ \E t \in Tasks : PoolDelTask(t)
  \/ RolloutStep \/ RolloutSends
  \/ LoopStep \/ LoopSends \/ LoopHears
  \/ \E e \in inflight : WorkerSends(e)
  \/ WatchWrites \/ WatchSends
  \/ CheckStep \/ CheckSends
  \/ Clock
  \/ \E th \in DirectThings : Presence(th)
  \/ Restart

Spec == Init /\ [][Next]_vars

\* A goroutine that can go on goes on (WF).  A send to a loop that also wakes
\* up on its own, by a ticker that finds work, happens if it is possible again
\* and again (SF): select picks among ready channels at random.  Nothing is
\* assumed of requests, of the clock, of things, or of restarts.
Fairness ==
  /\ \A c \in Callers : WF_vars(CallerStep(c)) /\ SF_vars(CallerSends(c))
  /\ \A j \in Jobs : /\ WF_vars(PoolStep(j)) /\ SF_vars(PoolAdd(j))
                     /\ WF_vars(PoolDelJob(j))
  /\ \A t \in Tasks : WF_vars(PoolDelTask(t))
  /\ WF_vars(RolloutStep) /\ WF_vars(RolloutSends)
  /\ WF_vars(LoopStep) /\ WF_vars(LoopSends) /\ WF_vars(LoopHears)
  /\ WF_vars(\E e \in inflight : WorkerSends(e))
  /\ WF_vars(WatchWrites) /\ SF_vars(WatchSends)
  /\ WF_vars(CheckStep) /\ SF_vars(CheckSends)

FairSpec == Spec /\ Fairness

-----------------------------------------------------------------------------
Statuses == JobStatus \union {NoContext, NoStatus}

RepoType ==
  /\ job \in [Jobs -> JobStatus \union {NoRow, NoStatus}]
  /\ task \in [Tasks -> TaskStatus \union {NoRow}]
  /\ jobTimeout \subseteq Jobs

LoopType ==
  /\ curQ \subseteq TaskCopy /\ offline \subseteq TaskCopy
  /\ loopPc \in {"select", "pop", "gate", "sent"}
  /\ hand \subseteq TaskCopy
  /\ popped \in 0 .. ConcurrentOnTick

PoolType ==
  /\ inflight \subseteq Tasks \X Nat
  /\ execs \in [Tasks -> Nat] /\ executed \subseteq Tasks

WatchType ==
  /\ watchPc \in {"select", "update", "out"}
  /\ watchMsg \subseteq Tasks \X {"SENT", "SUCCEEDED", "FAILED"}

PresenceType == online \subseteq Things /\ events \subseteq Things

RolloutType ==
  /\ pending \in Seq(Jobs)
  /\ item \in [Jobs -> [status : Statuses, tasks : SUBSET TaskCopy, used : Nat,
                        timeout : BOOLEAN]]
  /\ roPc \in {"select", "sched", "sched2", "finish", "clear", "set", "put",
               "endRunner", "endTasks", "endJob", "reload"}
  /\ roI \in 0 .. Len(pending) /\ (roPc = "select" <=> roI = 0)
  /\ roChunk \subseteq TaskCopy

CheckType ==
  /\ checkJobs \subseteq Jobs /\ ckTodo \subseteq Jobs /\ ckJob \subseteq Jobs
  /\ ckPc \in {"select", "count", "get", "finish", "context", "remove"}
  /\ ckStatus \in Statuses

PoolJobType ==
  /\ creating \in [Jobs -> [pc : {"none", "insert", "find", "add"},
                            status : Statuses, tasks : SUBSET TaskCopy]]
  /\ delJobW \in [Jobs -> Nat] /\ delTaskW \in [Tasks -> Nat]

TimeType ==
  /\ endBehavior \in [Jobs -> {"NONE", "STOP_ROLLOUT", "CANCEL", "FORCE_CANCEL"}]
  /\ phase \in [Jobs -> {"before", "in", "after"}]

CtxType == ctx \in [Jobs -> Statuses]

ApiType ==
  /\ api \in [Callers -> [pc : {"idle", "read", "write", "updateCtx", "context",
                                "remove", "canceled", "deleteTasks"},
                          op : ApiOps \union {"none"},
                          job : Jobs \union {"none"}, force : BOOLEAN]]
  /\ \A c \in Callers : api[c].pc # "idle" => api[c].job \in Jobs
  /\ fresh \subseteq Jobs /\ forced \subseteq Jobs
  /\ calls \in 0 .. MaxCalls /\ starts \in 1 .. MaxStarts

\* The values that the tables, the lists and the goroutines' states take; the
\* index of rolloutLoop stays within the list, which other goroutines shorten.
TypeOK ==
  /\ RepoType /\ LoopType /\ PoolType /\ WatchType /\ PresenceType
  /\ RolloutType /\ CheckType /\ PoolJobType /\ TimeType /\ CtxType /\ ApiType

-----------------------------------------------------------------------------
(* Properties.                                                             *)

\* How far a task has come; a row that is gone has come furthest.
Stage(s) == CASE s = "QUEUED" -> 0
              [] s = "SENT" -> 1
              [] s = "IN_PROGRESS" -> 2
              [] s = NoRow -> 4
              [] OTHER -> 3

\* The status of a task only moves forward, and a terminal status stays what
\* it is: the late SENT of sysOpTaskLoop, the outcome that a worker reports
\* after the task was canceled, and the cancellations of requests and of the
\* schedule do not overwrite one another (updateTaskStatus, CancelTasks).
TaskStatusForward ==
  [][\A t \in Tasks :
       task[t] # NoRow /\ task'[t] # task[t] => Stage(task'[t]) > Stage(task[t])]_vars

\* A process gives a task to the worker pool at most once, whether its job was
\* created in it or was taken up again by preload: the pending list, the chunk
\* on its way, the queue, the parked tasks, and the schedule's reload of SENT
\* tasks never make it run twice.
ExecutedOncePerStart == \A t \in Tasks : execs[t] <= 1

\* A task is recorded as sent, succeeded or failed only after it was given to
\* the worker pool, in whatever order its two reports are received.
ReportedWasExecuted ==
  \A t \in Tasks : task[t] \in {"SENT", "SUCCEEDED", "FAILED"} => t \in executed

\* "COMPLETED: all task in terminal status" (job/types.go): doFinishJob acts on
\* counts and a status that were read in earlier statements, and preload
\* finishes jobs of an earlier process.
CompletedMeansDone ==
  \A j \in Jobs : job[j] = "COMPLETED" => AllTasksTerminal(j)

\* A list handed to the runner repeats no entry that the runner holds, so the
\* queue never has two equal entries.
NoEntryTwice ==
  /\ roPc = "put" => roChunk \intersect (curQ \union offline \union hand) = {}
  /\ curQ \intersect (offline \union hand) = {} /\ offline \intersect hand = {}

CopiesHeld(j) ==
  CopiesOf(j, item[j].tasks \union roChunk \union curQ \union offline)

\* Once a forced cancel has been carried out (the request has returned and its
\* message reached the runner), neither the center nor the runner holds a task
\* of the job, whatever rolloutLoop was doing when the request came in.
ForceCancelDrains ==
  \A j \in forced :
    delJobW[j] = 0 /\ (\A c \in Callers : api[c].job # j) => CopiesHeld(j) = {}

\* A task that is QUEUED in the table while its job is IN_PROGRESS is held
\* somewhere in the process: no hand-over between goroutines, parking, full
\* pool or restart loses it.
NoTaskLost ==
  \A t \in Tasks :
    task[t] = "QUEUED" /\ job[JobOf[t]] = "IN_PROGRESS" =>
      \/ \E m \in CopiesHeld(JobOf[t]) \union hand : IdOf(m) = t
      \/ \E e \in inflight : e[1] = t
      \/ \E c \in watchMsg : c[1] = t

\* A parked task whose thing is online, with no event on its way to tell the
\* loop so: the event was given up (EventTimesOut).  Nothing takes the task up
\* again as long as the thing stays online.
Overlooked(m) == m \in offline /\ ThingOf[IdOf(m)] \in online \ events

\* Every job comes to an end - rolled out, carried out, reported, counted and
\* finished, over a restart too - if the things that its tasks are for come
\* online for good and no parked task is left overlooked.  The code does not
\* guarantee the second condition: EventBus.Publish drops an event after one
\* second (eventbus.go), and the parked task then waits although its thing is
\* online.  Nothing else keeps a job from its end.
JobFinishes ==
  (<>[](DirectThings \subseteq online /\ ~ \E m \in offline : Overlooked(m))) =>
    \A j \in Jobs : job[j] = "WAITING" ~> IsJobTerminal(job[j])

\* A request does not stay in ReceiveMgrMsg: "Receive management message from
\* MgrService, and return immediately" (job/job.go).
RequestReturns == \A c \in Callers : api[c].pc # "idle" ~> api[c].pc = "idle"

\* A job has one of the statuses of job/types.go: for a job that is CANCELED
\* already, doFinishJob says that it does nothing (job/center.go).
JobStatusKnown == \A j \in Jobs : job[j] \in JobStatus \union {NoRow}

\* CANCELED is a terminal status (job/service.go): the job is not set to work
\* again afterwards.
CanceledJobNotRevived ==
  [][\A j \in Jobs : job[j] = "CANCELED" => job'[j] # "IN_PROGRESS"]_vars

\* "Task with QUEUED status can be canceled" (job/service.go): once the request
\* has returned and its message has reached the runner, the canceled task is
\* not started any more.
CanceledTaskNotStarted ==
  [][\A t \in Tasks :
       task[t] = "CANCELED" /\ execs'[t] > execs[t] =>
         delTaskW[t] > 0]_vars
=============================================================================

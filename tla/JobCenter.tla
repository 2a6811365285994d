------------------------------ MODULE JobCenter ------------------------------
(***************************************************************************)
(* The center (job/center.go): rolloutLoop, which owns the list of pending *)
(* jobs; watchTaskChangeLoop, which decides when a job is finished; the    *)
(* pool goroutines that ReceiveMgrMsg starts; the map of job contexts.     *)
(*                                                                         *)
(* Task timeouts have no action: checkTimeoutTask acts on a task whose     *)
(* StartedAt is set, and no code sets it.  What taskTimeoutFilter does do, *)
(* dropping a job that has a timeout config and no task, is in RoSet.      *)
(***************************************************************************)
EXTENDS JobRunner, Sequences

CONSTANTS
  EndBehaviors,  \* what a new job may ask for: "NONE" (no scheduling config),
                 \* "STOP_ROLLOUT", "CANCEL", "FORCE_CANCEL"
  MaxPerMinute,  \* of every RolloutConfig; 0: jobs have no RolloutConfig
  TimeoutJobs    \* the jobs created with a TimeoutConfig

ASSUME CenterAssumption ==
  /\ EndBehaviors \subseteq {"NONE", "STOP_ROLLOUT", "CANCEL", "FORCE_CANCEL"}
  /\ MaxPerMinute \in Nat
  /\ TimeoutJobs \subseteq Jobs

VARIABLES
  pending,      \* pendingJobs of rolloutLoop, the job ids in order
  item,         \* item[j]: the PendingJobItem of j, NoItem when j is not pending
  ctx,          \* jobContexts: ctx[j] is the status in j's context, or NoContext
  roPc,         \* where rolloutLoop is
  roI,          \* its index into pending, 0 outside a round
  roChunk,      \* rolloutTasks, on their way to the runner
  checkJobs,    \* pendingCheckJobs of watchTaskChangeLoop
  ckPc,         \* where that loop is
  ckTodo,       \* jobs that its current tick has still to check
  ckJob,        \* the job it is checking, none or one
  ckStatus,     \* j.Status as checkFinishJob read it
  creating,     \* creating[j]: the pool goroutine that sets up the tasks of j
  delJobW,      \* delJobW[j]: pool goroutines about to send a delete by job id
  delTaskW,     \* delTaskW[t]: those about to send a delete by task id
  endBehavior,  \* SchedulingConfig.EndBehavior of a job, "NONE" without config
  phase         \* the time, seen from the job's schedule

roVars == <<pending, item, roPc, roI, roChunk>>
ckVars == <<checkJobs, ckPc, ckTodo, ckJob, ckStatus>>
poolJobVars == <<creating, delJobW, delTaskW>>
timeVars == <<endBehavior, phase>>
centerVars == <<roVars, ckVars, poolJobVars, timeVars, ctx>>

NoItem == [status |-> NoContext, tasks |-> {}, used |-> 0, timeout |-> FALSE]
NotCreating == [pc |-> "none", status |-> NoContext, tasks |-> {}]

CenterInit ==
  /\ pending = <<>>
  /\ item = [j \in Jobs |-> NoItem]
  /\ ctx = [j \in Jobs |-> NoContext]
  /\ roPc = "select" /\ roI = 0 /\ roChunk = {}
  /\ checkJobs = {} /\ ckPc = "select" /\ ckTodo = {} /\ ckJob = {}
  /\ ckStatus = NoContext
  /\ creating = [j \in Jobs |-> NotCreating]
  /\ delJobW = [j \in Jobs |-> 0]
  /\ delTaskW = [t \in Tasks |-> 0]
  /\ endBehavior = [j \in Jobs |-> "NONE"]
  /\ phase = [j \in Jobs |-> "in"]

\* setJobContext, removeJobContext
SetContext(j, s) == ctx' = [ctx EXCEPT ![j] = s]
RemoveContext(j) == ctx' = [ctx EXCEPT ![j] = NoContext]

\* doFinishJob on a job that was read with status s.  For CANCELED the
\* switch leaves st at its zero value, and the update below it still runs.
FinishedStatus(s) == CASE s = "CANCELING" -> "CANCELED"
                       [] s \in {"WAITING", "IN_PROGRESS"} -> "COMPLETED"
                       [] s = "CANCELED" -> NoStatus

\* The row that doFinishJob leaves in place of row.
FinishedRow(s, row) ==
  IF s = "REMOVING" \/ row = NoRow THEN NoRow
  ELSE IF s \in {"CANCELING", "WAITING", "IN_PROGRESS", "CANCELED"}
       THEN FinishedStatus(s)
  ELSE row

DoFinishJob(j, s) ==
  /\ job' = [job EXCEPT ![j] = FinishedRow(s, @)]
  /\ task' = IF s = "REMOVING" THEN TasksDeleted(j) ELSE task

-----------------------------------------------------------------------------
(* createJob in a pool goroutine, after the job row exists.                *)

CreateInsert(j) ==
  /\ creating[j].pc = "insert"
  /\ task' = TasksInserted(j)
  /\ creating' = [creating EXCEPT ![j].pc = "find"]

\* CreateTasks reads the rows back in a second statement.
CreateFind(j) ==
  /\ creating[j].pc = "find"
  /\ creating' = [creating EXCEPT ![j].pc = "add",
                                  ![j].tasks = ReadTasks(j, TaskStatus)]

-----------------------------------------------------------------------------
(* rolloutLoop: the cases of its select.                                   *)

\* delPendingAt
DelPendingAt(s, i) == SubSeq(s, 1, i - 1) \o SubSeq(s, i + 1, Len(s))

IsPending(j) == \E i \in DOMAIN pending : pending[i] = j

\* A round over the list p starts at its first job.
RoundStarts(p) ==
  \/ p = <<>> /\ roPc' = "select" /\ roI' = 0
  \/ p # <<>> /\ roPc' = "sched" /\ roI' = 1

\* Mutant: the round goes one index too far.
RoundGoesOnTooFar(p) ==
  \/ roI <= Len(p) /\ roPc' = "sched" /\ roI' = roI + 1
  \/ roI > Len(p) /\ roPc' = "select" /\ roI' = 0

\* The round goes on with the index after roI, p being the list by then.
\* When the job at roI was taken out, the one that moved to its place waits
\* for the next round.
RoundGoesOn(p) ==
  \/ roI < Len(p) /\ roPc' = "sched" /\ roI' = roI + 1
  \/ roI >= Len(p) /\ roPc' = "select" /\ roI' = 0

\* A job arrives on pendingJobCh.
RoAdd(j) ==
  /\ roPc = "select"
  /\ creating[j].pc = "add"
  /\ pending' = Append(pending, j)
  /\ item' = [item EXCEPT ![j] = [status |-> creating[j].status,
                                  tasks |-> creating[j].tasks,
                                  used |-> 0,
                                  timeout |-> j \in TimeoutJobs]]
  /\ creating' = [creating EXCEPT ![j] = NotCreating]
  /\ RoundStarts(pending')
  /\ UNCHANGED <<roChunk, ctx>>

RoTakeOut(i) ==
  /\ pending' = DelPendingAt(pending, i)
  /\ item' = [item EXCEPT ![pending[i]] = NoItem]

\* A removeJobMsg arrives on pendingJobChDel; no round follows it.
RoRemove(j, force) ==
  LET ongoing == OngoingTasks(item[j].tasks)
  IN  /\ roPc = "select"
      /\ \/ /\ ~IsPending(j)
            /\ UNCHANGED <<pending, item, ctx>>
         \/ \E i \in DOMAIN pending :
              /\ pending[i] = j
              /\ \/ force /\ RoTakeOut(i) /\ RemoveContext(j)
                 \/ /\ ~force /\ ongoing = {}
                    /\ RoTakeOut(i)
                    /\ IF item[j].status # "IN_PROGRESS"
                       THEN RemoveContext(j) ELSE UNCHANGED ctx
                 \/ /\ ~force /\ ongoing # {}
                    /\ item' = [item EXCEPT ![j].tasks = ongoing]
                    /\ UNCHANGED <<pending, ctx>>
      /\ UNCHANGED <<roPc, roI, roChunk>>

\* An updateJobMsg with a timeout config arrives on updateJobContextCh.
RoUpdateContext(j) ==
  /\ roPc = "select"
  /\ \/ /\ IsPending(j)
        /\ item' = [item EXCEPT ![j].timeout = TRUE]
        /\ SetContext(j, item[j].status)
     \/ ~IsPending(j) /\ UNCHANGED <<item, ctx>>
  /\ RoundStarts(pending)
  /\ UNCHANGED <<pending, roChunk>>

RoTick ==
  /\ roPc = "select"
  /\ pending # <<>>
  /\ RoundStarts(pending)
  /\ UNCHANGED <<pending, item, roChunk>>

-----------------------------------------------------------------------------
(* rolloutLoop: one job of a round.                                        *)

\* jobScheduleFilter, the job is in its time.  "finish": no task is left.
RoInTime(j) ==
  LET s == IF item[j].status = "WAITING" THEN "IN_PROGRESS" ELSE item[j].status
      ts == IF IsJobToTerminal(s) THEN OngoingTasks(item[j].tasks)
                                  ELSE item[j].tasks
  IN  /\ roPc = "sched" /\ pending[roI] = j
      /\ phase[j] = "in"
      /\ job' = IF item[j].status = "WAITING" THEN JobWritten(j, "IN_PROGRESS")
                                              ELSE job
      /\ item' = [item EXCEPT ![j].status = s, ![j].tasks = ts]
      /\ roPc' = IF ts = {} THEN "finish" ELSE "set"
      /\ UNCHANGED <<pending, roI, roChunk>>

RoFinish(j) ==
  /\ roPc = "finish" /\ pending[roI] = j
  /\ DoFinishJob(j, item[j].status)
  /\ roPc' = "clear"
  /\ UNCHANGED <<pending, item, roI, roChunk>>

\* jobScheduleFilter, the job is not in its time.  The clock is read a
\* second time to tell "before the start" from "after the end".
RoNotInTime(j) ==
  /\ roPc = "sched" /\ pending[roI] = j
  /\ phase[j] # "in"
  /\ roPc' = "sched2"
  /\ UNCHANGED <<pending, item, roI, roChunk>>

RoBeforeStart(j) ==
  /\ roPc = "sched2" /\ pending[roI] = j
  /\ phase[j] = "before"
  /\ RoundGoesOn(pending)
  /\ UNCHANGED <<pending, item, roChunk>>

\* Everything that is not before the start is taken to be after the end.
RoStopRollout(j) ==
  /\ roPc = "sched2" /\ pending[roI] = j
  /\ phase[j] # "before"
  /\ endBehavior[j] = "STOP_ROLLOUT"
  /\ item' = [item EXCEPT ![j].tasks = OngoingTasks(@)]
  /\ roPc' = "set"
  /\ UNCHANGED <<pending, roI, roChunk>>

RoEndCancel(j) ==
  /\ roPc = "sched2" /\ pending[roI] = j
  /\ phase[j] # "before"
  /\ endBehavior[j] \in {"CANCEL", "FORCE_CANCEL"}
  /\ item' = [item EXCEPT ![j].status = "CANCELED"]
  /\ roPc' = "endRunner"
  /\ UNCHANGED <<pending, roI, roChunk>>

\* runner.CancelTaskOfJob: waits until sysOpTaskLoop receives.
RoEndRunner(j) ==
  /\ roPc = "endRunner" /\ pending[roI] = j
  /\ roPc' = "endTasks"
  /\ UNCHANGED <<pending, item, roI, roChunk>>

RoEndTasks(j) ==
  /\ roPc = "endTasks" /\ pending[roI] = j
  /\ task' = TasksCanceled(j, endBehavior[j] = "FORCE_CANCEL")
  /\ roPc' = "endJob"
  /\ UNCHANGED <<pending, item, roI, roChunk>>

RoEndJob(j) ==
  /\ roPc = "endJob" /\ pending[roI] = j
  /\ job' = JobWritten(j, "CANCELED")
  /\ roPc' = IF endBehavior[j] = "FORCE_CANCEL" THEN "clear" ELSE "reload"
  /\ UNCHANGED <<pending, item, roI, roChunk>>

RoReload(j) ==
  /\ roPc = "reload" /\ pending[roI] = j
  /\ item' = [item EXCEPT ![j].tasks = ReadTasks(j, {"SENT", "IN_PROGRESS"})]
  /\ roPc' = "set"
  /\ UNCHANGED <<pending, roI, roChunk>>

\* clearJob
RoClear(j) ==
  /\ roPc = "clear" /\ pending[roI] = j
  /\ IF item[j].status # "IN_PROGRESS" THEN RemoveContext(j) ELSE UNCHANGED ctx
  /\ RoTakeOut(roI)
  /\ RoundGoesOn(pending')
  /\ UNCHANGED roChunk

\* jobNextRolloutCount; used is what went out within the last minute.
RolloutCount(j) ==
  LET all == Cardinality(item[j].tasks)
      left == MaxPerMinute - item[j].used
  IN  IF MaxPerMinute = 0 THEN all
      ELSE IF item[j].used >= MaxPerMinute THEN 0
      ELSE IF left > all THEN all ELSE left

\* taskTimeoutFilter says remove: a timeout config and no task remaining.
NothingRemains(j) == item[j].timeout /\ item[j].tasks = {}

\* Mutant: the tasks that go out stay in the pending item.
RoSetKeepsTasks(j) ==
  /\ roPc = "set" /\ pending[roI] = j
  /\ SetContext(j, item[j].status)
  /\ \E chunk \in SUBSET item[j].tasks :
       Cardinality(chunk) = RolloutCount(j) /\ roChunk' = chunk
  /\ roPc' = "put"
  /\ UNCHANGED <<pending, item, roI>>

\* taskTimeoutFilter, setJobContext, and the choice of the tasks to roll out.
RoSet(j) ==
  /\ roPc = "set" /\ pending[roI] = j
  /\ \/ /\ NothingRemains(j)
        /\ roPc' = "clear"
        /\ UNCHANGED <<item, roChunk, ctx>>
     \/ /\ ~NothingRemains(j)
        /\ SetContext(j, item[j].status)
        /\ \E chunk \in SUBSET item[j].tasks :
             /\ Cardinality(chunk) = RolloutCount(j)
             /\ roChunk' = chunk
             /\ item' = [item EXCEPT ![j].tasks = @ \ chunk]
        /\ roPc' = "put"
  /\ UNCHANGED <<pending, roI>>

\* runner.PutTasks: waits until sysOpTaskLoop receives the chunk (an empty
\* one too); a job with no task left leaves the list, its context stays.
RoPut(j) ==
  /\ roPc = "put" /\ pending[roI] = j
  /\ roChunk' = {}
  /\ \/ item[j].tasks = {} /\ RoTakeOut(roI)
     \/ /\ item[j].tasks # {}
        /\ item' = [item EXCEPT ![j].used =
                      IF MaxPerMinute = 0 THEN 0 ELSE @ + Cardinality(roChunk)]
        /\ UNCHANGED pending
  /\ RoundGoesOn(pending')

-----------------------------------------------------------------------------
(* watchTaskChangeLoop and checkFinishJob.                                 *)

\* Mutant: only tasks that succeeded lead to a check of the job.
CkReceiveSucceeded(t, s) ==
  /\ ckPc = "select"
  /\ checkJobs' = IF s = "SUCCEEDED" THEN checkJobs \union {JobOf[t]}
                                     ELSE checkJobs
  /\ UNCHANGED <<ckPc, ckTodo, ckJob, ckStatus>>

\* A change arrives on the runner's outTaskChangeCh.
CkReceive(t, s) ==
  /\ ckPc = "select"
  /\ checkJobs' = IF IsTaskTerminal(s) THEN checkJobs \union {JobOf[t]}
                                       ELSE checkJobs
  /\ UNCHANGED <<ckPc, ckTodo, ckJob, ckStatus>>

CkTick ==
  /\ ckPc = "select"
  /\ checkJobs # {}
  /\ ckTodo' = checkJobs
  /\ ckPc' = "count"
  /\ UNCHANGED <<checkJobs, ckJob, ckStatus>>

CkGoesOn(todo) == ckPc' = IF todo = {} THEN "select" ELSE "count"

\* Mutant: tasks that are still QUEUED do not count as open.
CkCountOngoing(j) ==
  LET none == \A t \in TasksOf(j) : ~IsTaskOngoing(task[t])
  IN  /\ ckPc = "count"
      /\ j \in ckTodo
      /\ ckTodo' = ckTodo \ {j}
      /\ \/ none /\ ckPc' = "get" /\ ckJob' = {j}
         \/ ~none /\ CkGoesOn(ckTodo') /\ UNCHANGED ckJob
      /\ UNCHANGED <<checkJobs, ckStatus>>

CkCount(j) ==
  /\ ckPc = "count"
  /\ j \in ckTodo
  /\ ckTodo' = ckTodo \ {j}
  /\ \/ AllTasksTerminal(j) /\ ckPc' = "get" /\ ckJob' = {j}
     \/ ~AllTasksTerminal(j) /\ CkGoesOn(ckTodo') /\ UNCHANGED ckJob
  /\ UNCHANGED <<checkJobs, ckStatus>>

CkGet(j) ==
  /\ ckPc = "get" /\ j \in ckJob
  /\ \/ job[j] = NoRow /\ ckPc' = "context" /\ UNCHANGED ckStatus
     \/ job[j] # NoRow /\ ckPc' = "finish" /\ ckStatus' = job[j]
  /\ UNCHANGED <<checkJobs, ckTodo, ckJob>>

CkFinish(j) ==
  /\ ckPc = "finish" /\ j \in ckJob
  /\ DoFinishJob(j, ckStatus)
  /\ ckPc' = "context"
  /\ ckStatus' = NoContext
  /\ UNCHANGED <<checkJobs, ckTodo, ckJob>>

CkContext(j) ==
  /\ ckPc = "context" /\ j \in ckJob
  /\ RemoveContext(j)
  /\ ckPc' = "remove"
  /\ UNCHANGED <<checkJobs, ckTodo, ckJob, ckStatus>>

\* removePendingJob: waits until rolloutLoop receives.
CkRemove(j) ==
  /\ ckPc = "remove" /\ j \in ckJob
  /\ checkJobs' = checkJobs \ {j}
  /\ ckJob' = {}
  /\ CkGoesOn(ckTodo)
  /\ UNCHANGED <<ckTodo, ckStatus>>

-----------------------------------------------------------------------------
(* Time.                                                                   *)

TimePasses(j) ==
  /\ endBehavior[j] # "NONE"
  /\ \/ phase[j] = "before" /\ phase' = [phase EXCEPT ![j] = "in"]
     \/ phase[j] = "in" /\ phase' = [phase EXCEPT ![j] = "after"]
  /\ UNCHANGED endBehavior

\* Some roll-outs of a pending job are now more than a minute ago.
WindowSlides(j) ==
  /\ item[j].used > 0
  /\ \E n \in 0 .. item[j].used - 1 : item' = [item EXCEPT ![j].used = n]
  /\ UNCHANGED <<pending, roPc, roI, roChunk>>
=============================================================================

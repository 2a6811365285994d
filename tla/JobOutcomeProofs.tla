-------------------------- MODULE JobOutcomeProofs ---------------------------
(***************************************************************************)
(* What the end of a job means: a job that is COMPLETED has no open task,  *)
(* and a forced cancel leaves none of its tasks behind.                    *)
(***************************************************************************)
EXTENDS JobHandoverProofs

(***************************************************************************)
(* A job that is COMPLETED has no open task.  Three places write COMPLETED *)
(* (rolloutLoop, checkFinishJob and the start of the process), each on the *)
(* ground of something read in an earlier step.                            *)
(***************************************************************************)
\* A completed job stays without open tasks: nothing inserts tasks any more.
CompletedDone ==
  \A j \in Jobs : job[j] = "COMPLETED" => Begun(j) /\ AllTasksTerminal(j)

\* What checkFinishJob has counted still holds when it finishes the job.
CheckedDone ==
  ckPc \in {"get", "finish"} => \A j \in ckJob : AllTasksTerminal(j)

\* A set-up that reads no row back has no task to hand over.
SetUpEmpty ==
  \A j \in Jobs : creating[j].pc = "add" /\ creating[j].tasks = {} =>
                    AllTasksTerminal(j)

\* rolloutLoop is about to take job j out of its list.
Leaving(j) ==
  /\ pending[roI] = j
  /\ \/ roPc \in {"clear", "set", "put"}
     \/ roPc = "finish" /\ IsJobToTerminal(item[j].status)

\* An entry of the list without tasks is of a job that has none, or leaves.
EmptyDone ==
  \A j \in Jobs : IsPending(j) /\ item[j].tasks = {} =>
                    AllTasksTerminal(j) \/ Leaving(j)
FinishEmpty == roPc = "finish" => item[pending[roI]].tasks = {}

CompletionInv == /\ HandoverInv /\ CompletedDone /\ CheckedDone /\ SetUpEmpty
                 /\ EmptyDone /\ FinishEmpty

-----------------------------------------------------------------------------
(* Tables.                                                                 *)

\* Once all tasks of a job are terminal they stay so, unless they are yet to
\* be inserted.
LEMMA TerminalStays ==
  ASSUME TypeOK, SetUpOnce, [Next]_vars, NEW j \in Jobs, AllTasksTerminal(j),
         creating[j].pc # "insert"
  PROVE  AllTasksTerminal(j)'
<1>1. \A t \in Tasks : TaskMove(t)
  BY EveryTaskMove
<1> QED BY <1>1
    DEF AllTasksTerminal, TasksOf, TaskMove, IsTaskTerminal, NoRow

\* A read that finds no open row shows that all tasks are terminal.
LEMMA NoneOpen ==
  ASSUME TypeOK, NEW j \in Jobs, NEW ss,
         ReadTasks(j, ss) = {}, {"QUEUED", "SENT", "IN_PROGRESS"} \subseteq ss
  PROVE  AllTasksTerminal(j)
<1> SUFFICES ASSUME NEW t \in Tasks, JobOf[t] = j, task[t] # NoRow
             PROVE  IsTaskTerminal(task[t])
  BY DEF AllTasksTerminal, TasksOf
<1>1. task[t] \in TaskStatus
  BY DEF TypeOK, RepoType
<1>2. <<t, task[t]>> \in TaskCopy
  BY <1>1 DEF TaskCopy
<1>3. task[t] \notin ss
  BY <1>1, <1>2 DEF ReadTasks, JobOfCopy, IdOf, StatusOf
<1> QED BY <1>1, <1>3 DEF TaskStatus, IsTaskTerminal

\* Who writes COMPLETED.
LEMMA CompletedBy ==
  ASSUME TypeOK, [Next]_vars, NEW j \in Jobs, job'[j] = "COMPLETED"
  PROVE  \/ job[j] = "COMPLETED"
         \/ RoFinish(j) /\ item[j].status \in {"WAITING", "IN_PROGRESS"}
         \/ ckPc = "finish" /\ j \in ckJob
         \/ Restart /\ j \in PendingRows /\ OpenTasks(j) = {}
<1> DEFINE By == \/ job[j] = "COMPLETED"
                 \/ RoFinish(j) /\ item[j].status \in {"WAITING", "IN_PROGRESS"}
                 \/ ckPc = "finish" /\ j \in ckJob
                 \/ Restart /\ j \in PendingRows /\ OpenTasks(j) = {}
<1>0. ASSUME job[j] = "COMPLETED"  PROVE By
  BY <1>0
<1>1. ASSUME NEW i \in Jobs, NEW s, s # "COMPLETED", job' = JobWritten(i, s)
      PROVE  job[j] = "COMPLETED"
  BY <1>1 DEF JobWritten, TypeOK, RepoType, NoRow
<1>2. ASSUME RolloutFinishes  PROVE By
  <2>1. PICK i \in Jobs : RoFinish(i)
    BY <1>2 DEF RolloutFinishes
  <2>2. CASE i # j
    BY <2>1, <2>2 DEF RoFinish, DoFinishJob, TypeOK, RepoType
  <2>3. CASE i = j
    BY <2>1, <2>3
    DEF RoFinish, DoFinishJob, FinishedRow, FinishedStatus, TypeOK, RepoType,
        NoRow, NoStatus
  <2> QED BY <2>2, <2>3
<1>3. ASSUME CheckFinishes  PROVE By
  BY <1>3 DEF CheckFinishes, CkFinish, DoFinishJob, TypeOK, RepoType
<1>4. ASSUME Restart  PROVE By
  BY <1>4 DEF Restart
<1> HIDE DEF By
<1>5. ASSUME NEW c \in Callers, Request(c)  PROVE job[j] = "COMPLETED"
  BY <1>5
  DEF Request, CreateJob, InsertJob, UpdateJob, CancelJob, DeleteJob, CancelTask,
      DeleteTask, repoVars, TypeOK, RepoType, NoRow
<1>6. ASSUME NEW c \in Callers, CallerStep(c) \/ CallerSends(c)
      PROVE  job[j] = "COMPLETED"
  <2>1. CASE CallerCanceled(c)
    BY <1>1, <2>1 DEF CallerCanceled, TypeOK, ApiType
  <2>2. CASE ~CallerCanceled(c)
    BY <1>6, <2>2
    DEF CallerStep, CallerSends, CreateRead, UpdateWrite, CallerContext,
        DeleteTasks, UpdateContext, CallerRemove, repoVars
  <2> QED BY <2>1, <2>2
<1>7. ASSUME RolloutWritesJob  PROVE job[j] = "COMPLETED"
  BY <1>1, <1>7 DEF RolloutWritesJob, RoInTime, RoEndJob
<1>8. ASSUME \/ \E i \in Jobs : PoolStep(i) \/ PoolAdd(i) \/ PoolDelJob(i)
             \/ \E u \in Tasks : PoolDelTask(u)
             \/ RolloutLocal \/ RolloutWritesTasks \/ RolloutWritesContext
             \/ RolloutSends \/ LoopStep \/ LoopSends \/ LoopHears
             \/ \E e \in inflight : WorkerSends(e)
             \/ WatchWrites \/ WatchSends
             \/ CheckLocal \/ CheckWritesContext \/ CheckSends \/ Clock
             \/ \E th \in DirectThings : Presence(th)
             \/ UNCHANGED vars
      PROVE  job' = job
  BY <1>8
  DEF PoolStep, PoolInsert, PoolFind, PoolAdd, PoolDelJob, PoolDelTask,
      RolloutLocal, RolloutWritesTasks, RolloutWritesContext, RolloutSends,
      LoopStep, LoopLocal, LoopToPool, LoopSends, LoopHears, WorkerSends, Presence,
      LoopFrame, WatchWrites, WatchSends, CheckLocal, CheckWritesContext,
      CheckSends, Clock, vars, repoVars
<1>9. By
  BY <1>0, <1>2, <1>3, <1>4, <1>5, <1>6, <1>7, <1>8 DEF Next, RolloutStep, CheckStep
<1> QED BY <1>9 DEF By

-----------------------------------------------------------------------------
(* What was read stays true until it is used.                              *)

\* checkFinishJob.
LEMMA CheckedStep ==
  ASSUME HandoverInv, CheckedDone, [Next]_vars
  PROVE  CheckedDone'
<1> SUFFICES ASSUME ckPc' \in {"get", "finish"}, NEW j \in ckJob'
             PROVE  AllTasksTerminal(j)'
  BY DEF CheckedDone
<1>0. TypeOK /\ SetUpOnce /\ ChecksBegun /\ TypeOK'
  BY NextType DEF HandoverInv, SafetyInv, RunnerInv
<1>1. ASSUME j \in checkJobs \union ckTodo \union ckJob, AllTasksTerminal(j)
      PROVE  AllTasksTerminal(j)'
  BY <1>0, <1>1, TerminalStays DEF ChecksBegun, Begun, TypeOK, CheckType
<1>2. CASE UNCHANGED ckVars
  BY <1>1, <1>2 DEF ckVars, CheckedDone
<1>3. CASE CheckLocal
  BY <1>1, <1>3 DEF CheckLocal, CkTick, CkCount, CkGoesOn, CkGet, CheckedDone
<1>4. CASE CheckFinishes \/ CheckWritesContext \/ CheckSends \/ Restart
  BY <1>4 DEF CheckFinishes, CheckWritesContext, CheckSends, CkFinish, CkContext,
              CkRemove, CkGoesOn, Restart
<1>5. CASE WatchSends
  BY <1>1, <1>5 DEF WatchSends, CkReceive, CheckedDone
<1> QED BY <1>2, <1>3, <1>4, <1>5, CheckMove

\* The set-up of a job.
LEMMA SetUpEmptyStep ==
  ASSUME HandoverInv, SetUpEmpty, [Next]_vars
  PROVE  SetUpEmpty'
<1> SUFFICES ASSUME NEW j \in Jobs, creating'[j].pc = "add", creating'[j].tasks = {}
             PROVE  AllTasksTerminal(j)'
  BY DEF SetUpEmpty
<1>0. TypeOK /\ SetUpOnce
  BY DEF HandoverInv, SafetyInv
<1>1. CASE creating'[j] = creating[j]
  BY <1>0, <1>1, TerminalStays DEF SetUpEmpty
<1>2. CASE PoolFind(j)
  <2>1. creating[j].pc = "find" /\ creating'[j].tasks = ReadTasks(j, TaskStatus)
    BY <1>0, <1>2 DEF PoolFind, CreateFind, TypeOK, PoolJobType
  <2>2. AllTasksTerminal(j)
    BY <1>0, <2>1, NoneOpen DEF TaskStatus
  <2> QED BY <1>0, <2>1, <2>2, TerminalStays
<1> QED BY <1>0, <1>1, <1>2, EveryCreatingMove DEF CreatingMove, NotCreating

\* An entry that stays in the list and had no open task.
LEMMA EmptyKept ==
  ASSUME HandoverInv, EmptyDone, [Next]_vars, NEW j \in Jobs, IsPending(j),
         item[j].tasks = {}, ~Leaving(j)
  PROVE  AllTasksTerminal(j)'
BY TerminalStays
DEF EmptyDone, HandoverInv, SafetyInv, ListInv, PendingBegun, Begun

\* Steps of others leave rolloutLoop where it is.
LEMMA EmptyFrame ==
  ASSUME HandoverInv, EmptyDone, FinishEmpty, [Next]_vars,
         UNCHANGED <<pending, roPc, roI>>,
         \A j \in Jobs : item'[j].tasks = item[j].tasks /\ item'[j].status = item[j].status
  PROVE  EmptyDone' /\ FinishEmpty'
<1>1. EmptyDone'
  <2> SUFFICES ASSUME NEW j \in Jobs, IsPending(j)', item'[j].tasks = {}
               PROVE  AllTasksTerminal(j)' \/ Leaving(j)'
    BY DEF EmptyDone
  <2>1. IsPending(j) /\ item[j].tasks = {}
    BY DEF IsPending
  <2>2. Leaving(j) => Leaving(j)'
    BY DEF Leaving
  <2> QED BY <2>1, <2>2, EmptyKept
<1>2. FinishEmpty'
  <2>1. roPc = "finish" => pending[roI] \in Jobs
    BY WorksOnPending DEF HandoverInv, SafetyInv
  <2> QED BY <2>1 DEF FinishEmpty
<1> QED BY <1>1, <1>2

\* Steps that find rolloutLoop waiting and make no entry without tasks.
LEMMA EmptySelect ==
  ASSUME HandoverInv, EmptyDone, [Next]_vars, roPc = "select", roPc' # "finish",
         \A j \in Jobs : IsPending(j)' /\ item'[j].tasks = {} =>
                            IsPending(j) /\ item[j].tasks = {}
  PROVE  EmptyDone' /\ FinishEmpty'
<1>1. \A j \in Jobs : ~Leaving(j)
  BY DEF Leaving
<1>2. EmptyDone'
  BY <1>1, EmptyKept DEF EmptyDone
<1> QED BY <1>2 DEF FinishEmpty

\* Steps of rolloutLoop on one entry of its list, which stays there.
LEMMA EmptyRound ==
  ASSUME HandoverInv, EmptyDone, [Next]_vars, NEW j \in Jobs, pending[roI] = j,
         UNCHANGED pending, \A i \in Jobs : i # j => item'[i] = item[i],
         \/ roI' = roI /\ roPc' \in {"clear", "set", "put"}
         \/ /\ roI' = roI /\ roPc' = "finish" /\ item'[j].tasks = {}
            /\ \/ item[j].tasks = {} /\ ~Leaving(j)
               \/ IsJobToTerminal(item'[j].status)
         \/ roPc' # "finish" /\ (item'[j].tasks = {} => item[j].tasks = {} /\ ~Leaving(j))
  PROVE  EmptyDone' /\ FinishEmpty'
<1>1. EmptyDone'
  <2> SUFFICES ASSUME NEW i \in Jobs, IsPending(i)', item'[i].tasks = {}
               PROVE  AllTasksTerminal(i)' \/ Leaving(i)'
    BY DEF EmptyDone
  <2>1. IsPending(i)
    BY DEF IsPending
  <2>2. CASE i # j
    BY <2>1, <2>2, EmptyKept DEF Leaving
  <2>3. CASE i = j
    BY <2>1, <2>3, EmptyKept DEF Leaving
  <2> QED BY <2>2, <2>3
<1>2. FinishEmpty'
  BY DEF FinishEmpty
<1> QED BY <1>1, <1>2

\* Steps that take an entry out of the list.
LEMMA EmptyTakeOut ==
  ASSUME HandoverInv, EmptyDone, [Next]_vars, NEW i \in DOMAIN pending, RoTakeOut(i),
         roPc' # "finish", roPc = "select" \/ roI = i
  PROVE  EmptyDone' /\ FinishEmpty'
<1>0. TypeOK /\ PendingOnce
  BY DEF HandoverInv, SafetyInv, ListInv
<1>1. \A j \in Jobs : IsPending(j)' => IsPending(j) /\ j # pending[i]
  BY <1>0, TakeOutList
<1>2. \A j \in Jobs : j # pending[i] => item'[j] = item[j] /\ ~Leaving(j)
  BY <1>0 DEF RoTakeOut, Leaving, TypeOK, RolloutType
<1>3. EmptyDone'
  BY <1>1, <1>2, EmptyKept DEF EmptyDone
<1> QED BY <1>3 DEF FinishEmpty

\* removePendingJob.
LEMMA EmptyRemove ==
  ASSUME HandoverInv, EmptyDone, [Next]_vars, NEW j, NEW force \in BOOLEAN,
         RoRemove(j, force)
  PROVE  EmptyDone' /\ FinishEmpty'
<1>0. TypeOK /\ roPc = "select" /\ roPc' = "select"
  BY DEF HandoverInv, SafetyInv, RoRemove
<1>1. CASE UNCHANGED <<pending, item>>
  BY <1>0, <1>1, EmptySelect DEF IsPending
<1>2. CASE \E i \in DOMAIN pending : RoTakeOut(i)
  BY <1>0, <1>2, EmptyTakeOut
<1>3. ASSUME NEW i \in DOMAIN pending, pending[i] = j,
             item' = [item EXCEPT ![j].tasks = OngoingTasks(item[j].tasks)],
             OngoingTasks(item[j].tasks) # {}, UNCHANGED pending
      PROVE  EmptyDone' /\ FinishEmpty'
  <2>1. j \in Jobs
    BY <1>0, <1>3 DEF TypeOK, RolloutType
  <2>2. \A k \in Jobs : IsPending(k)' /\ item'[k].tasks = {} =>
                            IsPending(k) /\ item[k].tasks = {}
    BY <1>0, <1>3, <2>1 DEF IsPending, TypeOK, RolloutType
  <2> QED BY <1>0, <2>2, EmptySelect
<1> QED BY <1>1, <1>2, <1>3 DEF RoRemove

\* An entry is emptied only when all its tasks are terminal, or it leaves.
LEMMA EmptyStep ==
  ASSUME HandoverInv, SetUpEmpty, EmptyDone, FinishEmpty, [Next]_vars
  PROVE  EmptyDone' /\ FinishEmpty'
<1>0. TypeOK /\ SetUpOnce /\ ItemIfPending /\ PendingOnce /\ PendingBegun
  BY DEF HandoverInv, SafetyInv, ListInv
<1>a. ASSUME UNCHANGED roVars  PROVE EmptyDone' /\ FinishEmpty'
  BY <1>a, EmptyFrame DEF roVars
<1>1. ASSUME NEW c \in Callers, Request(c) \/ CallerStep(c)
      PROVE  EmptyDone' /\ FinishEmpty'
  BY <1>a, <1>1
  DEF Request, CreateJob, UpdateJob, CancelJob, DeleteJob, CancelTask, DeleteTask,
      CallerStep, CreateRead, UpdateWrite, DeleteTasks, CallerContext,
      CallerCanceled, centerVars
<1>2. ASSUME NEW c \in Callers, UpdateContext(c)
      PROVE  EmptyDone' /\ FinishEmpty'
  <2>1. api[c].job \in Jobs
    BY <1>0, <1>2 DEF UpdateContext, TypeOK, ApiType
  <2>2. pending' = pending /\ \A j \in Jobs : item'[j].tasks = item[j].tasks
    <3>1. CASE IsPending(api[c].job)
      BY <1>0, <1>2, <2>1, <3>1
      DEF UpdateContext, RoUpdateContext, TypeOK, RolloutType
    <3>2. CASE ~IsPending(api[c].job)
      BY <1>2, <3>2 DEF UpdateContext, RoUpdateContext
    <3> QED BY <3>1, <3>2
  <2>3. roPc = "select" /\ roPc' # "finish"
    BY <1>2 DEF UpdateContext, RoUpdateContext, RoundStarts
  <2> QED BY <2>2, <2>3, EmptySelect DEF IsPending
<1>3. ASSUME NEW c \in Callers, CallerRemove(c)
      PROVE  EmptyDone' /\ FinishEmpty'
  BY <1>0, <1>3, EmptyRemove DEF CallerRemove, TypeOK, ApiType
<1>4. ASSUME NEW j \in Jobs, PoolAdd(j)  PROVE EmptyDone' /\ FinishEmpty'
  <2>1. /\ roPc = "select" /\ roPc' # "finish" /\ creating[j].pc = "add"
        /\ pending' = Append(pending, j)
    BY <1>4 DEF PoolAdd, RoAdd, RoundStarts
  <2>2. \A i \in Jobs : IsPending(i)' <=> IsPending(i) \/ i = j
    BY <1>0, <2>1, AppendList DEF PendingBegun, Begun
  <2>3. /\ \A i \in Jobs : i # j => item'[i] = item[i]
        /\ item'[j].tasks = creating[j].tasks
    BY <1>0, <1>4 DEF PoolAdd, RoAdd, TypeOK, RolloutType
  <2>4. item'[j].tasks = {} => AllTasksTerminal(j)'
    BY <1>0, <2>1, <2>3, TerminalStays DEF SetUpEmpty
  <2>5. \A i \in Jobs : ~Leaving(i)
    BY <2>1 DEF Leaving
  <2>6. EmptyDone'
    BY <2>2, <2>3, <2>4, <2>5, EmptyKept DEF EmptyDone
  <2> QED BY <2>1, <2>6 DEF FinishEmpty
<1>5. ASSUME \/ \E j \in Jobs : PoolStep(j) \/ PoolDelJob(j)
             \/ \E t \in Tasks : PoolDelTask(t)
      PROVE  UNCHANGED roVars
  BY <1>5 DEF PoolStep, PoolInsert, PoolFind, PoolDelJob, PoolDelTask
<1>6. ASSUME RolloutStep \/ RolloutSends  PROVE EmptyDone' /\ FinishEmpty'
  <2>1. CASE RoTick
    BY <2>1, EmptySelect DEF RoTick, RoundStarts, IsPending
  <2>2. ASSUME NEW j \in Jobs, RoNotInTime(j) \/ RoBeforeStart(j) \/ RoEndCancel(j)
                               \/ RoEndRunner(j) \/ RoEndTasks(j) \/ RoEndJob(j)
        PROVE  EmptyDone' /\ FinishEmpty'
    <3>1. /\ pending[roI] = j /\ UNCHANGED pending /\ roPc' # "finish" /\ ~Leaving(j)
          /\ \A i \in Jobs : i # j => item'[i] = item[i]
          /\ item'[j].tasks = item[j].tasks
      BY <1>0, <2>2 DEF RoNotInTime, RoBeforeStart, RoEndCancel, RoEndRunner,
           RoEndTasks, RoEndJob, RoundGoesOn, Leaving, TypeOK, RolloutType
    <3> QED BY <3>1, EmptyRound
  <2>3. ASSUME NEW j \in Jobs, RoStopRollout(j) \/ RoReload(j) \/ RoFinish(j) \/ RoSet(j)
        PROVE  EmptyDone' /\ FinishEmpty'
    <3>1. /\ pending[roI] = j /\ UNCHANGED pending
          /\ roI' = roI /\ roPc' \in {"clear", "set", "put"}
          /\ \A i \in Jobs : i # j => item'[i] = item[i]
      BY <1>0, <2>3 DEF RoStopRollout, RoReload, RoFinish, RoSet, TypeOK, RolloutType
    <3> QED BY <3>1, EmptyRound
  <2>4. ASSUME NEW j \in Jobs, RoInTime(j)  PROVE EmptyDone' /\ FinishEmpty'
    <3>1. /\ pending[roI] = j /\ UNCHANGED pending /\ roI' = roI /\ ~Leaving(j)
          /\ \A i \in Jobs : i # j => item'[i] = item[i]
          /\ roPc' = IF item'[j].tasks = {} THEN "finish" ELSE "set"
      BY <1>0, <2>4 DEF RoInTime, Leaving, TypeOK, RolloutType
    <3>2. ~IsJobToTerminal(item'[j].status) => item'[j].tasks = item[j].tasks
      BY <1>0, <2>4 DEF RoInTime, TypeOK, RolloutType
    <3> QED BY <3>1, <3>2, EmptyRound
  <2>5. ASSUME NEW j \in Jobs, RoPut(j) \/ RoClear(j), RoTakeOut(roI)
        PROVE  EmptyDone' /\ FinishEmpty'
    <3>1. roI \in DOMAIN pending /\ roPc' # "finish"
      BY <1>0, <2>5, WorksOnPending DEF RoPut, RoClear, RoundGoesOn
    <3> QED BY <2>5, <3>1, EmptyTakeOut
  <2>6. ASSUME NEW j \in Jobs, RoPut(j) \/ RoClear(j), ~RoTakeOut(roI)
        PROVE  EmptyDone' /\ FinishEmpty'
    <3>1. /\ pending[roI] = j /\ UNCHANGED pending /\ roPc' # "finish"
          /\ \A i \in Jobs : i # j => item'[i] = item[i]
          /\ item'[j].tasks # {}
      BY <1>0, <2>6 DEF RoPut, RoClear, RoundGoesOn, TypeOK, RolloutType
    <3> QED BY <3>1, EmptyRound
  <2> QED BY <1>6, <2>1, <2>2, <2>3, <2>4, <2>5, <2>6
      DEF RolloutStep, RolloutLocal, RolloutWritesJob, RolloutFinishes,
          RolloutWritesTasks, RolloutWritesContext, RolloutSends
<1>7. ASSUME \/ LoopStep \/ LoopSends \/ LoopHears
             \/ \E e \in inflight : WorkerSends(e)
             \/ \E th \in DirectThings : Presence(th)
             \/ WatchWrites \/ WatchSends \/ CheckStep \/ UNCHANGED vars
      PROVE  UNCHANGED roVars
  BY <1>7
  DEF LoopStep, LoopLocal, LoopToPool, LoopSends, LoopHears, WorkerSends,
      Presence, LoopFrame, WatchWrites, WatchSends, CheckStep, CheckLocal,
      CheckFinishes, CheckWritesContext, vars, centerVars
<1>8. ASSUME CheckSends  PROVE EmptyDone' /\ FinishEmpty'
  BY <1>8, EmptyRemove DEF CheckSends
<1>9. ASSUME Clock  PROVE EmptyDone' /\ FinishEmpty'
  <2>1. ASSUME NEW j \in Jobs, WindowSlides(j)  PROVE EmptyDone' /\ FinishEmpty'
    <3>1. \A i \in Jobs : item'[i].tasks = item[i].tasks /\ item'[i].status = item[i].status
      BY <1>0, <2>1 DEF WindowSlides, TypeOK, RolloutType
    <3> QED BY <2>1, <3>1, EmptyFrame DEF WindowSlides
  <2> QED BY <1>a, <1>9, <2>1 DEF Clock
<1>10. ASSUME Restart  PROVE EmptyDone' /\ FinishEmpty'
  <2>1. \A j \in Jobs : IsPending(j)' => item'[j].tasks # {}
    BY <1>0, <1>10, RestartList DEF Restart
  <2> QED BY <1>10, <2>1 DEF Restart, EmptyDone, FinishEmpty
<1> QED BY <1>a, <1>1, <1>2, <1>3, <1>4, <1>5, <1>6, <1>7, <1>8, <1>9, <1>10
    DEF Next, CallerSends

-----------------------------------------------------------------------------
(* The theorem.                                                            *)

\* At the start no job is completed without its tasks.
LEMMA CompletionInit == Init => CompletionInv
<1> SUFFICES ASSUME Init  PROVE CompletionInv
  OBVIOUS
<1>1. HandoverInv
  BY HandoverInit
<1>2. /\ CompletedDone /\ CheckedDone /\ SetUpEmpty /\ EmptyDone /\ FinishEmpty
  BY DEF Init, CenterInit, CompletedDone, CheckedDone, SetUpEmpty, EmptyDone,
         FinishEmpty, IsPending, NotCreating, NoRow
<1> QED BY <1>1, <1>2 DEF CompletionInv

\* Every step keeps the invariant.
LEMMA CompletionNext == CompletionInv /\ [Next]_vars => CompletionInv'
<1> SUFFICES ASSUME CompletionInv, [Next]_vars  PROVE CompletionInv'
  OBVIOUS
<1>0. /\ HandoverInv /\ CompletedDone /\ CheckedDone /\ SetUpEmpty /\ EmptyDone
      /\ FinishEmpty /\ TypeOK /\ SetUpOnce /\ PendingBegun /\ ChecksBegun /\ RowsUsed
  BY DEF CompletionInv, HandoverInv, SafetyInv, ListInv, RunnerInv
<1>1. HandoverInv' /\ CheckedDone' /\ SetUpEmpty' /\ EmptyDone' /\ FinishEmpty'
  BY <1>0, HandoverNext, CheckedStep, SetUpEmptyStep, EmptyStep
<1>2. ASSUME NEW j \in Jobs, Begun(j), AllTasksTerminal(j)
      PROVE  Begun(j)' /\ AllTasksTerminal(j)'
  BY <1>0, <1>2, BegunStays, TerminalStays DEF Begun
<1>3. ASSUME NEW j \in Jobs, job'[j] = "COMPLETED"
      PROVE  Begun(j)' /\ AllTasksTerminal(j)'
  <2>1. CASE job[j] = "COMPLETED"
    BY <1>0, <1>2, <2>1 DEF CompletedDone
  <2>2. CASE RoFinish(j) /\ item[j].status \in {"WAITING", "IN_PROGRESS"}
    <3>1. roPc = "finish" /\ pending[roI] = j
      BY <2>2 DEF RoFinish
    <3>2. IsPending(j) /\ item[j].tasks = {} /\ ~Leaving(j)
      BY <1>0, <2>2, <3>1, WorksOnPending DEF FinishEmpty, Leaving, IsJobToTerminal
    <3> QED BY <1>0, <1>2, <3>2 DEF EmptyDone, PendingBegun
  <2>3. CASE ckPc = "finish" /\ j \in ckJob
    BY <1>0, <1>2, <2>3 DEF CheckedDone, ChecksBegun
  <2>4. CASE Restart /\ j \in PendingRows /\ OpenTasks(j) = {}
    <3>1. AllTasksTerminal(j)
      BY <1>0, <2>4, NoneOpen DEF OpenTasks
    <3>2. AllTasksTerminal(j)'
      BY <2>4, <3>1 DEF Restart, AllTasksTerminal
    <3>3. Begun(j)'
      BY <1>0, <2>4 DEF Restart, PendingRows, RowsUsed, NoRow, Begun, Creates,
                        NotCreating, Idle
    <3> QED BY <3>2, <3>3
  <2> QED BY <1>0, <1>3, <2>1, <2>2, <2>3, <2>4, CompletedBy
<1>4. CompletedDone'
  BY <1>3 DEF CompletedDone
<1> QED BY <1>1, <1>4 DEF CompletionInv

\* "COMPLETED: all task in terminal status" (job/types.go): whichever of the
\* three places finishes a job, what it has read of the tasks earlier still
\* holds when it writes, and holds from then on.
THEOREM CompletedJobsAreDone == Spec => []CompletedMeansDone
<1>1. CompletionInv => CompletedMeansDone
  BY DEF CompletionInv, CompletedDone, CompletedMeansDone
<1> QED BY <1>1, CompletionInit, CompletionNext, PTL DEF Spec

(***************************************************************************)
(* A forced cancel leaves no task of the job behind.  Its transaction ends *)
(* the rows of the tasks; its messages then reach two loops that work on   *)
(* copies of these rows, one after the other.                              *)
(***************************************************************************)
\* A request that is to read back a row is one that created it.
ReadCreates == \A c \in Callers : api[c].pc = "read" => api[c].op = "create"

\* Request c has canceled job j with force and rolloutLoop does not know yet.
Forcing(c, j) == /\ api[c].op = "cancel" /\ api[c].job = j /\ api[c].force
                 /\ api[c].pc \in {"context", "remove"}
BeingForced(j) == \E c \in Callers : Forcing(c, j)

\* Neither a set-up nor a restart finds a task of the job to take up.
ForcedDead == \A j \in forced : Begun(j) /\ AllTasksTerminal(j)

\* rolloutLoop is told first, the runner after it, so that the runner gets
\* nothing of the job once it has dropped what it had.
ForcedGone == \A j \in forced : BeingForced(j) \/ ~IsPending(j)
ForcedDropped ==
  \A j \in forced :
    \/ BeingForced(j) \/ delJobW[j] > 0
    \/ \A m \in curQ \union offline \union hand : JobOfCopy(m) # j

ForcedInv == HandoverInv /\ ReadCreates /\ ForcedDead /\ ForcedGone /\ ForcedDropped

-----------------------------------------------------------------------------
(* Requests.                                                               *)

\* The state of a request is its own.
LEMMA ApiMove ==
  ASSUME TypeOK, [Next]_vars, NEW c \in Callers
  PROVE  \/ api'[c] = api[c]
         \/ Request(c) \/ CallerStep(c) \/ CallerSends(c)
         \/ Restart
<1>1. ASSUME NEW d \in Callers, Request(d), d # c  PROVE api'[c] = api[c]
  BY <1>1 DEF Request, CreateJob, UpdateJob, CancelJob, DeleteJob, CancelTask,
              DeleteTask, Accept, AcceptTask, TypeOK, ApiType
<1>2. ASSUME NEW d \in Callers, CallerStep(d) \/ CallerSends(d), d # c
      PROVE  api'[c] = api[c]
  BY <1>2
  DEF CallerStep, CreateRead, UpdateWrite, DeleteTasks, CallerContext, CallerCanceled,
      CallerSends, UpdateContext, CallerRemove, GoTo, Return, TypeOK, ApiType
<1>3. ASSUME \/ \E i \in Jobs : PoolStep(i) \/ PoolAdd(i) \/ PoolDelJob(i)
             \/ \E t \in Tasks : PoolDelTask(t)
             \/ RolloutStep \/ RolloutSends
      PROVE  api' = api
  BY <1>3
  DEF PoolStep, PoolInsert, PoolFind, PoolAdd, PoolDelJob, PoolDelTask, RolloutStep,
      RolloutLocal, RolloutWritesJob, RolloutFinishes, RolloutWritesTasks,
      RolloutWritesContext, RolloutSends, RolloutFrame, apiVars
<1>4. ASSUME \/ LoopStep \/ LoopSends \/ LoopHears
             \/ \E e \in inflight : WorkerSends(e)
             \/ \E th \in DirectThings : Presence(th)
             \/ WatchWrites \/ WatchSends \/ CheckStep \/ CheckSends \/ Clock
             \/ UNCHANGED vars
      PROVE  api' = api
  BY <1>4
  DEF LoopStep, LoopLocal, LoopToPool, LoopSends, LoopHears, WorkerSends, Presence,
      LoopFrame, WatchWrites, WatchSends, CheckStep, CheckLocal, CheckFinishes,
      CheckWritesContext, CheckSends, CheckFrame, Clock, vars, apiVars
<1> QED BY <1>1, <1>2, <1>3, <1>4 DEF Next

\* Only a request that creates a job reads it back.
LEMMA ReadCreatesStep ==
  ASSUME TypeOK, ReadCreates, [Next]_vars
  PROVE  ReadCreates'
<1> SUFFICES ASSUME NEW c \in Callers, api'[c].pc = "read"
             PROVE  api'[c].op = "create"
  BY DEF ReadCreates
<1>1. CASE api'[c] = api[c]
  BY <1>1 DEF ReadCreates
<1>2. CASE Request(c)
  BY <1>1, <1>2
  DEF Request, CreateJob, UpdateJob, CancelJob, DeleteJob, CancelTask, DeleteTask,
      Accept, AcceptTask, TypeOK, ApiType
<1>3. CASE CallerStep(c) \/ CallerSends(c)
  BY <1>3
  DEF CallerStep, CreateRead, UpdateWrite, DeleteTasks, CallerContext, CallerCanceled,
      CallerSends, UpdateContext, CallerRemove, GoTo, Return, Idle, TypeOK, ApiType
<1>4. CASE Restart
  BY <1>4 DEF Restart, Idle
<1> QED BY <1>1, <1>2, <1>3, <1>4, ApiMove

\* A forced cancel under way ends when rolloutLoop is told.
LEMMA ForcingStays ==
  ASSUME TypeOK, [Next]_vars, NEW c \in Callers, NEW j \in Jobs, Forcing(c, j)
  PROVE  Forcing(c, j)' \/ CallerRemove(c) \/ Restart
<1>1. CASE api'[c] = api[c]
  BY <1>1 DEF Forcing
<1>2. CASE Request(c)
  BY <1>1, <1>2
  DEF Request, CreateJob, UpdateJob, CancelJob, DeleteJob, CancelTask, DeleteTask,
      Accept, AcceptTask, Forcing
<1>3. CASE CallerStep(c)
  BY <1>3
  DEF CallerStep, CreateRead, UpdateWrite, DeleteTasks, CallerContext, CallerCanceled,
      GoTo, Forcing, TypeOK, ApiType
<1>4. CASE CallerSends(c)
  BY <1>4 DEF CallerSends, UpdateContext, Forcing
<1> QED BY <1>1, <1>2, <1>3, <1>4, ApiMove

\* A pool goroutine for the runner ends when sysOpTaskLoop is told.
LEMMA DelJobStays ==
  ASSUME TypeOK, [Next]_vars, NEW j \in Jobs, delJobW[j] > 0
  PROVE  delJobW'[j] > 0 \/ PoolDelJob(j) \/ Restart
<1>1. ASSUME NEW c \in Callers, Request(c) \/ CallerStep(c) \/ UpdateContext(c)
      PROVE  delJobW' = delJobW
  BY <1>1
  DEF Request, CreateJob, UpdateJob, CancelJob, DeleteJob, CancelTask, DeleteTask,
      CallerStep, CreateRead, UpdateWrite, DeleteTasks, CallerContext,
      CallerCanceled, UpdateContext, centerVars, poolJobVars
<1>2. ASSUME NEW c \in Callers, CallerRemove(c)  PROVE delJobW'[j] > 0
  BY <1>2 DEF CallerRemove, TypeOK, PoolJobType
<1>3. ASSUME NEW i \in Jobs, PoolDelJob(i), i # j  PROVE delJobW'[j] > 0
  BY <1>3 DEF PoolDelJob, TypeOK, PoolJobType
<1>4. ASSUME \/ \E i \in Jobs : PoolStep(i) \/ PoolAdd(i)
             \/ \E t \in Tasks : PoolDelTask(t)
             \/ RolloutStep \/ RolloutSends
      PROVE  delJobW' = delJobW
  BY <1>4
  DEF PoolStep, PoolInsert, PoolFind, PoolAdd, PoolDelTask, RolloutStep,
      RolloutLocal, RolloutWritesJob, RolloutFinishes, RolloutWritesTasks,
      RolloutWritesContext, RolloutSends, RolloutFrame, poolJobVars
<1>5. ASSUME \/ LoopStep \/ LoopSends \/ LoopHears
             \/ \E e \in inflight : WorkerSends(e)
             \/ \E th \in DirectThings : Presence(th)
             \/ WatchWrites \/ WatchSends \/ CheckStep \/ CheckSends \/ Clock
             \/ UNCHANGED vars
      PROVE  delJobW' = delJobW
  BY <1>5
  DEF LoopStep, LoopLocal, LoopToPool, LoopSends, LoopHears, WorkerSends, Presence,
      LoopFrame, WatchWrites, WatchSends, CheckStep, CheckLocal, CheckFinishes,
      CheckWritesContext, CheckSends, CheckFrame, Clock, vars, centerVars, poolJobVars
<1> QED BY <1>1, <1>2, <1>3, <1>4, <1>5 DEF Next, CallerSends

\* Which jobs count as canceled with force.
LEMMA ForcedMove ==
  ASSUME [Next]_vars, NEW j \in Jobs, j \in forced'
  PROVE  \/ j \in forced
         \/ \E c \in Callers : CancelJob(c, j, TRUE) /\ ~SettingUp(j)
<1>1. ASSUME NEW c \in Callers, Request(c) \/ CallerStep(c) \/ CallerSends(c)
      PROVE  \/ j \in forced
             \/ CancelJob(c, j, TRUE) /\ ~SettingUp(j)
  <2>1. ASSUME NEW i \in Jobs, NEW force \in BOOLEAN, CancelJob(c, i, force)
        PROVE  j \in forced \/ (CancelJob(c, j, TRUE) /\ ~SettingUp(j))
    <3>1. CASE force = TRUE /\ ~SettingUp(i)
      <4>1. forced' = forced \union {i}
        BY <2>1, <3>1 DEF CancelJob
      <4> QED BY <2>1, <3>1, <4>1
    <3>2. CASE ~(force = TRUE /\ ~SettingUp(i))
      <4>1. forced' = forced
        BY <2>1, <3>2 DEF CancelJob
      <4> QED BY <4>1
    <3> QED BY <3>1, <3>2
  <2>2. CASE \A i \in Jobs, force \in BOOLEAN : ~CancelJob(c, i, force)
    BY <1>1, <2>2
    DEF Request, CreateJob, UpdateJob, DeleteJob, CancelTask, DeleteTask,
        CallerStep, CreateRead, UpdateWrite, DeleteTasks, CallerContext,
        CallerCanceled, CallerSends, UpdateContext, CallerRemove
  <2> QED BY <2>1, <2>2
<1>2. ASSUME \/ \E i \in Jobs : PoolStep(i) \/ PoolAdd(i) \/ PoolDelJob(i)
             \/ \E t \in Tasks : PoolDelTask(t)
             \/ RolloutStep \/ RolloutSends
      PROVE  forced' = forced
  BY <1>2
  DEF PoolStep, PoolInsert, PoolFind, PoolAdd, PoolDelJob, PoolDelTask, RolloutStep,
      RolloutLocal, RolloutWritesJob, RolloutFinishes, RolloutWritesTasks,
      RolloutWritesContext, RolloutSends, RolloutFrame, apiVars
<1>3. ASSUME \/ LoopStep \/ LoopSends \/ LoopHears
             \/ \E e \in inflight : WorkerSends(e)
             \/ \E th \in DirectThings : Presence(th)
             \/ WatchWrites \/ WatchSends \/ CheckStep \/ CheckSends \/ Clock
             \/ Restart \/ UNCHANGED vars
      PROVE  forced' = forced
  BY <1>3
  DEF LoopStep, LoopLocal, LoopToPool, LoopSends, LoopHears, WorkerSends, Presence,
      LoopFrame, WatchWrites, WatchSends, CheckStep, CheckLocal, CheckFinishes,
      CheckWritesContext, CheckSends, CheckFrame, Clock, Restart, vars, apiVars
<1> QED BY <1>1, <1>2, <1>3 DEF Next

-----------------------------------------------------------------------------
(* The two loops.                                                          *)

\* A job whose set-up is over and whose tasks are terminal does not come
\* into the list, not by a restart either.
LEMMA OnlyLeaves ==
  ASSUME HandoverInv, [Next]_vars, NEW j \in Jobs, Begun(j), AllTasksTerminal(j),
         IsPending(j)'
  PROVE  IsPending(j)
<1>0. /\ TypeOK /\ PendingOnce /\ PendingBegun /\ ItemIfPending
  BY DEF HandoverInv, SafetyInv, ListInv
<1>1. CASE ListKept
  BY <1>1 DEF ListKept, IsPending
<1>2. ASSUME NEW i \in DOMAIN pending, RoTakeOut(i)  PROVE IsPending(j)
  BY <1>0, <1>2, TakeOutList
<1>3. ASSUME NEW i \in Jobs, PoolAdd(i)  PROVE IsPending(j)
  <2>1. creating[i].pc = "add" /\ pending' = Append(pending, i)
    BY <1>3 DEF PoolAdd, RoAdd
  <2>2. i # j /\ ~IsPending(i)
    BY <1>0, <2>1 DEF Begun, PendingBegun
  <2> QED BY <1>0, <2>1, <2>2, AppendList
<1>4. ASSUME NEW i \in Jobs, RoReload(i)  PROVE IsPending(j)
  BY <1>4 DEF RoReload, IsPending
<1>5. CASE Restart
  <2>1. OpenTasks(j) = {}
    BY DEF OpenTasks, ReadTasks, AllTasksTerminal, TasksOf, TaskCopy, JobOfCopy,
           IdOf, StatusOf, IsTaskTerminal, NoRow
  <2> QED BY <1>0, <1>5, <2>1, RestartList
<1> QED BY <1>0, <1>1, <1>2, <1>3, <1>4, <1>5, EveryListMove DEF ListMove

\* The request tells rolloutLoop, and starts the goroutine that tells the
\* runner.
LEMMA ForcingTold ==
  ASSUME HandoverInv, NEW c \in Callers, NEW j \in Jobs, Forcing(c, j), CallerRemove(c)
  PROVE  ~IsPending(j)' /\ delJobW'[j] > 0
<1>0. TypeOK /\ PendingOnce
  BY DEF HandoverInv, SafetyInv, ListInv
<1>1. RoRemove(j, TRUE)
  BY DEF CallerRemove, Forcing
<1>2. ~IsPending(j)'
  <2>1. CASE IsPending(j)
    <3>1. PICK i \in DOMAIN pending : pending[i] = j /\ RoTakeOut(i)
      BY <1>1, <2>1 DEF RoRemove
    <3> QED BY <1>0, <3>1, TakeOutList
  <2>2. CASE ~IsPending(j)
    BY <1>1, <2>2 DEF RoRemove, IsPending
  <2> QED BY <2>1, <2>2
<1>3. delJobW'[j] > 0
  BY <1>0 DEF CallerRemove, Forcing, TypeOK, PoolJobType
<1> QED BY <1>2, <1>3

\* A forced cancel ends the rows of all tasks.
LEMMA CancelForces ==
  ASSUME HandoverInv, ReadCreates, [Next]_vars, NEW c \in Callers, NEW j \in Jobs,
         CancelJob(c, j, TRUE), ~SettingUp(j)
  PROVE  Begun(j)' /\ AllTasksTerminal(j)' /\ BeingForced(j)'
<1>0. TypeOK /\ RowsUsed /\ SetUpOnce
  BY DEF HandoverInv, SafetyInv, ListInv
<1>1. Begun(j)
  BY <1>0 DEF CancelJob, RowsUsed, SettingUp, Begun, Creates, ReadCreates
<1>2. Begun(j)'
  BY <1>0, <1>1, BegunStays
<1>3. AllTasksTerminal(j)'
  <2>1. \A t \in Tasks : task[t] \in TaskStatus \union {NoRow}
    BY <1>0 DEF TypeOK, RepoType
  <2> QED BY <2>1 DEF CancelJob, TasksCanceled, AllTasksTerminal, TasksOf,
                      TaskStatus, IsTaskTerminal
<1>4. Forcing(c, j)'
  BY <1>0 DEF CancelJob, Accept, Forcing, TypeOK, ApiType
<1> QED BY <1>2, <1>3, <1>4 DEF BeingForced

-----------------------------------------------------------------------------
(* The theorem.                                                            *)

\* At the start no cancel was forced.
LEMMA ForcedInit == Init => ForcedInv
<1> SUFFICES ASSUME Init  PROVE ForcedInv
  OBVIOUS
<1>1. HandoverInv
  BY HandoverInit
<1>2. ReadCreates /\ ForcedDead /\ ForcedGone /\ ForcedDropped
  BY DEF Init, Idle, ReadCreates, ForcedDead, ForcedGone, ForcedDropped
<1> QED BY <1>1, <1>2 DEF ForcedInv

\* Every step keeps the invariant.
LEMMA ForcedNext == ForcedInv /\ [Next]_vars => ForcedInv'
<1> SUFFICES ASSUME ForcedInv, [Next]_vars  PROVE ForcedInv'
  OBVIOUS
<1>0. /\ HandoverInv /\ ReadCreates /\ ForcedDead /\ ForcedGone /\ ForcedDropped
      /\ TypeOK /\ SetUpOnce /\ ListInv /\ ItemIfPending /\ ChunkOwn /\ HandInv
      /\ forced \subseteq Jobs
  BY DEF ForcedInv, HandoverInv, SafetyInv, ListInv, RunnerInv, TypeOK, ApiType
<1>1. HandoverInv' /\ ReadCreates'
  BY <1>0, HandoverNext, ReadCreatesStep
<1>2. ASSUME NEW j \in forced
      PROVE  /\ Begun(j)' /\ AllTasksTerminal(j)'
             /\ BeingForced(j)' \/ ~IsPending(j)'
             /\ \/ BeingForced(j)' \/ delJobW'[j] > 0
                \/ \A m \in curQ' \union offline' \union hand' : JobOfCopy(m) # j
  <2>0. j \in Jobs /\ Begun(j) /\ AllTasksTerminal(j)
    BY <1>0 DEF ForcedDead
  <2>1. Begun(j)' /\ AllTasksTerminal(j)'
    BY <1>0, <2>0, BegunStays, TerminalStays DEF Begun
  <2>2. CASE Restart
    <3>1. curQ' = {} /\ offline' = {} /\ hand' = {}
      BY <2>2 DEF Restart
    <3>2. ~IsPending(j)'
      <4>1. OpenTasks(j) = {}
        BY <2>0 DEF OpenTasks, ReadTasks, AllTasksTerminal, TasksOf, TaskCopy,
                    JobOfCopy, IdOf, StatusOf, IsTaskTerminal, NoRow
      <4> QED BY <1>0, <2>0, <2>2, <4>1, RestartList
    <3> QED BY <2>1, <3>1, <3>2
  <2>3. ASSUME NEW c \in Callers, Forcing(c, j), ~Restart
        PROVE  \/ BeingForced(j)'
               \/ ~IsPending(j)' /\ delJobW'[j] > 0
    BY <1>0, <2>0, <2>3, ForcingStays, ForcingTold DEF BeingForced
  <2>4. CASE ~BeingForced(j) /\ ~Restart
    <3>1. ~IsPending(j) /\ ~IsPending(j)'
      BY <1>0, <2>0, <2>4, OnlyLeaves DEF ForcedGone
    <3>2. \A m \in roChunk : JobOfCopy(m) # j
      <4>1. CASE roPc = "put"
        BY <1>0, <3>1, <4>1, WorksOnPending DEF ChunkOwn, Own
      <4>2. CASE roPc # "put"
        BY <1>0, <4>2 DEF ChunkOwn
      <4> QED BY <4>1, <4>2
    <3>3. CASE \A m \in curQ \union offline \union hand : JobOfCopy(m) # j
      BY <1>0, <2>1, <3>1, <3>2, <3>3, RunnerGets
    <3>4. CASE delJobW[j] > 0 /\ ~PoolDelJob(j)
      BY <1>0, <2>0, <2>1, <2>4, <3>1, <3>4, DelJobStays
    <3>5. CASE PoolDelJob(j)
      <4>1. hand' = {} /\ LoopDelJob(j)
        BY <1>0, <3>5 DEF PoolDelJob, LoopDelJob, HandInv
      <4>2. \A m \in curQ' \union offline' : JobOfCopy(m) # j
        BY <4>1 DEF LoopDelJob, CopiesOf
      <4> QED BY <2>1, <3>1, <4>1, <4>2
    <3> QED BY <1>0, <2>4, <3>3, <3>4, <3>5 DEF ForcedDropped
  <2> QED BY <2>1, <2>2, <2>3, <2>4 DEF BeingForced
<1>3. ASSUME NEW j \in Jobs, NEW c \in Callers, CancelJob(c, j, TRUE), ~SettingUp(j)
      PROVE  Begun(j)' /\ AllTasksTerminal(j)' /\ BeingForced(j)'
  BY <1>0, <1>3, CancelForces
<1>4. ForcedDead' /\ ForcedGone' /\ ForcedDropped'
  <2>1. forced' \subseteq Jobs
    BY <1>1 DEF HandoverInv, SafetyInv, TypeOK, ApiType
  <2>2. ASSUME NEW j \in forced', j \notin forced
        PROVE  Begun(j)' /\ AllTasksTerminal(j)' /\ BeingForced(j)'
    BY <1>3, <2>1, <2>2, ForcedMove
  <2> QED BY <1>2, <2>2 DEF ForcedDead, ForcedGone, ForcedDropped
<1> QED BY <1>1, <1>4 DEF ForcedInv

\* Once a forced cancel has been carried out, neither the center nor the
\* runner holds a task of the job: whatever rolloutLoop was doing when the
\* request came in, and whatever was requested of the job since.
THEOREM ForcedCancelDrains == Spec => []ForceCancelDrains
<1>1. ForcedInv => ForceCancelDrains
  <2> SUFFICES ASSUME ForcedInv, NEW j \in forced, delJobW[j] = 0,
                      \A c \in Callers : api[c].job # j, NEW m \in CopiesHeld(j)
               PROVE  FALSE
    BY DEF ForceCancelDrains
  <2>0. /\ TypeOK /\ ItemIfPending /\ ChunkOwn /\ ForcedGone /\ ForcedDropped /\ j \in Jobs
    BY DEF ForcedInv, HandoverInv, SafetyInv, ListInv, TypeOK, ApiType
  <2>1. ~BeingForced(j)
    BY DEF BeingForced, Forcing
  <2>2. ~IsPending(j) /\ item[j].tasks = {}
    BY <2>0, <2>1 DEF ForcedGone, ItemIfPending, NoItem
  <2>3. m \notin roChunk
    <3>1. JobOfCopy(m) = j
      BY DEF CopiesHeld, CopiesOf
    <3>2. roPc = "put" => IsPending(pending[roI])
      BY <2>0, WorksOnPending
    <3> QED BY <2>0, <2>2, <3>1, <3>2 DEF ChunkOwn, Own
  <2> QED BY <2>0, <2>1, <2>2, <2>3 DEF ForcedDropped, CopiesHeld, CopiesOf
<1> QED BY <1>1, ForcedInit, ForcedNext, PTL DEF Spec
=============================================================================

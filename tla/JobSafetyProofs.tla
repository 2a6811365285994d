--------------------------- MODULE JobSafetyProofs ---------------------------
(***************************************************************************)
(* The type invariant of JobSystem, and safety, for every number of jobs,  *)
(* tasks, things and callers and every value of the bounds: the status of  *)
(* a task only moves forward, and what is reported of a task was executed. *)
(***************************************************************************)
EXTENDS JobSystem, FiniteSetTheorems, SequenceTheorems, TLAPS

USE DEF runnerVars, centerVars

-----------------------------------------------------------------------------
(* The operators on tables and lists.                                      *)

\* There are finitely many Task values, so a list of them has a length.
LEMMA TaskCopyFinite ==
  ASSUME NEW S \in SUBSET TaskCopy
  PROVE  IsFiniteSet(S) /\ Cardinality(S) \in Nat
<1>1. IsFiniteSet(TaskStatus)
  <2> DEFINE S1 == {"QUEUED"}
             S2 == S1 \union {"SENT"}
             S3 == S2 \union {"IN_PROGRESS"}
             S4 == S3 \union {"FAILED"}
             S5 == S4 \union {"SUCCEEDED"}
             S6 == S5 \union {"CANCELED"}
             S7 == S6 \union {"TIMED_OUT"}
             S8 == S7 \union {"REJECTED"}
  <2>1. IsFiniteSet(S1)  BY FS_Singleton
  <2>2. IsFiniteSet(S2)  BY ONLY <2>1, FS_AddElement
  <2>3. IsFiniteSet(S3)  BY ONLY <2>2, FS_AddElement
  <2>4. IsFiniteSet(S4)  BY ONLY <2>3, FS_AddElement
  <2>5. IsFiniteSet(S5)  BY ONLY <2>4, FS_AddElement
  <2>6. IsFiniteSet(S6)  BY ONLY <2>5, FS_AddElement
  <2>7. IsFiniteSet(S7)  BY ONLY <2>6, FS_AddElement
  <2>8. IsFiniteSet(S8)  BY ONLY <2>7, FS_AddElement
  <2>9. TaskStatus = S8  BY DEF TaskStatus
  <2> QED BY <2>8, <2>9
<1>2. IsFiniteSet(TaskCopy)
  BY <1>1, FS_Product, RepoAssumption DEF TaskCopy
<1> QED BY <1>2, FS_Subset, FS_CardinalityType

\* delPendingAt shortens the list by one.
LEMMA DelPendingAtType ==
  ASSUME NEW s \in Seq(Jobs), NEW i \in 1 .. Len(s)
  PROVE  /\ DelPendingAt(s, i) \in Seq(Jobs)
         /\ Len(DelPendingAt(s, i)) = Len(s) - 1
<1>1. /\ SubSeq(s, 1, i - 1) \in Seq(Jobs)
      /\ Len(SubSeq(s, 1, i - 1)) = i - 1
  <2>1. \A k \in 1 .. i - 1 : s[k] \in Jobs  OBVIOUS
  <2> QED BY <2>1, SubSeqProperties
<1>2. /\ SubSeq(s, i + 1, Len(s)) \in Seq(Jobs)
      /\ Len(SubSeq(s, i + 1, Len(s))) = Len(s) - i
  <2>1. \A k \in i + 1 .. Len(s) : s[k] \in Jobs  OBVIOUS
  <2> QED BY <2>1, SubSeqProperties
<1> DEFINE a == SubSeq(s, 1, i - 1)
           b == SubSeq(s, i + 1, Len(s))
<1> HIDE DEF a, b
<1>3. a \o b \in Seq(Jobs) /\ Len(a \o b) = (i - 1) + (Len(s) - i)
  <2>1. a \in Seq(Jobs) /\ Len(a) = i - 1 /\ b \in Seq(Jobs) /\ Len(b) = Len(s) - i
    BY <1>1, <1>2 DEF a, b
  <2>2. a \o b \in Seq(Jobs) /\ Len(a \o b) = Len(a) + Len(b)
    BY <2>1, ConcatProperties
  <2> QED BY <2>1, <2>2
<1>4. DelPendingAt(s, i) = a \o b
  BY DEF DelPendingAt, a, b
<1> QED BY <1>3, <1>4

\* The statements on the tables keep the columns' types.
LEMMA StatementType ==
  ASSUME RepoType, NEW j, NEW force \in BOOLEAN
  PROVE  /\ TasksInserted(j) \in [Tasks -> TaskStatus \union {NoRow}]
         /\ TasksCanceled(j, force) \in [Tasks -> TaskStatus \union {NoRow}]
         /\ TasksDeleted(j) \in [Tasks -> TaskStatus \union {NoRow}]
         /\ \A ss : ReadTasks(j, ss) \subseteq TaskCopy
         /\ \A s \in JobStatus :
              JobWritten(j, s) \in [Jobs -> JobStatus \union {NoRow, NoStatus}]
         /\ \A s, row : row \in JobStatus \union {NoRow, NoStatus} =>
              FinishedRow(s, row) \in JobStatus \union {NoRow, NoStatus}
<1>1. TasksInserted(j) \in [Tasks -> TaskStatus \union {NoRow}]
  BY DEF RepoType, TasksInserted, TaskStatus
<1>2. TasksCanceled(j, force) \in [Tasks -> TaskStatus \union {NoRow}]
  BY DEF RepoType, TasksCanceled, TaskStatus
<1>3. TasksDeleted(j) \in [Tasks -> TaskStatus \union {NoRow}]
  BY DEF RepoType, TasksDeleted
<1>4. \A ss : ReadTasks(j, ss) \subseteq TaskCopy
  BY DEF ReadTasks
<1>5. \A s \in JobStatus :
        JobWritten(j, s) \in [Jobs -> JobStatus \union {NoRow, NoStatus}]
  BY DEF RepoType, JobWritten
<1>6. \A s, row : row \in JobStatus \union {NoRow, NoStatus} =>
        FinishedRow(s, row) \in JobStatus \union {NoRow, NoStatus}
  BY DEF FinishedRow, FinishedStatus, JobStatus, NoRow, NoStatus
<1> QED BY <1>1, <1>2, <1>3, <1>4, <1>5, <1>6

\* The steps of a round keep the index within the list.
LEMMA RoundType ==
  ASSUME NEW p \in Seq(Jobs), roI \in Nat,
         RoundStarts(p) \/ RoundGoesOn(p)
  PROVE  /\ roPc' \in {"select", "sched"}
         /\ roI' \in 0 .. Len(p)
         /\ roPc' = "select" <=> roI' = 0
<1>1. Len(p) \in Nat /\ (p # <<>> => Len(p) > 0)
  BY EmptySeq
<1> QED BY <1>1 DEF RoundStarts, RoundGoesOn

-----------------------------------------------------------------------------
(* The actions, goroutine by goroutine.                                    *)

\* A part of the state that a step leaves alone keeps its type.
LEMMA Frame ==
  ASSUME TypeOK
  PROVE  /\ UNCHANGED repoVars => RepoType'
         /\ UNCHANGED loopVars => LoopType'
         /\ UNCHANGED poolVars => PoolType'
         /\ UNCHANGED watchVars => WatchType'
         /\ UNCHANGED presenceVars => PresenceType'
         /\ UNCHANGED roVars => RolloutType'
         /\ UNCHANGED ckVars => CheckType'
         /\ UNCHANGED poolJobVars => PoolJobType'
         /\ UNCHANGED timeVars => TimeType'
         /\ UNCHANGED ctx => CtxType'
         /\ UNCHANGED <<apiVars, starts>> => ApiType'
<1>1. UNCHANGED repoVars => RepoType'
  BY DEF TypeOK, repoVars, RepoType
<1>2. UNCHANGED loopVars => LoopType'
  BY DEF TypeOK, loopVars, LoopType
<1>3. UNCHANGED poolVars => PoolType'
  BY DEF TypeOK, poolVars, PoolType
<1>4. UNCHANGED watchVars => WatchType'
  BY DEF TypeOK, watchVars, WatchType
<1>5. UNCHANGED presenceVars => PresenceType'
  BY DEF TypeOK, presenceVars, PresenceType
<1>6. UNCHANGED roVars => RolloutType'
  BY DEF TypeOK, roVars, RolloutType
<1>7. UNCHANGED ckVars => CheckType'
  BY DEF TypeOK, ckVars, CheckType
<1>8. UNCHANGED poolJobVars => PoolJobType'
  BY DEF TypeOK, poolJobVars, PoolJobType
<1>9. UNCHANGED timeVars => TimeType'
  BY DEF TypeOK, timeVars, TimeType
<1>10. UNCHANGED ctx => CtxType'
  BY DEF TypeOK, CtxType
<1>11. UNCHANGED <<apiVars, starts>> => ApiType'
  BY DEF TypeOK, apiVars, ApiType
<1> QED
  BY <1>1, <1>2, <1>3, <1>4, <1>5, <1>6, <1>7, <1>8, <1>9, <1>10, <1>11

USE DEF TypeOK

\* The requests' transactions.
LEMMA RequestType ==
  ASSUME TypeOK, NEW c \in Callers, Request(c)
  PROVE  TypeOK'
<1>1. ASSUME NEW j \in Jobs, CreateJob(c, j)  PROVE TypeOK'
  <2>1. RepoType'
    BY <1>1 DEF CreateJob, InsertJob, RepoType, JobStatus
  <2>2. TimeType'
    BY <1>1, CenterAssumption DEF CreateJob, TimeType
  <2>3. ApiType'
    BY <1>1, SystemAssumption DEF CreateJob, Accept, ApiType
  <2> QED BY <1>1, <2>1, <2>2, <2>3, Frame DEF CreateJob
<1>2. ASSUME NEW j \in Jobs, UpdateJob(c, j)  PROVE TypeOK'
  <2>1. ApiType'
    BY <1>2, SystemAssumption DEF UpdateJob, Accept, ApiType
  <2> QED BY <1>2, <2>1, Frame DEF UpdateJob
<1>3. ASSUME NEW j \in Jobs, NEW force \in BOOLEAN, CancelJob(c, j, force)
      PROVE  TypeOK'
  <2>1. RepoType'
    BY <1>3, StatementType DEF CancelJob, RepoType, JobStatus
  <2>2. ApiType'
    BY <1>3, SystemAssumption DEF CancelJob, Accept, ApiType
  <2> QED BY <1>3, <2>1, <2>2, Frame DEF CancelJob
<1>4. ASSUME NEW j \in Jobs, NEW force \in BOOLEAN, DeleteJob(c, j, force)
      PROVE  TypeOK'
  <2>1. RepoType'
    BY <1>4 DEF DeleteJob, RepoType
  <2>2. ApiType'
    BY <1>4, SystemAssumption DEF DeleteJob, Accept, ApiType
  <2> QED BY <1>4, <2>1, <2>2, Frame DEF DeleteJob
<1>5. ASSUME NEW t \in Tasks, NEW force \in BOOLEAN,
             CancelTask(c, t, force) \/ DeleteTask(c, t, force)
      PROVE  TypeOK'
  <2>1. RepoType'
    BY <1>5 DEF CancelTask, DeleteTask, RepoType, TaskStatus
  <2>2. PoolJobType'
    BY <1>5 DEF CancelTask, DeleteTask, PoolJobType
  <2>3. ApiType'
    BY <1>5, SystemAssumption DEF CancelTask, DeleteTask, AcceptTask, ApiType
  <2> QED BY <1>5, <2>1, <2>2, <2>3, Frame DEF CancelTask, DeleteTask
<1> QED BY <1>1, <1>2, <1>3, <1>4, <1>5 DEF Request, TasksOf

\* Taking a job off the pending list.
LEMMA RemoveType ==
  ASSUME TypeOK, NEW j, NEW force \in BOOLEAN, RoRemove(j, force)
  PROVE  RolloutType' /\ CtxType'
<1>0. roPc = "select" /\ UNCHANGED <<roPc, roI, roChunk>>
  BY DEF RoRemove
<1>1. CtxType'
  BY DEF RoRemove, RemoveContext, CtxType, Statuses
<1>2. ASSUME NEW i \in DOMAIN pending, RoTakeOut(i)
      PROVE  RolloutType'
  <2>1. i \in 1 .. Len(pending) /\ pending[i] \in Jobs
    BY DEF RolloutType
  <2>2. pending' \in Seq(Jobs) /\ Len(pending') \in Nat
    BY <1>2, <2>1, DelPendingAtType DEF RoTakeOut, RolloutType
  <2>3. item' \in [Jobs -> [status : Statuses, tasks : SUBSET TaskCopy,
                            used : Nat, timeout : BOOLEAN]]
    BY <1>2, <2>1 DEF RoTakeOut, RolloutType, NoItem, Statuses
  <2> QED BY <2>2, <2>3 DEF RoRemove, RolloutType
<1>3. CASE UNCHANGED <<pending, item>>
  BY <1>0, <1>1, <1>3, Frame DEF roVars
<1>4. CASE /\ item' = [item EXCEPT ![j].tasks = OngoingTasks(item[j].tasks)]
           /\ UNCHANGED pending
           /\ j \in Jobs
  <2>1. item' \in [Jobs -> [status : Statuses, tasks : SUBSET TaskCopy,
                            used : Nat, timeout : BOOLEAN]]
    BY <1>4 DEF RolloutType, OngoingTasks
  <2>2. roI = 0 /\ Len(pending) \in Nat
    BY <1>0 DEF RolloutType
  <2> QED BY <1>0, <1>1, <1>4, <2>1, <2>2 DEF RolloutType
<1> QED BY <1>1, <1>2, <1>3, <1>4 DEF RoRemove, RolloutType

\* What a request does after its transaction.
LEMMA CallerType ==
  ASSUME TypeOK, NEW c \in Callers, CallerStep(c) \/ CallerSends(c)
  PROVE  TypeOK'
<1> api[c].job \in Jobs \/ api[c].pc = "idle"
  BY DEF ApiType
<1>1. CASE CreateRead(c)
  <2>1. PoolJobType'
    BY <1>1 DEF CreateRead, PoolJobType, RepoType, Statuses
  <2>2. ApiType'
    BY <1>1 DEF CreateRead, Return, Idle, ApiType
  <2> QED BY <1>1, <2>1, <2>2, Frame DEF CreateRead
<1>2. CASE UpdateWrite(c)
  <2>1. RepoType'
    BY <1>2 DEF UpdateWrite, RepoType
  <2>2. ApiType'
    BY <1>2 DEF UpdateWrite, GoTo, ApiType
  <2> QED BY <1>2, <2>1, <2>2, Frame DEF UpdateWrite
<1>3. CASE DeleteTasks(c)
  <2>1. RepoType'
    BY <1>3, StatementType DEF DeleteTasks, RepoType
  <2>2. ApiType'
    BY <1>3 DEF DeleteTasks, GoTo, ApiType
  <2> QED BY <1>3, <2>1, <2>2, Frame DEF DeleteTasks
<1>4. CASE CallerContext(c)
  <2>1. CtxType'
    BY <1>4 DEF CallerContext, RemoveContext, CtxType, Statuses
  <2>2. ApiType'
    BY <1>4 DEF CallerContext, GoTo, ApiType
  <2> QED BY <1>4, <2>1, <2>2, Frame DEF CallerContext
<1>5. CASE CallerCanceled(c)
  <2>1. RepoType'
    BY <1>5, StatementType DEF CallerCanceled, RepoType, JobStatus
  <2>2. ApiType'
    BY <1>5 DEF CallerCanceled, Return, Idle, ApiType
  <2> QED BY <1>5, <2>1, <2>2, Frame DEF CallerCanceled
<1>6. CASE UpdateContext(c)
  <2>1. RolloutType'
    <3>1. /\ roPc' \in {"select", "sched"}
          /\ roI' \in 0 .. Len(pending)
          /\ roPc' = "select" <=> roI' = 0
      BY <1>6, RoundType DEF UpdateContext, RoUpdateContext, RolloutType
    <3> QED BY <1>6, <3>1 DEF UpdateContext, RoUpdateContext, RolloutType
  <2>2. CtxType'
    BY <1>6 DEF UpdateContext, RoUpdateContext, SetContext, CtxType, RolloutType
  <2>3. ApiType'
    BY <1>6 DEF UpdateContext, Return, Idle, ApiType
  <2> QED BY <1>6, <2>1, <2>2, <2>3, Frame DEF UpdateContext
<1>7. CASE CallerRemove(c)
  <2>1. RolloutType' /\ CtxType'
    BY <1>7, RemoveType DEF CallerRemove, ApiType
  <2>2. PoolJobType'
    BY <1>7 DEF CallerRemove, PoolJobType
  <2>3. ApiType'
    <3>1. /\ GoTo(c, "canceled") \/ Return(c)
          /\ UNCHANGED <<fresh, calls, starts, forced>>
      BY <1>7 DEF CallerRemove
    <3>2. api[c].job \in Jobs
      BY <1>7 DEF CallerRemove
    <3>3. CASE GoTo(c, "canceled")
      BY <3>1, <3>2, <3>3 DEF GoTo, ApiType
    <3>4. CASE Return(c)
      BY <3>1, <3>4 DEF Return, Idle, ApiType
    <3> QED BY <3>1, <3>3, <3>4
  <2> QED BY <1>7, <2>1, <2>2, <2>3, Frame DEF CallerRemove
<1> QED BY <1>1, <1>2, <1>3, <1>4, <1>5, <1>6, <1>7 DEF CallerStep, CallerSends

\* The pool goroutines that set up a job and that write to the runner.
LEMMA PoolGoroutineType ==
  ASSUME TypeOK,
         \/ \E j \in Jobs : PoolStep(j) \/ PoolAdd(j) \/ PoolDelJob(j)
         \/ \E t \in Tasks : PoolDelTask(t)
  PROVE  TypeOK'
<1>1. ASSUME NEW j \in Jobs, PoolInsert(j)  PROVE TypeOK'
  <2>1. RepoType'
    BY <1>1, StatementType DEF PoolInsert, CreateInsert, RepoType
  <2>2. PoolJobType'
    BY <1>1 DEF PoolInsert, CreateInsert, PoolJobType
  <2> QED BY <1>1, <2>1, <2>2, Frame DEF PoolInsert
<1>2. ASSUME NEW j \in Jobs, PoolFind(j)  PROVE TypeOK'
  <2>1. PoolJobType'
    BY <1>2, StatementType, ZenonT(40) DEF PoolFind, CreateFind, PoolJobType
  <2> QED BY <1>2, <2>1, Frame DEF PoolFind
<1>3. ASSUME NEW j \in Jobs, PoolAdd(j)  PROVE TypeOK'
  <2>1. pending' \in Seq(Jobs)
    BY <1>3, AppendProperties DEF PoolAdd, RoAdd, RolloutType
  <2>2. /\ roPc' \in {"select", "sched"}
        /\ roI' \in 0 .. Len(pending')
        /\ roPc' = "select" <=> roI' = 0
    <3>1. RoundStarts(pending') /\ roI \in Nat
      BY <1>3 DEF PoolAdd, RoAdd, RolloutType
    <3> QED BY <2>1, <3>1, RoundType
  <2>3. item' \in [Jobs -> [status : Statuses, tasks : SUBSET TaskCopy,
                            used : Nat, timeout : BOOLEAN]]
    BY <1>3 DEF PoolAdd, RoAdd, RolloutType, PoolJobType
  <2>4. RolloutType'
    BY <1>3, <2>1, <2>2, <2>3 DEF PoolAdd, RoAdd, RolloutType
  <2>5. PoolJobType'
    BY <1>3 DEF PoolAdd, RoAdd, PoolJobType, NotCreating, Statuses
  <2>6. UNCHANGED ctx
    BY <1>3 DEF PoolAdd, RoAdd
  <2> QED BY <1>3, <2>4, <2>5, <2>6, Frame DEF PoolAdd
<1>4. ASSUME NEW j \in Jobs, PoolDelJob(j)  PROVE TypeOK'
  <2>1. LoopType'
    BY <1>4 DEF PoolDelJob, LoopDelJob, LoopType
  <2>2. PoolJobType'
    BY <1>4 DEF PoolDelJob, PoolJobType
  <2> QED BY <1>4, <2>1, <2>2, Frame DEF PoolDelJob
<1>5. ASSUME NEW t \in Tasks, PoolDelTask(t)  PROVE TypeOK'
  <2>1. LoopType'
    BY <1>5 DEF PoolDelTask, LoopDelTask, LoopType
  <2>2. PoolJobType'
    BY <1>5 DEF PoolDelTask, PoolJobType
  <2> QED BY <1>5, <2>1, <2>2, Frame DEF PoolDelTask
<1> QED BY <1>1, <1>2, <1>3, <1>4, <1>5 DEF PoolStep

\* sysOpTaskLoop, the workers, watchTaskChangeLoop of the runner.
LEMMA RunnerType ==
  ASSUME TypeOK,
         \/ LoopStep \/ LoopSends \/ LoopHears
         \/ \E e \in inflight : WorkerSends(e)
         \/ WatchWrites \/ WatchSends
  PROVE  TypeOK'
<1>1. CASE LoopLocal
  <2>1. LoopType'
    <3>1. CASE LoopTick
      BY <3>1, RunnerAssumption DEF LoopTick, LoopType
    <3>2. CASE LoopTurnEnds
      BY <3>2, RunnerAssumption DEF LoopTurnEnds, LoopType
    <3>3. ASSUME NEW m \in Tops, LoopPop(m, ctx[JobOfCopy(m)])
          PROVE  LoopType'
      BY <3>3, RunnerAssumption DEF LoopPop, LoopType, Tops
    <3>4. ASSUME NEW m \in hand, LoopPark(m)
          PROVE  LoopType'
      BY <3>4 DEF LoopPark, LoopType
    <3> QED BY <1>1, <3>1, <3>2, <3>3, <3>4 DEF LoopLocal
  <2> QED BY <1>1, <2>1, Frame DEF LoopLocal, LoopFrame
<1>2. CASE LoopToPool
  <2>1. PICK m \in hand : LoopSubmit(m) \/ LoopPoolFull(m)
    BY <1>2 DEF LoopToPool
  <2>2. LoopType'
    BY <2>1, RunnerAssumption DEF LoopSubmit, LoopPoolFull, LoopType
  <2>3. PoolType'
    <3>1. m \in Tasks \X TaskStatus
      BY DEF LoopType, TaskCopy
    <3>2. IdOf(m) \in Tasks
      BY <3>1 DEF IdOf
    <3>3. CASE LoopSubmit(m)
      BY <3>2, <3>3 DEF LoopSubmit, PoolType
    <3>4. CASE LoopPoolFull(m)
      BY <3>4 DEF LoopPoolFull, poolVars, PoolType
    <3> QED BY <2>1, <3>3, <3>4
  <2> QED BY <1>2, <2>2, <2>3, Frame DEF LoopToPool, LoopFrame
<1>3. CASE LoopSends
  <2>1. PICK m \in hand : LoopReportSent(m)
    BY <1>3 DEF LoopSends
  <2>2. LoopType'
    BY <2>1 DEF LoopReportSent, LoopType
  <2>3. WatchType'
    <3>1. m \in Tasks \X TaskStatus
      BY DEF LoopType, TaskCopy
    <3>2. IdOf(m) \in Tasks
      BY <3>1 DEF IdOf
    <3> QED BY <2>1, <3>2 DEF LoopReportSent, WatchType
  <2> QED BY <1>3, <2>2, <2>3, Frame DEF LoopSends, LoopFrame
<1>4. CASE LoopHears
  <2>1. LoopType' /\ PresenceType'
    BY <1>4, RunnerAssumption DEF LoopHears, LoopConnected, LoopType, PresenceType
  <2> QED BY <1>4, <2>1, Frame DEF LoopHears, LoopFrame
<1>5. ASSUME NEW e \in inflight, WorkerSends(e)  PROVE TypeOK'
  <2>1. PoolType' /\ WatchType'
    BY <1>5 DEF WorkerSends, WorkerReport, PoolType, WatchType
  <2> QED BY <1>5, <2>1, Frame DEF WorkerSends, LoopFrame
<1>6. CASE WatchWrites
  <2>1. RepoType'
    BY <1>6 DEF WatchWrites, WatchUpdate, UpdateTaskStatus, WatchType, RepoType,
                TaskStatus
  <2>2. WatchType'
    BY <1>6 DEF WatchWrites, WatchUpdate, WatchType
  <2> QED BY <1>6, <2>1, <2>2, Frame DEF WatchWrites
<1>7. CASE WatchSends
  <2>1. WatchType'
    BY <1>7 DEF WatchSends, WatchOut, WatchType
  <2>2. CheckType'
    BY <1>7, RepoAssumption DEF WatchSends, CkReceive, WatchType, CheckType
  <2> QED BY <1>7, <2>1, <2>2, Frame DEF WatchSends
<1> QED BY <1>1, <1>2, <1>3, <1>4, <1>5, <1>6, <1>7 DEF LoopStep

\* doFinishJob, called by rolloutLoop and by checkFinishJob.
LEMMA FinishType ==
  ASSUME TypeOK, NEW j \in Jobs, NEW s, DoFinishJob(j, s), UNCHANGED jobTimeout
  PROVE  RepoType'
<1>1. job' \in [Jobs -> JobStatus \union {NoRow, NoStatus}]
  <2>1. FinishedRow(s, job[j]) \in JobStatus \union {NoRow, NoStatus}
    BY StatementType DEF RepoType
  <2> QED BY <2>1 DEF DoFinishJob, RepoType
<1>2. task' \in [Tasks -> TaskStatus \union {NoRow}]
  BY StatementType DEF DoFinishJob, RepoType
<1> QED BY <1>1, <1>2 DEF RepoType

\* The job that rolloutLoop works on leaves the list and the round goes on.
LEMMA TakeOutType ==
  ASSUME TypeOK, roPc # "select", RoTakeOut(roI), RoundGoesOn(pending'),
         roChunk' \subseteq TaskCopy
  PROVE  RolloutType'
<1>1. roI \in 1 .. Len(pending) /\ pending[roI] \in Jobs
  BY DEF RolloutType
<1>2. pending' \in Seq(Jobs)
  BY <1>1, DelPendingAtType DEF RoTakeOut, RolloutType
<1>3. item' \in [Jobs -> [status : Statuses, tasks : SUBSET TaskCopy,
                          used : Nat, timeout : BOOLEAN]]
  BY <1>1 DEF RoTakeOut, RolloutType, NoItem, Statuses
<1>4. /\ roPc' \in {"select", "sched"}
      /\ roI' \in 0 .. Len(pending')
      /\ roPc' = "select" <=> roI' = 0
  <2>1. roI \in Nat
    BY <1>1
  <2> QED BY <1>2, <2>1, RoundType
<1> QED BY <1>2, <1>3, <1>4 DEF RolloutType

\* A step within a round that leaves the list and the index alone.
LEMMA WithinRoundType ==
  ASSUME TypeOK, roPc # "select", UNCHANGED <<pending, roI>>,
         roPc' \in {"sched", "sched2", "finish", "clear", "set", "put",
                    "endRunner", "endTasks", "endJob", "reload"},
         roChunk' \subseteq TaskCopy,
         item' \in [Jobs -> [status : Statuses, tasks : SUBSET TaskCopy,
                             used : Nat, timeout : BOOLEAN]]
  PROVE  RolloutType'
BY DEF RolloutType

\* The updates of one field of a pending item.
LEMMA ItemUpdate ==
  ASSUME TypeOK, NEW j \in Jobs, NEW n \in Nat, NEW ts \in SUBSET TaskCopy
  PROVE  /\ [item EXCEPT ![j].used = n] \in
              [Jobs -> [status : Statuses, tasks : SUBSET TaskCopy, used : Nat,
                        timeout : BOOLEAN]]
         /\ [item EXCEPT ![j].tasks = ts] \in
              [Jobs -> [status : Statuses, tasks : SUBSET TaskCopy, used : Nat,
                        timeout : BOOLEAN]]
BY DEF RolloutType

\* rolloutLoop.
LEMMA RolloutLoopType ==
  ASSUME TypeOK, RolloutStep \/ RolloutSends
  PROVE  TypeOK'
<1>1. CASE RolloutLocal
  <2>1. RolloutType'
    <3>1. CASE RoTick
      <4>1. roI \in Nat /\ RoundStarts(pending) /\ pending \in Seq(Jobs)
        BY <3>1 DEF RoTick, RolloutType
      <4> QED BY <3>1, <4>1, RoundType DEF RoTick, RolloutType
    <3>2. ASSUME NEW j \in Jobs, RoNotInTime(j)  PROVE RolloutType'
      BY <3>2, WithinRoundType DEF RoNotInTime, RolloutType
    <3>3. ASSUME NEW j \in Jobs, RoBeforeStart(j)  PROVE RolloutType'
      <4>1. roI \in Nat /\ RoundGoesOn(pending) /\ pending \in Seq(Jobs)
        BY <3>3 DEF RoBeforeStart, RolloutType
      <4> QED BY <3>3, <4>1, RoundType DEF RoBeforeStart, RolloutType
    <3>4. ASSUME NEW j \in Jobs, RoStopRollout(j)  PROVE RolloutType'
      <4>1. OngoingTasks(item[j].tasks) \in SUBSET TaskCopy
        BY DEF OngoingTasks, RolloutType
      <4>2. item' = [item EXCEPT ![j].tasks = OngoingTasks(item[j].tasks)]
        BY <3>4 DEF RoStopRollout
      <4>3. item' \in [Jobs -> [status : Statuses, tasks : SUBSET TaskCopy,
                               used : Nat, timeout : BOOLEAN]]
        BY <4>1, <4>2, ItemUpdate
      <4> QED BY <3>4, <4>3, WithinRoundType DEF RoStopRollout, RolloutType
    <3>5. ASSUME NEW j \in Jobs, RoEndCancel(j)  PROVE RolloutType'
      BY <3>5, WithinRoundType, ZenonT(40)
      DEF RoEndCancel, RolloutType, Statuses, JobStatus
    <3>6. ASSUME NEW j \in Jobs, RoReload(j)  PROVE RolloutType'
      BY <3>6, WithinRoundType, StatementType, ZenonT(40) DEF RoReload, RolloutType
    <3> QED BY <1>1, <3>1, <3>2, <3>3, <3>4, <3>5, <3>6 DEF RolloutLocal
  <2> QED BY <1>1, <2>1, Frame DEF RolloutLocal, RolloutFrame, repoVars
<1>2. CASE RolloutWritesJob
  <2>1. PICK j \in Jobs : RoInTime(j) \/ RoEndJob(j)
    BY <1>2 DEF RolloutWritesJob
  <2>2. RepoType'
    <3>1. /\ JobWritten(j, "IN_PROGRESS") \in [Jobs -> JobStatus \union {NoRow, NoStatus}]
          /\ JobWritten(j, "CANCELED") \in [Jobs -> JobStatus \union {NoRow, NoStatus}]
      BY StatementType DEF JobStatus
    <3>2. job' \in {job, JobWritten(j, "IN_PROGRESS"), JobWritten(j, "CANCELED")}
      BY <2>1 DEF RoInTime, RoEndJob
    <3>3. UNCHANGED <<task, jobTimeout>>
      BY <1>2 DEF RolloutWritesJob, RolloutFrame
    <3> QED BY <3>1, <3>2, <3>3 DEF RepoType
  <2>3. RolloutType'
    <3>1. CASE RoInTime(j)
      <4> DEFINE s == IF item[j].status = "WAITING" THEN "IN_PROGRESS"
                                                    ELSE item[j].status
                 ts == IF IsJobToTerminal(s) THEN OngoingTasks(item[j].tasks)
                                             ELSE item[j].tasks
      <4>1. s \in Statuses /\ ts \subseteq TaskCopy
        BY DEF RolloutType, OngoingTasks, Statuses, JobStatus
      <4>2. /\ item' = [item EXCEPT ![j].status = s, ![j].tasks = ts]
            /\ roPc # "select" /\ roPc' \in {"finish", "set"}
            /\ UNCHANGED <<pending, roI, roChunk>>
        BY <3>1 DEF RoInTime
      <4> HIDE DEF s, ts
      <4>3. item' \in [Jobs -> [status : Statuses, tasks : SUBSET TaskCopy,
                                used : Nat, timeout : BOOLEAN]]
        BY <4>1, <4>2 DEF RolloutType
      <4> QED BY <4>2, <4>3, WithinRoundType DEF RolloutType
    <3>2. CASE RoEndJob(j)
      BY <3>2, WithinRoundType DEF RoEndJob, RolloutType
    <3> QED BY <2>1, <3>1, <3>2
  <2> QED BY <1>2, <2>2, <2>3, Frame DEF RolloutWritesJob, RolloutFrame
<1>3. CASE RolloutFinishes
  <2>1. PICK j \in Jobs : RoFinish(j)
    BY <1>3 DEF RolloutFinishes
  <2>2. RepoType'
    BY <1>3, <2>1, FinishType DEF RolloutFinishes, RolloutFrame, RoFinish
  <2>3. RolloutType'
    BY <2>1, WithinRoundType DEF RoFinish, RolloutType
  <2> QED BY <1>3, <2>2, <2>3, Frame DEF RolloutFinishes, RolloutFrame
<1>4. CASE RolloutWritesTasks
  <2>1. PICK j \in Jobs : RoEndTasks(j)
    BY <1>4 DEF RolloutWritesTasks
  <2>2. RepoType'
    BY <1>4, <2>1, StatementType
    DEF RolloutWritesTasks, RolloutFrame, RoEndTasks, RepoType
  <2>3. RolloutType'
    BY <2>1, WithinRoundType DEF RoEndTasks, RolloutType
  <2> QED BY <1>4, <2>2, <2>3, Frame DEF RolloutWritesTasks, RolloutFrame
<1>5. CASE RolloutWritesContext
  <2>1. PICK j \in Jobs : RoClear(j) \/ RoSet(j)
    BY <1>5 DEF RolloutWritesContext
  <2>2. CtxType'
    BY <2>1 DEF RoClear, RoSet, RemoveContext, SetContext, CtxType, RolloutType,
                Statuses
  <2>3. RolloutType'
    <3>1. CASE RoClear(j)
      BY <3>1, TakeOutType DEF RoClear, RolloutType
    <3>2. CASE RoSet(j)
      <4>1. roChunk' \subseteq TaskCopy
        BY <3>2 DEF RoSet, RolloutType
      <4>2. item' \in [Jobs -> [status : Statuses, tasks : SUBSET TaskCopy,
                                used : Nat, timeout : BOOLEAN]]
        <5>1. \/ UNCHANGED item
              \/ \E chunk : item' = [item EXCEPT ![j].tasks = item[j].tasks \ chunk]
          BY <3>2 DEF RoSet
        <5>2. item[j].tasks \subseteq TaskCopy
          BY DEF RolloutType
        <5>3. CASE UNCHANGED item
          BY <5>3 DEF RolloutType
        <5>4. ASSUME NEW chunk, item' = [item EXCEPT ![j].tasks = item[j].tasks \ chunk]
              PROVE  item' \in [Jobs -> [status : Statuses, tasks : SUBSET TaskCopy,
                                         used : Nat, timeout : BOOLEAN]]
          <6>1. item[j].tasks \ chunk \in SUBSET TaskCopy
            BY <5>2
          <6> QED BY <5>4, <6>1, ItemUpdate
        <5> QED BY <5>1, <5>3, <5>4
      <4>3. roPc # "select" /\ roPc' \in {"clear", "put"} /\ UNCHANGED <<pending, roI>>
        BY <3>2 DEF RoSet
      <4> QED BY <4>1, <4>2, <4>3, WithinRoundType
    <3> QED BY <2>1, <3>1, <3>2
  <2> QED BY <1>5, <2>2, <2>3, Frame DEF RolloutWritesContext, RolloutFrame, repoVars
<1>6. CASE RolloutSends
  <2>1. PICK j \in Jobs : \/ RoEndRunner(j) /\ LoopDelJob(j)
                          \/ RoPut(j) /\ LoopAdd(roChunk)
    BY <1>6 DEF RolloutSends
  <2>2. LoopType'
    BY <2>1 DEF LoopDelJob, LoopAdd, LoopType, RolloutType
  <2>3. CASE RoEndRunner(j)
    <3>1. RolloutType'
      BY <2>3, WithinRoundType DEF RoEndRunner, RolloutType
    <3> QED BY <1>6, <2>2, <3>1, Frame DEF RolloutSends, RolloutFrame, repoVars
  <2>4. CASE RoPut(j)
    <3>1. ASSUME RoTakeOut(roI)  PROVE RolloutType'
      BY <2>4, <3>1, TakeOutType DEF RoPut
    <3>2. ASSUME item[j].tasks # {}, UNCHANGED pending,
                 item' = [item EXCEPT ![j].used =
                      IF MaxPerMinute = 0 THEN 0 ELSE @ + Cardinality(roChunk)]
          PROVE  RolloutType'
      <4>1. Cardinality(roChunk) \in Nat
        BY TaskCopyFinite DEF RolloutType
      <4>2. item' \in [Jobs -> [status : Statuses, tasks : SUBSET TaskCopy,
                                used : Nat, timeout : BOOLEAN]]
        <5> DEFINE n == IF MaxPerMinute = 0 THEN 0
                        ELSE item[j].used + Cardinality(roChunk)
        <5>1. n \in Nat
          BY <4>1 DEF RolloutType
        <5>2. item' = [item EXCEPT ![j].used = n]
          BY <3>2
        <5> HIDE DEF n
        <5> QED BY <5>1, <5>2, ItemUpdate
      <4>3. roI \in Nat /\ RoundGoesOn(pending) /\ pending \in Seq(Jobs)
        BY <2>4, <3>2 DEF RoPut, RolloutType
      <4> QED BY <2>4, <3>2, <4>2, <4>3, RoundType DEF RoPut, RolloutType
    <3>3. RolloutType'
      BY <2>4, <3>1, <3>2 DEF RoPut
    <3> QED BY <1>6, <2>2, <3>3, Frame DEF RolloutSends, RolloutFrame, repoVars
  <2> QED BY <2>1, <2>3, <2>4
<1> QED BY <1>1, <1>2, <1>3, <1>4, <1>5, <1>6 DEF RolloutStep

\* watchTaskChangeLoop of the center.
LEMMA CheckLoopType ==
  ASSUME TypeOK, CheckStep \/ CheckSends
  PROVE  TypeOK'
<1>1. CASE CheckLocal
  <2>1. CheckType'
    BY <1>1 DEF CheckLocal, CkTick, CkCount, CkGoesOn, CkGet, CheckType, RepoType,
                Statuses
  <2> QED BY <1>1, <2>1, Frame DEF CheckLocal, CheckFrame, repoVars
<1>2. CASE CheckFinishes
  <2>1. PICK j \in ckJob : CkFinish(j)
    BY <1>2 DEF CheckFinishes
  <2>2. RepoType'
    BY <1>2, <2>1, FinishType DEF CheckFinishes, CheckFrame, CkFinish, CheckType
  <2>3. CheckType'
    BY <2>1 DEF CkFinish, CheckType, Statuses
  <2> QED BY <1>2, <2>2, <2>3, Frame DEF CheckFinishes, CheckFrame
<1>3. CASE CheckWritesContext
  <2>1. CheckType' /\ CtxType'
    BY <1>3 DEF CheckWritesContext, CkContext, RemoveContext, CheckType, CtxType,
                Statuses
  <2> QED BY <1>3, <2>1, Frame DEF CheckWritesContext, CheckFrame, repoVars
<1>4. CASE CheckSends
  <2>1. PICK j \in ckJob : CkRemove(j) /\ RoRemove(j, TRUE)
    BY <1>4 DEF CheckSends
  <2>2. RolloutType' /\ CtxType'
    BY <2>1, RemoveType
  <2>3. CheckType'
    BY <2>1 DEF CkRemove, CkGoesOn, CheckType
  <2> QED BY <1>4, <2>2, <2>3, Frame DEF CheckSends, CheckFrame, repoVars
<1> QED BY <1>1, <1>2, <1>3, <1>4 DEF CheckStep

\* Time and presence.
LEMMA EnvironmentType ==
  ASSUME TypeOK, Clock \/ \E th \in DirectThings : Presence(th)
  PROVE  TypeOK'
<1>1. ASSUME NEW j \in Jobs, TimePasses(j),
             UNCHANGED <<repoVars, runnerVars, roVars, ckVars, poolJobVars, ctx,
                         apiVars, starts>>
      PROVE  TypeOK'
  <2>1. TimeType'
    BY <1>1 DEF TimePasses, TimeType
  <2> QED BY <1>1, <2>1, Frame
<1>2. ASSUME NEW j \in Jobs, WindowSlides(j),
             UNCHANGED <<repoVars, runnerVars, ckVars, poolJobVars, timeVars, ctx,
                         apiVars, starts>>
      PROVE  TypeOK'
  <2>1. PICK n \in 0 .. item[j].used - 1 : item' = [item EXCEPT ![j].used = n]
    BY <1>2 DEF WindowSlides
  <2>2. n \in Nat
    BY DEF RolloutType
  <2>3. item' \in [Jobs -> [status : Statuses, tasks : SUBSET TaskCopy,
                            used : Nat, timeout : BOOLEAN]]
    BY <2>1, <2>2, ItemUpdate
  <2>4. RolloutType'
    BY <1>2, <2>3 DEF WindowSlides, RolloutType
  <2> QED BY <1>2, <2>4, Frame
<1>3. ASSUME NEW th \in DirectThings, Presence(th)  PROVE TypeOK'
  <2>1. th \in Things
    BY RepoAssumption DEF DirectThings
  <2>2. PresenceType'
    BY <1>3, <2>1 DEF Presence, ThingConnects, ThingDisconnects, EventTimesOut,
                      PresenceType
  <2> QED BY <1>3, <2>2, Frame DEF Presence, LoopFrame
<1> QED BY <1>1, <1>2, <1>3 DEF Clock

\* A restart of the process.
LEMMA RestartType ==
  ASSUME TypeOK, Restart
  PROVE  TypeOK'
<1> DEFINE resumed == {j \in PendingRows : OpenTasks(j) # {}}
<1>1. Cardinality(resumed) \in Nat /\ resumed \subseteq Jobs
  <2>1. resumed \in SUBSET Jobs
    BY DEF PendingRows
  <2> HIDE DEF resumed
  <2> QED BY <2>1, FS_Subset, FS_CardinalityType, RepoAssumption
<1>2. RepoType'
  <2>1. \A j \in Jobs : FinishedRow(job[j], job[j]) \in JobStatus \union {NoRow, NoStatus}
    BY StatementType DEF RepoType
  <2> QED BY <2>1 DEF Restart, RepoType
<1>3. LoopType' /\ PoolType' /\ WatchType' /\ PresenceType'
  BY RunnerAssumption DEF Restart, LoopType, PoolType, WatchType, PresenceType
<1>4. RolloutType'
  <2>1. pending' \in Seq(Jobs)
    <3>1. PICK s \in [1 .. Cardinality(resumed) -> resumed] : pending' = s
      BY DEF Restart
    <3> HIDE DEF resumed
    <3>2. s \in [1 .. Cardinality(resumed) -> Jobs]
      BY <1>1, <3>1
    <3> QED BY <1>1, <3>1, <3>2, IsASeq
  <2>2. item' \in [Jobs -> [status : Statuses, tasks : SUBSET TaskCopy,
                            used : Nat, timeout : BOOLEAN]]
    <3>1. \A j \in Jobs : OpenTasks(j) \subseteq TaskCopy
      BY StatementType DEF OpenTasks
    <3>2. \A j \in PendingRows : job[j] \in Statuses
      BY DEF PendingRows, Statuses, JobStatus
    <3> QED BY <3>1, <3>2 DEF Restart, NoItem, Statuses
  <2> QED BY <2>1, <2>2 DEF Restart, RolloutType
<1>5. CheckType' /\ PoolJobType' /\ CtxType'
  BY DEF Restart, CheckType, PoolJobType, CtxType, NotCreating, Statuses
<1>6. ApiType'
  BY SystemAssumption DEF Restart, ApiType, Idle
<1> QED BY <1>2, <1>3, <1>4, <1>5, <1>6, Frame DEF Restart

-----------------------------------------------------------------------------
\* The process starts with empty tables, lists and channels.
LEMMA InitType == Init => TypeOK
<1> SUFFICES ASSUME Init  PROVE TypeOK
  OBVIOUS
<1>1. RepoType /\ TimeType /\ CtxType
  BY DEF Init, CenterInit, RepoType, TimeType, CtxType, Statuses
<1>2. LoopType /\ PoolType /\ WatchType /\ PresenceType
  BY RunnerAssumption
  DEF Init, RunnerInit, LoopType, PoolType, WatchType, PresenceType
<1>3. RolloutType /\ CheckType /\ PoolJobType
  BY EmptySeq DEF Init, CenterInit, RolloutType, CheckType, PoolJobType, NoItem,
                  NotCreating, Statuses
<1>4. ApiType
  BY SystemAssumption DEF Init, ApiType, Idle
<1> QED BY <1>1, <1>2, <1>3, <1>4

\* Every step of every goroutine keeps the types.
LEMMA NextType == TypeOK /\ [Next]_vars => TypeOK'
<1> SUFFICES ASSUME TypeOK, [Next]_vars  PROVE TypeOK'
  OBVIOUS
<1>1. CASE UNCHANGED vars
  BY <1>1, Frame DEF vars
<1>2. CASE Next
  BY <1>2, RequestType, CallerType, PoolGoroutineType, RunnerType,
     RolloutLoopType, CheckLoopType, EnvironmentType, RestartType DEF Next
<1> QED BY <1>1, <1>2

\* The tables, the lists and the goroutines' states keep their types in every
\* behaviour, and the index of rolloutLoop never leaves its list.
THEOREM TypeCorrect == Spec => []TypeOK
<1> HIDE DEF TypeOK
<1> QED BY InitType, NextType, PTL DEF Spec

HIDE DEF TypeOK, runnerVars, centerVars

-----------------------------------------------------------------------------
(* The inductive invariants.                                               *)

NoTasks(j) == \A t \in TasksOf(j) : task[t] = NoRow

\* Request c has inserted the row of job j and has not started the goroutine.
Creates(c, j) == api[c].pc = "read" /\ api[c].job = j

\* The tasks of a job are inserted once, into a table that has none of them:
\* there is one request and one goroutine that sets the job up.
SetUpOnce ==
  /\ \A j \in fresh : /\ NoTasks(j) /\ creating[j].pc = "none"
                      /\ \A c \in Callers : ~Creates(c, j)
  /\ \A c \in Callers, j \in Jobs :
       Creates(c, j) => /\ NoTasks(j) /\ creating[j].pc = "none"
                        /\ \A d \in Callers : Creates(d, j) => d = c
  /\ \A j \in Jobs : creating[j].pc = "insert" => NoTasks(j)

\* No code writes IN_PROGRESS to a task, so a late SENT finds QUEUED or SENT.
NeverInProgress == \A t \in Tasks : task[t] # "IN_PROGRESS"

\* Whatever is on its way to the table about a task comes from an execution.
ReportsAfterExecution ==
  /\ \A c \in watchMsg : c[1] \in executed
  /\ \A e \in inflight : e[1] \in executed
  /\ loopPc = "sent" => \A m \in hand : IdOf(m) \in executed

\* The inductive invariant.
SafetyInv == /\ TypeOK /\ SetUpOnce /\ NeverInProgress
             /\ ReportsAfterExecution /\ ReportedWasExecuted

-----------------------------------------------------------------------------
(* What a step can do to a row of job_task.                                *)

\* A row is inserted by the goroutine that sets its job up, deleted, canceled,
\* or written by watchTaskChangeLoop with a status that was reported for it.
TaskMove(t) ==
  \/ task'[t] = task[t]
  \/ task'[t] = NoRow
  \/ /\ task[t] = NoRow /\ task'[t] = "QUEUED"
     /\ creating[JobOf[t]].pc = "insert" /\ creating'[JobOf[t]].pc = "find"
  \/ task[t] \in {"QUEUED", "SENT", "IN_PROGRESS"} /\ task'[t] = "CANCELED"
  \/ /\ task[t] \in {"QUEUED", "SENT", "IN_PROGRESS"}
     /\ task'[t] \in {"SENT", "SUCCEEDED", "FAILED"}
     /\ \E c \in watchMsg : c[1] = t

\* The cancellations and deletions of rows.
LEMMA StatementMove ==
  ASSUME NEW j, NEW force \in BOOLEAN, NEW t \in Tasks, TypeOK,
         task' \in {TasksCanceled(j, force), TasksDeleted(j), task}
  PROVE  TaskMove(t)
BY DEF TypeOK, RepoType, TasksCanceled, TasksDeleted, TaskMove

\* Every step moves a row in one of these ways.
LEMMA EveryTaskMove ==
  ASSUME TypeOK, SetUpOnce, [Next]_vars, NEW t \in Tasks
  PROVE  TaskMove(t)
<1>0. CASE UNCHANGED task
  BY <1>0 DEF TaskMove
<1>1. ASSUME NEW c \in Callers, Request(c)  PROVE TaskMove(t)
  <2>1. ASSUME NEW j \in Jobs, CreateJob(c, j) \/ UpdateJob(c, j)
        PROVE  TaskMove(t)
    BY <1>0, <2>1 DEF CreateJob, UpdateJob, repoVars
  <2>2. ASSUME NEW j \in Jobs, NEW force \in BOOLEAN,
               CancelJob(c, j, force) \/ DeleteJob(c, j, force)
        PROVE  TaskMove(t)
    BY <2>2, StatementMove DEF CancelJob, DeleteJob
  <2>3. ASSUME NEW u \in Tasks, NEW force \in BOOLEAN,
               CancelTask(c, u, force) \/ DeleteTask(c, u, force)
        PROVE  TaskMove(t)
    BY <2>3 DEF CancelTask, DeleteTask, TaskMove, TypeOK, RepoType, TaskStatus,
                IsTaskTerminal
  <2> QED BY <1>1, <2>1, <2>2, <2>3 DEF Request, TasksOf
<1>2. ASSUME NEW c \in Callers, CallerStep(c) \/ CallerSends(c)  PROVE TaskMove(t)
  <2>1. CASE DeleteTasks(c)
    BY <2>1, StatementMove DEF DeleteTasks
  <2>2. CASE ~DeleteTasks(c)
    BY <1>0, <1>2, <2>2
    DEF CallerStep, CallerSends, CreateRead, UpdateWrite, CallerContext,
        CallerCanceled, UpdateContext, CallerRemove, repoVars
  <2> QED BY <2>1, <2>2
<1>3. ASSUME NEW j \in Jobs, PoolInsert(j)  PROVE TaskMove(t)
  <2>1. CASE JobOf[t] = j
    <3>1. task[t] = NoRow
      BY <1>3, <2>1 DEF PoolInsert, CreateInsert, SetUpOnce, NoTasks, TasksOf
    <3> QED BY <1>3, <2>1, <3>1
        DEF PoolInsert, CreateInsert, TasksInserted, TaskMove, TypeOK, PoolJobType
  <2>2. CASE JobOf[t] # j
    BY <1>3, <2>2 DEF PoolInsert, CreateInsert, TasksInserted, TaskMove
  <2> QED BY <2>1, <2>2
<1>4. ASSUME \/ \E j \in Jobs : PoolFind(j) \/ PoolAdd(j) \/ PoolDelJob(j)
             \/ \E u \in Tasks : PoolDelTask(u)
      PROVE  TaskMove(t)
  BY <1>0, <1>4 DEF PoolFind, PoolAdd, PoolDelJob, PoolDelTask, repoVars
<1>5. CASE RolloutStep \/ RolloutSends
  <2>1. CASE RolloutFinishes
    BY <2>1, StatementMove DEF RolloutFinishes, RoFinish, DoFinishJob
  <2>2. CASE RolloutWritesTasks
    BY <2>2, StatementMove DEF RolloutWritesTasks, RoEndTasks
  <2>3. CASE RolloutLocal \/ RolloutWritesJob \/ RolloutWritesContext \/ RolloutSends
    BY <1>0, <2>3
    DEF RolloutLocal, RolloutWritesJob, RolloutWritesContext, RolloutSends
  <2> QED BY <1>5, <2>1, <2>2, <2>3 DEF RolloutStep
<1>6. CASE \/ LoopStep \/ LoopSends \/ LoopHears
           \/ \E e \in inflight : WorkerSends(e)
  BY <1>0, <1>6 DEF LoopStep, LoopLocal, LoopToPool, LoopSends, LoopHears,
                    WorkerSends, LoopFrame, repoVars
<1>7. CASE WatchWrites
  <2>1. PICK c \in watchMsg : WatchUpdate(c)
    BY <1>7 DEF WatchWrites
  <2>2. c[1] \in Tasks /\ c[2] \in {"SENT", "SUCCEEDED", "FAILED"}
    BY DEF TypeOK, WatchType
  <2>3. task[t] \in TaskStatus \union {NoRow}
    BY DEF TypeOK, RepoType
  <2> QED BY <2>1, <2>2, <2>3
      DEF WatchUpdate, UpdateTaskStatus, TaskMove, TypeOK, RepoType, TaskStatus,
          IsTaskTerminal
<1>8. CASE WatchSends
  BY <1>0, <1>8 DEF WatchSends, repoVars
<1>9. CASE CheckStep \/ CheckSends
  <2>1. CASE CheckFinishes
    BY <2>1, StatementMove DEF CheckFinishes, CkFinish, DoFinishJob
  <2>2. CASE CheckLocal \/ CheckWritesContext \/ CheckSends
    BY <1>0, <2>2 DEF CheckLocal, CheckWritesContext, CheckSends
  <2> QED BY <1>9, <2>1, <2>2 DEF CheckStep
<1>10. CASE Clock \/ (\E th \in DirectThings : Presence(th)) \/ Restart
  BY <1>0, <1>10 DEF Clock, Presence, LoopFrame, Restart, repoVars
<1>11. CASE UNCHANGED vars
  BY <1>0, <1>11 DEF vars, repoVars
<1> QED BY <1>1, <1>2, <1>3, <1>4, <1>5, <1>6, <1>7, <1>8, <1>9, <1>10, <1>11
    DEF Next, PoolStep

-----------------------------------------------------------------------------
(* The tasks of a job are inserted once.                                   *)

\* A job that has no tasks gets some only when its goroutine inserts them.
LEMMA NoTasksStay ==
  ASSUME TypeOK, SetUpOnce, [Next]_vars, NEW j \in Jobs, NoTasks(j),
         ~(creating[j].pc = "insert" /\ creating'[j].pc = "find")
  PROVE  NoTasks(j)'
<1>1. \A t \in Tasks : TaskMove(t)
  BY EveryTaskMove
<1> QED BY <1>1 DEF NoTasks, TasksOf, TaskMove, NoRow

\* Steps that start no set-up: no id is taken, no goroutine comes to its insert,
\* no request comes to its read.
LEMMA SetUpFrame ==
  ASSUME TypeOK, SetUpOnce, [Next]_vars,
         fresh' \subseteq fresh,
         \A j \in Jobs : \/ creating'[j].pc = creating[j].pc
                         \/ creating[j].pc # "none" /\ creating'[j].pc # "insert"
                         \/ creating'[j].pc = "none",
         \A c \in Callers, j \in Jobs : Creates(c, j)' => Creates(c, j)
  PROVE  SetUpOnce'
<1>1. \A j \in fresh' : /\ NoTasks(j)' /\ creating'[j].pc = "none"
                        /\ \A c \in Callers : ~Creates(c, j)'
  <2> SUFFICES ASSUME NEW j \in fresh'
               PROVE  /\ NoTasks(j)' /\ creating'[j].pc = "none"
                      /\ \A c \in Callers : ~Creates(c, j)'
    OBVIOUS
  <2>1. j \in fresh /\ j \in Jobs
    BY DEF TypeOK, ApiType
  <2>2. creating[j].pc = "none" /\ creating'[j].pc = "none"
    BY <2>1 DEF SetUpOnce
  <2> QED BY <2>1, <2>2, NoTasksStay DEF SetUpOnce
<1>2. ASSUME NEW c \in Callers, NEW j \in Jobs, Creates(c, j)'
      PROVE  /\ NoTasks(j)' /\ creating'[j].pc = "none"
             /\ \A d \in Callers : Creates(d, j)' => d = c
  <2>1. Creates(c, j)
    BY <1>2
  <2>2. creating[j].pc = "none" /\ creating'[j].pc = "none"
    BY <2>1 DEF SetUpOnce
  <2> QED BY <2>1, <2>2, NoTasksStay DEF SetUpOnce
<1>3. ASSUME NEW j \in Jobs, creating'[j].pc = "insert"
      PROVE  NoTasks(j)'
  BY <1>3, NoTasksStay DEF SetUpOnce
<1> QED BY <1>1, <1>2, <1>3 DEF SetUpOnce

\* Steps that leave the three variables alone.
LEMMA SetUpUnchanged ==
  ASSUME TypeOK, SetUpOnce, [Next]_vars, UNCHANGED <<fresh, creating, api>>
  PROVE  SetUpOnce'
BY SetUpFrame DEF Creates

\* No step lets two goroutines, or one that comes too late, insert the tasks.
LEMMA SetUpStep ==
  ASSUME TypeOK, SetUpOnce, [Next]_vars
  PROVE  SetUpOnce'
<1>1. ASSUME NEW c \in Callers, NEW j \in Jobs, CreateJob(c, j)
      PROVE  SetUpOnce'
  <2>1. /\ fresh' = fresh \ {j} /\ j \in fresh /\ UNCHANGED <<task, creating>>
        /\ api' = [api EXCEPT ![c] = [pc |-> "read", op |-> "create", job |-> j,
                                      force |-> FALSE]]
    BY <1>1 DEF CreateJob, Accept, poolJobVars
  <2>2. \A d \in Callers, i \in Jobs :
          Creates(d, i)' <=> (d = c /\ i = j) \/ (d # c /\ Creates(d, i))
    BY <2>1 DEF Creates, TypeOK, ApiType
  <2>3. \A i \in Jobs : NoTasks(i)' <=> NoTasks(i)
    BY <2>1 DEF NoTasks
  <2>4. fresh \subseteq Jobs
    BY DEF TypeOK, ApiType
  <2> QED BY <2>1, <2>2, <2>3, <2>4 DEF SetUpOnce
<1>2. ASSUME NEW c \in Callers, CreateRead(c)
      PROVE  SetUpOnce'
  <2>0. PICK j \in Jobs : j = api[c].job
    BY <1>2 DEF CreateRead, TypeOK, ApiType
  <2>1. Creates(c, j)
    BY <1>2, <2>0 DEF CreateRead, Creates
  <2>2. /\ UNCHANGED <<fresh, task>>
        /\ api' = [api EXCEPT ![c] = Idle]
        /\ \A i \in Jobs : i # j => creating'[i] = creating[i]
    BY <1>2, <2>0 DEF CreateRead, Return, repoVars, TypeOK, PoolJobType
  <2>3. \A d \in Callers, i \in Jobs : Creates(d, i)' <=> d # c /\ Creates(d, i)
    BY <2>2 DEF Creates, Idle, TypeOK, ApiType
  <2>4. \A i \in Jobs : NoTasks(i)' <=> NoTasks(i)
    BY <2>2 DEF NoTasks
  <2>5. fresh \subseteq Jobs
    BY DEF TypeOK, ApiType
  <2>6. j \notin fresh /\ NoTasks(j) /\ \A d \in Callers : ~Creates(d, j)'
    <3>1. j \notin fresh
      BY <2>1 DEF SetUpOnce
    <3>2. NoTasks(j) /\ \A d \in Callers : Creates(d, j) => d = c
      BY <2>1 DEF SetUpOnce
    <3> QED BY <2>1, <2>3, <3>1, <3>2
  <2> QED BY <2>1, <2>2, <2>3, <2>4, <2>5, <2>6 DEF SetUpOnce
<1>3. ASSUME NEW c \in Callers, NEW r, r.pc # "read",
             api' = [api EXCEPT ![c] = r],
             UNCHANGED <<fresh, creating>>
      PROVE  SetUpOnce'
  <2>1. \A d \in Callers, i \in Jobs : Creates(d, i)' => Creates(d, i)
    BY <1>3 DEF Creates, TypeOK, ApiType
  <2> QED BY <1>3, <2>1, SetUpFrame
<1>4. ASSUME NEW c \in Callers, Request(c)
      PROVE  SetUpOnce'
  <2>1. ASSUME NEW j \in Jobs, UpdateJob(c, j)  PROVE SetUpOnce'
    BY <1>3, <2>1 DEF UpdateJob, Accept, centerVars, poolJobVars
  <2>2. ASSUME NEW j \in Jobs, NEW force \in BOOLEAN, CancelJob(c, j, force)
        PROVE  SetUpOnce'
    BY <1>3, <2>2 DEF CancelJob, Accept, centerVars, poolJobVars
  <2>3. ASSUME NEW j \in Jobs, NEW force \in BOOLEAN, DeleteJob(c, j, force)
        PROVE  SetUpOnce'
    BY <1>3, <2>3 DEF DeleteJob, Accept, centerVars, poolJobVars
  <2>4. ASSUME NEW t \in Tasks, NEW force \in BOOLEAN,
               CancelTask(c, t, force) \/ DeleteTask(c, t, force)
        PROVE  SetUpOnce'
    BY <2>4, SetUpUnchanged DEF CancelTask, DeleteTask, AcceptTask
  <2> QED BY <1>1, <1>4, <2>1, <2>2, <2>3, <2>4 DEF Request, TasksOf
<1>5. ASSUME NEW c \in Callers, CallerStep(c) \/ CallerSends(c)
      PROVE  SetUpOnce'
  <2>1. ASSUME NEW pc, pc # "read", GoTo(c, pc), UNCHANGED <<fresh, creating>>
        PROVE  SetUpOnce'
    <3>1. \A d \in Callers, i \in Jobs : Creates(d, i)' => Creates(d, i)
      BY <2>1 DEF GoTo, Creates, TypeOK, ApiType
    <3> QED BY <2>1, <3>1, SetUpFrame
  <2>2. ASSUME Return(c), UNCHANGED <<fresh, creating>>
        PROVE  SetUpOnce'
    BY <1>3, <2>2 DEF Return, Idle
  <2>3. CASE UpdateWrite(c)
    BY <2>1, <2>3 DEF UpdateWrite, centerVars, poolJobVars
  <2>4. CASE DeleteTasks(c)
    BY <2>1, <2>4 DEF DeleteTasks, centerVars, poolJobVars
  <2>5. CASE CallerContext(c)
    BY <2>1, <2>5 DEF CallerContext, poolJobVars
  <2>6. CASE CallerCanceled(c)
    BY <2>2, <2>6 DEF CallerCanceled, centerVars, poolJobVars
  <2>7. CASE UpdateContext(c)
    BY <2>2, <2>7 DEF UpdateContext, poolJobVars
  <2>8. CASE CallerRemove(c)
    BY <2>1, <2>2, <2>8 DEF CallerRemove
  <2> QED BY <1>2, <1>5, <2>3, <2>4, <2>5, <2>6, <2>7, <2>8
      DEF CallerStep, CallerSends
<1>6. ASSUME NEW j \in Jobs, PoolInsert(j) \/ PoolFind(j) \/ PoolAdd(j)
      PROVE  SetUpOnce'
  <2>1. UNCHANGED <<fresh, api>>
    BY <1>6 DEF PoolInsert, PoolFind, PoolAdd, apiVars
  <2>2. /\ creating[j].pc # "none" /\ creating'[j].pc \in {"none", "find", "add"}
        /\ \A i \in Jobs : i # j => creating'[i] = creating[i]
    BY <1>6 DEF PoolInsert, PoolFind, PoolAdd, CreateInsert, CreateFind, RoAdd,
                NotCreating, TypeOK, PoolJobType
  <2> QED BY <2>1, <2>2, SetUpFrame DEF Creates
<1>7. ASSUME \/ \E j \in Jobs : PoolDelJob(j)
             \/ \E t \in Tasks : PoolDelTask(t)
      PROVE  SetUpOnce'
  BY <1>7, SetUpUnchanged DEF PoolDelJob, PoolDelTask, apiVars
<1>8. CASE RolloutStep \/ RolloutSends
  BY <1>8, SetUpUnchanged
  DEF RolloutStep, RolloutLocal, RolloutWritesJob, RolloutFinishes,
      RolloutWritesTasks, RolloutWritesContext, RolloutSends, RolloutFrame,
      poolJobVars, apiVars
<1>9. CASE \/ LoopStep \/ LoopSends \/ LoopHears
           \/ \E e \in inflight : WorkerSends(e)
  BY <1>9, SetUpUnchanged
  DEF LoopStep, LoopLocal, LoopToPool, LoopSends, LoopHears, WorkerSends,
      LoopFrame, centerVars, poolJobVars, apiVars
<1>10. CASE WatchWrites \/ WatchSends
  BY <1>10, SetUpUnchanged DEF WatchWrites, WatchSends, centerVars, poolJobVars, apiVars
<1>11. CASE CheckStep \/ CheckSends
  BY <1>11, SetUpUnchanged
  DEF CheckStep, CheckLocal, CheckFinishes, CheckWritesContext, CheckSends,
      CheckFrame, poolJobVars, apiVars
<1>12. CASE Clock \/ \E th \in DirectThings : Presence(th)
  BY <1>12, SetUpUnchanged DEF Clock, Presence, LoopFrame, centerVars, poolJobVars,
                              apiVars
<1>13. CASE Restart
  <2>1. /\ UNCHANGED fresh
        /\ \A j \in Jobs : creating'[j].pc = "none"
        /\ \A c \in Callers : api'[c].pc = "idle"
    BY <1>13 DEF Restart, NotCreating, Idle
  <2> QED BY <2>1, SetUpFrame DEF Creates
<1>14. CASE UNCHANGED vars
  BY <1>14, SetUpUnchanged DEF vars, centerVars, poolJobVars, apiVars
<1> QED BY <1>4, <1>5, <1>6, <1>7, <1>8, <1>9, <1>10, <1>11, <1>12, <1>13, <1>14
    DEF Next, PoolStep

-----------------------------------------------------------------------------
(* What is reported was executed.                                          *)

\* Steps that give nothing to the pool and report nothing; a restart too.
LEMMA ReportsFrame ==
  ASSUME ReportsAfterExecution, UNCHANGED executed,
         inflight' \subseteq inflight, watchMsg' \subseteq watchMsg,
         \/ loopPc' # "sent"
         \/ loopPc = "sent" /\ hand' \subseteq hand
  PROVE  ReportsAfterExecution'
BY DEF ReportsAfterExecution, IdOf

\* Every report that is sent or in flight belongs to a task that was executed.
LEMMA ReportsStep ==
  ASSUME TypeOK, ReportsAfterExecution, [Next]_vars
  PROVE  ReportsAfterExecution' /\ executed \subseteq executed'
<1> USE DEF runnerVars
<1>0. ASSUME UNCHANGED <<loopVars, poolVars, watchVars>>
      PROVE  ReportsAfterExecution' /\ executed \subseteq executed'
  BY <1>0, ReportsFrame DEF loopVars, poolVars, watchVars, TypeOK, PoolType
<1>1. ASSUME UNCHANGED <<poolVars, watchVars>>,
             loopPc' # "sent"
      PROVE  ReportsAfterExecution' /\ executed \subseteq executed'
  BY <1>1, ReportsFrame DEF poolVars, watchVars, TypeOK, PoolType
<1>2. ASSUME NEW c \in Callers, Request(c) \/ CallerStep(c) \/ CallerSends(c)
      PROVE  UNCHANGED <<loopVars, poolVars, watchVars>>
  BY <1>2 DEF Request, CreateJob, UpdateJob, CancelJob, DeleteJob, CancelTask,
              DeleteTask, CallerStep, CallerSends, CreateRead, UpdateWrite,
              DeleteTasks, CallerContext, CallerCanceled, UpdateContext,
              CallerRemove
<1>3. ASSUME NEW j \in Jobs, PoolStep(j) \/ PoolAdd(j)
      PROVE  UNCHANGED <<loopVars, poolVars, watchVars>>
  BY <1>3 DEF PoolStep, PoolInsert, PoolFind, PoolAdd
<1>4. ASSUME \/ \E j \in Jobs : PoolDelJob(j)
             \/ \E t \in Tasks : PoolDelTask(t)
      PROVE  UNCHANGED <<poolVars, watchVars>> /\ loopPc' # "sent"
  BY <1>4 DEF PoolDelJob, PoolDelTask, LoopDelJob, LoopDelTask
<1>5. ASSUME RolloutStep
      PROVE  UNCHANGED <<loopVars, poolVars, watchVars>>
  BY <1>5 DEF RolloutStep, RolloutLocal, RolloutWritesJob, RolloutFinishes,
              RolloutWritesTasks, RolloutWritesContext, RolloutFrame
<1>6. ASSUME RolloutSends
      PROVE  UNCHANGED <<poolVars, watchVars>> /\ loopPc' # "sent"
  BY <1>6 DEF RolloutSends, RolloutFrame, LoopDelJob, LoopAdd
<1>7. ASSUME LoopLocal \/ LoopHears
      PROVE  UNCHANGED <<poolVars, watchVars>> /\ loopPc' # "sent"
  BY <1>7 DEF LoopLocal, LoopTick, LoopTurnEnds, LoopPop, LoopPark, LoopHears,
              LoopConnected
<1>8. ASSUME LoopToPool
      PROVE  ReportsAfterExecution' /\ executed \subseteq executed'
  <2>1. PICK m \in hand : LoopSubmit(m) \/ LoopPoolFull(m)
    BY <1>8 DEF LoopToPool
  <2>2. UNCHANGED watchMsg
    BY <1>8 DEF LoopToPool, watchVars
  <2>3. CASE LoopPoolFull(m)
    BY <2>2, <2>3, ReportsFrame DEF LoopPoolFull, poolVars
  <2>4. CASE LoopSubmit(m)
    <3>1. /\ executed' = executed \union {IdOf(m)}
          /\ inflight' = inflight \union {<<IdOf(m), execs[IdOf(m)] + 1>>}
          /\ hand = {m} /\ hand' \subseteq hand
      BY <2>4 DEF LoopSubmit
    <3>2. \A e \in inflight' : e[1] \in executed'
      BY <3>1 DEF ReportsAfterExecution
    <3>3. \A c \in watchMsg' : c[1] \in executed'
      BY <2>2, <3>1 DEF ReportsAfterExecution
    <3>4. \A n \in hand' : IdOf(n) \in executed'
      BY <3>1
    <3> QED BY <3>1, <3>2, <3>3, <3>4 DEF ReportsAfterExecution
  <2> QED BY <2>1, <2>3, <2>4
<1>9. ASSUME LoopSends
      PROVE  ReportsAfterExecution' /\ executed \subseteq executed'
  <2>1. PICK m \in hand : LoopReportSent(m)
    BY <1>9 DEF LoopSends
  <2>2. UNCHANGED <<inflight, executed>>
    BY <1>9 DEF LoopSends, poolVars
  <2>3. watchMsg' = {<<IdOf(m), "SENT">>} /\ loopPc' # "sent" /\ IdOf(m) \in executed
    BY <2>1 DEF LoopReportSent, ReportsAfterExecution
  <2> QED BY <2>2, <2>3 DEF ReportsAfterExecution, TypeOK, PoolType
<1>10. ASSUME NEW e \in inflight, WorkerSends(e)
       PROVE  ReportsAfterExecution' /\ executed \subseteq executed'
  <2>1. /\ UNCHANGED <<executed, hand, loopPc>> /\ inflight' \subseteq inflight
        /\ \E s : watchMsg' = {<<e[1], s>>}
    BY <1>10 DEF WorkerSends, WorkerReport, loopVars
  <2> QED BY <2>1 DEF ReportsAfterExecution, TypeOK, PoolType, IdOf
<1>11. ASSUME WatchWrites \/ WatchSends
       PROVE  ReportsAfterExecution' /\ executed \subseteq executed'
  <2>1. UNCHANGED <<executed, inflight, hand, loopPc>> /\ watchMsg' \subseteq watchMsg
    BY <1>11 DEF WatchWrites, WatchUpdate, WatchSends, WatchOut, loopVars, poolVars
  <2> QED BY <2>1, ReportsFrame DEF TypeOK, PoolType
<1>12. ASSUME CheckStep \/ CheckSends
       PROVE  UNCHANGED <<loopVars, poolVars, watchVars>>
  BY <1>12 DEF CheckStep, CheckLocal, CheckFinishes, CheckWritesContext,
               CheckSends, CheckFrame
<1>13. ASSUME Clock \/ \E th \in DirectThings : Presence(th)
       PROVE  UNCHANGED <<loopVars, poolVars, watchVars>>
  BY <1>13 DEF Clock, Presence
<1>14. ASSUME Restart
       PROVE  ReportsAfterExecution' /\ executed \subseteq executed'
  BY <1>14, ReportsFrame DEF Restart, TypeOK, PoolType
<1>15. ASSUME UNCHANGED vars
       PROVE  UNCHANGED <<loopVars, poolVars, watchVars>>
  BY <1>15 DEF vars
<1> QED BY <1>0, <1>1, <1>2, <1>3, <1>4, <1>5, <1>6, <1>7, <1>8, <1>9, <1>10,
           <1>11, <1>12, <1>13, <1>14, <1>15 DEF Next, LoopStep

\* A row says SENT, SUCCEEDED or FAILED only of a task that was executed.
LEMMA ReportedStep ==
  ASSUME TypeOK, SetUpOnce, ReportsAfterExecution, ReportedWasExecuted,
         [Next]_vars
  PROVE  ReportedWasExecuted'
<1> SUFFICES ASSUME NEW t \in Tasks,
                    task'[t] \in {"SENT", "SUCCEEDED", "FAILED"}
             PROVE  t \in executed'
  BY DEF ReportedWasExecuted
<1>1. executed \subseteq executed'
  BY ReportsStep
<1>2. TaskMove(t)
  BY EveryTaskMove
<1>3. t \in executed
  BY <1>2 DEF TaskMove, NoRow, ReportedWasExecuted, ReportsAfterExecution
<1> QED BY <1>1, <1>3

-----------------------------------------------------------------------------
(* The theorems.                                                           *)

\* The invariant holds of the empty tables.
LEMMA SafetyInit == Init => SafetyInv
<1> SUFFICES ASSUME Init  PROVE SafetyInv
  OBVIOUS
<1>1. TypeOK
  BY InitType
<1>2. SetUpOnce
  BY <1>1 DEF Init, CenterInit, SetUpOnce, NoTasks, Creates, NotCreating, Idle,
              TasksOf, TypeOK, ApiType
<1>3. NeverInProgress /\ ReportedWasExecuted
  BY DEF Init, NeverInProgress, ReportedWasExecuted, NoRow
<1>4. ReportsAfterExecution
  BY DEF Init, RunnerInit, ReportsAfterExecution
<1> QED BY <1>1, <1>2, <1>3, <1>4 DEF SafetyInv

\* Every step keeps the invariant.
LEMMA SafetyNext == SafetyInv /\ [Next]_vars => SafetyInv'
<1> SUFFICES ASSUME SafetyInv, [Next]_vars  PROVE SafetyInv'
  OBVIOUS
<1>1. TypeOK'
  BY NextType DEF SafetyInv
<1>2. SetUpOnce'
  BY SetUpStep DEF SafetyInv
<1>3. NeverInProgress'
  <2>1. \A t \in Tasks : TaskMove(t)
    BY EveryTaskMove DEF SafetyInv
  <2> QED BY <2>1 DEF SafetyInv, NeverInProgress, TaskMove, NoRow
<1>4. ReportsAfterExecution' /\ ReportedWasExecuted'
  BY ReportsStep, ReportedStep DEF SafetyInv
<1> QED BY <1>1, <1>2, <1>3, <1>4 DEF SafetyInv

\* A task is recorded as sent, succeeded or failed only after it was given to
\* the worker pool, whatever the order in which its two reports are received.
THEOREM ReportsAreTrue == Spec => []ReportedWasExecuted
<1>1. SafetyInv => ReportedWasExecuted
  BY DEF SafetyInv
<1> QED BY <1>1, SafetyInit, SafetyNext, PTL DEF Spec

\* The status of a task only moves forward: late reports, cancellations and
\* the set-up of the job never overwrite what came after them.
THEOREM TaskStatusMovesForward == Spec => TaskStatusForward
<1>1. SafetyInv /\ [Next]_vars =>
        [\A t \in Tasks : task[t] # NoRow /\ task'[t] # task[t] =>
                            Stage(task'[t]) > Stage(task[t])]_vars
  <2> SUFFICES ASSUME SafetyInv, [Next]_vars, NEW t \in Tasks,
                      task[t] # NoRow, task'[t] # task[t]
               PROVE  Stage(task'[t]) > Stage(task[t])
    OBVIOUS
  <2>1. TaskMove(t) /\ task[t] # "IN_PROGRESS"
    BY EveryTaskMove DEF SafetyInv, NeverInProgress
  <2>2. task[t] \in TaskStatus
    BY DEF SafetyInv, TypeOK, RepoType
  <2> QED BY <2>1, <2>2 DEF TaskMove, Stage, TaskStatus, NoRow
<1> QED BY <1>1, SafetyInit, SafetyNext, PTL DEF Spec, TaskStatusForward
=============================================================================

-------------------------- MODULE JobHandoverProofs --------------------------
(***************************************************************************)
(* Who holds the tasks of a job: the copies that the center and the runner *)
(* pass on are of jobs whose set-up is over, the pending list names a job  *)
(* at most once, and an item holds copies of its own job only.             *)
(***************************************************************************)
EXTENDS JobSafetyProofs

\* The set-up of job j is over: its tasks were handed to rolloutLoop, or the
\* process that was to set them up has ended.
Begun(j) == /\ j \notin fresh /\ creating[j].pc = "none"
            /\ \A c \in Callers : ~Creates(c, j)

\* A job that has a row is not a new one.
RowsUsed == \A j \in Jobs : job[j] # NoRow => j \notin fresh

\* ms holds copies of job j only; no two copies of one task; no task twice.
Own(j, ms) == \A m \in ms : JobOfCopy(m) = j
Once(ms) == \A m, n \in ms : IdOf(m) = IdOf(n) => m = n
Apart(A, B) == \A m \in A, n \in B : IdOf(m) # IdOf(n)

\* The list of rolloutLoop: one entry for each job, made when the set-up of
\* the job is over, with one copy of each task of the job at most.
PendingOnce == \A i, k \in DOMAIN pending : pending[i] = pending[k] => i = k
PendingBegun == \A j \in Jobs : IsPending(j) => Begun(j)
ItemIfPending == \A j \in Jobs : ~IsPending(j) => item[j] = NoItem
ItemsOwn == \A j \in Jobs : /\ Own(j, item[j].tasks) /\ Once(item[j].tasks)
                            /\ Own(j, creating[j].tasks) /\ Once(creating[j].tasks)
ChunkOwn == IF roPc = "put" THEN Own(pending[roI], roChunk) ELSE roChunk = {}

ListInv == /\ RowsUsed /\ PendingOnce /\ PendingBegun /\ ItemIfPending
           /\ ItemsOwn /\ ChunkOwn

\* What the runner and the check of finished jobs work on is of such jobs.
HandInv == loopPc \in {"select", "pop"} => hand = {}
RunnerBegun == \A m \in curQ \union offline \union hand : Begun(JobOfCopy(m))
ReportsBegun == /\ \A e \in inflight : Begun(JobOf[e[1]])
                /\ \A e \in watchMsg : Begun(JobOf[e[1]])
ChecksBegun == \A j \in checkJobs \union ckTodo \union ckJob : Begun(j)

RunnerInv == HandInv /\ RunnerBegun /\ ReportsBegun /\ ChecksBegun

HandoverInv == SafetyInv /\ ListInv /\ RunnerInv

-----------------------------------------------------------------------------
(* The set-up of a job begins and ends once.                               *)

\* Only CreateJob and CreateRead start a part of a set-up.
LEMMA SetUpMove ==
  ASSUME TypeOK, [Next]_vars
  PROVE  \/ \E c \in Callers, j \in Jobs : CreateJob(c, j)
         \/ \E c \in Callers : CreateRead(c)
         \/ /\ fresh' = fresh
            /\ \A c \in Callers, j \in Jobs : Creates(c, j)' => Creates(c, j)
            /\ \A j \in Jobs : creating[j].pc = "none" => creating'[j].pc = "none"
<1> DEFINE Quiet == /\ fresh' = fresh
                    /\ \A c \in Callers, j \in Jobs : Creates(c, j)' => Creates(c, j)
                    /\ \A j \in Jobs : creating[j].pc = "none" => creating'[j].pc = "none"
<1>1. ASSUME UNCHANGED <<fresh, api>>,
             \A j \in Jobs : creating[j].pc = "none" => creating'[j].pc = "none"
      PROVE  Quiet
  BY <1>1 DEF Creates
<1>2. ASSUME NEW c \in Callers, NEW r, r.pc # "read",
             api' = [api EXCEPT ![c] = r], UNCHANGED <<fresh, creating>>
      PROVE  Quiet
  BY <1>2 DEF Creates, TypeOK, ApiType
<1>3. ASSUME NEW c \in Callers, NEW pc, pc # "read", GoTo(c, pc),
             UNCHANGED <<fresh, creating>>
      PROVE  Quiet
  BY <1>3 DEF GoTo, Creates, TypeOK, ApiType
<1>4. ASSUME NEW c \in Callers, Return(c), UNCHANGED <<fresh, creating>>
      PROVE  Quiet
  BY <1>2, <1>4 DEF Return, Idle
<1>5. ASSUME UNCHANGED <<fresh, api, creating>>
      PROVE  Quiet
  BY <1>1, <1>5
<1> HIDE DEF Quiet
<1>6. ASSUME NEW c \in Callers, Request(c)
      PROVE  Quiet \/ \E j \in Jobs : CreateJob(c, j)
  <2>1. ASSUME NEW j \in Jobs, UpdateJob(c, j)  PROVE Quiet
    BY <1>2, <2>1 DEF UpdateJob, Accept, centerVars, poolJobVars
  <2>2. ASSUME NEW j \in Jobs, NEW force \in BOOLEAN, CancelJob(c, j, force)
        PROVE  Quiet
    BY <1>2, <2>2 DEF CancelJob, Accept, centerVars, poolJobVars
  <2>3. ASSUME NEW j \in Jobs, NEW force \in BOOLEAN, DeleteJob(c, j, force)
        PROVE  Quiet
    BY <1>2, <2>3 DEF DeleteJob, Accept, centerVars, poolJobVars
  <2>4. ASSUME NEW t \in Tasks, NEW force \in BOOLEAN,
               CancelTask(c, t, force) \/ DeleteTask(c, t, force)
        PROVE  Quiet
    BY <1>5, <2>4 DEF CancelTask, DeleteTask, AcceptTask
  <2> QED BY <1>6, <2>1, <2>2, <2>3, <2>4 DEF Request, TasksOf
<1>7. ASSUME NEW c \in Callers, CallerStep(c) \/ CallerSends(c), ~CreateRead(c)
      PROVE  Quiet
  <2>1. ASSUME UpdateWrite(c)  PROVE Quiet
    BY <1>3, <2>1 DEF UpdateWrite, centerVars, poolJobVars
  <2>2. ASSUME DeleteTasks(c)  PROVE Quiet
    BY <1>3, <2>2 DEF DeleteTasks, centerVars, poolJobVars
  <2>3. ASSUME CallerContext(c)  PROVE Quiet
    BY <1>3, <2>3 DEF CallerContext, poolJobVars
  <2>4. ASSUME CallerCanceled(c)  PROVE Quiet
    BY <1>4, <2>4 DEF CallerCanceled, centerVars, poolJobVars
  <2>5. ASSUME UpdateContext(c)  PROVE Quiet
    BY <1>4, <2>5 DEF UpdateContext, poolJobVars
  <2>6. ASSUME CallerRemove(c)  PROVE Quiet
    BY <1>3, <1>4, <2>6 DEF CallerRemove
  <2> QED BY <1>7, <2>1, <2>2, <2>3, <2>4, <2>5, <2>6 DEF CallerStep, CallerSends
<1>8. ASSUME NEW j \in Jobs, PoolInsert(j) \/ PoolFind(j) \/ PoolAdd(j)
      PROVE  Quiet
  <2>1. UNCHANGED <<fresh, api>>
    BY <1>8 DEF PoolInsert, PoolFind, PoolAdd, apiVars
  <2>2. \A i \in Jobs : creating[i].pc = "none" => creating'[i].pc = "none"
    BY <1>8 DEF PoolInsert, PoolFind, PoolAdd, CreateInsert, CreateFind, RoAdd,
                NotCreating, TypeOK, PoolJobType
  <2> QED BY <1>1, <2>1, <2>2
<1>9. ASSUME \/ \E j \in Jobs : PoolDelJob(j)
             \/ \E t \in Tasks : PoolDelTask(t)
      PROVE  Quiet
  BY <1>5, <1>9 DEF PoolDelJob, PoolDelTask, apiVars
<1>10. ASSUME RolloutStep \/ RolloutSends  PROVE Quiet
  BY <1>5, <1>10
  DEF RolloutStep, RolloutLocal, RolloutWritesJob, RolloutFinishes,
      RolloutWritesTasks, RolloutWritesContext, RolloutSends, RolloutFrame,
      poolJobVars, apiVars
<1>11. ASSUME \/ LoopStep \/ LoopSends \/ LoopHears
              \/ \E e \in inflight : WorkerSends(e)
              \/ \E th \in DirectThings : Presence(th)
       PROVE  Quiet
  BY <1>5, <1>11
  DEF LoopStep, LoopLocal, LoopToPool, LoopSends, LoopHears, WorkerSends,
      Presence, LoopFrame, centerVars, poolJobVars, apiVars
<1>12. ASSUME WatchWrites \/ WatchSends  PROVE Quiet
  BY <1>5, <1>12 DEF WatchWrites, WatchSends, centerVars, poolJobVars, apiVars
<1>13. ASSUME CheckStep \/ CheckSends  PROVE Quiet
  BY <1>5, <1>13
  DEF CheckStep, CheckLocal, CheckFinishes, CheckWritesContext, CheckSends,
      CheckFrame, poolJobVars, apiVars
<1>14. ASSUME Clock  PROVE Quiet
  BY <1>5, <1>14 DEF Clock, poolJobVars, apiVars
<1>15. ASSUME Restart  PROVE Quiet
  <2>1. /\ UNCHANGED fresh
        /\ \A j \in Jobs : creating'[j] = NotCreating
        /\ \A c \in Callers : api'[c].pc = "idle"
    BY <1>15 DEF Restart, Idle
  <2> QED BY <2>1 DEF Quiet, Creates, NotCreating
<1>16. ASSUME UNCHANGED vars  PROVE Quiet
  BY <1>5, <1>16 DEF vars, centerVars, poolJobVars, apiVars
<1>17. CASE Quiet
  BY <1>17 DEF Quiet
<1> QED
  BY <1>6, <1>7, <1>8, <1>9, <1>10, <1>11, <1>12, <1>13, <1>14, <1>15, <1>16,
     <1>17 DEF Next, PoolStep

\* Once the set-up of a job is over it does not begin again.
LEMMA BegunStays ==
  ASSUME TypeOK, SetUpOnce, [Next]_vars, NEW j \in Jobs, Begun(j)
  PROVE  Begun(j)'
<1>1. ASSUME NEW c \in Callers, NEW i \in Jobs, CreateJob(c, i)
      PROVE  Begun(j)'
  <2>1. i # j /\ fresh' = fresh \ {i} /\ UNCHANGED creating
    BY <1>1 DEF CreateJob, Begun, poolJobVars
  <2>2. \A d \in Callers : Creates(d, j)' => Creates(d, j)
    BY <1>1, <2>1 DEF CreateJob, Accept, Creates, TypeOK, ApiType
  <2> QED BY <2>1, <2>2 DEF Begun
<1>2. ASSUME NEW c \in Callers, CreateRead(c)
      PROVE  Begun(j)'
  <2>1. api[c].job # j /\ api[c].job \in Jobs
    BY <1>2 DEF CreateRead, Begun, Creates, TypeOK, ApiType
  <2>2. fresh' = fresh /\ creating'[j] = creating[j]
    BY <1>2, <2>1 DEF CreateRead, TypeOK, PoolJobType
  <2>3. \A d \in Callers : Creates(d, j)' => Creates(d, j)
    BY <1>2 DEF CreateRead, Return, Idle, Creates, TypeOK, ApiType
  <2> QED BY <2>2, <2>3 DEF Begun
<1> QED BY <1>1, <1>2, SetUpMove DEF Begun

\* A row is inserted for a new id only, and for no other reason.
LEMMA RowsUsedStep ==
  ASSUME TypeOK, RowsUsed, [Next]_vars
  PROVE  RowsUsed'
<1> SUFFICES ASSUME NEW j \in Jobs, job'[j] # NoRow  PROVE j \notin fresh'
  BY DEF RowsUsed
<1>0. fresh' \subseteq fresh
  BY SetUpMove DEF CreateJob, CreateRead
<1>1. ASSUME NEW c \in Callers, NEW i \in Jobs, CreateJob(c, i)
      PROVE  j \notin fresh'
  BY <1>1 DEF CreateJob, InsertJob, RowsUsed, TypeOK, RepoType
<1>2. ASSUME job[j] # NoRow  PROVE j \notin fresh'
  BY <1>0, <1>2 DEF RowsUsed
<1>3. ASSUME UNCHANGED job  PROVE job[j] # NoRow
  BY <1>3
<1>4. ASSUME NEW i \in Jobs, NEW s, job' = JobWritten(i, s)
      PROVE  job[j] # NoRow
  BY <1>4 DEF JobWritten, TypeOK, RepoType
<1>5. ASSUME NEW i \in Jobs, NEW s, DoFinishJob(i, s)
      PROVE  job[j] # NoRow
  BY <1>5 DEF DoFinishJob, FinishedRow, TypeOK, RepoType
<1>6. ASSUME NEW c \in Callers, Request(c)
      PROVE  j \notin fresh'
  <2>1. ASSUME NEW i \in Jobs, UpdateJob(c, i)  PROVE job[j] # NoRow
    BY <1>3, <2>1 DEF UpdateJob, repoVars
  <2>2. ASSUME NEW i \in Jobs, NEW force \in BOOLEAN,
               CancelJob(c, i, force) \/ DeleteJob(c, i, force)
        PROVE  job[j] # NoRow
    BY <2>2 DEF CancelJob, DeleteJob, TypeOK, RepoType
  <2>3. ASSUME NEW t \in Tasks, NEW force \in BOOLEAN,
               CancelTask(c, t, force) \/ DeleteTask(c, t, force)
        PROVE  job[j] # NoRow
    BY <1>3, <2>3 DEF CancelTask, DeleteTask
  <2> QED BY <1>1, <1>2, <1>6, <2>1, <2>2, <2>3 DEF Request, TasksOf
<1>7. ASSUME NEW c \in Callers, CallerStep(c) \/ CallerSends(c)
      PROVE  job[j] # NoRow
  <2>1. CASE CallerCanceled(c)
    BY <1>4, <2>1 DEF CallerCanceled, TypeOK, ApiType
  <2>2. CASE ~CallerCanceled(c)
    BY <1>3, <1>7, <2>2
    DEF CallerStep, CallerSends, CreateRead, UpdateWrite, CallerContext,
        DeleteTasks, UpdateContext, CallerRemove, repoVars
  <2> QED BY <2>1, <2>2
<1>8. ASSUME \/ \E i \in Jobs : PoolStep(i) \/ PoolAdd(i) \/ PoolDelJob(i)
             \/ \E u \in Tasks : PoolDelTask(u)
      PROVE  job[j] # NoRow
  BY <1>3, <1>8 DEF PoolStep, PoolInsert, PoolFind, PoolAdd, PoolDelJob,
                    PoolDelTask, repoVars
<1>9. ASSUME RolloutStep \/ RolloutSends  PROVE job[j] # NoRow
  <2>1. CASE RolloutFinishes
    BY <1>5, <2>1 DEF RolloutFinishes, RoFinish
  <2>2. CASE RolloutWritesJob
    BY <1>3, <1>4, <2>2 DEF RolloutWritesJob, RoInTime, RoEndJob
  <2>3. CASE RolloutLocal \/ RolloutWritesTasks \/ RolloutWritesContext
             \/ RolloutSends
    BY <1>3, <2>3
    DEF RolloutLocal, RolloutWritesTasks, RolloutWritesContext, RolloutSends
  <2> QED BY <1>9, <2>1, <2>2, <2>3 DEF RolloutStep
<1>10. ASSUME \/ LoopStep \/ LoopSends \/ LoopHears
              \/ \E e \in inflight : WorkerSends(e)
              \/ WatchWrites \/ WatchSends
              \/ \E th \in DirectThings : Presence(th)
       PROVE  job[j] # NoRow
  BY <1>3, <1>10 DEF LoopStep, LoopLocal, LoopToPool, LoopSends, LoopHears,
                     WorkerSends, Presence, LoopFrame, WatchWrites, WatchSends,
                     repoVars
<1>11. ASSUME CheckStep \/ CheckSends  PROVE job[j] # NoRow
  <2>1. CASE CheckFinishes
    BY <1>5, <2>1 DEF CheckFinishes, CkFinish, TypeOK, CheckType
  <2>2. CASE CheckLocal \/ CheckWritesContext \/ CheckSends
    BY <1>3, <2>2 DEF CheckLocal, CheckWritesContext, CheckSends
  <2> QED BY <1>11, <2>1, <2>2 DEF CheckStep
<1>12. ASSUME Clock \/ UNCHANGED vars  PROVE job[j] # NoRow
  BY <1>3, <1>12 DEF Clock, vars, repoVars
<1>13. ASSUME Restart  PROVE job[j] # NoRow
  BY <1>13 DEF Restart, FinishedRow
<1> QED BY <1>2, <1>6, <1>7, <1>8, <1>9, <1>10, <1>11, <1>12, <1>13 DEF Next

-----------------------------------------------------------------------------
(* The pending list.                                                       *)

\* What delPendingAt leaves: the other entries, in their order.
LEMMA DelPendingAtElems ==
  ASSUME NEW s \in Seq(Jobs), NEW i \in 1 .. Len(s)
  PROVE  /\ DOMAIN DelPendingAt(s, i) = 1 .. Len(s) - 1
         /\ \A k \in 1 .. Len(s) - 1 :
              DelPendingAt(s, i)[k] = IF k < i THEN s[k] ELSE s[k + 1]
<1> DEFINE a == SubSeq(s, 1, i - 1)
           b == SubSeq(s, i + 1, Len(s))
<1>1. /\ a \in Seq(Jobs) /\ Len(a) = i - 1
      /\ \A k \in 1 .. i - 1 : a[k] = s[k]
  <2>1. \A k \in 1 .. i - 1 : s[k] \in Jobs  OBVIOUS
  <2> QED BY <2>1, SubSeqProperties
<1>2. /\ b \in Seq(Jobs) /\ Len(b) = Len(s) - i
      /\ \A k \in 1 .. Len(s) - i : b[k] = s[i + k]
  <2>1. \A k \in i + 1 .. Len(s) : s[k] \in Jobs  OBVIOUS
  <2>2. /\ b \in Seq(Jobs) /\ Len(b) = Len(s) - i
        /\ \A k \in 1 .. Len(b) : b[k] = s[(i + 1) + k - 1]
    BY <2>1, SubSeqProperties
  <2> QED BY <2>2
<1> HIDE DEF a, b
<1>3. /\ DOMAIN (a \o b) = 1 .. Len(a) + Len(b)
      /\ \A k \in 1 .. Len(a) + Len(b) :
           (a \o b)[k] = IF k <= Len(a) THEN a[k] ELSE b[k - Len(a)]
  <2>1. /\ Len(a \o b) = Len(a) + Len(b) /\ a \o b \in Seq(Jobs)
        /\ \A k \in 1 .. Len(a) + Len(b) :
             (a \o b)[k] = IF k <= Len(a) THEN a[k] ELSE b[k - Len(a)]
    BY <1>1, <1>2, ConcatProperties
  <2>2. DOMAIN (a \o b) = 1 .. Len(a \o b)
    BY <2>1
  <2> QED BY <2>1, <2>2
<1>4. DelPendingAt(s, i) = a \o b
  BY DEF DelPendingAt, a, b
<1>5. DOMAIN DelPendingAt(s, i) = 1 .. Len(s) - 1
  BY <1>1, <1>2, <1>3, <1>4
<1>6. ASSUME NEW k \in 1 .. Len(s) - 1
      PROVE  DelPendingAt(s, i)[k] = IF k < i THEN s[k] ELSE s[k + 1]
  <2>1. CASE k < i
    BY <1>1, <1>2, <1>3, <1>4, <2>1
  <2>2. CASE k >= i
    <3>1. (a \o b)[k] = b[k - (i - 1)]
      BY <1>1, <1>2, <1>3, <2>2
    <3>2. k - (i - 1) \in 1 .. Len(s) - i /\ i + (k - (i - 1)) = k + 1
      BY <2>2
    <3>3. b[k - (i - 1)] = s[i + (k - (i - 1))]
      BY <1>2, <3>2
    <3> QED BY <1>4, <2>2, <3>1, <3>2, <3>3
  <2> QED BY <2>1, <2>2
<1> QED BY <1>5, <1>6

\* Taking out the entry of a job removes that job from a list without
\* repetitions, and no other one.
LEMMA TakeOutList ==
  ASSUME TypeOK, PendingOnce, NEW i \in DOMAIN pending, RoTakeOut(i)
  PROVE  /\ PendingOnce'
         /\ \A j \in Jobs : IsPending(j)' <=> IsPending(j) /\ j # pending[i]
<1>0. pending \in Seq(Jobs) /\ i \in 1 .. Len(pending) /\ Len(pending) \in Nat
      /\ DOMAIN pending = 1 .. Len(pending)
  BY DEF TypeOK, RolloutType
<1>1. /\ DOMAIN pending' = 1 .. Len(pending) - 1
      /\ \A k \in 1 .. Len(pending) - 1 :
           pending'[k] = IF k < i THEN pending[k] ELSE pending[k + 1]
  BY <1>0, DelPendingAtElems DEF RoTakeOut
<1>2. PendingOnce'
  BY <1>0, <1>1 DEF PendingOnce
<1>3. ASSUME NEW j \in Jobs, IsPending(j)'
      PROVE  IsPending(j) /\ j # pending[i]
  <2>1. PICK k \in DOMAIN pending' : pending'[k] = j
    BY <1>3 DEF IsPending
  <2> QED BY <1>0, <1>1, <2>1 DEF PendingOnce, IsPending
<1>4. ASSUME NEW j \in Jobs, IsPending(j), j # pending[i]
      PROVE  IsPending(j)'
  <2>1. PICK k \in DOMAIN pending : pending[k] = j
    BY <1>4 DEF IsPending
  <2>2. CASE k < i
    BY <1>0, <1>1, <2>1, <2>2 DEF IsPending
  <2>3. CASE k > i
    <3>1. k - 1 \in DOMAIN pending' /\ pending'[k - 1] = j
      BY <1>0, <1>1, <2>1, <2>3
    <3> QED BY <3>1 DEF IsPending
  <2> QED BY <1>0, <1>4, <2>1, <2>2, <2>3
<1> QED BY <1>2, <1>3, <1>4

\* Appending a job that is not in the list.
LEMMA AppendList ==
  ASSUME TypeOK, PendingOnce, NEW j \in Jobs, ~IsPending(j),
         pending' = Append(pending, j)
  PROVE  /\ PendingOnce'
         /\ \A i \in Jobs : IsPending(i)' <=> IsPending(i) \/ i = j
<1>0. pending \in Seq(Jobs) /\ Len(pending) \in Nat
      /\ DOMAIN pending = 1 .. Len(pending)
  BY DEF TypeOK, RolloutType
<1>1. /\ DOMAIN pending' = 1 .. Len(pending) + 1
      /\ \A k \in 1 .. Len(pending) : pending'[k] = pending[k]
      /\ pending'[Len(pending) + 1] = j
  BY <1>0, AppendProperties
<1> QED BY <1>0, <1>1 DEF PendingOnce, IsPending

\* The list that a restart makes.
LEMMA RestartList ==
  ASSUME TypeOK, Restart
  PROVE  /\ PendingOnce'
         /\ \A j \in Jobs : IsPending(j)' <=> j \in PendingRows /\ OpenTasks(j) # {}
<1> DEFINE resumed == {j \in PendingRows : OpenTasks(j) # {}}
           n == Cardinality(resumed)
<1>1. resumed \subseteq Jobs /\ IsFiniteSet(resumed) /\ n \in Nat
  BY RepoAssumption, FS_Subset, FS_CardinalityType DEF PendingRows
<1>2. /\ pending' \in [1 .. n -> resumed]
      /\ \A j \in resumed : \E i \in DOMAIN pending' : pending'[i] = j
  BY DEF Restart
<1> HIDE DEF resumed, n
<1>3. IsFiniteSet(1 .. n) /\ Cardinality(1 .. n) = n
  BY <1>1, FS_Interval
<1>4. pending' \in Surjection(1 .. n, resumed)
  BY <1>2 DEF Surjection
<1>5. pending' \in Injection(1 .. n, resumed)
  BY <1>1, <1>3, <1>4, FS_SurjSameCardinalityImpliesInj DEF n
<1>6. PendingOnce'
  BY <1>2, <1>5 DEF PendingOnce, Injection, IsInjective
<1>7. \A j \in Jobs : IsPending(j)' <=> j \in resumed
  BY <1>2 DEF IsPending
<1> QED BY <1>6, <1>7 DEF resumed

\* What a step can do to the status in an entry.
StatusMove(j) ==
  \/ item'[j].status = item[j].status
  \/ item[j].status = "WAITING" /\ item'[j].status = "IN_PROGRESS"
  \/ item'[j].status = "CANCELED" /\ RoEndCancel(j)

\* The list stays and no entry gets a task.
ListKept == /\ pending' = pending
            /\ \A j \in Jobs : /\ item'[j].tasks \subseteq item[j].tasks
                               /\ StatusMove(j)
                               /\ ~IsPending(j) => item'[j] = item[j]

\* What a step can do to the list: an entry comes, goes, loses tasks, gets
\* the tasks that were sent already, or all entries are made anew.
ListMove ==
  \/ ListKept
  \/ \E i \in DOMAIN pending : RoTakeOut(i)
  \/ \E j \in Jobs : PoolAdd(j)
  \/ \E j \in Jobs : RoReload(j)
  \/ Restart

\* rolloutLoop works on a job of its list.
LEMMA WorksOnPending ==
  ASSUME TypeOK, roPc # "select"
  PROVE  /\ roI \in DOMAIN pending /\ pending[roI] \in Jobs
         /\ IsPending(pending[roI])
<1>1. pending \in Seq(Jobs) /\ roI \in 1 .. Len(pending)
  BY DEF TypeOK, RolloutType
<1> QED BY <1>1 DEF IsPending

\* A step that changes one entry, and gives it no task.
LEMMA EntryKept ==
  ASSUME NEW j \in Jobs, IsPending(j), UNCHANGED pending,
         \A i \in Jobs : i # j => item'[i] = item[i],
         item'[j].tasks \subseteq item[j].tasks, StatusMove(j)
  PROVE  ListMove
BY DEF ListMove, ListKept, StatusMove

\* removePendingJob.
LEMMA RemoveListMove ==
  ASSUME TypeOK, NEW j, NEW force \in BOOLEAN, RoRemove(j, force)
  PROVE  ListMove
<1>1. CASE UNCHANGED <<pending, item>>
  BY <1>1 DEF ListMove, ListKept, StatusMove
<1>2. CASE \E i \in DOMAIN pending : RoTakeOut(i)
  BY <1>2 DEF ListMove
<1>3. ASSUME NEW i \in DOMAIN pending, pending[i] = j,
             item' = [item EXCEPT ![j].tasks = OngoingTasks(item[j].tasks)],
             UNCHANGED pending
      PROVE  ListMove
  <2>1. j \in Jobs /\ IsPending(j)
    BY <1>3 DEF TypeOK, RolloutType, IsPending
  <2>2. /\ \A k \in Jobs : k # j => item'[k] = item[k]
        /\ item'[j].tasks \subseteq item[j].tasks /\ StatusMove(j)
    BY <1>3, <2>1 DEF StatusMove, OngoingTasks, TypeOK, RolloutType
  <2> QED BY <1>3, <2>1, <2>2, EntryKept
<1> QED BY <1>1, <1>2, <1>3 DEF RoRemove

\* A step changes the list of rolloutLoop in one of these ways only.
LEMMA EveryListMove ==
  ASSUME TypeOK, ItemIfPending, [Next]_vars
  PROVE  ListMove
<1>0. ASSUME UNCHANGED <<pending, item>>  PROVE ListMove
  BY <1>0 DEF ListMove, ListKept, StatusMove
<1>1. ASSUME NEW c \in Callers, Request(c) \/ CallerStep(c)  PROVE ListMove
  <2>1. UNCHANGED roVars
    BY <1>1
    DEF Request, CreateJob, UpdateJob, CancelJob, DeleteJob, CancelTask, DeleteTask,
        CallerStep, CreateRead, UpdateWrite, DeleteTasks, CallerContext,
        CallerCanceled, centerVars
  <2> QED BY <1>0, <2>1 DEF roVars
<1>2. ASSUME NEW c \in Callers, UpdateContext(c)  PROVE ListMove
  <2>1. api[c].job \in Jobs
    BY <1>2 DEF UpdateContext, TypeOK, ApiType
  <2>2. CASE ~IsPending(api[c].job)
    BY <1>0, <1>2, <2>2 DEF UpdateContext, RoUpdateContext
  <2>3. CASE IsPending(api[c].job)
    <3>1. /\ \A i \in Jobs : i # api[c].job => item'[i] = item[i]
          /\ item'[api[c].job].tasks = item[api[c].job].tasks
          /\ StatusMove(api[c].job)
      BY <1>2, <2>1, <2>3 DEF StatusMove, UpdateContext, RoUpdateContext, TypeOK, RolloutType
    <3> QED BY <1>2, <2>1, <2>3, <3>1, EntryKept DEF UpdateContext, RoUpdateContext
  <2> QED BY <2>2, <2>3
<1>3. ASSUME NEW c \in Callers, CallerRemove(c)  PROVE ListMove
  BY <1>3, RemoveListMove DEF CallerRemove, TypeOK, ApiType
<1>4. ASSUME NEW j \in Jobs, PoolStep(j) \/ PoolAdd(j) \/ PoolDelJob(j)
      PROVE  ListMove
  BY <1>0, <1>4 DEF PoolStep, PoolInsert, PoolFind, PoolAdd, PoolDelJob, roVars, ListMove
<1>5. ASSUME NEW t \in Tasks, PoolDelTask(t)  PROVE ListMove
  BY <1>0, <1>5 DEF PoolDelTask, roVars
<1>6. ASSUME RolloutStep \/ RolloutSends  PROVE ListMove
  <2>1. CASE RoTick \/ RolloutFinishes \/ RolloutWritesTasks
    BY <1>0, <2>1 DEF RoTick, RolloutFinishes, RoFinish, RolloutWritesTasks, RoEndTasks
  <2>2. ASSUME NEW j \in Jobs, pending[roI] = j, roPc # "select",
               UNCHANGED pending,
               \A i \in Jobs : i # j => item'[i] = item[i],
               item'[j].tasks \subseteq item[j].tasks, StatusMove(j)
        PROVE  ListMove
    BY <2>2, WorksOnPending, EntryKept
  <2>3. ASSUME NEW j \in Jobs,
               \/ RoNotInTime(j) \/ RoBeforeStart(j) \/ RoEndJob(j)
               \/ RoEndRunner(j) \/ RoReload(j)
        PROVE  ListMove
    BY <1>0, <2>3 DEF RoNotInTime, RoBeforeStart, RoEndJob, RoEndRunner, ListMove
  <2>4. ASSUME NEW j \in Jobs, RoStopRollout(j) \/ RoEndCancel(j)
        PROVE  ListMove
    <3>1. \A i \in Jobs : i # j => item'[i] = item[i]
      BY <2>4 DEF RoStopRollout, RoEndCancel, TypeOK, RolloutType
    <3>2. item'[j].tasks \subseteq item[j].tasks
      BY <2>4 DEF RoStopRollout, RoEndCancel, OngoingTasks, TypeOK, RolloutType
    <3>3. StatusMove(j)
      BY <2>4 DEF StatusMove, RoStopRollout, RoEndCancel, TypeOK, RolloutType
    <3> QED BY <2>2, <2>4, <3>1, <3>2, <3>3 DEF RoStopRollout, RoEndCancel
  <2>8. ASSUME NEW j \in Jobs, RoInTime(j)  PROVE ListMove
    <3>1. /\ \A i \in Jobs : i # j => item'[i] = item[i]
          /\ item'[j].tasks \subseteq item[j].tasks
      BY <2>8 DEF RoInTime, OngoingTasks, TypeOK, RolloutType
    <3>2. StatusMove(j)
      BY <2>8 DEF StatusMove, RoInTime, TypeOK, RolloutType
    <3> QED BY <2>2, <2>8, <3>1, <3>2 DEF RoInTime
  <2>5. ASSUME NEW j \in Jobs, RoSet(j)  PROVE ListMove
    <3>1. /\ \A i \in Jobs : i # j => item'[i] = item[i]
          /\ item'[j].tasks \subseteq item[j].tasks /\ StatusMove(j)
      BY <2>5 DEF StatusMove, RoSet, TypeOK, RolloutType
    <3> QED BY <2>2, <2>5, <3>1 DEF RoSet
  <2>6. ASSUME NEW j \in Jobs, RoPut(j) \/ RoClear(j), ~RoTakeOut(roI)
        PROVE  ListMove
    <3>1. /\ \A i \in Jobs : i # j => item'[i] = item[i]
          /\ item'[j].tasks \subseteq item[j].tasks /\ StatusMove(j)
      BY <2>6 DEF StatusMove, RoPut, RoClear, TypeOK, RolloutType
    <3> QED BY <2>2, <2>6, <3>1 DEF RoPut, RoClear
  <2>7. ASSUME NEW j \in Jobs, RoPut(j) \/ RoClear(j), RoTakeOut(roI)
        PROVE  ListMove
    <3>1. roI \in DOMAIN pending
      BY <2>7, WorksOnPending DEF RoPut, RoClear
    <3> QED BY <2>7, <3>1 DEF ListMove
  <2> QED BY <1>6, <2>1, <2>3, <2>4, <2>5, <2>6, <2>7, <2>8
      DEF RolloutStep, RolloutLocal, RolloutWritesJob, RolloutWritesContext,
          RolloutSends
<1>7. ASSUME \/ LoopStep \/ LoopSends \/ LoopHears
             \/ \E e \in inflight : WorkerSends(e)
             \/ \E th \in DirectThings : Presence(th)
      PROVE  ListMove
  BY <1>0, <1>7
  DEF LoopStep, LoopLocal, LoopToPool, LoopSends, LoopHears, WorkerSends,
      Presence, LoopFrame, centerVars, roVars
<1>8. ASSUME WatchWrites \/ WatchSends \/ CheckStep  PROVE ListMove
  BY <1>0, <1>8
  DEF WatchWrites, WatchSends, CheckStep, CheckLocal, CheckFinishes,
      CheckWritesContext, centerVars, roVars
<1>9. ASSUME CheckSends  PROVE ListMove
  BY <1>9, RemoveListMove DEF CheckSends
<1>10. ASSUME Clock  PROVE ListMove
  <2>1. CASE UNCHANGED roVars
    BY <1>0, <2>1 DEF roVars
  <2>2. ASSUME NEW j \in Jobs, WindowSlides(j)  PROVE ListMove
    <3>1. IsPending(j)
      BY <2>2 DEF WindowSlides, ItemIfPending, NoItem
    <3>2. /\ \A i \in Jobs : i # j => item'[i] = item[i]
          /\ item'[j].tasks = item[j].tasks /\ StatusMove(j)
      BY <2>2 DEF StatusMove, WindowSlides, TypeOK, RolloutType
    <3> QED BY <2>2, <3>1, <3>2, EntryKept DEF WindowSlides
  <2> QED BY <1>10, <2>1, <2>2 DEF Clock
<1>11. ASSUME Restart \/ UNCHANGED vars  PROVE ListMove
  BY <1>0, <1>11 DEF ListMove, vars, centerVars, roVars
<1> QED BY <1>1, <1>2, <1>3, <1>4, <1>5, <1>6, <1>7, <1>8, <1>9, <1>10, <1>11
    DEF Next, CallerSends

\* A read of rows gives one copy of a task at most.
LEMMA ReadTasksOwn ==
  ASSUME NEW j \in Jobs, NEW ss
  PROVE  Own(j, ReadTasks(j, ss)) /\ Once(ReadTasks(j, ss))
BY DEF ReadTasks, Own, Once, TaskCopy, IdOf, StatusOf

\* What a step can do to the goroutine that sets up job j.
CreatingMove(j) ==
  \/ creating'[j] = creating[j]
  \/ creating'[j] = NotCreating /\ (PoolAdd(j) \/ Restart)
  \/ /\ creating'[j].pc = "insert" /\ creating'[j].tasks = {}
     /\ \E c \in Callers : CreateRead(c) /\ api[c].job = j
  \/ /\ creating'[j].pc = "find" /\ creating'[j].tasks = creating[j].tasks
     /\ PoolInsert(j)
  \/ PoolFind(j)

\* A step moves the set-up of a job in one of these ways only.
LEMMA EveryCreatingMove ==
  ASSUME TypeOK, [Next]_vars, NEW j \in Jobs
  PROVE  CreatingMove(j)
<1>0. ASSUME UNCHANGED creating  PROVE CreatingMove(j)
  BY <1>0 DEF CreatingMove
<1>1. ASSUME NEW c \in Callers, CreateRead(c)  PROVE CreatingMove(j)
  BY <1>1 DEF CreateRead, CreatingMove, TypeOK, PoolJobType
<1>2. ASSUME NEW c \in Callers, Request(c) \/ CallerStep(c) \/ CallerSends(c)
      PROVE  CreatingMove(j)
  BY <1>0, <1>1, <1>2
  DEF Request, CreateJob, UpdateJob, CancelJob, DeleteJob, CancelTask, DeleteTask,
      CallerStep, UpdateWrite, DeleteTasks, CallerContext, CallerCanceled,
      CallerSends, UpdateContext, CallerRemove, centerVars, poolJobVars
<1>3. ASSUME NEW i \in Jobs, PoolStep(i) \/ PoolAdd(i) \/ PoolDelJob(i)
      PROVE  CreatingMove(j)
  <2>1. CASE PoolInsert(i)
    <3>1. creating' = [creating EXCEPT ![i].pc = "find"]
      BY <2>1 DEF PoolInsert, CreateInsert
    <3> QED BY <2>1, <3>1 DEF CreatingMove, TypeOK, PoolJobType
  <2>2. CASE PoolFind(i)
    <3>1. i = j \/ creating'[j] = creating[j]
      BY <2>2 DEF PoolFind, CreateFind, TypeOK, PoolJobType
    <3> QED BY <2>2, <3>1 DEF CreatingMove
  <2>3. CASE PoolAdd(i)
    <3>1. creating' = [creating EXCEPT ![i] = NotCreating]
      BY <2>3 DEF PoolAdd, RoAdd
    <3> QED BY <2>3, <3>1 DEF CreatingMove, TypeOK, PoolJobType
  <2>4. CASE PoolDelJob(i)
    BY <1>0, <2>4 DEF PoolDelJob
  <2> QED BY <1>3, <2>1, <2>2, <2>3, <2>4 DEF PoolStep
<1>4. ASSUME Restart  PROVE CreatingMove(j)
  BY <1>4 DEF Restart, CreatingMove
<1>5. ASSUME \/ \E t \in Tasks : PoolDelTask(t)
             \/ RolloutStep \/ RolloutSends \/ LoopStep \/ LoopSends \/ LoopHears
             \/ \E e \in inflight : WorkerSends(e)
             \/ WatchWrites \/ WatchSends \/ CheckStep \/ CheckSends \/ Clock
             \/ \E th \in DirectThings : Presence(th)
             \/ UNCHANGED vars
      PROVE  creating' = creating
  BY <1>5
  DEF PoolDelTask, RolloutStep, RolloutLocal, RolloutWritesJob, RolloutFinishes,
      RolloutWritesTasks, RolloutWritesContext, RolloutSends, RolloutFrame,
      LoopStep, LoopLocal, LoopToPool, LoopSends, LoopHears, WorkerSends, Presence,
      LoopFrame, WatchWrites, WatchSends, CheckStep, CheckLocal, CheckFinishes,
      CheckWritesContext, CheckSends, CheckFrame, Clock, vars, centerVars,
      poolJobVars
<1> QED BY <1>0, <1>2, <1>3, <1>4, <1>5 DEF Next

\* The tasks that the goroutine holds are the rows it has read.
LEMMA CreatingTasks ==
  ASSUME TypeOK, [Next]_vars, NEW j \in Jobs
  PROVE  creating'[j].tasks \in {creating[j].tasks, {}, ReadTasks(j, TaskStatus)}
<1>1. CASE PoolFind(j)
  BY <1>1 DEF PoolFind, CreateFind, TypeOK, PoolJobType
<1>2. CASE ~PoolFind(j)
  BY <1>2, EveryCreatingMove DEF CreatingMove, NotCreating
<1> QED BY <1>1, <1>2

\* The chunk on its way to the runner is of the job that is rolled out.
LEMMA ChunkStep ==
  ASSUME TypeOK, ItemsOwn, ChunkOwn, [Next]_vars
  PROVE  ChunkOwn'
<1>0. ASSUME UNCHANGED <<pending, roPc, roI, roChunk>>  PROVE ChunkOwn'
  BY <1>0 DEF ChunkOwn
<1>1. ASSUME roPc # "put", roPc' # "put", UNCHANGED roChunk  PROVE ChunkOwn'
  BY <1>1 DEF ChunkOwn
<1>2. ASSUME NEW c \in Callers, Request(c) \/ CallerStep(c)  PROVE ChunkOwn'
  BY <1>0, <1>2, ZenonT(40)
  DEF Request, CreateJob, UpdateJob, CancelJob, DeleteJob, CancelTask, DeleteTask,
      CallerStep, CreateRead, UpdateWrite, DeleteTasks, CallerContext,
      CallerCanceled, centerVars, roVars
<1>3. ASSUME NEW c \in Callers, CallerSends(c)  PROVE ChunkOwn'
  BY <1>1, <1>3
  DEF CallerSends, UpdateContext, RoUpdateContext, RoundStarts, CallerRemove, RoRemove
<1>4. ASSUME NEW j \in Jobs, PoolStep(j) \/ PoolAdd(j) \/ PoolDelJob(j)
      PROVE  ChunkOwn'
  BY <1>0, <1>1, <1>4
  DEF PoolStep, PoolInsert, PoolFind, PoolDelJob, PoolAdd, RoAdd, RoundStarts, roVars
<1>5. ASSUME NEW t \in Tasks, PoolDelTask(t)  PROVE ChunkOwn'
  BY <1>0, <1>5 DEF PoolDelTask, roVars
<1>6. ASSUME RolloutStep \/ RolloutSends  PROVE ChunkOwn'
  <2>1. ASSUME NEW j \in Jobs, RoSet(j)  PROVE ChunkOwn'
    BY <1>1, <2>1 DEF RoSet, ChunkOwn, ItemsOwn, Own
  <2>2. ASSUME NEW j \in Jobs, RoPut(j)  PROVE ChunkOwn'
    BY <2>2 DEF RoPut, RoundGoesOn, ChunkOwn
  <2>3. CASE RolloutLocal \/ RolloutWritesJob \/ RolloutFinishes \/ RolloutWritesTasks
    BY <1>1, <2>3
    DEF RolloutLocal, RolloutWritesJob, RolloutFinishes, RolloutWritesTasks,
        RoTick, RoundStarts, RoNotInTime, RoBeforeStart, RoundGoesOn,
        RoStopRollout, RoEndCancel, RoReload, RoInTime, RoEndJob, RoFinish,
        RoEndTasks
  <2>4. ASSUME NEW j \in Jobs, RoClear(j) \/ RoEndRunner(j)  PROVE ChunkOwn'
    BY <1>1, <2>4 DEF RoClear, RoEndRunner, RoundGoesOn
  <2> QED BY <1>6, <2>1, <2>2, <2>3, <2>4
      DEF RolloutStep, RolloutWritesContext, RolloutSends
<1>7. ASSUME \/ LoopStep \/ LoopSends \/ LoopHears
             \/ \E e \in inflight : WorkerSends(e)
             \/ \E th \in DirectThings : Presence(th)
             \/ WatchWrites \/ WatchSends \/ CheckStep \/ Clock
             \/ UNCHANGED vars
      PROVE  ChunkOwn'
  BY <1>0, <1>7
  DEF LoopStep, LoopLocal, LoopToPool, LoopSends, LoopHears, WorkerSends,
      Presence, LoopFrame, WatchWrites, WatchSends, CheckStep, CheckLocal,
      CheckFinishes, CheckWritesContext, Clock, WindowSlides, vars, centerVars,
      roVars
<1>8. ASSUME CheckSends  PROVE ChunkOwn'
  BY <1>1, <1>8 DEF CheckSends, RoRemove
<1>9. ASSUME Restart  PROVE ChunkOwn'
  BY <1>9 DEF Restart, ChunkOwn
<1> QED BY <1>2, <1>3, <1>4, <1>5, <1>6, <1>7, <1>8, <1>9 DEF Next

\* The list names a job once, after its set-up; entries hold their own tasks.
LEMMA ListStep ==
  ASSUME SafetyInv, ListInv, [Next]_vars
  PROVE  ListInv'
<1>0. /\ TypeOK /\ SetUpOnce /\ RowsUsed /\ PendingOnce /\ PendingBegun
      /\ ItemIfPending /\ ItemsOwn /\ ChunkOwn
  BY DEF SafetyInv, ListInv
<1>1. RowsUsed' /\ ChunkOwn'
  BY <1>0, RowsUsedStep, ChunkStep
<1>2. \A j \in Jobs : Begun(j) => Begun(j)'
  BY <1>0, BegunStays
<1>3. \A j \in Jobs : Own(j, creating'[j].tasks) /\ Once(creating'[j].tasks)
  BY <1>0, CreatingTasks, ReadTasksOwn DEF ItemsOwn, Own, Once
<1> SUFFICES /\ PendingOnce' /\ PendingBegun' /\ ItemIfPending'
             /\ \A j \in Jobs : Own(j, item'[j].tasks) /\ Once(item'[j].tasks)
  BY <1>1, <1>3 DEF ListInv, ItemsOwn
<1>4. CASE ListKept
  <2>1. PendingOnce' /\ \A j \in Jobs : IsPending(j)' <=> IsPending(j)
    BY <1>0, <1>4 DEF ListKept, PendingOnce, IsPending
  <2>2. PendingBegun' /\ ItemIfPending'
    BY <1>0, <1>2, <1>4, <2>1 DEF ListKept, PendingBegun, ItemIfPending
  <2>3. \A j \in Jobs : Own(j, item'[j].tasks) /\ Once(item'[j].tasks)
    BY <1>0, <1>4 DEF ListKept, ItemsOwn, Own, Once
  <2> QED BY <2>1, <2>2, <2>3
<1>5. ASSUME NEW i \in DOMAIN pending, RoTakeOut(i)
      PROVE  /\ PendingOnce' /\ PendingBegun' /\ ItemIfPending'
             /\ \A j \in Jobs : Own(j, item'[j].tasks) /\ Once(item'[j].tasks)
  <2>1. PendingOnce' /\ \A j \in Jobs : IsPending(j)' <=> IsPending(j) /\ j # pending[i]
    BY <1>0, <1>5, TakeOutList
  <2>2. \A j \in Jobs : item'[j] = IF j = pending[i] THEN NoItem ELSE item[j]
    BY <1>0, <1>5 DEF RoTakeOut, TypeOK, RolloutType
  <2>3. PendingBegun' /\ ItemIfPending'
    BY <1>0, <1>2, <2>1, <2>2 DEF PendingBegun, ItemIfPending
  <2>4. \A j \in Jobs : Own(j, item'[j].tasks) /\ Once(item'[j].tasks)
    BY <1>0, <2>2 DEF ItemsOwn, Own, Once, NoItem
  <2> QED BY <2>1, <2>3, <2>4
<1>6. ASSUME NEW j \in Jobs, PoolAdd(j)
      PROVE  /\ PendingOnce' /\ PendingBegun' /\ ItemIfPending'
             /\ \A i \in Jobs : Own(i, item'[i].tasks) /\ Once(item'[i].tasks)
  <2>1. creating[j].pc = "add" /\ pending' = Append(pending, j) /\ UNCHANGED <<api, fresh>>
    BY <1>6 DEF PoolAdd, RoAdd, apiVars
  <2>2. PendingOnce' /\ \A i \in Jobs : IsPending(i)' <=> IsPending(i) \/ i = j
    BY <1>0, <2>1, AppendList DEF PendingBegun, Begun
  <2>3. Begun(j)'
    <3>1. creating'[j].pc = "none"
      BY <1>0, <1>6 DEF PoolAdd, RoAdd, NotCreating, TypeOK, PoolJobType
    <3>2. j \notin fresh /\ \A c \in Callers : ~Creates(c, j)
      BY <1>0, <2>1 DEF SetUpOnce
    <3> QED BY <2>1, <3>1, <3>2 DEF Begun, Creates
  <2>4. /\ \A i \in Jobs : i # j => item'[i] = item[i]
        /\ item'[j].tasks = creating[j].tasks
    BY <1>0, <1>6 DEF PoolAdd, RoAdd, TypeOK, RolloutType
  <2>5. PendingBegun' /\ ItemIfPending'
    BY <1>0, <1>2, <2>2, <2>3, <2>4 DEF PendingBegun, ItemIfPending
  <2>6. \A i \in Jobs : Own(i, item'[i].tasks) /\ Once(item'[i].tasks)
    BY <1>0, <2>4 DEF ItemsOwn
  <2> QED BY <2>2, <2>5, <2>6
<1>7. ASSUME NEW j \in Jobs, RoReload(j)
      PROVE  /\ PendingOnce' /\ PendingBegun' /\ ItemIfPending'
             /\ \A i \in Jobs : Own(i, item'[i].tasks) /\ Once(item'[i].tasks)
  <2>1. IsPending(j)
    BY <1>0, <1>7, WorksOnPending DEF RoReload
  <2>2. PendingOnce' /\ \A i \in Jobs : IsPending(i)' <=> IsPending(i)
    BY <1>0, <1>7 DEF RoReload, PendingOnce, IsPending
  <2>3. /\ \A i \in Jobs : i # j => item'[i] = item[i]
        /\ item'[j].tasks = ReadTasks(j, {"SENT", "IN_PROGRESS"})
    BY <1>0, <1>7 DEF RoReload, TypeOK, RolloutType
  <2>4. PendingBegun' /\ ItemIfPending'
    BY <1>0, <1>2, <2>1, <2>2, <2>3 DEF PendingBegun, ItemIfPending
  <2>5. \A i \in Jobs : Own(i, item'[i].tasks) /\ Once(item'[i].tasks)
    BY <1>0, <2>3, ReadTasksOwn DEF ItemsOwn
  <2> QED BY <2>2, <2>4, <2>5
<1>8. CASE Restart
  <2>1. PendingOnce' /\ \A j \in Jobs : IsPending(j)' <=> j \in PendingRows /\ OpenTasks(j) # {}
    BY <1>0, <1>8, RestartList
  <2>2. \A j \in Jobs : IF j \in PendingRows /\ OpenTasks(j) # {}
                        THEN item'[j].tasks = OpenTasks(j) ELSE item'[j] = NoItem
    BY <1>8 DEF Restart
  <2>3. PendingBegun'
    <3>1. ASSUME NEW j \in Jobs, j \in PendingRows  PROVE Begun(j)'
      BY <1>0, <1>8, <3>1 DEF Restart, PendingRows, RowsUsed, NoRow, Begun, Creates,
                              NotCreating, Idle
    <3> QED BY <2>1, <3>1 DEF PendingBegun
  <2>4. ItemIfPending'
    BY <2>1, <2>2 DEF ItemIfPending
  <2>5. \A j \in Jobs : Own(j, item'[j].tasks) /\ Once(item'[j].tasks)
    BY <2>2, ReadTasksOwn DEF OpenTasks, NoItem, Own, Once
  <2> QED BY <2>1, <2>3, <2>4, <2>5
<1> QED BY <1>0, <1>4, <1>5, <1>6, <1>7, <1>8, EveryListMove DEF ListMove

-----------------------------------------------------------------------------
(* The runner.                                                             *)

\* What sysOpTaskLoop gets, it gets from rolloutLoop.
LEMMA RunnerGets ==
  ASSUME TypeOK, HandInv, [Next]_vars
  PROVE  /\ HandInv'
         /\ (curQ' \union offline' \union hand') \subseteq
               (curQ \union offline \union hand \union roChunk)
<1> DEFINE Got == /\ HandInv'
                  /\ (curQ' \union offline' \union hand') \subseteq
                        (curQ \union offline \union hand \union roChunk)
<1>0. ASSUME UNCHANGED loopVars  PROVE Got
  BY <1>0 DEF loopVars, HandInv
<1>1. ASSUME NEW c \in Callers, Request(c) \/ CallerStep(c) \/ CallerSends(c)  PROVE Got
  <2>1. UNCHANGED loopVars
    BY <1>1
    DEF Request, CreateJob, UpdateJob, CancelJob, DeleteJob, CancelTask, DeleteTask,
        CallerStep, CreateRead, UpdateWrite, DeleteTasks, CallerContext,
        CallerCanceled, CallerSends, UpdateContext, CallerRemove, runnerVars
  <2> QED BY <1>0, <2>1
<1>2. ASSUME NEW j \in Jobs, PoolStep(j) \/ PoolAdd(j)  PROVE Got
  BY <1>0, <1>2 DEF PoolStep, PoolInsert, PoolFind, PoolAdd, runnerVars
<1>3. ASSUME NEW j \in Jobs, PoolDelJob(j)  PROVE Got
  BY <1>3 DEF PoolDelJob, LoopDelJob, HandInv
<1>4. ASSUME NEW t \in Tasks, PoolDelTask(t)  PROVE Got
  BY <1>4 DEF PoolDelTask, LoopDelTask, HandInv
<1>5. ASSUME RolloutStep  PROVE Got
  BY <1>0, <1>5 DEF RolloutStep, RolloutLocal, RolloutWritesJob, RolloutFinishes,
                    RolloutWritesTasks, RolloutWritesContext
<1>6. ASSUME RolloutSends  PROVE Got
  BY <1>6 DEF RolloutSends, LoopDelJob, LoopAdd, HandInv
<1>7. ASSUME LoopLocal  PROVE Got
  BY <1>7 DEF LoopLocal, LoopTick, LoopTurnEnds, LoopPop, LoopPark, HandInv, Tops
<1>8. ASSUME LoopToPool  PROVE Got
  BY <1>8 DEF LoopToPool, LoopSubmit, LoopPoolFull, HandInv
<1>9. ASSUME LoopSends  PROVE Got
  BY <1>9 DEF LoopSends, LoopReportSent, HandInv
<1>10. ASSUME LoopHears  PROVE Got
  BY <1>10 DEF LoopHears, LoopConnected, HandInv
<1>11. ASSUME \/ \E e \in inflight : WorkerSends(e)
              \/ \E th \in DirectThings : Presence(th)
              \/ WatchWrites \/ WatchSends \/ CheckStep \/ CheckSends \/ Clock
              \/ UNCHANGED vars
       PROVE  Got
  <2>1. UNCHANGED loopVars
    BY <1>11
    DEF WorkerSends, Presence, WatchWrites, WatchSends, CheckStep, CheckLocal,
        CheckFinishes, CheckWritesContext, CheckSends, CheckFrame, Clock, vars,
        runnerVars
  <2> QED BY <1>0, <2>1
<1>12. ASSUME Restart  PROVE Got
  BY <1>12 DEF Restart, HandInv
<1> HIDE DEF Got
<1>13. Got
  BY <1>1, <1>2, <1>3, <1>4, <1>5, <1>6, <1>7, <1>8, <1>9, <1>10, <1>11, <1>12
  DEF Next, LoopStep
<1> QED BY <1>13 DEF Got

\* What is executed was taken by the loop, and what is reported was executed.
LEMMA ReportsFrom ==
  ASSUME TypeOK, [Next]_vars, NEW e \in inflight' \union watchMsg'
  PROVE  \/ \E f \in inflight \union watchMsg : f[1] = e[1]
         \/ \E m \in hand : IdOf(m) = e[1]
<1> DEFINE From == \/ \E f \in inflight \union watchMsg : f[1] = e[1]
                   \/ \E m \in hand : IdOf(m) = e[1]
<1>0. ASSUME inflight' \subseteq inflight, watchMsg' \subseteq watchMsg  PROVE From
  BY <1>0
<1>1. ASSUME LoopToPool  PROVE From
  <2>1. PICK m \in hand : LoopSubmit(m) \/ LoopPoolFull(m)
    BY <1>1 DEF LoopToPool
  <2>2. watchMsg' = watchMsg
    BY <1>1 DEF LoopToPool, watchVars
  <2>3. CASE LoopPoolFull(m)
    BY <1>0, <2>2, <2>3 DEF LoopPoolFull, poolVars
  <2>4. CASE LoopSubmit(m)
    <3>1. inflight' = inflight \union {<<IdOf(m), execs[IdOf(m)] + 1>>}
      BY <2>4 DEF LoopSubmit
    <3> QED BY <2>2, <3>1
  <2> QED BY <2>1, <2>3, <2>4
<1>2. ASSUME LoopSends  PROVE From
  <2>1. PICK m \in hand : LoopReportSent(m)
    BY <1>2 DEF LoopSends
  <2>2. inflight' = inflight /\ watchMsg' = {<<IdOf(m), "SENT">>}
    BY <1>2, <2>1 DEF LoopSends, poolVars, LoopReportSent
  <2> QED BY <2>2
<1>3. ASSUME NEW f \in inflight, WorkerSends(f)  PROVE From
  <2>1. PICK s \in TaskStatus : WorkerReport(f, s)
    BY <1>3 DEF WorkerSends
  <2>2. inflight' = inflight \ {f} /\ watchMsg' = {<<f[1], s>>}
    BY <2>1 DEF WorkerReport
  <2> QED BY <2>2
<1>4. ASSUME NEW c \in Callers, Request(c) \/ CallerStep(c) \/ CallerSends(c)  PROVE From
  <2>1. UNCHANGED <<poolVars, watchVars>>
    BY <1>4
    DEF Request, CreateJob, UpdateJob, CancelJob, DeleteJob, CancelTask, DeleteTask,
        CallerStep, CreateRead, UpdateWrite, DeleteTasks, CallerContext,
        CallerCanceled, CallerSends, UpdateContext, CallerRemove, runnerVars
  <2> QED BY <1>0, <2>1 DEF poolVars, watchVars
<1>5. ASSUME \/ \E j \in Jobs : PoolStep(j) \/ PoolAdd(j) \/ PoolDelJob(j)
             \/ \E t \in Tasks : PoolDelTask(t)
             \/ RolloutStep \/ RolloutSends \/ LoopLocal \/ LoopHears
      PROVE  From
  BY <1>0, <1>5
  DEF PoolStep, PoolInsert, PoolFind, PoolAdd, PoolDelJob, PoolDelTask, RolloutStep,
      RolloutLocal, RolloutWritesJob, RolloutFinishes, RolloutWritesTasks,
      RolloutWritesContext, RolloutSends, RolloutFrame, LoopLocal, LoopHears,
      runnerVars, poolVars, watchVars
<1>6. ASSUME \/ WatchWrites \/ WatchSends \/ CheckStep \/ CheckSends \/ Clock \/ Restart
             \/ \E th \in DirectThings : Presence(th)
             \/ UNCHANGED vars
      PROVE  From
  BY <1>0, <1>6
  DEF WatchWrites, WatchUpdate, WatchSends, WatchOut, CheckStep, CheckLocal,
      CheckFinishes, CheckWritesContext, CheckSends, CheckFrame, Clock, Restart,
      Presence, vars, runnerVars, poolVars, watchVars
<1> HIDE DEF From
<1>7. From
  BY <1>1, <1>2, <1>3, <1>4, <1>5, <1>6 DEF Next, LoopStep
<1> QED BY <1>7 DEF From

\* Which steps are of the check of finished jobs.
LEMMA CheckMove ==
  ASSUME [Next]_vars
  PROVE  \/ UNCHANGED ckVars
         \/ CheckLocal \/ CheckFinishes \/ CheckWritesContext \/ CheckSends
         \/ WatchSends \/ Restart
<1>1. ASSUME NEW c \in Callers, Request(c) \/ CallerStep(c) \/ CallerSends(c)
      PROVE  UNCHANGED ckVars
  BY <1>1
  DEF Request, CreateJob, UpdateJob, CancelJob, DeleteJob, CancelTask, DeleteTask,
      CallerStep, CreateRead, UpdateWrite, DeleteTasks, CallerContext,
      CallerCanceled, CallerSends, UpdateContext, CallerRemove, centerVars
<1>2. ASSUME \/ \E i \in Jobs : PoolStep(i) \/ PoolAdd(i) \/ PoolDelJob(i)
             \/ \E t \in Tasks : PoolDelTask(t)
             \/ RolloutStep \/ RolloutSends \/ LoopStep \/ LoopSends \/ LoopHears
             \/ \E e \in inflight : WorkerSends(e)
             \/ WatchWrites \/ Clock
             \/ \E th \in DirectThings : Presence(th)
             \/ UNCHANGED vars
      PROVE  UNCHANGED ckVars
  BY <1>2
  DEF PoolStep, PoolInsert, PoolFind, PoolAdd, PoolDelJob, PoolDelTask, RolloutStep,
      RolloutLocal, RolloutWritesJob, RolloutFinishes, RolloutWritesTasks,
      RolloutWritesContext, RolloutSends, RolloutFrame, LoopStep, LoopLocal,
      LoopToPool, LoopSends, LoopHears, WorkerSends, Presence, LoopFrame,
      WatchWrites, Clock, vars, centerVars
<1> QED BY <1>1, <1>2 DEF Next, CheckStep

\* A job is checked because a task of it was reported.
LEMMA ChecksFrom ==
  ASSUME TypeOK, [Next]_vars, NEW j \in checkJobs' \union ckTodo' \union ckJob'
  PROVE  \/ j \in checkJobs \union ckTodo \union ckJob
         \/ \E e \in watchMsg : JobOf[e[1]] = j
<1>1. CASE WatchSends
  BY <1>1 DEF WatchSends, CkReceive
<1>2. CASE CheckStep
  BY <1>2 DEF CheckStep, CheckLocal, CheckFinishes, CheckWritesContext, CkTick,
              CkCount, CkGet, CkFinish, CkContext
<1>3. CASE CheckSends
  BY <1>3 DEF CheckSends, CkRemove
<1>4. CASE Restart
  BY <1>4 DEF Restart
<1>5. CASE UNCHANGED ckVars
  BY <1>5 DEF ckVars
<1> QED BY <1>1, <1>2, <1>3, <1>4, <1>5, CheckMove DEF CheckStep

-----------------------------------------------------------------------------
(* The invariant.                                                          *)

\* At the start nothing is handed over.
LEMMA HandoverInit == Init => HandoverInv
<1> SUFFICES ASSUME Init  PROVE HandoverInv
  OBVIOUS
<1>1. SafetyInv
  BY SafetyInit
<1>2. ListInv
  BY DEF Init, CenterInit, ListInv, RowsUsed, PendingOnce, PendingBegun,
         ItemIfPending, ItemsOwn, ChunkOwn, IsPending, Own, Once, NoItem,
         NotCreating, NoRow
<1>3. RunnerInv
  BY DEF Init, RunnerInit, CenterInit, RunnerInv, HandInv, RunnerBegun,
         ReportsBegun, ChecksBegun
<1> QED BY <1>1, <1>2, <1>3 DEF HandoverInv

\* Every step keeps the invariant.
LEMMA HandoverNext == HandoverInv /\ [Next]_vars => HandoverInv'
<1> SUFFICES ASSUME HandoverInv, [Next]_vars  PROVE HandoverInv'
  OBVIOUS
<1>0. /\ SafetyInv /\ TypeOK /\ SetUpOnce /\ ListInv /\ PendingBegun /\ ChunkOwn
      /\ HandInv /\ RunnerBegun /\ ReportsBegun /\ ChecksBegun
  BY DEF HandoverInv, SafetyInv, ListInv, RunnerInv
<1>1. SafetyInv' /\ ListInv' /\ TypeOK'
  BY <1>0, SafetyNext, ListStep DEF SafetyInv
<1>2. \A j \in Jobs : Begun(j) => Begun(j)'
  BY <1>0, BegunStays
<1>3. JobOf \in [Tasks -> Jobs]
  BY RepoAssumption
<1>4. \A m \in roChunk : Begun(JobOfCopy(m))
  <2>1. CASE roPc = "put"
    <3>1. pending[roI] \in Jobs /\ IsPending(pending[roI])
      BY <1>0, <2>1, WorksOnPending
    <3> QED BY <1>0, <2>1, <3>1 DEF ChunkOwn, Own, PendingBegun
  <2>2. CASE roPc # "put"
    BY <1>0, <2>2 DEF ChunkOwn
  <2> QED BY <2>1, <2>2
<1>5. \A m \in curQ \union offline \union hand \union roChunk : JobOfCopy(m) \in Jobs
  BY <1>0, <1>3 DEF TypeOK, LoopType, RolloutType, TaskCopy, JobOfCopy
<1>6. HandInv' /\ RunnerBegun'
  BY <1>0, <1>2, <1>4, <1>5, RunnerGets DEF RunnerBegun
<1>7. ReportsBegun'
  <2> SUFFICES ASSUME NEW e \in inflight' \union watchMsg'  PROVE Begun(JobOf[e[1]])'
    BY DEF ReportsBegun
  <2>1. e[1] \in Tasks /\ JobOf[e[1]] \in Jobs
    BY <1>1, <1>3 DEF TypeOK, PoolType, WatchType
  <2>2. Begun(JobOf[e[1]])
    BY <1>0, ReportsFrom DEF ReportsBegun, RunnerBegun, JobOfCopy, IdOf
  <2> QED BY <1>2, <2>1, <2>2
<1>8. ChecksBegun'
  <2> SUFFICES ASSUME NEW j \in checkJobs' \union ckTodo' \union ckJob'
               PROVE  Begun(j)'
    BY DEF ChecksBegun
  <2>1. j \in Jobs
    BY <1>1 DEF TypeOK, CheckType
  <2>2. Begun(j)
    BY <1>0, ChecksFrom DEF ChecksBegun, ReportsBegun
  <2> QED BY <1>2, <2>1, <2>2
<1> QED BY <1>1, <1>6, <1>7, <1>8 DEF HandoverInv, RunnerInv
=============================================================================

-------------------------- MODULE JobCustodyProofs --------------------------
(***************************************************************************)
(* A task is in one hand at a time: the entry of its job in the pending    *)
(* list, the chunk on its way, the queue, the parked tasks or the loop.    *)
(* From this: the queue has no entry twice, and a task is given to the     *)
(* worker pool at most once in the life of a process.                      *)
(***************************************************************************)
EXTENDS JobHandoverProofs

\* Four sets of copies that hold no task twice, neither one nor two of them.
Sole(R, Q, O, H) ==
  /\ Once(R) /\ Once(Q) /\ Once(O) /\ Once(H)
  /\ Apart(R, Q) /\ Apart(R, O) /\ Apart(R, H)
  /\ Apart(Q, O) /\ Apart(Q, H) /\ Apart(O, H)

\* What left the pending list, and what is in it.
RunnerSole == Sole(roChunk, curQ, offline, hand)
ItemApart ==
  \A j \in Jobs : /\ Apart(item[j].tasks, roChunk) /\ Apart(item[j].tasks, curQ)
                  /\ Apart(item[j].tasks, offline) /\ Apart(item[j].tasks, hand)

\* The schedule's cancel reads the tasks that were sent back into the entry
\* after the runner has dropped all tasks of the job.
Ending == roPc \in {"endTasks", "endJob", "reload"}
Purged == Ending => \A m \in curQ \union offline \union hand :
                      JobOfCopy(m) # pending[roI]
EndStatus == roPc = "endRunner" \/ Ending => item[pending[roI]].status = "CANCELED"

CustodyInv == HandoverInv /\ RunnerSole /\ ItemApart /\ Purged /\ EndStatus

-----------------------------------------------------------------------------
(* How copies move.                                                        *)

\* Fewer copies are still in one hand each.
LEMMA SoleShrinks ==
  ASSUME NEW R, NEW Q, NEW O, NEW H, NEW R1 \in SUBSET R, NEW Q1 \in SUBSET Q,
         NEW O1 \in SUBSET O, NEW H1 \in SUBSET H, Sole(R, Q, O, H)
  PROVE  Sole(R1, Q1, O1, H1)
BY DEF Sole, Once, Apart

\* Where every hand keeps what it had or less, custody stays.
LEMMA CustodyShrinks ==
  ASSUME RunnerSole, ItemApart, roChunk' \subseteq roChunk, curQ' \subseteq curQ,
         offline' \subseteq offline, hand' \subseteq hand,
         \A j \in Jobs : item'[j].tasks \subseteq item[j].tasks
  PROVE  RunnerSole' /\ ItemApart'
<1>1. RunnerSole'
  BY SoleShrinks DEF RunnerSole
<1>2. ItemApart'
  BY DEF ItemApart, Apart
<1> QED BY <1>1, <1>2

\* A step that moves copies among the queue, the parked tasks and the loop.
LEMMA RunnerMoves ==
  ASSUME RunnerSole, ItemApart, UNCHANGED <<item, roChunk>>,
         Once(curQ') /\ Once(offline') /\ Once(hand'),
         Apart(curQ', offline') /\ Apart(curQ', hand') /\ Apart(offline', hand'),
         (curQ' \union offline' \union hand') \subseteq (curQ \union offline \union hand)
  PROVE  RunnerSole' /\ ItemApart'
<1>1. RunnerSole'
  BY DEF RunnerSole, Sole, Apart
<1>2. ItemApart'
  BY DEF ItemApart, Apart
<1> QED BY <1>1, <1>2

\* The steps of rolloutLoop.
LEMMA RolloutCustody ==
  ASSUME HandoverInv, RunnerSole, ItemApart, Purged, RolloutStep \/ RolloutSends,
         [Next]_vars
  PROVE  RunnerSole' /\ ItemApart'
<1>0. /\ TypeOK /\ ListInv /\ ItemIfPending /\ ChunkOwn /\ ItemsOwn /\ PendingOnce
      /\ ItemsOwn' /\ TypeOK'
  BY HandoverNext DEF HandoverInv, SafetyInv, ListInv
<1>1. ASSUME NEW j \in Jobs, RoSet(j), UNCHANGED loopVars
      PROVE  RunnerSole' /\ ItemApart'
  <2>1. roChunk = {} /\ UNCHANGED <<curQ, offline, hand>>
    BY <1>0, <1>1 DEF RoSet, ChunkOwn, loopVars
  <2>2. CASE roChunk' = roChunk /\ item' = item
    BY <2>1, <2>2, CustodyShrinks
  <2>3. CASE ~(roChunk' = roChunk /\ item' = item)
    <3>1. PICK chunk \in SUBSET item[j].tasks :
            /\ roChunk' = chunk
            /\ item' = [item EXCEPT ![j].tasks = @ \ chunk]
      BY <1>1, <2>3 DEF RoSet
    <3>2. /\ item'[j].tasks = item[j].tasks \ chunk
          /\ \A i \in Jobs : i # j => item'[i] = item[i]
      BY <1>0, <3>1 DEF TypeOK, RolloutType
    <3>3. RunnerSole'
      BY <1>0, <2>1, <3>1 DEF RunnerSole, Sole, Once, Apart, ItemApart, ItemsOwn
    <3>4. ItemApart'
      <4>1. \A i \in Jobs : Apart(item'[i].tasks, chunk)
        BY <1>0, <3>1, <3>2 DEF Apart, ItemsOwn, Own, Once, JobOfCopy, IdOf
      <4> QED BY <2>1, <3>1, <3>2, <4>1 DEF ItemApart, Apart
    <3> QED BY <3>3, <3>4
  <2> QED BY <2>2, <2>3
<1>2. ASSUME NEW j \in Jobs, RoPut(j), LoopAdd(roChunk)
      PROVE  RunnerSole' /\ ItemApart'
  <2>1. /\ roChunk' = {} /\ curQ' = curQ \union roChunk /\ UNCHANGED <<offline, hand>>
    BY <1>2 DEF RoPut, LoopAdd
  <2>2. \A i \in Jobs : item'[i].tasks \subseteq item[i].tasks
    <3>1. roI \in DOMAIN pending /\ pending[roI] = j
      BY <1>0, <1>2, WorksOnPending DEF RoPut
    <3>2. CASE RoTakeOut(roI)
      BY <1>0, <3>1, <3>2 DEF RoTakeOut, NoItem, TypeOK, RolloutType
    <3>3. CASE ~RoTakeOut(roI)
      <4>1. item' = [item EXCEPT ![j].used = IF MaxPerMinute = 0 THEN 0
                                             ELSE @ + Cardinality(roChunk)]
        BY <1>2, <3>3 DEF RoPut
      <4>2. \A i \in Jobs : item'[i].tasks = item[i].tasks
        BY <1>0, <4>1 DEF TypeOK, RolloutType
      <4> QED BY <4>2
    <3> QED BY <3>2, <3>3
  <2>3. RunnerSole'
    BY <2>1 DEF RunnerSole, Sole, Once, Apart
  <2>4. ItemApart'
    BY <2>1, <2>2 DEF ItemApart, Apart
  <2> QED BY <2>3, <2>4
<1>3. ASSUME NEW j \in Jobs, RoEndRunner(j), LoopDelJob(j)
      PROVE  RunnerSole' /\ ItemApart'
  BY <1>3, CustodyShrinks DEF RoEndRunner, LoopDelJob
<1>4. ASSUME NEW j \in Jobs, RoReload(j), UNCHANGED loopVars
      PROVE  RunnerSole' /\ ItemApart'
  <2>1. /\ roChunk = {} /\ UNCHANGED <<roChunk, curQ, offline, hand>>
        /\ pending[roI] = j /\ roPc = "reload"
    BY <1>0, <1>4 DEF RoReload, ChunkOwn, loopVars
  <2>2. \A i \in Jobs : i # j => item'[i] = item[i]
    BY <1>0, <1>4 DEF RoReload, TypeOK, RolloutType
  <2>3. \A m \in item'[j].tasks : JobOfCopy(m) = j
    BY <1>0 DEF ItemsOwn, Own
  <2>4. \A m \in curQ \union offline \union hand : JobOfCopy(m) # j
    BY <2>1 DEF Purged, Ending
  <2>5. ItemApart'
    BY <2>1, <2>2, <2>3, <2>4 DEF ItemApart, Apart, JobOfCopy, IdOf
  <2> QED BY <2>1, <2>5 DEF RunnerSole
<1>5. ASSUME UNCHANGED <<roChunk, loopVars>>,
             \A j \in Jobs : item'[j].tasks \subseteq item[j].tasks
      PROVE  RunnerSole' /\ ItemApart'
  BY <1>5, CustodyShrinks DEF loopVars
<1>6. ASSUME NEW j \in Jobs, RoClear(j), UNCHANGED loopVars
      PROVE  RunnerSole' /\ ItemApart'
  <2>1. roI \in DOMAIN pending
    BY <1>0, <1>6, WorksOnPending DEF RoClear
  <2>2. \A i \in Jobs : item'[i].tasks \subseteq item[i].tasks
    BY <1>0, <1>6, <2>1 DEF RoClear, RoTakeOut, NoItem, TypeOK, RolloutType
  <2> QED BY <1>5, <1>6, <2>2 DEF RoClear
<1>7. ASSUME NEW j \in Jobs, RoStopRollout(j) \/ RoEndCancel(j) \/ RoInTime(j),
             UNCHANGED loopVars
      PROVE  RunnerSole' /\ ItemApart'
  <2>1. \A i \in Jobs : item'[i].tasks \subseteq item[i].tasks
    <3>1. CASE RoStopRollout(j)
      BY <1>0, <3>1 DEF RoStopRollout, OngoingTasks, TypeOK, RolloutType
    <3>2. CASE RoEndCancel(j)
      BY <1>0, <3>2 DEF RoEndCancel, TypeOK, RolloutType
    <3>3. CASE RoInTime(j)
      BY <1>0, <3>3 DEF RoInTime, OngoingTasks, TypeOK, RolloutType
    <3> QED BY <1>7, <3>1, <3>2, <3>3
  <2> QED BY <1>5, <1>7, <2>1 DEF RoStopRollout, RoEndCancel, RoInTime
<1>8. ASSUME UNCHANGED <<item, roChunk, loopVars>>
      PROVE  RunnerSole' /\ ItemApart'
  BY <1>5, <1>8
<1> QED BY <1>1, <1>2, <1>3, <1>4, <1>6, <1>7, <1>8
    DEF RolloutStep, RolloutLocal, RolloutWritesJob, RolloutFinishes,
        RolloutWritesTasks, RolloutWritesContext, RolloutSends, RoTick,
        RoNotInTime, RoBeforeStart, RoEndJob, RoFinish, RoEndTasks

\* The steps of sysOpTaskLoop.
LEMMA LoopCustody ==
  ASSUME HandoverInv, RunnerSole, ItemApart,
         LoopStep \/ LoopSends \/ LoopHears
  PROVE  RunnerSole' /\ ItemApart'
<1>0. TypeOK /\ HandInv /\ UNCHANGED <<item, roChunk>>
  BY DEF HandoverInv, SafetyInv, RunnerInv, LoopStep, LoopLocal, LoopToPool,
         LoopSends, LoopHears, LoopFrame, centerVars, roVars
<1>1. CASE LoopTick \/ LoopTurnEnds
  BY <1>0, <1>1, CustodyShrinks DEF LoopTick, LoopTurnEnds
<1>2. ASSUME NEW m \in Tops, LoopPop(m, ctx[JobOfCopy(m)])
      PROVE  RunnerSole' /\ ItemApart'
  <2>1. /\ hand = {} /\ m \in curQ /\ curQ' = curQ \ {m} /\ UNCHANGED offline
        /\ hand' \subseteq {m}
    BY <1>0, <1>2 DEF LoopPop, HandInv, Tops
  <2>2. Once(curQ') /\ Once(offline') /\ Once(hand')
    BY <2>1 DEF RunnerSole, Sole, Once
  <2>3. Apart(curQ', offline') /\ Apart(curQ', hand') /\ Apart(offline', hand')
    BY <2>1 DEF RunnerSole, Sole, Once, Apart
  <2> QED BY <1>0, <2>1, <2>2, <2>3, RunnerMoves
<1>3. ASSUME NEW m \in hand, LoopPark(m)
      PROVE  RunnerSole' /\ ItemApart'
  <2>1. offline' = offline \union {m} /\ hand' = {} /\ UNCHANGED curQ
    BY <1>3 DEF LoopPark
  <2>2. Once(curQ') /\ Once(offline') /\ Once(hand')
    BY <2>1 DEF RunnerSole, Sole, Once, Apart
  <2>3. Apart(curQ', offline') /\ Apart(curQ', hand') /\ Apart(offline', hand')
    BY <2>1 DEF RunnerSole, Sole, Apart
  <2> QED BY <1>0, <2>1, <2>2, <2>3, RunnerMoves
<1>4. ASSUME NEW m \in hand, LoopSubmit(m) \/ LoopReportSent(m)
      PROVE  RunnerSole' /\ ItemApart'
  BY <1>0, <1>4, CustodyShrinks DEF LoopSubmit, LoopReportSent
<1>5. ASSUME NEW m \in hand, LoopPoolFull(m)
      PROVE  RunnerSole' /\ ItemApart'
  <2>1. curQ' = curQ \union {m} /\ hand' = {} /\ UNCHANGED offline
    BY <1>5 DEF LoopPoolFull
  <2>2. Once(curQ') /\ Once(offline') /\ Once(hand')
    BY <2>1 DEF RunnerSole, Sole, Once, Apart
  <2>3. Apart(curQ', offline') /\ Apart(curQ', hand') /\ Apart(offline', hand')
    BY <2>1 DEF RunnerSole, Sole, Apart
  <2> QED BY <1>0, <2>1, <2>2, <2>3, RunnerMoves
<1>6. ASSUME NEW th \in Things, LoopConnected(th)
      PROVE  RunnerSole' /\ ItemApart'
  <2>1. PICK back \in SUBSET offline :
          /\ offline' = offline \ back /\ curQ' = curQ \union back /\ UNCHANGED hand
    BY <1>6 DEF LoopConnected
  <2>2. Once(curQ') /\ Once(offline') /\ Once(hand')
    BY <2>1 DEF RunnerSole, Sole, Once, Apart
  <2>3. Apart(curQ', offline') /\ Apart(curQ', hand') /\ Apart(offline', hand')
    BY <2>1 DEF RunnerSole, Sole, Once, Apart
  <2> QED BY <1>0, <2>1, <2>2, <2>3, RunnerMoves
<1> QED BY <1>1, <1>2, <1>3, <1>4, <1>5, <1>6
    DEF LoopStep, LoopLocal, LoopToPool, LoopSends, LoopHears

\* The pool goroutine hands the tasks of a job over; the runner has none of
\* them yet.
LEMMA AddCustody ==
  ASSUME HandoverInv, RunnerSole, ItemApart, NEW j \in Jobs, PoolAdd(j)
  PROVE  RunnerSole' /\ ItemApart'
<1>0. TypeOK /\ ItemsOwn /\ RunnerBegun /\ ChunkOwn
  BY DEF HandoverInv, SafetyInv, ListInv, RunnerInv
<1>1. /\ UNCHANGED <<roChunk, curQ, offline, hand>> /\ creating[j].pc = "add"
      /\ roPc = "select"
  BY DEF PoolAdd, RoAdd, runnerVars, loopVars
<1>2. /\ item'[j].tasks = creating[j].tasks
      /\ \A i \in Jobs : i # j => item'[i] = item[i]
  BY <1>0 DEF PoolAdd, RoAdd, TypeOK, RolloutType
<1>3. \A m \in curQ \union offline \union hand : JobOfCopy(m) # j
  BY <1>0, <1>1 DEF RunnerBegun, Begun
<1>4. \A m \in creating[j].tasks : JobOfCopy(m) = j
  BY <1>0 DEF ItemsOwn, Own
<1>5. roChunk = {}
  BY <1>0, <1>1 DEF ChunkOwn
<1>6. ItemApart'
  BY <1>1, <1>2, <1>3, <1>4, <1>5 DEF ItemApart, Apart, JobOfCopy, IdOf
<1> QED BY <1>1, <1>6 DEF RunnerSole

\* A task stays in one hand.
LEMMA CustodyStep ==
  ASSUME CustodyInv, [Next]_vars
  PROVE  RunnerSole' /\ ItemApart'
<1>0. /\ HandoverInv /\ RunnerSole /\ ItemApart /\ Purged /\ TypeOK
      /\ ItemIfPending /\ ChunkOwn
  BY DEF CustodyInv, HandoverInv, SafetyInv, ListInv
<1>a. ASSUME UNCHANGED <<item, roChunk, curQ, offline, hand>>
      PROVE  RunnerSole' /\ ItemApart'
  BY <1>0, <1>a, CustodyShrinks
<1>b. ASSUME NEW j, NEW force \in BOOLEAN, RoRemove(j, force), UNCHANGED loopVars
      PROVE  RunnerSole' /\ ItemApart'
  <2>1. \A i \in Jobs : item'[i].tasks \subseteq item[i].tasks
    <3>1. CASE UNCHANGED item
      BY <3>1
    <3>2. ASSUME NEW i \in DOMAIN pending, RoTakeOut(i)
          PROVE  \A k \in Jobs : item'[k].tasks \subseteq item[k].tasks
      BY <1>0, <3>2 DEF RoTakeOut, NoItem, TypeOK, RolloutType
    <3>3. ASSUME item' = [item EXCEPT ![j].tasks = OngoingTasks(item[j].tasks)]
          PROVE  \A k \in Jobs : item'[k].tasks \subseteq item[k].tasks
      BY <1>0, <3>3 DEF OngoingTasks, TypeOK, RolloutType
    <3> QED BY <1>b, <3>1, <3>2, <3>3 DEF RoRemove
  <2> QED BY <1>0, <1>b, <2>1, CustodyShrinks DEF RoRemove, loopVars
<1>1. ASSUME NEW c \in Callers, Request(c) \/ CallerStep(c)
      PROVE  RunnerSole' /\ ItemApart'
  <2>1. UNCHANGED <<roVars, loopVars>>
    BY <1>1
    DEF Request, CreateJob, UpdateJob, CancelJob, DeleteJob, CancelTask, DeleteTask,
        CallerStep, CreateRead, UpdateWrite, DeleteTasks, CallerContext,
        CallerCanceled, centerVars, runnerVars
  <2> QED BY <1>a, <2>1 DEF roVars, loopVars
<1>2. ASSUME NEW c \in Callers, UpdateContext(c)
      PROVE  RunnerSole' /\ ItemApart'
  <2>1. UNCHANGED <<roChunk, loopVars>> /\ api[c].job \in Jobs
    BY <1>0, <1>2 DEF UpdateContext, RoUpdateContext, runnerVars, TypeOK, ApiType
  <2>2. \A j \in Jobs : item'[j].tasks = item[j].tasks
    <3>1. CASE IsPending(api[c].job)
      BY <1>0, <1>2, <2>1, <3>1
      DEF UpdateContext, RoUpdateContext, TypeOK, RolloutType
    <3>2. CASE ~IsPending(api[c].job)
      BY <1>2, <3>2 DEF UpdateContext, RoUpdateContext
    <3> QED BY <3>1, <3>2
  <2> QED BY <1>0, <2>1, <2>2, CustodyShrinks DEF loopVars
<1>3. ASSUME NEW c \in Callers, CallerRemove(c)
      PROVE  RunnerSole' /\ ItemApart'
  BY <1>0, <1>b, <1>3 DEF CallerRemove, runnerVars, TypeOK, ApiType
<1>4. ASSUME NEW j \in Jobs, PoolStep(j) \/ PoolAdd(j) \/ PoolDelJob(j)
      PROVE  RunnerSole' /\ ItemApart'
  <2>1. CASE PoolAdd(j)
    BY <1>0, <2>1, AddCustody
  <2>2. CASE PoolStep(j)
    BY <1>a, <2>2 DEF PoolStep, PoolInsert, PoolFind, runnerVars, loopVars, roVars
  <2>3. CASE PoolDelJob(j)
    BY <1>0, <2>3, CustodyShrinks DEF PoolDelJob, LoopDelJob, roVars
  <2> QED BY <1>4, <2>1, <2>2, <2>3
<1>5. ASSUME NEW t \in Tasks, PoolDelTask(t)
      PROVE  RunnerSole' /\ ItemApart'
  BY <1>0, <1>5, CustodyShrinks DEF PoolDelTask, LoopDelTask, roVars
<1>6. CASE RolloutStep \/ RolloutSends
  BY <1>0, <1>6, RolloutCustody
<1>7. CASE LoopStep \/ LoopSends \/ LoopHears
  BY <1>0, <1>7, LoopCustody
<1>8. ASSUME \/ \E e \in inflight : WorkerSends(e)
             \/ \E th \in DirectThings : Presence(th)
             \/ WatchWrites \/ WatchSends \/ CheckStep
             \/ UNCHANGED vars
      PROVE  UNCHANGED <<roVars, loopVars>>
  BY <1>8
  DEF WorkerSends, Presence, LoopFrame, WatchWrites, WatchSends, CheckStep,
      CheckLocal, CheckFinishes, CheckWritesContext, CheckFrame, vars, centerVars,
      runnerVars
<1>9. CASE CheckSends
  BY <1>b, <1>9 DEF CheckSends, CheckFrame, runnerVars
<1>10. CASE Clock
  <2>1. ASSUME NEW j \in Jobs, WindowSlides(j)
        PROVE  \A i \in Jobs : item'[i].tasks = item[i].tasks
    BY <1>0, <2>1 DEF WindowSlides, TypeOK, RolloutType
  <2>2. /\ UNCHANGED <<roChunk, loopVars>>
        /\ \A i \in Jobs : item'[i].tasks = item[i].tasks
    BY <1>10, <2>1 DEF Clock, WindowSlides, roVars, runnerVars
  <2> QED BY <1>0, <2>2, CustodyShrinks DEF loopVars
<1>11. CASE Restart
  BY <1>11 DEF Restart, RunnerSole, Sole, ItemApart, Once, Apart
<1> QED BY <1>a, <1>1, <1>2, <1>3, <1>4, <1>5, <1>6, <1>7, <1>8, <1>9, <1>10, <1>11
    DEF Next, CallerSends, roVars, loopVars

\* rolloutLoop is in the middle of a cancel by the schedule only after the
\* runner has dropped the tasks of the job.
LEMMA EndingMove ==
  ASSUME HandoverInv, EndStatus, [Next]_vars,
         roPc' \in {"endRunner", "endTasks", "endJob", "reload"}
  PROVE  /\ item'[pending'[roI']].status = "CANCELED"
         /\ \/ roPc' = "endRunner"
            \/ Ending /\ pending'[roI'] = pending[roI]
            \/ LoopDelJob(pending'[roI'])
<1>0. TypeOK /\ ItemIfPending
  BY DEF HandoverInv, SafetyInv, ListInv
<1> DEFINE Ends == /\ item'[pending'[roI']].status = "CANCELED"
                   /\ \/ roPc' = "endRunner"
                      \/ Ending /\ pending'[roI'] = pending[roI]
                      \/ LoopDelJob(pending'[roI'])
<1>a. ASSUME UNCHANGED <<pending, roPc, roI>>,
             \A j \in Jobs : item'[j].status = item[j].status
      PROVE  Ends
  <2>1. roPc # "select"
    BY <1>a
  <2>2. pending[roI] \in Jobs
    BY <1>0, <2>1, WorksOnPending
  <2> QED BY <1>a, <2>2 DEF EndStatus, Ending
<1>b. ASSUME UNCHANGED roVars  PROVE Ends
  BY <1>a, <1>b DEF roVars
<1> HIDE DEF Ends
<1>1. ASSUME NEW c \in Callers, Request(c) \/ CallerStep(c)  PROVE Ends
  BY <1>b, <1>1
  DEF Request, CreateJob, UpdateJob, CancelJob, DeleteJob, CancelTask, DeleteTask,
      CallerStep, CreateRead, UpdateWrite, DeleteTasks, CallerContext,
      CallerCanceled, centerVars
<1>2. ASSUME NEW c \in Callers, CallerSends(c)  PROVE Ends
  BY <1>2
  DEF CallerSends, UpdateContext, RoUpdateContext, RoundStarts, CallerRemove, RoRemove
<1>3. ASSUME NEW j \in Jobs, PoolStep(j) \/ PoolAdd(j) \/ PoolDelJob(j)  PROVE Ends
  BY <1>b, <1>3 DEF PoolStep, PoolInsert, PoolFind, PoolDelJob, PoolAdd, RoAdd,
                    RoundStarts
<1>4. ASSUME NEW t \in Tasks, PoolDelTask(t)  PROVE Ends
  BY <1>b, <1>4 DEF PoolDelTask
<1>5. ASSUME RolloutStep \/ RolloutSends  PROVE Ends
  <2>1. ASSUME NEW j \in Jobs, RoEndCancel(j)  PROVE Ends
    BY <1>0, <2>1 DEF RoEndCancel, Ends, TypeOK, RolloutType
  <2>2. ASSUME NEW j \in Jobs, RoEndTasks(j) \/ RoEndJob(j)  PROVE Ends
    BY <2>2 DEF RoEndTasks, RoEndJob, Ends, EndStatus, Ending
  <2>3. ASSUME NEW j \in Jobs, RoEndRunner(j) /\ LoopDelJob(j)  PROVE Ends
    BY <2>3 DEF RoEndRunner, Ends, EndStatus
  <2>4. ASSUME NEW j \in Jobs,
               \/ RoNotInTime(j) \/ RoBeforeStart(j) \/ RoStopRollout(j)
               \/ RoReload(j) \/ RoInTime(j) \/ RoFinish(j) \/ RoClear(j)
               \/ RoSet(j) \/ RoPut(j)
        PROVE  Ends
    BY <2>4
    DEF RoNotInTime, RoBeforeStart, RoStopRollout, RoReload, RoInTime, RoFinish,
        RoClear, RoSet, RoPut, RoundGoesOn
  <2>5. CASE RoTick
    BY <2>5 DEF RoTick, RoundStarts
  <2> QED BY <1>5, <2>1, <2>2, <2>3, <2>4, <2>5
      DEF RolloutStep, RolloutLocal, RolloutWritesJob, RolloutFinishes,
          RolloutWritesTasks, RolloutWritesContext, RolloutSends
<1>6. ASSUME \/ LoopStep \/ LoopSends \/ LoopHears
             \/ \E e \in inflight : WorkerSends(e)
             \/ \E th \in DirectThings : Presence(th)
             \/ WatchWrites \/ WatchSends \/ CheckStep \/ UNCHANGED vars
      PROVE  UNCHANGED roVars
  BY <1>6
  DEF LoopStep, LoopLocal, LoopToPool, LoopSends, LoopHears, WorkerSends,
      Presence, LoopFrame, WatchWrites, WatchSends, CheckStep, CheckLocal,
      CheckFinishes, CheckWritesContext, vars, centerVars
<1>7. ASSUME CheckSends \/ Restart  PROVE Ends
  BY <1>7 DEF CheckSends, RoRemove, Restart
<1>8. ASSUME Clock  PROVE Ends
  <2>1. ASSUME NEW j \in Jobs, WindowSlides(j)  PROVE Ends
    <3>1. \A i \in Jobs : item'[i].status = item[i].status
      BY <1>0, <2>1 DEF WindowSlides, TypeOK, RolloutType
    <3> QED BY <1>a, <2>1, <3>1 DEF WindowSlides
  <2> QED BY <1>b, <1>8, <2>1 DEF Clock
<1>9. Ends
  BY <1>b, <1>1, <1>2, <1>3, <1>4, <1>5, <1>6, <1>7, <1>8 DEF Next
<1> QED BY <1>9 DEF Ends

\* The schedule's cancel tells the runner before it reads tasks again.
LEMMA PurgedStep ==
  ASSUME CustodyInv, [Next]_vars
  PROVE  Purged' /\ EndStatus'
<1>0. HandoverInv /\ Purged /\ EndStatus /\ TypeOK /\ HandInv /\ ChunkOwn
  BY DEF CustodyInv, HandoverInv, SafetyInv, ListInv, RunnerInv
<1>1. EndStatus'
  BY <1>0, EndingMove DEF EndStatus, Ending
<1>2. ASSUME Ending', NEW m \in curQ' \union offline' \union hand'
      PROVE  JobOfCopy(m) # pending'[roI']
  <2>1. CASE Ending /\ pending'[roI'] = pending[roI]
    <3>1. roChunk = {}
      BY <1>0, <2>1 DEF ChunkOwn, Ending
    <3>2. m \in curQ \union offline \union hand
      BY <1>0, <3>1, RunnerGets
    <3> QED BY <1>0, <2>1, <3>2 DEF Purged
  <2>2. CASE LoopDelJob(pending'[roI'])
    <3>1. hand' = {}
      BY <1>0, <2>2 DEF LoopDelJob, HandInv
    <3> QED BY <2>2, <3>1 DEF LoopDelJob, CopiesOf
  <2> QED BY <1>0, <1>2, <2>1, <2>2, EndingMove DEF Ending
<1>3. Purged'
  BY <1>2 DEF Purged
<1> QED BY <1>1, <1>3

\* At the start nobody holds a task.
LEMMA CustodyInit == Init => CustodyInv
<1> SUFFICES ASSUME Init  PROVE CustodyInv
  OBVIOUS
<1>1. HandoverInv
  BY HandoverInit
<1>2. RunnerSole /\ ItemApart /\ Purged /\ EndStatus
  BY DEF Init, RunnerInit, CenterInit, RunnerSole, ItemApart, Purged, EndStatus,
         Ending, Sole, Once, Apart
<1> QED BY <1>1, <1>2 DEF CustodyInv

\* Every step keeps the invariant.
LEMMA CustodyNext == CustodyInv /\ [Next]_vars => CustodyInv'
BY HandoverNext, CustodyStep, PurgedStep DEF CustodyInv

\* A list handed to the runner repeats no entry that the runner holds, and a
\* task is in the queue, parked or with the loop, never in two of them.
THEOREM NoEntryIsTwice == Spec => []NoEntryTwice
<1>1. CustodyInv => NoEntryTwice
  BY DEF CustodyInv, RunnerSole, Sole, Apart, NoEntryTwice
<1> QED BY <1>1, CustodyInit, CustodyNext, PTL DEF Spec

-----------------------------------------------------------------------------
(* Once per start.                                                         *)

\* The loop gives up every task of job j that it meets, and no one will set
\* the job's context to anything that lets them through again.
Stopped(j) ==
  /\ Begun(j)
  /\ ctx[j] = NoContext \/ IsJobToTerminal(ctx[j])
  /\ IsPending(j) => IsJobToTerminal(item[j].status)

\* The entry of j was filled with tasks that were sent already, and the
\* context that stops them is set before they leave the list.
Reloaded(j) == roPc = "set" /\ pending[roI] = j /\ item[j].status = "CANCELED"

\* A task that was given to the pool in this process is with no one who
\* could give it to the pool again.
NotYetBegun == \A t \in Tasks : ~Begun(JobOf[t]) => execs[t] = 0
ItemFresh == \A j \in Jobs : \A m \in item[j].tasks :
               execs[IdOf(m)] = 0 \/ Stopped(j) \/ Reloaded(j)
RunnerFresh == \A m \in roChunk \union curQ \union offline :
                 execs[IdOf(m)] = 0 \/ Stopped(JobOfCopy(m))
GateFresh == loopPc = "gate" => \A m \in hand : execs[IdOf(m)] = 0

ExecInv == /\ CustodyInv /\ ExecutedOncePerStart /\ NotYetBegun /\ ItemFresh
           /\ RunnerFresh /\ GateFresh

\* The context of a job is dropped, or set from its entry in the list.
LEMMA ContextMove ==
  ASSUME TypeOK, [Next]_vars, NEW j \in Jobs
  PROVE  \/ ctx'[j] \in {ctx[j], NoContext}
         \/ IsPending(j) /\ ctx'[j] = item[j].status
<1> DEFINE Moves == \/ ctx'[j] \in {ctx[j], NoContext}
                    \/ IsPending(j) /\ ctx'[j] = item[j].status
<1>a. ASSUME UNCHANGED ctx  PROVE Moves
  BY <1>a
<1>b. ASSUME NEW i, RemoveContext(i)  PROVE Moves
  BY <1>b DEF RemoveContext, TypeOK, CtxType
<1>c. ASSUME NEW i \in Jobs, IsPending(i), SetContext(i, item[i].status)  PROVE Moves
  BY <1>c DEF SetContext, TypeOK, CtxType
<1> HIDE DEF Moves
<1>1. ASSUME NEW c \in Callers, Request(c) \/ CallerStep(c)  PROVE Moves
  BY <1>a, <1>b, <1>1
  DEF Request, CreateJob, UpdateJob, CancelJob, DeleteJob, CancelTask, DeleteTask,
      CallerStep, CreateRead, UpdateWrite, DeleteTasks, CallerContext,
      CallerCanceled, centerVars
<1>2. ASSUME NEW c \in Callers, CallerSends(c)  PROVE Moves
  BY <1>a, <1>b, <1>c, <1>2
  DEF CallerSends, UpdateContext, RoUpdateContext, CallerRemove, RoRemove, TypeOK,
      ApiType
<1>3. ASSUME NEW i \in Jobs, PoolStep(i) \/ PoolAdd(i) \/ PoolDelJob(i)  PROVE Moves
  BY <1>a, <1>3 DEF PoolStep, PoolInsert, PoolFind, PoolDelJob, PoolAdd, RoAdd
<1>4. ASSUME NEW t \in Tasks, PoolDelTask(t)  PROVE Moves
  BY <1>a, <1>4 DEF PoolDelTask
<1>5. ASSUME RolloutWritesContext  PROVE Moves
  <2>1. ASSUME NEW i \in Jobs, RoClear(i)  PROVE Moves
    BY <1>a, <1>b, <2>1 DEF RoClear
  <2>2. ASSUME NEW i \in Jobs, RoSet(i)  PROVE Moves
    <3>1. IsPending(i)
      BY <2>2, WorksOnPending DEF RoSet
    <3> QED BY <1>a, <1>c, <2>2, <3>1 DEF RoSet
  <2> QED BY <1>5, <2>1, <2>2 DEF RolloutWritesContext
<1>6. ASSUME \/ RolloutLocal \/ RolloutWritesJob \/ RolloutFinishes
             \/ RolloutWritesTasks \/ RolloutSends
             \/ LoopStep \/ LoopSends \/ LoopHears
             \/ \E e \in inflight : WorkerSends(e)
             \/ \E th \in DirectThings : Presence(th)
             \/ WatchWrites \/ WatchSends \/ CheckLocal \/ CheckFinishes \/ Clock
             \/ UNCHANGED vars
      PROVE  UNCHANGED ctx
  BY <1>6
  DEF RolloutLocal, RolloutWritesJob, RolloutFinishes, RolloutWritesTasks,
      RolloutSends, LoopStep, LoopLocal, LoopToPool, LoopSends, LoopHears,
      WorkerSends, Presence, LoopFrame, WatchWrites, WatchSends, CheckLocal,
      CheckFinishes, Clock, vars, centerVars
<1>7. ASSUME CheckWritesContext \/ CheckSends  PROVE Moves
  BY <1>a, <1>b, <1>7 DEF CheckWritesContext, CkContext, CheckSends, RoRemove
<1>8. ASSUME Restart  PROVE Moves
  BY <1>8 DEF Restart, Moves
<1>9. Moves
  BY <1>a, <1>1, <1>2, <1>3, <1>4, <1>5, <1>6, <1>7, <1>8
  DEF Next, RolloutStep, CheckStep
<1> QED BY <1>9 DEF Moves

\* A job that is stopped stays so until the process is started again.
LEMMA StoppedStays ==
  ASSUME HandoverInv, [Next]_vars, ~Restart, NEW j \in Jobs, Stopped(j)
  PROVE  Stopped(j)'
<1>0. TypeOK /\ SetUpOnce /\ ItemIfPending /\ PendingOnce
  BY DEF HandoverInv, SafetyInv, ListInv
<1>1. Begun(j)'
  BY <1>0, BegunStays DEF Stopped
<1>2. ctx'[j] = NoContext \/ IsJobToTerminal(ctx'[j])
  BY <1>0, ContextMove DEF Stopped
<1>3. IsPending(j)' => IsJobToTerminal(item'[j].status)
  <2>1. CASE ListKept
    BY <2>1 DEF ListKept, StatusMove, IsPending, Stopped, IsJobToTerminal
  <2>2. ASSUME NEW i \in DOMAIN pending, RoTakeOut(i)
        PROVE  IsPending(j)' => IsJobToTerminal(item'[j].status)
    <3>1. IsPending(j)' => IsPending(j) /\ j # pending[i]
      BY <1>0, <2>2, TakeOutList
    <3>2. j # pending[i] => item'[j] = item[j]
      BY <1>0, <2>2 DEF RoTakeOut, TypeOK, RolloutType
    <3> QED BY <3>1, <3>2 DEF Stopped
  <2>3. ASSUME NEW i \in Jobs, PoolAdd(i)
        PROVE  IsPending(j)' => IsJobToTerminal(item'[j].status)
    <3>1. creating[i].pc = "add" /\ pending' = Append(pending, i)
      BY <2>3 DEF PoolAdd, RoAdd
    <3>2. i # j /\ ~IsPending(i)
      BY <3>1 DEF Stopped, Begun, HandoverInv, ListInv, PendingBegun
    <3>3. IsPending(j)' => IsPending(j)
      BY <1>0, <3>1, <3>2, AppendList
    <3>4. item'[j] = item[j]
      BY <1>0, <2>3, <3>2 DEF PoolAdd, RoAdd, TypeOK, RolloutType
    <3> QED BY <3>3, <3>4 DEF Stopped
  <2>4. ASSUME NEW i \in Jobs, RoReload(i)
        PROVE  IsPending(j)' => IsJobToTerminal(item'[j].status)
    <3>1. pending' = pending /\ item'[j].status = item[j].status
      BY <1>0, <2>4 DEF RoReload, TypeOK, RolloutType
    <3> QED BY <3>1 DEF Stopped, IsPending
  <2> QED BY <1>0, <2>1, <2>2, <2>3, <2>4, EveryListMove DEF ListMove
<1> QED BY <1>1, <1>2, <1>3 DEF Stopped

\* Only the pool counts executions.
LEMMA ExecMove ==
  ASSUME [Next]_vars, ~Restart
  PROVE  execs' = execs \/ \E m \in hand : LoopSubmit(m) /\ LoopFrame
<1> DEFINE Counts == execs' = execs \/ \E m \in hand : LoopSubmit(m) /\ LoopFrame
<1>a. ASSUME UNCHANGED execs  PROVE Counts
  BY <1>a
<1>b. ASSUME LoopToPool  PROVE Counts
  BY <1>b DEF LoopToPool, LoopPoolFull, LoopFrame, poolVars
<1> HIDE DEF Counts
<1>1. ASSUME NEW c \in Callers, Request(c) \/ CallerStep(c) \/ CallerSends(c)
      PROVE  Counts
  BY <1>a, <1>1
  DEF Request, CreateJob, UpdateJob, CancelJob, DeleteJob, CancelTask, DeleteTask,
      CallerStep, CreateRead, UpdateWrite, DeleteTasks, CallerContext,
      CallerCanceled, CallerSends, UpdateContext, CallerRemove, runnerVars, poolVars
<1>2. ASSUME \/ \E j \in Jobs : PoolStep(j) \/ PoolAdd(j) \/ PoolDelJob(j)
             \/ \E t \in Tasks : PoolDelTask(t)
      PROVE  Counts
  BY <1>a, <1>2 DEF PoolStep, PoolInsert, PoolFind, PoolAdd, PoolDelJob,
                    PoolDelTask, runnerVars, poolVars
<1>3. ASSUME RolloutStep \/ RolloutSends  PROVE Counts
  BY <1>a, <1>3
  DEF RolloutStep, RolloutLocal, RolloutWritesJob, RolloutFinishes,
      RolloutWritesTasks, RolloutWritesContext, RolloutSends, RolloutFrame, poolVars
<1>4. ASSUME \/ LoopLocal \/ LoopSends \/ LoopHears
             \/ \E e \in inflight : WorkerSends(e)
             \/ \E th \in DirectThings : Presence(th)
      PROVE  Counts
  BY <1>a, <1>4 DEF LoopLocal, LoopSends, LoopHears, WorkerSends, WorkerReport,
                    Presence, LoopFrame, poolVars
<1>5. ASSUME \/ WatchWrites \/ WatchSends \/ CheckStep \/ CheckSends \/ Clock
             \/ UNCHANGED vars
      PROVE  Counts
  BY <1>a, <1>5
  DEF WatchWrites, WatchSends, CheckStep, CheckLocal, CheckFinishes,
      CheckWritesContext, CheckSends, CheckFrame, Clock, vars, runnerVars, poolVars
<1>6. Counts
  BY <1>b, <1>1, <1>2, <1>3, <1>4, <1>5 DEF Next, LoopStep
<1> QED BY <1>6 DEF Counts

\* The entry that rolloutLoop is about to roll out stays as it is until then.
LEMMA ReloadedStays ==
  ASSUME TypeOK, [Next]_vars, ~Restart, NEW j \in Jobs, Reloaded(j), ~RoSet(j)
  PROVE  Reloaded(j)'
<1>0. roPc = "set" /\ pending[roI] = j /\ item[j].status = "CANCELED"
  BY DEF Reloaded
<1>a. ASSUME UNCHANGED roVars  PROVE Reloaded(j)'
  BY <1>0, <1>a DEF roVars, Reloaded
<1>1. ASSUME NEW c \in Callers, Request(c) \/ CallerStep(c)  PROVE UNCHANGED roVars
  BY <1>1
  DEF Request, CreateJob, UpdateJob, CancelJob, DeleteJob, CancelTask, DeleteTask,
      CallerStep, CreateRead, UpdateWrite, DeleteTasks, CallerContext,
      CallerCanceled, centerVars
<1>2. ~CheckSends /\ (\A c \in Callers : ~CallerSends(c)) /\ (\A i \in Jobs : ~PoolAdd(i))
  BY <1>0 DEF CheckSends, CallerSends, UpdateContext, RoUpdateContext, CallerRemove,
              RoRemove, PoolAdd, RoAdd
<1>3. ASSUME \/ \E i \in Jobs : PoolStep(i) \/ PoolDelJob(i)
             \/ \E t \in Tasks : PoolDelTask(t)
      PROVE  UNCHANGED roVars
  BY <1>3 DEF PoolStep, PoolInsert, PoolFind, PoolDelJob, PoolDelTask
<1>4. ~RolloutStep /\ ~RolloutSends
  <2>1. \A i \in Jobs : ~RoSet(i)
    BY <1>0 DEF RoSet
  <2> QED BY <1>0, <2>1
      DEF RolloutStep, RolloutLocal, RolloutWritesJob, RolloutFinishes,
          RolloutWritesTasks, RolloutWritesContext, RolloutSends, RoTick,
          RoNotInTime, RoBeforeStart, RoStopRollout, RoEndCancel, RoReload,
          RoInTime, RoEndJob, RoFinish, RoEndTasks, RoClear, RoEndRunner, RoPut
<1>5. ASSUME \/ LoopStep \/ LoopSends \/ LoopHears
             \/ \E e \in inflight : WorkerSends(e)
             \/ \E th \in DirectThings : Presence(th)
             \/ WatchWrites \/ WatchSends \/ CheckStep \/ UNCHANGED vars
      PROVE  UNCHANGED roVars
  BY <1>5
  DEF LoopStep, LoopLocal, LoopToPool, LoopSends, LoopHears, WorkerSends,
      Presence, LoopFrame, WatchWrites, WatchSends, CheckStep, CheckLocal,
      CheckFinishes, CheckWritesContext, vars, centerVars
<1>6. ASSUME Clock  PROVE Reloaded(j)'
  <2>1. ASSUME NEW i \in Jobs, WindowSlides(i)  PROVE Reloaded(j)'
    <3>1. item'[j].status = item[j].status
      BY <2>1 DEF WindowSlides, TypeOK, RolloutType
    <3> QED BY <1>0, <2>1, <3>1 DEF WindowSlides, Reloaded
  <2> QED BY <1>a, <1>6, <2>1 DEF Clock
<1> QED BY <1>a, <1>1, <1>2, <1>3, <1>4, <1>5, <1>6 DEF Next

\* What the runner holds came from the list or out of the loop's hand, and the
\* loop takes up a task only under a context that lets it through.
LEMMA HeldGets ==
  ASSUME TypeOK, [Next]_vars
  PROVE  /\ \A m \in roChunk' \union curQ' \union offline' :
              \/ m \in roChunk \union curQ \union offline
              \/ m \in hand /\ loopPc = "gate"
              \/ \E j \in Jobs : RoSet(j) /\ m \in item[j].tasks /\ UNCHANGED loopVars
                                 /\ ~NothingRemains(j)
         /\ loopPc' = "gate" => \A m \in hand' :
              \/ loopPc = "gate" /\ m \in hand
              \/ /\ m \in curQ
                 /\ ctx[JobOfCopy(m)] # NoContext
                 /\ ~IsJobToTerminal(ctx[JobOfCopy(m)])
<1> DEFINE Gets ==
      \A m \in roChunk' \union curQ' \union offline' :
        \/ m \in roChunk \union curQ \union offline
        \/ m \in hand /\ loopPc = "gate"
        \/ \E j \in Jobs : RoSet(j) /\ m \in item[j].tasks /\ UNCHANGED loopVars
                           /\ ~NothingRemains(j)
           Takes ==
      loopPc' = "gate" => \A m \in hand' :
        \/ loopPc = "gate" /\ m \in hand
        \/ /\ m \in curQ
           /\ ctx[JobOfCopy(m)] # NoContext
           /\ ~IsJobToTerminal(ctx[JobOfCopy(m)])
<1>a. ASSUME roChunk' \subseteq roChunk, UNCHANGED loopVars  PROVE Gets /\ Takes
  BY <1>a DEF loopVars
<1>b. ASSUME NEW j, LoopDelJob(j), UNCHANGED roChunk  PROVE Gets /\ Takes
  BY <1>b DEF LoopDelJob
<1>1. ASSUME NEW c \in Callers, Request(c) \/ CallerStep(c) \/ CallerSends(c)
      PROVE  UNCHANGED <<roChunk, loopVars>>
  BY <1>1
  DEF Request, CreateJob, UpdateJob, CancelJob, DeleteJob, CancelTask, DeleteTask,
      CallerStep, CreateRead, UpdateWrite, DeleteTasks, CallerContext,
      CallerCanceled, CallerSends, UpdateContext, RoUpdateContext, CallerRemove,
      RoRemove, runnerVars, centerVars, roVars
<1>2. ASSUME NEW j \in Jobs, PoolStep(j) \/ PoolAdd(j)
      PROVE  UNCHANGED <<roChunk, loopVars>>
  BY <1>2 DEF PoolStep, PoolInsert, PoolFind, PoolAdd, RoAdd, runnerVars, roVars
<1>3. ASSUME NEW j \in Jobs, PoolDelJob(j)  PROVE Gets /\ Takes
  BY <1>b, <1>3 DEF PoolDelJob, roVars
<1>4. ASSUME NEW t \in Tasks, PoolDelTask(t)  PROVE Gets /\ Takes
  BY <1>4 DEF PoolDelTask, LoopDelTask, roVars
<1>5. ASSUME RolloutStep  PROVE Gets /\ Takes
  <2>1. CASE \E j \in Jobs : RoSet(j) /\ ~NothingRemains(j)
    <3>1. UNCHANGED loopVars
      BY <1>5 DEF RolloutStep, RolloutLocal, RolloutWritesJob, RolloutFinishes,
                  RolloutWritesTasks, RolloutWritesContext
    <3>2. PICK j \in Jobs : RoSet(j) /\ ~NothingRemains(j)
      BY <2>1
    <3>3. roChunk' \subseteq item[j].tasks
      BY <3>2 DEF RoSet
    <3> QED BY <3>1, <3>2, <3>3 DEF loopVars
  <2>2. CASE ~\E j \in Jobs : RoSet(j) /\ ~NothingRemains(j)
    <3>1. ASSUME NEW j \in Jobs, RoSet(j)  PROVE UNCHANGED roChunk
      BY <2>2, <3>1 DEF RoSet
    <3>2. UNCHANGED <<roChunk, loopVars>>
      BY <1>5, <3>1
      DEF RolloutStep, RolloutLocal, RolloutWritesJob, RolloutFinishes,
          RolloutWritesTasks, RolloutWritesContext, RoTick, RoNotInTime,
          RoBeforeStart, RoStopRollout, RoEndCancel, RoReload, RoInTime, RoEndJob,
          RoFinish, RoEndTasks, RoClear
    <3> QED BY <1>a, <3>2
  <2> QED BY <2>1, <2>2
<1>6. ASSUME RolloutSends  PROVE Gets /\ Takes
  <2>1. ASSUME NEW j \in Jobs, RoEndRunner(j), LoopDelJob(j)  PROVE Gets /\ Takes
    BY <1>b, <2>1 DEF RoEndRunner
  <2>2. ASSUME NEW j \in Jobs, RoPut(j), LoopAdd(roChunk)  PROVE Gets /\ Takes
    BY <2>2 DEF RoPut, LoopAdd
  <2> QED BY <1>6, <2>1, <2>2 DEF RolloutSends
<1>7. ASSUME LoopStep \/ LoopSends \/ LoopHears  PROVE Gets /\ Takes
  <2>1. UNCHANGED roChunk
    BY <1>7 DEF LoopStep, LoopLocal, LoopToPool, LoopSends, LoopHears, LoopFrame,
                centerVars, roVars
  <2>2. CASE LoopTick \/ LoopTurnEnds
    BY <2>1, <2>2 DEF LoopTick, LoopTurnEnds
  <2>3. ASSUME NEW m \in Tops, LoopPop(m, ctx[JobOfCopy(m)])  PROVE Gets /\ Takes
    BY <2>1, <2>3 DEF LoopPop, Tops
  <2>4. ASSUME NEW m \in hand, LoopPark(m)  PROVE Gets /\ Takes
    BY <2>1, <2>4 DEF LoopPark
  <2>5. ASSUME NEW m \in hand, LoopSubmit(m)  PROVE Gets /\ Takes
    BY <2>1, <2>5 DEF LoopSubmit
  <2>6. ASSUME NEW m \in hand, LoopPoolFull(m)  PROVE Gets /\ Takes
    BY <2>1, <2>6 DEF LoopPoolFull
  <2>7. ASSUME NEW m \in hand, LoopReportSent(m)  PROVE Gets /\ Takes
    BY <2>1, <2>7 DEF LoopReportSent
  <2>8. ASSUME NEW th \in Things, LoopConnected(th)  PROVE Gets /\ Takes
    BY <2>1, <2>8 DEF LoopConnected
  <2> HIDE DEF Gets, Takes
  <2> QED BY <1>7, <2>2, <2>3, <2>4, <2>5, <2>6, <2>7, <2>8
      DEF LoopStep, LoopLocal, LoopToPool, LoopSends, LoopHears
<1>8. ASSUME \/ \E e \in inflight : WorkerSends(e)
             \/ \E th \in DirectThings : Presence(th)
             \/ WatchWrites \/ WatchSends \/ CheckStep \/ CheckSends \/ Clock
             \/ UNCHANGED vars
      PROVE  UNCHANGED <<roChunk, loopVars>>
  BY <1>8
  DEF WorkerSends, Presence, LoopFrame, WatchWrites, WatchSends, CheckStep,
      CheckLocal, CheckFinishes, CheckWritesContext, CheckSends, RoRemove,
      CheckFrame, Clock, WindowSlides, vars, runnerVars, centerVars, roVars
<1>9. ASSUME Restart  PROVE Gets /\ Takes
  BY <1>9 DEF Restart
<1> HIDE DEF Gets, Takes
<1>10. Gets /\ Takes
  BY <1>a, <1>1, <1>2, <1>3, <1>4, <1>5, <1>6, <1>7, <1>8, <1>9 DEF Next
<1> QED BY <1>10 DEF Gets, Takes

\* rolloutLoop sets the context of a job from its entry, and so stops a job
\* whose sent tasks it has read again.
LEMMA SetStops ==
  ASSUME HandoverInv, [Next]_vars, NEW j \in Jobs, Reloaded(j), RoSet(j),
         ~NothingRemains(j)
  PROVE  Stopped(j)'
<1>0. /\ TypeOK /\ SetUpOnce /\ PendingBegun
      /\ roPc = "set" /\ pending[roI] = j /\ item[j].status = "CANCELED"
  BY DEF Reloaded, HandoverInv, SafetyInv, ListInv
<1>1. IsPending(j)
  BY <1>0, WorksOnPending
<1>2. Begun(j)'
  BY <1>0, <1>1, BegunStays DEF PendingBegun
<1>3. ctx'[j] = "CANCELED" /\ item'[j].status = "CANCELED"
  BY <1>0 DEF RoSet, SetContext, TypeOK, CtxType, RolloutType
<1> QED BY <1>2, <1>3 DEF Stopped, IsJobToTerminal

\* A task in the list, for which a step neither counts an execution nor
\* restarts the process, remains one that may go on to the runner.
LEMMA ItemFreshKept ==
  ASSUME HandoverInv, ItemFresh, [Next]_vars, ~Restart, UNCHANGED execs,
         NEW j \in Jobs, NEW m \in item[j].tasks
  PROVE  execs'[IdOf(m)] = 0 \/ Stopped(j)' \/ Reloaded(j)'
<1>0. TypeOK
  BY DEF HandoverInv, SafetyInv
<1>1. CASE execs[IdOf(m)] = 0
  BY <1>1
<1>2. CASE Stopped(j)
  BY <1>2, StoppedStays
<1>3. CASE Reloaded(j)
  <2>1. ~NothingRemains(j)
    BY DEF NothingRemains
  <2> QED BY <1>0, <1>3, <2>1, SetStops, ReloadedStays
<1> QED BY <1>1, <1>2, <1>3 DEF ItemFresh

\* A step that counts no execution.
LEMMA QuietExec ==
  ASSUME ExecInv, [Next]_vars, ~Restart, UNCHANGED execs
  PROVE  ExecutedOncePerStart' /\ ItemFresh' /\ RunnerFresh' /\ GateFresh'
<1>0. /\ HandoverInv /\ TypeOK /\ TypeOK' /\ ItemsOwn /\ EndStatus /\ ItemIfPending
      /\ ItemFresh /\ RunnerFresh /\ GateFresh /\ NotYetBegun /\ ExecutedOncePerStart
  BY HandoverNext DEF ExecInv, CustodyInv, HandoverInv, SafetyInv, ListInv
<1>1. ExecutedOncePerStart'
  BY <1>0 DEF ExecutedOncePerStart
<1>2. GateFresh'
  <2> SUFFICES ASSUME loopPc' = "gate", NEW m \in hand'
               PROVE  execs[IdOf(m)] = 0
    BY DEF GateFresh
  <2>1. CASE loopPc = "gate" /\ m \in hand
    BY <1>0, <2>1 DEF GateFresh
  <2>2. CASE /\ m \in curQ /\ ctx[JobOfCopy(m)] # NoContext
             /\ ~IsJobToTerminal(ctx[JobOfCopy(m)])
    BY <1>0, <2>2 DEF RunnerFresh, Stopped
  <2> QED BY <1>0, <2>1, <2>2, HeldGets
<1>3. RunnerFresh'
  <2> SUFFICES ASSUME NEW m \in roChunk' \union curQ' \union offline'
               PROVE  execs[IdOf(m)] = 0 \/ Stopped(JobOfCopy(m))'
    BY DEF RunnerFresh
  <2>1. JobOfCopy(m) \in Jobs
    BY <1>0, RepoAssumption DEF TypeOK, LoopType, RolloutType, TaskCopy, JobOfCopy
  <2>2. CASE m \in roChunk \union curQ \union offline
    BY <1>0, <2>1, <2>2, StoppedStays DEF RunnerFresh
  <2>3. CASE m \in hand /\ loopPc = "gate"
    BY <1>0, <2>3 DEF GateFresh
  <2>4. ASSUME NEW j \in Jobs, RoSet(j), m \in item[j].tasks, ~NothingRemains(j)
        PROVE  execs[IdOf(m)] = 0 \/ Stopped(JobOfCopy(m))'
    <3>1. JobOfCopy(m) = j
      BY <1>0, <2>4 DEF ItemsOwn, Own
    <3>2. execs'[IdOf(m)] = 0 \/ Stopped(j)' \/ Reloaded(j)'
      BY <1>0, <2>4, ItemFreshKept
    <3>3. ~Reloaded(j)'
      BY <2>4 DEF RoSet, Reloaded
    <3> QED BY <3>1, <3>2, <3>3
  <2> QED BY <1>0, <2>2, <2>3, <2>4, HeldGets
<1>4. ItemFresh'
  <2> SUFFICES ASSUME NEW j \in Jobs, NEW m \in item'[j].tasks
               PROVE  execs'[IdOf(m)] = 0 \/ Stopped(j)' \/ Reloaded(j)'
    BY DEF ItemFresh
  <2>1. CASE m \in item[j].tasks
    BY <1>0, <2>1, ItemFreshKept
  <2>2. CASE ListKept
    BY <2>1, <2>2 DEF ListKept
  <2>3. ASSUME NEW i \in DOMAIN pending, RoTakeOut(i)  PROVE m \in item[j].tasks
    BY <1>0, <2>3 DEF RoTakeOut, NoItem, TypeOK, RolloutType
  <2>4. ASSUME NEW i \in Jobs, PoolAdd(i)
        PROVE  m \in item[j].tasks \/ execs'[IdOf(m)] = 0
    <3>1. creating[i].pc = "add"
      BY <2>4 DEF PoolAdd, RoAdd
    <3>2. i # j => item'[j] = item[j]
      BY <1>0, <2>4 DEF PoolAdd, RoAdd, TypeOK, RolloutType
    <3>3. CASE i = j
      <4>1. m \in creating[j].tasks
        BY <1>0, <2>4, <3>3 DEF PoolAdd, RoAdd, TypeOK, RolloutType
      <4>2. JobOf[IdOf(m)] = j /\ IdOf(m) \in Tasks
        BY <1>0, <4>1 DEF ItemsOwn, Own, JobOfCopy, IdOf, TypeOK, PoolJobType, TaskCopy
      <4>3. execs[IdOf(m)] = 0
        BY <1>0, <3>1, <3>3, <4>2 DEF NotYetBegun, Begun
      <4> QED BY <4>3, <2>4 DEF PoolAdd, runnerVars, poolVars
    <3> QED BY <3>2, <3>3
  <2>5. ASSUME NEW i \in Jobs, RoReload(i)
        PROVE  m \in item[j].tasks \/ Reloaded(j)'
    <3>1. i # j => item'[j] = item[j]
      BY <1>0, <2>5 DEF RoReload, TypeOK, RolloutType
    <3>2. CASE i = j
      <4>1. item'[j].status = item[j].status
        BY <1>0, <2>5, <3>2 DEF RoReload, TypeOK, RolloutType
      <4> QED BY <1>0, <2>5, <3>2, <4>1 DEF RoReload, EndStatus, Ending, Reloaded
    <3> QED BY <3>1, <3>2
  <2> QED BY <1>0, <2>1, <2>2, <2>3, <2>4, <2>5, EveryListMove DEF ListMove
<1> QED BY <1>1, <1>2, <1>3, <1>4

\* The pool takes the task in the loop's hand: no one else has it.
LEMMA SubmitExec ==
  ASSUME ExecInv, NEW m \in hand, LoopSubmit(m), LoopFrame
  PROVE  ExecutedOncePerStart' /\ ItemFresh' /\ RunnerFresh' /\ GateFresh'
<1>0. /\ TypeOK /\ RunnerSole /\ ItemApart
      /\ ItemFresh /\ RunnerFresh /\ GateFresh /\ ExecutedOncePerStart
  BY DEF ExecInv, CustodyInv, HandoverInv, SafetyInv
<1> DEFINE t == IdOf(m)
<1>1. /\ t \in Tasks /\ execs[t] = 0 /\ execs'[t] = 1
      /\ \A u \in Tasks : u # t => execs'[u] = execs[u]
  BY <1>0 DEF LoopSubmit, LoopFrame, GateFresh, TypeOK, PoolType, LoopType, TaskCopy,
              IdOf
<1>2. /\ UNCHANGED <<item, ctx, pending, roPc, roI, roChunk, curQ, offline>>
      /\ \A j \in Jobs : Begun(j)' <=> Begun(j)
  BY DEF LoopSubmit, LoopFrame, centerVars, roVars, poolJobVars, apiVars, Begun, Creates
<1>3. \A j \in Jobs : (Stopped(j)' <=> Stopped(j)) /\ (Reloaded(j)' <=> Reloaded(j))
  BY <1>2 DEF Stopped, Reloaded, IsPending
<1>4. ExecutedOncePerStart'
  BY <1>0, <1>1 DEF ExecutedOncePerStart, TypeOK, PoolType, ApiType
<1>5. ItemFresh'
  <2>1. \A j \in Jobs : \A n \in item[j].tasks : IdOf(n) \in Tasks /\ IdOf(n) # t
    BY <1>0 DEF ItemApart, Apart, TypeOK, RolloutType, TaskCopy, IdOf
  <2> QED BY <1>0, <1>1, <1>2, <1>3, <2>1 DEF ItemFresh
<1>6. RunnerFresh'
  <2>1. \A n \in roChunk \union curQ \union offline :
          IdOf(n) \in Tasks /\ IdOf(n) # t /\ JobOfCopy(n) \in Jobs
    BY <1>0, RepoAssumption
    DEF RunnerSole, Sole, Apart, TypeOK, RolloutType, LoopType, TaskCopy, IdOf, JobOfCopy
  <2> QED BY <1>0, <1>1, <1>2, <1>3, <2>1 DEF RunnerFresh
<1>7. GateFresh'
  BY DEF LoopSubmit, GateFresh
<1> QED BY <1>4, <1>5, <1>6, <1>7

\* At the start nothing was executed.
LEMMA ExecInit == Init => ExecInv
<1> SUFFICES ASSUME Init  PROVE ExecInv
  OBVIOUS
<1>1. CustodyInv
  BY CustodyInit
<1>2. ExecutedOncePerStart /\ NotYetBegun /\ ItemFresh /\ RunnerFresh /\ GateFresh
  BY DEF Init, RunnerInit, CenterInit, NoItem, ExecutedOncePerStart, NotYetBegun,
         ItemFresh, RunnerFresh, GateFresh
<1> QED BY <1>1, <1>2 DEF ExecInv

\* Every step keeps the invariant.
LEMMA ExecNext == ExecInv /\ [Next]_vars => ExecInv'
<1> SUFFICES ASSUME ExecInv, [Next]_vars  PROVE ExecInv'
  OBVIOUS
<1>0. /\ CustodyInv /\ TypeOK /\ TypeOK' /\ SetUpOnce /\ RunnerBegun /\ NotYetBegun
      /\ ExecutedOncePerStart
  BY CustodyNext DEF ExecInv, CustodyInv, HandoverInv, SafetyInv, RunnerInv
<1>1. CustodyInv'
  BY <1>0, CustodyNext
<1>2. NotYetBegun'
  <2> SUFFICES ASSUME NEW t \in Tasks, ~Begun(JobOf[t])'  PROVE execs'[t] = 0
    BY DEF NotYetBegun
  <2>1. ~Begun(JobOf[t])
    BY <1>0, BegunStays, RepoAssumption
  <2>2. execs[t] = 0
    BY <1>0, <2>1 DEF NotYetBegun
  <2>3. CASE Restart
    BY <2>2, <2>3 DEF Restart
  <2>4. ASSUME NEW m \in hand, LoopSubmit(m)  PROVE execs'[t] = 0
    <3>1. IdOf(m) # t
      BY <1>0, <2>1 DEF RunnerBegun, JobOfCopy, IdOf
    <3> QED BY <1>0, <2>2, <2>4, <3>1 DEF LoopSubmit, TypeOK, PoolType
  <2> QED BY <2>2, <2>3, <2>4, ExecMove
<1>3. ExecutedOncePerStart' /\ ItemFresh' /\ RunnerFresh' /\ GateFresh'
  <2>1. CASE Restart
    <3>1. /\ \A t \in Tasks : execs'[t] = 0
          /\ roChunk' = {} /\ curQ' = {} /\ offline' = {} /\ hand' = {}
      BY <2>1 DEF Restart
    <3>2. \A j \in Jobs : \A m \in item'[j].tasks : IdOf(m) \in Tasks
      BY <1>0 DEF TypeOK, RolloutType, TaskCopy, IdOf
    <3> QED BY <3>1, <3>2
        DEF ExecutedOncePerStart, ItemFresh, RunnerFresh, GateFresh
  <2>2. ASSUME NEW m \in hand, LoopSubmit(m), LoopFrame
        PROVE  ExecutedOncePerStart' /\ ItemFresh' /\ RunnerFresh' /\ GateFresh'
    BY <2>2, SubmitExec
  <2>3. CASE ~Restart /\ UNCHANGED execs
    BY <2>3, QuietExec
  <2> QED BY <2>1, <2>2, <2>3, ExecMove
<1> QED BY <1>1, <1>2, <1>3 DEF ExecInv

\* A process, the first one or one that was started again, gives a task to the
\* worker pool at most once, although the schedule's cancel reads tasks that were sent back
\* into the list that feeds the runner.
THEOREM TasksRunOncePerStart == Spec => []ExecutedOncePerStart
<1>1. ExecInv => ExecutedOncePerStart
  BY DEF ExecInv
<1> QED BY <1>1, ExecInit, ExecNext, PTL DEF Spec
=============================================================================

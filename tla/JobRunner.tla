------------------------------ MODULE JobRunner ------------------------------
(***************************************************************************)
(* The runner (job/runner.go, job/queue.go, job/action.go): the loop that  *)
(* owns the task queue, the pool workers that carry tasks out, and the     *)
(* loop that records task changes.                                         *)
(*                                                                         *)
(* All channels are unbuffered.  A send is therefore one step of two       *)
(* goroutines; this module has the runner's half of each such step, and    *)
(* module JobSystem joins it with the other half.                          *)
(***************************************************************************)
EXTENDS JobRepo

CONSTANTS
  ConcurrentOnTick,  \* tasks taken from the queue in one turn of the loop
  RunnerPoolSize,    \* runnerWorkerPoolSize; Submit fails when it is reached
  CheckerFails,      \* TRUE: IsConnected can return an error
  EventsLost         \* TRUE: the loop can be busy for longer than the second
                     \* that EventBus.Publish waits for a subscriber

ASSUME RunnerAssumption ==
  /\ ConcurrentOnTick \in Nat \ {0}
  /\ RunnerPoolSize \in Nat \ {0}
  /\ CheckerFails \in BOOLEAN
  /\ EventsLost \in BOOLEAN

VARIABLES
  curQ,        \* the task queue (as a set: the put lists never repeat an entry
               \* that the queue holds, see NoEntryTwice in JobSystem)
  offline,     \* offlineThingTasks, keyed by the thing of each task
  loopPc,      \* where sysOpTaskLoop is
  hand,        \* the task that sysOpTaskLoop has popped, none or one
  popped,      \* the counter c of the current turn
  inflight,    \* executions in the worker pool: <<task, its number>>
  execs,       \* history: how often this process gave a task to the pool
  executed,    \* history: the tasks that any process gave to the pool
  watchPc,     \* where watchTaskChangeLoop of the runner is
  watchMsg,    \* the change that loop works on, none or one <<task, status>>
  online,      \* the things that the broker has a live connection of
  events       \* "connected" events on their way to OnConnect

loopVars == <<curQ, offline, loopPc, hand, popped>>
poolVars == <<inflight, execs, executed>>
watchVars == <<watchPc, watchMsg>>
presenceVars == <<online, events>>
runnerVars == <<loopVars, poolVars, watchVars, presenceVars>>

\* Things whose presence anyone in the package asks for.
DirectThings == {ThingOf[t] : t \in {u \in Tasks : JobOf[u] \in DirectJobs}}

RunnerInit ==
  /\ curQ = {} /\ offline = {}
  /\ loopPc = "select" /\ hand = {} /\ popped = 0
  /\ inflight = {} /\ execs = [t \in Tasks |-> 0] /\ executed = {}
  /\ watchPc = "select" /\ watchMsg = {}
  /\ online = {} /\ events = {}

-----------------------------------------------------------------------------
(* sysOpTaskLoop: the cases of its select.                                 *)

\* A list of tasks arrives on sysOpTaskCh.
LoopAdd(ms) ==
  /\ loopPc = "select"
  /\ curQ' = curQ \union ms
  /\ UNCHANGED <<offline, loopPc, hand, popped>>

\* A delete by job id arrives on sysOpTaskDelCh.
LoopDelJob(j) ==
  /\ loopPc = "select"
  /\ curQ' = curQ \ CopiesOf(j, curQ)
  /\ offline' = offline \ CopiesOf(j, offline)
  /\ UNCHANGED <<loopPc, hand, popped>>

\* A delete by task id arrives.  RemoveById takes out the first entry with
\* the id.  The loop over offlineThingTasks ends only its innermost for with
\* break, appends every task all the same, and so removes nothing.
LoopDelTask(t) ==
  LET hits == {m \in curQ : IdOf(m) = t}
  IN  /\ loopPc = "select"
      /\ \/ \E m \in hits : curQ' = curQ \ {m}
         \/ hits = {} /\ curQ' = curQ
      /\ UNCHANGED <<offline, loopPc, hand, popped>>

\* Mutant: the parked tasks return to the queue and stay parked as well.
LoopConnectedKeepsParked(th) ==
  /\ loopPc = "select"
  /\ th \in events
  /\ events' = events \ {th}
  /\ curQ' = curQ \union {m \in offline : ThingOf[IdOf(m)] = th}
  /\ loopPc' = "pop"
  /\ popped' = 0
  /\ UNCHANGED <<offline, hand, online>>

\* A "connected" event arrives: the thing's parked tasks return to the queue.
LoopConnected(th) ==
  LET back == {m \in offline : ThingOf[IdOf(m)] = th}
  IN  /\ loopPc = "select"
      /\ th \in events
      /\ events' = events \ {th}
      /\ offline' = offline \ back
      /\ curQ' = curQ \union back
      /\ loopPc' = "pop"
      /\ popped' = 0
      /\ UNCHANGED <<hand, online>>

LoopTick ==
  /\ loopPc = "select"
  /\ curQ # {}
  /\ loopPc' = "pop"
  /\ popped' = 0
  /\ UNCHANGED <<curQ, offline, hand>>

-----------------------------------------------------------------------------
(* sysOpTaskLoop: working off the queue.                                   *)

Priority(s) == CASE s = "QUEUED" -> 1
                 [] s = "SENT" -> 2
                 [] s = "IN_PROGRESS" -> 3
                 [] OTHER -> 0

\* The entries that Pop can return.  CreatedAt is never filled in a Task
\* value, so entries of equal priority come in any order.
Tops == {m \in curQ : \A n \in curQ :
                        Priority(StatusOf(n)) <= Priority(StatusOf(m))}

LoopTurnEnds ==
  /\ loopPc = "pop"
  /\ curQ = {} \/ popped = ConcurrentOnTick
  /\ loopPc' = "select"
  /\ popped' = 0
  /\ UNCHANGED <<curQ, offline, hand>>

\* Mutant: only a missing context stops the task, not the job's status.
LoopPopAnyStatus(m, ctxOf) ==
  /\ loopPc = "pop"
  /\ popped < ConcurrentOnTick
  /\ m \in Tops
  /\ curQ' = curQ \ {m}
  /\ popped' = popped + 1
  /\ \/ ctxOf = NoContext /\ UNCHANGED <<loopPc, hand>>
     \/ ctxOf # NoContext /\ loopPc' = "gate" /\ hand' = {m}
  /\ UNCHANGED offline

\* Pop, then the check of the job context: ctxOf is what jcGetter returns.
\* Without a context, or when the job is on its way to a terminal status,
\* the task is given up.
LoopPop(m, ctxOf) ==
  /\ loopPc = "pop"
  /\ popped < ConcurrentOnTick
  /\ m \in Tops
  /\ curQ' = curQ \ {m}
  /\ popped' = popped + 1
  /\ \/ /\ ctxOf = NoContext \/ IsJobToTerminal(ctxOf)
        /\ UNCHANGED <<loopPc, hand>>
     \/ /\ ctxOf # NoContext /\ ~IsJobToTerminal(ctxOf)
        /\ loopPc' = "gate"
        /\ hand' = {m}
  /\ UNCHANGED offline

\* A direct method for a thing that is offline: the task is parked.
LoopPark(m) ==
  /\ loopPc = "gate"
  /\ hand = {m}
  /\ JobOfCopy(m) \in DirectJobs
  /\ ThingOf[IdOf(m)] \notin online
  /\ offline' = offline \union {m}
  /\ hand' = {}
  /\ loopPc' = "pop"
  /\ UNCHANGED <<curQ, popped>>

\* What lets a task through to the pool: an error of IsConnected is logged
\* and the task goes on as if the thing were online.
MaySubmit(m) ==
  \/ JobOfCopy(m) \notin DirectJobs
  \/ ThingOf[IdOf(m)] \in online
  \/ CheckerFails

\* The pool takes the task.  SENT is reported only for a QUEUED Task value.
LoopSubmit(m) ==
  LET t == IdOf(m)
  IN  /\ loopPc = "gate"
      /\ hand = {m}
      /\ MaySubmit(m)
      /\ Cardinality(inflight) < RunnerPoolSize
      /\ execs' = [execs EXCEPT ![t] = @ + 1]
      /\ executed' = executed \union {t}
      /\ inflight' = inflight \union {<<t, execs[t] + 1>>}
      /\ \/ StatusOf(m) = "QUEUED" /\ loopPc' = "sent" /\ UNCHANGED hand
         \/ StatusOf(m) # "QUEUED" /\ loopPc' = "pop" /\ hand' = {}
      /\ UNCHANGED <<curQ, offline, popped>>

\* Mutant: a task that the pool refuses is not returned to the queue.
LoopPoolFullDrops(m) ==
  /\ loopPc = "gate"
  /\ hand = {m}
  /\ MaySubmit(m)
  /\ Cardinality(inflight) >= RunnerPoolSize
  /\ hand' = {}
  /\ loopPc' = "select"
  /\ popped' = 0
  /\ UNCHANGED <<curQ, offline, poolVars>>

\* Mutant: SENT is reported although the pool has refused the task.
LoopPoolFullReports(m) ==
  /\ loopPc = "gate"
  /\ hand = {m}
  /\ MaySubmit(m)
  /\ Cardinality(inflight) >= RunnerPoolSize
  /\ curQ' = curQ \union {m}
  /\ loopPc' = "sent"
  /\ UNCHANGED <<hand, offline, popped, poolVars>>

\* The pool is full: the task returns to the queue and the turn ends.
LoopPoolFull(m) ==
  /\ loopPc = "gate"
  /\ hand = {m}
  /\ MaySubmit(m)
  /\ Cardinality(inflight) >= RunnerPoolSize
  /\ curQ' = curQ \union {m}
  /\ hand' = {}
  /\ loopPc' = "select"
  /\ popped' = 0
  /\ UNCHANGED <<offline, poolVars>>

-----------------------------------------------------------------------------
(* innerTaskChangeCh: its two senders, and watchTaskChangeLoop.            *)

\* The loop reports SENT; it waits here until the watch loop receives.
LoopReportSent(m) ==
  /\ loopPc = "sent" /\ hand = {m}
  /\ watchPc = "select"
  /\ watchMsg' = {<<IdOf(m), "SENT">>}
  /\ watchPc' = "update"
  /\ loopPc' = "pop"
  /\ hand' = {}
  /\ UNCHANGED <<curQ, offline, popped>>

\* A worker has invoked the method, or set the desired state, and reports
\* the outcome; its slot in the pool is free once the report is received.
WorkerReport(e, s) ==
  /\ e \in inflight
  /\ s \in {"SUCCEEDED", "FAILED"}
  /\ watchPc = "select"
  /\ watchMsg' = {<<e[1], s>>}
  /\ watchPc' = "update"
  /\ inflight' = inflight \ {e}
  /\ UNCHANGED <<execs, executed>>

\* Mutant: a terminal row is overwritten.
UpdateTaskStatusAlways(t, s) ==
  task' = IF task[t] = NoRow THEN task ELSE [task EXCEPT ![t] = s]

\* updateTaskStatus: refused when the row is gone or already terminal.
UpdateTaskStatus(t, s) ==
  task' = IF task[t] = NoRow \/ IsTaskTerminal(task[t]) THEN task
          ELSE [task EXCEPT ![t] = s]

WatchUpdate(c) ==
  /\ watchPc = "update"
  /\ c \in watchMsg
  /\ UpdateTaskStatus(c[1], c[2])
  /\ watchPc' = "out"
  /\ UNCHANGED watchMsg

\* The change is passed on over outTaskChangeCh, refused or not.
WatchOut(c) ==
  /\ watchPc = "out"
  /\ c \in watchMsg
  /\ watchPc' = "select"
  /\ watchMsg' = {}

-----------------------------------------------------------------------------
(* Presence, as the broker and its event bus provide it.                   *)

ThingConnects(th) ==
  /\ th \notin online
  /\ online' = online \union {th}
  /\ events' = events \union {th}

ThingDisconnects(th) ==
  /\ th \in online
  /\ online' = online \ {th}
  /\ UNCHANGED events

\* EventBus.Publish gives up on a subscriber that has not received for 1 s:
\* the loop is busy elsewhere and the event is lost.
EventTimesOut(th) ==
  /\ EventsLost
  /\ th \in events
  /\ loopPc # "select"
  /\ events' = events \ {th}
  /\ UNCHANGED online
=============================================================================

# A formal model of tio

tio is a small IoT hub: it keeps *things* and their *shadows*, calls *direct
methods* on things, and runs *jobs* (batches of direct-method calls or shadow
updates). This directory holds TLA+ modules that model it, TLC configurations
that check them on small instances, and TLAPS proofs of what holds for every
instance. Two parts are modelled. The job subsystem carries most of the server's
concurrency: four loops, two worker pools, concurrent HTTP requests, schedules,
and a store that outlives the process. The web console ("playground") is a program
of its own in the browser: MQTT clients that reconnect, answers that come late,
sessions that end at any moment, and pages that go away under their calls.

Paths below are relative to the root of the repository. `PROJECT.json` gives,
for every definition, the lines it models.

## 1. Inventory

### Components

| component | state | operations | talks to |
|---|---|---|---|
| job repository `job/repo.go`, `entity.go` | tables `job`, `job_task` | insert, update, delete, cancel rows, count, read | called by center, runner, service |
| job runner `job/runner.go`, `queue.go`, `action.go` | priority queue, parked tasks of offline things, worker pool | put, delete by job, delete by task, pop, submit, report | receives from center; calls direct method and shadow; reports to center |
| job center `job/center.go`, `job.go` | list of pending jobs, job contexts, jobs to check | rollout round, schedule and rollout limits, finish check, preload at start | receives from service and runner, sends to runner |
| job service `job/service.go` | none of its own | create, update, cancel, delete job; cancel, delete task | transactions on the tables, then messages to the center |
| shadow service `shadow/service.go`, `shadow_repo.go`, `merge.go` | shadow rows with a version, tags, desired and reported state, connection status | `SetDesired`, `SetReported`, `SetTag`, get, delta, connection status | store; notifications to things and rules |
| direct methods `shadow/method.go` | maps `waiting` and `pending` | invoke, wait for a connection, wait for the answer | connector |
| connector `connector/` | client table of the broker, retained presence messages | connect, disconnect, `IsConnected`, `OnConnect`, sync with EMQX | event bus; shadow connection status |
| event bus `pkg/eventbus` | subscriber channels | publish (gives up after one second), subscribe | runner, direct methods |
| things `thing/` | thing rows | create, update, delete, enable | shadow, connector |
| rules `rule/` | sources, processors, sinks | filter, transform, deliver | shadow notifications, connector, AMQP |
| NTP, SQL parser, configuration, authentication, HTTP | none that other parts rely on | | |
| console: delegates `web/src/utils/MqttDelegate.js`, `store/mqtt.ts` | mqtt.js clients, retries, subscribed topics, their mirror in the store, the `connecting` flag | connect, disconnect, destroy, subscribe, unsubscribe, publish, client events | MQTT broker; tells listeners of a thing |
| console: MQTT tool `reactives/useMqtt.js`, `components/mqtt/`, `tools/MqttClients.vue` | list of connections (also in local storage), selection, open form, requests in flight | create, edit, select, remove, subscribe, edit subscription | delegates; deletion of a thing |
| console: session `apis/client.js`, `router.ts`, `views/Login.vue` | credentials (also in local storage), route, calls in flight | log in, log out, 401, navigate, reload | HTTP API; every page |
| console: list `views/List.vue`, `components/list/` | query, page, rows, overlay, things | search, page, refresh, open, add, delete | HTTP API; events of things |
| console: page of a thing `views/Thing.vue`, `components/thing/` | current shadow, basic data, poster, questions and form of Set Reported | refresh, kick out, post, Set Reported | HTTP API; delegates, by a token |

### How the job parts interact

A request runs a transaction on the tables and then calls `ReceiveMgrMsg`,
partly in its own goroutine and partly through the center's pool. All channels
are unbuffered, so each arrow is a rendezvous:

    request --create--> pool goroutine: insert tasks, read them --> rolloutLoop
    request --update, remove--> rolloutLoop
    pool goroutine --delete by job or task--> sysOpTaskLoop (runner)
    rolloutLoop --put, cancel--> sysOpTaskLoop --submit--> worker
    sysOpTaskLoop --SENT--> watchTaskChangeLoop (runner) <--outcome-- worker
    watchTaskChangeLoop (runner) --change--> watchTaskChangeLoop (center)
    watchTaskChangeLoop (center) --remove--> rolloutLoop
    broker --connect event--> sysOpTaskLoop

### What is hard, and what makes each part correct

- **Jobs.** Task values are copied from rows and never refreshed; several
  statements that belong together are not in a transaction; a cancel can come
  at any point of a set-up or of a rollout round; the outcome of a task can be
  recorded before its SENT; the process can end between any two statements; the
  loops send to one another in a circle. Correct means: the status of a task only
  moves forward, nothing is executed twice by one process, no queued task is
  lost, COMPLETED means done, a forced cancel leaves nothing behind, what is
  reported was executed, and jobs finish.
- **Shadow.** `setState` reads, checks the version, merges and writes
  `WHERE version = ...` in a transaction; notifications go out after it. Correct
  means: no lost update, versions grow by one, the delta is what desired and
  reported make of it, and a reader who follows notifications ends at the state.
- **Direct methods.** A thing can come online between `IsConnected` and the entry
  in `waiting`; an answer can race its timeout; a client token can be used twice.
  Correct means: an answer goes to the call that asked, each call ends once, and
  no call closes a channel of another.
- **Presence.** Connect and disconnect of the same client overlap on take-over,
  events are published by goroutines of their own, and the stored status is
  protected by time stamps only. Correct means: the stored status is eventually
  the real one.
- **Rules.** A pool that does not block and a bounded AMQP channel drop messages.

- **MQTT tool.** Clients are replaced while the old one is still ending, one flag
  serves all delegates, and a late answer writes back the config it was sent with.
  Correct means: a connection comes up only by its own attempt, an attempt ends, a
  removed connection stays removed, storage holds what is shown.
- **Pages.** A call outlives the page that made it and the session it was sent in.
  Correct means: no page without credentials, no overlay without a call that will
  take it away, and a form that acts on the thing it was opened for.

The hazards of `PROJECT.json` list these at their lines.

## 2. Modules

`JobRepo` <- `JobRunner` <- `JobCenter` <- `JobSystem` <- `MCJobSystem`, each
extending the one before. The proofs about `JobSystem` are a chain as well:
`JobSafetyProofs` <- `JobHandoverProofs`, on top of it `JobOutcomeProofs` and
`JobCustodyProofs`, and `JobQueuedProofs` on top of `JobOutcomeProofs`.

- **JobRepo**: status columns of `job` and `job_task`, and the statements on them
  as operators. A statement is one step, and so is a function passed to
  `ExecWithTx`. This is the repository's SQLite set-up, which has one connection.
- **JobRunner**: `sysOpTaskLoop` (`LoopAdd`, `LoopDelJob`, `LoopDelTask`,
  `LoopConnected`, and the turn `LoopTick`, `LoopPop`, `LoopPark`, `LoopSubmit`,
  `LoopPoolFull`, `LoopReportSent`, `LoopTurnEnds`), the workers
  (`WorkerReport`), the runner's `watchTaskChangeLoop` (`WatchUpdate`,
  `WatchOut`), and presence as the runner sees it (`ThingConnects`,
  `ThingDisconnects`, `EventTimesOut`).
- **JobCenter**: `rolloutLoop` (the cases of its select `RoAdd`, `RoRemove`,
  `RoUpdateContext`, `RoTick`, then one job of a round: `jobScheduleFilter` from
  `RoInTime` to `RoReload`, `taskTimeoutFilter` in `NothingRemains` and `RoSet`, the send `RoPut`),
  the center's `watchTaskChangeLoop` with the statements of `checkFinishJob`
  (`CkReceive` to `CkRemove`), and the goroutine that sets up a job.
- **JobSystem**: the requests, `ReceiveMgrMsg`, and the composition. A send is
  one action that conjoins the halves of sender and receiver, for instance
  `RoPut(j) /\ LoopAdd(roChunk)`. `Restart` ends the process between any two
  steps and starts it again with what `preloadPendingJobs` makes of the tables.

The program counters (`roPc`, `loopPc`, `ckPc`, `watchPc`, `api[c].pc`,
`creating[j].pc`) mark exactly the points at which another goroutine can observe
or change something: a statement, a send, a use of the context map, a read of the
clock. A task in memory is a pair of its id and the status its row had when it was
read, as in the code. The queue is a set of such pairs from which one with the
best priority is popped; that it never needs to hold an entry twice is the checked
property `NoEntryTwice`. Three history variables are read by properties only:
`execs` counts how often the process that runs now has given a task to the pool (a
restart sets it back), `executed` has the tasks that any process ever gave, and
`forced` the jobs canceled with force.

Abstractions: which tasks of a job form a chunk is left open (the code takes a
prefix). Time is a phase per job (before, in, after the schedule) that only moves
forward, and rollouts drop out of the last minute at any time (`WindowSlides`).
Direct methods and shadow updates are calls that succeed or fail. An update of a
job is one that sets the timeout config: the retry config is read by no code, and
a description touches nothing modelled.

### The web console

`MqttDelegate` <- `MqttConsole` <- `MCMqttConsole`, with the abstract
specification `ConnStatus`; `WebPages` <- `Playground` <- `MCPlayground`. Proofs:
`MqttConsoleProofs` <- `MqttRefinementProofs` about the first,
`PlaygroundProofs` about the second.

JavaScript runs one callback at a time, so an action is one click, one event or one
answer, with everything it calls up to the next wait for the network. The calls in
a callback are operators from a record of the variables (`World`) to the next one,
and the action ends in `Become(w)`; the order of the calls in the code is the nesting
of the operators. Promises that are resolved already (validation of a form,
navigation guards) continue before any other event and are part of the step.

- **MqttDelegate**: `connect`, `disconnect` and `destroy` with the callback that waits
  for `end`, the handlers `onconnect`, `onreconnect`, `onclose`, `onend`, and
  `updateStore`. mqtt.js is external: a client connects, fails, loses its stream, tries
  again, ends, and closes the stream of an unfinished attempt after its end.
- **MqttConsole**: the store's list of connections and local storage, the forms, the
  panel and the thing's page with their guards, the requests in flight with the config
  they captured, answers and refusals of the broker, reload. `handleDelete` calls
  `removeTopic(sub.topic)` with a topic where a config is expected, which does nothing;
  so does `DeleteSubscription`.
- **ConnStatus**: what a user may rely on: *fresh, idle, trying, up, gone* per
  connection, the moves between them (`Safe`), and that an attempt succeeds or is given
  up (`Resolved`).
- **WebPages**: credentials, route, calls in flight (a bag, each with the credentials
  it was sent with and the mounted part that awaits it), the interceptors, navigation
  with mounting and unmounting, `updateThings` page by page.
- **Playground**: what the user does on each page, what is done with each answer or
  error, and what the listeners do on events of the things' clients.

Abstractions. The list stays mounted under the page of a thing, and the
page of one thing is kept for the next: vue-router keeps the nested route only. The
server acts on a call when its answer arrives; a call that fails may have acted. A page
of a query, and of `updateThings`, has one row, so that several pages occur. The history
of the browser is open: Back from a page opened from the list clears the current shadow
at once, and the history then lands on any page (`Navigate`). The page size of the list
and the pager's own index are left out. In `MqttConsole` an event of a client whose delegate was deleted and made
anew is credited to the new one. Contents of messages and unread counts are left out.

The two modules meet in the connections of things. `Playground` keeps a set of places
(`Conns`), and of each connection whether it is listed, the state of its client (none,
off, on, ending), the token of its next connect event, and its **two names**. The thing
of a connection is its `username`: the broker checks that name, and the events of the
client carry it. The pages look a connection up by its `clientId`. Selecting a username
in the form sets both, typing one leaves the client id empty, and typing over a selected
one keeps the client id of the first thing; `Typed` says which of these a run allows.
`connect` may refuse because another connection is connecting; here, where the flag is
not kept, it may refuse at any time. The client of a destroyed connection goes on to its
end (`ConnEnds`), which the list hears and refreshes on. `MqttConsole` models the rest.

## 3. Runs

| run | result | what it asks |
|---|---|---|
| `job_requests` | pass | two callers create, cancel (with and without force) and delete one job: `ForceCancelDrains`, `CompletedMeansDone`, `TaskStatusForward` |
| `job_tasks` | pass | direct-method tasks, things that come and go, lost events, failing connection checks, a pool of one, requests on single tasks, a restart: `NoTaskLost`, `ExecutedOncePerStart`, `ReportedWasExecuted`, `TaskStatusForward` |
| `job_schedule` | pass | all end behaviours, one task per minute, timeout updates, deletion, a restart: `TypeOK`, `ExecutedOncePerStart`, `NoEntryTwice`, `CompletedMeansDone` |
| `job_liveness` | pass | `JobFinishes` for one job over a restart, with lost events and failing connection checks; executions in which a task stays parked because the connect event of its thing was lost are excluded |
| `job_status_known` | violation | a job that is CANCELED already gets the empty status |
| `job_revived` | violation | a job canceled during its set-up is started all the same |
| `job_task_canceled` | violation | a canceled task that waits in the pending list is started |
| `job_deadlock` | violation | two jobs: the four loops block one another and a request never returns |
| `mqtt_links` | pass | two connections, two clients, two retries, losses, removals, reloads: `KeepsPromises` and `AttemptsEnd` (refinement of `ConnStatus`, its moves and its liveness), `ConnectingHasCause`, `OverlayLifts` |
| `mqtt_subscriptions` | pass | one connection, a suggested and another topic, a request in flight, an edit, a reload: `TypeOK`, `KeepListed`, `StorageFollows`, `ShownAreHeld`, `RemovedStaysRemoved`, `NoInheritedSubs` |
| `web_list` | pass | right and wrong credentials, calls made while another is in flight, queries, a thing that is added and deleted: `LoggedOutShowsLogin`, `BusyHasCause`, `SessionLasts`, `OverlaysEnd` |
| `web_thing` | pass | the pages of two things and the poster, with navigation while two of posts, shadows and queries are in flight, and Set Reported with connections whose username was selected or typed by hand: `TypeOK`, `BusyHasCause`, `ReportsToItsThing` |

**Bounds.** A job has two tasks, for two things: two is the least number with a
task in one place and its neighbour in another, with two chunks under a limit of
one per minute, and with a full pool when the pool has one worker. `MaxCalls`
(two or three) allows a create with one or two operations that overlap it and each
other; `MaxStarts` of two allows one end of the process at any step. One job is enough
where the property is about one job, since jobs meet in the list of
`rolloutLoop` and in the loops' blocking only; the run with two jobs is the one
about blocking, and `TypeOK`, which bounds the loop's index, is proved for all
numbers of jobs. `ConcurrentOnTick` keeps the code's ten; with two tasks a turn
ends because the queue is empty.

In the console two connections are the least number with another that a step could
disturb, which one click does (*Delete* on a connection that is no longer in the list,
see below), and two clients let a connection be replaced while its old client ends. The
pages have one place for a connection, which one thing's connection can leave to
another's. The limit of
retries, three in the code, is two or one: it is compared with a counter and
otherwise not used. Each connect uses up one client object; a reload starts from
local storage again. `MaxCalls` limits the calls the *user* adds;
calls that an answer triggers are not limited. With two, the user can navigate, post or
query while something is in flight. `web_thing` has the constraint `QueryOrConnect`: the
list is queried and pages are opened from it, or connections and Set Reported are used on
pages opened by their address, not both in one behaviour, because the product of the two
is too large; queries and connections meet in `web_list`. `HttpPoster` is used in `web_thing` only (`web_list`
has no `Apis`), so that run is the one for the posts of `BusyHasCause`. Two things are the least number with
another thing on the page, and one token is enough because the token is dropped by the
first connect. With three clients two connects that wait for the same end each make a
client and the first is orphaned: an answer of the broker to the first can then be shown
for the second. This is listed as a hazard, since nothing in the repository speaks of it,
and `ShownAreHeld` allows it (a topic shown is held by *some* client of the connection
that has not ended). `NoInheritedSubs` is about the delegate: its topics are empty
when a client is made. The store still shows the old ones until the new client's first
event; that nothing is left over once it is connected is `ShownAreHeld`.

**Symmetry.** `TasksAlike` exchanges the two tasks together with their things, and
`CallersAlike` the callers; no constant or property of the runs that use them tells
these apart. The runs with liveness properties use no symmetry.

**Deadlock.** TLC's deadlock check is off: requests are bounded, so a system that
has finished its jobs stops. That the loops can really block one another is stated
as `RequestReturns` and shown by `job_deadlock`. The runs of the console have it off
for the same reason: tokens, clients and calls are bounded, and a user may stop.

**Fairness.** Weak fairness for every goroutine that can go on. Strong fairness
for sends to a loop whose select has another case that can be ready (its ticker,
another sender): Go's select picks among the ready cases at random, so a waiting
sender is taken in the end. Nothing is assumed of requests, clock, things and
restarts; that the things come online for good is the premise of `JobFinishes`. Its other
premise is that no parked task stays `Overlooked`: `EventBus.Publish` gives an event up
after one second (`pkg/eventbus/eventbus.go:53`), and a task parked for that thing then
waits although the thing is online, for as long as it stays online. The code does not
rule this out, so the claim is made for the other executions only, and the hazard is
listed.
A worker is assumed to return: direct methods have a response timeout, and a
shadow update is a transaction. `JobFinishes` is checked for one job; with two,
`job_deadlock` refutes it. In the console, weak fairness per client for what mqtt.js
does by itself: an attempt ends (it has a connect timeout), the reconnect timer fires,
`end` completes. Nothing is assumed of success, losses or the user. For the overlays of
login and list, weak fairness of the end of their calls: axios has a timeout.

**Mutants.** Every property of a passing run has a mutant of the code that it
catches: for example `LoopPoolFullDrops` (a task the pool refuses is lost),
`UpdateTaskStatusAlways` (a late report overwrites a terminal row),
`CkCountOngoing` (the finish check ignores queued tasks), `OpenTasksQueued` (the
preload ignores sent tasks), `RoundGoesOnTooFar` (the round runs past the end of
the list, as it would with a length that is not refreshed after a deletion),
`AfterEndKeepsSubs` (the delegate of a new client keeps the topics of the old one),
`OnReconnectUncounted` (a client tries for ever),
`ShadowDataHearsAny` (Set Reported opens on the event of another thing's client).

### Findings

1. `doFinishJob` for a job read as CANCELED says "do nothing" and then updates the
   row with an empty status (`job/center.go:608-616`).
2. `CreateJob` returns before the tasks exist. A cancel in between finds nothing
   pending; the set-up then hands over the job as WAITING, and
   `jobScheduleFilter` overwrites CANCELED with IN_PROGRESS and runs it.
3. `CancelTask` reaches the runner's queue only. A task in the pending list, or
   parked for an offline thing (`job/runner.go:250-261`: the `break` leaves the
   inner loop, then the task is appended all the same), is started later.
4. `rolloutLoop` in `PutTasks`, `sysOpTaskLoop` in its SENT report,
   `watchTaskChangeLoop` of the runner in its hand-over and that of the center in
   `removePendingJob` wait on one another when one job ends while another is
   rolled out. All later requests block, although `ReceiveMgrMsg` is documented to
   "return immediately" (`job/job.go:42`).

Seen while reading, not stated as properties: `STOP_ROLLOUT` leaves a job
IN_PROGRESS with QUEUED tasks; no code sets `StartedAt` of a task, so task
timeouts never act; no code writes REMOVING; a restart with a CANCELING job gives
its SENT tasks to a runner that refuses them, so the job stays CANCELING.

Seen in the console, stated as conditions of what is checked and listed as hazards:

- Set Reported looks a "matching client" of the thing up by `clientId`
  (`ShadowData.vue:195`), but a connection's thing is its `username`. With a username
  typed over a selected one, the form on the page of the first thing publishes to the
  first thing's topic as the second. `ReportsToItsThing` is checked, and proved, for
  consoles in which nobody does that.
- `removeConnection` splices at the index `findIndex` returns, also when that is -1
  (`useMqtt.js:88`). A connection whose thing was deleted while its edit form was
  open is selected again by the form; Delete then takes the last connection out of the
  list. The model does the same, and `KeepsPromises` does not say which connection a
  click may remove.

## 4. Proofs

Everything in this section holds for any number of jobs, tasks, things, callers,
calls, restarts, connections, clients, topics, tokens and pages.

### Assumptions

The named `ASSUME`s of the modules, and nothing else but the hypotheses `LeftAlone` and
`NotRetyped` of one theorem each, which are explained with their arguments:

- `RepoAssumption`, `RunnerAssumption`, `CenterAssumption`, `SystemAssumption`: the
  sets of jobs and tasks are finite, each task has a job and a thing, pool and turn
  sizes are positive, the options are words the model knows.
- `DelegateBoundsAssumption`, `ConnsAssumption`, `StoredAssumption`,
  `SetsAssumption`, `BoundsAssumption` (console): bounds are naturals, the stored
  list names known connections, each once.
- `ThingsAssumption`, `SetsAssumption`, `LoginsAssumption`, `QueriesAssumption`,
  `ConnsAssumption`, `BoundsAssumption` (pages): the same for things, calls and tokens;
  a connection has a username.

TLC evaluates each of them in a run.

### Theorems

| theorem | states | inductive invariant |
|---|---|---|
| `JobSafetyProofs!TypeCorrect` | `Spec => []TypeOK` | itself |
| `JobSafetyProofs!ReportsAreTrue` | `Spec => []ReportedWasExecuted` | `SafetyInv` |
| `JobSafetyProofs!TaskStatusMovesForward` | `Spec => TaskStatusForward` | `SafetyInv` |
| `JobOutcomeProofs!CompletedJobsAreDone` | `Spec => []CompletedMeansDone` | `CompletionInv` |
| `JobOutcomeProofs!ForcedCancelDrains` | `Spec => []ForceCancelDrains` | `ForcedInv` |
| `JobCustodyProofs!NoEntryIsTwice` | `Spec => []NoEntryTwice` | `CustodyInv` |
| `JobCustodyProofs!TasksRunOncePerStart` | `Spec => []ExecutedOncePerStart` | `ExecInv` |
| `JobQueuedProofs!NoQueuedTaskIsLost` | `LeftAlone => (Spec => []NoTaskLost)` | `HeldInv` |
| `MqttConsoleProofs!ConsoleTypes` | `Spec => []TypeOK` | `ConsoleInv` |
| `MqttConsoleProofs!StorageIsCurrent` | `Spec => []StorageFollows` | `ConsoleInv` |
| `MqttConsoleProofs!SuggestedAreKept` | `Spec => []KeepListed` | `ConsoleInv` |
| `MqttConsoleProofs!OverlayHasCause` | `Spec => []ConnectingHasCause` | `ConsoleInv` |
| `MqttConsoleProofs!RemovedNeverReturns` | `Spec => RemovedStaysRemoved` | `ConsoleInv` |
| `MqttConsoleProofs!NewClientsStartEmpty` | `Spec => NoInheritedSubs` | `ConsoleInv` |
| `MqttRefinementProofs!StatusesAreKept` | `Spec => KeepsPromises` | `ConsoleInv` |
| `PlaygroundProofs!PlaygroundTypes` | `Spec => []TypeOK` | `PlaygroundInv` |
| `PlaygroundProofs!LoggedOutSeesLogin` | `Spec => []LoggedOutShowsLogin` | `PlaygroundInv` |
| `PlaygroundProofs!OverlaysHaveCause` | `Spec => []BusyHasCause` | `PlaygroundInv` |
| `PlaygroundProofs!ReportsReachTheirThing` | `NotRetyped => (Spec => []ReportsToItsThing)` | `PlaygroundInv` |
| `PlaygroundProofs!SessionIsKept` | `Spec => SessionLasts` | `PlaygroundInv` |

### Jobs: the argument

**Types.** One lemma per group of variables (`RepoType`, `LoopType`, ..., `ApiType`),
each with one step per action that changes the group. The interesting conjunct is the
index of `rolloutLoop`: it is 0 exactly outside a round and within the list inside
one, although the round deletes from the list; `RoRemove` by another goroutine cannot
interfere because it needs the loop in its select.

**`SafetyInv`.** `TaskStatusForward` is not inductive alone, for two reasons. The
set-up of a job writes QUEUED to all its rows, so it must happen once and find none
(`SetUpOnce`: a fresh id has no rows, at most one request and one goroutine set it up,
and before the insert there are no rows). And the late SENT of `sysOpTaskLoop` is
refused for terminal rows only, so it would move back a row that is IN_PROGRESS; no
code writes that value (`NeverInProgress`), a fact that whoever implements custom
operations will have to revisit. `ReportedWasExecuted` needs that the report in the
loop's hand, the outcome in a worker and the change in the watch loop all come from
executions (`ReportsAfterExecution`). The lemma `EveryTaskMove` says in which five
ways a step can change a row; both theorems follow from it.

**`HandoverInv`** adds what every further proof about jobs needs: a job in any list,
queue or channel has been set up for good (`Begun`: its id is used and no goroutine is
setting it up), the pending list names it once (`PendingOnce`), and the copies in its
entry are its own, each once (`ItemsOwn`). The lemmas `EveryListMove`,
`EveryCreatingMove`, `RunnerGets`, `ReportsFrom` and `ChecksFrom` say where whatever
arrives in a place comes from.

**`CompletionInv`.** COMPLETED is written by `rolloutLoop`, by `checkFinishJob` and
at the start of the process, each time because of something read in an earlier step.
What was read stays true because no task can be inserted any more (`CompletedDone`),
because a count of zero open tasks cannot grow (`CheckedDone`), and because an entry
without tasks belongs to a job without open tasks unless the loop is about to take it
out (`SetUpEmpty`, `EmptyDone`, `FinishEmpty`).

**`ForcedInv`.** When a forced cancel has answered, the tasks of the job are terminal
(`ForcedDead`), the job is out of the pending list or the request that takes it out is
still under way (`ForcedGone`), and once it is out the runner holds nothing of it
unless the message that deletes it is still to come (`ForcedDropped`). The order of the
two messages matters: the mutant `CallerRemoveOnly` breaks it.

**`CustodyInv`.** A task is in one hand at a time: entry, chunk, queue, parked list,
loop's hand (`RunnerSole`, `ItemApart`). The difficulty is the end of a schedule with
CANCEL, where rows are read again into an entry: the runner must have been emptied of
the job before (`Purged`), and the entry says CANCELED all along (`EndStatus`).
`NoEntryTwice` is part of it. `ExecInv` adds that the task of a copy in any of these
places has not been executed by this process (`ItemFresh`, `RunnerFresh`, `GateFresh`),
except where its job is stopped for good (`Stopped`): the loop gives up such a copy
when it meets it, and nobody sets the job's context back.

**`HeldInv`**, under `LeftAlone`: no request cancels or deletes a whole job and no
job has a schedule that could stop it, which is what the run `job_tasks` allows. Without it
`NoTaskLost` is false: a job canceled during its set-up is revived (finding 2) and may
come without its tasks, and `STOP_ROLLOUT` leaves QUEUED tasks behind. All else may
happen: cancels and deletes of single tasks, timeouts, things that come and go, lost
events, a full pool, restarts. `NoTaskLost` only looks at jobs that run; the invariant
`QueuedHeld` follows the tasks of every job from its set-up to the record of the result.
It is the converse of `CustodyInv`, and difficult where somebody lets go of a copy
because of something read earlier: `checkFinishJob` takes out a job and its
context (`CheckedOver`: no task of it is open), the runner is told to drop a task
(`DroppedOver`: its row is not QUEUED any more), and `sysOpTaskLoop` gives up a copy
whose job has no context (`LetThrough`: a QUEUED one has). `LiveInv` says that no job
ends but by COMPLETED, in the rows, the entries and the hands of every goroutine.
`ItemKept`, `ChunkKept`, `RunnerKept`, `PoolKept` and `ChangeKept` then say, place by
place, that a task which leaves is in the next place or no longer QUEUED;
`RestartHolds` does so for the preload.

### MQTT tool: the argument

`ConsoleInv == WorldInv /\ ListInv /\ FormInv /\ PendingInv`. An action is a
composition of operators from a `World` to the next, and the proof follows it: each
operator has a lemma that it preserves `Good` (the client of a delegate is of its
connection, a client that is ending has somebody who waits for the end, what is to be
destroyed is no longer listed, a delegate without client has no topics, `connecting`
has a cause) and that it disturbs no other client (`Calm`, `SameRoom`). `Room` says
that there is an unused client object for each callback that waits to connect, so that
the bound on clients never comes between an end and the connect that follows it. `RemovedStaysRemoved` needs `RequestFits`, what may be assumed of
the config that a request in flight captured, and what an open form may still show
(`FormInv`). `Removals`, which deletes the connections of a thing one after the
other, is a recursive function; its lemmas are proved by induction on sets of numbers.

**The refinement.** `Phase(w, c)` is the abstract status of a connection that is
listed, in a world. Every operator is `Local`: it changes the phase of at most the
connections it was called for, and never brings one up, with `success` of a client as
the only exception. A step that
is local to one connection is a step of `ConnStatus` or a stutter (`OneMoves`);
creation, success, removal of several connections and reload have lemmas of their own.
`StepMoves` collects the actions, `InitStatus` the initial states. The
liveness part, `Resolved`, is the property `AttemptsEnd` that TLC checks.

### Pages: the argument

`PlaygroundInv == Fine(World) /\ OthersInv`. Again one lemma per operator: it
preserves `Sound` (types and, for each call in flight, that the part which awaits it
is mounted) and `Keeps` the four promises `LoggedOut`, `LoginBusy`, `ListBusy`,
`PostBusy`. The point where they could fail is the end of a call: it is out of the bag
before its handler runs, so the overlay has no cause for a moment. `Open(w, c)` is
the weaker invariant for that moment, and each handler's lemma shows that it restores
the full one. A navigation unmounts parts and disowns their calls (`Disowned`), which
is why an overlay cannot outlive its page. `SessionLasts` needs that calls sent
by a handler carry the credentials of the session (`Signed`).

**`ReportsToItsThing`** holds under `NotRetyped`: no username is typed over a selected
one, so a connection with the client id of a thing has that thing's username. Without
it the statement is false: with the third kind of name in `Typed` TLC finds the message
that is sent as another thing. `NamesOk` carries this for every place and
for the form through creation, events and reload; a confirmation or form may be answered
when another thing is on the page or the connection is gone, and the event that opens the
publish form may come from any client.

### What stays with TLC

- `JobFinishes`, `OverlayLifts`, `OverlaysEnd`, `AttemptsEnd`: liveness
  under fairness is outside the prover's reach.
- `ShownAreHeld`: not proved yet (section 6).
- The four statements that are refuted: a counterexample needs no proof.

## 5. Not modelled

- Errors of the database, and isolation under MySQL, where statements of two
  transactions can overlap.
- The bound of the center's pool (100 goroutines); reuse of a job id after its
  deletion (two items of one id in the pending list); deletion of a job by another
  process.
- `GetPendingJobs`, `GetPendingTasksOfSys` and the like: reads that only tests use.
- Custom operations of jobs: not implemented in the code.
- HTTP, MQTT encoding, validation, logging, configuration, the SQL parser: no state
  whose order of change matters.
- Of the web console: the log of HTTP calls, viewers, editors, code snippets,
  suggestions while typing, a change of the host, the client behind *Test Connection*
  (`MqttConnForm.vue`), a connection with reconnect switched off, unread counts.
- Observed in the console's model and not stated as properties, because nothing in the
  repository promises otherwise: rows of an older query after two answers in the other
  order, a shadow that arrives for a thing no longer on the page, a 401 of an earlier
  session that ends the present one, the overlay of the subscriptions that stays when
  `sub` finds its client gone, a thing skipped by `updateThings` when another is
  deleted between two pages. They are hazards with a note.

## 6. Plan

1. **ShadowStore**: `setState` of concurrent callers on one row, with version
   conflicts, notifications after the transaction, deletion and re-creation;
   refinement of an abstract register that changes atomically. Theorems: the version
   grows by one per accepted change, an accepted change is based on the version it
   named.
2. **ShadowMerge**: `merge.go` (deep merge with nil as deletion, metadata, delta)
   as recursive definitions against a reference definition over small trees;
   TLC only.
3. **MethodHandler**: `waiting` and `pending`, connect events, timeouts, answers, use
   of a token twice. Theorem: an answer reaches the call that asked for it.
4. **Presence**: take-over in the broker, publishing goroutines, the event bus, the
   stored connection status and its synchronisation with EMQX.
5. **Things and rules**: creation and deletion across three tables; dropping pools.
6. **ShownAreHeld** for every number of clients: the topics of a delegate are among those
   answered for its clients that have not ended, and the store's mirror is the delegate's
   topics or older by one callback.

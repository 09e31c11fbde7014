# QueueMind and LinkLoom+: a TLA+ model

This directory specifies the programs of the repository: the QueueMind backend
(`backend/`), the connection and the task map of its dashboard (`frontend/`), and the
link shortener LinkLoom+ (`linkloom-plus/`). TLC checks the specifications on small
instances, TLAPS proves part of what they say for every value of the constants.
`PROJECT.json` lists components, runs, mutants, the map from definitions to source
lines, findings, hazards and theorems.

## 1. Inventory

| Component | State | Operations | Hard behaviour | What makes it correct |
|---|---|---|---|---|
| Orchestrator, `main.py` | one coroutine per launched task, one per request | `run_workload`, `process_single_task`, `_check_and_process_queued_tasks` | interleaving at every broadcast and sleep; duplicated coroutines; retries after a delay | no queued task is stranded, everything comes to rest, workers and books are consistent in every branch |
| Planner, `agents/planner.py` | none | `plan` | task ids do not depend on the request | the aggregation is last |
| Scheduler, `agents/scheduler.py` | `_pending_tasks` | `schedule`, `retry_pending` | a list re-examined by several coroutines, holding objects a later request replaced | no task lost or repeated, no lost wake-up |
| Task store, `store/task_store.py` | tasks, workers, history, failure logs, retry counter, metrics | `add_task`, `update_task`, queries | updates by id, reads by object | the ledgers agree |
| Load balancer, `agents/load_balancer.py` | the workers' records | `register_workers`, `assign_worker`, `release_worker` | several holders per worker, clamped loads | what clamping loses is bounded, least-loaded choice within that bound, no phantom load |
| Worker agent, `agents/worker_agent.py` | none | `execute` | takes time, may fail | |
| Retry agent, `agents/retry_agent.py` | none | `handle_failure` | reads one object, writes another | budget kept, dead letters justified |
| Critic, `agents/critic.py` | none | `validate` | re-checks dependencies later than the scheduler did | rejected work is dealt with |
| In-memory queue, `queue/memory_queue.py` | queues, offsets, group cursors | `produce`, `consume`, `stop` | consumers share a cursor and interrupt each other's passes | no partition starves, `stop` takes effect, everything is consumed |
| Monitor, `agents/monitor.py` | event log, metrics loop | `emit*` | broadcasts suspend the caller | announcements reach the clients |
| WebSocket manager, `websocket/manager.py` | connection list | `connect`, `broadcast`, `disconnect` | list changed while it is iterated, endpoints that fail | nothing twice, no connected client dropped, clients catch up |
| Dashboard, `frontend/` | task, worker and log maps; socket and timer | `handleMessage`, reconnect | initial state racing updates, several sockets and timers | the map catches up, the connection is never given up |
| LinkLoom+ API, `linkloom-plus/internal/api` | links, cache | create, redirect | cache filled by parallel requests, failing calls | a redirect leads to the link's URL, whatever fails in other requests |
| LinkLoom+ clicks, `internal/queue`, `internal/analytics` | broker queue, click rows | publish, deliver, insert, ack, nack | crash between insert and ack, lost connections, clicks that cannot be inserted | no accepted click lost, duplicates bounded |
| Kafka queue and worker process | broker | `produce`, `consume` | cannot be instantiated: `get_queue_depth` is abstract | |

How the parts interact. A request plans its tasks, stores them, schedules those
without dependencies and launches a coroutine for every QUEUED task. A coroutine
takes a worker, executes, gives the worker back and hands a failure to the retry
agent or a success to the critic; after a success it asks the scheduler to
re-examine the pending list and launches every task that is QUEUED then. Every step
is announced through the monitor and the WebSocket manager to the dashboards. The
message queue takes no part: the orchestrator writes to it and never reads it. All
calls are direct; the shared state is the store, the pending list, the connection list
and the event loop. Nothing in QueueMind is persistent: a restart begins with an empty
store, so there is no recovery to model. LinkLoom+ is a program of its own: an API
server and worker processes that share a database, a cache and a broker, all of which
survive them.

## 2. Modules

    Settings            config.py, models: constants, types
      LoadBalancer      load_balancer.py and the worker half of task_store.py
      TaskStore         the task half of task_store.py, models/task.py
        Scheduler       scheduler.py
          Orchestrator  main.py, retry_agent.py, critic.py, worker_agent.py;
                        composes LoadBalancer and Scheduler, reads Planner
    Planner             planner.py
    DependencyGate      abstract: what the orchestrator promises about order
    MemoryQueue         memory_queue.py
    ConnectionManager   manager.py and the /ws endpoint of main.py
      Monitor           monitor.py over the manager
        Feed            composes both with the dashboards' task maps (useStore.js)
    UseWebSocket        useWebSocket.js
    ClickLedger         abstract: what the click analytics promise
    ClickPipeline       rabbitmq.go, analytics/worker.go, cmd/worker/main.go
      LinkLoom          handlers.go and the schema, composed with the pipeline
    MCLoadBalancer, MCOrchestrator, MCMemoryQueue, MCFeed      instances for TLC
    LoadBalancerProofs, OrchestratorProofs, PipelineProofs, MemoryQueueProofs,
    FeedProofs, UseWebSocketProofs, LinkLoomProofs             theorems
    Sums                lemmas about sums over finite sets, for two of these

Two refinements tie abstract specifications to detailed ones: `Orchestrator` implements
`DependencyGate` (`GateSpec`), and `LinkLoom` implements `ClickLedger` (`LedgerSpec`).
`Orchestrator` takes over the actions of `LoadBalancer`; that its steps are steps of
`LBSpec` follows from this and is a lemma (`ImplementsLoadBalancer`), so that what is
proved of the balancer alone holds in the composed system.

### The orchestrator

**Atomicity.** A Python coroutine gives up the loop only where an `await` really
suspends. The store's methods take an `asyncio.Lock` that is never held across
a suspension and therefore never contended, and the in-memory queue is unbounded,
so their awaits do not suspend. Three things do: `asyncio.sleep` (executions,
back-off, the one-second wait), a broadcast to a WebSocket client, which may
suspend or not, and `create_task`, which defers the new coroutine. An action of
`Orchestrator` is the code between two such points. The broadcasts that follow
each other without a state change in between are one point. A broadcast that
does not suspend is covered, because the next action may follow at once.

**The ready queue.** asyncio's ready queue is first-in first-out, so a coroutine
that waits to start runs before one that goes to sleep later wakes up.
`ahead[p]` records this; without it the model would let a duplicate wait while
another coroutine executes a task for seconds, which cannot happen. The order in
which waiting coroutines start is left open.

**Identity.** `Object == Request \X Task`: every request creates new Task objects
for the same ids. `tasks[t]` is the request whose object the store holds, `job[p]`
the object a coroutine was created with, `pending` the objects in the scheduler's
list. `UpdateTask` goes through the store, as `update_task` does; `GivesUp` and
`AreDependenciesMet` read the coroutine's own object, as the code does.

| Variable | Code |
|---|---|
| `workers`, `tasks`, `execution_history`, `failure_logs`, `total_retries` | the fields of `TaskStore`; history and logs as a count per task id |
| `object` | the fields of the Task objects that the code reads back |
| `pending` | `_pending_tasks`, as a set: the order of the list follows from `turn` and `Position` |
| `produced` | messages produced per Task object (history variable) |
| `worker_id`, `job`, `result` | local variables of a `process_single_task` coroutine |
| `reqpc`, `pc`, `ahead` | where coroutines are suspended |

**Abstractions.** Execution times are 3 or 120 seconds (a slow loop can exceed the
simulated range; 120 is the critic's limit), errors one transient and one
permanent, the back-off a sleep of any length. A coroutine's `except` branch is
not modelled: no call in the `try` block raises for the values that occur. The
quality score is computed in tenths, with its random part as a choice; it never decides
(at least 7.8 against a limit of 5.0 when the other checks hold, theorem
`ScoreNeverDecidesHolds`). Statuses PARTITIONED and STORED and the worker status
`offline` are never set by the code; the proofs show the latter. Partitions and
offsets are written and never read.

**`DependencyGate`.** Work on a task begins only when what it needs is done, done tasks
stay done, only a task at work gets done. `Gate` maps `active` to the tasks that
have a coroutine and `done` to the tasks with a history entry. `Needs[t]` are the
dependencies that `t` has in every request that contains it: two workloads share their
ids, and differ in the aggregation when they differ in the number of chunks. The history
is kept per id and never taken back, in the code as here, so an execution for an earlier
request counts for a later one; the gate does not say that a resubmitted task waits for the
new execution of its dependencies.

**The load balancer.** `load_pct` goes up by 25 with each assignment to a worker and down with
each release, but is clamped at 100: with more than four holders it loses the
count, and the releases that follow bring it below the real use, down to 0 while others
still hold the worker. `overbooked[w]` is a history variable that says by how much the
holders exceeded four since the worker was last free; the properties bound by it what is lost
(`LoadLossBounded`) and how far the choice of a worker can be off (`LeastUtilizedChosen`).

### The in-memory queue

One topic from the end of the start-up on. A consumer is suspended only where it
yields a message and where it sleeps; an action is everything in between, so `Take` goes
through the rest of a pass and, if needed, the next one, up to the first message found
(`Hits`), and `GiveUp` is a walk that finds none. `_running` is read only between two
passes, which `Ahead` expresses. `taken`, `waited` and `late` are history variables.
Nothing in the repository calls `InMemoryQueue.consume` (the worker process makes a
`KafkaQueue`, section 6), so this component is checked as the library it is. Groups have
cursors of their own but share one queue per partition: a message goes to one group, not to
each, although the module's docstring promises the semantics of Kafka and consumer groups
(`find_groups`). The branch of `produce` that creates a missing topic cannot be reached after
the start-up.

### The live feed

`ConnectionManager` keeps `_active_connections` as a sequence and a broadcast as its
index into that live list: a removal while the broadcast is suspended shifts the list
under the index, as it does for Python's list iterator. `bc[e]` holds the message,
the index, the clients written to (history) and the failed sends, `waiting[c]` the coroutines
suspended in a send to `c`. The server's flow control is external: coroutines waiting for one connection
resume in their order, and a send to a broken connection may or may not raise. `Accept`
is the endpoint up to the initial state (`connect` and the reads do not suspend
afterwards); only in the gap after the handshake can a broadcast overtake the initial state.
An endpoint handles `WebSocketDisconnect` only (`EndpointEnds`). A frame that is not text or, after a
broadcast's send to the client has failed, the state the server is then in makes `receive_text` raise
something else: the endpoint is gone and the client stays listed (`EndpointFails`) until a later
send to it fails and a broadcast takes it off.
`disturbed` and `overtaken` are history variables, for the two ways in which a client can be left
with an old status: a task was being announced when a client left, so that the announcement
passes over the next client or reaches it after a later one; or the announcement was written to
this client before its initial state, which then undoes it. Both are forgotten with the next
announcement of the task (of `disturbed` tasks, the next one that has none of the same task
ahead of it), and `CaughtUp` says that nothing else ever leaves a client behind.
`Monitor` numbers a task's updates, so that "older" can be said; the log entry and the announcement
of a task are two broadcasts, and the scheduler's updates are not announced.
`Feed` adds the dashboards' `setAllTasks` and `updateTask`.

Not followed: the contents of log, metric and worker messages. One remark on them: the
`worker_update` message is a list, which `manager.py:45` turns into one string like every
payload that is neither a dictionary nor a model, so the dashboard's worker map does not receive worker records;
a `retry_event` is sent from `main.py:114`, and `emit_summary` has no caller.

### The dashboard's connection

`UseWebSocket` models the hook's refs, every socket it made, and its timers: one that
`reconnectTimer` names and those it no longer names. JavaScript callbacks run to their end,
so each is an action. `Remount` is React running cleanup and effect again on the same refs.
Two things the properties leave room for, because the code does: after a remount the late
`onclose` of the old socket can show "disconnected" while the new one is open, so that
`StatusTrue` holds in one direction only from then on ("connected" is never shown without a
socket that was opened); and two sockets can be open at once and handle every message twice.

### LinkLoom+

An action is one call of a goroutine to the database, the cache or the broker. Each may
fail; an insert that reports an error may have been committed. RabbitMQ is
external: a durable queue that pushes every ready message to a connected worker (no prefetch limit is
set) and takes back what was not acknowledged when the connection goes. A worker that
loses its connection returns from `Start`, and its process stays without reconnecting.
`Insertable` is the schema: the foreign key on the link and the column limits. Clicks
outside it exist: the country "Unknown" in a two-letter column, a month without partition,
a click on a code without a link, which is accepted when Redis failed. They are refused and
queued again for ever; `EventuallyCounted` says they do not hold up the others. The
discarding of malformed messages cannot happen, as only `PublishClickEvent` writes to the queue.

When Redis fails otherwise than by a miss, `handleRedirect` does not ask the database and
redirects to the empty URL, which `http.Redirect` turns into "/", also for a code that has a
link; clients may cache this for 15 minutes (`max-age=900`). The model has it as it is (`GetCacheFails`).
`redisFailed` (history) tells these requests apart, and `RedirectRight` is about all others:
none of them is led astray by a request that fails beside it.

## 3. Runs

`MCOrchestrator` takes its plans from `Planner` and cuts them to a set of stages;
a dependency outside the cut counts as done, as for the state in which the
earlier stages have been validated.

| Run | Instance | Checks | States |
|---|---|---|---|
| `lb_saturated` | 10 coroutines, 2 CPU workers, loads clamped at both ends | types, loads never overstated and understated within bounds, least used worker within that bound, no phantom busy worker | 86,442 |
| `orch_join` | last stages and aggregation, 1 request, 4 coroutines, 2 IO workers | eight invariants, refinement of `DependencyGate` | 211,753 |
| `orch_resubmit` | two stages, 2 requests, 3 coroutines | no message lost or repeated, no dependency never executed, dead letters justified, nothing abandoned, with stale objects | 942,627 |
| `orch_liveness` | first stages of 2 chunks, no CPU worker, fairness | tasks without a worker stay queued, every coroutine returns | 11,424 |
| `memory_queue` | 3 partitions, 3 consumers in 2 groups, 4 messages, a stop | no starvation, bounded stop; all consumed, all consumers return | 27,564 |
| `feed` | 2 clients, 2 coroutines, the metrics loop, 2 updates of a task | nothing sent twice, clients at rest have caught up but for what `disturbed` and `overtaken` name, connected clients stay listed | 2,012,158 |
| `hook` | 4 sockets, 3 failures, 3 remounts | never stranded, sockets and timers bounded, "connected" only with a socket, reconnects | 28,769 |
| `linkloom` | 2 requests, 1 code, 2 URLs, 2 clicks, 2 workers, 1 fault | cache and unfailing redirects right, no click lost, surplus rows bounded, refinement of `ClickLedger`, clicks counted in the end | 536,516 |

Four runs expect a violation; each is a disagreement between the code and what
the repository says about it (`findings` in `PROJECT.json`): `find_duplicate` (a join's
release is launched twice), `find_stuck` (a rejected task stays COMPLETED for ever),
`find_skipped` (a client that leaves while a broadcast waits for it makes the broadcast
pass over the next one) and `find_groups` (a message one consumer group takes is gone for
the others).

Differences met on the way that have no run:
- `docs/architecture.md:51` sends a retry back to the queue, but `RetryAfterBackoff`
  takes a task from CREATED straight to a worker.
- `load_balancer.py:4` promises least-loaded-first, but `load_pct` is clamped at 100: workers with
  more than four holders tie, and one that has had more counts as less loaded than it is, by as
  much as `overbooked` says. A release shows a worker idle that others still hold.
- A resubmission lets a new task pay for the retries of the object it replaced (`DeadLetterJustified`
  says "some object of its id" for this reason), and one with more chunks lets an aggregation run
  before its new reports (`AggregateAfterAll` is about the tasks all workloads contain).
- An endpoint that ends otherwise than by `WebSocketDisconnect` leaves its client listed.
- After a Redis failure a link that exists redirects to "/".

**Bounds.** `Pipe` bounds the coroutines alive at once; a launch that needs more
waits until one is free. With one request four are never exceeded: a fifth leaves
the number of states unchanged, and `Termination` would fail if a launch were
blocked. With two requests three coroutines suffice for a stale and a current
one of the same task next to a third. `MAX_RETRIES` of 1 gives a retry and an exhausted
budget; the code's default of 3 repeats them. Two IO workers give the balancer a choice.
In `MCLoadBalancer` ten coroutines on two workers are enough to clamp both of them at 100, and
eight served tasks (`MaxServed`) to bring a worker back to 0 while it is held; the coroutines are
numbered, and of those in the same place only one moves (symmetry by hand). `orch_liveness` has the
first stages of two chunks because the second chunk's success is what launches the first one's
deferred task again. Four messages on three
partitions make the round robin wrap and fill one partition twice; a partition argument of 5
exercises the modulus. In `Feed`, `MaxUpdates` of 2 gives a newer and an older state to mix
up, two clients a first and a next one; `MaxChan` holds back new broadcasts, never a
delivery. In `UseWebSocket` four sockets are as many as three remounts can keep alive
(`ChainsBounded`), so none is ever missing. `LinkLoom` needs one code for
collisions with two URLs, and two workers for a redelivery to another one; its
`MaxFaults` counts signals, crashes, lost connections and failing inserts of good clicks, while
cache and API failures are free. Its safety properties also hold with two faults
(2,029,736 states); the proofs cover any number.
Symmetry permutes coroutines, clients or emitters, which are interchangeable, and
is not used for liveness. Deadlock is not reported as an error where the system may rest:
when no request is left, after `stop`, or with an unmounted dashboard.

**Fairness.** `FairSpec` assumes weak fairness of each coroutine and of each
request's scheduling and launching: the loop runs every ready coroutine, timers
expire and a WebSocket send completes or fails. Nothing is assumed of clients:
`SubmitPlan` is not fair. `MemoryQueue` assumes that a consumer is resumed after a yield or
a sleep; nothing is assumed of `Produce` and `Stop`. `UseWebSocket` assumes that timers
fire and that a connecting or closing socket gets there or fails, and nothing of mounting and
failures. `LinkLoom` assumes that the broker delivers, that a running worker makes progress
and that one that was told to stop exits; nobody has to start a worker,
so `EventuallyCounted` has the premise that one stays connected.

**Mutants.** Definitions commented as mutants are plausible mistakes in the code
they stand beside (a dropped guard, a missing release); each breaks the property
that `PROJECT.json` pairs it with.

## 4. Proofs

Every theorem holds for any number of workers, coroutines, requests, retries, partitions,
consumers, clients, sockets, clicks and faults and any plans that satisfy the named assumptions
of the modules (`NumWorkersAssumption`, `PipeAssumption`, `TaskAssumption`, `NoneAssumption`,
`RequestAssumption`, `PlanAssumption`, `OrchestratorAssumption`, `QueueAssumption`,
`MonitorAssumption`, `HookAssumption`, `PipelineAssumption`, `LinkLoomAssumption`): the sets are
finite where cardinalities or sums are taken, there is a partition, `None` and `Root` are none of
the values, and a plan lists a task after its dependencies.

The sums and the connection list need an induction over data. The library's induction rules take an operator as
parameter, which the provers cannot instantiate; `SubsetInduction` (`Sums`) and `UpTo`
(`FeedProofs`) are stated for a set instead, and rest on the minimal element that a
well-founded relation gives every set (`WFMin`).

**`Sums`.** `SumIsCardinality`: the `SumFunction` of a function to the naturals is the number of
squares in its bar chart. What the ledgers need follows from facts about cardinalities: the
sum after one value changed (`SumUpdate`), the sum of the larger of two functions.

**`LoadBalancerProofs`.** `LBTypeCorrect`, `LoadNeverOverstatedHolds`, `NoPhantomBusyHolds` and
`LoadLossBoundedHolds` are inductive over the type invariant, through what
`AssignHolders` and `ReleaseHolders` say about the cardinality of a worker's set of
holders. A clamped assignment makes the worker's excess at least what is lost; a release that
leaves no holder takes loss and excess back to 0. `LeastUtilizedChosenHolds` combines the two bounds on
`load_pct`: the chosen worker's load is at most the other's, which is at most 25 per holder.

**`OrchestratorProofs`.** `CoreInv` is the inductive invariant under everything else:

- `TypeOK`;
- `NoWorkerLeak`: a release needs a worker in `worker_id`;
- `HeldOrProduced`: an object is in the pending list or has had its message produced,
  never both; a pass over the list needs it to keep the list free of launched objects;
- `Bookkeeping`: a coroutine's task id is always known to the store (else `update_task`
  would do nothing), stored tasks belong to a submitted plan, objects of a request
  not yet submitted are untouched, and no worker is `offline`.

The lemma `ImplementsLoadBalancer` (`Spec => LBSpec`) carries the load balancer's theorems over to
the composed system.

**`PipelineProofs`.** `ProcessShape` says once what a step of a coroutine can do
(change its own task's current object, its own program counter, nothing in the list)
and the proofs of the invariants cite it in place of the nine actions.

- `RetryBudgetHolds` and `CurrentTaskHeldHolds` are inductive relative to `CoreInv`.
- `NoLostWakeupHolds` rests on `PassLeavesUnmet`: after a pass, what is left in the
  list has an unmet dependency, and only a coroutine that will make a pass of its
  own can meet it.
- `QueuedIsServedHolds`: whoever queues a task launches in the same action, or is
  a request about to launch.
- `UnservableStaysQueuedHolds` needs `WaitingInv`: a coroutine of a task that no worker
  can run never gets past `assign_worker`, so nobody is there to change its status.
- `NothingAbandonedHolds` needs `StatusInv`: a status in the middle of the pipeline has a coroutine at
  that place, and a CREATED task is in the list, about to be scheduled, or in the hands of a
  coroutine that sleeps or starts over. With duplicates the coroutine need not be the one
  that set the status.
- `DeadLetterJustifiedHolds` uses `RetryBudgetHolds`. The retry agent counts on the coroutine's object and
  writes the stored one, so the exhausted object is some object of the id.
- `DependenciesExecutedHolds` needs `OrderInv`: a completed task has executed, and a
  task is queued only when what it needs in all workloads has.
- `ImplementsGate` shows `Spec => GateSpec`: `HistoryStep` says how a step
  extends the history, and `DependenciesExecutedHolds`, in the state after the step, that whatever
  has begun had its needs met.
- `AggregateAfterAllHolds` is about workloads as the planner makes them, of any numbers of chunks, equal
  or not (`PlannedWorkloads`, its one hypothesis). `HistoryClosed` (whatever has been executed
  had all it needs executed) carries the order back from the reports through every stage of a
  chunk, both branches of the join included (`ChunkExecuted`), for the chunks that
  all workloads have (`SharedChunk`).
- `LedgersAgreeHolds`: `WorkerLedgers` and `RetryLedger` are inductive relative to `CoreInv`. An
  execution adds one to a worker's counter and one to a history entry; a failure adds one to a
  counter and puts the coroutine among the unlogged, which the log entry takes out again. The
  retry counter agrees only when no object is replaced, so that part is about one request.
- `ScoreNeverDecidesHolds` bounds the quality score for any execution time.

**`MemoryQueueProofs`.** `TypeCorrect`, and over it two inductions. `StopInv`: after `stop` the looks a consumer has left in its pass and the messages it was
given since are fewer than `N` together. `FairInv`: the messages a group took past
a waiting partition plus the cursor's distance (`Dist`) to it are fewer than `N`; each of several
consumers moves the same cursor, so a look brings it nearer whoever makes it.

**`FeedProofs`.** `ListInv` is the inductive invariant of the connection list: no client is listed
twice, a coroutine is suspended in one send only and to a client it has written to, only broken
clients have failed, every connected client is listed (`ConnectedIsListed`) and has its endpoint, and
`NeverTwice`. That a client whose send failed is taken off long after does no harm rests on the
server not using a connection again before both the endpoint and the broadcasts have forgotten it.
A removal moves clients towards the front only (`WithoutFacts`, by induction over the list), so
none comes ahead of an index it was behind; that is why nothing is sent twice, and also why
somebody may be skipped (`find_skipped`).

`CaughtUpHolds` needs `CatchInv`, which says of each task that is not `disturbed` that it is in order
(`InOrder(t)`), whatever happens to the others:

- `PlaceInv`: a coroutine with a broadcast under way is suspended on the client at its index;
- `OrderInv`: a broadcast of an outdated status has one of the last status behind it, at a smaller
  index or later in the same queue;
- `ReachInv`: every connected client that was not `overtaken` will show the last status when it has
  handled what was written to it (or the initial state that waits for it), or the last announcement has
  not come to it yet.

A disturbed task is in order again when it is announced with no announcement of it under way
(`TurnAnnounce`).

`InTurn` is this invariant in the middle of a step, when a coroutine has left its queue and not yet
written. The lemmas `Turn...` lead there from each kind of step that broadcasts, `WriteKeeps` and
`FinishKeeps` lead back; the others keep `CatchInv` directly (`...Catches`).

**`UseWebSocketProofs`.** `HookInv` joins the type invariant, the three properties and
`Fresh` (before the first mount there is no socket and no timer). `ChainsBounded` is
inductive by counting: connecting uses up the timer that fired or the remount, and a close trades
a socket for a timer.

**`LinkLoomProofs`.** The two halves are separate inductions. `ApiInv` says what a handler
knows at each call: between the insert or the select and the cache write, the URL in its hands is
the stored one unless this request's own Redis call failed, and stored links never change;
`CacheCoherentHolds` and `RedirectRightHolds` follow.
`PipeInv` says what a worker knows: a click at work is a published one, has a row when
it is about to be acknowledged, and a worker without connection holds no deliveries.
`PipelineKeeps` reduces every pipeline step to one of three effects (`Stutters`,
`Counts(e)`, `Settles(e)`) and `PipeStep` adds `Accepts(e)`; `NoClickLostHolds` and
`ImplementsLedger` are proved from these four effects, which are the actions of `ClickLedger`.
`SurplusBoundedHolds` needs `CountInv`: the rows, the messages in the queue and the chances the
workers still have to insert a row (`Chances`) are together at most the published clicks plus the
faults. A delivery, an insert and an acknowledgement move a chance or use it up; only a
publication or a fault makes one.

Every invariant, action property and refinement that a passing run checks is also stated by a
theorem; the one hypothesis beyond the assumptions of the modules is `PlannedWorkloads`, and the last
part of `LedgersAgree` is about one request by its own statement. Out of the prover's reach, and
checked by TLC only: `Termination`, `AllConsumed`, `Reconnects` and `EventuallyCounted` (fairness).
`EventuallySettled` is refuted (`find_stuck`).

## 5. Plan

What is left to prove:

1. What a resubmission keeps of the order between the tasks of one and the same request: the
   history is cumulative per id, so `DependenciesExecuted` does not say it.
2. A broadcast during which no client leaves reaches every client that was listed when it
   started. `CatchInv` implies as much for announcements; it is worth a property of its own.
3. `AllConsumed` and `Reconnects` as step counts: a bound on the steps of a consumer or of the
   hook until they happen would be a safety property, which can be proved.

## 6. Not modelled

- Kafka mode: `KafkaQueue` leaves the abstract `get_queue_depth` undefined, so it
  cannot be instantiated, and the worker process stops at its first statement.
- The read-only REST endpoints, the queries of store, queue and balancer, the metrics and the
  monitor's event log of 500 entries: nothing reads them back into the system.
- The shutdown of the backend: it cancels every coroutine and all state is lost with the process.
- The dashboard's views, metrics, logs and settings: presentation.
- Short code characters, URL syntax, configuration and connection set-up of LinkLoom+.
- Scripts, logging, helpers and tests.

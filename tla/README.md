# TLA+ models of bokchoy

bokchoy (Go, `src/`) is a task queue on Redis. Producers publish tasks, worker
processes consume them, run a handler for each, retry the failed ones and keep
the result. This directory holds TLA+ models of it, TLC configurations that
check them on small instances, and proofs checked by TLAPS.

    tlc -workers 2 -config tasks_lifecycle.cfg MCTaskSystem
    tlapm TaskSystemProofs.tla        (and the other *Proofs modules)

## Inventory

| Component | State | Operations | What is hard | What makes it correct |
|---|---|---|---|---|
| Redis broker (`broker_redis.go`) | per queue a list of ready ids, a zset of delayed ids, a hash per task; per process the set `queues` of started movers and the map `scripts` of script ids | Publish, Consume, Set, Get, Count, Delete, Empty, Flush; Initialize, evalSha; the mover goroutine (`consumeDelayed`) | every operation is several Redis commands and others run in between; crashes, lost replies, commands sent twice; whole seconds; scripts that Redis forgets, in a map all goroutines share | a task is in one place, is neither lost nor delivered twice, not early, its hash is there when its id is; the mover writes nothing old over it; a call finds its script |
| Consumer (`consumer.go`) | the Task object, the channel `conn`, the variable `err` of handleTask | Handle, handleTask, handleError, handleRequest; the loop, start, stop | two goroutines on one Task; timeouts; panics; two calls of handleError | the handler runs alone and within its retries, the stored result is the real one, the worker comes back |
| Queue (`queue.go`) | its consumers, middlewares and event handlers | NewTask, PublishTask, Save, Consume, Get, Cancel, Count, fireEvents, Use, HandleFunc, start, stop | Get and Save of Cancel are not atomic; failing event handlers | a cancellation sticks, what is over expires, events agree with what is stored |
| Task (`task.go`) | status, old status, retries left, ETA, settings | NewTask, Serialize, TaskFromPayload, Finished, RetryETA | index arithmetic on the intervals, a status that depends on its history, fields that are left out | retries wait for their intervals, settings survive being stored, a task has one life |
| Engine (`bokchoy.go`) | the WaitGroup, the queues, the servers, the middlewares | New, Use, Queue, Run, Stop | Stop racing Run, the loops and handlers; called again by a second signal | Run returns exactly when everything is stopped |
| Middlewares (`middleware/`, `handler.go`, `context.go`, `request.go`) | slices of the engine, the queues and the consumers; the request and its context | chain, Recoverer, RequestID, Timeout, Logger | slices that share arrays; copies of the request | a request goes through its own chain; the error of a panic reaches the consumer |
| Options, constants, conversions (`options.go`, `constants.go`, `utils.go`) | values | newOptions, With..., mapDuration and its like | defaults that are replaced as a whole, whole seconds, optional fields | a task is retried and timed as it was asked to be |
| RPC (`contrib/rpc`) | the gRPC server | PublishTask, Start, Stop | optional fields, a client that repeats calls | a request means what the same options mean |
| Serializers, tracer, logging, terminal, Sentry, configuration structs, examples | none that others read | | | |

Consumers call the broker (through Queue) to consume, save and publish; movers
and consumers of all processes share Redis, those of one process the map of
scripts; the two goroutines of an attempt share the Task object; Run, Stop and
the loops share the WaitGroup and each consumer's mutex; the engine, its queues
and their consumers share the arrays of middlewares.

The list of hazards, each at its line, is in `PROJECT.json` under `hazards`.

## Modules

| Module | Models | State and actions |
|---|---|---|
| `TaskQueue` | the abstract queue: a task is in one place, a consumer takes it, returns it (retry) or completes it; it may be dropped only when `Lossy` | `place` |
| `RedisBroker` | one queue in Redis, producers, consumers and movers | one action per Redis command, MULTI or script: `HMSet` and `Push` are the two halves of a publishing pipeline, `BRPop`/`Payloads`/`Start`/`Finish`/`Retry` the loop of a consumer, `MoverTick`/`MoverRange`/`MoverPayloads`/`MoverCommit` the mover; `*Error`, `*Again` and `Crash` the failures; `Empty`, `Flush`, `Delete`, `Expire` the rest |
| `MCRedisBroker` | constant values for TLC | |
| `RedisBrokerProofs` | theorems about `RedisBroker`: types, one copy of a task, one delivery for each publication | |
| `DeliveryProofs` | theorems about `RedisBroker`: not early, data before id, nothing lost, and that it implements `TaskQueue` | |
| `Task` | the task object | operators `Finished`, `Stored`/`Loaded`, `RetryETA` |
| `TaskLife` | the abstract life of a task: published once, processed by one consumer at a time and at most once more than it has retries, ended once, expired only when it is over | `status`, `runs`, `running`, `asked` |
| `TaskSystem`, `MCTaskSystem` | the parts of a queue around the hash of each task: producers, consumers, the mover, Cancel, Count and the time to live | `hash` is what Redis holds; one action per command; `PublishHash`/`PublishId`, `BRPop`/`Load`/`Begin`/`EndSave`/`EndRetry`/`RetryId`, `MoverRange`/`MoverPayloads`/`MoverCommit`, `CancelGet`/`CancelSave`, `CountFirst`/`CountSecond` |
| `TaskSystemProofs` | theorems about `TaskSystem`, and that it implements `TaskLife` | |
| `Scripts`, `MCScripts` | the Lua scripts of the broker: `loaded` is what Redis knows, `scripts` the map of each process | one action per command and per access to the map: `ReadId`, `EvalSha`, `EvalShaAgain` are payloadsFromKeys and evalSha, `Ping`/`Make`/`Load`/`Store` Initialize |
| `ScriptsProofs` | theorems about `Scripts` | |
| `Middlewares`, `MCMiddlewares` | slices with their arrays and capacities, the append of each handleTask, the walk of chain and the way of a request through it | `Use`, `Queue`, `QueueUse`, `HandleFunc` before `Run`; then `Consume`, `AppendHandleRequest`, `Wrap`, `Handle` |
| `Consumer` | one task through its attempts; per attempt the goroutine `main` (Handle, handleTask) and the goroutine `exec` (middlewares, handler, handleRequest) | one action per step between two accesses to state the other goroutine or Redis may change; `Check`, `Mark`, `TestRetries`, `DecRetries`, `PublishRetry`, `SaveResult` are handleError, run by either goroutine; `CancelGet`/`CancelSave` are Queue.Cancel |
| `ConsumerProofs` | theorems about `Consumer` | |
| `Engine` | Run, Stop, the loops of the consumers, the servers | `wg` is the WaitGroup's counter; a consumer holds its mutex while `loop` is `"handle"` |
| `EngineProofs` | theorems about `Engine` | |
| `Options` | the options of a task, their defaults, how those of the engine, the task and an RPC request combine; what Serialize and TaskFromPayload make of them | operators |
| `Retries`, `MCRetries` | one task with its options, stored between its attempts: how often, when and for how long it runs | `Receive`, `Succeed`, `Fail`, `TimeOut`, with the clock |
| `RetriesProofs` | theorems about `Retries` | |
| `MiddlewaresProofs` | theorems about `Middlewares` | |

Operators whose comment begins "Faulty variant" are not part of the models:
each is a definition as a plausible bug would have it, and `PROJECT.json`
pairs it with the property that must fail when it takes the definition's place.

`RedisBroker`, `Consumer` and `TaskSystem` look at the same loop from three
sides. In `RedisBroker` a handler is one step that ends in `Finish` or `Retry`
and the hash of a task is only there or not there. In `Consumer` the broker is a
counter of ids and the one hash, without delay, and the attempt is seen in
full. `TaskSystem` has the contents of the hashes and everybody who writes
them; its list and zset are sets, as `RedisBrokerProofs` shows they may be
taken, any delayed task may be due, and an attempt ends in one step with any of
the results that `Consumer` comes to. `Scripts` opens one call of the broker,
and `Middlewares` what is between the consumer and its handler.

## Runs

| Run | Question | Bounds |
|---|---|---|
| `broker_faults` | With crashes, failing commands, lost BRPOP replies and Empty, Flush and Delete at any moment, is a task ever in two places, delivered more often than published, or ready early? Does the broker still implement the abstract queue that may drop tasks? | 2 tasks, 2 consumers of one process, 2 seconds, 1 retry |
| `broker_exact` | Without failures, is every task kept and handled, does its hash always exist while its id does, and does the broker implement the lossless queue? | 2 tasks, 2 consumers, 5 ticks of half a second, 1 retry, TTL 1 s |
| `broker_at_least_once` | When go-redis sends pipelines and transactions again, is anything lost or early? | 2 tasks, a pipeline is sent again while its task was delivered less than twice |
| `broker_two_workers` | a divergence, see below | 2 worker processes, each with its mover |
| `consumer_results` | Success, failure, cancellation, panic under Recoverer, and nothing that fails: are all retries used, is a success the handler's, does the task settle, and does what is over expire? | 2 retries, up to 4 attempts, 2 consumers |
| `consumer_faults` | The same with saves that fail before or after they are executed, pipelines that fail half-way, failing event handlers, unrecovered panics that kill the process, and one Cancel: does the handler still run alone and within its retries, and is a success event the last word? | 2 retries, up to 4 attempts, 2 consumers |
| `consumer_timeout` | With handlers that exceed the timeout or hang, and saves that fail, so that both goroutines of an attempt run handleError: does a deadline make more than one copy of the task, is a timeout taken for a success, and does the consumer come back? | 1 retry, 2 attempts, 2 consumers |
| `engine_stop` | Is the WaitGroup exact in every interleaving, does Run block until all is stopped, does Stop end Run, and how many tasks does a closed consumer still handle? | 3 consumers, 1 server, 3 tasks, 1 Stop |
| `tasks_lifecycle` | With all who write a task's hash at once, and a crash or a failing command: does the mover write back what is there, does a cancellation stick, does Count count once, and does a task live the life of `TaskLife`? | 2 tasks, 2 consumers, 2 retries, 1 fault, 1 Cancel, 1 Count |
| `scripts_restart` | When Redis forgets its scripts under goroutines of two processes, is the map of a process complete again, does the repeated call find its script unless it had read the map while it was being filled, and does a goroutine that is alone recover? | 2 processes, one with a consumer and a mover, one with a consumer; 2 scripts, 1 restart, 1 failing command |
| `middlewares_shared` | Whatever the order of registration: does each request go through its own chain and back to its own queue, and is a panic recorded? | 2 queues, 3 consumers, 2 tasks, 1 retry, 2 middlewares of the engine and 1 of each queue, in one call of Use or several |
| `retries_spaced` | Does a task run as often as it was asked to, spaced by its intervals in their order, with settings that survive being stored? | 2 engines; no options, lists of up to 3 options that name a field twice, all lists of up to 3 intervals of half a second, 1.5 s and 3 s, up to 3 retries; RPC requests with and without each field; the clock starts at 1, ticks 3 times by half a second and otherwise jumps to just before the next event |

Two tasks and two consumers are enough for one task to overtake, duplicate or
destroy another, and one retry for a task to pass through every place twice;
`tasks_lifecycle` has two, so that a failed task is stored with retries left and
without. Three consumers are enough in `middlewares_shared` for two to share a slot in
one queue while another queue has its own, and two in one process of
`scripts_restart` for one to empty the map under the other. The clock passes two seconds at least, so that a score can lie before, in and
after the second of the mover. `MaxTime`, `Latency` (how long a pipeline may
take), `ResendLimit`, `MaxAttempts`, `MaxCancels`, `MaxCounts`, `MaxFaults`,
`MaxErrors`, `MaxRestarts`, `MaxTasks`, `MaxStops`, `MaxEngineUses`,
`MaxQueueUses`, `MaxWaits` and `MaxIntervals` are bounds of the models, not of
the program. Tasks, consumers and producers are symmetric in `MCRedisBroker` and
`MCTaskSystem` wherever no liveness is checked.

The runs of `Consumer`, `Engine`, `Retries`, `Middlewares` and `TaskSystem` do
not check deadlock: there the life of the tasks, of a process or of a schedule
comes to its end. `RedisBroker` and `Scripts` never stop, and deadlock is checked.

### Preconditions that matter

* `broker_exact` takes countdowns of at least a second plus `Latency`: with
  shorter ones the mover may remove an id it has not read (below).
* `broker_faults` and the proofs under `ExactSettings` assume one worker process (`ProcessOf` is
  constant), no `RedisConfig.Prefix` and no command that is sent twice.
* `engine_stop` calls Stop once, after Run has begun to wait, with all queues
  run. Without servers it may be called any number of times, which the proofs
  cover; the other cases fail (below).
* `consumer_results` has no failure, deadline or cancellation: `AllRetriesUsed`,
  `KeptForTTL` and `EventuallySettled` speak of a task nothing disturbs. What
  may disturb it is in `consumer_faults` and `consumer_timeout`.
* `HandlerAlone` allows one copy more for each attempt that has passed its
  deadline, and `SuccessSaved` a hash that is still processing where the error of
  a save was hidden; what the documentation says without these exceptions,
  `RetryBudget` and `SuccessIsStored`, fails (below).
* A countdown of 0 ticks in `RedisBroker` is a delay shorter than a tick.
  `WithCountdown(0)` is a negative one: NewTask computes the ETA, and publish
  finds it past.
* `TaskSystem` takes the same settings as the proofs of `RedisBroker`,
  countdowns as `broker_exact` does, and a TTL of at least a second. An attempt
  ends in one step, so that its timeout is a result like another and no second
  call of handleError follows.
* `middlewares_shared` gives the engine at most two middlewares, and a queue its
  own before its HandleFunc. Then the slices of the engine are full, and only
  the consumers of one queue share a slot; a third middleware can leave room in
  an array that the consumers of all queues share (below).
  That an unrecovered panic ends the process is in `Consumer`.
* `retries_spaced` gives every task a payload; `SettingsStable` speaks of whole
  seconds.

### Fairness

`FairSpec` of `RedisBroker`: every goroutine that can take a step does so at
last, the mover's ticker fires, the clock advances and handlers return
(Task.Timeout sees to that). Nothing is assumed of producers, failures or
maintenance. `FairSpec` of `Consumer`: goroutines are scheduled, handlers end
unless they hang, a deadline that is reached fires or the channel meeting
happens; Cancel is not fair. `FairSpec` of `Engine`: the same, and strong
fairness for the mutex of a consumer that stop waits for, because a Go mutex
in starvation mode is handed to the goroutine that has waited. `FairSpec` of
`Scripts`: goroutines are scheduled, and there are always tasks for them; Redis
restarts and fails only as often as the bounds say.

## Where the code departs from what it says

The run `broker_two_workers` expects a violation of `NoDuplicateDelivery`: the
mover reads and removes in separate steps (`broker_redis.go:196`), and the movers
of two worker processes both publish a task that is due.

Others the same modules show when a constant of a run is changed, or the
definition is added to it; the definition named then fails:

| Claim | Definition | Change |
|---|---|---|
| exactly once (README.md:443) | `NoDuplicateDelivery` | `Prefix = TRUE` with a delayed task: the range is removed from a key without the prefix (`broker_redis.go:220`) |
| exactly once | `NoDuplicateDelivery` | `"resend" \in Faults` |
| a negative countdown publishes "at front of others" (README.md:168) | `PriorityFirst` | `Countdowns <- NoOrPriority`: LPUSH and BRPOP work on opposite ends of the list, so a priority task is taken last (`broker_redis.go:478`) |
| "delay the task" (README.md:154) | `NotEarly` | `"resend" \in Faults` with a retry: of two copies of a task one is run and retried, the other is ready before that retry is due |
| exactly once | `NothingLost` | `"crash"` or `"redis"` in `Faults`: the id is popped before it is handled |
| "To avoid data loss" (`broker_redis.go:219`) | `NothingLost` | `0 \in Countdowns`, a delay shorter than a tick: an id added in the second being moved is removed unread |
| Empty "will remove all waiting tasks" (README.md:375) | `EmptyRemovesWaiting` | `"empty" \in Admin` with a delayed task: the zset stays |
| onComplete runs when a task is completed (`queue.go:61`) | `CompleteAfterEnd` | any retry: on the last one Finished is true before the handler starts |
| "retrying in" (`consumer.go:150`) | `RetriedTaskRuns` | `Timeouts = TRUE`: a canceled task is published again and then skipped |
| a failing task is "retried `3 times`" (README.md:283) | `RetryBudget` | `consumer_timeout` with `MaxAttempts = 3`: after a timeout two goroutines run handleError on the same Task, both may publish a retry and MaxRetries becomes negative (`consumer.go:109`) |
| a goroutine leaks unless the handler ends (README.md:307) | `NoLeak` | `consumer_timeout` as it is: after a timeout it leaks even then, in its send on `conn` (`consumer.go:62`) |
| a panicking task is failed (`docs/a-tour-of-bokchoy.md:371`) | `SuccessIsReal` | `Recoverer = "behind"`, or `Timeouts = TRUE` with `"panic"` |
| the TTL of tasks (README.md:359) | `EndedHasTTL` | `Timeouts = TRUE`: a canceled task has none |
| OnSuccess is "executed when a task is succeeded" (`queue.go:80`) | `SuccessIsStored` | `consumer_faults` as it is: the save of the result fails, and the second handleError hides the error of the first (`consumer.go:121`) |
| "gracefully shutdown consumers" (`docs/a-tour-of-bokchoy.md:208`) | `GracefulShutdown` | `engine_stop` as it is: stop does not wait for a consumer between BRPOP and Handle, and the task dies with the process (`consumer.go:257`) |
| Run blocks (`bokchoy.go:257`) | `RunBlocks` | `Selected` smaller than `Consumers` (WithQueues): Stop also stops the queues that Run has not started (`bokchoy.go:172`), and Run returns too early |
| Stop can be called per signal (README.md:114) | `NoPanic` | `MaxStops = 2` with a server: the second Stop calls wg.Done once more (`bokchoy.go:188`) |
| Stop stops the system (`bokchoy.go:164`) | `NoPanic` | `EarlyStop = TRUE`: consumers that Run has not yet counted are taken from the WaitGroup |
| retries wait for an interval (README.md:283) | `RetriesWait` | `retries_spaced` as it is: with more retries than intervals the ETA stays the old one |
| a task is canceled when it exceeds its timeout (README.md:298) | `TimeoutAsAsked` | as it is: a timeout below a second is stored as 0 |
| options can be given "globally on the engine or when publishing" (README.md:286) | `EngineDefaultsKept` | as it is: one option of a task replaces all of the engine (`queue.go:371`) |
| the RPC server answers with the task it has published (`contrib/rpc/handler.go:56`) | `ReplyIsKept` | as it is: the answer has the durations before they are cut |
| a task that is accepted is handled | `AcceptedIsHandled` | `Nil \in Payloads`: a nil payload is not stored and the task cannot be read again (`task.go:300`) |
| requests go through the middlewares they were given (`docs/a-tour-of-bokchoy.md:334`) | `ConfiguredChain`, `OwnHandler` | `MaxEngineUses = 3`: with a third middleware, given in a call of Use of its own, append leaves room for one more, so the consumers of different queues write their handleRequest into one slot (`consumer.go:68`); a retry may go to the other queue |
| the same | `ConfiguredChain` | `UseAfterHandle = TRUE`, `MaxQueueUses = 2`: Use on a queue overwrites the slot of a running consumer |
| Use registers "to the system" (`bokchoy.go:119`) | `SystemWide` | as it is: a queue made before the call does not get it |
| the logger catches panics (`docs/a-tour-of-bokchoy.md:398`) | `PanicLogged` | `Kinds = {"Recoverer", "Logger", "RequestID"}`: Recoverer between a copying middleware and Logger tells nobody; the tour itself adds RequestID after Logger (`docs/a-tour-of-bokchoy.md:456`) |
| re-initializing "is helpful when Redis is restarted" (`broker_redis.go:318`) | `RestartCostsNothing` | `scripts_restart` as it is, also with `MaxErrors = 0`: a goroutine that reads the map while another fills it sends an empty id, initializes, sends it again and loses the task it popped (`broker_redis.go:154`) |
| the same | `AllRecover` | as it is: two goroutines may do so to each other for ever |
| Cancel cancels "a waiting task" (README.md:377) | `CanceledNotRun` | `tasks_lifecycle` as it is: the mover or a consumer that has read the payload before writes it back over the cancellation |
| Count gives the "number of total tasks" (`queue.go:248`) | `CountAll` | as it is: a task that is published again, or moved, between the two commands is missed |

## Proofs

`RedisBrokerProofs` proves, for any sets of tasks, producers and consumers,
any delays, any number of retries and all the failures that `ExactSettings`
admits:

* `TypeCorrect`: `Spec => []TypeOK`, without any restriction on the settings.
* `SingleCopyCorrect`: `Spec => []SingleCopy`.
* `DeliveredAtMostOnce`: `Spec => []NoDuplicateDelivery`.

The last two assume `ExactSettings`: all consumers in one process, no prefix,
no command sent twice. The run `broker_two_workers` and the table above show
that each of the three is needed.

Neither invariant is inductive. `SingleCopy` depends on what the goroutines
hold: `CopyInv` adds that at most one consumer has a mover (`MoverInv`), that
the ids the mover has read and found are still in the zset with a score in its
range (`RangeInv`, which fails after a second mover), that a consumer's place in
its loop agrees with its hand and its pipeline (`LoopInv`), and that a task
which was never published is nowhere (`FreshInv`). `NoDuplicateDelivery`
needs the count: a task that is still to be delivered has been delivered less
often than published (`PendingInv`). `CopyInvariant` proves that every action
preserves the conjunction, one step per action.

The constants' assumptions are those named in `RedisBroker`: the clock is
positive, the sets of producers and consumers are disjoint, the set of tasks
is finite.

`TaskSystemProofs` proves, for any tasks, consumers, retries and bounds:

* `TypeCorrect`, `MoverFaithfulCorrect`, `CancelSticksCorrect`,
  `CountOnceCorrect`: `Spec => []...` of the four invariants.
* `LifeCorrect`: `Spec => LifeOfTask`, that `TaskSystem` implements `TaskLife`.

The inductive invariant says where a task can be (`PlaceInv`: in the list, in
the zset, with one consumer or on its way from its producer, and only in one of
them), what its hash is there (`HashInv`: a task that is to be run is stored as
waiting or failed with the retries its runs have left, what the mover and the
consumers have read is what is stored unless the task was canceled, and only
what is over expires), what follows a cancellation that nobody's payload
contradicts (`SureInv`) and what Count has seen (`CountInv`). The refinement
maps the status of a task to that of its hash, or to unpublished or expired;
`LifeStep` has one step per action, and `HashInv` gives the guards of
`TaskLife`: a consumer begins a task that is waiting or failed and has been run
no more often than it has retries.

`ScriptsProofs` proves, for any processes, goroutines, scripts, restarts and
failures, `TypeCorrect`, `CompleteAtRestCorrect` and `CureWorksCorrect`.
`MapInv` is the argument for the second: whatever a map of scripts lacks, a
single goroutine that is filling it still has to put in. `FreshInv` and `ReadInv`
are those for the third: what a goroutine that began after the last restart has
behind it is in Redis, and whoever reads a map that nobody is filling gets an
id. `CureWorks` has an exception, besides another restart: a call that read the
map while another goroutine was filling it, or after one had failed to, may have
got "" for an id, and repeats it. Such a call fails and costs a task, see
`RestartCostsNothing` in the table.

`DeliveryProofs` proves the other invariants of the broker and its refinement:

* `NotEarlyCorrect` under `EarlySettings`: `ExactSettings`, or no retries and
  then any failures, any number of processes and a prefix. `EarlyInv` follows
  the last command published for a task from the pipeline to the zset and into
  the mover's hand: a score in the zset is the one that was asked for, and the
  range of a mover lies in the past. A second copy of a task whose command is
  sent again carries the same score, unless the task is published again before
  it is gone: the table above has what happens with a retry.
* `DataBeforeIdCorrect` under `KeptSettings`: `ExactSettings`, and nobody
  flushes or deletes. `DataInv` adds that the second half of a pipeline runs
  after the first, and that the hash of a task gets a time to live only when
  no id of it is left (`Spent`).
* `NothingLostCorrect` under `NoLossSettings`: no command fails for good, no
  maintenance calls, and countdowns of at least a second and the `Latency` of a
  pipeline; any number of processes, with or without a prefix, and pipelines
  and transactions sent again any number of times. Neither `CopyInv` nor
  `DataInv` is at hand there, since a task has several copies and one consumer
  may let its hash expire while another still has the id. `KeptInv` says that
  whoever has an id finds the hash, or else the task is `Final`: handled for
  good, or with a consumer on its last attempt. `BeyondInv` says that the range
  a mover removes from the zset holds what the mover has read and what is
  `Final`, since a pipeline under way adds only beyond it. With a shorter
  countdown ZADD may fall into the range between the mover's two commands, and
  the table above shows the task that is lost.
* `AtMostOnceCorrect` under `ExactSettings` and `LosslessCorrect` under
  `LosslessSettings`, which is `ExactSettings` with `NoLossSettings`: the broker
  implements `TaskQueue`, where tasks may be dropped and where they may not. The
  refinement computes the place of a task from the list, the zset, the movers
  and the consumers; `PlaceCases` says which. Both assume `PlacesDistinct`, that
  no consumer bears the name of another place.

`ExactSettings`, `KeptSettings` and `LosslessSettings` are restrictions on the
constants that `broker_exact` and `broker_faults` satisfy;
`broker_at_least_once` satisfies `EarlySettings` and `NoLossSettings`.

`ConsumerProofs` proves:

* `TypeCorrect`, without any restriction on the settings.
* `HandlerAloneCorrect`, without any restriction either. Without deadlines the
  property says that the handler runs alone; every attempt that has passed its
  deadline may add one copy of the task. `CopiesInv` counts the goroutines that
  may still run the handler or publish the task: a step passes a copy on, or it
  is the deadline of its attempt.
* `RetryBudgetCorrect`, for any number of retries, failures and cancellations,
  provided that no deadline passes (`~Timeouts`). An attempt is the carrier of
  the task from the moment it receives it until it gives it back or saves it for
  good; `AloneInv` says that there is one carrier or one id in the queue, never
  two of them, and `BudgetInv` that what has been run and what is left, in the
  carrier or in the queue, are within the retries.
* `SuccessSavedCorrect` under `~Timeouts`, whatever fails, is canceled or dies.
  `WinInv` says that an attempt that has succeeded is the last one, leaves
  nothing in the queue, and that what is stored is its success, a cancellation,
  or the processing task that a failing save has left. The last case is possible:
  without it the property is `SuccessIsStored` in the table.
* `SuccessIsRealCorrect`, for Recoverer first in the chain and handlers that do
  not both panic and outlive their deadline (`Recovered`): with these the two
  goroutines of an attempt may race as they like (`RealInv`).
* `AllRetriesUsedCorrect` and `KeptForTTLCorrect` when nothing disturbs the
  task: no deadline, no failure of Redis or of an event handler, no
  cancellation, Recoverer somewhere (`Undisturbed`). `EndInv` says that a task
  nobody carries and that is not queued is at rest.

`PhaseInv` relates the places of the two goroutines of an attempt, and `OneInv`
says that, without deadlines, only one of them is in the code that changes the
task. With a deadline both may call handleError for the same Task; what that
does to the retries is in the table above. The proofs have two layers: one
lemma per action says field by field what it does to its attempt, and one per invariant that the attempt keeps its
part; what the other attempts see of a step is the same for all (`OthersSame`).

`EngineProofs` proves, for any consumers and servers:

* `TypeCorrect` and `OneLateTaskCorrect`, however Run and Stop are called.
* `WaitGroupCorrect`, `RunBlocksCorrect` and `NoPanicCorrect` under `LateStop`:
  Run starts all queues and Stop is called when Run waits, once or, if there
  are no servers, any number of times. The counter of the WaitGroup is the
  cardinality of what is still to be stopped (`WaitGroupCounts` with
  `PhaseInv`). A consumer that is closed ignores a second Stop, a server does
  not; the table shows the other cases.

`RetriesProofs` proves `RetriesSpacedCorrect`, `RetriesAsAskedCorrect` and
`SettingsStableCorrect`: `Spec => []...` for any options of the engine and of
the task, any RPC request, any intervals, any number of retries and any
payloads, nil among them. The options are a fold over a sequence of any length.
What it leaves in a field is the value given last (`ConfiguredApplies`); the
community module defines the fold by the CHOICE of a recursive function, and
that there is one is shown with an explicit one in its place, by way of the
least element of a set of naturals at which the two could differ (`Least`).
`HashInv` says that the hash holds what was asked for in whole seconds,
`CountInv` that every attempt but the one that runs has used a retry, and
`WaitInv` that a task that waits for a retry is not due before the interval of
that retry is over. `RetriesSpaced` is not inductive without them: it compares
two attempts that have begun, and what spaces them is the score under which the
task waits between them. The intervals are reversed when they are looked up and
counted from the retries that are left; `ReverseFacts` does that arithmetic.

`MiddlewaresProofs` proves `OwnHandlerCorrect`, `ConfiguredChainCorrect` and
`PanicRecordedCorrect` for any queues, consumers, tasks, retries and orders of
registration, under `FullSlices`: the engine gets at most two middlewares, in
one call of Use or in two, and a queue at most one if handlers are registered
before it. The table shows what a third and a second such middleware do. `SliceInv` says that every slice is the window on its array in
which the middlewares that were asked for stand.
`ShareInv` is the argument: a slice with room belongs to one queue and its
consumers, and a slice of the engine is full, so that whoever appends to it gets
another array. A consumer that reads its chain therefore reads what was asked
for, and in the last place the handleRequest of some consumer of its own queue
(`ChainInv`), which is all the property needs: consumers of one queue do share
a slot and may read each other's handleRequest there.

The constants' assumptions are those named in the modules; each is evaluated by
TLC in a run.

Every invariant and every refinement the passing runs check is stated by a theorem.
Only model-checked are the liveness properties `EventuallyDone`,
`EventuallySettled`, `WorkerRegained`, `StopEndsRun` and `AloneRecovers`: the
prover has no rules for fairness.

## Not modelled

* the fields of a task that nothing here depends on (its result, its error, its
  times), serializers, parsing, logging, the terminal, Sentry, the examples;
* `RedisBroker.List`, which reads the list under a key without the prefix and
  changes nothing; `Queue.HandleRequest`, which is Handle of a consumer in the
  goroutine of the caller;
* the registration of queues and middlewares while the engine runs. The RPC
  handler does so for a queue it does not know, in a Go map that has no lock;
* the client's retries of an RPC call: each is a new task for the broker;
* ids that are equal because they were made in the same nanosecond
  (`utils.go:13`), and a list of ids one of which is the name of the queue
  (`broker_redis.go:272`);
* a save that is executed while its reply is lost, in `TaskSystem`: for the
  task it is the step that succeeds, followed by a failure before the next one;
* the clients of go-redis (single, sentinel, cluster), whose differences the
  broker does not see.

## Plan

What is left, in this order: the attempt of `Consumer` in the place of the one
step that ends it in `TaskSystem`, for a single task; registration while the
engine runs, in `Engine`; proofs of `RetryBudget` with an allowance for deadlines,
as `HandlerAlone` has it, and of `DataBeforeId` for tasks that are not `Final`,
with several copies.

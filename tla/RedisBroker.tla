---------------------------- MODULE RedisBroker ----------------------------
(***************************************************************************)
(* One bokchoy queue kept in Redis (broker_redis.go), used by producers    *)
(* that publish tasks (queue.go) and by worker processes, each of which    *)
(* runs consumers (the loop of consumer.go, reduced to its broker calls)   *)
(* and one goroutine, the mover, that brings the tasks that are due from   *)
(* the delayed zset to the list.                                           *)
(*                                                                         *)
(* An action is one command (or one MULTI, one script) that Redis runs, or *)
(* one step of a goroutine between two commands.                           *)
(*                                                                         *)
(* Redis keeps three kinds of keys for a queue: a hash per task (here the  *)
(* set stored of the tasks whose hash exists), a list of the ids that are  *)
(* ready (its left end is position 1) and a zset of the ids that wait for  *)
(* their ETA, with the ETA's Unix seconds as the score.                    *)
(***************************************************************************)
EXTENDS Integers, Sequences, FiniteSets, Functions, SequencesExt

CONSTANTS
  Tasks,           \* the tasks that can be published
  NoTask,          \* no task in hand
  Producers,       \* goroutines that publish new tasks
  Consumers,       \* consumer goroutines, of all the worker processes
  Processes,       \* worker processes, one broker instance each
  ProcessOf,       \* the process a consumer runs in
  Prefix,          \* is RedisConfig.Prefix set?
  TicksPerSecond,  \* ticks of the clock in one second
  Countdowns,      \* the delays a task is published or retried with, in ticks;
                   \* 0 is a delay shorter than a tick
  NoCountdown,     \* the member of Countdowns for "no WithCountdown option"
  Latency,         \* bound: ticks between building a pipeline and its last command
  MaxTime,         \* bound on the clock
  MaxRetries,      \* Options.MaxRetries of every task
  TTL,             \* Options.TTL of every task, in ticks
  Faults,          \* the failures that may happen
  ResendLimit,     \* bound: ids in the list, and deliveries, for a command to be sent again
  Admin            \* the maintenance calls that may happen

Workers == Producers \cup Consumers

ASSUME TasksAssumption == IsFiniteSet(Tasks) /\ NoTask \notin Tasks
ASSUME ProcessesAssumption == ProcessOf \in [Consumers -> Processes]
ASSUME WorkersAssumption == Producers \cap Consumers = {}
ASSUME ClockAssumption ==
  /\ TicksPerSecond \in Nat \ {0}
  /\ MaxTime \in Nat /\ Latency \in Nat /\ TTL \in Nat
  /\ MaxRetries \in Nat /\ ResendLimit \in Nat
ASSUME CountdownsAssumption ==
  NoCountdown \notin Int /\ Countdowns \subseteq Int \cup {NoCountdown}
ASSUME FaultsAssumption ==
  /\ Prefix \in BOOLEAN
  /\ Faults \subseteq {"crash", "redis", "resend"}
  /\ Admin \subseteq {"empty", "flush", "delete"}

VARIABLES
  now,        \* the clock, in ticks
  stored,     \* the tasks whose hash exists
  expiring,   \* the tasks whose hash has a time to live
  list,       \* the list of ids
  delay,      \* the zset: the score of each id, or NotDelayed
  pipe,       \* the publishing pipeline each worker has under way
  queues,     \* the processes that have started their mover (RedisBroker.queues)
  mover,      \* the mover goroutine each consumer has started
  pc,         \* where each consumer is in its loop
  hand,       \* the task each consumer holds
  published,  \* history: how many times each task was published
  delivered,  \* history: how many times each task came to a consumer
  done,       \* history: the tasks handled for the last time
  command     \* history: the command that published each task last

redis   == <<stored, expiring, list, delay>>
movers  == <<queues, mover>>
loops   == <<pc, hand>>
history == <<published, delivered, done, command>>
vars    == <<now, redis, pipe, movers, loops, history>>

-----------------------------------------------------------------------------
(* Time.  Durations and ETAs are ticks; Redis sees whole seconds.          *)

Seconds(d) == d \div TicksPerSecond

NotDelayed == -1

\* Faulty variant, for a mutation: a past ETA is not looked at.
PastIsDelayed(countdown) ==
  IF countdown = NoCountdown THEN [op |-> "RPUSH", score |-> 0]
  ELSE [op |-> "ZADD", score |-> Seconds(now + countdown)]

\* The command publish chooses for an ETA: none pushes to the right end, a
\* past one to the left end, a future one to the zset.  NewTask has computed the
\* ETA before (queue.go:387): WithCountdown(0) gives one that is past by now and
\* is a negative countdown here, while 0 stands for one less than a tick ahead.
PushCommand(countdown) ==
  IF countdown = NoCountdown THEN [op |-> "RPUSH", score |-> 0]
  ELSE IF countdown < 0 THEN [op |-> "LPUSH", score |-> 0]
  ELSE [op |-> "ZADD", score |-> Seconds(now + countdown)]

\* Faulty variant, for a mutation: the id is read, not popped.
ReadOnly == list

\* BRPOP takes the right end of the list.
PopEnd == list[Len(list)]
PopRest == SubSeq(list, 1, Len(list) - 1)

\* Faulty variant, for a mutation: the range ends one second late.
DueTooSoon(max) == {t \in Tasks : delay[t] # NotDelayed /\ delay[t] <= Seconds(max) + 1}

\* ZRANGEBYSCORE :delay 0 <max>
Due(max) == {t \in Tasks : delay[t] # NotDelayed /\ delay[t] <= Seconds(max)}

\* Faulty variant, for a mutation: nothing is removed.
RemoveNothing(max) == delay

\* Faulty variant, for a mutation: the whole zset is removed.
RemoveAll(max) == [t \in Tasks |-> NotDelayed]

\* ZREMRANGEBYSCORE on the name without the prefix: the queue's own zset only
\* when there is no prefix.
RemoveRange(max) ==
  IF Prefix THEN delay
  ELSE [t \in Tasks |-> IF t \in Due(max) THEN NotDelayed ELSE delay[t]]

\* The orders in which a Go map of payloads may be walked.
Orders(S) == {s \in [1..Cardinality(S) -> S] : IsInjective(s) /\ ToSet(s) = S}

\* Faulty variant, for a mutation: every attempt is taken for the last.
AlwaysFinished(t) == TRUE

\* Task.Finished of a task that is published for the n-th time and is now
\* being marked as processing: on the last retry OldStatus is failed and
\* MaxRetries 0.
FinishedAtStart(t) == published[t] = MaxRetries + 1 /\ MaxRetries > 0

\* RedisBroker.Set of a finished task: HMSETEXPIRE, or HMSET when the TTL has
\* no whole second (HMSET leaves a time to live that is already there).
WithTTL(t) == IF Seconds(TTL) = 0 THEN expiring ELSE expiring \cup {t}

Idle    == [step |-> "idle"]
NoMover == [step |-> "none", max |-> 0, ids |-> {}]
Waiting == [step |-> "wait", max |-> 0, ids |-> {}]

Commands  == [op : {"RPUSH", "LPUSH", "ZADD"}, score : Nat]
Pipelines == [step : {"hmset", "push"}, task : Tasks, cmd : Commands, since : Nat]
-----------------------------------------------------------------------------
Init ==
  /\ now = 0
  /\ stored = {} /\ expiring = {} /\ list = <<>>
  /\ delay = [t \in Tasks |-> NotDelayed]
  /\ pipe = [w \in Workers |-> Idle]
  /\ queues = {} /\ mover = [c \in Consumers |-> NoMover]
  /\ pc = [c \in Consumers |-> "consume"]
  /\ hand = [c \in Consumers |-> NoTask]
  /\ published = [t \in Tasks |-> 0] /\ delivered = [t \in Tasks |-> 0]
  /\ done = {}
  /\ command = [t \in Tasks |-> [op |-> "RPUSH", score |-> 0]]

\* Time passes, but never so much that a pipeline is older than Latency.
Tick == /\ now < MaxTime
        /\ \A w \in Workers : pipe[w] # Idle => now < pipe[w].since + Latency
        /\ now' = now + 1
        /\ UNCHANGED <<redis, pipe, movers, loops, history>>

-----------------------------------------------------------------------------
(* Publishing: a pipeline, not a transaction, of HMSET and a push.         *)

\* A worker builds the pipeline for task t; the ETA is compared with the
\* clock here, before any command reaches Redis.
Build(w, t, countdown) ==
  /\ pipe[w] = Idle
  /\ countdown # NoCountdown => now + countdown <= MaxTime
  /\ pipe' = [pipe EXCEPT ![w] = [step |-> "hmset", task |-> t,
                                  cmd |-> PushCommand(countdown), since |-> now]]
  /\ command' = [command EXCEPT ![t] = PushCommand(countdown)]
  /\ published' = [published EXCEPT ![t] = @ + 1]

\* Queue.Publish: a new task.
Publish(p, t, countdown) ==
  /\ published[t] = 0
  /\ Build(p, t, countdown)
  /\ UNCHANGED <<now, redis, movers, loops, delivered, done>>

HMSet(w) ==
  /\ pipe[w].step = "hmset"
  /\ stored' = stored \cup {pipe[w].task}
  /\ pipe' = [pipe EXCEPT ![w].step = "push"]
  /\ UNCHANGED <<now, expiring, list, delay, movers, loops, history>>

\* What the last command of a pipeline does to the list and the zset.
PushTo(t, cmd) ==
  CASE cmd.op = "RPUSH" -> list' = Append(list, t) /\ delay' = delay
    [] cmd.op = "LPUSH" -> list' = <<t>> \o list /\ delay' = delay
    [] cmd.op = "ZADD"  -> list' = list /\ delay' = [delay EXCEPT ![t] = cmd.score]

\* A worker's pipeline is over; a consumer goes on to its next task.
EndPipe(w) ==
  /\ pipe' = [pipe EXCEPT ![w] = Idle]
  /\ IF w \in Consumers
       THEN /\ pc' = [pc EXCEPT ![w] = "consume"]
            /\ hand' = [hand EXCEPT ![w] = NoTask]
       ELSE UNCHANGED loops

\* go-redis retries a command whose reply it did not get.
MaySendAgain(S) ==
  /\ "resend" \in Faults
  /\ Len(list) < ResendLimit /\ \A t \in S : delivered[t] < ResendLimit

Push(w) ==
  /\ pipe[w].step = "push"
  /\ PushTo(pipe[w].task, pipe[w].cmd)
  /\ EndPipe(w)
  /\ UNCHANGED <<now, stored, expiring, movers, history>>

\* The reply is lost and go-redis sends the whole pipeline again.
PushAgain(w) ==
  /\ pipe[w].step = "push" /\ MaySendAgain({pipe[w].task})
  /\ PushTo(pipe[w].task, pipe[w].cmd)
  /\ pipe' = [pipe EXCEPT ![w].step = "hmset"]
  /\ UNCHANGED <<now, stored, expiring, movers, loops, history>>

\* Redis is out of reach before the next command: the rest is not sent.
PipeError(w) ==
  /\ "redis" \in Faults
  /\ pipe[w] # Idle
  /\ EndPipe(w)
  /\ UNCHANGED <<now, redis, movers, history>>

-----------------------------------------------------------------------------
(* A consumer: consume the next id, read its payload, mark it processing,  *)
(* run the handler, then finish or retry.                                  *)

\* Faulty variant, for a mutation: every consumer starts a mover.
StartAnyMover(c) ==
  IF mover[c] # NoMover THEN UNCHANGED movers
  ELSE /\ queues' = queues \cup {ProcessOf[c]}
       /\ mover' = [mover EXCEPT ![c] = Waiting]

\* consumeDelayed: the first call in a process starts its mover, under the
\* broker's mutex.
StartMover(c) ==
  IF ProcessOf[c] \in queues THEN UNCHANGED movers
  ELSE /\ queues' = queues \cup {ProcessOf[c]}
       /\ mover' = [mover EXCEPT ![c] = Waiting]

\* BRPOP takes an id.
BRPop(c) ==
  /\ pc[c] = "consume" /\ list # <<>>
  /\ StartMover(c)
  /\ list' = PopRest
  /\ hand' = [hand EXCEPT ![c] = PopEnd]
  /\ pc' = [pc EXCEPT ![c] = "payloads"]
  /\ UNCHANGED <<now, stored, expiring, delay, pipe, history>>

\* Faulty variant, for a mutation: only a task in hand starts the mover.
NilStartsNoMover(c) ==
  /\ pc[c] = "consume" /\ list = <<>>
  /\ UNCHANGED vars

\* BRPOP times out on an empty list; the consumer calls it again.
BRPopNil(c) ==
  /\ pc[c] = "consume" /\ list = <<>>
  /\ StartMover(c)
  /\ UNCHANGED <<now, redis, pipe, loops, history>>

\* BRPOP took an id and its reply is lost.
BRPopError(c) ==
  /\ "redis" \in Faults
  /\ pc[c] = "consume" /\ list # <<>>
  /\ StartMover(c)
  /\ list' = PopRest
  /\ UNCHANGED <<now, stored, expiring, delay, pipe, loops, history>>

Release(c) == /\ pc' = [pc EXCEPT ![c] = "consume"]
              /\ hand' = [hand EXCEPT ![c] = NoTask]

\* MULTIHGETALL; an id without a hash is dropped.
Payloads(c) ==
  /\ pc[c] = "payloads"
  /\ IF hand[c] \in stored
       THEN /\ pc' = [pc EXCEPT ![c] = "start"]
            /\ delivered' = [delivered EXCEPT ![hand[c]] = @ + 1]
            /\ UNCHANGED hand
       ELSE Release(c) /\ UNCHANGED delivered
  /\ UNCHANGED <<now, redis, pipe, movers, published, done, command>>

\* Queue.Save of the task marked as processing.
Start(c) ==
  /\ pc[c] = "start"
  /\ pc' = [pc EXCEPT ![c] = "handle"]
  /\ stored' = stored \cup {hand[c]}
  /\ expiring' = IF FinishedAtStart(hand[c]) THEN WithTTL(hand[c]) ELSE expiring
  /\ UNCHANGED <<now, list, delay, pipe, movers, hand, history>>

\* An error between BRPOP and the handler: the loop logs it and goes on.
ConsumeError(c) ==
  /\ "redis" \in Faults
  /\ pc[c] \in {"payloads", "start"}
  /\ Release(c)
  /\ UNCHANGED <<now, redis, pipe, movers, history>>

\* The handler is over for good (success, or failure without a retry left)
\* and Queue.Save keeps the task for TTL.
Finish(c) ==
  /\ pc[c] = "handle"
  /\ Release(c)
  /\ done' = done \cup {hand[c]}
  /\ \/ stored' = stored \cup {hand[c]} /\ expiring' = WithTTL(hand[c])
     \/ "redis" \in Faults /\ UNCHANGED <<stored, expiring>>
  /\ UNCHANGED <<now, list, delay, pipe, movers, published, delivered, command>>

\* The handler fails with a retry left: PublishTask at RetryETA.
Retry(c, countdown) ==
  /\ pc[c] = "handle"
  /\ published[hand[c]] <= MaxRetries
  /\ Build(c, hand[c], countdown)
  /\ pc' = [pc EXCEPT ![c] = "publish"]
  /\ UNCHANGED <<now, redis, movers, hand, delivered, done>>

-----------------------------------------------------------------------------
(* The mover of a process.                                                 *)

SetMover(c, step, max, ids) ==
  mover' = [mover EXCEPT ![c] = [step |-> step, max |-> max, ids |-> ids]]

MoverTick(c) ==
  /\ mover[c].step = "wait"
  /\ SetMover(c, "range", now, {})
  /\ UNCHANGED <<now, redis, pipe, queues, loops, history>>

MoverRange(c) ==
  /\ mover[c].step = "range"
  /\ IF Due(mover[c].max) = {} THEN SetMover(c, "wait", 0, {})
       ELSE SetMover(c, "payloads", mover[c].max, Due(mover[c].max))
  /\ UNCHANGED <<now, redis, pipe, queues, loops, history>>

\* Ids without a hash are skipped; with none left the zset is not touched.
MoverPayloads(c) ==
  LET found == mover[c].ids \cap stored
  IN /\ mover[c].step = "payloads"
     /\ IF found = {} THEN SetMover(c, "wait", 0, {})
          ELSE SetMover(c, "commit", mover[c].max, found)
     /\ UNCHANGED <<now, redis, pipe, queues, loops, history>>

\* TxPipelined: HMSET and RPUSH each task, then remove the range.
MoverTx(c) ==
  /\ mover[c].step = "commit"
  /\ stored' = stored \cup mover[c].ids
  /\ \E ids \in Orders(mover[c].ids) : list' = list \o ids
  /\ delay' = RemoveRange(mover[c].max)

MoverCommit(c) ==
  /\ MoverTx(c)
  /\ SetMover(c, "wait", 0, {})
  /\ UNCHANGED <<now, expiring, pipe, queues, loops, history>>

\* The reply is lost and go-redis sends the whole transaction again.
MoverCommitAgain(c) ==
  /\ MaySendAgain(mover[c].ids)
  /\ MoverTx(c)
  /\ UNCHANGED <<now, expiring, pipe, movers, loops, history>>

MoverError(c) ==
  /\ "redis" \in Faults
  /\ mover[c].step \in {"range", "payloads", "commit"}
  /\ SetMover(c, "wait", 0, {})
  /\ UNCHANGED <<now, redis, pipe, queues, loops, history>>

-----------------------------------------------------------------------------
(* The environment: time to live, maintenance calls, crashes.              *)

Expire(t) ==
  /\ t \in expiring
  /\ stored' = stored \ {t} /\ expiring' = expiring \ {t}
  /\ UNCHANGED <<now, list, delay, pipe, movers, loops, history>>

Delete(t) ==
  /\ "delete" \in Admin
  /\ stored' = stored \ {t} /\ expiring' = expiring \ {t}
  /\ UNCHANGED <<now, list, delay, pipe, movers, loops, history>>

\* Queue.Empty deletes the list.
Empty ==
  /\ "empty" \in Admin
  /\ list' = <<>>
  /\ UNCHANGED <<now, stored, expiring, delay, pipe, movers, loops, history>>

Flush ==
  /\ "flush" \in Admin
  /\ stored' = {} /\ expiring' = {} /\ list' = <<>>
  /\ delay' = [t \in Tasks |-> NotDelayed]
  /\ UNCHANGED <<now, pipe, movers, loops, history>>

\* A process dies with its consumers, its mover and their pipelines, and is
\* started again.
Crash(p) ==
  LET dead == {c \in Consumers : ProcessOf[c] = p}
  IN /\ "crash" \in Faults
     /\ pipe' = [w \in Workers |-> IF w \in dead THEN Idle ELSE pipe[w]]
     /\ queues' = queues \ {p}
     /\ mover' = [c \in Consumers |-> IF c \in dead THEN NoMover ELSE mover[c]]
     /\ pc' = [c \in Consumers |-> IF c \in dead THEN "consume" ELSE pc[c]]
     /\ hand' = [c \in Consumers |-> IF c \in dead THEN NoTask ELSE hand[c]]
     /\ UNCHANGED <<now, redis, history>>

-----------------------------------------------------------------------------
PipeStep(w) == HMSet(w) \/ Push(w) \/ PushAgain(w) \/ PipeError(w)

ConsumerStep(c) ==
  \/ BRPop(c) \/ BRPopNil(c) \/ BRPopError(c)
  \/ Payloads(c) \/ Start(c) \/ ConsumeError(c)
  \/ Finish(c) \/ \E cd \in Countdowns : Retry(c, cd)

MoverStep(c) ==
  \/ MoverTick(c) \/ MoverRange(c) \/ MoverPayloads(c)
  \/ MoverCommit(c) \/ MoverCommitAgain(c) \/ MoverError(c)

Maintenance == Empty \/ Flush \/ \E t \in Tasks : Expire(t) \/ Delete(t)

Next ==
  \/ Tick
  \/ \E p \in Producers, t \in Tasks, cd \in Countdowns : Publish(p, t, cd)
  \/ \E w \in Workers : PipeStep(w)
  \/ \E c \in Consumers : ConsumerStep(c) \/ MoverStep(c)
  \/ Maintenance
  \/ \E p \in Processes : Crash(p)

Spec == Init /\ [][Next]_vars

\* Goroutines keep running: a command that was sent is executed, a consumer
\* loops for ever, the ticker fires, the clock advances, a handler returns.
Fairness ==
  /\ WF_vars(Tick)
  /\ \A w \in Workers : WF_vars(PipeStep(w))
  /\ \A c \in Consumers : WF_vars(ConsumerStep(c)) /\ WF_vars(MoverStep(c))

FairSpec == Spec /\ Fairness

-----------------------------------------------------------------------------
Ready == ToSet(list)
Delayed == {t \in Tasks : delay[t] # NotDelayed}
Moving == UNION {mover[c].ids : c \in Consumers}
Held(t) == {c \in Consumers : hand[c] = t}
Publishing(t) == {w \in Workers : pipe[w] # Idle /\ pipe[w].task = t}

\* Every variable keeps its shape.
TypeOK ==
  /\ now \in Nat
  /\ stored \subseteq Tasks /\ expiring \subseteq stored
  /\ list \in Seq(Tasks)
  /\ delay \in [Tasks -> Nat \cup {NotDelayed}]
  /\ pipe \in [Workers -> Pipelines \cup {Idle}]
  /\ queues \subseteq Processes
  /\ mover \in [Consumers -> [step : {"none", "wait", "range", "payloads", "commit"},
                              max : Nat, ids : SUBSET Tasks]]
  /\ pc \in [Consumers -> {"consume", "payloads", "start", "handle", "publish"}]
  /\ hand \in [Consumers -> Tasks \cup {NoTask}]
  /\ published \in [Tasks -> Nat] /\ delivered \in [Tasks -> Nat]
  /\ done \subseteq Tasks
  /\ command \in [Tasks -> Commands]

\* A task has at most one copy that can still be consumed: not twice in the
\* list, not in the list while delayed, moved, held or about to be pushed.
SingleCopy ==
  /\ IsInjective(list)
  /\ Ready \cap (Delayed \cup Moving) = {}
  /\ \A t \in Tasks :
       /\ \A v, w \in Held(t) \cup Publishing(t) : v = w
       /\ t \in Ready \cup Delayed \cup Moving => Held(t) \cup Publishing(t) = {}

\* README.md:443, "Is exactly-once execution of tasks guaranteed?": a task is
\* handed to consumers at most once for each time it was published.
NoDuplicateDelivery == \A t \in Tasks : delivered[t] <= published[t]

\* The hash of a task outlives every id that leads to it: HMSET comes before
\* the push, and a time to live is only set when no id is left.
DataBeforeId == Ready \cup Delayed \subseteq stored

\* A delayed task becomes ready in the second of its ETA at the earliest.
NotEarly == \A t \in Ready : command[t].op = "ZADD" => command[t].score <= Seconds(now)

\* A task that was published and is not handled for good is in the list, in
\* the zset, with a consumer or in a pipeline (README.md:443).
NothingLost ==
  \A t \in Tasks : published[t] > 0 /\ t \notin done =>
     t \in Ready \cup Delayed \/ Held(t) \cup Publishing(t) # {}

\* README.md:168, "A task can be published at front of others by providing a
\* negative countdown": a consumer never takes another task while a priority
\* task is ready.
PriorityFirst ==
  [][\A c \in Consumers : hand[c] = NoTask /\ hand'[c] # NoTask =>
       \A t \in Ready : command[t].op = "LPUSH" => command[hand'[c]].op = "LPUSH"]_vars

\* A published task is handled for good.
EventuallyDone == \A t \in Tasks : published[t] > 0 ~> t \in done

\* Refinement: where the abstract queue sees each task.
Place(t) ==
  IF t \in done THEN "done"
  ELSE IF Held(t) # {} THEN CHOOSE c \in Held(t) : TRUE
  ELSE IF t \in Ready \cup Delayed \cup Moving THEN "queued"
  ELSE IF published[t] = 0 \/ Publishing(t) # {} THEN "created"
  ELSE "lost"

Lossless == INSTANCE TaskQueue WITH Lossy <- FALSE, place <- [t \in Tasks |-> Place(t)]
AtMostOnce == INSTANCE TaskQueue WITH Lossy <- TRUE, place <- [t \in Tasks |-> Place(t)]

\* Without failures and maintenance the broker is a queue that loses nothing.
LosslessQueue == Lossless!QSpec

\* With them it still is a queue in which a task is in one place at a time.
AtMostOnceQueue == AtMostOnce!QSpec

(* README.md shows the settings under which this claim fails.              *)

\* README.md:375, "It will remove all waiting tasks from your queue": after
\* Empty no task waits, neither in the list nor in the zset.
EmptyRemovesWaiting == [][Empty => Ready' = {} /\ Delayed' = {}]_vars
=============================================================================

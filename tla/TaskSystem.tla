----------------------------- MODULE TaskSystem -----------------------------
(***************************************************************************)
(* The composition of a queue's parts through the hash of each task: the   *)
(* producers and consumers that publish it, the consumers that save its    *)
(* status, the mover that reads hashes and writes them back, Queue.Cancel  *)
(* and the time to live, with the commands of each interleaved, failing    *)
(* commands and a worker process that dies.                                *)
(*                                                                         *)
(* RedisBroker has the list and the zset in detail, without what is in the *)
(* hashes, and Consumer has the two goroutines of an attempt, for one task *)
(* and without the mover.  Here the list and the zset are the sets of the  *)
(* ids in them (RedisBrokerProofs!SingleCopyCorrect: an id is in one of    *)
(* them, once), any delayed task may be due, and an attempt ends in one    *)
(* step.  The settings are those of that theorem, and countdowns are long  *)
(* enough for the mover to remove no id it has not read.                   *)
(***************************************************************************)
EXTENDS Task, FiniteSets

CONSTANTS
  Tasks,
  NoTask,       \* a consumer has no task
  Consumers,    \* the consumers of the one worker process
  MaxRetries,   \* Options.MaxRetries of every task
  Faults,       \* what may happen: "crash" of the process, "redis": a command fails
  MaxFaults,    \* bound: how many of them happen
  MaxCancels,   \* bound: calls of Queue.Cancel
  MaxCounts     \* bound: calls of Queue.Count

ASSUME SystemAssumption ==
  /\ NoTask \notin Tasks
  /\ MaxRetries \in Nat /\ MaxFaults \in Nat
  /\ Faults \subseteq {"crash", "redis"}
  /\ MaxCancels \in Nat /\ MaxCounts \in Nat

VARIABLES
  hash,      \* what Redis holds of each task
  expiring,  \* the tasks whose hash has a time to live
  ready,     \* the ids in the list
  delayed,   \* the ids in the zset
  born,      \* how far the publishing of each new task is
  consumer,  \* where each consumer is, with its task
  mover,     \* where the mover is, the ids and the payloads it has read
  cancel,    \* Queue.Cancel: the task it has read
  count,     \* RedisBroker.Count: the ids its two commands have counted
  runs,      \* history: how often each task was processed
  asked,     \* history: the tasks Cancel was called for
  sure,      \* history: those it canceled while nobody held their payload
  calls      \* how often Cancel and Count were called, and what failed

redis == <<hash, expiring, ready, delayed>>
vars == <<redis, born, consumer, mover, cancel, count, runs, asked, sure, calls>>

NoHash == [status |-> "none", retries |-> 0]
New == [status |-> "waiting", old |-> "waiting", retries |-> MaxRetries]
Off == [at |-> "idle", task |-> NoTask, object |-> New]

Init ==
  /\ hash = [t \in Tasks |-> NoHash]
  /\ expiring = {} /\ ready = {} /\ delayed = {}
  /\ born = [t \in Tasks |-> "new"]
  /\ consumer = [c \in Consumers |-> Off]
  /\ mover = [at |-> "wait", ids |-> {}, payloads |-> [t \in Tasks |-> NoHash]]
  /\ cancel = [task |-> NoTask, object |-> New]
  /\ count = [at |-> "none", first |-> {}, second |-> {}, begun |-> {}]
  /\ runs = [t \in Tasks |-> 0]
  /\ asked = {} /\ sure = {}
  /\ calls = [cancels |-> 0, counts |-> 0, faults |-> 0]

Exists(t) == hash[t] # NoHash
At(c) == consumer[c].at
Job(c) == consumer[c].task
Object(c) == consumer[c].object

\* RedisBroker.Set: with a time to live when the task is finished, HMSET, which
\* leaves a time to live in place, otherwise.
HMSet(t, object) == hash' = [hash EXCEPT ![t] = Stored(object)]

\* Queue.Save
Save(t, object) ==
  /\ HMSet(t, object)
  /\ expiring' = IF Finished(object) THEN expiring \cup {t} ELSE expiring

\* The end of a publishing pipeline: RPUSH or LPUSH, or ZADD.
PushId(t) ==
  \/ ready' = ready \cup {t} /\ UNCHANGED delayed
  \/ delayed' = delayed \cup {t} /\ UNCHANGED ready

\* A command fails.
Fault == "redis" \in Faults /\ calls.faults < MaxFaults
         /\ calls' = [calls EXCEPT !.faults = @ + 1]

-----------------------------------------------------------------------------
(* Queue.Publish of a new task, by its producer.                           *)

PublishHash(t) ==
  /\ born[t] = "new"
  /\ HMSet(t, New)
  /\ born' = [born EXCEPT ![t] = "hash"]
  /\ UNCHANGED <<expiring, ready, delayed, consumer, mover, cancel, count, runs, asked, sure, calls>>

PublishId(t) ==
  /\ born[t] = "hash"
  /\ born' = [born EXCEPT ![t] = "queued"]
  /\ \/ PushId(t) /\ UNCHANGED calls
     \/ Fault /\ UNCHANGED <<ready, delayed>>
  /\ UNCHANGED <<hash, expiring, consumer, mover, cancel, count, runs, asked, sure>>

-----------------------------------------------------------------------------
(* The loop of a consumer.                                                 *)

Move(c, step, t, object) ==
  consumer' = [consumer EXCEPT ![c] = [at |-> step, task |-> t, object |-> object]]

Leave(c) == consumer' = [consumer EXCEPT ![c] = Off]

BRPop(c) ==
  /\ At(c) = "idle"
  /\ \E t \in ready :
       /\ ready' = ready \ {t}
       /\ \/ Move(c, "load", t, New) /\ UNCHANGED calls
          \/ Fault /\ UNCHANGED consumer         \* the reply is lost
  /\ UNCHANGED <<hash, expiring, delayed, born, mover, cancel, count, runs, asked, sure>>

\* The payload is read; a task without one is skipped.
Load(c) ==
  /\ At(c) = "load"
  /\ \/ Exists(Job(c)) /\ Move(c, "begin", Job(c), Loaded(hash[Job(c)])) /\ UNCHANGED calls
     \/ ~Exists(Job(c)) /\ Leave(c) /\ UNCHANGED calls
     \/ Fault /\ Leave(c)
  /\ UNCHANGED <<redis, born, mover, cancel, count, runs, asked, sure>>

\* A canceled task is not handled.
Skip(c) ==
  /\ At(c) = "begin" /\ Object(c).status = "canceled"
  /\ Leave(c)
  /\ UNCHANGED <<redis, born, mover, cancel, count, runs, asked, sure, calls>>

\* Faulty variant, for a mutation: the task is not looked at.
BeginCanceled(c) ==
  LET t == Job(c)
      object == [Object(c) EXCEPT !.status = "processing"]
  IN /\ At(c) = "begin"
     /\ Save(t, object)
     /\ Move(c, "run", t, object)
     /\ runs' = [runs EXCEPT ![t] = @ + 1]
     /\ count' = IF count.at = "one" THEN [count EXCEPT !.begun = @ \cup {t}] ELSE count
     /\ UNCHANGED <<ready, delayed, born, mover, cancel, asked, sure, calls>>

\* Handle saves the task as processing and starts the handler.
Begin(c) ==
  LET t == Job(c)
      object == [Object(c) EXCEPT !.status = "processing"]
  IN /\ At(c) = "begin" /\ Object(c).status # "canceled"
     /\ Save(t, object)
     /\ Move(c, "run", t, object)
     /\ runs' = [runs EXCEPT ![t] = @ + 1]
     /\ count' = IF count.at = "one" THEN [count EXCEPT !.begun = @ \cup {t}] ELSE count
     /\ UNCHANGED <<ready, delayed, born, mover, cancel, asked, sure, calls>>

\* The statuses a handler can lead to: nil, an error, and ErrTaskCanceled or
\* the timeout.
Results == {"succeeded", "failed", "canceled"}

\* handleError with no retry left, or nothing to retry: the result is saved.
EndSave(c) ==
  LET t == Job(c)
  IN /\ At(c) = "run"
     /\ \E s \in Results :
          /\ s = "succeeded" \/ Object(c).retries = 0
          /\ Save(t, [Object(c) EXCEPT !.status = s])
     /\ Leave(c)
     /\ UNCHANGED <<ready, delayed, born, mover, cancel, count, runs, asked, sure, calls>>

\* Faulty variant, for a mutation: a task is retried after its last retry too.
EndRetryOnceMore(c) ==
  LET t == Job(c)
      object == [Object(c) EXCEPT !.retries = @ - 1]
  IN /\ At(c) = "run"
     /\ \E s \in Results \ {"succeeded"} : HMSet(t, [object EXCEPT !.status = s])
     /\ Move(c, "push", t, New)
     /\ UNCHANGED <<expiring, ready, delayed, born, mover, cancel, count, runs, asked, sure, calls>>

\* handleError publishes the task again, canceled ones too: first its hash.
EndRetry(c) ==
  LET t == Job(c)
      object == [Object(c) EXCEPT !.retries = @ - 1]
  IN /\ At(c) = "run" /\ Object(c).retries # 0
     /\ \E s \in Results \ {"succeeded"} : HMSet(t, [object EXCEPT !.status = s])
     /\ Move(c, "push", t, New)
     /\ UNCHANGED <<expiring, ready, delayed, born, mover, cancel, count, runs, asked, sure, calls>>

\* Then its id.
RetryId(c) ==
  /\ At(c) = "push"
  /\ Leave(c)
  /\ \/ PushId(Job(c)) /\ UNCHANGED calls
     \/ Fault /\ UNCHANGED <<ready, delayed>>
  /\ UNCHANGED <<hash, expiring, born, mover, cancel, count, runs, asked, sure>>

\* The save of the processing task, an event handler, or the save or publish
\* of the result fails.
SaveError(c) ==
  /\ At(c) \in {"begin", "run"} /\ Fault
  /\ Leave(c)
  /\ UNCHANGED <<redis, born, mover, cancel, count, runs, asked, sure>>

-----------------------------------------------------------------------------
(* The mover.                                                              *)

Rest == [at |-> "wait", ids |-> {}, payloads |-> [t \in Tasks |-> NoHash]]

\* ZRANGEBYSCORE: some of the ids are due.
MoverRange ==
  /\ mover.at = "wait"
  /\ \E due \in SUBSET delayed :
       due # {} /\ mover' = [mover EXCEPT !.at = "read", !.ids = due]
  /\ UNCHANGED <<redis, born, consumer, cancel, count, runs, asked, sure, calls>>

\* MULTIHGETALL: the hashes that exist; the mover gives up when there is none.
MoverPayloads ==
  /\ mover.at = "read"
  /\ LET payloads == [t \in Tasks |-> IF t \in mover.ids THEN hash[t] ELSE NoHash]
     IN mover' = IF payloads = Rest.payloads THEN Rest
                 ELSE [mover EXCEPT !.at = "commit", !.payloads = payloads]
  /\ UNCHANGED <<redis, born, consumer, cancel, count, runs, asked, sure, calls>>

Read == {t \in Tasks : mover.payloads[t] # NoHash}

\* Faulty variant, for a mutation: the range is not removed.
MoverCommitOnly ==
  /\ mover.at = "commit"
  /\ hash' = [t \in Tasks |-> IF t \in Read THEN mover.payloads[t] ELSE hash[t]]
  /\ ready' = ready \cup Read
  /\ mover' = Rest
  /\ UNCHANGED <<expiring, delayed, born, consumer, cancel, count, runs, asked, sure, calls>>

\* MULTI: HMSET and RPUSH of every payload, and ZREMRANGEBYSCORE.
MoverCommit ==
  /\ mover.at = "commit"
  /\ hash' = [t \in Tasks |-> IF t \in Read THEN mover.payloads[t] ELSE hash[t]]
  /\ ready' = ready \cup Read
  /\ delayed' = delayed \ mover.ids
  /\ mover' = Rest
  /\ UNCHANGED <<expiring, born, consumer, cancel, count, runs, asked, sure, calls>>

MoverError ==
  /\ mover.at \in {"read", "commit"} /\ Fault
  /\ mover' = Rest
  /\ UNCHANGED <<redis, born, consumer, cancel, count, runs, asked, sure>>

-----------------------------------------------------------------------------
(* Queue.Cancel, from any process, and Queue.Count.                        *)

CancelGet(t) ==
  /\ cancel.task = NoTask /\ calls.cancels < MaxCancels
  /\ Exists(t)
  /\ cancel' = [task |-> t, object |-> [Loaded(hash[t]) EXCEPT !.status = "canceled"]]
  /\ asked' = asked \cup {t}
  /\ calls' = [calls EXCEPT !.cancels = @ + 1]
  /\ UNCHANGED <<redis, born, consumer, mover, count, runs, sure>>

\* The tasks somebody has read the hash of, to write to it later.
Held == {Job(c) : c \in {d \in Consumers : At(d) \in {"begin", "run"}}} \cup Read

CancelSave ==
  LET t == cancel.task
  IN /\ t # NoTask
     /\ Save(t, cancel.object)
     /\ sure' = IF t \in Held THEN sure ELSE sure \cup {t}
     /\ cancel' = [task |-> NoTask, object |-> New]
     /\ UNCHANGED <<ready, delayed, born, consumer, mover, count, runs, asked, calls>>

\* The save fails, and Cancel returns the error.
CancelError ==
  /\ cancel.task # NoTask /\ Fault
  /\ cancel' = [task |-> NoTask, object |-> New]
  /\ UNCHANGED <<redis, born, consumer, mover, count, runs, asked, sure>>

\* Faulty variant, for a mutation: the zset is asked for first.
ZSetFirst(command) == IF command = "first" THEN delayed ELSE ready

\* LLEN of the list, then ZCOUNT of the zset.
Counted(command) == IF command = "first" THEN ready ELSE delayed

CountFirst ==
  /\ count.at # "one" /\ calls.counts < MaxCounts
  /\ count' = [at |-> "one", first |-> Counted("first"), second |-> {}, begun |-> {}]
  /\ calls' = [calls EXCEPT !.counts = @ + 1]
  /\ UNCHANGED <<redis, born, consumer, mover, cancel, runs, asked, sure>>

CountSecond ==
  /\ count.at = "one"
  /\ count' = [count EXCEPT !.at = "done", !.second = Counted("second")]
  /\ UNCHANGED <<redis, born, consumer, mover, cancel, runs, asked, sure, calls>>

-----------------------------------------------------------------------------
(* The environment.                                                        *)

\* The time to live of a hash ends.
Expire(t) ==
  /\ t \in expiring
  /\ hash' = [hash EXCEPT ![t] = NoHash]
  /\ expiring' = expiring \ {t}
  /\ UNCHANGED <<ready, delayed, born, consumer, mover, cancel, count, runs, asked, sure, calls>>

\* The worker process dies and is started again.
Crash ==
  /\ "crash" \in Faults /\ calls.faults < MaxFaults
  /\ calls' = [calls EXCEPT !.faults = @ + 1]
  /\ consumer' = [c \in Consumers |-> Off]
  /\ mover' = Rest
  /\ UNCHANGED <<redis, born, cancel, count, runs, asked, sure>>

-----------------------------------------------------------------------------
ConsumerStep(c) ==
  \/ BRPop(c) \/ Load(c) \/ Skip(c) \/ Begin(c)
  \/ EndSave(c) \/ EndRetry(c) \/ RetryId(c) \/ SaveError(c)

MoverStep == MoverRange \/ MoverPayloads \/ MoverCommit \/ MoverError

Next ==
  \/ \E t \in Tasks : PublishHash(t) \/ PublishId(t) \/ CancelGet(t) \/ Expire(t)
  \/ \E c \in Consumers : ConsumerStep(c)
  \/ MoverStep \/ CancelSave \/ CancelError \/ CountFirst \/ CountSecond \/ Crash

Spec == Init /\ [][Next]_vars

-----------------------------------------------------------------------------
Hashes == [status : Statuses, retries : Int] \cup {NoHash}
Objects == [status : Statuses, old : Statuses, retries : Int]

\* Every variable keeps its shape.
TypeOK ==
  /\ hash \in [Tasks -> Hashes]
  /\ expiring \subseteq Tasks /\ ready \subseteq Tasks /\ delayed \subseteq Tasks
  /\ born \in [Tasks -> {"new", "hash", "queued"}]
  /\ consumer \in [Consumers -> [at : {"idle", "load", "begin", "run", "push"},
                                 task : Tasks \cup {NoTask}, object : Objects]]
  /\ mover \in [at : {"wait", "read", "commit"}, ids : SUBSET Tasks,
                payloads : [Tasks -> Hashes]]
  /\ cancel \in [task : Tasks \cup {NoTask}, object : Objects]
  /\ count \in [at : {"none", "one", "done"}, first : SUBSET Tasks,
                second : SUBSET Tasks, begun : SUBSET Tasks]
  /\ runs \in [Tasks -> Nat]
  /\ asked \subseteq Tasks /\ sure \subseteq Tasks
  /\ calls \in [cancels : Nat, counts : Nat, faults : Nat]

\* The mover publishes the payload it has read two calls ago (broker_redis.go:206);
\* what it writes back is what Redis holds, unless the task was canceled since.
MoverFaithful ==
  \A t \in Read \ asked : mover.payloads[t] = hash[t]

\* README.md:377, "Cancel a waiting task": a task that is canceled while nobody
\* holds its payload stays canceled, whoever still has its id, and is not run.
CancelSticks ==
  \A t \in sure : hash[t].status \in {"canceled", "none"}

\* Count asks for the list first (broker_redis.go:403): a task counted in both
\* places was processed in between.
CountOnce ==
  count.at = "done" => count.first \cap count.second \subseteq count.begun

\* The status of a task as TaskLife has it, and the tasks with a consumer.
StatusSeen ==
  [t \in Tasks |-> IF born[t] = "new" THEN "unpublished"
                   ELSE IF Exists(t) THEN hash[t].status ELSE "expired"]

Running == {Job(c) : c \in {d \in Consumers : At(d) = "run"}}

Life == INSTANCE TaskLife WITH status <- StatusSeen, running <- Running

\* A task lives the life TaskLife promises: a result is never replaced by what
\* a mover, a consumer or an expired hash leaves behind, and a task that has
\* timed out (consumer.go:131) is not run again although it is published again.
LifeOfTask == Life!LSpec

(* README.md shows the settings under which these claims fail.             *)

\* README.md:377, "Cancel a waiting task": one that is canceled while its id is
\* in the queue is not run after that.
CanceledNotRun ==
  [][\A t \in asked : cancel.task # t /\ hash[t].status = "canceled"
                        => runs'[t] = runs[t]]_vars

\* queue.go:248, "total: number of total tasks": a task that is in the queue
\* all the time is counted.
CountAll ==
  [][count'.at = "done" /\ count.at = "one" /\ count.begun = {}
       => ready \cup delayed \subseteq count.first \cup count'.second]_vars
=============================================================================

------------------------------ MODULE Retries -------------------------------
(***************************************************************************)
(* One task with the settings it was published with, from Queue.Publish or *)
(* the RPC handler to its end: how often it runs, when, and for how long.  *)
(* It is stored between two attempts, so that each attempt works with what *)
(* Serialize and TaskFromPayload have left of the settings.  The broker    *)
(* shows the task to a consumer in the second of its ETA or later, and an  *)
(* attempt is one consumer's, without the interleavings of Consumer.       *)
(***************************************************************************)
EXTENDS Options

CONSTANTS
  EngineOptions,  \* the lists of options New may be given
  TaskOptions,    \* the lists of options Queue.Publish may be given
  Requests,       \* the requests PublishTask of contrib/rpc may be given
  Payloads,       \* the payloads of tasks, Nil among them or not
  MaxWaits        \* bound: how often the clock advances by a tick

ASSUME RetriesAssumption == MaxWaits \in Nat
ASSUME OptionsAssumption ==
  /\ EngineOptions \cup TaskOptions \subseteq Seq(Option)
  /\ \A req \in Requests : \A field \in DOMAIN newOptions \cap DOMAIN req :
       With(field, req[field]) \in Option

VARIABLES
  now,       \* the clock
  waits,     \* how often it has advanced by a tick
  engine,    \* the options of the engine
  options,   \* the options of the task
  task,      \* the task in the memory of whoever has it
  hash,      \* what Redis holds of it
  due,       \* the second from which on the queue shows it
  at,        \* "queued", "running", "over"
  attempts   \* history: when each attempt began and ended, and how

vars == <<now, waits, engine, options, task, hash, due, at, attempts>>

\* RedisBroker.publish: no ETA or a past one goes to the list, for now.
DueSecond(eta) == IF eta < now THEN 0 ELSE Seconds(eta)

\* Queue.Publish, called directly or by the RPC handler, has been executed.  The
\* clock is past zero, so that even a past ETA is a time.
Init ==
  /\ now = 1 /\ waits = 0
  /\ engine \in EngineOptions
  /\ options \in TaskOptions \cup {RequestOptions(req) : req \in Requests}
  /\ \E payload \in Payloads : task = NewTask(payload, Effective(engine, options), now)
  /\ hash = Serialize(task)
  /\ due = DueSecond(task.eta)
  /\ at = "queued" /\ attempts = <<>>

\* The clock: a tick, or, when nothing happens until then, to just before the
\* time at which something may: a delayed task is due, an attempt times out.
Horizon ==
  IF at = "queued" THEN Ticks(due)
  ELSE IF at = "running" THEN Last(attempts).from + task.timeout
  ELSE now

Tick ==
  /\ \/ waits < MaxWaits /\ waits' = waits + 1 /\ now' = now + 1
     \/ Horizon > now + 1 /\ now' = Horizon - 1 /\ UNCHANGED waits
  /\ UNCHANGED <<engine, options, task, hash, due, at, attempts>>

\* The id is popped and the payload read; a payload that lacks a field is
\* skipped, a canceled task is not handled.
Receive ==
  /\ at = "queued" /\ due <= Seconds(now)
  /\ IF ~Complete(hash) THEN at' = "over" /\ UNCHANGED <<task, hash, attempts>>
     ELSE LET read == TaskFromPayload(hash)
          IN IF read.status = "canceled"
               THEN at' = "over" /\ task' = read /\ UNCHANGED <<hash, attempts>>
               ELSE /\ at' = "running"
                    /\ task' = [read EXCEPT !.status = "processing"]
                    /\ hash' = HMSet(hash, Serialize(task'))
                    /\ attempts' = Append(attempts, [from |-> now, to |-> now, how |-> "running"])
  /\ UNCHANGED <<now, waits, engine, options, due>>

\* handleError: the result is saved, or the task published with its next ETA.
End(status) ==
  LET result == [task EXCEPT !.status = status]
      again == [result EXCEPT !.retries = @ - 1]
      last == status = "succeeded" \/ task.retries = 0
  IN /\ at = "running"
     /\ attempts' = [attempts EXCEPT ![Len(attempts)] = [@ EXCEPT !.to = now, !.how = status]]
     /\ task' = IF last THEN result ELSE [again EXCEPT !.eta = RetryETA(again, now)]
     /\ hash' = HMSet(hash, Serialize(task'))
     /\ at' = IF last THEN "over" ELSE "queued"
     /\ due' = IF last THEN due ELSE DueSecond(task'.eta)
     /\ UNCHANGED <<now, waits, engine, options>>

Succeed == End("succeeded")

Fail == End("failed")

TimeOut == now - Last(attempts).from >= task.timeout /\ End("canceled")

Next == Tick \/ Receive \/ Succeed \/ Fail \/ (at = "running" /\ TimeOut)

Spec == Init /\ [][Next]_vars

-----------------------------------------------------------------------------
\* What whoever publishes a task asks for: the value given last for a field, by
\* the task's own options if there are any, else by the engine's, or the default.
Asked(field) ==
  LET given == IF options = <<>> THEN engine ELSE options
      at_ == {i \in DOMAIN given : given[i].field = field}
  IN IF at_ = {} THEN newOptions[field]
     ELSE given[CHOOSE i \in at_ : \A j \in at_ : j <= i].value

\* README.md:284, "based on intervals: `60 seconds`, `120 seconds`, `180
\* seconds`": between two runs of a task that has no more retries than
\* intervals, the whole seconds of the interval of that retry pass, up to the
\* second the broker rounds to, and the intervals are taken in their order, so
\* that the last retry waits for the last one.
RetriesSpaced ==
  LET intervals == Asked("retryIntervals")
      first == Len(intervals) - Asked("maxRetries")
  IN first >= 0 =>
       \A k \in 1..(Len(attempts) - 1) :
         attempts[k + 1].from - attempts[k].to > Whole(intervals[first + k]) - TicksPerSecond

\* README.md:286, "customize this globally on the engine or when publishing a
\* new task": a task runs at most once more than it was asked to be retried,
\* and exactly so often when it has failed for good.
RetriesAsAsked ==
  /\ Len(attempts) <= Asked("maxRetries") + 1
  /\ at = "over" /\ task.status = "failed" => Len(attempts) = Asked("maxRetries") + 1

\* However often the task goes through Redis, an attempt works with the whole
\* seconds of what was asked (task.go:275, task.go:65).
SettingsStable ==
  at = "running" =>
    /\ task.timeout = Whole(Asked("timeout")) /\ task.ttl = Whole(Asked("ttl"))
    /\ Len(task.intervals) = Len(Asked("retryIntervals"))
    /\ \A i \in DOMAIN task.intervals : task.intervals[i] = Whole(Asked("retryIntervals")[i])

(* README.md shows the settings under which these claims fail.              *)

\* README.md:283, a failing task is "retried `3 times`, based on intervals":
\* every retry waits, however many retries and intervals a task is given.
RetriesWait ==
  [][at = "running" /\ task'.status = "failed" /\ at' = "queued" => task'.eta > now]_vars

\* README.md:298, canceled "if its running time exceed" the timeout that was
\* asked for, and not before.
TimeoutAsAsked ==
  \A k \in DOMAIN attempts :
    attempts[k].how = "canceled" => attempts[k].to - attempts[k].from >= Asked("timeout")

\* README.md:286, "customize this globally on the engine or when publishing": a
\* setting the engine was given holds for a task that is given another one.
EngineDefaultsKept ==
  at = "running" =>
    \A i \in DOMAIN engine :
      engine[i].field = "maxRetries" /\ (\A j \in DOMAIN options : options[j].field # "maxRetries")
        => Len(attempts) + task.retries = engine[i].value + 1

\* A task that Publish has accepted is handled or canceled, whatever its payload.
AcceptedIsHandled == at = "over" => attempts # <<>>

\* The task PublishTask of contrib/rpc answers with is the one that is run.
ReplyIsKept ==
  at = "running" /\ Len(attempts) = 1 =>
    Reply(task) = Reply(NewTask(task.payload, Effective(engine, options), 0))
=============================================================================

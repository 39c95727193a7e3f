------------------------------ MODULE Options ------------------------------
(***************************************************************************)
(* The settings of a task and where they come from (options.go,            *)
(* constants.go, queue.go, contrib/rpc), and what is left of them in Redis *)
(* (Serialize and TaskFromPayload of task.go, the conversions of utils.go).*)
(* Durations and times are ticks; Redis keeps whole seconds.               *)
(***************************************************************************)
EXTENDS Task

CONSTANTS
  TicksPerSecond,
  Nil              \* no value: no countdown, no payload

ASSUME SecondAssumption == TicksPerSecond \in Nat \ {0}

Seconds(d) == d \div TicksPerSecond
Ticks(s) == s * TicksPerSecond
Whole(d) == Ticks(Seconds(d))

-----------------------------------------------------------------------------
(* Options.  An option sets one field.                                     *)

With(field, value) == [field |-> field, value |-> value]

\* Settings the program makes sense of: no negative retries or durations, apart
\* from the countdown of a task that is published at once.  Of a negative one
\* only the sign matters, and -1 stands for all.
Option ==
  [field : {"maxRetries", "ttl", "timeout"}, value : Nat]
  \cup [field : {"retryIntervals"}, value : Seq(Nat)]
  \cup [field : {"countdown"}, value : Nat \cup {-1, Nil}]

WithMaxRetries(n) == With("maxRetries", n)
WithRetryIntervals(durations) == With("retryIntervals", durations)
WithTTL(duration) == With("ttl", duration)
WithTimeout(duration) == With("timeout", duration)
WithCountdown(duration) == With("countdown", duration)

\* newOptions, with the values of constants.go.
newOptions ==
  [maxRetries |-> 3, retryIntervals |-> <<Ticks(60), Ticks(120), Ticks(180)>>,
   ttl |-> Ticks(180), timeout |-> Ticks(180), countdown |-> Nil]

Apply(opts, option) == [opts EXCEPT ![option.field] = option.value]

\* Faulty variant, for a mutation: the options are applied from the last on.
ConfiguredBackwards(options) == FoldRight(LAMBDA o, opts : Apply(opts, o), options, newOptions)

\* New options to which the given ones are applied in turn.
Configured(options) == FoldLeft(Apply, newOptions, options)

\* Those of Queue.NewTask: any option given there takes the place of all that
\* the engine was given.
Effective(engine, options) ==
  Configured(IF options = <<>> THEN engine ELSE options)

\* getRequestOptions of contrib/rpc: the fields the request has, as options, and
\* no option for an empty list of intervals.
RequestOptions(req) ==
  LET given(field) == IF field \in DOMAIN req THEN <<With(field, req[field])>> ELSE <<>>
      intervals == given("retryIntervals")
  IN given("countdown") \o given("ttl") \o given("maxRetries")
     \o (IF intervals = <<WithRetryIntervals(<<>>)>> THEN <<>> ELSE intervals)
     \o given("timeout")

-----------------------------------------------------------------------------
(* The task, and its hash.                                                 *)

NewTask(payload, opts, now) ==
  [status |-> "waiting", old |-> "waiting", payload |-> payload,
   retries |-> opts.maxRetries, intervals |-> opts.retryIntervals,
   ttl |-> opts.ttl, timeout |-> opts.timeout,
   eta |-> IF opts.countdown = Nil THEN NoETA ELSE now + opts.countdown]

\* The fields with their values, without those that are only written when they
\* have one.
Written(t, fields) ==
  Restrict(fields, DOMAIN fields \ ((IF t.eta = NoETA THEN {"eta"} ELSE {})
                                   \cup (IF t.payload = Nil THEN {"payload"} ELSE {})
                                   \cup (IF t.intervals = <<>> THEN {"retry_intervals"} ELSE {})))

Fields(t) ==
  [status |-> t.status, max_retries |-> t.retries, payload |-> t.payload,
   ttl |-> Seconds(t.ttl), timeout |-> Seconds(t.timeout), eta |-> Seconds(t.eta),
   retry_intervals |-> [i \in DOMAIN t.intervals |-> Seconds(t.intervals[i])]]

\* Faulty variant, for a mutation: the timeout keeps its ticks.
SerializeFineTimeout(t) == Written(t, [Fields(t) EXCEPT !.timeout = t.timeout])

Serialize(t) == Written(t, Fields(t))

\* HMSET: the fields that are not written stay what they were.
HMSet(hash, data) ==
  [field \in DOMAIN data \cup DOMAIN hash |->
     IF field \in DOMAIN data THEN data[field] ELSE hash[field]]

\* mapString and its like find every field that must be there.
Complete(hash) == {"status", "max_retries", "ttl", "payload"} \subseteq DOMAIN hash

TaskFromPayload(hash) ==
  LET has(field) == field \in DOMAIN hash
  IN [status |-> hash.status, old |-> hash.status, payload |-> hash.payload,
      retries |-> hash.max_retries,
      intervals |-> IF ~has("retry_intervals") THEN <<>>
                    ELSE [i \in DOMAIN hash.retry_intervals |-> Ticks(hash.retry_intervals[i])],
      ttl |-> Ticks(hash.ttl),
      timeout |-> IF has("timeout") THEN Ticks(hash.timeout) ELSE 0,
      eta |-> IF has("eta") THEN Ticks(hash.eta) ELSE NoETA]

\* The duration fields a caller sees of the task it has published: those of the
\* task in memory (TaskToProto of contrib/rpc).
Reply(t) == [ttl |-> t.ttl, timeout |-> t.timeout, intervals |-> t.intervals]
=============================================================================

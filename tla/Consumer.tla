------------------------------ MODULE Consumer ------------------------------
(***************************************************************************)
(* The life of one task in the consumers of a worker process (consumer.go):*)
(* each time the task is consumed is an attempt.  In an attempt two        *)
(* goroutines work on the same Task object: main, the consumer's own, runs *)
(* Handle; exec, started by handleTask, runs the middlewares, the handler  *)
(* and handleRequest.  Both may run handleError.  They share the variable  *)
(* err of handleTask and meet on the unbuffered channel conn; when main    *)
(* gives up because of the timeout, exec is left behind.                   *)
(*                                                                         *)
(* A step is what a goroutine does between two accesses to state that the  *)
(* other goroutine, or Redis, may change.  The delay of a retry is not     *)
(* modelled here (RedisBroker has it): a task that is in the queue may be  *)
(* consumed at any time.                                                   *)
(***************************************************************************)
EXTENDS Task, FiniteSets

CONSTANTS
  MaxRetries,    \* Options.MaxRetries of the task
  MaxAttempts,   \* bound: how many times the task is consumed
  Concurrency,   \* how many consumers the queue has
  Outcomes,      \* what the handler may do
  Timeouts,      \* may a handler run longer than Task.Timeout?
  Recoverer,     \* the Recoverer middleware: absent, first, or behind another
  Faults,        \* what may fail: "save", a write to the broker; "event", an event handler
  MaxCancels     \* bound: calls of Queue.Cancel

ASSUME ConsumerAssumption ==
  /\ MaxRetries \in Nat /\ MaxAttempts \in Nat \ {0} /\ Concurrency \in Nat \ {0}
  /\ Outcomes \subseteq {"ok", "error", "cancel", "panic", "hang"}
  /\ Timeouts \in BOOLEAN /\ Faults \subseteq {"save", "event"} /\ MaxCancels \in Nat
  /\ Recoverer \in {"absent", "first", "behind"}

Attempts == 1..MaxAttempts
Threads == {"main", "exec"}

VARIABLES
  store,     \* the hash of the task, with whether it has a time to live
  queued,    \* how many times the task's id is in the queue
  attempts,  \* how many attempts have begun
  task,      \* the Task object of each attempt
  thread,    \* per attempt and goroutine: where it is, its err, the retries it read
  err,       \* the variable err of handleTask that both goroutines use
  outcome,   \* history: what the handler of each attempt did
  events,    \* history: the events fired, by attempt
  cancel     \* Queue.Cancel: the task it has read, and how often it was called

vars == <<store, queued, attempts, task, thread, err, outcome, events, cancel>>

Off == [at |-> "off", err |-> "nil", retries |-> 0]
NoHash == [status |-> "none", retries |-> 0]

\* Queue.PublishTask of the new task has been executed.
Init ==
  /\ store = [hash |-> [status |-> "waiting", retries |-> MaxRetries], ttl |-> FALSE]
  /\ queued = 1 /\ attempts = 0
  /\ task = [a \in Attempts |-> Loaded([status |-> "waiting", retries |-> MaxRetries])]
  /\ thread = [a \in Attempts |-> [h \in Threads |-> Off]]
  /\ err = [a \in Attempts |-> "nil"]
  /\ outcome = [a \in Attempts |-> "none"]
  /\ events = [a \in Attempts |-> <<>>]
  /\ cancel = [read |-> NoHash, calls |-> 0]

At(a, h) == thread[a][h].at
Goto(a, h, label) == thread' = [thread EXCEPT ![a][h].at = label]
Status(a) == task[a].status

Busy == {a \in Attempts : At(a, "main") \notin {"off", "done", "dead"}}

\* Queue.Save: a finished task gets its time to live, which a later HMSET
\* leaves in place.
Save(t) == store' = [hash |-> Stored(t), ttl |-> store.ttl \/ Finished(t)]

-----------------------------------------------------------------------------
(* Handle, up to the start of the handler.                                 *)

\* Faulty variant, for a mutation: the id is read and stays in the queue.
ReceiveUnpopped ==
  LET a == attempts + 1
  IN /\ queued > 0 /\ attempts < MaxAttempts /\ Cardinality(Busy) < Concurrency
     /\ attempts' = a
     /\ task' = [task EXCEPT ![a] = Loaded(store.hash)]
     /\ Goto(a, "main", "begin")
     /\ UNCHANGED <<store, queued, err, outcome, events, cancel>>

\* Faulty variant, for a mutation: the pop of an empty queue succeeds.
ReceiveUnqueued ==
  LET a == attempts + 1
  IN /\ attempts < MaxAttempts /\ Cardinality(Busy) < Concurrency
     /\ queued' = queued - 1 /\ attempts' = a
     /\ task' = [task EXCEPT ![a] = Loaded(store.hash)]
     /\ Goto(a, "main", "begin")
     /\ UNCHANGED <<store, err, outcome, events, cancel>>

\* Queue.Consume: the id is popped and its payload read.
Receive ==
  LET a == attempts + 1
  IN /\ queued > 0 /\ attempts < MaxAttempts /\ Cardinality(Busy) < Concurrency
     /\ queued' = queued - 1 /\ attempts' = a
     /\ task' = [task EXCEPT ![a] = Loaded(store.hash)]
     /\ Goto(a, "main", "begin")
     /\ UNCHANGED <<store, err, outcome, events, cancel>>

\* A task that was canceled goes straight to the events.
Begin(a) ==
  /\ At(a, "main") = "begin"
  /\ IF Status(a) = "canceled" THEN Goto(a, "main", "events") /\ UNCHANGED task
     ELSE /\ Goto(a, "main", "processing")
          /\ task' = [task EXCEPT ![a].status = "processing"]
  /\ UNCHANGED <<store, queued, attempts, err, outcome, events, cancel>>

\* Queue.Save of the processing task.
SaveProcessing(a) ==
  /\ At(a, "main") = "processing"
  /\ \/ Save(task[a]) /\ Goto(a, "main", "start")
     \/ "save" \in Faults /\ Goto(a, "main", "done") /\ (Save(task[a]) \/ UNCHANGED store)
  /\ UNCHANGED <<queued, attempts, task, err, outcome, events, cancel>>

\* Queue.fireEvents for the status the task has.
Fired(t) ==
  (IF t.status = "processing" THEN <<"start">> ELSE <<>>)
  \o (IF t.status = "succeeded" THEN <<"success">> ELSE <<>>)
  \o (IF t.status \in {"failed", "canceled"} THEN <<"failure">> ELSE <<>>)
  \o (IF Finished(t) THEN <<"complete">> ELSE <<>>)

Fire(a, n) == events' = [events EXCEPT ![a] = @ \o SubSeq(Fired(task[a]), 1, n)]

FireAll(a) == Fire(a, Len(Fired(task[a])))

\* The first fireEvents, then handleTask starts exec and waits.
Start(a) ==
  /\ At(a, "main") = "start"
  /\ FireAll(a)
  /\ thread' = [thread EXCEPT ![a]["main"].at = "select", ![a]["exec"].at = "handler"]
  /\ UNCHANGED <<store, queued, attempts, task, err, outcome, cancel>>

\* The n-th event handler fails: Handle returns its error.
EventError(a) ==
  /\ "event" \in Faults /\ At(a, "main") \in {"start", "events"}
  /\ \E n \in DOMAIN Fired(task[a]) : Fire(a, n)
  /\ Goto(a, "main", "done")
  /\ UNCHANGED <<store, queued, attempts, task, err, outcome, cancel>>

-----------------------------------------------------------------------------
(* exec: the handler and what surrounds it.                                *)

Return(a, result) ==
  thread' = [thread EXCEPT ![a]["exec"].at = "return", ![a]["exec"].err = result]

\* The handler ends; handleRequest passes its error to handleError, a panic
\* goes past handleRequest.
HandlerEnds(a, o) ==
  /\ At(a, "exec") = "handler" /\ o # "hang"
  /\ outcome' = [outcome EXCEPT ![a] = o]
  /\ IF o = "panic"
       THEN IF Recoverer = "absent" THEN Goto(a, "exec", "unwind") ELSE Return(a, "nil")
       ELSE thread' = [thread EXCEPT ![a]["exec"].at = "check",
              ![a]["exec"].err = CASE o = "ok" -> "nil" [] o = "error" -> "error"
                                   [] o = "cancel" -> "canceled"]
  /\ UNCHANGED <<store, queued, attempts, task, err, events, cancel>>

\* The handler never ends.
HandlerHangs(a) ==
  /\ At(a, "exec") = "handler" /\ "hang" \in Outcomes
  /\ outcome' = [outcome EXCEPT ![a] = "hang"]
  /\ Goto(a, "exec", "hanging")
  /\ UNCHANGED <<store, queued, attempts, task, err, events, cancel>>

\* err = chain(...).Handle(r)
ChainReturns(a) ==
  /\ At(a, "exec") = "return"
  /\ err' = [err EXCEPT ![a] = thread[a]["exec"].err]
  /\ Goto(a, "exec", "context")
  /\ UNCHANGED <<store, queued, attempts, task, outcome, events, cancel>>

\* Faulty variant, for a mutation: the context is not read.
NoContextError(a) == "nil"

\* The error Recoverer left in the request's context: seen only when no
\* middleware before it handed a copy of the request on.
ContextError(a) ==
  IF outcome[a] = "panic" /\ Recoverer = "first" THEN "error" ELSE "nil"

ReadContext(a) ==
  /\ At(a, "exec") = "context"
  /\ err' = [err EXCEPT ![a] = IF @ = "nil" THEN ContextError(a) ELSE @]
  /\ Goto(a, "exec", "send")
  /\ UNCHANGED <<store, queued, attempts, task, outcome, events, cancel>>

\* The deferred send meets main in its select; after an unrecovered panic the
\* process then dies.
Send(a) ==
  /\ At(a, "exec") \in {"send", "unwind"} /\ At(a, "main") = "select"
  /\ thread' = [thread EXCEPT
       ![a]["main"].at = "check", ![a]["main"].err = err[a],
       ![a]["exec"].at = IF At(a, "exec") = "send" THEN "done" ELSE "dying"]
  /\ UNCHANGED <<store, queued, attempts, task, err, outcome, events, cancel>>

ProcessDies ==
  /\ \E a \in Attempts : At(a, "exec") = "dying"
  /\ thread' = [a \in Attempts |-> [h \in Threads |->
       IF At(a, h) \in {"off", "done"} THEN thread[a][h] ELSE [Off EXCEPT !.at = "dead"]]]
  /\ UNCHANGED <<store, queued, attempts, task, err, outcome, events, cancel>>

-----------------------------------------------------------------------------
(* main: the timeout.                                                      *)

\* Faulty variant, for a mutation: the timeout leaves err alone.
TimeOutWithoutError(a) ==
  /\ Timeouts /\ At(a, "main") = "select"
  /\ Goto(a, "main", "timedout")
  /\ UNCHANGED <<store, queued, attempts, task, err, outcome, events, cancel>>

\* Faulty variant, for a mutation: the timeout waits for the handler.
TimeOutOnceReturned(a) ==
  /\ Timeouts /\ At(a, "main") = "select" /\ At(a, "exec") = "send"
  /\ err' = [err EXCEPT ![a] = "canceled"]
  /\ Goto(a, "main", "timedout")
  /\ UNCHANGED <<store, queued, attempts, task, outcome, events, cancel>>

TimeOut(a) ==
  /\ Timeouts /\ At(a, "main") = "select"
  /\ err' = [err EXCEPT ![a] = "canceled"]
  /\ Goto(a, "main", "timedout")
  /\ UNCHANGED <<store, queued, attempts, task, outcome, events, cancel>>

\* handleTask returns what err holds by now.
LeaveHandleTask(a) ==
  /\ At(a, "main") = "timedout"
  /\ thread' = [thread EXCEPT ![a]["main"].at = "check", ![a]["main"].err = err[a]]
  /\ UNCHANGED <<store, queued, attempts, task, err, outcome, events, cancel>>

-----------------------------------------------------------------------------
(* handleError, by either goroutine.                                       *)

\* It returns: exec goes on in handleTask, main in Handle.
Leave(a, h, result) ==
  IF h = "exec" THEN Return(a, result)
  ELSE Goto(a, h, IF result = "nil" THEN "events" ELSE "done")

\* Faulty variant, for a mutation: the status is not looked at.
CheckNothing(a, h) ==
  /\ At(a, h) = "check"
  /\ Goto(a, h, "mark")
  /\ UNCHANGED <<store, queued, attempts, task, err, outcome, events, cancel>>

Check(a, h) ==
  /\ At(a, h) = "check"
  /\ IF Status(a) # "processing" THEN Leave(a, h, "nil") ELSE Goto(a, h, "mark")
  /\ UNCHANGED <<store, queued, attempts, task, err, outcome, events, cancel>>

Mark(a, h) ==
  /\ At(a, h) = "mark"
  /\ task' = [task EXCEPT ![a].status =
       CASE thread[a][h].err = "nil" -> "succeeded"
         [] thread[a][h].err = "canceled" -> "canceled"
         [] thread[a][h].err = "error" -> "failed"]
  /\ Goto(a, h, IF thread[a][h].err = "nil" THEN "save" ELSE "test")
  /\ UNCHANGED <<store, queued, attempts, err, outcome, events, cancel>>

\* Faulty variant, for a mutation: the last retry is not used.
TestOneLess(a, h) ==
  /\ At(a, h) = "test"
  /\ thread' = [thread EXCEPT ![a][h].retries = task[a].retries,
                              ![a][h].at = IF task[a].retries <= 1 THEN "save" ELSE "dec"]
  /\ UNCHANGED <<store, queued, attempts, task, err, outcome, events, cancel>>

\* Faulty variant, for a mutation: a task is always retried.
NoTest(a, h) ==
  /\ At(a, h) = "test"
  /\ thread' = [thread EXCEPT ![a][h].retries = task[a].retries, ![a][h].at = "dec"]
  /\ UNCHANGED <<store, queued, attempts, task, err, outcome, events, cancel>>

TestRetries(a, h) ==
  /\ At(a, h) = "test"
  /\ thread' = [thread EXCEPT ![a][h].retries = task[a].retries,
                              ![a][h].at = IF task[a].retries = 0 THEN "save" ELSE "dec"]
  /\ UNCHANGED <<store, queued, attempts, task, err, outcome, events, cancel>>

\* Faulty variant, for a mutation: the retry is not counted.
NoDec(a, h) ==
  /\ At(a, h) = "dec"
  /\ Goto(a, h, "publish")
  /\ UNCHANGED <<store, queued, attempts, task, err, outcome, events, cancel>>

\* task.MaxRetries -= 1: the compiler may use the value it has just tested.
DecRetries(a, h) ==
  /\ At(a, h) = "dec"
  /\ \E read \in {thread[a][h].retries, task[a].retries} :
       task' = [task EXCEPT ![a].retries = read - 1]
  /\ Goto(a, h, "publish")
  /\ UNCHANGED <<store, queued, attempts, err, outcome, events, cancel>>

\* Queue.PublishTask, a pipeline of HMSET, which leaves a time to live in place,
\* and a push.  It may fail before either, between them, and after both.
PublishRetry(a, h) ==
  /\ At(a, h) = "publish"
  /\ \E set, pushed \in BOOLEAN :
       /\ pushed => set
       /\ store' = IF set THEN [store EXCEPT !.hash = Stored(task[a])] ELSE store
       /\ queued' = IF pushed THEN queued + 1 ELSE queued
       /\ \/ set /\ pushed /\ Leave(a, h, "nil")
          \/ "save" \in Faults /\ Leave(a, h, "error")
  /\ UNCHANGED <<attempts, task, err, outcome, events, cancel>>

\* Faulty variant, for a mutation: the result is kept in memory only.
SaveNothing(a, h) ==
  /\ At(a, h) = "save"
  /\ Leave(a, h, "nil")
  /\ UNCHANGED <<store, queued, attempts, task, err, outcome, events, cancel>>

SaveResult(a, h) ==
  /\ At(a, h) = "save"
  /\ \/ Save(task[a]) /\ Leave(a, h, "nil")
     \/ "save" \in Faults /\ Leave(a, h, "error") /\ (Save(task[a]) \/ UNCHANGED store)
  /\ UNCHANGED <<queued, attempts, task, err, outcome, events, cancel>>

\* The last fireEvents of Handle.
FireEvents(a) ==
  /\ At(a, "main") = "events"
  /\ FireAll(a)
  /\ Goto(a, "main", "done")
  /\ UNCHANGED <<store, queued, attempts, task, err, outcome, cancel>>

-----------------------------------------------------------------------------
(* Queue.Cancel: Get, then Save.                                           *)

CancelGet ==
  /\ cancel.calls < MaxCancels /\ cancel.read = NoHash
  /\ cancel' = [read |-> store.hash, calls |-> cancel.calls + 1]
  /\ UNCHANGED <<store, queued, attempts, task, thread, err, outcome, events>>

CancelSave ==
  /\ cancel.read # NoHash
  /\ Save([Loaded(cancel.read) EXCEPT !.status = "canceled"])
  /\ cancel' = [cancel EXCEPT !.read = NoHash]
  /\ UNCHANGED <<queued, attempts, task, thread, err, outcome, events>>

-----------------------------------------------------------------------------
HandleError(a, h) ==
  \/ Check(a, h) \/ Mark(a, h) \/ TestRetries(a, h)
  \/ DecRetries(a, h) \/ PublishRetry(a, h) \/ SaveResult(a, h)

Main(a) ==
  \/ Begin(a) \/ SaveProcessing(a) \/ Start(a) \/ LeaveHandleTask(a)
  \/ HandleError(a, "main") \/ FireEvents(a) \/ EventError(a)

Exec(a) ==
  \/ \E o \in Outcomes : HandlerEnds(a, o)
  \/ HandlerHangs(a)
  \/ ChainReturns(a) \/ ReadContext(a) \/ HandleError(a, "exec")

Next ==
  \/ Receive \/ CancelGet \/ CancelSave \/ ProcessDies
  \/ \E a \in Attempts : Main(a) \/ Exec(a) \/ Send(a) \/ TimeOut(a)

Spec == Init /\ [][Next]_vars

\* Goroutines are scheduled, handlers end unless they hang, a channel meeting
\* that stays possible happens, and a deadline that is reached fires.
Fairness ==
  /\ WF_vars(Receive)
  /\ \A a \in Attempts : /\ WF_vars(Main(a)) /\ WF_vars(Exec(a))
                         /\ WF_vars(Send(a) \/ TimeOut(a))

FairSpec == Spec /\ Fairness

-----------------------------------------------------------------------------
Ran == {a \in Attempts : At(a, "exec") = "handler" \/ outcome[a] # "none"}
Running == {a \in Attempts : At(a, "exec") \in {"handler", "hanging"}}

\* The attempts whose consumer has left handleTask before the handler did: exec
\* is still there, blocked in its send at last, or it died with the process.
Overran ==
  {a \in Attempts : /\ Timeouts
                    /\ At(a, "main") \notin {"off", "begin", "processing", "start", "select"}
                    /\ At(a, "exec") \notin {"off", "dying", "done"}}

Quiet == queued = 0 /\ Busy = {} /\ cancel.read = NoHash
Final == {"succeeded", "failed", "canceled"}

\* Every variable keeps its shape.
TypeOK ==
  /\ store \in [hash : [status : Statuses, retries : Int], ttl : BOOLEAN]
  /\ queued \in Nat /\ attempts \in 0..MaxAttempts
  /\ task \in [Attempts -> [status : Statuses, old : Statuses, retries : Int]]
  /\ thread \in [Attempts -> [Threads ->
       [at : {"off", "begin", "processing", "start", "select", "timedout", "check",
              "mark", "test", "dec", "publish", "save", "events", "handler",
              "hanging", "return", "context", "send", "unwind", "dying", "done", "dead"},
        err : {"nil", "error", "canceled"}, retries : Int]]]
  /\ err \in [Attempts -> {"nil", "error", "canceled"}]
  /\ outcome \in [Attempts -> Outcomes \cup {"none"}]
  /\ events \in [Attempts -> Seq({"start", "success", "failure", "complete"})]
  /\ cancel \in [read : [status : Statuses \cup {"none"}, retries : Int], calls : 0..MaxCancels]

\* The handler of a task never runs twice at once, nor while a retry of the
\* task is queued: the retry is published after the handler has returned.  Each
\* attempt that exceeds its deadline may add one copy and no more, since both its
\* goroutines may publish the task (consumer.go:109).
HandlerAlone == queued + Cardinality(Running) <= 1 + Cardinality(Overran)

\* README.md:283, "retried `3 times`": the handler runs at most once more than
\* the task has retries.
RetryBudget == Cardinality(Ran) <= MaxRetries + 1

\* The other direction: a task is left failed only after all its retries.
AllRetriesUsed ==
  Quiet /\ store.hash.status = "failed" => Cardinality(Ran) = MaxRetries + 1

\* docs/a-tour-of-bokchoy.md:371, a task that panics "is marked as `failed`
\* like any handler which returns an error": a task is saved as succeeded only
\* when a handler returned nil.
SuccessIsReal ==
  store.hash.status = "succeeded" => \E a \in Attempts : outcome[a] = "ok"

\* A success event is the last word about a task, also when commands fail: the
\* task is not queued nor received again, and the broker holds it as succeeded,
\* unless it was canceled or the first handleError, whose error the second hides
\* (consumer.go:109), has reported that it could not save it.
SuccessSaved ==
  \A a \in Attempts : "success" \in ToSet(events[a]) =>
    /\ queued = 0 /\ attempts = a
    /\ store.hash.status \in {"succeeded"}
         \cup (IF err[a] = "nil" THEN {} ELSE {"processing"})
         \cup (IF cancel.calls = 0 THEN {} ELSE {"canceled"})

\* README.md:306, "The worker will regain control and process the next task":
\* whatever the handler does, the consumer gets out of handleTask and Handle.
WorkerRegained ==
  \A a \in Attempts : At(a, "main") = "select" ~> At(a, "main") \in {"done", "dead"}

\* README.md:359, "the default task TTL is `180 seconds`": a task whose result
\* has been saved for good has a time to live, which goes by the status and the
\* retries two goroutines have changed and by what the task was when it was read
\* (queue.go:348, task.go:356).
KeptForTTL ==
  Quiet /\ store.hash.status \in {"succeeded", "failed"} => store.ttl

\* A task comes to an end and stays there.
EventuallySettled == <>[](Quiet /\ store.hash.status \in Final)

(* README.md shows the settings under which each of these claims fails.     *)

\* queue.go:61, OnComplete is "executed when a task is completed": no handler
\* runs after the complete event.
CompleteAfterEnd ==
  \A a \in Attempts : "complete" \in ToSet(events[a]) => Running = {}

\* queue.go:80, OnSuccess is "executed when a task is succeeded": the broker then
\* holds the task as succeeded.
SuccessIsStored ==
  \A a \in Attempts : "success" \in ToSet(events[a]) => store.hash.status = "succeeded"

\* README.md:359, "the default task TTL is `180 seconds`": a task that has
\* come to its end has a time to live.
EndedHasTTL == Quiet /\ store.hash.status \in Final => store.ttl

\* consumer.go:150, "Task marked as failed: retrying in": a retry that was
\* published is run when it is consumed.
RetriedTaskRuns ==
  [][\A a \in Attempts :
       At(a, "main") = "begin" /\ At(a, "main")' # "begin" /\ a > 1 /\ cancel.calls = 0
         => At(a, "main")' = "processing"]_vars

\* README.md:307, "you have to cancel your task at some point or it will be
\* leaking": the goroutine of a handler that does return ends.
NoLeak == \A a \in Attempts : At(a, "exec") = "send" ~> At(a, "exec") \in {"done", "dead"}
=============================================================================

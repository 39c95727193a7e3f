------------------------------- MODULE Engine -------------------------------
(***************************************************************************)
(* The life of a worker process (bokchoy.go, consumer.go): one goroutine   *)
(* calls Run and leaves main when it returns, another calls Stop each time *)
(* a signal arrives, and every consumer and server has its own.  They meet *)
(* on the WaitGroup wg, whose counter panics below zero, and on the mutex  *)
(* of each consumer, which Handle holds from its first line to its last.   *)
(*                                                                         *)
(* The queues are a Go map: Run starts and Stop stops their consumers in   *)
(* any order; the order within one queue is left open too.                 *)
(***************************************************************************)
EXTENDS Integers, FiniteSets

CONSTANTS
  Consumers,   \* the consumers of all queues of the engine
  Selected,    \* those of the queues Run is told to run (WithQueues)
  Servers,     \* Options.Servers
  MaxTasks,    \* bound: tasks that can be published
  MaxStops,    \* bound: calls of Stop
  EarlyStop,   \* may Stop be called before Run waits?
  Faults       \* what may fail: "redis", "server"

ASSUME EngineAssumption ==
  /\ IsFiniteSet(Consumers) /\ IsFiniteSet(Servers) /\ Selected \subseteq Consumers
  /\ MaxTasks \in Nat /\ MaxStops \in Nat
  /\ EarlyStop \in BOOLEAN /\ Faults \subseteq {"redis", "server"}

VARIABLES
  wg,       \* the counter of the WaitGroup
  run,      \* where Run is; "exited" once main has returned
  starting, \* the selected consumers and the servers Run has yet to start
  stop,     \* the call of Stop: where it is, what it has left, how many there were
  closed,   \* the consumers whose closed is set
  loop,     \* where the goroutine of each consumer is
  server,   \* where each server is
  tasks,    \* the tasks that are ready, taken from the broker, and handled
  late      \* history: the tasks each consumer began to handle once closed

vars == <<wg, run, starting, stop, closed, loop, server, tasks, late>>

Init ==
  /\ wg = 0 /\ run = "init"
  /\ starting = [consumers |-> Selected, servers |-> Servers]
  /\ stop = [at |-> "idle", left |-> {}, calls |-> 0]
  /\ closed = {}
  /\ loop = [c \in Consumers |-> "off"]
  /\ server = [s \in Servers |-> "off"]
  /\ tasks = [published |-> 0, ready |-> 0, taken |-> 0, handled |-> 0]
  /\ late = [c \in Consumers |-> 0]

\* The counter went below zero: the process has panicked.
Panicked == wg < 0
Alive == run # "exited" /\ ~Panicked

-----------------------------------------------------------------------------
(* Run.                                                                    *)

\* Ping fails, or there is no queue to run.
RunFails ==
  /\ Alive /\ run = "init"
  /\ "redis" \in Faults \/ Selected = {}
  /\ run' = "failed"
  /\ UNCHANGED <<wg, starting, stop, closed, loop, server, tasks, late>>

\* A queue may be there without any consumer.
RunBegins ==
  /\ Alive /\ run = "init"
  /\ run' = "starting"
  /\ UNCHANGED <<wg, starting, stop, closed, loop, server, tasks, late>>

\* consumer.start
StartConsumer(c) ==
  /\ Alive /\ run = "starting" /\ c \in starting.consumers
  /\ wg' = wg + 1
  /\ starting' = [starting EXCEPT !.consumers = @ \ {c}]
  /\ loop' = [loop EXCEPT ![c] = "check"]
  /\ UNCHANGED <<run, stop, closed, server, tasks, late>>

\* Faulty variant, for a mutation: the server is not counted.
StartUncounted(s) ==
  /\ Alive /\ run = "starting" /\ starting.consumers = {} /\ s \in starting.servers
  /\ starting' = [starting EXCEPT !.servers = @ \ {s}]
  /\ server' = [server EXCEPT ![s] = "starting"]
  /\ UNCHANGED <<wg, run, stop, closed, loop, tasks, late>>

StartServer(s) ==
  /\ Alive /\ run = "starting" /\ starting.consumers = {} /\ s \in starting.servers
  /\ wg' = wg + 1
  /\ starting' = [starting EXCEPT !.servers = @ \ {s}]
  /\ server' = [server EXCEPT ![s] = "starting"]
  /\ UNCHANGED <<run, stop, closed, loop, tasks, late>>

RunWaits ==
  /\ Alive /\ run = "starting" /\ starting.consumers = {} /\ starting.servers = {}
  /\ run' = "waiting"
  /\ UNCHANGED <<wg, starting, stop, closed, loop, server, tasks, late>>

RunReturns ==
  /\ Alive /\ run = "waiting" /\ wg = 0
  /\ run' = "returned"
  /\ UNCHANGED <<wg, starting, stop, closed, loop, server, tasks, late>>

\* main returns after Run; the other goroutines end with the process.
Exit ==
  /\ Alive /\ run \in {"returned", "failed"}
  /\ run' = "exited"
  /\ UNCHANGED <<wg, starting, stop, closed, loop, server, tasks, late>>

-----------------------------------------------------------------------------
(* Stop.                                                                   *)

StopBegins ==
  /\ Alive /\ stop.at = "idle" /\ stop.calls < MaxStops
  /\ EarlyStop \/ run \in {"waiting", "returned"}
  /\ stop' = [at |-> "consumers", left |-> Consumers, calls |-> stop.calls + 1]
  /\ UNCHANGED <<wg, run, starting, closed, loop, server, tasks, late>>

\* Faulty variant, for a mutation: the consumer is closed and not counted down.
StopWithoutDone(c) ==
  /\ Alive /\ stop.at = "consumers" /\ c \in stop.left /\ loop[c] # "handle"
  /\ closed' = closed \cup {c}
  /\ stop' = [stop EXCEPT !.left = @ \ {c}]
  /\ UNCHANGED <<wg, run, starting, loop, server, tasks, late>>

\* consumer.stop, which waits for the mutex Handle holds.
StopConsumer(c) ==
  /\ Alive /\ stop.at = "consumers" /\ c \in stop.left /\ loop[c] # "handle"
  /\ wg' = IF c \in closed THEN wg ELSE wg - 1
  /\ closed' = closed \cup {c}
  /\ stop' = [stop EXCEPT !.left = @ \ {c}]
  /\ UNCHANGED <<run, starting, loop, server, tasks, late>>

StopQueuesDone ==
  /\ Alive /\ stop.at = "consumers" /\ stop.left = {}
  /\ stop' = IF Servers = {} THEN [stop EXCEPT !.at = "idle"]
             ELSE [stop EXCEPT !.at = "servers", !.left = Servers]
  /\ UNCHANGED <<wg, run, starting, closed, loop, server, tasks, late>>

\* Server.Stop, then wg.Done.
StopServer(s) ==
  /\ Alive /\ stop.at = "servers" /\ s \in stop.left
  /\ server' = [server EXCEPT ![s] = "stopped"]
  /\ wg' = wg - 1
  /\ stop' = [stop EXCEPT !.left = @ \ {s},
                          !.at = IF stop.left = {s} THEN "idle" ELSE @]
  /\ UNCHANGED <<run, starting, closed, loop, tasks, late>>

-----------------------------------------------------------------------------
(* The goroutines of servers and consumers, and the producers.             *)

\* Server.Start is called; when it fails only a log says so.
ServerStarts(s) ==
  /\ Alive /\ server[s] = "starting"
  /\ \/ server' = [server EXCEPT ![s] = "running"]
     \/ "server" \in Faults /\ server' = [server EXCEPT ![s] = "failed"]
  /\ UNCHANGED <<wg, run, starting, stop, closed, loop, tasks, late>>

\* Faulty variant, for a mutation: the loop does not look at closed.
NeverClosed(c) ==
  /\ Alive /\ loop[c] = "check"
  /\ loop' = [loop EXCEPT ![c] = "consume"]
  /\ UNCHANGED <<wg, run, starting, stop, closed, server, tasks, late>>

CheckClosed(c) ==
  /\ Alive /\ loop[c] = "check"
  /\ loop' = [loop EXCEPT ![c] = IF c \in closed THEN "ended" ELSE "consume"]
  /\ UNCHANGED <<wg, run, starting, stop, closed, server, tasks, late>>

\* Queue.Consume: BRPOP takes an id, or one second passes on an empty list,
\* or Redis is out of reach.
Consume(c) ==
  /\ Alive /\ loop[c] = "consume"
  /\ \/ /\ tasks.ready > 0
        /\ tasks' = [tasks EXCEPT !.ready = @ - 1, !.taken = @ + 1]
        /\ loop' = [loop EXCEPT ![c] = "taken"]
     \/ /\ tasks.ready = 0 \/ "redis" \in Faults
        /\ loop' = [loop EXCEPT ![c] = "check"]
        /\ UNCHANGED tasks
  /\ UNCHANGED <<wg, run, starting, stop, closed, server, late>>

\* consumer.Handle locks the mutex; it does not look at closed.
HandleBegins(c) ==
  /\ Alive /\ loop[c] = "taken"
  /\ loop' = [loop EXCEPT ![c] = "handle"]
  /\ late' = [late EXCEPT ![c] = IF c \in closed THEN @ + 1 ELSE @]
  /\ UNCHANGED <<wg, run, starting, stop, closed, server, tasks>>

HandleEnds(c) ==
  /\ Alive /\ loop[c] = "handle"
  /\ loop' = [loop EXCEPT ![c] = "check"]
  /\ tasks' = [tasks EXCEPT !.handled = @ + 1]
  /\ UNCHANGED <<wg, run, starting, stop, closed, server, late>>

Publish ==
  /\ Alive /\ tasks.published < MaxTasks
  /\ tasks' = [tasks EXCEPT !.published = @ + 1, !.ready = @ + 1]
  /\ UNCHANGED <<wg, run, starting, stop, closed, loop, server, late>>

-----------------------------------------------------------------------------
RunStep ==
  \/ RunFails \/ RunBegins \/ RunWaits \/ RunReturns \/ Exit
  \/ \E c \in Consumers : StartConsumer(c)
  \/ \E s \in Servers : StartServer(s)

StopStep ==
  \/ StopBegins \/ StopQueuesDone
  \/ \E c \in Consumers : StopConsumer(c)
  \/ \E s \in Servers : StopServer(s)

Loop(c) == CheckClosed(c) \/ Consume(c) \/ HandleBegins(c) \/ HandleEnds(c)

Next ==
  \/ RunStep \/ StopStep \/ Publish
  \/ \E c \in Consumers : Loop(c)
  \/ \E s \in Servers : ServerStarts(s)

Spec == Init /\ [][Next]_vars

\* Goroutines are scheduled, handlers end (Task.Timeout sees to it), and a Go
\* mutex in starvation mode lets every waiter in at last.
Fairness ==
  /\ WF_vars(RunStep)
  /\ WF_vars(StopQueuesDone \/ \E s \in Servers : StopServer(s))
  /\ \A c \in Consumers : WF_vars(Loop(c)) /\ SF_vars(StopConsumer(c))
  /\ \A s \in Servers : WF_vars(ServerStarts(s))

FairSpec == Spec /\ Fairness

-----------------------------------------------------------------------------
Started == {c \in Consumers : loop[c] # "off"}
Serving == {s \in Servers : server[s] \notin {"off", "stopped"}}
Holding == {c \in Consumers : loop[c] \in {"taken", "handle"}}

\* Every variable keeps its shape.
TypeOK ==
  /\ wg \in Int
  /\ run \in {"init", "starting", "waiting", "returned", "failed", "exited"}
  /\ starting \in [consumers : SUBSET Consumers, servers : SUBSET Servers]
  /\ stop \in [at : {"idle", "consumers", "servers"},
               left : SUBSET (Consumers \cup Servers), calls : 0..MaxStops]
  /\ closed \subseteq Consumers
  /\ loop \in [Consumers -> {"off", "check", "consume", "taken", "handle", "ended"}]
  /\ server \in [Servers -> {"off", "starting", "running", "failed", "stopped"}]
  /\ tasks \in [published : Nat, ready : Nat, taken : Nat, handled : Nat]
  /\ late \in [Consumers -> Nat]

\* The WaitGroup counts the consumers and servers that are started and not
\* stopped, whatever the order in which Run, Stop and the loops take turns.
WaitGroupCounts == wg = Cardinality(Started \ closed) + Cardinality(Serving)

\* bokchoy.go:257, "Run runs the system and block the current goroutine": it
\* does so until every consumer and every server has been told to stop.
RunBlocks ==
  run = "returned" => Started \subseteq closed /\ Serving = {}

\* A consumer that Stop has closed handles at most the one task it was
\* fetching at that moment.
OneLateTask == \A c \in Consumers : late[c] <= 1

\* bokchoy.go:164, "Stop stops all queues and consumers": a call of Stop comes
\* to its end and Run returns.
StopEndsRun == stop.at # "idle" ~> run = "exited"

(* Claims of the documentation that the code does not keep.                *)

\* docs/a-tour-of-bokchoy.md:208, "gracefully shutdown consumers": a task a
\* consumer has taken from the broker is handled before the process exits.
GracefulShutdown == run = "exited" => Holding = {}

\* README.md:114-117, a goroutine calls engine.Stop for every signal ("for
\* range c"): a second call never takes the counter of the WaitGroup below
\* zero, which panics.
NoPanic == ~Panicked
=============================================================================

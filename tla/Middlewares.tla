----------------------------- MODULE Middlewares -----------------------------
(***************************************************************************)
(* The chain of middlewares a request goes through: the slices it is       *)
(* registered in (bokchoy.go, queue.go), the append of every handleTask    *)
(* (consumer.go) and the walk of chain (handler.go).                       *)
(*                                                                         *)
(* A Go slice is a window on an array that other slices may share, and     *)
(* append writes into the array's spare capacity when there is some.  The  *)
(* engine, the queues and the consumers copy slices, not arrays, so that   *)
(* the consumers of a process, which run concurrently, may append          *)
(* handleRequest to the same slot.  handleRequest belongs to a consumer    *)
(* and publishes retries to the queue of that consumer.                    *)
(*                                                                         *)
(* Registration is sequential and over before Run.  Afterwards a step is   *)
(* one access to an array, or the request's way through its chain.         *)
(***************************************************************************)
EXTENDS Integers, Sequences, FiniteSets, Functions, SequencesExt

CONSTANTS
  Queues, Consumers,
  QueueOf,         \* the queue of each consumer
  Kinds,           \* the middlewares of the package that are registered
  MaxEngineUses,   \* bound: middlewares given to Bokchoy.Use
  MaxQueueUses,    \* bound: middlewares given to Queue.Use on each queue
  UseAfterHandle,  \* may Queue.Use follow HandleFunc on the same queue?
  Tasks,           \* the tasks that can be published
  NoTask,          \* no task in hand
  MaxRetries       \* Options.MaxRetries of every task

Engine == "engine"
Owners == Queues \cup Consumers \cup {Engine}

ASSUME MiddlewaresAssumption ==
  /\ QueueOf \in [Consumers -> Queues]
  /\ Queues \cap Consumers = {} /\ Engine \notin Queues \cup Consumers
  /\ "none" \notin Queues
  /\ Kinds \subseteq {"Recoverer", "Logger", "RequestID", "Timeout"}
  /\ MaxEngineUses \in Nat /\ MaxQueueUses \in Nat /\ MaxRetries \in Nat
  /\ UseAfterHandle \in BOOLEAN /\ NoTask \notin Tasks

VARIABLES
  heap,      \* the arrays: <<who made it, its capacity>> -> its slots
  slice,     \* the slice middlewares of the engine, of each queue and consumer
  asked,     \* history: the middlewares those owners were registered with
  running,   \* has Run started the consumers?
  pc,        \* where each consumer is in handleTask
  hand,      \* the task each consumer holds
  chained,   \* what handleTask's own slice is, and what chain has read of it
  ready,     \* the tasks in the list of each queue
  task,      \* the name (queue) and the retries left of each task
  ran        \* history: <<task, queue whose handler ran it>>

setup == <<slice, asked, running>>
vars  == <<heap, setup, pc, hand, chained, ready, task, ran>>

-----------------------------------------------------------------------------
(* Slices.                                                                 *)

Unused == [name |-> "unused", by |-> Engine]
NilSlice == [array |-> <<Engine, 0>>, len |-> 0]
Absent == [array |-> <<Engine, 0>>, len |-> -1]

Capacity(s) == s.array[2]

\* The capacity append allocates when need elements do not fit: the double, or
\* what is needed, in the sizes the allocator has for pointers.
RoundUp(n) == IF n <= 4 THEN n ELSE n + (n % 2)
Grown(cap, need) == RoundUp(IF need > 2 * cap THEN need ELSE 2 * cap)

HasRoom(s, ms) == s.len + Len(ms) <= Capacity(s)

\* append(s, ms...): in place when there is room, else in an array of o's own.
AppendSlice(o, s, ms) ==
  [array |-> IF HasRoom(s, ms) THEN s.array ELSE <<o, Grown(Capacity(s), s.len + Len(ms))>>,
   len   |-> s.len + Len(ms)]

\* A new array, that holds the elements of s.
Moved(s, cap) == [i \in 1..cap |-> IF i <= s.len THEN heap[s.array][i] ELSE Unused]

\* The slots behind the first n get the elements of ms.
Written(row, n, ms) == [i \in DOMAIN row |-> IF i \in (n + 1)..(n + Len(ms)) THEN ms[i - n] ELSE row[i]]

AppendHeap(o, s, ms) ==
  LET into == AppendSlice(o, s, ms).array
      row  == IF HasRoom(s, ms) THEN heap[into] ELSE Moved(s, into[2])
  IN [a \in DOMAIN heap \cup {into} |-> IF a = into THEN Written(row, s.len, ms) ELSE heap[a]]

AppendTo(o, ms) == /\ heap' = AppendHeap(o, slice[o], ms)
                   /\ slice' = [slice EXCEPT ![o] = AppendSlice(o, slice[o], ms)]
-----------------------------------------------------------------------------
(* Registration.                                                           *)

Init ==
  /\ heap = [a \in {<<Engine, 0>>} |-> <<>>]
  /\ slice = [o \in Owners |-> IF o = Engine THEN NilSlice ELSE Absent]
  /\ asked = [o \in Owners |-> <<>>]
  /\ running = FALSE
  /\ pc = [c \in Consumers |-> "consume"] /\ hand = [c \in Consumers |-> NoTask]
  /\ chained = [c \in Consumers |-> [slice |-> NilSlice, chain |-> <<>>]]
  /\ ready = [q \in Queues |-> {}]
  /\ task = [t \in Tasks |-> [name |-> "none", retries |-> MaxRetries]]
  /\ ran = {}

unused == <<pc, hand, chained, ready, task, ran>>

Middleware(kind, o) == [name |-> kind, by |-> o]
AllOf(kinds, o) == [i \in DOMAIN kinds |-> Middleware(kinds[i], o)]

\* Faulty variant, for a mutation: the slice is made with room to spare.
UseWithRoom(kinds) ==
  /\ ~running /\ slice[Engine].len + Len(kinds) <= MaxEngineUses
  /\ asked' = [asked EXCEPT ![Engine] = @ \o AllOf(kinds, Engine)]
  /\ heap' = [a \in DOMAIN heap \cup {<<Engine, 8>>} |->
       IF a # <<Engine, 8>> THEN heap[a]
       ELSE [i \in 1..8 |-> IF i <= Len(asked'[Engine]) THEN asked'[Engine][i] ELSE Unused]]
  /\ slice' = [slice EXCEPT ![Engine] = [array |-> <<Engine, 8>>, len |-> Len(asked'[Engine])]]
  /\ UNCHANGED <<running, unused>>

\* Bokchoy.Use, with one middleware or several.
Use(kinds) ==
  /\ ~running /\ slice[Engine].len + Len(kinds) <= MaxEngineUses
  /\ AppendTo(Engine, AllOf(kinds, Engine))
  /\ asked' = [asked EXCEPT ![Engine] = @ \o AllOf(kinds, Engine)]
  /\ UNCHANGED <<running, unused>>

\* Bokchoy.Queue creates the queue, with the slice the engine has by then.
Queue(q) ==
  /\ ~running /\ slice[q] = Absent
  /\ slice' = [slice EXCEPT ![q] = slice[Engine]]
  /\ asked' = [asked EXCEPT ![q] = asked[Engine]]
  /\ UNCHANGED <<heap, running, unused>>

Handled(q) == {c \in Consumers : QueueOf[c] = q /\ slice[c] # Absent}

\* Queue.Use
QueueUse(q, kinds) ==
  /\ ~running /\ slice[q] # Absent
  /\ UseAfterHandle \/ Handled(q) = {}
  /\ Cardinality({i \in DOMAIN asked[q] : asked[q][i].by = q}) + Len(kinds) <= MaxQueueUses
  /\ AppendTo(q, AllOf(kinds, q))
  /\ asked' = [asked EXCEPT ![q] = @ \o AllOf(kinds, q)]
  /\ UNCHANGED <<running, unused>>

\* Queue.HandleFunc makes a consumer, one for each unit of Concurrency.
HandleFunc(c) ==
  /\ ~running /\ slice[QueueOf[c]] # Absent /\ slice[c] = Absent
  /\ slice' = [slice EXCEPT ![c] = slice[QueueOf[c]]]
  /\ asked' = [asked EXCEPT ![c] = asked[QueueOf[c]]]
  /\ UNCHANGED <<heap, running, unused>>

\* Bokchoy.Run
Run ==
  /\ ~running /\ \E c \in Consumers : slice[c] # Absent
  /\ running' = TRUE
  /\ UNCHANGED <<heap, slice, asked, unused>>

-----------------------------------------------------------------------------
(* handleTask and chain.                                                   *)

\* A new task of a queue.
Publish(t, q) ==
  /\ running /\ task[t].name = "none"
  /\ task' = [task EXCEPT ![t].name = q]
  /\ ready' = [ready EXCEPT ![q] = @ \cup {t}]
  /\ UNCHANGED <<heap, setup, pc, hand, chained, ran>>

Consume(c, t) ==
  /\ running /\ slice[c] # Absent /\ pc[c] = "consume" /\ t \in ready[QueueOf[c]]
  /\ ready' = [ready EXCEPT ![QueueOf[c]] = @ \ {t}]
  /\ hand' = [hand EXCEPT ![c] = t]
  /\ pc' = [pc EXCEPT ![c] = "append"]
  /\ UNCHANGED <<heap, setup, chained, task, ran>>

HandleRequest(c) == [name |-> "handleRequest", by |-> c]

\* middlewares = append(c.middlewares, c.handleRequest)
AppendHandleRequest(c) ==
  /\ pc[c] = "append"
  /\ heap' = AppendHeap(c, slice[c], <<HandleRequest(c)>>)
  /\ chained' = [chained EXCEPT ![c] =
       [slice |-> AppendSlice(c, slice[c], <<HandleRequest(c)>>), chain |-> <<>>]]
  /\ pc' = [pc EXCEPT ![c] = "chain"]
  /\ UNCHANGED <<setup, hand, ready, task, ran>>

\* The slot chain reads next: from the last to the first.
NextSlot(c) == chained[c].slice.len - Len(chained[c].chain)

\* Faulty variant, for a mutation: the handler is wrapped from the first on.
WrapReversed(c) ==
  /\ pc[c] = "chain"
  /\ chained' = [chained EXCEPT ![c].chain =
       Append(@, heap[chained[c].slice.array][NextSlot(c)])]
  /\ pc' = [pc EXCEPT ![c] = IF NextSlot(c) = 1 THEN "handle" ELSE @]
  /\ UNCHANGED <<heap, setup, hand, ready, task, ran>>

\* h = middlewares[i](h)
Wrap(c) ==
  /\ pc[c] = "chain"
  /\ chained' = [chained EXCEPT ![c].chain =
       <<heap[chained[c].slice.array][NextSlot(c)]>> \o @]
  /\ pc' = [pc EXCEPT ![c] = IF NextSlot(c) = 1 THEN "handle" ELSE @]
  /\ UNCHANGED <<heap, setup, hand, ready, task, ran>>

-----------------------------------------------------------------------------
(* The request on its way through the chain.  RequestID, Logger and        *)
(* Timeout hand a copy of the request on, with more in its context;        *)
(* Recoverer and handleRequest hand on the request they got.  The innermost*)
(* function copies the request it gets over the one handleTask looks at.   *)

Copying == {"RequestID", "Logger", "Timeout"}

Named(chain, names) == {i \in DOMAIN chain : chain[i].name \in names}

\* The middleware nearest to the handler that catches its panic.
Catching(chain) == CHOOSE i \in Named(chain, {"Recoverer"}) :
                     \A j \in Named(chain, {"Recoverer"}) : j <= i

\* Faulty variant, for a mutation: Recoverer makes a copy of its own.
RecoversIntoCopy(chain) == FALSE

\* Is the request Recoverer writes the error into the one of handleTask?
RecoversIntoOriginal(chain) ==
  \A i \in Named(chain, Copying) : i > Catching(chain)

\* What handleRequest does to the task, once, for the consumer it belongs to:
\* its second call, and those of outer ones, find a task that is not processing.
InnerHandler(chain) == LET inner == CHOOSE i \in Named(chain, {"handleRequest"}) :
                                      \A j \in Named(chain, {"handleRequest"}) : j <= i
                       IN chain[inner].by

Retry(c, t) ==
  IF task[t].retries = 0 THEN UNCHANGED <<task, ready>>
  ELSE /\ task' = [task EXCEPT ![t].retries = @ - 1]
       /\ ready' = [ready EXCEPT ![QueueOf[c]] = @ \cup {t}]

\* The handler of the consumer's queue runs and handleTask is over.
Handle(c) ==
  LET t == hand[c]
      chain == chained[c].chain
  IN /\ pc[c] = "handle"
     /\ ran' = ran \cup {<<t, QueueOf[c]>>}
     /\ \/ UNCHANGED <<task, ready>>                     \* it succeeds
        \/ Retry(InnerHandler(chain), t)                 \* it returns an error
        \/ /\ Named(chain, {"Recoverer"}) # {}           \* it panics
           /\ IF RecoversIntoOriginal(chain) THEN Retry(c, t)
              ELSE UNCHANGED <<task, ready>>
     /\ pc' = [pc EXCEPT ![c] = "consume"]
     /\ hand' = [hand EXCEPT ![c] = NoTask]
     /\ chained' = [chained EXCEPT ![c] = [slice |-> NilSlice, chain |-> <<>>]]
     /\ UNCHANGED <<heap, setup>>

-----------------------------------------------------------------------------
Registration ==
  \/ \E kinds \in SeqOf(Kinds, MaxEngineUses) \ {<<>>} : Use(kinds)
  \/ \E q \in Queues, kinds \in SeqOf(Kinds, MaxQueueUses) \ {<<>>} : QueueUse(q, kinds)
  \/ \E q \in Queues : Queue(q)
  \/ \E c \in Consumers : HandleFunc(c)

Next ==
  \/ Registration \/ Run
  \/ \E t \in Tasks, q \in Queues : Publish(t, q)
  \/ \E c \in Consumers :
       AppendHandleRequest(c) \/ Wrap(c) \/ Handle(c) \/ \E t \in Tasks : Consume(c, t)

Spec == Init /\ [][Next]_vars

-----------------------------------------------------------------------------
Chained == {c \in Consumers : pc[c] = "handle"}

\* A task is only run by the handler of the queue it was published to: the
\* handleRequest that publishes its retries is one of its own queue, although
\* consumers may overwrite each other's slot.
OwnHandler == \A run \in ran : task[run[1]].name = run[2]

\* docs/a-tour-of-bokchoy.md:334, "The engine has to know which middleware to
\* use": a request goes through the middlewares its consumer was registered
\* with, in the order of the calls of Use, and then handleRequest.
ConfiguredChain ==
  \A c \in Chained :
    LET chain == chained[c].chain
    IN /\ Front(chain) = asked[c]
       /\ Last(chain).name = "handleRequest" /\ QueueOf[Last(chain).by] = QueueOf[c]

\* docs/a-tour-of-bokchoy.md:371, a task that panics "is marked as `failed`":
\* with Recoverer registered first, whatever comes after it, the error reaches
\* handleTask.
PanicRecorded ==
  \A c \in Chained : /\ asked[c] # <<>> /\ Head(asked[c]).name = "Recoverer"
                     /\ Cardinality(Named(asked[c], {"Recoverer"})) = 1
    => RecoversIntoOriginal(chained[c].chain)

(* README.md shows the settings under which these claims fail.             *)

\* bokchoy.go:119, "Use append a new middleware to the system": every request
\* goes through all middlewares of the engine.
SystemWide ==
  \A c \in Chained : IsPrefix(asked[Engine], chained[c].chain)

\* docs/a-tour-of-bokchoy.md:398, the logger also catches a panic "if
\* `middleware.Recoverer` is installed as well": in whatever order.
PanicLogged ==
  \A c \in Chained :
    LET chain == chained[c].chain
    IN Named(chain, {"Recoverer"}) # {} /\ Named(chain, {"Logger"}) # {}
         => RecoversIntoOriginal(chain) \/ \E i \in Named(chain, {"Logger"}) : i < Catching(chain)
=============================================================================

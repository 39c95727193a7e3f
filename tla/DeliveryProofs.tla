--------------------------- MODULE DeliveryProofs ---------------------------
(***************************************************************************)
(* What a queue promises for the tasks it holds, also when go-redis sends  *)
(* a command again and a task has several copies; and that the broker      *)
(* implements TaskQueue in the settings in which it has one                *)
(* (RedisBrokerProofs).  A task's place is where its single copy is        *)
(* (Place): with failures a step moves one task between places as TaskQueue*)
(* says or drops some, and without them it drops none.                     *)
(***************************************************************************)

EXTENDS RedisBrokerProofs

USE DEF Workers

LEMMA DivMonotone ==
  ASSUME NEW k \in Nat \ {0}, NEW a \in Nat, NEW b \in Nat, a <= b
  PROVE  a \div k <= b \div k
<1> DEFINE q == a \div k  r == b \div k
<1>1. q \in Nat /\ r \in Nat /\ k * q <= a /\ b < k * r + k
  OBVIOUS
<1> HIDE DEF q, r
<1>2. SUFFICES ASSUME q > r PROVE FALSE
  BY <1>1 DEF q, r
<1>3. PICK d \in Nat : q = r + 1 + d
  <2>1. q - r - 1 \in Nat
    BY <1>1, <1>2
  <2> QED BY <1>1, <2>1
<1>4. k * q = k * r + k + k * d
  BY <1>1, <1>3
<1>5. k * d \in Nat /\ k * r \in Nat
  BY <1>1
<1> QED BY <1>1, <1>4, <1>5

LEMMA SecondsMonotone ==
  ASSUME NEW a \in Nat, NEW b \in Nat, a <= b PROVE Seconds(a) <= Seconds(b)
BY DivMonotone, ClockAssumption DEF Seconds

LEMMA ReadyTasks == TypeOK => \A t \in Ready : t \in Tasks
BY LenProperties, ElementOfSeq DEF TypeOK, Ready, ToSet

\* Where the last command of a pipeline puts the id.
LEMMA PushToFacts ==
  ASSUME TypeOK, NEW t \in Tasks, NEW cmd \in Commands, PushTo(t, cmd)
  PROVE  \/ cmd.op # "ZADD" /\ Ready' = Ready \cup {t} /\ delay' = delay
         \/ cmd.op = "ZADD" /\ Ready' = Ready /\ delay' = [delay EXCEPT ![t] = cmd.score]
<1>1. list \in Seq(Tasks)
  BY DEF TypeOK
<1>2. CASE cmd.op = "RPUSH"
  <2>1. ToSet(Append(list, t)) = ToSet(list) \cup {t}
    BY <1>1, AppendFacts
  <2> QED BY <1>2, <2>1 DEF PushTo, Ready
<1>3. CASE cmd.op = "LPUSH"
  <2>1. PICK q \in Seq(Tasks) : q = <<t>> /\ ToSet(q) = {t}
    BY OneFacts
  <2>2. ToSet(q \o list) = ToSet(q) \cup ToSet(list)
    BY <1>1, ConcatFacts
  <2> QED BY <1>3, <2>1, <2>2 DEF PushTo, Ready
<1>4. CASE cmd.op = "ZADD"
  BY <1>4 DEF PushTo, Ready
<1> QED BY <1>2, <1>3, <1>4 DEF Commands

\* The ids a mover moves, in whatever order.
LEMMA MoverTxFacts ==
  ASSUME TypeOK, NEW c \in Consumers, MoverTx(c) PROVE Ready' = Ready \cup mover[c].ids
<1>1. PICK ids \in Orders(mover[c].ids) : list' = list \o ids
  BY DEF MoverTx
<1>2. ids \in Seq(Tasks) /\ ToSet(ids) = mover[c].ids
  BY <1>1, OrdersFacts DEF TypeOK
<1> QED BY <1>1, <1>2, ConcatFacts DEF TypeOK, Ready

-----------------------------------------------------------------------------
(* FreshInv holds in every setting.                                        *)

Somewhere(t) ==
  t \in Ready \cup Delayed \cup Moving \/ Held(t) # {} \/ Publishing(t) # {}

LEMMA FreshFrame ==
  ASSUME FreshInv,
         \A t \in Tasks : /\ published'[t] = 0 => published[t] = 0
                          /\ Somewhere(t)' => Somewhere(t) \/ published'[t] # 0
  PROVE  FreshInv'
BY DEF FreshInv, Somewhere

LEMMA FreshBuild ==
  ASSUME TypeOK, FreshInv, NEW w \in Workers, NEW t \in Tasks, NEW cd \in Countdowns,
         Build(w, t, cd), UNCHANGED <<list, delay, mover, hand>>
  PROVE  FreshInv'
<1>1. published[t] \in Nat /\ published'[t] = published[t] + 1
      /\ \A u \in Tasks \ {t} : published'[u] = published[u] /\ Publishing(u)' = Publishing(u)
  BY BuildFacts DEF TypeOK
<1>2. published'[t] # 0
  BY <1>1
<1>3. \A u \in Tasks : u # t => (Somewhere(u)' <=> Somewhere(u))
  BY <1>1 DEF Somewhere, Ready, Delayed, Moving, Held
<1> QED BY <1>1, <1>2, <1>3, FreshFrame

LEMMA FreshPipe ==
  ASSUME TypeOK, LoopInv, FreshInv, NEW w \in Workers, PipeStep(w) PROVE FreshInv'
<1> USE DEF redis, movers, loops, history
<1>1. pipe[w] # Idle /\ pipe[w].task \in Tasks /\ pipe[w].cmd \in Commands
      /\ UNCHANGED <<mover, published>>
  BY PipeFacts DEF PipeStep, HMSet, Push, PushAgain, PipeError, TypeOK, Pipelines
<1>2. PICK t \in Tasks : t = pipe[w].task
  BY <1>1
<1>3. Somewhere(t)
  BY <1>1, <1>2 DEF Somewhere, Publishing
<1>4. \A u \in Tasks : Publishing(u)' \subseteq Publishing(u) /\ Held(u)' \subseteq Held(u)
  <2>1. CASE Push(w) \/ PipeError(w)
    BY <2>1, EndPipeFacts DEF Push, PipeError
  <2>2. CASE HMSet(w) \/ PushAgain(w)
    <3>1. \A v \in Workers : pipe'[v] # Idle => pipe[v] # Idle /\ pipe'[v].task = pipe[v].task
      <4>1. CASE HMSet(w)
        BY <4>1, PipeFacts DEF HMSet, TypeOK, Pipelines
      <4>2. CASE PushAgain(w)
        BY <4>2, PipeFacts DEF PushAgain, TypeOK, Pipelines
      <4> QED BY <2>2, <4>1, <4>2
    <3>2. hand' = hand
      BY <2>2 DEF HMSet, PushAgain
    <3> QED BY <3>1, <3>2 DEF Publishing, Held
  <2> QED BY <2>1, <2>2 DEF PipeStep
<1>5. Ready' \subseteq Ready \cup {t} /\ Delayed' \subseteq Delayed \cup {t}
  <2>1. CASE HMSet(w) \/ PipeError(w)
    BY <2>1 DEF HMSet, PipeError, Ready, Delayed
  <2>2. CASE Push(w) \/ PushAgain(w)
    <3>1. PushTo(t, pipe[w].cmd)
      BY <1>2, <2>2 DEF Push, PushAgain
    <3> QED BY <1>1, <3>1, PushToFacts DEF Delayed, TypeOK
  <2> QED BY <2>1, <2>2 DEF PipeStep
<1>6. \A u \in Tasks : Somewhere(u)' => Somewhere(u) \/ u = t
  BY <1>1, <1>4, <1>5 DEF Somewhere, Moving
<1> QED BY <1>1, <1>3, <1>6, FreshFrame

LEMMA FreshConsumer ==
  ASSUME TypeOK, FreshInv, NEW c \in Consumers, ConsumerStep(c) PROVE FreshInv'
<1> USE DEF redis, movers, loops, history
<1>1. ASSUME StartMover(c) PROVE Moving' \subseteq Moving
  <2>1. \A d \in Consumers : mover'[d] = mover[d] \/ mover'[d] = Waiting
    BY <1>1 DEF StartMover, TypeOK
  <2>2. Waiting.ids = {}
    BY DEF Waiting
  <2> QED BY <2>1, <2>2 DEF Moving
<1>2. CASE BRPop(c) \/ BRPopNil(c) \/ BRPopError(c)
  <2>1. Moving' \subseteq Moving /\ UNCHANGED <<delay, pipe, published>>
    BY <1>1, <1>2 DEF BRPop, BRPopNil, BRPopError
  <2>2. Ready' \subseteq Ready
    BY <1>2, PopFacts DEF BRPop, BRPopNil, BRPopError, PopRest, Ready, TypeOK
  <2>3. \A t \in Tasks : Held(t)' \subseteq Held(t) \/ t \in Ready
    <3>1. CASE BRPop(c)
      <4>1. PopEnd \in Ready /\ \A d \in Consumers : hand'[d] = IF d = c THEN PopEnd ELSE hand[d]
        BY <3>1, PopFacts DEF BRPop, PopEnd, Ready, TypeOK
      <4> QED BY <4>1 DEF Held
    <3>2. CASE BRPopNil(c) \/ BRPopError(c)
      BY <3>2 DEF BRPopNil, BRPopError, Held
    <3> QED BY <1>2, <3>1, <3>2
  <2> QED BY <2>1, <2>2, <2>3, FreshFrame DEF Somewhere, Delayed, Publishing
<1>3. CASE Payloads(c) \/ Start(c) \/ ConsumeError(c) \/ Finish(c)
  <2>1. UNCHANGED <<list, delay, pipe, mover, published>> /\ (hand' = hand \/ Release(c))
    BY <1>3 DEF Payloads, Start, ConsumeError, Finish
  <2>2. \A t \in Tasks : Held(t)' \subseteq Held(t)
    BY <2>1, ReleaseFacts DEF Held
  <2> QED BY <2>1, <2>2, FreshFrame DEF Somewhere, Ready, Delayed, Moving, Publishing
<1>4. ASSUME NEW cd \in Countdowns, Retry(c, cd) PROVE FreshInv'
  <2>1. CASE hand[c] \in Tasks
    BY <1>4, <2>1, FreshBuild DEF Retry
  <2>2. CASE hand[c] \notin Tasks
    <3>1. published' = published /\ UNCHANGED <<list, delay, mover, hand>>
      BY <1>4, <2>2 DEF Retry, Build, TypeOK
    <3>2. \A t \in Tasks : Publishing(t)' \subseteq Publishing(t)
      BY <1>4, <2>2 DEF Retry, Build, TypeOK, Publishing
    <3> QED BY <3>1, <3>2, FreshFrame DEF Somewhere, Ready, Delayed, Moving, Held
  <2> QED BY <2>1, <2>2
<1> QED BY <1>2, <1>3, <1>4 DEF ConsumerStep

LEMMA FreshMover ==
  ASSUME TypeOK, FreshInv, NEW c \in Consumers, MoverStep(c) PROVE FreshInv'
<1> USE DEF redis, loops, history
<1>1. UNCHANGED <<pipe, hand, published>>
  BY DEF MoverStep, MoverTick, MoverRange, MoverPayloads, MoverCommit, MoverCommitAgain, MoverError
<1>2. Delayed' \subseteq Delayed
  BY DEF MoverStep, MoverTick, MoverRange, MoverPayloads, MoverCommit, MoverCommitAgain, MoverError,
         MoverTx, RemoveRange, Delayed
<1>3. Ready' \subseteq Ready \cup Moving
  <2>1. CASE MoverTx(c)
    BY <2>1, MoverTxFacts DEF Moving
  <2>2. CASE list' = list
    BY <2>2 DEF Ready
  <2> QED BY <2>1, <2>2 DEF MoverStep, MoverTick, MoverRange, MoverPayloads, MoverCommit,
         MoverCommitAgain, MoverError
<1>4. Moving' \subseteq Moving \cup Delayed
  <2>1. Due(mover[c].max) \subseteq Delayed
    BY DEF Due, Delayed
  <2>2. ASSUME NEW step, NEW max, NEW ids, SetMover(c, step, max, ids),
               ids \subseteq mover[c].ids \cup Delayed
        PROVE  Moving' \subseteq Moving \cup Delayed
    BY <2>2, SetMoverFact DEF Moving
  <2>3. CASE MoverCommitAgain(c)
    BY <2>3 DEF MoverCommitAgain, movers, Moving
  <2>4. \/ MoverCommitAgain(c) \/ SetMover(c, "wait", 0, {}) \/ SetMover(c, "range", now, {})
        \/ SetMover(c, "payloads", mover[c].max, Due(mover[c].max))
        \/ SetMover(c, "commit", mover[c].max, mover[c].ids \cap stored)
    BY DEF MoverStep, MoverTick, MoverRange, MoverPayloads, MoverCommit, MoverError
  <2> QED BY <2>1, <2>2, <2>3, <2>4
<1> QED BY <1>1, <1>2, <1>3, <1>4, FreshFrame DEF Somewhere, Held, Publishing

LEMMA FreshStep == TypeOK /\ LoopInv /\ FreshInv /\ [Next]_vars => FreshInv'
<1> SUFFICES ASSUME TypeOK, LoopInv, FreshInv, [Next]_vars PROVE FreshInv'
  OBVIOUS
<1> USE DEF redis, movers, loops, history
<1>1. CASE UNCHANGED vars
  BY <1>1 DEF vars, FreshInv, Ready, Delayed, Moving, Held, Publishing
<1>2. CASE Tick \/ Maintenance
  <2>1. UNCHANGED <<pipe, mover, hand, published>>
    BY <1>2 DEF Tick, Maintenance, Expire, Delete, Empty, Flush
  <2>2. Ready' \subseteq Ready /\ Delayed' \subseteq Delayed
    BY <1>2 DEF Tick, Maintenance, Expire, Delete, Empty, Flush, Ready, Delayed, ToSet
  <2> QED BY <2>1, <2>2, FreshFrame DEF Somewhere, Moving, Held, Publishing
<1>3. ASSUME NEW p \in Processes, Crash(p) PROVE FreshInv'
  <2>1. UNCHANGED <<list, delay, published>>
    BY <1>3 DEF Crash
  <2>2. \A c \in Consumers : /\ mover'[c] \in {mover[c], NoMover}
                             /\ hand'[c] \in {hand[c], NoTask}
    BY <1>3 DEF Crash
  <2>3. \A w \in Workers : pipe'[w] \in {pipe[w], Idle}
    BY <1>3 DEF Crash
  <2>4. NoMover.ids = {}
    BY DEF NoMover
  <2> QED BY <2>1, <2>2, <2>3, <2>4, TasksAssumption, FreshFrame
          DEF Somewhere, Ready, Delayed, Moving, Held, Publishing
<1>4. ASSUME NEW p \in Producers, NEW t \in Tasks, NEW cd \in Countdowns, Publish(p, t, cd)
      PROVE  FreshInv'
  BY <1>4, FreshBuild DEF Publish
<1> QED BY <1>1, <1>2, <1>3, <1>4, FreshPipe, FreshConsumer, FreshMover DEF Next

-----------------------------------------------------------------------------
(* A delayed task is not early.                                            *)

\* The settings in which what is asked for a task last holds for all its copies:
\* there is only one of it, or none is published again.
EarlySettings == ExactSettings \/ MaxRetries = 0

\* Scores are those of the commands that published the tasks, and a mover
\* only holds tasks that were due at a time that has passed.
EarlyInv ==
  /\ \A t \in Delayed : command[t].op = "ZADD" /\ command[t].score = delay[t]
  /\ \A c \in Consumers :
       /\ mover[c].max <= now
       /\ \A t \in mover[c].ids :
            command[t].op = "ZADD" /\ command[t].score <= Seconds(mover[c].max)
  /\ \A w \in Workers : pipe[w] # Idle => pipe[w].cmd = command[pipe[w].task]
  /\ NotEarly

\* Steps that publish nothing and bring no task to the list or the zset.
LEMMA EarlyFrame ==
  ASSUME TypeOK, EarlyInv, command' = command, now' \in Nat, now <= now', Ready' \subseteq Ready,
         \A t \in Tasks : delay'[t] \in {delay[t], NotDelayed},
         \A c \in Consumers :
           \/ mover'[c].ids \subseteq mover[c].ids /\ mover'[c].max = mover[c].max
           \/ mover'[c].ids = {} /\ mover'[c].max \in 0..now,
         \A w \in Workers : pipe'[w] # Idle =>
           pipe[w] # Idle /\ pipe'[w].task = pipe[w].task /\ pipe'[w].cmd = pipe[w].cmd
  PROVE  EarlyInv'
<1>1. now \in Nat /\ \A c \in Consumers : mover[c].max \in Nat
  BY DEF TypeOK
<1>2. \A t \in Delayed' : command[t].op = "ZADD" /\ command[t].score = delay'[t]
  BY DEF Delayed, EarlyInv
<1>3. ASSUME NEW c \in Consumers
      PROVE  /\ mover'[c].max <= now'
             /\ \A t \in mover'[c].ids :
                  command[t].op = "ZADD" /\ command[t].score <= Seconds(mover'[c].max)
  <2>1. CASE mover'[c].ids \subseteq mover[c].ids /\ mover'[c].max = mover[c].max
    BY <1>1, <2>1 DEF EarlyInv
  <2>2. CASE mover'[c].ids = {} /\ mover'[c].max \in 0..now
    BY <1>1, <2>2
  <2> QED BY <2>1, <2>2
<1>4. \A w \in Workers : pipe'[w] # Idle => pipe'[w].cmd = command[pipe'[w].task]
  BY DEF EarlyInv
<1>5. ASSUME NEW t \in Ready', command[t].op = "ZADD"
      PROVE  command[t].score <= Seconds(now')
  <2>1. command[t].score <= Seconds(now) /\ t \in Tasks
    BY <1>5, ReadyTasks DEF EarlyInv, NotEarly
  <2>2. Seconds(now) <= Seconds(now') /\ Seconds(now) \in Nat /\ Seconds(now') \in Nat
    BY <1>1, SecondsMonotone, SecondsType
  <2>3. command[t].score \in Nat
    BY <2>1 DEF TypeOK, Commands
  <2> QED BY <2>1, <2>2, <2>3
<1> QED BY <1>2, <1>3, <1>4, <1>5 DEF EarlyInv, NotEarly

LEMMA EarlyEnvironment ==
  ASSUME TypeOK, EarlyInv, Tick \/ Maintenance \/ \E p \in Processes : Crash(p)
  PROVE  EarlyInv'
<1> USE DEF redis, movers, loops, history
<1>1. now \in Nat
  BY DEF TypeOK
<1>2. CASE Tick
  BY <1>1, <1>2, EarlyFrame DEF Tick, Ready
<1>3. ASSUME NEW t \in Tasks, Expire(t) \/ Delete(t) PROVE EarlyInv'
  BY <1>1, <1>3, EarlyFrame DEF Expire, Delete, Ready
<1>4. CASE Empty \/ Flush
  <2>1. Ready' = {}
    BY <1>4 DEF Empty, Flush, Ready, ToSet
  <2> QED BY <1>1, <1>4, <2>1, EarlyFrame DEF Empty, Flush
<1>5. ASSUME NEW p \in Processes, Crash(p) PROVE EarlyInv'
  <2>1. \A c \in Consumers : mover'[c] = mover[c] \/ mover'[c] = NoMover
    BY <1>5 DEF Crash
  <2>2. \A w \in Workers : pipe'[w] = pipe[w] \/ pipe'[w] = Idle
    BY <1>5 DEF Crash
  <2>3. NoMover.ids = {} /\ NoMover.max = 0
    BY DEF NoMover
  <2>4. \A c \in Consumers :
           \/ mover'[c].ids \subseteq mover[c].ids /\ mover'[c].max = mover[c].max
           \/ mover'[c].ids = {} /\ mover'[c].max \in 0..now
    BY <1>1, <2>1, <2>3
  <2> QED BY <1>1, <1>5, <2>2, <2>4, EarlyFrame DEF Crash, Ready
<1> QED BY <1>2, <1>3, <1>4, <1>5 DEF Maintenance

\* A pipeline is built for a task of which there is no other copy.
LEMMA EarlyBuild ==
  ASSUME TypeOK, EarlyInv, NEW w \in Workers, NEW t \in Tasks, NEW cd \in Countdowns,
         Build(w, t, cd), t \notin Ready \cup Delayed \cup Moving,
         Publishing(t) = {}, UNCHANGED <<now, list, delay, mover>>
  PROVE  EarlyInv'
<1>1. \A u \in Tasks : u # t => command'[u] = command[u]
  BY DEF Build, TypeOK
<1>2. /\ pipe'[w].task = t /\ pipe'[w].cmd = command'[t]
      /\ \A v \in Workers : v # w => pipe'[v] = pipe[v]
  BY DEF Build, TypeOK
<1>3. \A v \in Workers : pipe[v] # Idle => pipe[v].task \in Tasks /\ pipe[v].task # t
  BY DEF TypeOK, Pipelines, Publishing
<1>4. \A v \in Workers : pipe'[v] # Idle => pipe'[v].cmd = command'[pipe'[v].task]
  BY <1>1, <1>2, <1>3 DEF EarlyInv
<1>5. \A u \in Delayed' : command'[u].op = "ZADD" /\ command'[u].score = delay'[u]
  BY <1>1 DEF EarlyInv, Delayed
<1>6. ASSUME NEW c \in Consumers
      PROVE  /\ mover'[c].max <= now'
             /\ \A u \in mover'[c].ids :
                  command'[u].op = "ZADD" /\ command'[u].score <= Seconds(mover'[c].max)
  <2>1. \A u \in mover[c].ids : u \in Tasks /\ u # t
    BY DEF TypeOK, Moving
  <2> QED BY <1>1, <2>1 DEF EarlyInv
<1>7. NotEarly'
  <2>1. \A u \in Ready : u \in Tasks /\ u # t
    BY ReadyTasks
  <2> QED BY <1>1, <2>1 DEF EarlyInv, NotEarly, Ready
<1> QED BY <1>4, <1>5, <1>6, <1>7 DEF EarlyInv

\* What hand, list and zset hold of a task that is pushed or built again.
LEMMA PublishFresh ==
  ASSUME FreshInv, NEW p \in Producers, NEW t \in Tasks, NEW cd \in Countdowns, Publish(p, t, cd)
  PROVE  t \notin Ready \cup Delayed \cup Moving /\ Publishing(t) = {}
BY DEF Publish, FreshInv

LEMMA RetryAlone ==
  ASSUME TypeOK, LoopInv, SingleCopy, NEW c \in Consumers, NEW cd \in Countdowns, Retry(c, cd)
  PROVE  /\ hand[c] \in Tasks /\ hand[c] \notin Ready \cup Delayed \cup Moving
         /\ Publishing(hand[c]) = {}
<1>1. hand[c] \in Tasks /\ pipe[c] = Idle
  BY DEF Retry, Build, TypeOK, LoopInv
<1>2. c \in Held(hand[c]) /\ c \notin Publishing(hand[c])
  BY <1>1 DEF Held, Publishing
<1>3. \A v, w \in Held(hand[c]) \cup Publishing(hand[c]) : v = w
  BY <1>1 DEF SingleCopy
<1> QED BY <1>1, <1>2, <1>3 DEF SingleCopy

\* A task in hand has been published, so that it is not published again unless
\* it has retries.
LEMMA NoRetry ==
  ASSUME MaxRetries = 0, TypeOK, LoopInv, FreshInv, NEW c \in Consumers, NEW cd \in Countdowns,
         Retry(c, cd)
  PROVE  FALSE
<1>1. hand[c] \in Tasks /\ published[hand[c]] <= 0
  BY DEF Retry, TypeOK, LoopInv
<1>2. published[hand[c]] = 0
  BY <1>1 DEF TypeOK
<1>3. c \in Held(hand[c])
  BY DEF Held
<1> QED BY <1>1, <1>2, <1>3 DEF FreshInv

LEMMA EarlyConsumer ==
  ASSUME EarlySettings, TypeOK, LoopInv, FreshInv, ExactSettings => SingleCopy, EarlyInv,
         NEW c \in Consumers, ConsumerStep(c)
  PROVE  EarlyInv'
<1> USE DEF redis, movers, loops, history
<1>1. now \in Nat
  BY DEF TypeOK
<1>2. ASSUME StartMover(c)
      PROVE  \A d \in Consumers : \/ mover'[d].ids \subseteq mover[d].ids /\ mover'[d].max = mover[d].max
                                  \/ mover'[d].ids = {} /\ mover'[d].max \in 0..now
  <2>1. \A d \in Consumers : mover'[d] = mover[d] \/ mover'[d] = Waiting
    BY <1>2 DEF StartMover, TypeOK
  <2>2. Waiting.ids = {} /\ Waiting.max = 0
    BY DEF Waiting
  <2> QED BY <1>1, <2>1, <2>2
<1>3. ASSUME list # <<>> PROVE ToSet(PopRest) \subseteq Ready
  BY <1>3, PopFacts DEF PopRest, Ready, TypeOK
<1>4. CASE BRPop(c)
  BY <1>1, <1>2, <1>3, <1>4, EarlyFrame DEF BRPop, Ready
<1>5. CASE BRPopNil(c)
  BY <1>1, <1>2, <1>5, EarlyFrame DEF BRPopNil, Ready
<1>6. CASE BRPopError(c)
  BY <1>1, <1>2, <1>3, <1>6, EarlyFrame DEF BRPopError, Ready
<1>7. CASE Payloads(c) \/ Start(c) \/ ConsumeError(c) \/ Finish(c)
  BY <1>1, <1>7, EarlyFrame DEF Payloads, Start, ConsumeError, Finish, Ready
<1>8. ASSUME NEW cd \in Countdowns, Retry(c, cd) PROVE EarlyInv'
  <2> SUFFICES ASSUME SingleCopy PROVE EarlyInv'
    BY <1>8, NoRetry DEF EarlySettings
  <2>1. PICK t \in Tasks : t = hand[c]
    BY <1>8, RetryAlone
  <2>2. t \notin Ready \cup Delayed \cup Moving /\ Publishing(t) = {}
    BY <1>8, <2>1, RetryAlone
  <2>3. Build(c, t, cd) /\ UNCHANGED <<now, list, delay, mover>> /\ c \in Workers
    BY <1>8, <2>1 DEF Retry
  <2> QED BY <2>2, <2>3, EarlyBuild
<1> QED BY <1>4, <1>5, <1>6, <1>7, <1>8 DEF ConsumerStep

LEMMA EarlyPipe ==
  ASSUME TypeOK, EarlyInv, NEW w \in Workers, PipeStep(w)
  PROVE  EarlyInv'
<1> USE DEF redis, movers, history
<1>1. now \in Nat
  BY DEF TypeOK
<1>2. CASE HMSet(w)
  <2>1. \A v \in Workers : pipe'[v] # Idle =>
          pipe[v] # Idle /\ pipe'[v].task = pipe[v].task /\ pipe'[v].cmd = pipe[v].cmd
    BY <1>2, PipeFacts DEF HMSet, TypeOK, Pipelines
  <2> QED BY <1>1, <1>2, <2>1, EarlyFrame DEF HMSet, Ready
<1>3. ASSUME EndPipe(w)
      PROVE  \A v \in Workers : pipe'[v] # Idle => pipe'[v] = pipe[v]
  BY <1>3 DEF EndPipe, TypeOK
<1>4. CASE PipeError(w)
  BY <1>1, <1>3, <1>4, EarlyFrame DEF PipeError, Ready
<1>5. CASE Push(w) \/ PushAgain(w)
  <2>1. PICK t \in Tasks : t = pipe[w].task
    BY <1>5, PipeFacts DEF Push, PushAgain, Pipelines
  <2>2. pipe[w].cmd = command[t] /\ command[t] \in Commands
    BY <1>5, <2>1, PipeFacts DEF Push, PushAgain, EarlyInv, TypeOK
  <2>p. \A v \in Workers : pipe'[v] # Idle =>
          pipe[v] # Idle /\ pipe'[v].task = pipe[v].task /\ pipe'[v].cmd = pipe[v].cmd
    <3>1. CASE Push(w)
      BY <1>3, <3>1 DEF Push
    <3>2. CASE PushAgain(w)
      BY <3>2, PipeFacts DEF PushAgain, TypeOK, Pipelines
    <3> QED BY <1>5, <3>1, <3>2
  <2>3. PushTo(t, command[t]) /\ UNCHANGED <<now, mover, command>>
        /\ \A v \in Workers : pipe'[v] # Idle => pipe'[v].cmd = command'[pipe'[v].task]
    BY <1>5, <2>1, <2>2, <2>p DEF Push, PushAgain, EarlyInv
  <2>4. CASE command[t].op = "ZADD"
    <3>1. list' = list /\ delay' = [delay EXCEPT ![t] = command[t].score]
      BY <2>3, <2>4 DEF PushTo
    <3>2. \A u \in Delayed' : command[u].op = "ZADD" /\ command[u].score = delay'[u]
      BY <2>4, <3>1 DEF Delayed, EarlyInv, TypeOK
    <3> QED BY <2>3, <3>1, <3>2 DEF EarlyInv, NotEarly, Ready
  <2>5. CASE command[t].op # "ZADD"
    <3>1. delay' = delay /\ Ready' \subseteq Ready \cup {t}
      BY <2>2, <2>3, <2>5, PushToFacts
    <3>2. NotEarly'
      BY <2>3, <2>5, <3>1 DEF EarlyInv, NotEarly
    <3> QED BY <2>3, <3>1, <3>2 DEF EarlyInv, Delayed
  <2> QED BY <2>4, <2>5
<1> QED BY <1>2, <1>4, <1>5 DEF PipeStep

LEMMA EarlyMover ==
  ASSUME TypeOK, EarlyInv, NEW c \in Consumers, MoverStep(c)
  PROVE  EarlyInv'
<1> USE DEF redis, loops, history
<1>1. now \in Nat /\ mover[c].max \in Nat
  BY DEF TypeOK
<1>2. ASSUME NEW step, NEW max, NEW ids, SetMover(c, step, max, ids),
             UNCHANGED <<now, list, delay, pipe, command>>,
             \/ ids = {} /\ max \in 0..now
             \/ ids \subseteq mover[c].ids /\ max = mover[c].max
      PROVE  EarlyInv'
  BY <1>1, <1>2, SetMoverFact, EarlyFrame DEF Ready
<1>3. CASE MoverTick(c)
  BY <1>1, <1>2, <1>3 DEF MoverTick
<1>4. CASE MoverRange(c)
  <2>1. CASE SetMover(c, "wait", 0, {})
    BY <1>1, <1>2, <1>4, <2>1 DEF MoverRange
  <2>2. CASE SetMover(c, "payloads", mover[c].max, Due(mover[c].max))
    <3>1. \A t \in Due(mover[c].max) :
            command[t].op = "ZADD" /\ command[t].score <= Seconds(mover[c].max)
      BY DEF Due, Delayed, EarlyInv
    <3>2. UNCHANGED <<now, list, delay, pipe, command>>
      BY <1>4 DEF MoverRange
    <3> QED BY <2>2, <3>1, <3>2, SetMoverFact DEF EarlyInv, NotEarly, Ready, Delayed
  <2> QED BY <1>4, <2>1, <2>2 DEF MoverRange
<1>5. CASE MoverPayloads(c)
  <2>1. \/ SetMover(c, "wait", 0, {})
        \/ SetMover(c, "commit", mover[c].max, mover[c].ids \cap stored)
    BY <1>5 DEF MoverPayloads
  <2> QED BY <1>1, <1>2, <1>5, <2>1 DEF MoverPayloads
<1>6. CASE MoverCommit(c) \/ MoverCommitAgain(c)
  <2>1. Ready' = Ready \cup mover[c].ids
    BY <1>6, MoverTxFacts DEF MoverCommit, MoverCommitAgain
  <2>3. UNCHANGED <<now, pipe, command>> /\ (SetMover(c, "wait", 0, {}) \/ UNCHANGED mover)
    BY <1>6 DEF MoverCommit, MoverCommitAgain, movers
  <2>4. \A t \in Tasks : delay'[t] \in {delay[t], NotDelayed}
    BY <1>6 DEF MoverCommit, MoverCommitAgain, MoverTx, RemoveRange
  <2>5. \A t \in Delayed' : command[t].op = "ZADD" /\ command[t].score = delay'[t]
    BY <2>4 DEF Delayed, EarlyInv
  <2>6. ASSUME NEW t \in mover[c].ids PROVE command[t].score <= Seconds(now)
    <3>1. t \in Tasks /\ command[t].score \in Nat
      BY DEF TypeOK, Commands
    <3>2. Seconds(mover[c].max) <= Seconds(now)
          /\ Seconds(mover[c].max) \in Nat /\ Seconds(now) \in Nat
      BY <1>1, SecondsMonotone, SecondsType DEF EarlyInv
    <3> QED BY <3>1, <3>2 DEF EarlyInv
  <2>7. NotEarly'
    BY <2>1, <2>3, <2>6 DEF EarlyInv, NotEarly
  <2> QED BY <1>1, <2>3, <2>5, <2>7, SetMoverFact DEF EarlyInv
<1>7. CASE MoverError(c)
  BY <1>1, <1>2, <1>7 DEF MoverError
<1> QED BY <1>3, <1>4, <1>5, <1>6, <1>7 DEF MoverStep

LEMMA EarlyStep ==
  ASSUME EarlySettings, TypeOK, LoopInv, FreshInv, ExactSettings => SingleCopy, EarlyInv,
         [Next]_vars
  PROVE  EarlyInv'
<1>1. CASE UNCHANGED vars
  BY <1>1 DEF vars, redis, movers, loops, history, EarlyInv, NotEarly, Ready, Delayed
<1>2. ASSUME NEW p \in Producers, NEW t \in Tasks, NEW cd \in Countdowns, Publish(p, t, cd)
      PROVE  EarlyInv'
  <2>1. t \notin Ready \cup Delayed \cup Moving /\ Publishing(t) = {}
    BY <1>2, PublishFresh
  <2>2. Build(p, t, cd) /\ UNCHANGED <<now, list, delay, mover>> /\ p \in Workers
    BY <1>2 DEF Publish, redis, movers
  <2> QED BY <2>1, <2>2, EarlyBuild
<1> QED BY <1>1, <1>2, EarlyEnvironment, EarlyPipe, EarlyConsumer, EarlyMover DEF Next

\* A delayed task is never ready before the second of its ETA, whatever
\* crashes, lost replies and maintenance calls there are; without retries also
\* with any number of worker processes, with a prefix and when pipelines and
\* transactions are sent again.
THEOREM NotEarlyCorrect == ASSUME EarlySettings PROVE Spec => []NotEarly
<1>1. Init => TypeOK /\ LoopInv /\ FreshInv /\ EarlyInv
  BY InitTypeOK, InitCopyInv DEF CopyInv, Init, EarlyInv, NotEarly, Delayed, Ready, ToSet, NoMover
<1>2. EarlyInv => NotEarly
  BY DEF EarlyInv
<1>3. ASSUME ExactSettings PROVE Spec => []NotEarly
  <2>1. TypeOK /\ CopyInv /\ EarlyInv /\ [Next]_vars => EarlyInv'
    BY EarlyStep DEF CopyInv
  <2> QED BY <1>1, <1>2, <1>3, <2>1, CopyInvariant, PTL DEF Spec
<1>4. ASSUME ~ExactSettings PROVE Spec => []NotEarly
  <2>1. (TypeOK /\ LoopInv) /\ FreshInv /\ EarlyInv /\ [Next]_vars
          => (TypeOK /\ LoopInv /\ FreshInv /\ EarlyInv)'
    BY <1>4, TypeLoopStep, FreshStep, EarlyStep
  <2> QED BY <1>1, <1>2, <2>1, PTL DEF Spec
<1> QED BY <1>3, <1>4

-----------------------------------------------------------------------------
(* The hash of a task outlives its ids.                                    *)

\* No task is deleted by hand.
KeptSettings == ExactSettings /\ Admin \cap {"flush", "delete"} = {}

\* A task whose hash will expire has no id left and is not published again.
Spent(t) ==
  /\ published[t] > 0
  /\ t \notin Ready \cup Delayed \cup Moving /\ Publishing(t) = {}
  /\ \A c \in Held(t) : pc[c] = "handle" /\ published[t] > MaxRetries

DataInv ==
  /\ DataBeforeId
  /\ \A w \in Workers : pipe[w] # Idle /\ pipe[w].step = "push" => pipe[w].task \in stored
  /\ \A c \in Consumers : pc[c] = "payloads" => hand[c] \in stored
  /\ \A t \in expiring : Spent(t)

\* Steps that bring no task to a new place and set no time to live.
LEMMA DataFrame ==
  ASSUME TypeOK, DataInv, stored \subseteq stored', expiring' \subseteq expiring,
         published' = published,
         Ready' \subseteq Ready, Delayed' \subseteq Delayed, Moving' \subseteq Moving \cup Delayed,
         \A w \in Workers : pipe'[w] # Idle =>
           /\ pipe[w] # Idle /\ pipe'[w].task = pipe[w].task
           /\ pipe'[w].step = pipe[w].step \/ pipe[w].task \in stored',
         \A c \in Consumers : hand'[c] \in Tasks =>
           hand'[c] = hand[c] /\ (pc'[c] = pc[c] \/ pc[c] # "handle"),
         \A c \in Consumers : pc'[c] = "payloads" => pc[c] = "payloads" /\ hand'[c] = hand[c]
  PROVE  DataInv'
<1>1. DataBeforeId'
  BY DEF DataInv, DataBeforeId
<1>2. \A w \in Workers : pipe'[w] # Idle /\ pipe'[w].step = "push" => pipe'[w].task \in stored'
  BY DEF DataInv
<1>3. \A c \in Consumers : pc'[c] = "payloads" => hand'[c] \in stored'
  BY DEF DataInv
<1>4. ASSUME NEW t \in expiring' PROVE Spent(t)'
  <2>1. Spent(t) /\ t \in Tasks
    BY DEF DataInv, TypeOK
  <2>2. t \notin (Ready \cup Delayed \cup Moving)'
    BY <2>1 DEF Spent
  <2>3. Publishing(t)' = {}
    BY <2>1 DEF Spent, Publishing
  <2>4. \A c \in Held(t)' : c \in Held(t) /\ pc'[c] = "handle"
    BY <2>1 DEF Spent, Held
  <2> QED BY <2>1, <2>2, <2>3, <2>4 DEF Spent
<1> QED BY <1>1, <1>2, <1>3, <1>4 DEF DataInv

LEMMA DataEnvironment ==
  ASSUME KeptSettings, TypeOK, DataInv, Tick \/ Maintenance \/ \E p \in Processes : Crash(p)
  PROVE  DataInv'
<1> USE DEF redis, movers, loops, history
<1>1. CASE Tick
  BY <1>1, DataFrame DEF Tick, Ready, Delayed, Moving
<1>2. CASE Empty
  <2>1. Ready' = {}
    BY <1>2 DEF Empty, Ready, ToSet
  <2> QED BY <1>2, <2>1, DataFrame DEF Empty, Delayed, Moving
<1>3. ASSUME NEW t \in Tasks, Expire(t) PROVE DataInv'
  <2>1. Spent(t)
    BY <1>3 DEF Expire, DataInv
  <2>2. stored' = stored \ {t} /\ expiring' = expiring \ {t}
        /\ UNCHANGED <<list, delay, pipe, mover, pc, hand, published>>
    BY <1>3 DEF Expire
  <2>3. DataBeforeId'
    BY <2>1, <2>2 DEF DataInv, DataBeforeId, Spent, Ready, Delayed
  <2>4. \A w \in Workers : pipe'[w] # Idle /\ pipe'[w].step = "push" => pipe'[w].task \in stored'
    BY <2>1, <2>2 DEF DataInv, Spent, Publishing
  <2>5. \A c \in Consumers : pc'[c] = "payloads" => hand'[c] \in stored'
    BY <2>1, <2>2 DEF DataInv, Spent, Held
  <2>6. \A u \in expiring' : Spent(u)'
    BY <2>2 DEF DataInv, Spent, Ready, Delayed, Moving, Held, Publishing
  <2> QED BY <2>3, <2>4, <2>5, <2>6 DEF DataInv
<1>4. ASSUME NEW p \in Processes, Crash(p) PROVE DataInv'
  <2>1. \A c \in Consumers : /\ mover'[c] = mover[c] \/ mover'[c] = NoMover
                            /\ \/ pc'[c] = pc[c] /\ hand'[c] = hand[c]
                               \/ pc'[c] = "consume" /\ hand'[c] = NoTask
    BY <1>4 DEF Crash
  <2>2. \A w \in Workers : pipe'[w] = pipe[w] \/ pipe'[w] = Idle
    BY <1>4 DEF Crash
  <2>3. Moving' \subseteq Moving
    BY <2>1 DEF Moving, NoMover
  <2> QED BY <1>4, <2>1, <2>2, <2>3, TasksAssumption, DataFrame DEF Crash, Ready, Delayed
<1> QED BY <1>1, <1>2, <1>3, <1>4 DEF Maintenance, Flush, Delete, KeptSettings

LEMMA DataBuild ==
  ASSUME TypeOK, DataInv, NEW w \in Workers, NEW t \in Tasks, NEW cd \in Countdowns,
         Build(w, t, cd), t \notin expiring,
         UNCHANGED <<stored, expiring, list, delay, mover, hand>>,
         \A c \in Consumers : pc'[c] = pc[c] \/ (pc'[c] = "publish" /\ hand[c] = t)
  PROVE  DataInv'
<1>1. DataBeforeId'
  BY DEF DataInv, DataBeforeId, Ready, Delayed
<1>2. \A v \in Workers : pipe'[v] # Idle /\ pipe'[v].step = "push" => pipe'[v].task \in stored'
  BY DEF Build, DataInv, TypeOK
<1>3. \A c \in Consumers : pc'[c] = "payloads" => hand'[c] \in stored'
  BY DEF DataInv
<1>4. ASSUME NEW u \in expiring' PROVE Spent(u)'
  <2>1. Spent(u) /\ u \in Tasks \ {t}
    BY DEF DataInv, TypeOK
  <2>2. Publishing(u)' = {} /\ published'[u] = published[u]
    BY <2>1, BuildFacts DEF Spent
  <2>3. Held(u)' = Held(u) /\ \A c \in Held(u) : pc'[c] = pc[c]
    BY <2>1 DEF Held
  <2> QED BY <2>1, <2>2, <2>3 DEF Spent, Ready, Delayed, Moving
<1> QED BY <1>1, <1>2, <1>3, <1>4 DEF DataInv

LEMMA DataPipe ==
  ASSUME KeptSettings, TypeOK, LoopInv, SingleCopy, DataInv, NEW w \in Workers, PipeStep(w)
  PROVE  DataInv'
<1> USE DEF redis, movers, history
<1>1. ASSUME EndPipe(w)
      PROVE  /\ \A v \in Workers : pipe'[v] = pipe[v] \/ pipe'[v] = Idle
             /\ \A c \in Consumers : \/ pc'[c] = pc[c] /\ hand'[c] = hand[c]
                                     \/ pc'[c] = "consume" /\ hand'[c] = NoTask
  BY <1>1 DEF EndPipe, TypeOK, loops
<1>2. CASE HMSet(w)
  <2>1. \A v \in Workers : pipe'[v] # Idle =>
           /\ pipe[v] # Idle /\ pipe'[v].task = pipe[v].task
           /\ pipe'[v].step = pipe[v].step \/ pipe[v].task \in stored'
    BY <1>2, PipeFacts DEF HMSet, TypeOK, Pipelines
  <2> QED BY <1>2, <2>1, DataFrame DEF HMSet, Ready, Delayed, Moving, loops
<1>3. CASE PipeError(w)
  BY <1>1, <1>3, TasksAssumption, DataFrame DEF PipeError, Ready, Delayed, Moving
<1>4. CASE Push(w)
  <2>1. PICK t \in Tasks : t = pipe[w].task
    BY <1>4, PipeFacts DEF Push, Pipelines
  <2>2. /\ pipe[w] # Idle /\ PushTo(t, pipe[w].cmd) /\ EndPipe(w) /\ pipe[w].cmd \in Commands
        /\ UNCHANGED <<stored, expiring, mover, published>>
    BY <1>4, <2>1, PipeFacts DEF Push, Pipelines
  <2>3. t \in stored /\ w \in Publishing(t)
    BY <1>4, <2>1, <2>2 DEF Push, DataInv, Publishing
  <2>4. t \notin expiring
    BY <2>3 DEF DataInv, Spent
  <2>5. Ready' \cup Delayed' \subseteq Ready \cup Delayed \cup {t}
    <3>1. delay \in [Tasks -> Nat \cup {NotDelayed}]
      BY DEF TypeOK
    <3> QED BY <2>2, <3>1, PushToFacts DEF Delayed
  <2>6. DataBeforeId'
    BY <2>2, <2>3, <2>5 DEF DataInv, DataBeforeId
  <2>7. /\ \A v \in Workers : pipe'[v] # Idle /\ pipe'[v].step = "push" => pipe'[v].task \in stored'
        /\ \A c \in Consumers : pc'[c] = "payloads" => hand'[c] \in stored'
    BY <1>1, <2>2 DEF DataInv
  <2>8. ASSUME NEW u \in expiring' PROVE Spent(u)'
    <3>1. Spent(u) /\ u \in Tasks \ {t}
      BY <2>2, <2>4 DEF DataInv, TypeOK
    <3>2. Publishing(u)' = {} /\ Moving' = Moving
      BY <1>1, <2>2, <3>1 DEF Spent, Publishing, Moving
    <3>3. \A c \in Held(u)' : c \in Held(u) /\ pc'[c] = pc[c]
      BY <1>1, <2>2, <3>1, TasksAssumption DEF Held
    <3> QED BY <2>2, <2>5, <3>1, <3>2, <3>3 DEF Spent
  <2> QED BY <2>6, <2>7, <2>8 DEF DataInv
<1>5. CASE PushAgain(w)
  BY <1>5 DEF PushAgain, MaySendAgain, ExactSettings, KeptSettings
<1> QED BY <1>2, <1>3, <1>4, <1>5 DEF PipeStep

\* A consumer that is not publishing is the only copy of the task it holds.
LEMMA HeldAlone ==
  ASSUME TypeOK, LoopInv, SingleCopy, NEW c \in Consumers, NEW t \in Tasks,
         hand[c] = t, pc[c] # "publish"
  PROVE  t \notin Ready \cup Delayed \cup Moving /\ Publishing(t) = {} /\ Held(t) = {c}
<1>1. c \in Held(t) /\ \A v, w \in Held(t) \cup Publishing(t) : v = w
  BY DEF Held, SingleCopy
<1>2. Publishing(t) = {}
  BY <1>1 DEF LoopInv, Publishing
<1> QED BY <1>1, <1>2 DEF SingleCopy

LEMMA DataConsumer ==
  ASSUME ExactSettings, TypeOK, LoopInv, MoverInv, RangeInv, FreshInv, SingleCopy, DataInv,
         NEW c \in Consumers, ConsumerStep(c)
  PROVE  DataInv'
<1> USE DEF redis, movers, loops, history
<1>1. ASSUME StartMover(c), delay' = delay PROVE Moving' = Moving
  BY <1>1, StartMoverInv
<1>2. ASSUME list # <<>> PROVE PopEnd \in Ready /\ PopEnd \in Tasks /\ ToSet(PopRest) \subseteq Ready
  BY <1>2, PopFacts DEF PopRest, PopEnd, Ready, TypeOK
<1>3. ASSUME Release(c)
      PROVE  \A d \in Consumers : \/ pc'[d] = pc[d] /\ hand'[d] = hand[d]
                                  \/ pc'[d] = "consume" /\ hand'[d] = NoTask
  BY <1>3 DEF Release, TypeOK
<1>4. CASE BRPop(c)
  <2>1. PICK t \in Tasks : t = PopEnd
    BY <1>2, <1>4 DEF BRPop
  <2>2. /\ t \in Ready /\ t \in stored /\ Ready' \subseteq Ready
        /\ UNCHANGED <<stored, expiring, delay, pipe, published>> /\ Moving' = Moving
    BY <1>1, <1>2, <1>4, <2>1 DEF BRPop, Ready, DataInv, DataBeforeId
  <2>3. \A d \in Consumers : IF d = c THEN hand'[d] = t ELSE pc'[d] = pc[d] /\ hand'[d] = hand[d]
    BY <1>4, <2>1 DEF BRPop, TypeOK
  <2>4. /\ DataBeforeId'
        /\ \A w \in Workers : pipe'[w] # Idle /\ pipe'[w].step = "push" => pipe'[w].task \in stored'
    BY <2>2 DEF DataInv, DataBeforeId, Delayed
  <2>5. \A d \in Consumers : pc'[d] = "payloads" => hand'[d] \in stored'
    BY <2>2, <2>3 DEF DataInv
  <2>6. ASSUME NEW u \in expiring' PROVE Spent(u)'
    <3>1. Spent(u) /\ u # t
      BY <2>2 DEF DataInv, Spent
    <3>2. \A d \in Held(u)' : d \in Held(u) /\ pc'[d] = pc[d]
      BY <2>3, <3>1 DEF Held
    <3> QED BY <2>2, <3>1, <3>2 DEF Spent, Delayed, Publishing
  <2> QED BY <2>4, <2>5, <2>6 DEF DataInv
<1>5. CASE BRPopNil(c)
  BY <1>1, <1>5, DataFrame DEF BRPopNil, Ready, Delayed
<1>6. CASE BRPopError(c)
  BY <1>1, <1>2, <1>6, DataFrame DEF BRPopError, Ready, Delayed
<1>7. CASE Payloads(c)
  <2>1. \A d \in Consumers : \/ pc'[d] = pc[d] /\ hand'[d] = hand[d]
                             \/ pc'[d] = "consume" /\ hand'[d] = NoTask
                             \/ pc[d] # "handle" /\ pc'[d] = "start" /\ hand'[d] = hand[d]
    BY <1>3, <1>7 DEF Payloads, TypeOK
  <2> QED BY <1>7, <2>1, TasksAssumption, DataFrame DEF Payloads, Ready, Delayed, Moving
<1>8. CASE ConsumeError(c)
  BY <1>3, <1>8, TasksAssumption, DataFrame DEF ConsumeError, Ready, Delayed, Moving
<1>9. CASE Start(c)
  <2>1. PICK t \in Tasks : t = hand[c]
    BY <1>9 DEF Start, LoopInv, TypeOK
  <2>2. /\ stored' = stored \cup {t} /\ UNCHANGED <<list, delay, pipe, mover, hand, published>>
        /\ expiring' \subseteq expiring \cup {t}
        /\ t \in expiring' \ expiring => FinishedAtStart(t)
    BY <1>9, <2>1 DEF Start, WithTTL
  <2>3. \A d \in Consumers : pc'[d] = IF d = c THEN "handle" ELSE pc[d]
    BY <1>9 DEF Start, TypeOK
  <2>4. /\ DataBeforeId'
        /\ \A w \in Workers : pipe'[w] # Idle /\ pipe'[w].step = "push" => pipe'[w].task \in stored'
        /\ \A d \in Consumers : pc'[d] = "payloads" => hand'[d] \in stored'
    BY <2>2, <2>3 DEF DataInv, DataBeforeId, Ready, Delayed
  <2>5. ASSUME NEW u \in expiring' PROVE Spent(u)'
    <3>1. CASE u \in expiring
      <4>1. \A d \in Held(u)' : d \in Held(u) /\ pc'[d] = "handle" /\ published[u] > MaxRetries
        BY <2>2, <2>3, <3>1 DEF Held, DataInv, Spent
      <4> QED BY <2>2, <3>1, <4>1 DEF DataInv, Spent, Ready, Delayed, Moving, Publishing
    <3>2. CASE u = t /\ u \notin expiring
      <4>1. published[t] > MaxRetries /\ published[t] > 0
        BY <2>2, <3>2, ClockAssumption DEF FinishedAtStart, TypeOK
      <4>2. t \notin Ready \cup Delayed \cup Moving /\ Publishing(t) = {} /\ Held(t) = {c}
        BY <1>9, <2>1, HeldAlone DEF Start
      <4>3. Held(t)' = {c} /\ pc'[c] = "handle"
        BY <2>2, <2>3, <4>2 DEF Held
      <4> QED BY <2>2, <3>2, <4>1, <4>2, <4>3 DEF Spent, Ready, Delayed, Moving, Publishing
    <3> QED BY <2>2, <3>1, <3>2
  <2> QED BY <2>4, <2>5 DEF DataInv
<1>10. CASE Finish(c)
  <2>1. PICK t \in Tasks : t = hand[c]
    BY <1>10 DEF Finish, LoopInv, TypeOK
  <2>2. /\ stored \subseteq stored' /\ UNCHANGED <<list, delay, pipe, mover, published>>
        /\ expiring' \subseteq expiring \cup {t}
    BY <1>10, <2>1 DEF Finish, WithTTL
  <2>3. \A d \in Consumers : \/ pc'[d] = pc[d] /\ hand'[d] = hand[d]
                             \/ pc'[d] = "consume" /\ hand'[d] = NoTask
    BY <1>3, <1>10 DEF Finish
  <2>4. /\ DataBeforeId'
        /\ \A w \in Workers : pipe'[w] # Idle /\ pipe'[w].step = "push" => pipe'[w].task \in stored'
        /\ \A d \in Consumers : pc'[d] = "payloads" => hand'[d] \in stored'
    BY <2>2, <2>3 DEF DataInv, DataBeforeId, Ready, Delayed
  <2>5. ASSUME NEW u \in expiring' PROVE Spent(u)'
    <3>1. CASE u \in expiring
      <4>1. Spent(u) /\ u \in Tasks
        BY <3>1 DEF DataInv, TypeOK
      <4>2. \A d \in Held(u)' : d \in Held(u) /\ pc'[d] = pc[d]
        BY <2>3, <4>1, TasksAssumption DEF Held
      <4> QED BY <2>2, <4>1, <4>2 DEF Spent, Ready, Delayed, Moving, Publishing
    <3>2. CASE u = t
      <4>1. t \notin Ready \cup Delayed \cup Moving /\ Publishing(t) = {} /\ Held(t) = {c}
        BY <1>10, <2>1, HeldAlone DEF Finish
      <4>2. published[t] > 0
        <5>1. published[t] # 0
          BY <4>1 DEF FreshInv
        <5>2. published[t] \in Nat
          BY DEF TypeOK
        <5> QED BY <5>1, <5>2
      <4>3. Held(t)' = {}
        BY <1>10, <4>1, ReleaseFacts DEF Finish
      <4> QED BY <2>2, <3>2, <4>1, <4>2, <4>3 DEF Spent, Ready, Delayed, Moving, Publishing
    <3> QED BY <2>2, <3>1, <3>2
  <2> QED BY <2>4, <2>5 DEF DataInv
<1>11. ASSUME NEW cd \in Countdowns, Retry(c, cd) PROVE DataInv'
  <2>1. PICK t \in Tasks : t = hand[c]
    BY <1>11, RetryAlone
  <2>2. Build(c, t, cd) /\ UNCHANGED <<stored, expiring, list, delay, mover, hand>>
    BY <1>11, <2>1 DEF Retry
  <2>3. t \notin expiring
    <3>1. c \in Held(t) /\ published[t] <= MaxRetries /\ published[t] \in Nat
      BY <1>11, <2>1 DEF Retry, Held, TypeOK
    <3> QED BY <3>1, ClockAssumption DEF DataInv, Spent
  <2>4. \A d \in Consumers : pc'[d] = pc[d] \/ (pc'[d] = "publish" /\ hand[d] = t)
    <3>1. pc' = [pc EXCEPT ![c] = "publish"] /\ hand[c] = t
      BY <1>11, <2>1 DEF Retry
    <3>2. pc \in [Consumers -> {"consume", "payloads", "start", "handle", "publish"}]
      BY DEF TypeOK
    <3> QED BY <3>1, <3>2
  <2> QED BY <2>2, <2>3, <2>4, DataBuild
<1> QED BY <1>4, <1>5, <1>6, <1>7, <1>8, <1>9, <1>10, <1>11 DEF ConsumerStep

LEMMA DataMover ==
  ASSUME ExactSettings, TypeOK, MoverInv, DataInv, NEW c \in Consumers, MoverStep(c)
  PROVE  DataInv'
<1> USE DEF redis, loops, history
<1>1. ASSUME NEW step, NEW max, NEW ids, SetMover(c, step, max, ids),
             ids \subseteq mover[c].ids \cup Delayed,
             UNCHANGED <<stored, expiring, list, delay, pipe, pc, hand, published>>
      PROVE  DataInv'
  <2>1. Moving' \subseteq Moving \cup Delayed
    BY <1>1, SetMoverFact DEF Moving
  <2> QED BY <1>1, <2>1, DataFrame DEF Ready, Delayed
<1>2. CASE MoverTick(c) \/ MoverError(c)
  BY <1>1, <1>2 DEF MoverTick, MoverError
<1>3. CASE MoverRange(c)
  <2>1. Due(mover[c].max) \subseteq Delayed
    BY DEF Due, Delayed
  <2>2. \/ SetMover(c, "wait", 0, {})
        \/ SetMover(c, "payloads", mover[c].max, Due(mover[c].max))
    BY <1>3 DEF MoverRange
  <2> QED BY <1>1, <1>3, <2>1, <2>2 DEF MoverRange
<1>4. CASE MoverPayloads(c)
  <2>1. \/ SetMover(c, "wait", 0, {})
        \/ SetMover(c, "commit", mover[c].max, mover[c].ids \cap stored)
    BY <1>4 DEF MoverPayloads
  <2> QED BY <1>1, <1>4, <2>1 DEF MoverPayloads
<1>5. CASE MoverCommit(c)
  <2>1. Ready' = Ready \cup mover[c].ids
    BY <1>5, MoverTxFacts DEF MoverCommit
  <2>3. /\ stored' = stored \cup mover[c].ids /\ SetMover(c, "wait", 0, {})
        /\ UNCHANGED <<expiring, pipe, pc, hand, published>>
    BY <1>5 DEF MoverCommit, MoverTx
  <2>4. Delayed' \subseteq Delayed
    BY <1>5 DEF MoverCommit, MoverTx, RemoveRange, Delayed
  <2>5. Moving' \subseteq Moving /\ mover[c].ids \subseteq Moving
    BY <2>3, SetMoverFact DEF Moving
  <2>6. \A u \in expiring' : Spent(u)'
    BY <2>1, <2>3, <2>4, <2>5 DEF DataInv, Spent, Held, Publishing
  <2> QED BY <2>1, <2>3, <2>4, <2>6 DEF DataInv, DataBeforeId
<1>6. CASE MoverCommitAgain(c)
  BY <1>6 DEF MoverCommitAgain, MaySendAgain, ExactSettings
<1> QED BY <1>2, <1>3, <1>4, <1>5, <1>6 DEF MoverStep

LEMMA DataInit == Init => DataInv
BY DEF Init, DataInv, DataBeforeId, Delayed, Ready, ToSet

LEMMA DataStep ==
  ASSUME KeptSettings, TypeOK, CopyInv, DataInv, [Next]_vars
  PROVE  DataInv'
<1>1. ExactSettings /\ LoopInv /\ MoverInv /\ RangeInv /\ SingleCopy /\ FreshInv
  BY DEF CopyInv, KeptSettings
<1>2. CASE UNCHANGED vars
  BY <1>2, DataFrame DEF vars, redis, movers, loops, history, Ready, Delayed, Moving
<1>3. ASSUME NEW p \in Producers, NEW t \in Tasks, NEW cd \in Countdowns, Publish(p, t, cd)
      PROVE  DataInv'
  <2>1. Build(p, t, cd) /\ UNCHANGED <<stored, expiring, list, delay, mover, hand, pc>> /\ p \in Workers
    BY <1>3 DEF Publish, redis, movers, loops
  <2>2. t \notin expiring
    BY <1>3 DEF Publish, DataInv, Spent
  <2>3. \A c \in Consumers : pc'[c] = pc[c] \/ (pc'[c] = "publish" /\ hand[c] = t)
    BY <2>1
  <2>4. UNCHANGED <<stored, expiring, list, delay, mover, hand>>
    BY <2>1
  <2> QED BY <2>1, <2>2, <2>3, <2>4, DataBuild
<1> QED BY <1>1, <1>2, <1>3, DataEnvironment, DataPipe, DataConsumer, DataMover DEF Next

\* As long as nobody deletes a task or flushes Redis, every id in the list or
\* the zset leads to a stored task, whatever crashes and lost replies there are.
THEOREM DataBeforeIdCorrect == ASSUME KeptSettings PROVE Spec => []DataBeforeId
<1>1. TypeOK /\ CopyInv /\ DataInv /\ [Next]_vars => DataInv'
  BY DataStep
<1>2. DataInv => DataBeforeId
  BY DEF DataInv
<1>3. Spec => [](TypeOK /\ CopyInv)
  BY CopyInvariant DEF KeptSettings
<1> QED BY DataInit, <1>1, <1>2, <1>3, PTL DEF Spec

-----------------------------------------------------------------------------
(* Nothing is lost.                                                        *)

\* Nothing fails for good, nobody interferes, and a delay is longer than the
\* second and the latency within which a mover may already have read the zset.
\* Pipelines and transactions may be sent again.
NoLossSettings ==
  /\ Faults \subseteq {"resend"} /\ Admin = {}
  /\ \A cd \in Countdowns : cd \in Int /\ cd >= 0 => cd >= TicksPerSecond + Latency

LosslessSettings == ExactSettings /\ NoLossSettings

\* Handled for good, or with a consumer that can only finish it: only then may
\* the hash be gone.
Final(t) == t \in done \/ \E c \in Held(t) : pc[c] = "handle" /\ published[t] > MaxRetries

Kept(t) == t \in stored \/ Final(t)

\* Somebody holds the id of the task and has still to find the hash.
Leads(t) ==
  \/ t \in Ready \cup Delayed \cup Moving
  \/ \E w \in Publishing(t) : pipe[w].step = "push"
  \/ \E c \in Held(t) : pc[c] = "payloads"

KeptInv ==
  /\ \A t \in expiring : Final(t)
  /\ \A t \in Tasks : Leads(t) => Kept(t)

\* What the mover will remove from the zset.
Removes(c) == Due(mover[c].max)

\* That is what it has read and nothing else that has still to be run; a
\* pipeline under way adds to the zset only beyond any such range.
BeyondInv ==
  /\ \A c \in Consumers :
       /\ mover[c].max <= now
       /\ mover[c].step \in {"payloads", "commit"} =>
            \A t \in Removes(c) : t \in mover[c].ids \/ Final(t)
  /\ \A w \in Workers : pipe[w] # Idle =>
       /\ now <= pipe[w].since + Latency
       /\ pipe[w].cmd.op = "ZADD" => Seconds(pipe[w].since + Latency) < pipe[w].cmd.score

LostInv == NothingLost /\ KeptInv /\ BeyondInv

LEMMA DivNext ==
  ASSUME NEW k \in Nat \ {0}, NEW a \in Nat, NEW b \in Nat, a + k <= b
  PROVE  a \div k < b \div k
<1> DEFINE q == a \div k  r == b \div k
<1>1. q \in Nat /\ r \in Nat /\ k * q <= a /\ b < k * r + k
  OBVIOUS
<1> HIDE DEF q, r
<1>2. SUFFICES ASSUME q >= r PROVE FALSE
  BY <1>1 DEF q, r
<1>3. PICK d \in Nat : q = r + d
  <2>1. q - r \in Nat
    BY <1>1, <1>2
  <2> QED BY <1>1, <2>1
<1>4. k * q = k * r + k * d
  BY <1>1, <1>3
<1>5. k * d \in Nat /\ k * r \in Nat
  BY <1>1
<1> QED BY <1>1, <1>4, <1>5

LEMMA BuildScore ==
  ASSUME NoLossSettings, TypeOK, NEW cd \in Countdowns, PushCommand(cd).op = "ZADD"
  PROVE  Seconds(now + Latency) < PushCommand(cd).score
<1>1. cd \in Int /\ cd >= 0 /\ PushCommand(cd).score = Seconds(now + cd)
  BY CountdownsAssumption DEF PushCommand
<1>2. now \in Nat /\ now + Latency \in Nat /\ now + cd \in Nat
      /\ (now + Latency) + TicksPerSecond <= now + cd
  BY <1>1, ClockAssumption DEF NoLossSettings, TypeOK
<1> QED BY <1>1, <1>2, DivNext, ClockAssumption DEF Seconds

\* What is final stays so: its consumer can only finish it.
LEMMA FinalStays ==
  ASSUME TypeOK, TypeOK', NEW t \in Tasks, Final(t), done \subseteq done',
         published'[t] >= published[t],
         \A c \in Held(t) : pc[c] = "handle" /\ published[t] > MaxRetries =>
           t \in done' \/ (pc'[c] = "handle" /\ hand'[c] = hand[c])
  PROVE  Final(t)'
<1>1. CASE t \in done
  BY <1>1 DEF Final
<1>2. ASSUME NEW c \in Held(t), pc[c] = "handle", published[t] > MaxRetries PROVE Final(t)'
  <2>1. published'[t] > MaxRetries
    <3>1. published[t] \in Nat /\ published'[t] \in Nat
      BY DEF TypeOK
    <3> QED BY <1>2, <3>1, ClockAssumption
  <2>2. c \in Consumers /\ hand[c] = t
    BY DEF Held
  <2> QED BY <1>2, <2>1, <2>2 DEF Final, Held
<1> QED BY <1>1, <1>2 DEF Final

\* Steps that leave the zset, and what is published, as they are.
LEMMA LostFrame ==
  ASSUME TypeOK, TypeOK', LostInv, NothingLost', now <= now', delay' = delay,
         \A t \in Tasks : Final(t) => Final(t)',
         \A t \in expiring' : t \in expiring \/ Final(t)',
         \A t \in stored : t \in stored' \/ Final(t)',
         \A t \in Tasks : Leads(t)' => Leads(t) \/ t \in stored',
         \A w \in Workers : pipe'[w] # Idle =>
           /\ pipe[w] # Idle
           /\ pipe'[w].cmd = pipe[w].cmd /\ pipe'[w].since = pipe[w].since
           /\ now' <= pipe[w].since + Latency,
         \A c \in Consumers :
           \/ mover'[c] = mover[c]
           \/ mover'[c].step \notin {"payloads", "commit"} /\ mover'[c].max \in 0..now
  PROVE  LostInv'
<1>1. now \in Nat /\ now' \in Nat
      /\ \A c \in Consumers : mover[c].max \in Nat /\ mover[c].ids \subseteq Tasks
  BY DEF TypeOK
<1>2. \A t \in Tasks : Kept(t) => Kept(t)'
  BY DEF Kept
<1>3. KeptInv'
  <2>1. \A t \in expiring' : Final(t)'
    BY DEF LostInv, KeptInv, TypeOK
  <2>2. \A t \in Tasks : Leads(t)' => Kept(t)'
    BY <1>2 DEF LostInv, KeptInv, Kept
  <2> QED BY <2>1, <2>2 DEF KeptInv
<1>4. ASSUME NEW c \in Consumers
      PROVE  /\ mover'[c].max <= now'
             /\ mover'[c].step \in {"payloads", "commit"} =>
                  \A t \in Removes(c)' : t \in mover'[c].ids \/ Final(t)'
  <2>1. CASE mover'[c] = mover[c]
    <3>1. mover[c].max <= now'
      BY <1>1 DEF LostInv, BeyondInv
    <3>2. Removes(c)' = Removes(c) /\ Removes(c) \subseteq Tasks
      BY <2>1 DEF Removes, Due
    <3> QED BY <2>1, <3>1, <3>2 DEF LostInv, BeyondInv
  <2>2. CASE mover'[c].step \notin {"payloads", "commit"} /\ mover'[c].max \in 0..now
    BY <1>1, <2>2
  <2> QED BY <2>1, <2>2
<1>5. BeyondInv'
  BY <1>4 DEF LostInv, BeyondInv
<1> QED BY <1>3, <1>5 DEF LostInv

LEMMA LostBuild ==
  ASSUME NoLossSettings, TypeOK, TypeOK', LostInv, NEW w \in Workers, NEW t \in Tasks,
         NEW cd \in Countdowns, Build(w, t, cd),
         UNCHANGED <<now, stored, expiring, list, delay, mover, hand, done>>,
         \A c \in Consumers : /\ pc'[c] = "payloads" => pc[c] = "payloads"
                              /\ pc[c] = "handle" /\ published[hand[c]] > MaxRetries =>
                                   pc'[c] = "handle"
  PROVE  LostInv'
<1>1. /\ pipe'[w].since = now /\ pipe'[w].cmd = PushCommand(cd) /\ pipe'[w].step = "hmset"
      /\ \A v \in Workers : v # w => pipe'[v] = pipe[v]
  BY DEF Build, TypeOK
<1>2. \A u \in Tasks : published'[u] >= published[u]
  <2>1. published[t] \in Nat /\ \A u \in Tasks : published[u] \in Nat
    BY DEF TypeOK
  <2> QED BY <2>1, BuildFacts
<1>3. \A u \in Tasks : Final(u) => Final(u)'
  <2>1. ASSUME NEW u \in Tasks, Final(u) PROVE Final(u)'
    BY <1>2, <2>1, FinalStays DEF Held
  <2> QED BY <2>1
<1>4. \A u \in Tasks : Kept(u) => Kept(u)'
  BY <1>3 DEF Kept
<1>5. NothingLost'
  <2>1. Publishing(t)' # {}
    BY BuildFacts
  <2>2. \A u \in Tasks \ {t} : Publishing(u)' = Publishing(u) /\ published'[u] = published[u]
    BY BuildFacts
  <2> QED BY <2>1, <2>2 DEF LostInv, NothingLost, Ready, Delayed, Held
<1>6. KeptInv'
  <2>1. \A u \in Tasks : Leads(u)' => Leads(u)
    BY <1>1 DEF Leads, Ready, Delayed, Moving, Held, Publishing
  <2>2. \A u \in expiring' : Final(u)'
    BY <1>3 DEF LostInv, KeptInv, TypeOK
  <2> QED BY <1>4, <2>1, <2>2 DEF LostInv, KeptInv
<1>7. BeyondInv'
  <2>1. now <= now + Latency
    BY ClockAssumption DEF TypeOK
  <2>2. \A v \in Workers : pipe'[v] # Idle =>
          /\ now' <= pipe'[v].since + Latency
          /\ pipe'[v].cmd.op = "ZADD" => Seconds(pipe'[v].since + Latency) < pipe'[v].cmd.score
    BY <1>1, <2>1, BuildScore DEF LostInv, BeyondInv
  <2>3. \A c \in Consumers : Removes(c)' = Removes(c) /\ Removes(c) \subseteq Tasks
    BY DEF Removes, Due
  <2> QED BY <1>3, <2>2, <2>3 DEF LostInv, BeyondInv
<1> QED BY <1>5, <1>6, <1>7 DEF LostInv

LEMMA LostEnvironment ==
  ASSUME NoLossSettings, TypeOK, TypeOK', LostInv,
         Tick \/ Maintenance \/ \E p \in Processes : Crash(p)
  PROVE  LostInv'
<1> USE DEF redis, movers, loops, history
<1>1. CASE Tick
  <2>1. \A w \in Workers : pipe[w] # Idle => now' <= pipe[w].since + Latency
    BY <1>1, ClockAssumption DEF Tick, TypeOK, Pipelines
  <2>2. NothingLost'
    BY <1>1 DEF Tick, LostInv, NothingLost, Ready, Delayed, Held, Publishing
  <2>3. now <= now' /\ UNCHANGED <<stored, expiring, delay, pipe, mover>>
    BY <1>1 DEF Tick, TypeOK
  <2>4. \A t \in Tasks : (Final(t)' <=> Final(t)) /\ (Leads(t)' <=> Leads(t))
    BY <1>1 DEF Tick, Final, Leads, Ready, Delayed, Moving, Held, Publishing
  <2> QED BY <2>1, <2>2, <2>3, <2>4, LostFrame
<1>2. ASSUME NEW t \in Tasks, Expire(t) PROVE LostInv'
  <2>1. NothingLost'
    BY <1>2 DEF Expire, LostInv, NothingLost, Ready, Delayed, Held, Publishing
  <2>2. /\ UNCHANGED <<now, delay, pipe, mover>> /\ now <= now
        /\ expiring' \subseteq expiring /\ stored' = stored \ {t}
    BY <1>2 DEF Expire, TypeOK
  <2>3. \A u \in Tasks : (Final(u)' <=> Final(u)) /\ (Leads(u)' <=> Leads(u))
    BY <1>2 DEF Expire, Final, Leads, Ready, Delayed, Moving, Held, Publishing
  <2>4. Final(t)'
    BY <1>2, <2>3 DEF Expire, LostInv, KeptInv
  <2>5. \A w \in Workers : pipe[w] # Idle => now' <= pipe[w].since + Latency
    BY <2>2 DEF LostInv, BeyondInv
  <2> QED BY <2>1, <2>2, <2>3, <2>4, <2>5, LostFrame
<1> QED BY <1>1, <1>2 DEF Maintenance, Flush, Empty, Delete, Crash, NoLossSettings

\* The last command of a pipeline, sent for the last time or to be sent again.
LEMMA LostPush ==
  ASSUME NoLossSettings, TypeOK, TypeOK', LoopInv, LostInv, NEW w \in Workers,
         Push(w) \/ PushAgain(w)
  PROVE  LostInv'
<1> USE DEF redis, movers, history
<1>1. PICK t \in Tasks : t = pipe[w].task
  BY PipeFacts DEF Push, PushAgain, Pipelines
<1>2. /\ pipe[w] # Idle /\ pipe[w].step = "push" /\ PushTo(t, pipe[w].cmd)
      /\ pipe[w].cmd \in Commands /\ pipe[w].since \in Nat
      /\ UNCHANGED <<now, stored, expiring, mover, published, done>>
  BY <1>1, PipeFacts DEF Push, PushAgain, Pipelines
<1>3. delay \in [Tasks -> Nat \cup {NotDelayed}] /\ pipe[w].cmd.score # NotDelayed
  BY <1>2 DEF TypeOK, Commands, NotDelayed
<1>4. \/ /\ Ready' = Ready \cup {t} /\ delay' = delay
      \/ /\ pipe[w].cmd.op = "ZADD" /\ Ready' = Ready
         /\ delay' = [delay EXCEPT ![t] = pipe[w].cmd.score]
  BY <1>2, PushToFacts
<1>5. \A u \in Tasks : u # t => delay'[u] = delay[u]
  BY <1>3, <1>4
<1>6. (Ready \cup Delayed)' = Ready \cup Delayed \cup {t}
  BY <1>3, <1>4 DEF Delayed
<1>7. \A v \in Workers :
        \/ pipe'[v] = pipe[v] \/ pipe'[v] = Idle
        \/ pipe'[v].step = "hmset" /\ pipe[v] # Idle /\ pipe'[v].cmd = pipe[v].cmd
           /\ pipe'[v].task = pipe[v].task /\ pipe'[v].since = pipe[v].since
  <2>1. CASE Push(w)
    BY <2>1 DEF Push, EndPipe, TypeOK
  <2>2. CASE PushAgain(w)
    <3>1. pipe' = [pipe EXCEPT ![w].step = "hmset"] /\ pipe[w] \in Pipelines
      BY <1>2, <2>2, PipeFacts DEF PushAgain
    <3>2. \A v \in Workers : v # w => pipe'[v] = pipe[v]
      BY <3>1 DEF TypeOK
    <3>3. pipe'[w] = [pipe[w] EXCEPT !.step = "hmset"]
      BY <3>1 DEF TypeOK
    <3> QED BY <1>2, <3>1, <3>2, <3>3 DEF Pipelines
  <2> QED BY <2>1, <2>2
<1>8. \A c \in Consumers :
        \/ pc'[c] = pc[c] /\ hand'[c] = hand[c]
        \/ c = w /\ pc[c] = "publish" /\ pc'[c] = "consume" /\ hand[c] = t
  <2>1. CASE Push(w)
    BY <1>1, <1>2, <2>1 DEF Push, EndPipe, TypeOK, LoopInv, loops
  <2>2. CASE PushAgain(w)
    BY <2>2 DEF PushAgain, loops
  <2> QED BY <2>1, <2>2
<1>9. \A u \in Tasks : Final(u) => Final(u)'
  <2>1. ASSUME NEW u \in Tasks, Final(u) PROVE Final(u)'
    <3>1. published'[u] >= published[u]
      BY <1>2 DEF TypeOK
    <3>2. \A c \in Held(u) : c \in Consumers
      BY DEF Held
    <3> QED BY <1>2, <1>8, <2>1, <3>1, <3>2, FinalStays
  <2> QED BY <2>1
<1>10. NothingLost'
  <2>1. \A u \in Tasks \ {t} : Publishing(u) \subseteq Publishing(u)' /\ Held(u) \subseteq Held(u)'
    <3>1. CASE Push(w)
      <4>1. \A u \in Tasks \ {t} : w \notin Publishing(u) /\ w \notin Held(u)
        BY <1>1, <1>2 DEF Publishing, Held, LoopInv
      <4>2. \A u \in Tasks \ {t} :
              Publishing(u)' = Publishing(u) \ {w} /\ Held(u)' = Held(u) \ {w}
        BY <3>1, EndPipeFacts DEF Push
      <4> QED BY <4>1, <4>2
    <3>2. CASE PushAgain(w)
      <4>1. \A v \in Workers : pipe[v] # Idle => pipe'[v] # Idle /\ pipe'[v].task = pipe[v].task
        BY <3>2, <1>2, PipeFacts DEF PushAgain, TypeOK, Pipelines, Idle
      <4>2. hand' = hand
        BY <3>2 DEF PushAgain, loops
      <4> QED BY <4>1, <4>2 DEF Publishing, Held
    <3> QED BY <3>1, <3>2
  <2> QED BY <1>2, <1>6, <2>1 DEF LostInv, NothingLost
<1>11. KeptInv'
  <2>1. Kept(t)
    <3>1. w \in Publishing(t)
      BY <1>1, <1>2 DEF Publishing
    <3> QED BY <1>2, <3>1 DEF LostInv, KeptInv, Leads
  <2>2. \A u \in Tasks : Kept(u) => Kept(u)'
    BY <1>2, <1>9 DEF Kept
  <2>3. \A u \in Tasks : Leads(u)' => Leads(u) \/ u = t
    <3>1. ASSUME NEW u \in Tasks, NEW v \in Publishing(u)', pipe'[v].step = "push"
          PROVE  Leads(u)
      BY <1>7, <3>1 DEF Leads, Publishing
    <3>2. ASSUME NEW u \in Tasks, NEW c \in Held(u)', pc'[c] = "payloads" PROVE Leads(u)
      BY <1>8, <3>2 DEF Leads, Held
    <3>3. Moving' = Moving
      BY <1>2 DEF Moving
    <3> QED BY <1>6, <3>1, <3>2, <3>3 DEF Leads
  <2>4. \A u \in expiring' : Final(u)'
    BY <1>2, <1>9 DEF LostInv, KeptInv, TypeOK
  <2> QED BY <2>1, <2>2, <2>3, <2>4 DEF LostInv, KeptInv
<1>12. BeyondInv'
  <2>1. ASSUME NEW c \in Consumers PROVE Removes(c)' \subseteq Removes(c)
    <3>1. delay'[t] = delay[t] \/ ~(delay'[t] <= Seconds(mover[c].max))
      <4>1. CASE pipe[w].cmd.op = "ZADD" /\ delay'[t] = pipe[w].cmd.score
        <5>1. mover[c].max \in Nat /\ pipe[w].since + Latency \in Nat /\ now \in Nat
              /\ pipe[w].cmd.score \in Nat
          <6>1. mover[c].max \in Nat /\ now \in Nat
            BY DEF TypeOK
          <6>2. pipe[w].since + Latency \in Nat
            BY <1>2, ClockAssumption
          <6>3. pipe[w].cmd.score \in Nat
            BY <1>2 DEF Commands
          <6> QED BY <6>1, <6>2, <6>3
        <5>2. mover[c].max <= now /\ now <= pipe[w].since + Latency
              /\ Seconds(pipe[w].since + Latency) < pipe[w].cmd.score
          BY <1>2, <4>1 DEF LostInv, BeyondInv
        <5>3. mover[c].max <= pipe[w].since + Latency
          BY <5>1, <5>2
        <5>4. Seconds(mover[c].max) <= Seconds(pipe[w].since + Latency)
              /\ Seconds(mover[c].max) \in Nat /\ Seconds(pipe[w].since + Latency) \in Nat
          BY <5>1, <5>3, SecondsMonotone, SecondsType
        <5> QED BY <4>1, <5>1, <5>2, <5>4
      <4> QED BY <1>3, <1>4, <4>1
    <3> QED BY <1>2, <1>5, <3>1 DEF Removes, Due
  <2>2. \A c \in Consumers : Removes(c) \subseteq Tasks
    BY DEF Removes, Due
  <2>3. \A v \in Workers : pipe'[v] # Idle =>
          /\ now' <= pipe'[v].since + Latency
          /\ pipe'[v].cmd.op = "ZADD" => Seconds(pipe'[v].since + Latency) < pipe'[v].cmd.score
    BY <1>2, <1>7 DEF LostInv, BeyondInv
  <2> QED BY <1>2, <1>9, <2>1, <2>2, <2>3 DEF LostInv, BeyondInv
<1> QED BY <1>10, <1>11, <1>12 DEF LostInv

LEMMA LostPipe ==
  ASSUME NoLossSettings, TypeOK, TypeOK', LoopInv, LostInv, NEW w \in Workers, PipeStep(w)
  PROVE  LostInv'
<1> USE DEF redis, movers, loops, history
<1>1. CASE HMSet(w)
  <2>1. \A v \in Workers : /\ pipe'[v] # Idle <=> pipe[v] # Idle
                           /\ pipe[v] # Idle =>
                                /\ pipe'[v].task = pipe[v].task
                                /\ pipe'[v].cmd = pipe[v].cmd /\ pipe'[v].since = pipe[v].since
                                /\ pipe'[v] = pipe[v] \/ pipe[v].task \in stored'
    BY <1>1, PipeFacts DEF HMSet, TypeOK, Pipelines, Idle
  <2>2. \A t \in Tasks : Publishing(t)' = Publishing(t)
    BY <2>1 DEF Publishing
  <2>3. UNCHANGED <<now, expiring, list, delay, mover, pc, hand, published, done>>
        /\ stored \subseteq stored' /\ now <= now
    BY <1>1 DEF HMSet, TypeOK
  <2>4. NothingLost'
    BY <2>2, <2>3 DEF LostInv, NothingLost, Ready, Delayed, Held
  <2>5. \A v \in Workers : pipe'[v] # Idle => now' <= pipe[v].since + Latency
    BY <2>1, <2>3 DEF LostInv, BeyondInv
  <2>6. \A t \in Tasks : Final(t)' <=> Final(t)
    BY <2>3 DEF Final, Held
  <2>7. \A t \in Tasks : Leads(t)' => Leads(t) \/ t \in stored'
    <3>1. ASSUME NEW t \in Tasks, NEW v \in Publishing(t)', pipe'[v].step = "push"
          PROVE  Leads(t) \/ t \in stored'
      <4>1. v \in Publishing(t) /\ v \in Workers /\ pipe[v] # Idle /\ pipe[v].task = t
        BY <2>2, <3>1 DEF Publishing
      <4> QED BY <2>1, <3>1, <4>1 DEF Leads
    <3> QED BY <2>3, <3>1 DEF Leads, Ready, Delayed, Moving, Held
  <2> QED BY <2>1, <2>3, <2>4, <2>5, <2>6, <2>7, LostFrame
<1> QED BY <1>1, LostPush DEF PipeStep, PipeError, NoLossSettings

LEMMA LostConsumer ==
  ASSUME NoLossSettings, TypeOK, TypeOK', LoopInv, LostInv, NEW c \in Consumers, ConsumerStep(c)
  PROVE  LostInv'
<1> USE DEF redis, movers, loops, history
<1>1. now \in Nat /\ now <= now
  BY DEF TypeOK
<1>2. \A w \in Workers : pipe[w] # Idle => now <= pipe[w].since + Latency
  BY DEF LostInv, BeyondInv
<1>3. ASSUME StartMover(c)
      PROVE  /\ \A d \in Consumers :
                  \/ mover'[d] = mover[d]
                  \/ mover'[d].step \notin {"payloads", "commit"} /\ mover'[d].max \in 0..now
             /\ Moving' \subseteq Moving
  <2>1. \A d \in Consumers : mover'[d] = mover[d] \/ mover'[d] = Waiting
    BY <1>3 DEF StartMover, TypeOK
  <2>2. Waiting.step = "wait" /\ Waiting.max = 0 /\ Waiting.ids = {}
    BY DEF Waiting
  <2> QED BY <1>1, <2>1, <2>2 DEF Moving
<1>4. CASE BRPop(c)
  <2>1. PICK t \in Tasks : t = PopEnd
    BY <1>4, PopFacts DEF BRPop, PopEnd, TypeOK
  <2>2. t \in Ready /\ Ready' \subseteq Ready /\ \A u \in Ready : u # t => u \in Ready'
    BY <1>4, <2>1, PopFacts, PopKeeps DEF BRPop, PopEnd, PopRest, Ready, TypeOK
  <2>3. /\ pc[c] = "consume" /\ hand[c] = NoTask
        /\ \A d \in Consumers : /\ hand'[d] = IF d = c THEN t ELSE hand[d]
                                /\ pc'[d] = IF d = c THEN "payloads" ELSE pc[d]
    BY <1>4, <2>1 DEF BRPop, TypeOK, LoopInv
  <2>4. \A u \in Tasks : Held(u) \subseteq Held(u)' /\ (u = t => c \in Held(u)')
    BY <2>3, TasksAssumption DEF Held
  <2>5. UNCHANGED <<now, stored, expiring, delay, pipe, published, done>>
    BY <1>4 DEF BRPop
  <2>6. NothingLost'
    BY <2>2, <2>4, <2>5 DEF LostInv, NothingLost, Delayed, Publishing
  <2>7. \A u \in Tasks : Final(u) => Final(u)'
    BY <2>3, <2>4, <2>5, TasksAssumption DEF Final, Held
  <2>8. \A u \in Tasks : Leads(u)' => Leads(u)
    <3>1. Moving' \subseteq Moving
      BY <1>3, <1>4 DEF BRPop
    <3>2. ASSUME NEW u \in Tasks, NEW d \in Held(u)', pc'[d] = "payloads" PROVE Leads(u)
      BY <2>2, <2>3, <3>2 DEF Leads, Held
    <3> QED BY <2>2, <2>5, <3>1, <3>2 DEF Leads, Delayed, Publishing
  <2>9. StartMover(c)
    BY <1>4 DEF BRPop
  <2> QED BY <1>1, <1>2, <1>3, <2>5, <2>6, <2>7, <2>8, <2>9, LostFrame
<1>5. CASE BRPopNil(c)
  <2>1. UNCHANGED <<now, stored, expiring, list, delay, pipe, pc, hand, published, done>>
        /\ StartMover(c)
    BY <1>5 DEF BRPopNil
  <2>2. NothingLost'
    BY <2>1 DEF LostInv, NothingLost, Ready, Delayed, Held, Publishing
  <2>3. \A u \in Tasks : (Final(u)' <=> Final(u)) /\ (Leads(u)' => Leads(u))
    BY <1>3, <2>1 DEF Final, Leads, Ready, Delayed, Held, Publishing
  <2> QED BY <1>1, <1>2, <1>3, <2>1, <2>2, <2>3, LostFrame
<1>6. CASE Payloads(c)
  <2>1. UNCHANGED <<now, stored, expiring, list, delay, pipe, mover, published, done>>
        /\ pc[c] = "payloads"
        /\ pc' = [pc EXCEPT ![c] = IF hand[c] \in stored THEN "start" ELSE "consume"]
        /\ hand' = [hand EXCEPT ![c] = IF hand[c] \in stored THEN hand[c] ELSE NoTask]
    BY <1>6 DEF Payloads, Release, TypeOK
  <2>2. \A d \in Consumers : \/ d # c /\ pc'[d] = pc[d] /\ hand'[d] = hand[d]
                             \/ d = c /\ pc'[d] # "payloads" /\ hand'[d] \in {hand[d], NoTask}
    BY <2>1 DEF TypeOK
  <2>3. \A u \in Tasks : Final(u) => Final(u)'
    <3>1. ASSUME NEW u \in Tasks, Final(u) PROVE Final(u)'
      <4>1. published'[u] >= published[u]
        BY <2>1 DEF TypeOK
      <4> QED BY <2>1, <2>2, <3>1, <4>1, FinalStays DEF Held
    <3> QED BY <3>1
  <2>4. \A u \in Tasks : Leads(u)' => Leads(u)
    BY <2>1, <2>2 DEF Leads, Ready, Delayed, Moving, Held, Publishing
  <2>5. NothingLost'
    <3>1. CASE hand[c] \in stored
      <4>1. hand' = hand
        BY <2>1, <3>1 DEF TypeOK
      <4> QED BY <2>1, <4>1 DEF LostInv, NothingLost, Ready, Delayed, Held, Publishing
    <3>2. CASE hand[c] \notin stored
      <4>1. hand[c] \in Tasks
        BY <2>1 DEF LoopInv, TypeOK
      <4>2. \A u \in Tasks : u # hand[c] => Held(u)' = Held(u)
        BY <2>2, TasksAssumption DEF Held
      <4>3. PICK t \in Tasks : t = hand[c]
        BY <4>1
      <4>4. t \in done' \/ Held(t)' # {}
        <5>1. Kept(t)
          BY <2>1, <4>3 DEF LostInv, KeptInv, Leads, Held
        <5>2. Final(t)'
          BY <2>3, <3>2, <4>3, <5>1 DEF Kept
        <5> QED BY <5>2 DEF Final
      <4> QED BY <2>1, <4>2, <4>3, <4>4 DEF LostInv, NothingLost, Ready, Delayed, Publishing
    <3> QED BY <3>1, <3>2
  <2> QED BY <1>1, <1>2, <2>1, <2>3, <2>4, <2>5, LostFrame
<1>7. CASE Start(c)
  <2>1. PICK t \in Tasks : t = hand[c]
    BY <1>7 DEF Start, LoopInv, TypeOK
  <2>2. /\ stored \subseteq stored' /\ expiring' \subseteq expiring \cup {t}
        /\ t \in expiring' \ expiring => FinishedAtStart(t)
        /\ UNCHANGED <<now, list, delay, pipe, mover, hand, published, done>>
    BY <1>7, <2>1 DEF Start, WithTTL
  <2>3. pc[c] = "start" /\ \A d \in Consumers : pc'[d] = IF d = c THEN "handle" ELSE pc[d]
    BY <1>7 DEF Start, TypeOK
  <2>4. \A u \in Tasks : Final(u) => Final(u)'
    BY <2>2, <2>3 DEF Final, Held
  <2>5. \A u \in expiring' : u \in expiring \/ Final(u)'
    <3>1. ASSUME FinishedAtStart(t) PROVE Final(t)'
      <4>1. published[t] > MaxRetries
        BY <3>1, ClockAssumption DEF FinishedAtStart, TypeOK
      <4> QED BY <2>1, <2>2, <2>3, <4>1 DEF Final, Held
    <3> QED BY <2>2, <3>1
  <2>6. NothingLost'
    BY <2>2 DEF LostInv, NothingLost, Ready, Delayed, Held, Publishing
  <2>7. \A u \in Tasks : Leads(u)' => Leads(u)
    BY <2>2, <2>3 DEF Leads, Ready, Delayed, Moving, Held, Publishing
  <2> QED BY <1>1, <1>2, <2>2, <2>4, <2>5, <2>6, <2>7, LostFrame
<1>8. CASE Finish(c)
  <2>1. PICK t \in Tasks : t = hand[c]
    BY <1>8 DEF Finish, LoopInv, TypeOK
  <2>2. /\ stored \subseteq stored' /\ expiring' \subseteq expiring \cup {t}
        /\ UNCHANGED <<now, list, delay, pipe, mover, published>>
        /\ done' = done \cup {t} /\ Release(c)
    BY <1>8, <2>1 DEF Finish, WithTTL
  <2>3. \A d \in Consumers : \/ d # c /\ pc'[d] = pc[d] /\ hand'[d] = hand[d]
                             \/ d = c /\ pc'[d] = "consume" /\ hand[d] = t
    BY <2>1, <2>2 DEF Release, TypeOK
  <2>4. \A u \in Tasks : Final(u) => Final(u)'
    <3>1. ASSUME NEW u \in Tasks, Final(u) PROVE Final(u)'
      <4>1. published'[u] >= published[u]
        BY <2>2 DEF TypeOK
      <4> QED BY <2>2, <2>3, <3>1, <4>1, FinalStays DEF Held
    <3> QED BY <3>1
  <2>5. Final(t)'
    BY <2>2 DEF Final
  <2>6. \A u \in Tasks : u # t => Held(u) \subseteq Held(u)'
    BY <2>3 DEF Held
  <2>7. NothingLost'
    BY <2>2, <2>6 DEF LostInv, NothingLost, Ready, Delayed, Publishing
  <2>8. \A u \in Tasks : Leads(u)' => Leads(u)
    BY <2>2, <2>3 DEF Leads, Ready, Delayed, Moving, Held, Publishing
  <2> QED BY <1>1, <1>2, <2>2, <2>4, <2>5, <2>7, <2>8, LostFrame
<1>9. ASSUME NEW cd \in Countdowns, Retry(c, cd) PROVE LostInv'
  <2>1. PICK t \in Tasks : t = hand[c]
    BY <1>9 DEF Retry, LoopInv, TypeOK
  <2>2. Build(c, t, cd) /\ c \in Workers /\ published[t] <= MaxRetries
        /\ UNCHANGED <<now, stored, expiring, list, delay, mover, hand, done>>
    BY <1>9, <2>1 DEF Retry
  <2>3. \A d \in Consumers : /\ pc'[d] = "payloads" => pc[d] = "payloads"
                             /\ pc[d] = "handle" /\ published[hand[d]] > MaxRetries =>
                                  pc'[d] = "handle"
    <3>1. \A d \in Consumers : pc'[d] = IF d = c THEN "publish" ELSE pc[d]
      BY <1>9 DEF Retry, TypeOK
    <3>2. ~(published[t] > MaxRetries)
      BY <2>2, ClockAssumption DEF TypeOK
    <3> QED BY <2>1, <3>1, <3>2
  <2> QED BY <2>2, <2>3, LostBuild
<1> QED BY <1>4, <1>5, <1>6, <1>7, <1>8, <1>9
    DEF ConsumerStep, BRPopError, ConsumeError, NoLossSettings

LEMMA LostMover ==
  ASSUME NoLossSettings, TypeOK, TypeOK', LostInv, NEW c \in Consumers, MoverStep(c)
  PROVE  LostInv'
<1> USE DEF redis, loops, history
<1>1. UNCHANGED <<now, expiring, pipe, pc, hand, published, done>> /\ now \in Nat
  BY DEF MoverStep, MoverTick, MoverRange, MoverPayloads, MoverCommit, MoverCommitAgain,
         MoverError, TypeOK
<1>2. \A u \in Tasks : Final(u)' <=> Final(u)
  BY <1>1 DEF Final, Held
<1>3. \A d \in Consumers : mover[d].ids \subseteq Tasks /\ Removes(d) \subseteq Tasks
  BY DEF TypeOK, Removes, Due
<1>4. ASSUME NEW step, NEW max \in 0..now, NEW ids \in SUBSET (mover[c].ids \cup Delayed),
             SetMover(c, step, max, ids), UNCHANGED <<stored, list, delay>>,
             step \in {"payloads", "commit"} => \A t \in Due(max) : t \in ids \/ Final(t)
      PROVE  LostInv'
  <2>1. /\ mover'[c].step = step /\ mover'[c].max = max /\ mover'[c].ids = ids
        /\ \A d \in Consumers : d # c => mover'[d] = mover[d]
    BY <1>4, SetMoverFact
  <2>2. NothingLost'
    BY <1>1, <1>4 DEF LostInv, NothingLost, Ready, Delayed, Held, Publishing
  <2>3. \A u \in Tasks : Leads(u)' => Leads(u)
    <3>1. Moving' \subseteq Moving \cup Delayed
      BY <2>1 DEF Moving
    <3> QED BY <1>1, <1>4, <3>1 DEF Leads, Ready, Delayed, Held, Publishing
  <2>4. KeptInv'
    BY <1>1, <1>2, <1>4, <2>3 DEF LostInv, KeptInv, Kept, TypeOK
  <2>5. ASSUME NEW d \in Consumers
        PROVE  /\ mover'[d].max <= now'
               /\ mover'[d].step \in {"payloads", "commit"} =>
                    \A t \in Removes(d)' : t \in mover'[d].ids \/ Final(t)'
    <3>1. CASE d = c
      <4>1. Removes(d)' = Due(max) /\ Due(max) \subseteq Tasks
        BY <1>4, <2>1, <3>1 DEF Removes, Due
      <4> QED BY <1>1, <1>2, <1>4, <2>1, <3>1, <4>1
    <3>2. CASE d # c
      <4>1. Removes(d)' = Removes(d) /\ mover'[d] = mover[d]
        BY <1>4, <2>1, <3>2 DEF Removes, Due
      <4> QED BY <1>1, <1>2, <1>3, <4>1 DEF LostInv, BeyondInv
    <3> QED BY <3>1, <3>2
  <2>6. BeyondInv'
    BY <1>1, <2>5 DEF LostInv, BeyondInv
  <2> QED BY <2>2, <2>4, <2>6 DEF LostInv
<1>5. mover[c].max \in 0..now /\ 0 \in 0..now /\ now \in 0..now
  BY <1>1 DEF LostInv, BeyondInv, TypeOK
<1>6. CASE MoverTick(c)
  BY <1>4, <1>5, <1>6 DEF MoverTick
<1>7. CASE MoverRange(c)
  <2>1. Due(mover[c].max) \subseteq Delayed
    BY DEF Due, Delayed
  <2>2. \/ SetMover(c, "wait", 0, {})
        \/ SetMover(c, "payloads", mover[c].max, Due(mover[c].max))
    BY <1>7 DEF MoverRange
  <2> QED BY <1>4, <1>5, <1>7, <2>1, <2>2 DEF MoverRange
<1>8. CASE MoverPayloads(c)
  <2>1. \A t \in Due(mover[c].max) : t \in mover[c].ids \/ Final(t)
    BY <1>8 DEF MoverPayloads, LostInv, BeyondInv, Removes
  <2>2. \A t \in mover[c].ids : t \in stored \/ Final(t)
    BY <1>3 DEF LostInv, KeptInv, Kept, Leads, Moving
  <2>3. \A t \in Due(mover[c].max) : t \in mover[c].ids \cap stored \/ Final(t)
    BY <2>1, <2>2
  <2>4. \/ SetMover(c, "wait", 0, {})
        \/ SetMover(c, "commit", mover[c].max, mover[c].ids \cap stored)
    BY <1>8 DEF MoverPayloads
  <2> QED BY <1>4, <1>5, <1>8, <2>3, <2>4 DEF MoverPayloads
<1>9. CASE MoverCommit(c) \/ MoverCommitAgain(c)
  <2>1. MoverTx(c) /\ mover[c].step = "commit" /\ stored' = stored \cup mover[c].ids
    BY <1>9 DEF MoverCommit, MoverCommitAgain, MoverTx
  <2>2. Ready' = Ready \cup mover[c].ids
    BY <2>1, MoverTxFacts
  <2>3. \A t \in Tasks : \/ delay'[t] = delay[t]
                         \/ delay'[t] = NotDelayed /\ t \in Removes(c)
    BY <2>1 DEF MoverTx, RemoveRange, Removes
  <2>4. \A d \in Consumers : mover'[d] = mover[d] \/ mover'[d] = Waiting
    BY <1>9 DEF MoverCommit, MoverCommitAgain, SetMover, TypeOK, Waiting, movers
  <2>5. Waiting.step = "wait" /\ Waiting.max = 0 /\ Waiting.ids = {}
    BY DEF Waiting
  <2>6. \A t \in Delayed \ Delayed' : t \in Ready' \/ Final(t)
    <3>1. \A t \in Removes(c) : t \in mover[c].ids \/ Final(t)
      BY <2>1 DEF LostInv, BeyondInv
    <3> QED BY <2>2, <2>3, <3>1 DEF Delayed
  <2>7. NothingLost'
    BY <1>1, <2>2, <2>6 DEF LostInv, NothingLost, Final, Held, Publishing, Delayed
  <2>8. \A t \in Tasks : Leads(t)' => Leads(t) \/ t \in stored'
    <3>1. Moving' \subseteq Moving /\ Delayed' \subseteq Delayed
      BY <2>3, <2>4, <2>5 DEF Moving, Delayed
    <3> QED BY <1>1, <2>1, <2>2, <3>1 DEF Leads, Held, Publishing
  <2>9. KeptInv'
    BY <1>1, <1>2, <2>1, <2>8 DEF LostInv, KeptInv, Kept, TypeOK
  <2>10. ASSUME NEW d \in Consumers
         PROVE  /\ mover'[d].max <= now'
                /\ mover'[d].step \in {"payloads", "commit"} =>
                     \A t \in Removes(d)' : t \in mover'[d].ids \/ Final(t)'
    <3>1. CASE mover'[d] = Waiting
      BY <1>1, <2>5, <3>1
    <3>2. CASE mover'[d] = mover[d]
      <4>1. Removes(d)' \subseteq Removes(d)
        BY <2>3, <3>2 DEF Removes, Due
      <4> QED BY <1>1, <1>2, <1>3, <3>2, <4>1 DEF LostInv, BeyondInv
    <3> QED BY <2>4, <3>1, <3>2
  <2>11. BeyondInv'
    BY <1>1, <2>10 DEF LostInv, BeyondInv
  <2> QED BY <2>7, <2>9, <2>11 DEF LostInv
<1> QED BY <1>6, <1>7, <1>8, <1>9 DEF MoverStep, MoverError, NoLossSettings

LEMMA LostInit == Init => LostInv
BY DEF Init, LostInv, NothingLost, KeptInv, BeyondInv, Leads, Ready, Delayed, Moving, Held,
       Publishing, ToSet, NoMover

LEMMA LostStep ==
  ASSUME NoLossSettings, TypeOK, TypeOK', LoopInv, LostInv, [Next]_vars
  PROVE  LostInv'
<1>1. CASE UNCHANGED vars
  <2> USE <1>1 DEF vars, redis, movers, loops, history
  <2>1. NothingLost'
    BY DEF LostInv, NothingLost, Ready, Delayed, Held, Publishing
  <2>2. \A t \in Tasks : (Final(t)' <=> Final(t)) /\ (Leads(t)' <=> Leads(t))
    BY DEF Final, Leads, Ready, Delayed, Moving, Held, Publishing
  <2>3. now <= now /\ \A w \in Workers : pipe[w] # Idle => now <= pipe[w].since + Latency
    BY DEF LostInv, BeyondInv, TypeOK
  <2> QED BY <2>1, <2>2, <2>3, LostFrame
<1>2. ASSUME NEW p \in Producers, NEW t \in Tasks, NEW cd \in Countdowns, Publish(p, t, cd)
      PROVE  LostInv'
  <2>1. Build(p, t, cd) /\ p \in Workers
        /\ UNCHANGED <<now, stored, expiring, list, delay, mover, pc, hand, done>>
    BY <1>2 DEF Publish, redis, movers, loops
  <2> QED BY <2>1, LostBuild
<1> QED BY <1>1, <1>2, LostEnvironment, LostPipe, LostConsumer, LostMover DEF Next

\* As long as no command fails for good and nobody interferes, a published task
\* is never lost: until it is handled for good it is in the list, in the zset,
\* with a consumer or in a pipeline (README.md:443).  That holds for any number
\* of worker processes and however often pipelines and transactions are sent
\* again.
THEOREM NothingLostCorrect == ASSUME NoLossSettings PROVE Spec => []NothingLost
<1>1. Init => TypeOK /\ LoopInv /\ LostInv
  BY InitTypeOK, InitLoopInv, LostInit
<1>2. TypeOK /\ LoopInv /\ LostInv /\ [Next]_vars => (TypeOK /\ LoopInv /\ LostInv)'
  BY TypeLoopStep, LostStep
<1>3. LostInv => NothingLost
  BY DEF LostInv
<1> QED BY <1>1, <1>2, <1>3, PTL DEF Spec

-----------------------------------------------------------------------------
(* The broker implements TaskQueue.                                        *)

\* No consumer has the name of one of the other places.
PlacesDistinct == Consumers \cap {"created", "queued", "done", "lost"} = {}

Places == [t \in Tasks |-> Place(t)]
InQueue == Ready \cup Delayed \cup Moving

\* The settings and facts every step below starts from.
Before == PlacesDistinct /\ ExactSettings /\ TypeOK /\ CopyInv

-----------------------------------------------------------------------------
(* The place of a task.                                                    *)

LEMMA PlaceCases ==
  ASSUME NEW t \in Tasks, t \notin done
  PROVE  /\ Held(t) # {} => Place(t) \in Held(t)
         /\ Held(t) = {} /\ t \in InQueue => Place(t) = "queued"
         /\ Held(t) = {} /\ t \notin InQueue /\ (published[t] = 0 \/ Publishing(t) # {})
              => Place(t) = "created"
         /\ Held(t) = {} /\ t \notin InQueue /\ published[t] # 0 /\ Publishing(t) = {}
              => Place(t) = "lost"
BY DEF Place, InQueue

LEMMA PlaceCasesNext ==
  ASSUME NEW t \in Tasks, t \notin done'
  PROVE  /\ Held(t)' # {} => Place(t)' \in Held(t)'
         /\ Held(t)' = {} /\ t \in InQueue' => Place(t)' = "queued"
         /\ Held(t)' = {} /\ t \notin InQueue' /\ (published'[t] = 0 \/ Publishing(t)' # {})
              => Place(t)' = "created"
         /\ Held(t)' = {} /\ t \notin InQueue' /\ published'[t] # 0 /\ Publishing(t)' = {}
              => Place(t)' = "lost"
BY DEF Place, InQueue

LEMMA DonePlace ==
  ASSUME NEW t \in Tasks
  PROVE  (t \in done => Place(t) = "done") /\ (t \in done' => Place(t)' = "done")
BY DEF Place

LEMMA NotDonePlace ==
  ASSUME PlacesDistinct, NEW t \in Tasks, t \notin done PROVE Place(t) # "done"
BY PlaceCases DEF PlacesDistinct, Held

\* A task about which nothing changes stays where it is.
LEMMA PlaceStays ==
  ASSUME NEW t \in Tasks, t \in done' <=> t \in done, Held(t)' = Held(t),
         Held(t) # {} \/ ((t \in InQueue' <=> t \in InQueue)
           /\ (published'[t] = 0 \/ Publishing(t)' # {} <=> published[t] = 0 \/ Publishing(t) # {}))
  PROVE  Place(t)' = Place(t)
BY DEF Place, InQueue

LEMMA MoveFact ==
  ASSUME NEW t \in Tasks, NEW to, Place(t)' = to, \A u \in Tasks : u # t => Place(u)' = Place(u)
  PROVE  AtMostOnce!Move(t, Place(t), to)
BY DEF AtMostOnce!Move

LEMMA SamePlaces ==
  ASSUME \A t \in Tasks : Place(t)' = Place(t) PROVE Places' = Places
BY DEF Places

\* Several tasks are dropped, none of them done.
LEMMA DropFact ==
  ASSUME PlacesDistinct,
         \A t \in Tasks : Place(t)' = Place(t) \/ (t \notin done /\ Place(t)' = "lost")
  PROVE  AtMostOnce!QNext
<1> DEFINE S == {t \in Tasks : Place(t)' # Place(t)}
<1>1. S \in SUBSET {t \in Tasks : Place(t) # "done"}
  BY NotDonePlace
<1>2. Places' = [t \in Tasks |-> IF t \in S THEN "lost" ELSE Places[t]]
  BY DEF Places
<1> HIDE DEF S
<1>3. AtMostOnce!Drop
  BY <1>1, <1>2 DEF AtMostOnce!Drop, AtMostOnce!Lost, AtMostOnce!Done, Places
<1> QED BY <1>3 DEF AtMostOnce!QNext

-----------------------------------------------------------------------------
(* Steps that bring no task to a new place.                                *)

Recede ==
  /\ InQueue' \subseteq InQueue /\ published' = published /\ done' = done
  /\ \A t \in Tasks : Held(t)' \subseteq Held(t) /\ Publishing(t)' \subseteq Publishing(t)

LEMMA RecedeDrops ==
  ASSUME Before, LoopInv', TypeOK', Recede PROVE AtMostOnce!QNext
<1>1. SUFFICES ASSUME NEW t \in Tasks, t \notin done, Place(t)' # Place(t)
               PROVE  Place(t)' = "lost"
  BY DropFact, DonePlace DEF Before, Recede
<1>2. /\ \A v, w \in Held(t) \cup Publishing(t) : v = w
      /\ t \in InQueue => Held(t) \cup Publishing(t) = {}
      /\ published[t] = 0 => t \notin InQueue /\ Held(t) = {} /\ Publishing(t) = {}
  BY DEF Before, CopyInv, SingleCopy, FreshInv, InQueue
<1>3. CASE Held(t) # {}
  <2>1. PICK c \in Consumers : Held(t) = {c} /\ Publishing(t) \subseteq {c}
    BY <1>2, <1>3 DEF Held
  <2>2. Held(t)' # Held(t)
    BY <1>1, <2>1, PlaceStays DEF Recede
  <2>3. Held(t)' = {}
    BY <2>1, <2>2 DEF Recede
  <2>4. c \notin Publishing(t)'
    BY <2>3 DEF Publishing, Held, LoopInv
  <2>5. Publishing(t)' = {} /\ t \notin InQueue' /\ published'[t] # 0 /\ t \notin done'
    BY <1>1, <1>2, <1>3, <2>1, <2>4 DEF Recede
  <2> QED BY <2>3, <2>5, PlaceCasesNext
<1>4. CASE Held(t) = {} /\ t \in InQueue
  <2>1. Held(t)' = {} /\ Publishing(t)' = {} /\ published'[t] # 0 /\ t \notin done'
    BY <1>1, <1>2, <1>4 DEF Recede
  <2>2. CASE t \in InQueue'
    BY <1>1, <1>4, <2>1, <2>2, PlaceCases, PlaceCasesNext
  <2>3. CASE t \notin InQueue'
    BY <2>1, <2>3, PlaceCasesNext
  <2> QED BY <2>2, <2>3
<1>5. CASE Held(t) = {} /\ t \notin InQueue
  <2>1. Held(t)' = {} /\ t \notin InQueue' /\ published'[t] = published[t] /\ t \notin done'
    BY <1>1, <1>5 DEF Recede
  <2>2. CASE published[t] = 0
    BY <1>1, <1>5, <2>1, <2>2, PlaceCases, PlaceCasesNext
  <2>3. CASE published[t] # 0 /\ Publishing(t)' # {}
    <3>1. Publishing(t) # {}
      BY <2>3 DEF Recede
    <3> QED BY <1>1, <1>5, <2>1, <2>3, <3>1, PlaceCases, PlaceCasesNext
  <2>4. CASE published[t] # 0 /\ Publishing(t)' = {}
    BY <2>1, <2>4, PlaceCasesNext
  <2> QED BY <2>2, <2>3, <2>4
<1> QED BY <1>3, <1>4, <1>5

LEMMA ShrinkRecedes == ASSUME Shrink, done' = done PROVE Recede
BY DEF Shrink, Recede, Counting, InQueue

LEMMA RecedingSteps ==
  ASSUME Before,
         \/ Tick \/ Maintenance
         \/ \E p \in Processes : Crash(p)
         \/ \E w \in Workers : HMSet(w) \/ PipeError(w)
         \/ \E c \in Consumers : BRPopNil(c) \/ BRPopError(c) \/ Payloads(c) \/ Start(c)
                                 \/ ConsumeError(c) \/ MoverStep(c)
  PROVE  Recede
<1> USE DEF redis, movers, loops, history
<1>1. ExactSettings /\ TypeOK /\ LoopInv /\ MoverInv /\ RangeInv
  BY DEF Before, CopyInv
<1>2. CASE \/ Tick \/ Maintenance
           \/ \E p \in Processes : Crash(p)
           \/ \E w \in Workers : HMSet(w) \/ PipeError(w)
  <2>1. done' = done
    BY <1>2 DEF Tick, Maintenance, Empty, Flush, Expire, Delete, Crash, HMSet, PipeError
  <2> QED BY <1>1, <1>2, <2>1, ShrinkingSteps, ShrinkRecedes
<1>3. ASSUME NEW c \in Consumers,
             \/ BRPopNil(c) \/ BRPopError(c) \/ Start(c) \/ ConsumeError(c)
             \/ Payloads(c) /\ hand[c] \notin stored
      PROVE  Recede
  <2>1. done' = done
    BY <1>3 DEF BRPopNil, BRPopError, Start, ConsumeError, Payloads
  <2> QED BY <1>1, <1>3, <2>1, ShrinkingConsumerSteps, ShrinkRecedes
<1>4. ASSUME NEW c \in Consumers, Payloads(c), hand[c] \in stored PROVE Recede
  BY <1>4 DEF Payloads, Recede, InQueue, Ready, Delayed, Moving, Held, Publishing
<1>5. ASSUME NEW c \in Consumers, MoverTick(c) \/ MoverPayloads(c) \/ MoverError(c) PROVE Recede
  <2>1. done' = done
    BY <1>5 DEF MoverTick, MoverPayloads, MoverError
  <2> QED BY <1>1, <1>5, <2>1, ShrinkingMoverSteps, ShrinkRecedes
<1>6. ASSUME NEW c \in Consumers, MoverRange(c) PROVE Recede
  <2>1. UNCHANGED <<list, delay, pipe, hand, published, done>>
    BY <1>6 DEF MoverRange
  <2>2. \/ SetMover(c, "wait", 0, {})
        \/ SetMover(c, "payloads", mover[c].max, Due(mover[c].max))
    BY <1>6 DEF MoverRange
  <2>3. Moving' \subseteq Moving \cup Delayed
    BY <1>1, <2>2, SetMoverFact DEF Moving, Due, Delayed
  <2> QED BY <2>1, <2>3 DEF Recede, InQueue, Ready, Delayed, Held, Publishing
<1>7. ASSUME NEW c \in Consumers, MoverCommit(c) PROVE Recede
  <2>1. Ready' = Ready \cup mover[c].ids
    BY <1>1, <1>7, MoverTxFacts DEF MoverCommit
  <2>2. SetMover(c, "wait", 0, {}) /\ UNCHANGED <<pipe, hand, published, done>>
    BY <1>7 DEF MoverCommit
  <2>3. Moving' \subseteq Moving /\ mover[c].ids \subseteq Moving
    BY <1>1, <2>2, SetMoverFact DEF Moving
  <2>4. Delayed' \subseteq Delayed
    BY <1>7 DEF MoverCommit, MoverTx, RemoveRange, Delayed
  <2> QED BY <2>1, <2>2, <2>3, <2>4 DEF Recede, InQueue, Held, Publishing
<1>8. ASSUME NEW c \in Consumers, MoverCommitAgain(c) PROVE Recede
  BY <1>1, <1>8 DEF MoverCommitAgain, MaySendAgain, ExactSettings
<1> QED BY <1>2, <1>3, <1>4, <1>5, <1>6, <1>7, <1>8 DEF MoverStep

-----------------------------------------------------------------------------
(* Steps that move one task.                                               *)

\* A pipeline is built for a task that is new or stays with its consumer.
LEMMA BuildPlace ==
  ASSUME Before, NEW w \in Workers, NEW t \in Tasks, NEW cd \in Countdowns, Build(w, t, cd),
         published[t] = 0 \/ Held(t) # {}, UNCHANGED <<list, delay, mover, hand, done>>
  PROVE  Places' = Places
<1>1. TypeOK /\ FreshInv
  BY DEF Before, CopyInv
<1>2. Held(t)' = Held(t) /\ InQueue' = InQueue
  BY DEF Held, InQueue, Ready, Delayed, Moving
<1>3. Place(t)' = Place(t)
  <2>1. CASE Held(t) # {}
    BY <1>2, <2>1, PlaceStays
  <2>2. CASE published[t] = 0
    BY <1>1, <1>2, <2>2, BuildFacts, PlaceStays
  <2> QED BY <2>1, <2>2
<1>4. ASSUME NEW u \in Tasks \ {t} PROVE Place(u)' = Place(u)
  <2>1. Publishing(u)' = Publishing(u) /\ published'[u] = published[u]
    BY <1>1, BuildFacts
  <2>2. Held(u)' = Held(u)
    BY DEF Held
  <2> QED BY <1>2, <2>1, <2>2, PlaceStays
<1> QED BY <1>3, <1>4, SamePlaces

\* The task of a pipeline is queued: for the first time, or again.
LEMMA PushPlace ==
  ASSUME Before, NEW w \in Workers, Push(w)
  PROVE  AtMostOnce!QNext \/ Places' = Places
<1> USE DEF redis, movers, history
<1>1. TypeOK /\ LoopInv /\ SingleCopy
  BY DEF Before, CopyInv
<1>2. PICK t \in Tasks : t = pipe[w].task
  BY <1>1, PipeFacts DEF Push, Pipelines
<1>3. /\ pipe[w] # Idle /\ PushTo(t, pipe[w].cmd) /\ EndPipe(w) /\ pipe[w].cmd \in Commands
      /\ UNCHANGED <<mover, published, done>>
  BY <1>1, <1>2, PipeFacts DEF Push, Pipelines
<1>4. w \in Publishing(t) /\ t \notin InQueue /\ \A v \in Held(t) \cup Publishing(t) : v = w
  <2>1. w \in Publishing(t)
    BY <1>2, <1>3 DEF Publishing
  <2> QED BY <1>1, <2>1 DEF SingleCopy, InQueue
<1>5. /\ \A u \in Tasks : u # t => (u \in InQueue' <=> u \in InQueue)
      /\ t \in InQueue'
  <2>1. Moving' = Moving /\ delay \in [Tasks -> Nat \cup {NotDelayed}] /\ pipe[w].cmd \in Commands
    BY <1>1, <1>3 DEF Moving, TypeOK
  <2>2. CASE Ready' = Ready \cup {t} /\ delay' = delay
    BY <2>1, <2>2 DEF InQueue, Delayed
  <2>3. CASE Ready' = Ready /\ delay' = [delay EXCEPT ![t] = pipe[w].cmd.score]
    <3>1. pipe[w].cmd.score # NotDelayed
      BY <2>1 DEF Commands, NotDelayed
    <3> QED BY <2>1, <2>3, <3>1 DEF InQueue, Delayed
  <2> QED BY <1>1, <1>3, <2>2, <2>3, PushToFacts
<1>6. \A u \in Tasks : Held(u)' = Held(u) \ {w} /\ Publishing(u)' = Publishing(u) \ {w}
  BY <1>1, <1>3, EndPipeFacts
<1>7. ASSUME NEW u \in Tasks, u # t PROVE Place(u)' = Place(u)
  <2>1. w \notin Held(u) /\ w \notin Publishing(u)
    BY <1>1, <1>2, <1>3, <1>7 DEF Held, Publishing, LoopInv
  <2>2. Held(u)' = Held(u) /\ Publishing(u)' = Publishing(u)
    BY <1>6, <2>1
  <2> QED BY <1>3, <1>5, <1>7, <2>2, PlaceStays
<1>8. CASE t \in done
  BY <1>3, <1>7, <1>8, DonePlace, SamePlaces
<1>9. CASE t \notin done
  <2>1. Place(t)' = "queued"
    <3>1. Held(t)' = {}
      BY <1>4, <1>6
    <3> QED BY <1>3, <1>5, <1>9, <3>1, PlaceCasesNext
  <2>2. CASE w \in Consumers
    <3>1. Held(t) = {w}
      BY <1>1, <1>2, <1>3, <1>4, <2>2 DEF LoopInv, Held
    <3>2. Place(t) = w
      BY <1>9, <3>1, PlaceCases
    <3>3. AtMostOnce!Return(t, w)
      BY <1>7, <2>1, <3>2, MoveFact DEF AtMostOnce!Return, AtMostOnce!Queued
    <3> QED BY <2>2, <3>3 DEF AtMostOnce!QNext
  <2>3. CASE w \notin Consumers
    <3>1. Held(t) = {}
      BY <1>4, <2>3 DEF Held
    <3>2. Place(t) = "created"
      BY <1>4, <1>9, <3>1, PlaceCases
    <3>3. AtMostOnce!QPublish(t)
      BY <1>7, <2>1, <3>2, MoveFact
      DEF AtMostOnce!QPublish, AtMostOnce!Queued, AtMostOnce!Created
    <3> QED BY <3>3 DEF AtMostOnce!QNext
  <2> QED BY <2>2, <2>3
<1> QED BY <1>8, <1>9

\* BRPOP takes a task.
LEMMA BRPopPlace ==
  ASSUME Before, NEW c \in Consumers, BRPop(c)
  PROVE  AtMostOnce!QNext \/ Places' = Places
<1>1. TypeOK /\ LoopInv /\ SingleCopy /\ ExactSettings /\ MoverInv /\ RangeInv
  BY DEF Before, CopyInv
<1>2. PICK t \in Tasks : t = PopEnd
  BY <1>1, PopFacts DEF BRPop, PopEnd, TypeOK
<1>3. t \in Ready /\ \A u \in Tasks : u # t => (u \in Ready' <=> u \in Ready)
  <2>1. /\ t \in Ready /\ Ready' \subseteq Ready
    BY <1>1, <1>2, PopFacts DEF BRPop, PopEnd, PopRest, Ready, TypeOK
  <2>2. \A u \in Ready : u # t => u \in Ready'
    BY <1>1, <1>2, PopKeeps DEF BRPop, PopEnd, PopRest, Ready, TypeOK
  <2> QED BY <2>1, <2>2
<1>4. UNCHANGED <<delay, pipe, published, done>> /\ Moving' = Moving
  BY <1>1, StartMoverInv DEF BRPop, history
<1>5. hand[c] = NoTask /\ \A d \in Consumers : hand'[d] = IF d = c THEN t ELSE hand[d]
  BY <1>1, <1>2 DEF BRPop, TypeOK, LoopInv
<1>6. ASSUME NEW u \in Tasks, u # t PROVE Place(u)' = Place(u)
  <2>1. Held(u)' = Held(u)
    BY <1>5, <1>6, TasksAssumption DEF Held
  <2>2. (u \in InQueue' <=> u \in InQueue) /\ Publishing(u)' = Publishing(u)
    BY <1>3, <1>4, <1>6 DEF InQueue, Delayed, Publishing
  <2> QED BY <1>4, <2>1, <2>2, PlaceStays
<1>7. CASE t \in done
  BY <1>4, <1>6, <1>7, DonePlace, SamePlaces
<1>8. CASE t \notin done
  <2>1. Held(t) = {}
    BY <1>1, <1>3 DEF SingleCopy
  <2>2. Place(t) = "queued"
    BY <1>3, <1>8, <2>1, PlaceCases DEF InQueue
  <2>3. Held(t)' = {c}
    BY <1>5, <2>1 DEF Held
  <2>4. Place(t)' = c
    BY <1>4, <1>8, <2>3, PlaceCasesNext
  <2>5. AtMostOnce!Take(t, c)
    BY <1>6, <2>2, <2>4, MoveFact DEF AtMostOnce!Take, AtMostOnce!Queued
  <2> QED BY <2>5 DEF AtMostOnce!QNext
<1> QED BY <1>7, <1>8

\* A consumer is done with its task for good.
LEMMA FinishPlace ==
  ASSUME Before, NEW c \in Consumers, Finish(c)
  PROVE  AtMostOnce!QNext \/ Places' = Places
<1>1. TypeOK /\ LoopInv /\ SingleCopy
  BY DEF Before, CopyInv
<1>2. PICK t \in Tasks : t = hand[c]
  BY <1>1 DEF Finish, LoopInv, TypeOK
<1>3. UNCHANGED <<list, delay, pipe, mover, published>> /\ done' = done \cup {t} /\ Release(c)
  BY <1>2 DEF Finish, movers
<1>4. Held(t) = {c}
  BY <1>1, <1>2, HeldAlone DEF Finish
<1>5. ASSUME NEW u \in Tasks, u # t PROVE Place(u)' = Place(u)
  <2>1. Held(u)' = Held(u) \ {c} /\ c \notin Held(u)
    BY <1>1, <1>2, <1>3, <1>5, ReleaseFacts DEF Held
  <2>2. InQueue' = InQueue /\ Publishing(u)' = Publishing(u)
    BY <1>3 DEF InQueue, Ready, Delayed, Moving, Publishing
  <2>3. Held(u)' = Held(u)
    BY <2>1
  <2> QED BY <1>3, <1>5, <2>2, <2>3, PlaceStays
<1>6. CASE t \in done
  BY <1>3, <1>5, <1>6, DonePlace, SamePlaces
<1>7. CASE t \notin done
  <2>1. Place(t) = c /\ Place(t)' = "done"
    BY <1>3, <1>4, <1>7, PlaceCases, DonePlace
  <2>2. AtMostOnce!Complete(t, c)
    BY <1>5, <2>1, MoveFact DEF AtMostOnce!Complete, AtMostOnce!Done
  <2> QED BY <2>2 DEF AtMostOnce!QNext
<1> QED BY <1>6, <1>7

-----------------------------------------------------------------------------
(* The refinement.                                                         *)

LEMMA InitPlace == Init => AtMostOnce!QInit /\ Lossless!QInit
<1> SUFFICES ASSUME Init, NEW t \in Tasks PROVE Place(t) = "created"
  BY DEF AtMostOnce!QInit, Lossless!QInit, AtMostOnce!Created, Lossless!Created
<1>1. t \notin done /\ published[t] = 0 /\ Held(t) = {}
  BY TasksAssumption DEF Init, Held
<1>2. t \notin InQueue
  BY DEF Init, InQueue, Ready, ToSet, Delayed, Moving, NoMover
<1> QED BY <1>1, <1>2, PlaceCases

LEMMA PlaceStep ==
  ASSUME Before, [Next]_vars PROVE AtMostOnce!QNext \/ Places' = Places
<1>1. TypeOK /\ LoopInv /\ SingleCopy /\ TypeOK' /\ LoopInv'
  BY TypeLoopStep DEF Before, CopyInv
<1>2. CASE UNCHANGED vars
  <2>1. \A t \in Tasks : Place(t)' = Place(t)
    BY <1>2 DEF vars, redis, movers, loops, history, Place, Held, Publishing, Ready, Delayed, Moving
  <2> QED BY <2>1, SamePlaces
<1>3. ASSUME Recede PROVE AtMostOnce!QNext
  BY <1>1, <1>3, RecedeDrops
<1>4. ASSUME NEW p \in Producers, NEW t \in Tasks, NEW cd \in Countdowns, Publish(p, t, cd)
      PROVE  Places' = Places
  <2>1. /\ Build(p, t, cd) /\ published[t] = 0 /\ p \in Workers
        /\ UNCHANGED <<list, delay, mover, hand, done>>
    BY <1>4 DEF Publish, redis, movers, loops
  <2> QED BY <2>1, BuildPlace
<1>5. ASSUME NEW c \in Consumers, NEW cd \in Countdowns, Retry(c, cd) PROVE Places' = Places
  <2>1. PICK t \in Tasks : t = hand[c]
    BY <1>1, <1>5, RetryAlone
  <2>2. Build(c, t, cd) /\ c \in Workers /\ UNCHANGED <<list, delay, mover, hand, done>>
    BY <1>5, <2>1 DEF Retry, redis, movers
  <2>3. Held(t) # {}
    BY <2>1 DEF Held
  <2> QED BY <2>2, <2>3, BuildPlace
<1>6. CASE \/ Tick \/ Maintenance \/ \E p \in Processes : Crash(p)
  BY <1>3, <1>6, RecedingSteps
<1>7. ASSUME NEW w \in Workers, PipeStep(w) PROVE AtMostOnce!QNext \/ Places' = Places
  <2>1. ~PushAgain(w)
    BY DEF PushAgain, MaySendAgain, Before, ExactSettings
  <2> QED BY <1>3, <1>7, <2>1, RecedingSteps, PushPlace DEF PipeStep
<1>8. ASSUME NEW c \in Consumers, ConsumerStep(c) PROVE AtMostOnce!QNext \/ Places' = Places
  BY <1>3, <1>5, <1>8, RecedingSteps, BRPopPlace, FinishPlace DEF ConsumerStep
<1>9. ASSUME NEW c \in Consumers, MoverStep(c) PROVE AtMostOnce!QNext
  BY <1>3, <1>9, RecedingSteps
<1> QED BY <1>2, <1>4, <1>6, <1>7, <1>8, <1>9 DEF Next

\* When no task can be lost, a step that drops some drops none.
LEMMA NoneDropped ==
  ASSUME PlacesDistinct, TypeOK', NothingLost', AtMostOnce!QNext
  PROVE  Lossless!QNext \/ Places' = Places
<1>1. ASSUME NEW t \in Tasks PROVE Place(t)' # "lost"
  <2>1. CASE t \in done'
    BY <2>1, DonePlace
  <2>2. CASE t \notin done' /\ Held(t)' # {}
    BY <2>2, PlaceCasesNext DEF PlacesDistinct, Held
  <2>3. CASE t \notin done' /\ Held(t)' = {} /\ t \in InQueue'
    BY <2>3, PlaceCasesNext
  <2>4. CASE t \notin done' /\ Held(t)' = {} /\ t \notin InQueue'
    <3>1. published'[t] = 0 \/ Publishing(t)' # {}
      <4>1. published'[t] \in Nat
        BY DEF TypeOK
      <4>2. published'[t] > 0 => Held(t)' \cup Publishing(t)' # {}
        BY <2>4 DEF NothingLost, InQueue
      <4> QED BY <2>4, <4>1, <4>2
    <3> QED BY <2>4, <3>1, PlaceCasesNext
  <2> QED BY <2>1, <2>2, <2>3, <2>4
<1>2. CASE AtMostOnce!Drop
  <2>1. PICK S \in SUBSET Tasks :
          [t \in Tasks |-> Place(t)'] = [t \in Tasks |-> IF t \in S THEN "lost" ELSE Places[t]]
    BY <1>2 DEF AtMostOnce!Drop, AtMostOnce!Lost, Places
  <2>2. \A t \in Tasks : t \notin S /\ Place(t)' = Place(t)
    BY <1>1, <2>1 DEF Places
  <2> QED BY <2>2, SamePlaces
<1>3. CASE \E t \in Tasks : AtMostOnce!QPublish(t)
  BY <1>3 DEF Lossless!QNext, AtMostOnce!QPublish, Lossless!QPublish, AtMostOnce!Move,
     Lossless!Move, AtMostOnce!Created, Lossless!Created, AtMostOnce!Queued, Lossless!Queued
<1>4. ASSUME NEW t \in Tasks, NEW c \in Consumers,
             AtMostOnce!Take(t, c) \/ AtMostOnce!Return(t, c) \/ AtMostOnce!Complete(t, c)
      PROVE  Lossless!QNext
  <2>1. Lossless!Take(t, c) \/ Lossless!Return(t, c) \/ Lossless!Complete(t, c)
    BY <1>4 DEF AtMostOnce!Take, Lossless!Take, AtMostOnce!Return, Lossless!Return,
       AtMostOnce!Complete, Lossless!Complete, AtMostOnce!Move, Lossless!Move,
       AtMostOnce!Queued, Lossless!Queued, AtMostOnce!Done, Lossless!Done
  <2> QED BY <2>1 DEF Lossless!QNext
<1> QED BY <1>2, <1>3, <1>4 DEF AtMostOnce!QNext

\* In one worker process, without a key prefix and with a client that sends
\* each command once, the broker implements a queue that may lose a task but
\* hands none to a second consumer, whatever fails.
THEOREM AtMostOnceCorrect ==
  ASSUME ExactSettings, PlacesDistinct PROVE Spec => AtMostOnceQueue
<1>1. TypeOK /\ CopyInv /\ [Next]_vars => [AtMostOnce!QNext]_Places
  BY PlaceStep DEF Before
<1>2. TypeOK /\ CopyInv /\ [Next]_vars => [AtMostOnce!QNext]_[t \in Tasks |-> Place(t)]
  BY <1>1 DEF Places
<1> QED BY InitPlace, <1>2, CopyInvariant, PTL DEF Spec, AtMostOnceQueue, AtMostOnce!QSpec

\* When moreover nothing fails, nobody interferes and a delay outlasts the
\* second of the clock, the queue loses no task either.
THEOREM LosslessCorrect ==
  ASSUME LosslessSettings, PlacesDistinct PROVE Spec => LosslessQueue
<1>1. ExactSettings /\ NoLossSettings
  BY DEF LosslessSettings
<1>2. TypeOK /\ CopyInv /\ (TypeOK /\ NothingLost)' /\ [Next]_vars
        => [Lossless!QNext]_[t \in Tasks |-> Place(t)]
  BY <1>1, PlaceStep, NoneDropped DEF Before, Places
<1> QED BY InitPlace, <1>1, <1>2, CopyInvariant, NothingLostCorrect, PTL
        DEF Spec, LosslessQueue, Lossless!QSpec
=============================================================================

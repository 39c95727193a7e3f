------------------------- MODULE RedisBrokerProofs -------------------------
(***************************************************************************)
(* Proofs about RedisBroker, for any number of tasks, producers and        *)
(* consumers and any values of the other constants: type correctness in    *)
(* general; and, for one worker process, no key prefix and a client that   *)
(* does not send a command twice, that a task has a single copy and is     *)
(* delivered at most once for each time it was published, whatever crashes,*)
(* lost replies and maintenance calls there are.                           *)
(***************************************************************************)
EXTENDS RedisBroker, TLAPS, SequenceTheorems, FiniteSetTheorems

\* The settings in which a task cannot be duplicated.
ExactSettings ==
  /\ \A c, d \in Consumers : ProcessOf[c] = ProcessOf[d]
  /\ Prefix = FALSE
  /\ "resend" \notin Faults

-----------------------------------------------------------------------------
(* The inductive invariant.                                                *)

\* At most one mover runs, it is registered, and it holds ids only between
\* reading the zset and the transaction.
MoverInv ==
  \A c \in Consumers :
    /\ mover[c].step # "none" => ProcessOf[c] \in queues
    /\ mover[c].step # "none" =>
         \A d \in Consumers : mover[d].step # "none" => c = d
    /\ mover[c].step \notin {"payloads", "commit"} => mover[c].ids = {}

\* What the transaction pushes, it removes from the zset.
RangeInv ==
  \A c \in Consumers : \A t \in mover[c].ids :
     delay[t] # NotDelayed => delay[t] <= Seconds(mover[c].max)

\* A consumer has a task in hand exactly when it is not consuming, and only
\* publishes the task it holds.
LoopInv ==
  \A c \in Consumers :
    /\ hand[c] = NoTask <=> pc[c] = "consume"
    /\ pipe[c] # Idle => pc[c] = "publish" /\ pipe[c].task = hand[c]

\* A task that was never published is nowhere.
FreshInv ==
  \A t \in Tasks : published[t] = 0 =>
    t \notin Ready \cup Delayed \cup Moving /\ Held(t) = {} /\ Publishing(t) = {}

\* A task that can still be delivered has been delivered fewer times than
\* published.
PendingInv ==
  \A t \in Tasks :
    \/ t \in Ready \cup Delayed \cup Moving
    \/ Publishing(t) # {}
    \/ \E c \in Held(t) : pc[c] = "payloads"
    => delivered[t] < published[t]

CopyInv == /\ MoverInv /\ RangeInv /\ LoopInv /\ FreshInv /\ PendingInv
           /\ SingleCopy /\ NoDuplicateDelivery
-----------------------------------------------------------------------------
(* Facts about the operators.                                              *)

USE DEF Workers

LEMMA SecondsType == \A d \in Nat : Seconds(d) \in Nat
BY ClockAssumption DEF Seconds

LEMMA PushCommandType ==
  ASSUME now \in Nat, NEW cd \in Countdowns
  PROVE  PushCommand(cd) \in Commands
<1>1. CASE cd = NoCountdown \/ cd < 0
  BY <1>1 DEF PushCommand, Commands
<1>2. CASE ~(cd = NoCountdown \/ cd < 0)
  <2>1. now + cd \in Nat
    BY <1>2, CountdownsAssumption
  <2> QED BY <1>2, <2>1, SecondsType DEF PushCommand, Commands
<1> QED BY <1>1, <1>2

\* Taking the right end of a list.
LEMMA PopFacts ==
  ASSUME NEW S, NEW q \in Seq(S), q # <<>>
  PROVE  LET rest == SubSeq(q, 1, Len(q) - 1)
             end  == q[Len(q)]
         IN /\ end \in S /\ rest \in Seq(S)
            /\ ToSet(rest) \subseteq ToSet(q) /\ end \in ToSet(q)
            /\ IsInjective(q) => IsInjective(rest) /\ end \notin ToSet(rest)
<1> DEFINE rest == SubSeq(q, 1, Len(q) - 1)
<1>1. Len(q) \in Nat \ {0} /\ DOMAIN q = 1..Len(q) /\ \A i \in 1..Len(q) : q[i] \in S
  BY EmptySeq, LenProperties, ElementOfSeq
<1>2. rest \in Seq(S) /\ Len(rest) = Len(q) - 1 /\ \A i \in 1..Len(q) - 1 : rest[i] = q[i]
  BY <1>1, SubSeqProperties
<1>3. DOMAIN rest = 1..Len(q) - 1
  BY <1>2, LenProperties
<1> HIDE DEF rest
<1>4. QED BY <1>1, <1>2, <1>3 DEF ToSet, IsInjective, rest

LEMMA PopKeeps ==
  ASSUME NEW S, NEW q \in Seq(S), q # <<>>, NEW e \in ToSet(q), e # q[Len(q)]
  PROVE  e \in ToSet(SubSeq(q, 1, Len(q) - 1))
<1> DEFINE rest == SubSeq(q, 1, Len(q) - 1)
<1>1. Len(q) \in Nat \ {0} /\ DOMAIN q = 1..Len(q) /\ \A i \in 1..Len(q) : q[i] \in S
  BY EmptySeq, LenProperties, ElementOfSeq
<1>2. rest \in Seq(S) /\ Len(rest) = Len(q) - 1 /\ \A i \in 1..Len(q) - 1 : rest[i] = q[i]
  BY <1>1, SubSeqProperties
<1>3. DOMAIN rest = 1..Len(q) - 1
  BY <1>2, LenProperties
<1> HIDE DEF rest
<1>4. PICK i \in 1..Len(q) : q[i] = e
  BY <1>1 DEF ToSet
<1>5. i \in 1..Len(q) - 1
  BY <1>1, <1>4
<1>6. e \in ToSet(rest)
  BY <1>2, <1>3, <1>4, <1>5 DEF ToSet
<1> QED BY <1>6 DEF rest

\* Pushing one id to either end.
LEMMA AppendFacts ==
  ASSUME NEW S, NEW q \in Seq(S), NEW e \in S
  PROVE  /\ Append(q, e) \in Seq(S) /\ ToSet(Append(q, e)) = ToSet(q) \cup {e}
         /\ IsInjective(q) /\ e \notin ToSet(q) => IsInjective(Append(q, e))
<1>1. Len(q) \in Nat /\ DOMAIN q = 1..Len(q)
  BY LenProperties
<1>2. /\ Append(q, e) \in Seq(S) /\ Len(Append(q, e)) = Len(q) + 1
      /\ \A i \in 1..Len(q) : Append(q, e)[i] = q[i]
      /\ Append(q, e)[Len(q) + 1] = e
  BY AppendProperties
<1>3. DOMAIN Append(q, e) = 1..Len(q) + 1
  BY <1>2, LenProperties
<1>4. ToSet(Append(q, e)) = ToSet(q) \cup {e}
  BY <1>1, <1>2, <1>3 DEF ToSet
<1>5. ASSUME IsInjective(q), e \notin ToSet(q) PROVE IsInjective(Append(q, e))
  BY <1>1, <1>2, <1>3, <1>5 DEF ToSet, IsInjective
<1> QED BY <1>2, <1>4, <1>5

LEMMA ConcatFacts ==
  ASSUME NEW S, NEW q \in Seq(S), NEW r \in Seq(S)
  PROVE  /\ q \o r \in Seq(S) /\ ToSet(q \o r) = ToSet(q) \cup ToSet(r)
         /\ IsInjective(q) /\ IsInjective(r) /\ ToSet(q) \cap ToSet(r) = {}
              => IsInjective(q \o r)
<1>1. /\ Len(q) \in Nat /\ DOMAIN q = 1..Len(q)
      /\ Len(r) \in Nat /\ DOMAIN r = 1..Len(r)
  BY LenProperties
<1>2. /\ q \o r \in Seq(S) /\ Len(q \o r) = Len(q) + Len(r)
      /\ \A i \in 1..Len(q) + Len(r) :
           (q \o r)[i] = IF i <= Len(q) THEN q[i] ELSE r[i - Len(q)]
  BY ConcatProperties
<1>3. DOMAIN (q \o r) = 1..Len(q) + Len(r)
  BY <1>2, LenProperties
<1>4. ToSet(q \o r) = ToSet(q) \cup ToSet(r)
  <2>1. ToSet(q \o r) \subseteq ToSet(q) \cup ToSet(r)
    BY <1>1, <1>2, <1>3 DEF ToSet
  <2>2. ToSet(q) \subseteq ToSet(q \o r)
    BY <1>1, <1>2, <1>3 DEF ToSet
  <2>3. ASSUME NEW j \in 1..Len(r) PROVE r[j] \in ToSet(q \o r)
    <3>1. j + Len(q) \in 1..Len(q) + Len(r) /\ (q \o r)[j + Len(q)] = r[j]
      BY <1>1, <1>2
    <3> QED BY <3>1, <1>3 DEF ToSet
  <2> QED BY <2>1, <2>2, <2>3, <1>1 DEF ToSet
<1>5. ASSUME IsInjective(q), IsInjective(r), ToSet(q) \cap ToSet(r) = {}
      PROVE  IsInjective(q \o r)
  <2>1. SUFFICES ASSUME NEW i \in 1..Len(q) + Len(r), NEW j \in 1..Len(q) + Len(r),
                        (q \o r)[i] = (q \o r)[j]
                 PROVE  i = j
    BY <1>3 DEF IsInjective
  <2>2. CASE i <= Len(q) /\ j <= Len(q)
    BY <1>1, <1>2, <1>5, <2>1, <2>2 DEF IsInjective
  <2>3. CASE i > Len(q) /\ j > Len(q)
    <3>1. i - Len(q) \in DOMAIN r /\ j - Len(q) \in DOMAIN r
      BY <1>1, <2>3
    <3> QED BY <1>1, <1>2, <1>5, <2>1, <2>3, <3>1 DEF IsInjective
  <2>4. ASSUME NEW k \in 1..Len(q), NEW l \in 1..Len(r) PROVE q[k] # r[l]
    BY <1>1, <1>5 DEF ToSet
  <2>5. CASE i <= Len(q) /\ j > Len(q)
    BY <1>1, <1>2, <2>1, <2>4, <2>5
  <2>6. CASE i > Len(q) /\ j <= Len(q)
    BY <1>1, <1>2, <2>1, <2>4, <2>6
  <2> QED BY <1>1, <2>2, <2>3, <2>5, <2>6
<1> QED BY <1>2, <1>4, <1>5

LEMMA OneFacts ==
  ASSUME NEW S, NEW e \in S
  PROVE  <<e>> \in Seq(S) /\ ToSet(<<e>>) = {e} /\ IsInjective(<<e>>)
<1>1. DOMAIN <<e>> = 1..1 /\ <<e>>[1] = e
  OBVIOUS
<1> QED BY <1>1 DEF ToSet, IsInjective

\* The ids of a mover in any order.
LEMMA OrdersFacts ==
  ASSUME NEW S \in SUBSET Tasks, NEW r \in Orders(S)
  PROVE  r \in Seq(Tasks) /\ ToSet(r) = S /\ IsInjective(r)
<1>1. Cardinality(S) \in Nat
  BY TasksAssumption, FS_Subset, FS_CardinalityType
<1>2. r \in Seq(S)
  BY <1>1, SeqDef DEF Orders
<1> QED BY <1>2, SeqMonotonic DEF Orders
-----------------------------------------------------------------------------
(* Type correctness.                                                       *)

LEMMA InitTypeOK == Init => TypeOK
BY ClockAssumption DEF Init, TypeOK, Idle, NoMover, NotDelayed, Commands

LEMMA BuildTypeOK ==
  ASSUME TypeOK, NEW w \in Workers, NEW t \in Tasks, NEW cd \in Countdowns,
         Build(w, t, cd)
  PROVE  /\ pipe' \in [Workers -> Pipelines \cup {Idle}]
         /\ command' \in [Tasks -> Commands] /\ published' \in [Tasks -> Nat]
<1>1. now \in Nat /\ PushCommand(cd) \in Commands
  BY PushCommandType DEF TypeOK
<1>2. [step |-> "hmset", task |-> t, cmd |-> PushCommand(cd), since |-> now] \in Pipelines
  BY <1>1 DEF Pipelines
<1> QED BY <1>1, <1>2 DEF Build, TypeOK

LEMMA EndPipeTypeOK ==
  ASSUME TypeOK, NEW w \in Workers, EndPipe(w)
  PROVE  /\ pipe' \in [Workers -> Pipelines \cup {Idle}]
         /\ pc' \in [Consumers -> {"consume", "payloads", "start", "handle", "publish"}]
         /\ hand' \in [Consumers -> Tasks \cup {NoTask}]
BY DEF EndPipe, TypeOK, loops

LEMMA PushToTypeOK ==
  ASSUME TypeOK, NEW t \in Tasks, NEW cmd \in Commands, PushTo(t, cmd)
  PROVE  list' \in Seq(Tasks) /\ delay' \in [Tasks -> Nat \cup {NotDelayed}]
<1>1. list \in Seq(Tasks) /\ delay \in [Tasks -> Nat \cup {NotDelayed}]
  BY DEF TypeOK
<1>2. CASE cmd.op = "RPUSH"
  BY <1>1, <1>2, AppendFacts DEF PushTo
<1>3. CASE cmd.op = "LPUSH"
  <2>1. <<t>> \in Seq(Tasks) /\ <<t>> \o list \in Seq(Tasks)
    BY <1>1, OneFacts, ConcatFacts
  <2> QED BY <1>1, <1>3, <2>1 DEF PushTo
<1>4. CASE cmd.op = "ZADD"
  BY <1>1, <1>4 DEF PushTo, Commands
<1> QED BY <1>2, <1>3, <1>4 DEF Commands

\* The task and the command of a pipeline under way.
LEMMA PipeFacts ==
  ASSUME TypeOK, NEW w \in Workers, pipe[w].step \in {"hmset", "push"}
  PROVE  pipe[w] \in Pipelines /\ pipe[w] # Idle
BY DEF TypeOK, Idle

LEMMA RemoveRangeTypeOK ==
  ASSUME TypeOK, NEW max PROVE RemoveRange(max) \in [Tasks -> Nat \cup {NotDelayed}]
BY DEF RemoveRange, TypeOK

LEMMA SetMoverTypeOK ==
  ASSUME TypeOK, NEW c \in Consumers,
         NEW step \in {"none", "wait", "range", "payloads", "commit"},
         NEW max \in Nat, NEW ids \in SUBSET Tasks, SetMover(c, step, max, ids)
  PROVE  mover' \in [Consumers -> [step : {"none", "wait", "range", "payloads", "commit"},
                                  max : Nat, ids : SUBSET Tasks]]
BY DEF SetMover, TypeOK

LEMMA ConsumerTypeOK ==
  ASSUME TypeOK, LoopInv, NEW c \in Consumers, ConsumerStep(c)
  PROVE  TypeOK'
<1> USE DEF redis, movers, loops, history
<1>1. \A d \in Consumers : pc[d] # "consume" => hand[d] \in Tasks
  BY DEF LoopInv, TypeOK
<1>2. ASSUME StartMover(c)
      PROVE  /\ queues' \subseteq Processes
             /\ mover' \in [Consumers -> [step : {"none", "wait", "range", "payloads", "commit"},
                                          max : Nat, ids : SUBSET Tasks]]
  <2>1. CASE ProcessOf[c] \in queues
    BY <1>2, <2>1 DEF TypeOK, StartMover
  <2>2. CASE ProcessOf[c] \notin queues
    <3>1. queues' \subseteq Processes
      <4>1. queues' = queues \cup {ProcessOf[c]}
        BY <1>2, <2>2 DEF StartMover
      <4>2. ProcessOf[c] \in Processes
        BY ProcessesAssumption
      <4> QED BY <4>1, <4>2 DEF TypeOK
    <3>2. SetMover(c, "wait", 0, {})
      BY <1>2, <2>2 DEF StartMover, SetMover, Waiting
    <3> QED BY <3>1, <3>2, SetMoverTypeOK
  <2> QED BY <2>1, <2>2
<1>3. ASSUME list # <<>> PROVE PopRest \in Seq(Tasks) /\ PopEnd \in Tasks
  BY <1>3, PopFacts DEF TypeOK, PopRest, PopEnd
<1>4. CASE BRPop(c)
  BY <1>2, <1>3, <1>4 DEF BRPop, TypeOK
<1>5. CASE BRPopNil(c)
  BY <1>2, <1>5 DEF BRPopNil, TypeOK
<1>6. CASE BRPopError(c)
  BY <1>2, <1>3, <1>6 DEF BRPopError, TypeOK
<1>7. CASE Payloads(c)
  <2>1. hand[c] \in Tasks
    BY <1>1, <1>7 DEF Payloads
  <2>2. CASE hand[c] \in stored
    <3>1. /\ pc' = [pc EXCEPT ![c] = "start"] /\ hand' = hand
          /\ delivered' = [delivered EXCEPT ![hand[c]] = @ + 1]
      BY <1>7, <2>2 DEF Payloads
    <3>2. delivered' \in [Tasks -> Nat]
      BY <2>1, <3>1 DEF TypeOK
    <3> QED BY <1>7, <3>1, <3>2 DEF Payloads, TypeOK
  <2>3. CASE hand[c] \notin stored
    BY <1>7, <2>3 DEF Payloads, Release, TypeOK
  <2> QED BY <2>2, <2>3
<1>8. CASE Start(c)
  BY <1>1, <1>8 DEF Start, WithTTL, TypeOK
<1>9. CASE ConsumeError(c)
  BY <1>9 DEF ConsumeError, Release, TypeOK
<1>10. CASE Finish(c)
  <2>1. hand[c] \in Tasks
    BY <1>1, <1>10 DEF Finish
  <2>2. expiring' \subseteq stored' /\ stored' \subseteq Tasks
    BY <1>10, <2>1 DEF Finish, WithTTL, TypeOK
  <2> QED BY <1>10, <2>1, <2>2 DEF Finish, Release, TypeOK
<1>11. ASSUME NEW cd \in Countdowns, Retry(c, cd) PROVE TypeOK'
  <2>1. hand[c] \in Tasks /\ Build(c, hand[c], cd)
    BY <1>1, <1>11 DEF Retry
  <2> QED BY <2>1, <1>11, BuildTypeOK DEF Retry, TypeOK
<1> QED BY <1>4, <1>5, <1>6, <1>7, <1>8, <1>9, <1>10, <1>11 DEF ConsumerStep

LEMMA MoverTypeOK ==
  ASSUME TypeOK, NEW c \in Consumers, MoverStep(c)
  PROVE  TypeOK'
<1> USE DEF redis, movers, loops, history
<1>1. /\ mover[c].max \in Nat /\ mover[c].ids \in SUBSET Tasks
      /\ \A max : Due(max) \in SUBSET Tasks
  BY DEF TypeOK, Due
<1>2. ASSUME MoverTx(c)
      PROVE  /\ stored' \subseteq Tasks /\ stored \subseteq stored' /\ list' \in Seq(Tasks)
             /\ delay' \in [Tasks -> Nat \cup {NotDelayed}]
  <2>1. PICK ids \in Orders(mover[c].ids) : list' = list \o ids
    BY <1>2 DEF MoverTx
  <2>2. list' \in Seq(Tasks)
    BY <1>1, <2>1, OrdersFacts, ConcatFacts DEF TypeOK
  <2> QED BY <1>1, <1>2, <2>2, RemoveRangeTypeOK DEF MoverTx, TypeOK
<1>3. CASE MoverTick(c)
  BY <1>3 DEF MoverTick, SetMover, TypeOK
<1>4. CASE MoverRange(c)
  <2>1. \/ SetMover(c, "wait", 0, {})
        \/ SetMover(c, "payloads", mover[c].max, Due(mover[c].max))
    BY <1>4 DEF MoverRange
  <2>2. mover' \in [Consumers -> [step : {"none", "wait", "range", "payloads", "commit"},
                                 max : Nat, ids : SUBSET Tasks]]
    BY <1>1, <2>1, SetMoverTypeOK
  <2> QED BY <1>4, <2>2 DEF MoverRange, TypeOK
<1>5. CASE MoverPayloads(c)
  <2>1. \/ SetMover(c, "wait", 0, {})
        \/ SetMover(c, "commit", mover[c].max, mover[c].ids \cap stored)
    BY <1>5 DEF MoverPayloads
  <2>2. mover' \in [Consumers -> [step : {"none", "wait", "range", "payloads", "commit"},
                                 max : Nat, ids : SUBSET Tasks]]
    BY <1>1, <2>1, SetMoverTypeOK
  <2> QED BY <1>5, <2>2 DEF MoverPayloads, TypeOK
<1>6. CASE MoverCommit(c)
  BY <1>2, <1>6 DEF MoverCommit, SetMover, TypeOK
<1>7. CASE MoverCommitAgain(c)
  BY <1>2, <1>7 DEF MoverCommitAgain, TypeOK
<1>8. CASE MoverError(c)
  BY <1>8 DEF MoverError, SetMover, TypeOK
<1> QED BY <1>3, <1>4, <1>5, <1>6, <1>7, <1>8 DEF MoverStep

LEMMA PipeTypeOK ==
  ASSUME TypeOK, NEW w \in Workers, PipeStep(w)
  PROVE  TypeOK'
<1> USE DEF redis, movers, loops, history
<1>1. CASE HMSet(w)
  BY <1>1, PipeFacts DEF HMSet, TypeOK, Pipelines
<1>2. CASE Push(w)
  <2>1. pipe[w].task \in Tasks /\ pipe[w].cmd \in Commands
    BY <1>2, PipeFacts DEF Push, Pipelines
  <2> QED BY <1>2, <2>1, PushToTypeOK, EndPipeTypeOK DEF Push, TypeOK
<1>3. CASE PushAgain(w)
  <2>1. pipe[w] \in Pipelines /\ pipe[w].task \in Tasks /\ pipe[w].cmd \in Commands
    BY <1>3, PipeFacts DEF PushAgain, Pipelines
  <2> QED BY <1>3, <2>1, PushToTypeOK DEF PushAgain, TypeOK, Pipelines
<1>4. CASE PipeError(w)
  BY <1>4, EndPipeTypeOK DEF PipeError, TypeOK
<1> QED BY <1>1, <1>2, <1>3, <1>4 DEF PipeStep

LEMMA EnvironmentTypeOK ==
  ASSUME TypeOK,
         Tick \/ Maintenance \/ \E p \in Processes : Crash(p)
  PROVE  TypeOK'
<1> USE DEF redis, movers, loops, history
<1>1. CASE Tick
  BY <1>1 DEF Tick, TypeOK
<1>2. ASSUME NEW t \in Tasks, Expire(t) \/ Delete(t) PROVE TypeOK'
  BY <1>2 DEF Expire, Delete, TypeOK
<1>3. CASE Empty
  BY <1>3, EmptySeq DEF Empty, TypeOK
<1>4. CASE Flush
  BY <1>4, EmptySeq DEF Flush, TypeOK
<1>5. ASSUME NEW p \in Processes, Crash(p) PROVE TypeOK'
  BY <1>5 DEF Crash, TypeOK, NoMover
<1> QED BY <1>1, <1>2, <1>3, <1>4, <1>5 DEF Maintenance
-----------------------------------------------------------------------------
(* The consumer loop: LoopInv holds in every setting.                      *)

LEMMA InitLoopInv == Init => LoopInv
BY DEF Init, LoopInv

LEMMA EndPipeLoopInv ==
  ASSUME TypeOK, LoopInv, NEW w \in Workers, EndPipe(w) PROVE LoopInv'
BY DEF EndPipe, LoopInv, TypeOK, loops

LEMMA PipeLoopInv ==
  ASSUME TypeOK, LoopInv, NEW w \in Workers, PipeStep(w) PROVE LoopInv'
<1> USE DEF loops, movers, redis, history
<1>1. CASE HMSet(w)
  BY <1>1, PipeFacts DEF HMSet, LoopInv, TypeOK, Pipelines, Idle
<1>2. CASE PushAgain(w)
  BY <1>2, PipeFacts DEF PushAgain, LoopInv, TypeOK, Pipelines, Idle
<1> QED BY <1>1, <1>2, EndPipeLoopInv DEF PipeStep, Push, PipeError

LEMMA PublishLoopInv ==
  ASSUME TypeOK, LoopInv, NEW p \in Producers, NEW t \in Tasks, NEW cd \in Countdowns,
         Publish(p, t, cd)
  PROVE  LoopInv'
BY WorkersAssumption DEF Publish, Build, LoopInv, TypeOK, loops

LEMMA ConsumerLoopInv ==
  ASSUME TypeOK, LoopInv, NEW c \in Consumers, ConsumerStep(c) PROVE LoopInv'
<1> USE DEF loops, movers, redis, history
<1>1. CASE BRPop(c)
  <2>1. PopEnd \in Tasks
    BY <1>1, PopFacts DEF BRPop, TypeOK, PopEnd
  <2> QED BY <1>1, <2>1, TasksAssumption DEF BRPop, LoopInv, TypeOK
<1>2. CASE BRPopNil(c) \/ BRPopError(c)
  BY <1>2 DEF BRPopNil, BRPopError, LoopInv
<1>3. CASE Payloads(c)
  BY <1>3 DEF Payloads, Release, LoopInv, TypeOK
<1>4. CASE Start(c)
  BY <1>4 DEF Start, LoopInv, TypeOK
<1>5. CASE ConsumeError(c)
  BY <1>5 DEF ConsumeError, Release, LoopInv, TypeOK
<1>6. CASE Finish(c)
  BY <1>6 DEF Finish, Release, LoopInv, TypeOK
<1>7. ASSUME NEW cd \in Countdowns, Retry(c, cd) PROVE LoopInv'
  BY <1>7 DEF Retry, Build, LoopInv, TypeOK
<1> QED BY <1>1, <1>2, <1>3, <1>4, <1>5, <1>6, <1>7 DEF ConsumerStep

LEMMA OtherLoopInv ==
  ASSUME TypeOK, LoopInv,
         \/ Tick \/ Maintenance
         \/ \E c \in Consumers : MoverStep(c)
         \/ \E p \in Processes : Crash(p)
  PROVE  LoopInv'
<1>1. CASE Tick \/ Maintenance
  BY <1>1 DEF Tick, Maintenance, Expire, Delete, Empty, Flush, LoopInv, loops
<1>2. ASSUME NEW c \in Consumers, MoverStep(c) PROVE LoopInv'
  BY <1>2 DEF MoverStep, MoverTick, MoverRange, MoverPayloads, MoverCommit,
              MoverCommitAgain, MoverError, LoopInv, loops
<1>3. ASSUME NEW p \in Processes, Crash(p) PROVE LoopInv'
  BY <1>3 DEF Crash, LoopInv
<1> QED BY <1>1, <1>2, <1>3

LEMMA TypeLoopStep == TypeOK /\ LoopInv /\ [Next]_vars => TypeOK' /\ LoopInv'
<1> SUFFICES ASSUME TypeOK, LoopInv, [Next]_vars PROVE TypeOK' /\ LoopInv'
  OBVIOUS
<1>1. CASE UNCHANGED vars
  BY <1>1 DEF vars, redis, movers, loops, history, TypeOK, LoopInv
<1>2. CASE Tick \/ Maintenance \/ \E p \in Processes : Crash(p)
  BY <1>2, EnvironmentTypeOK, OtherLoopInv
<1>3. ASSUME NEW p \in Producers, NEW t \in Tasks, NEW cd \in Countdowns,
             Publish(p, t, cd)
      PROVE  TypeOK' /\ LoopInv'
  <2>1. TypeOK'
    BY <1>3, BuildTypeOK DEF Publish, TypeOK, redis, movers, loops
  <2> QED BY <1>3, <2>1, PublishLoopInv
<1>4. ASSUME NEW w \in Workers, PipeStep(w) PROVE TypeOK' /\ LoopInv'
  BY <1>4, PipeTypeOK, PipeLoopInv
<1>5. ASSUME NEW c \in Consumers, ConsumerStep(c) PROVE TypeOK' /\ LoopInv'
  BY <1>5, ConsumerTypeOK, ConsumerLoopInv
<1>6. ASSUME NEW c \in Consumers, MoverStep(c) PROVE TypeOK' /\ LoopInv'
  BY <1>6, MoverTypeOK, OtherLoopInv
<1> QED BY <1>1, <1>2, <1>3, <1>4, <1>5, <1>6 DEF Next

\* Every variable keeps its shape, in every setting, whatever fails: what
\* Redis holds are tasks, and only an existing hash has a time to live.
THEOREM TypeCorrect == Spec => []TypeOK
<1>1. Init => TypeOK /\ LoopInv
  BY InitTypeOK, InitLoopInv
<1>2. TypeOK /\ LoopInv /\ [Next]_vars => (TypeOK /\ LoopInv)'
  BY TypeLoopStep
<1> QED BY <1>1, <1>2, PTL DEF Spec
-----------------------------------------------------------------------------
(* The mover: what it holds and what it will remove from the zset.         *)

LEMMA MovingFact == \A t : t \in Moving <=> \E c \in Consumers : t \in mover[c].ids
BY DEF Moving

LEMMA StartMoverInv ==
  ASSUME TypeOK, ExactSettings, MoverInv, RangeInv, NEW c \in Consumers, StartMover(c),
         delay' = delay
  PROVE  MoverInv' /\ RangeInv' /\ Moving' = Moving
<1>1. CASE ProcessOf[c] \in queues
  BY <1>1 DEF StartMover, MoverInv, RangeInv, Moving, movers
<1>2. CASE ProcessOf[c] \notin queues
  <2>1. \A d \in Consumers : mover[d].step = "none" /\ mover[d].ids = {}
    BY <1>2 DEF MoverInv, ExactSettings
  <2>2. /\ queues' = queues \cup {ProcessOf[c]}
        /\ \A d \in Consumers : mover'[d] = IF d = c THEN Waiting ELSE mover[d]
    BY <1>2 DEF StartMover, TypeOK
  <2>3. Waiting.step = "wait" /\ Waiting.ids = {}
    BY DEF Waiting
  <2>4. MoverInv' /\ RangeInv'
    BY <2>1, <2>2, <2>3 DEF MoverInv, RangeInv
  <2> QED BY <2>1, <2>2, <2>3, <2>4 DEF Moving
<1> QED BY <1>1, <1>2

\* The record a mover is set to.
LEMMA SetMoverFact ==
  ASSUME TypeOK, NEW c \in Consumers, NEW step, NEW max, NEW ids, SetMover(c, step, max, ids)
  PROVE  /\ mover'[c].step = step /\ mover'[c].max = max /\ mover'[c].ids = ids
         /\ \A d \in Consumers : d # c => mover'[d] = mover[d]
BY DEF SetMover, TypeOK

LEMMA SetMoverInv ==
  ASSUME TypeOK, MoverInv, NEW c \in Consumers, mover[c].step # "none",
         NEW step \in {"wait", "range", "payloads", "commit"}, NEW max, NEW ids,
         SetMover(c, step, max, ids), queues' = queues,
         step \in {"payloads", "commit"} \/ ids = {}
  PROVE  MoverInv' /\ Moving' = ids /\ Moving = mover[c].ids
<1>1. \A d \in Consumers : d # c => mover[d].step = "none" /\ mover[d].ids = {}
  BY DEF MoverInv
<1>2. /\ mover'[c].step = step /\ mover'[c].ids = ids
      /\ \A d \in Consumers : d # c => mover'[d] = mover[d]
  BY SetMoverFact
<1>3. MoverInv'
  BY <1>1, <1>2 DEF MoverInv
<1>4. Moving' = ids
  BY <1>1, <1>2 DEF Moving
<1>5. Moving = mover[c].ids
  BY <1>1 DEF Moving
<1> QED BY <1>3, <1>4, <1>5

-----------------------------------------------------------------------------
(* Steps that only take tasks out of places.                               *)

Counting == <<published, delivered>>

Shrink ==
  /\ IsInjective(list) => IsInjective(list')
  /\ Ready' \subseteq Ready /\ Delayed' \subseteq Delayed /\ Moving' \subseteq Moving
  /\ \A t \in Tasks : Held(t)' \subseteq Held(t) /\ Publishing(t)' \subseteq Publishing(t)
  /\ \A c \in Consumers : pc'[c] = "payloads" => pc[c] = "payloads"
  /\ Counting' = Counting

PlaceInv == FreshInv /\ PendingInv /\ SingleCopy /\ NoDuplicateDelivery

LEMMA ShrinkPlaceInv == TypeOK /\ PlaceInv /\ Shrink => PlaceInv'
<1> SUFFICES ASSUME TypeOK, PlaceInv, Shrink PROVE PlaceInv'
  OBVIOUS
<1>1. published' = published /\ delivered' = delivered
  BY DEF Shrink, Counting
<1>2. FreshInv'
  BY <1>1 DEF Shrink, PlaceInv, FreshInv
<1>3. PendingInv'
  <2>1. SUFFICES ASSUME NEW t \in Tasks,
                        \/ t \in (Ready \cup Delayed \cup Moving)'
                        \/ Publishing(t)' # {}
                        \/ \E c \in Held(t)' : pc'[c] = "payloads"
                 PROVE  delivered[t] < published[t]
    BY <1>1 DEF PendingInv
  <2>2. \A c \in Held(t)' : c \in Consumers
    BY DEF Held
  <2>3. \/ t \in Ready \cup Delayed \cup Moving
        \/ Publishing(t) # {}
        \/ \E c \in Held(t) : pc[c] = "payloads"
    BY <2>1, <2>2 DEF Shrink
  <2> QED BY <2>3 DEF PlaceInv, PendingInv
<1>4. SingleCopy'
  <2>1. IsInjective(list') /\ (Ready \cap (Delayed \cup Moving))' = {}
    BY DEF Shrink, PlaceInv, SingleCopy
  <2>2. ASSUME NEW t \in Tasks
        PROVE  /\ \A v, w \in (Held(t) \cup Publishing(t))' : v = w
               /\ t \in (Ready \cup Delayed \cup Moving)' => (Held(t) \cup Publishing(t))' = {}
    BY DEF Shrink, PlaceInv, SingleCopy
  <2> QED BY <2>1, <2>2 DEF SingleCopy
<1>5. NoDuplicateDelivery'
  BY <1>1 DEF PlaceInv, NoDuplicateDelivery
<1> QED BY <1>2, <1>3, <1>4, <1>5 DEF PlaceInv
LEMMA EndPipeFacts ==
  ASSUME TypeOK, LoopInv, NEW w \in Workers, EndPipe(w)
  PROVE  /\ \A t \in Tasks : /\ Held(t)' = Held(t) \ {w}
                             /\ Publishing(t)' = Publishing(t) \ {w}
         /\ \A c \in Consumers : pc'[c] = "payloads" => pc[c] = "payloads"
<1>1. \A v \in Workers : pipe'[v] = IF v = w THEN Idle ELSE pipe[v]
  BY DEF EndPipe, TypeOK
<1>2. \A c \in Consumers : /\ pc'[c] = IF c = w THEN "consume" ELSE pc[c]
                          /\ hand'[c] = IF c = w THEN NoTask ELSE hand[c]
  BY DEF EndPipe, TypeOK, loops
<1> QED BY <1>1, <1>2, TasksAssumption DEF Held, Publishing

LEMMA ReleaseFacts ==
  ASSUME TypeOK, NEW c \in Consumers, Release(c)
  PROVE  /\ \A t \in Tasks : Held(t)' = Held(t) \ {c}
         /\ \A d \in Consumers : pc'[d] = "payloads" => pc[d] = "payloads"
<1>1. \A d \in Consumers : /\ pc'[d] = IF d = c THEN "consume" ELSE pc[d]
                          /\ hand'[d] = IF d = c THEN NoTask ELSE hand[d]
  BY DEF Release, TypeOK
<1> QED BY <1>1, TasksAssumption DEF Held

\* Failures and maintenance.
LEMMA ShrinkingSteps ==
  ASSUME TypeOK, LoopInv, MoverInv, RangeInv, ExactSettings,
         \/ Tick \/ Maintenance
         \/ \E p \in Processes : Crash(p)
         \/ \E w \in Workers : HMSet(w) \/ PipeError(w)
  PROVE  MoverInv' /\ RangeInv' /\ Shrink
<1> USE DEF redis, movers, loops, history, Counting
<1>1. CASE Tick \/ \E t \in Tasks : Expire(t) \/ Delete(t)
  BY <1>1 DEF Tick, Expire, Delete, MoverInv, RangeInv, Shrink, Ready, Delayed, Moving,
              Held, Publishing
<1>2. CASE Empty
  <2>1. Ready' = {} /\ IsInjective(list')
    BY <1>2 DEF Empty, Ready, ToSet, IsInjective
  <2> QED BY <1>2, <2>1 DEF Empty, MoverInv, RangeInv, Shrink, Delayed, Moving, Held, Publishing
<1>3. CASE Flush
  <2>1. Ready' = {} /\ IsInjective(list')
    BY <1>3 DEF Flush, Ready, ToSet, IsInjective
  <2>2. Delayed' = {} /\ \A t \in Tasks : delay'[t] = NotDelayed
    BY <1>3 DEF Flush, Delayed
  <2>3. MoverInv' /\ RangeInv'
    <3>1. \A c \in Consumers : mover[c].ids \subseteq Tasks
      BY DEF TypeOK
    <3> QED BY <1>3, <2>2, <3>1 DEF Flush, MoverInv, RangeInv
  <2> QED BY <1>3, <2>1, <2>2, <2>3 DEF Flush, Shrink, Moving, Held, Publishing
<1>4. ASSUME NEW p \in Processes, Crash(p) PROVE MoverInv' /\ RangeInv' /\ Shrink
  <2> DEFINE dead == {c \in Consumers : ProcessOf[c] = p}
  <2>1. \A c \in Consumers :
          /\ mover'[c] = IF c \in dead THEN NoMover ELSE mover[c]
          /\ pc'[c] = IF c \in dead THEN "consume" ELSE pc[c]
          /\ hand'[c] = IF c \in dead THEN NoTask ELSE hand[c]
    BY <1>4 DEF Crash
  <2>2. \A w \in Workers : pipe'[w] = IF w \in dead THEN Idle ELSE pipe[w]
    BY <1>4 DEF Crash
  <2>3. queues' = queues \ {p} /\ UNCHANGED <<list, delay, published, delivered>>
    BY <1>4 DEF Crash
  <2>4. NoMover.step = "none" /\ NoMover.ids = {}
    BY DEF NoMover
  <2>5. MoverInv'
    BY <2>1, <2>3, <2>4 DEF MoverInv
  <2>6. RangeInv'
    BY <2>1, <2>3, <2>4 DEF RangeInv
  <2>7. Moving' \subseteq Moving
    BY <2>1, <2>4 DEF Moving
  <2>8. \A t \in Tasks : Held(t)' \subseteq Held(t) /\ Publishing(t)' \subseteq Publishing(t)
    BY <2>1, <2>2, TasksAssumption DEF Held, Publishing
  <2> QED BY <2>1, <2>3, <2>5, <2>6, <2>7, <2>8 DEF Shrink, Ready, Delayed
<1>5. ASSUME NEW w \in Workers, HMSet(w) PROVE MoverInv' /\ RangeInv' /\ Shrink
  <2>1. \A v \in Workers : pipe'[v] # Idle => pipe[v] # Idle /\ pipe'[v].task = pipe[v].task
    BY <1>5, PipeFacts DEF HMSet, TypeOK, Pipelines
  <2>2. \A t \in Tasks : Publishing(t)' \subseteq Publishing(t)
    BY <2>1 DEF Publishing
  <2> QED BY <1>5, <2>2 DEF HMSet, MoverInv, RangeInv, Shrink, Ready, Delayed, Moving, Held
<1>6. ASSUME NEW w \in Workers, PipeError(w) PROVE MoverInv' /\ RangeInv' /\ Shrink
  <2>1. EndPipe(w) /\ UNCHANGED <<redis, movers, history>>
    BY <1>6 DEF PipeError
  <2>2. \A t \in Tasks : Held(t)' \subseteq Held(t) /\ Publishing(t)' \subseteq Publishing(t)
    BY <2>1, EndPipeFacts
  <2> QED BY <2>1, <2>2, EndPipeFacts DEF MoverInv, RangeInv, Shrink, Ready, Delayed, Moving
<1> QED BY <1>1, <1>2, <1>3, <1>4, <1>5, <1>6 DEF Maintenance

\* Steps of a consumer that give a task up or go on with it.
LEMMA ShrinkingConsumerSteps ==
  ASSUME TypeOK, LoopInv, MoverInv, RangeInv, ExactSettings, NEW c \in Consumers,
         \/ BRPopNil(c) \/ BRPopError(c) \/ Start(c) \/ ConsumeError(c) \/ Finish(c)
         \/ Payloads(c) /\ hand[c] \notin stored
  PROVE  MoverInv' /\ RangeInv' /\ Shrink
<1> USE DEF redis, movers, loops, history, Counting
<1>1. CASE BRPopNil(c)
  BY <1>1, StartMoverInv DEF BRPopNil, Shrink, Ready, Delayed, Held, Publishing
<1>2. CASE BRPopError(c)
  <2>1. /\ IsInjective(list) => IsInjective(list')
        /\ Ready' \subseteq Ready
    BY <1>2, PopFacts DEF BRPopError, Ready, PopRest, TypeOK
  <2> QED BY <1>2, <2>1, StartMoverInv DEF BRPopError, Shrink, Delayed, Held, Publishing
<1>3. CASE Start(c)
  <2>1. \A d \in Consumers : pc'[d] = "payloads" => pc[d] = "payloads"
    BY <1>3 DEF Start, TypeOK
  <2> QED BY <1>3, <2>1 DEF Start, MoverInv, RangeInv, Shrink, Ready, Delayed, Moving, Held,
                            Publishing
<1>4. ASSUME Release(c), UNCHANGED <<list, delay, pipe, movers, published, delivered>>
      PROVE  MoverInv' /\ RangeInv' /\ Shrink
  BY <1>4, ReleaseFacts DEF MoverInv, RangeInv, Shrink, Ready, Delayed, Moving, Publishing
<1>5. CASE ConsumeError(c)
  BY <1>4, <1>5 DEF ConsumeError
<1>6. CASE Finish(c)
  BY <1>4, <1>6 DEF Finish
<1>7. CASE Payloads(c) /\ hand[c] \notin stored
  BY <1>4, <1>7 DEF Payloads
<1> QED BY <1>1, <1>2, <1>3, <1>5, <1>6, <1>7

\* Steps of the mover up to its transaction.
LEMMA ShrinkingMoverSteps ==
  ASSUME TypeOK, MoverInv, RangeInv, NEW c \in Consumers,
         MoverTick(c) \/ MoverPayloads(c) \/ MoverError(c)
  PROVE  MoverInv' /\ RangeInv' /\ Shrink
<1> USE DEF redis, movers, loops, history, Counting
<1>1. PICK step \in {"wait", "range", "commit"}, max \in Nat, ids \in SUBSET Tasks :
        /\ SetMover(c, step, max, ids)
        /\ \/ ids = {}
           \/ /\ step = "commit"
              /\ ids \subseteq mover[c].ids /\ max = mover[c].max
  <2>1. 0 \in Nat /\ now \in Nat /\ mover[c].max \in Nat /\ {} \in SUBSET Tasks
        /\ mover[c].ids \cap stored \in SUBSET Tasks
    BY DEF TypeOK
  <2>2. \/ SetMover(c, "wait", 0, {}) \/ SetMover(c, "range", now, {})
        \/ SetMover(c, "commit", mover[c].max, mover[c].ids \cap stored)
    BY DEF MoverTick, MoverPayloads, MoverError
  <2>3. CASE SetMover(c, "wait", 0, {})
    BY <2>1, <2>3
  <2>4. CASE SetMover(c, "range", now, {})
    BY <2>1, <2>4
  <2>5. CASE SetMover(c, "commit", mover[c].max, mover[c].ids \cap stored)
    <3>1. mover[c].ids \cap stored \subseteq mover[c].ids
      OBVIOUS
    <3> QED BY <2>1, <2>5, <3>1
  <2> QED BY <2>2, <2>3, <2>4, <2>5
<1>2. mover[c].step # "none" /\ UNCHANGED <<list, delay, pipe, queues, pc, hand, published, delivered>>
  BY DEF MoverTick, MoverPayloads, MoverError
<1>3. MoverInv' /\ Moving' \subseteq Moving
  BY <1>1, <1>2, SetMoverInv
<1>4. RangeInv'
  BY <1>1, <1>2, SetMoverFact DEF RangeInv
<1> QED BY <1>2, <1>3, <1>4 DEF Shrink, Ready, Delayed, Held, Publishing
-----------------------------------------------------------------------------
(* Steps that bring a task to a new place.                                 *)

\* What PlaceInv says of one task.
TaskInv(t) ==
  /\ published[t] = 0 =>
       t \notin Ready \cup Delayed \cup Moving /\ Held(t) = {} /\ Publishing(t) = {}
  /\ \/ t \in Ready \cup Delayed \cup Moving
     \/ Publishing(t) # {}
     \/ \E c \in Held(t) : pc[c] = "payloads"
     => delivered[t] < published[t]
  /\ t \in Ready => t \notin Delayed \cup Moving
  /\ \A v, w \in Held(t) \cup Publishing(t) : v = w
  /\ t \in Ready \cup Delayed \cup Moving => Held(t) \cup Publishing(t) = {}
  /\ delivered[t] <= published[t]

LEMMA PlaceByTask == TypeOK => (PlaceInv <=> IsInjective(list) /\ \A t \in Tasks : TaskInv(t))
<1> SUFFICES ASSUME TypeOK
             PROVE  PlaceInv <=> IsInjective(list) /\ \A t \in Tasks : TaskInv(t)
  OBVIOUS
<1>1. \A t \in Ready : t \in Tasks
  BY LenProperties, ElementOfSeq DEF TypeOK, Ready, ToSet
<1>2. Ready \cap (Delayed \cup Moving) = {}
        <=> \A t \in Tasks : t \in Ready => t \notin Delayed \cup Moving
  BY <1>1
<1> QED BY <1>2 DEF PlaceInv, FreshInv, PendingInv, SingleCopy, NoDuplicateDelivery, TaskInv

LEMMA PlaceByTaskNext ==
  TypeOK' => (PlaceInv' <=> (IsInjective(list) /\ \A t \in Tasks : TaskInv(t))')
<1>1. (TypeOK => (PlaceInv <=> IsInjective(list) /\ \A t \in Tasks : TaskInv(t)))'
  BY PlaceByTask, PTL
<1> QED BY <1>1

\* A task that a step does not touch keeps TaskInv.
Untouched(t) ==
  /\ (t \in Ready)' <=> t \in Ready
  /\ (t \in Delayed)' <=> t \in Delayed
  /\ (t \in Moving)' <=> t \in Moving
  /\ Held(t)' = Held(t) /\ Publishing(t)' = Publishing(t)
  /\ \A c \in Held(t) : pc'[c] = "payloads" => pc[c] = "payloads"
  /\ published'[t] = published[t] /\ delivered'[t] = delivered[t]

LEMMA UntouchedTask ==
  ASSUME NEW t \in Tasks, TaskInv(t), Untouched(t) PROVE TaskInv(t)'
BY DEF TaskInv, Untouched

\* A worker starts a pipeline for task t.
LEMMA BuildFacts ==
  ASSUME TypeOK, NEW w \in Workers, NEW t \in Tasks, NEW cd \in Countdowns, Build(w, t, cd)
  PROVE  /\ Publishing(t)' = Publishing(t) \cup {w}
         /\ \A u \in Tasks \ {t} : Publishing(u)' = Publishing(u)
         /\ published'[t] = published[t] + 1
         /\ \A u \in Tasks \ {t} : published'[u] = published[u]
<1>1. /\ pipe[w] = Idle /\ pipe'[w] # Idle /\ pipe'[w].task = t
      /\ \A v \in Workers : v # w => pipe'[v] = pipe[v]
  BY DEF Build, TypeOK, Idle
<1>2. Publishing(t)' = Publishing(t) \cup {w}
  BY <1>1 DEF Publishing
<1>3. \A u \in Tasks \ {t} : Publishing(u)' = Publishing(u)
  BY <1>1 DEF Publishing
<1> QED BY <1>2, <1>3 DEF Build, TypeOK

LEMMA PublishPlaceInv ==
  ASSUME TypeOK, PlaceInv, NEW p \in Producers, NEW t \in Tasks, NEW cd \in Countdowns,
         Publish(p, t, cd)
  PROVE  IsInjective(list') /\ \A u \in Tasks : TaskInv(u)'
<1> USE DEF redis, movers, loops
<1>1. Build(p, t, cd) /\ published[t] = 0
      /\ UNCHANGED <<list, delay, mover, pc, hand, delivered>>
  BY DEF Publish
<1>2. IsInjective(list) /\ \A u \in Tasks : TaskInv(u)
  BY PlaceByTask
<1>3. TaskInv(t)'
  <2>1. Publishing(t)' = {p} /\ published'[t] = 1
    BY <1>1, <1>2, BuildFacts DEF TaskInv
  <2>2. delivered[t] = 0
    BY <1>1, <1>2 DEF TaskInv, TypeOK
  <2> QED BY <1>1, <1>2, <2>1, <2>2 DEF TaskInv, Ready, Delayed, Moving, Held
<1>4. ASSUME NEW u \in Tasks \ {t} PROVE TaskInv(u)'
  <2>1. Untouched(u)
    BY <1>1, BuildFacts DEF Untouched, Ready, Delayed, Moving, Held
  <2> QED BY <1>2, <2>1, UntouchedTask
<1> QED BY <1>1, <1>2, <1>3, <1>4

LEMMA RetryPlaceInv ==
  ASSUME TypeOK, LoopInv, PlaceInv, NEW c \in Consumers, NEW cd \in Countdowns, Retry(c, cd)
  PROVE  IsInjective(list') /\ \A u \in Tasks : TaskInv(u)'
<1> USE DEF redis, movers, loops
<1>0. PICK t \in Tasks : t = hand[c]
  BY DEF Retry, LoopInv, TypeOK
<1>1. Build(c, t, cd) /\ UNCHANGED <<list, delay, mover, hand, delivered>>
  BY <1>0 DEF Retry
<1>2. IsInjective(list) /\ \A u \in Tasks : TaskInv(u)
  BY PlaceByTask
<1>3. \A d \in Consumers : pc'[d] = "payloads" => pc[d] = "payloads"
  BY DEF Retry, TypeOK
<1>4. TaskInv(t)'
  <2>1. c \in Held(t)
    BY <1>0 DEF Held
  <2>2. /\ \A v \in Held(t) \cup Publishing(t) : v = c
        /\ t \notin Ready \cup Delayed \cup Moving
    BY <1>1, <1>2, <2>1 DEF TaskInv
  <2>3. Publishing(t)' = {c} /\ published'[t] = published[t] + 1 /\ Held(t)' = Held(t)
    <3>1. Publishing(t) \cup {c} = {c}
      BY <2>2
    <3> QED BY <1>1, <3>1, BuildFacts DEF Held
  <2>4. /\ delivered[t] <= published[t] /\ delivered'[t] = delivered[t]
        /\ published[t] \in Nat /\ delivered[t] \in Nat
    BY <1>1, <1>2 DEF TaskInv, TypeOK
  <2>5. t \notin (Ready \cup Delayed \cup Moving)'
    BY <1>1, <2>2 DEF Ready, Delayed, Moving
  <2> QED BY <2>2, <2>3, <2>4, <2>5 DEF TaskInv
<1>5. ASSUME NEW u \in Tasks \ {t} PROVE TaskInv(u)'
  <2>1. Untouched(u)
    <3>1. Held(u) \subseteq Consumers
      BY DEF Held
    <3> QED BY <1>1, <1>3, <3>1, BuildFacts DEF Untouched, Ready, Delayed, Moving, Held
  <2> QED BY <1>2, <2>1, UntouchedTask
<1> QED BY <1>1, <1>2, <1>4, <1>5

\* The last command of a pipeline.
LEMMA PushInv ==
  ASSUME TypeOK, LoopInv, MoverInv, RangeInv, PlaceInv, NEW w \in Workers, Push(w)
  PROVE  /\ MoverInv' /\ RangeInv'
         /\ IsInjective(list') /\ \A u \in Tasks : TaskInv(u)'
<1> USE DEF redis, movers, loops, history
<1>0. PICK t \in Tasks : t = pipe[w].task
  BY PipeFacts DEF Push, Pipelines
<1>1. /\ pipe[w] # Idle /\ pipe[w].cmd \in Commands
      /\ PushTo(t, pipe[w].cmd) /\ EndPipe(w)
      /\ UNCHANGED <<queues, mover, published, delivered>>
  BY <1>0, PipeFacts DEF Push, Pipelines
<1>2. IsInjective(list) /\ \A u \in Tasks : TaskInv(u)
  BY PlaceByTask
<1>3. w \in Publishing(t)
  BY <1>0, <1>1 DEF Publishing
<1>4. /\ \A v \in Held(t) \cup Publishing(t) : v = w
      /\ t \notin Ready \cup Delayed \cup Moving
  BY <1>1, <1>2, <1>3 DEF TaskInv
<1>5. Held(t)' = {} /\ Publishing(t)' = {}
  BY <1>1, <1>4, EndPipeFacts
<1>6. /\ IsInjective(list')
      /\ \/ Ready' = Ready \cup {t} /\ delay' = delay
         \/ Ready' = Ready /\ delay' = [delay EXCEPT ![t] = pipe[w].cmd.score]
  <2>1. list \in Seq(Tasks) /\ t \notin ToSet(list)
    BY <1>4 DEF TypeOK, Ready
  <2>2. CASE pipe[w].cmd.op = "RPUSH"
    <3>1. ToSet(Append(list, t)) = ToSet(list) \cup {t} /\ IsInjective(Append(list, t))
      BY <1>2, <2>1, AppendFacts
    <3>2. list' = Append(list, t) /\ delay' = delay
      BY <1>1, <2>2 DEF PushTo
    <3> QED BY <3>1, <3>2 DEF Ready
  <2>3. CASE pipe[w].cmd.op = "LPUSH"
    <3>1. <<t>> \in Seq(Tasks) /\ ToSet(<<t>>) = {t} /\ IsInjective(<<t>>)
      BY <1>1, OneFacts
    <3>2. list' = <<t>> \o list /\ delay' = delay
      BY <1>1, <2>3 DEF PushTo
    <3>3. /\ ToSet(<<t>> \o list) = {t} \cup ToSet(list)
          /\ IsInjective(<<t>> \o list)
      <4>1. PICK q \in Seq(Tasks) : q = <<t>>
        BY <3>1
      <4>2. ToSet(q) = {t} /\ IsInjective(q) /\ ToSet(q) \cap ToSet(list) = {}
        BY <2>1, <3>1, <4>1
      <4>3. ToSet(q \o list) = {t} \cup ToSet(list) /\ IsInjective(q \o list)
        BY <1>2, <2>1, <4>2, ConcatFacts
      <4> QED BY <4>1, <4>3
    <3> QED BY <3>2, <3>3 DEF Ready
  <2>4. CASE pipe[w].cmd.op = "ZADD"
    BY <1>1, <1>2, <2>4 DEF PushTo, Ready
  <2> QED BY <1>1, <2>2, <2>3, <2>4 DEF Commands
<1>7. \A u \in Tasks \ {t} : delay'[u] = delay[u]
  BY <1>6 DEF TypeOK
<1>8. MoverInv' /\ RangeInv'
  <2>1. \A c \in Consumers : mover[c].ids \subseteq Tasks \ {t}
    BY <1>4, MovingFact DEF TypeOK
  <2> QED BY <1>1, <1>7, <2>1 DEF MoverInv, RangeInv
<1>9. TaskInv(t)'
  <2>1. delivered[t] < published[t] /\ published[t] # 0
    BY <1>1, <1>2, <1>3 DEF TaskInv, TypeOK
  <2>2. t \notin Moving'
    BY <1>1, <1>4 DEF Moving
  <2>3. t \in Ready' => t \notin Delayed'
    BY <1>4, <1>6 DEF Delayed
  <2>4. published[t] \in Nat /\ delivered[t] \in Nat
    BY <1>1 DEF TypeOK
  <2> QED BY <1>1, <1>5, <2>1, <2>2, <2>3, <2>4 DEF TaskInv
<1>10. ASSUME NEW u \in Tasks \ {t} PROVE TaskInv(u)'
  <2>1. Held(u)' = Held(u) /\ Publishing(u)' = Publishing(u)
    <3>1. w \notin Publishing(u)
      BY <1>0 DEF Publishing
    <3>2. w \notin Held(u)
      BY <1>0, <1>1 DEF Held, LoopInv
    <3> QED BY <1>1, <3>1, <3>2, EndPipeFacts
  <2>2. ((u \in Delayed)' <=> u \in Delayed) /\ ((u \in Moving)' <=> u \in Moving)
    BY <1>1, <1>7 DEF Delayed, Moving
  <2>3. (u \in Ready)' <=> u \in Ready
    BY <1>6
  <2>4. \A c \in Held(u) : pc'[c] = "payloads" => pc[c] = "payloads"
    BY <1>1, EndPipeFacts DEF Held
  <2>5. Untouched(u)
    BY <1>1, <2>1, <2>2, <2>3, <2>4 DEF Untouched
  <2> QED BY <1>2, <2>5, UntouchedTask
<1> QED BY <1>6, <1>8, <1>9, <1>10

\* BRPOP hands the id it takes to a consumer.
LEMMA BRPopInv ==
  ASSUME TypeOK, LoopInv, MoverInv, RangeInv, ExactSettings, PlaceInv,
         NEW c \in Consumers, BRPop(c)
  PROVE  /\ MoverInv' /\ RangeInv'
         /\ IsInjective(list') /\ \A u \in Tasks : TaskInv(u)'
<1> USE DEF history
<1>1. /\ pc[c] = "consume" /\ list # <<>> /\ StartMover(c) /\ list' = PopRest
      /\ UNCHANGED <<delay, pipe, published, delivered>>
  BY DEF BRPop
<1>2. IsInjective(list) /\ \A u \in Tasks : TaskInv(u)
  BY PlaceByTask
<1>3. PICK t \in Tasks : t = PopEnd
  BY <1>1, PopFacts DEF PopEnd, TypeOK
<1>4. /\ t \in Ready /\ t \notin Ready' /\ IsInjective(list')
      /\ \A u \in Ready \ {t} : u \in Ready'
      /\ Ready' \subseteq Ready
  <2>1. /\ t \in Ready /\ t \notin Ready' /\ IsInjective(list') /\ Ready' \subseteq Ready
    BY <1>1, <1>2, <1>3, PopFacts DEF PopEnd, PopRest, Ready, TypeOK
  <2>2. ASSUME NEW u \in Ready \ {t} PROVE u \in Ready'
    BY <1>1, <1>3, PopKeeps DEF PopEnd, PopRest, Ready, TypeOK
  <2> QED BY <2>1, <2>2
<1>5. MoverInv' /\ RangeInv' /\ Moving' = Moving
  BY <1>1, StartMoverInv
<1>6. /\ \A d \in Consumers \ {c} : hand'[d] = hand[d] /\ pc'[d] = pc[d]
      /\ hand'[c] = t /\ pc'[c] = "payloads" /\ hand[c] = NoTask
  BY <1>1, <1>3 DEF BRPop, TypeOK, LoopInv
<1>7. TaskInv(t)'
  <2>1. /\ t \notin Delayed \cup Moving /\ Held(t) = {} /\ Publishing(t) = {}
        /\ delivered[t] < published[t] /\ published[t] # 0
    BY <1>2, <1>4 DEF TaskInv, TypeOK
  <2>2. Held(t)' = {c}
    BY <1>6, <2>1 DEF Held
  <2>3. Publishing(t)' = {} /\ t \notin (Delayed \cup Moving)'
    BY <1>1, <1>5, <2>1 DEF Publishing, Delayed
  <2>4. published[t] \in Nat /\ delivered[t] \in Nat
    BY DEF TypeOK
  <2> QED BY <1>1, <1>4, <2>1, <2>2, <2>3, <2>4 DEF TaskInv
<1>8. ASSUME NEW u \in Tasks \ {t} PROVE TaskInv(u)'
  <2>1. Held(u)' = Held(u) /\ c \notin Held(u)
    BY <1>6, TasksAssumption DEF Held
  <2>2. \A d \in Held(u) : pc'[d] = pc[d]
    BY <1>6, <2>1 DEF Held
  <2>3. Untouched(u)
    BY <1>1, <1>4, <1>5, <2>1, <2>2 DEF Untouched, Delayed, Publishing
  <2> QED BY <1>2, <2>3, UntouchedTask
<1> QED BY <1>4, <1>5, <1>7, <1>8

\* MULTIHGETALL finds the payload: the task is delivered.
LEMMA DeliverInv ==
  ASSUME TypeOK, LoopInv, MoverInv, RangeInv, PlaceInv,
         NEW c \in Consumers, Payloads(c), hand[c] \in stored
  PROVE  /\ MoverInv' /\ RangeInv'
         /\ IsInjective(list') /\ \A u \in Tasks : TaskInv(u)'
<1> USE DEF redis, movers
<1>1. /\ pc[c] = "payloads" /\ pc' = [pc EXCEPT ![c] = "start"]
      /\ delivered' = [delivered EXCEPT ![hand[c]] = @ + 1]
      /\ UNCHANGED <<list, delay, pipe, queues, mover, hand, published>>
  BY DEF Payloads
<1>2. IsInjective(list) /\ \A u \in Tasks : TaskInv(u)
  BY PlaceByTask
<1>3. PICK t \in Tasks : t = hand[c]
  BY DEF TypeOK
<1>4. /\ delivered'[t] = delivered[t] + 1 /\ \A u \in Tasks \ {t} : delivered'[u] = delivered[u]
      /\ pc'[c] = "start" /\ \A d \in Consumers \ {c} : pc'[d] = pc[d]
  BY <1>1, <1>3 DEF TypeOK
<1>5. MoverInv' /\ RangeInv'
  BY <1>1 DEF MoverInv, RangeInv
<1>6. TaskInv(t)'
  <2>1. c \in Held(t)
    BY <1>3 DEF Held
  <2>2. delivered[t] < published[t] /\ published[t] \in Nat /\ delivered[t] \in Nat
    BY <1>1, <1>2, <2>1 DEF TaskInv, TypeOK
  <2>3. /\ \A v \in Held(t) \cup Publishing(t) : v = c
        /\ t \notin Ready \cup Delayed \cup Moving
    BY <1>2, <2>1 DEF TaskInv
  <2>4. Publishing(t) = {}
    BY <1>1, <2>3 DEF Publishing, LoopInv
  <2>5. /\ Held(t)' = Held(t) /\ Publishing(t)' = Publishing(t)
        /\ t \notin (Ready \cup Delayed \cup Moving)'
    BY <1>1, <2>3 DEF Held, Publishing, Ready, Delayed, Moving
  <2> QED BY <1>1, <1>4, <2>2, <2>3, <2>4, <2>5 DEF TaskInv
<1>7. ASSUME NEW u \in Tasks \ {t} PROVE TaskInv(u)'
  <2>1. c \notin Held(u)
    BY <1>3 DEF Held
  <2>2. \A d \in Held(u) : pc'[d] = pc[d]
    BY <1>4, <2>1 DEF Held
  <2>3. Untouched(u)
    BY <1>1, <1>4, <2>2 DEF Untouched, Ready, Delayed, Moving, Held, Publishing
  <2> QED BY <1>2, <2>3, UntouchedTask
<1> QED BY <1>1, <1>2, <1>5, <1>6, <1>7

\* The mover reads the zset: what it reads stays in the zset.
LEMMA MoverRangeInv ==
  ASSUME TypeOK, MoverInv, RangeInv, PlaceInv, NEW c \in Consumers, MoverRange(c)
  PROVE  /\ MoverInv' /\ RangeInv'
         /\ IsInjective(list') /\ \A u \in Tasks : TaskInv(u)'
<1> USE DEF redis, loops, history
<1>1. /\ mover[c].step = "range"
      /\ UNCHANGED <<list, delay, pipe, queues, pc, hand, published, delivered>>
  BY DEF MoverRange
<1>2. IsInjective(list) /\ \A u \in Tasks : TaskInv(u)
  BY PlaceByTask
<1>3. \/ SetMover(c, "wait", 0, {})
      \/ SetMover(c, "payloads", mover[c].max, Due(mover[c].max))
  BY DEF MoverRange
<1>4. MoverInv' /\ Moving' \subseteq Delayed /\ Moving = {}
  <2>1. Due(mover[c].max) \subseteq Delayed /\ mover[c].ids = {}
    BY <1>1 DEF Due, Delayed, MoverInv
  <2>2. CASE SetMover(c, "wait", 0, {})
    BY <1>1, <2>1, <2>2, SetMoverInv
  <2>3. CASE SetMover(c, "payloads", mover[c].max, Due(mover[c].max))
    BY <1>1, <2>1, <2>3, SetMoverInv
  <2> QED BY <1>3, <2>2, <2>3
<1>5. RangeInv'
  BY <1>1, <1>3, SetMoverFact DEF RangeInv, Due
<1>6. ASSUME NEW u \in Tasks PROVE TaskInv(u)'
  <2>1. TaskInv(u)
    BY <1>2
  <2>2. (u \in Ready)' <=> u \in Ready
    BY <1>1 DEF Ready
  <2>3. (u \in Delayed)' <=> u \in Delayed
    BY <1>1 DEF Delayed
  <2>4. Held(u)' = Held(u) /\ Publishing(u)' = Publishing(u)
    BY <1>1 DEF Held, Publishing
  <2> QED BY <1>1, <1>4, <2>1, <2>2, <2>3, <2>4 DEF TaskInv
<1> QED BY <1>1, <1>2, <1>4, <1>5, <1>6

\* The mover's transaction: what it pushes, it removes from the zset.
LEMMA MoverCommitInv ==
  ASSUME TypeOK, MoverInv, RangeInv, ExactSettings, PlaceInv, NEW c \in Consumers, MoverCommit(c)
  PROVE  /\ MoverInv' /\ RangeInv'
         /\ IsInjective(list') /\ \A u \in Tasks : TaskInv(u)'
<1> USE DEF loops, history
<1>1. /\ mover[c].step = "commit" /\ SetMover(c, "wait", 0, {})
      /\ delay' = RemoveRange(mover[c].max)
      /\ UNCHANGED <<pipe, queues, pc, hand, published, delivered>>
  BY DEF MoverCommit, MoverTx
<1>2. IsInjective(list) /\ \A u \in Tasks : TaskInv(u)
  BY PlaceByTask
<1>3. MoverInv' /\ Moving' = {} /\ Moving = mover[c].ids
  BY <1>1, SetMoverInv
<1>4. RangeInv'
  <2>1. \A d \in Consumers : mover'[d].ids = {}
    BY <1>3 DEF Moving
  <2> QED BY <2>1 DEF RangeInv
<1>5. PICK ids \in Orders(mover[c].ids) : list' = list \o ids
  BY DEF MoverCommit, MoverTx
<1>6. ids \in Seq(Tasks) /\ ToSet(ids) = mover[c].ids /\ IsInjective(ids)
  BY <1>5, OrdersFacts DEF TypeOK
<1>7. Ready' = Ready \cup Moving /\ IsInjective(list')
  <2>1. Ready \cap Moving = {}
    BY DEF PlaceInv, SingleCopy
  <2>2. ToSet(list) \cap ToSet(ids) = {}
    BY <1>3, <1>6, <2>1 DEF Ready
  <2>3. ToSet(list \o ids) = ToSet(list) \cup ToSet(ids) /\ IsInjective(list \o ids)
    BY <1>2, <1>6, <2>2, ConcatFacts DEF TypeOK
  <2> QED BY <1>3, <1>5, <1>6, <2>3 DEF Ready
<1>8. \A u \in Tasks : u \in Delayed' => u \in Delayed /\ u \notin Moving
  <2>1. delay' = [u \in Tasks |-> IF u \in Due(mover[c].max) THEN NotDelayed ELSE delay[u]]
    BY <1>1 DEF RemoveRange, ExactSettings
  <2>2. \A u \in mover[c].ids : u \in Tasks /\ (u \in Delayed => u \in Due(mover[c].max))
    BY DEF RangeInv, Due, Delayed, TypeOK
  <2> QED BY <1>3, <2>1, <2>2 DEF Delayed
<1>9. ASSUME NEW u \in Tasks PROVE TaskInv(u)'
  <2>1. TaskInv(u)
    BY <1>2
  <2>2. Held(u)' = Held(u) /\ Publishing(u)' = Publishing(u)
    BY <1>1 DEF Held, Publishing
  <2> QED BY <1>1, <1>3, <1>7, <1>8, <2>1, <2>2 DEF TaskInv
<1> QED BY <1>3, <1>4, <1>7, <1>9

-----------------------------------------------------------------------------
(* The theorems.                                                           *)

LEMMA InitCopyInv == Init => CopyInv
<1> SUFFICES ASSUME Init PROVE CopyInv
  OBVIOUS
<1>1. Ready = {} /\ IsInjective(list)
  BY DEF Init, Ready, ToSet, IsInjective
<1>2. Delayed = {} /\ Moving = {}
  BY DEF Init, Delayed, Moving, NoMover
<1>3. \A t \in Tasks : Held(t) = {} /\ Publishing(t) = {}
  BY TasksAssumption DEF Init, Held, Publishing
<1>4. MoverInv /\ RangeInv /\ LoopInv
  BY InitLoopInv DEF Init, MoverInv, RangeInv, NoMover
<1>5. FreshInv /\ PendingInv /\ SingleCopy
  BY <1>1, <1>2, <1>3 DEF FreshInv, PendingInv, SingleCopy
<1>6. NoDuplicateDelivery
  BY DEF Init, NoDuplicateDelivery
<1> QED BY <1>4, <1>5, <1>6 DEF CopyInv

LEMMA CopyStep ==
  ASSUME ExactSettings, TypeOK, CopyInv, [Next]_vars
  PROVE  CopyInv'
<1>1. TypeOK' /\ LoopInv'
  BY TypeLoopStep DEF CopyInv
<1>2. MoverInv /\ RangeInv /\ LoopInv /\ PlaceInv
  BY DEF CopyInv, PlaceInv
<1>3. ASSUME MoverInv', RangeInv', Shrink PROVE CopyInv'
  BY <1>1, <1>2, <1>3, ShrinkPlaceInv DEF CopyInv, PlaceInv
<1>4. ASSUME MoverInv', RangeInv', IsInjective(list'), \A u \in Tasks : TaskInv(u)'
      PROVE  CopyInv'
  <2>1. PlaceInv'
    BY <1>1, <1>4, PlaceByTaskNext
  <2> QED BY <1>1, <1>4, <2>1 DEF CopyInv, PlaceInv
<1>5. CASE UNCHANGED vars
  BY <1>2, <1>5 DEF vars, redis, movers, loops, history, CopyInv, PlaceInv, MoverInv, RangeInv,
     LoopInv, FreshInv, PendingInv, SingleCopy, NoDuplicateDelivery, Ready, Delayed, Moving,
     Held, Publishing
<1>6. CASE Tick \/ Maintenance \/ \E p \in Processes : Crash(p)
  BY <1>2, <1>3, <1>6, ShrinkingSteps
<1>7. ASSUME NEW p \in Producers, NEW t \in Tasks, NEW cd \in Countdowns, Publish(p, t, cd)
      PROVE  CopyInv'
  <2>1. MoverInv' /\ RangeInv'
    BY <1>2, <1>7 DEF Publish, redis, movers, MoverInv, RangeInv
  <2> QED BY <1>2, <1>4, <1>7, <2>1, PublishPlaceInv
<1>8. ASSUME NEW w \in Workers, PipeStep(w) PROVE CopyInv'
  <2>1. CASE HMSet(w) \/ PipeError(w)
    BY <1>2, <1>3, <2>1, ShrinkingSteps
  <2>2. CASE Push(w)
    BY <1>2, <1>4, <2>2, PushInv
  <2>3. CASE PushAgain(w)
    BY <2>3 DEF PushAgain, MaySendAgain, ExactSettings
  <2> QED BY <1>8, <2>1, <2>2, <2>3 DEF PipeStep
<1>9. ASSUME NEW c \in Consumers, ConsumerStep(c) PROVE CopyInv'
  <2>1. CASE \/ BRPopNil(c) \/ BRPopError(c) \/ Start(c) \/ ConsumeError(c) \/ Finish(c)
             \/ Payloads(c) /\ hand[c] \notin stored
    BY <1>2, <1>3, <2>1, ShrinkingConsumerSteps
  <2>2. CASE BRPop(c)
    BY <1>2, <1>4, <2>2, BRPopInv
  <2>3. CASE Payloads(c) /\ hand[c] \in stored
    BY <1>2, <1>4, <2>3, DeliverInv
  <2>4. ASSUME NEW cd \in Countdowns, Retry(c, cd) PROVE CopyInv'
    <3>1. MoverInv' /\ RangeInv'
      BY <1>2, <2>4 DEF Retry, redis, movers, MoverInv, RangeInv
    <3> QED BY <1>2, <1>4, <2>4, <3>1, RetryPlaceInv
  <2> QED BY <1>9, <2>1, <2>2, <2>3, <2>4 DEF ConsumerStep
<1>10. ASSUME NEW c \in Consumers, MoverStep(c) PROVE CopyInv'
  <2>1. CASE MoverTick(c) \/ MoverPayloads(c) \/ MoverError(c)
    BY <1>2, <1>3, <2>1, ShrinkingMoverSteps
  <2>2. CASE MoverRange(c)
    BY <1>2, <1>4, <2>2, MoverRangeInv
  <2>3. CASE MoverCommit(c)
    BY <1>2, <1>4, <2>3, MoverCommitInv
  <2>4. CASE MoverCommitAgain(c)
    BY <2>4 DEF MoverCommitAgain, MaySendAgain, ExactSettings
  <2> QED BY <1>10, <2>1, <2>2, <2>3, <2>4 DEF MoverStep
<1> QED BY <1>5, <1>6, <1>7, <1>8, <1>9, <1>10 DEF Next

\* The strengthening that carries both properties below.
LEMMA CopyInvariant == ASSUME ExactSettings PROVE Spec => [](TypeOK /\ CopyInv)
<1>1. Init => TypeOK /\ CopyInv
  BY InitTypeOK, InitCopyInv
<1>2. TypeOK /\ CopyInv /\ [Next]_vars => (TypeOK /\ CopyInv)'
  BY TypeLoopStep, CopyStep DEF CopyInv
<1> QED BY <1>1, <1>2, PTL DEF Spec

\* In one worker process, without a key prefix and with a client that sends
\* each command once, a task has at most one copy that can still be consumed,
\* whatever crashes, lost replies, deletions and flushes there are.
THEOREM SingleCopyCorrect == ASSUME ExactSettings PROVE Spec => []SingleCopy
<1>1. TypeOK /\ CopyInv => SingleCopy
  BY DEF CopyInv
<1> QED BY <1>1, CopyInvariant, PTL

\* In the same settings a task comes to a consumer at most once for each time
\* it was published (README.md:443).
THEOREM DeliveredAtMostOnce == ASSUME ExactSettings PROVE Spec => []NoDuplicateDelivery
<1>1. TypeOK /\ CopyInv => NoDuplicateDelivery
  BY DEF CopyInv
<1> QED BY <1>1, CopyInvariant, PTL
=============================================================================

-------------------------- MODULE TaskSystemProofs --------------------------
(***************************************************************************)
(* Theorems about TaskSystem, for any number of tasks, consumers, retries, *)
(* failures and calls of Cancel and Count.                                 *)
(*                                                                         *)
(* A task's hash is written by whoever has its id, and by Cancel.  PlaceInv*)
(* says that only one has it; HashInv what they find in the hash and have  *)
(* read of it, so that the retries left and the runs add up; SureInv and   *)
(* CountInv what follows for a canceled and for a counted task.            *)
(***************************************************************************)
EXTENDS TaskSystem, TLAPS

Busy(t) == \E c \in Consumers : Job(c) = t

\* An id is in the list, in the zset, with its producer or with one consumer.
PlaceInv ==
  /\ ready \cap delayed = {}
  /\ \A c \in Consumers :
       /\ At(c) = "idle" <=> Job(c) = NoTask
       /\ Job(c) \notin ready \cup delayed
       /\ Job(c) # NoTask => born[Job(c)] = "queued"
  /\ \A c, d \in Consumers : c # d /\ Job(c) = Job(d) => Job(c) = NoTask
  /\ \A t \in ready \cup delayed : born[t] = "queued"
  /\ mover.ids \subseteq delayed /\ Read \subseteq mover.ids
  /\ mover.at # "commit" => Read = {}

\* Those whose id is on its way to a consumer, and what is then in their hash.
OnTheWay(t) ==
  \/ born[t] = "hash" \/ t \in ready \cup delayed
  \/ \E c \in Consumers : Job(c) = t /\ At(c) \in {"load", "push"}

Runnable(t, h) == h.status \in {"waiting", "failed"} /\ h.retries = MaxRetries - runs[t]
                  /\ h.retries \in Nat

Fresh(t, h) == Runnable(t, h) \/ h.status = "canceled"

\* By task, by payload of the mover, and by consumer.
TaskInv ==
  /\ \A t \in Tasks : born[t] = "new" =>
       hash[t] = NoHash /\ runs[t] = 0 /\ t \notin asked \cup expiring
  /\ \A t \in Tasks : OnTheWay(t) =>
       /\ Fresh(t, hash[t]) \/ ~Exists(t)
       /\ t \notin asked => Exists(t) /\ t \notin expiring
  /\ \A t \in expiring \ asked :
       runs[t] = MaxRetries + 1 \/ (hash[t].status = "succeeded" /\ ~Busy(t))
  /\ cancel.task # NoTask => cancel.task \in asked /\ cancel.object.status = "canceled"

ReadInv ==
  \A t \in Read :
    /\ Fresh(t, mover.payloads[t])
    /\ t \notin asked => mover.payloads[t] = hash[t]

LoopInv ==
  \A c \in Consumers :
    /\ At(c) = "begin" =>
         /\ Fresh(Job(c), Object(c)) /\ Object(c).old = Object(c).status
         /\ Job(c) \notin asked =>
              Stored(Object(c)) = hash[Job(c)] /\ Job(c) \notin expiring
    /\ At(c) = "run" =>
         /\ Object(c).status = "processing" /\ Object(c).old \in {"waiting", "failed"}
         /\ Object(c).retries \in Nat
         /\ runs[Job(c)] = MaxRetries - Object(c).retries + 1

HashInv == TaskInv /\ ReadInv /\ LoopInv

SureInv ==
  /\ sure \subseteq asked
  /\ \A t \in sure : hash[t].status \in {"canceled", "none"}
  /\ \A c \in Consumers : Job(c) \in sure =>
       At(c) # "run" /\ (At(c) = "begin" => Object(c).status = "canceled")
  /\ \A t \in Read \cap sure : mover.payloads[t].status = "canceled"

CountInv ==
  /\ count.at = "one" =>
       \A t \in count.first \ count.begun :
         /\ born[t] = "queued" /\ t \notin delayed
         /\ \A c \in Consumers : Job(c) = t => At(c) \in {"load", "begin"}
  /\ CountOnce

-----------------------------------------------------------------------------
(* Types.                                                                  *)

USE SystemAssumption

LEMMA HashTypes ==
  ASSUME NEW h \in Hashes, h # NoHash
  PROVE  h \in [status : Statuses, retries : Int] /\ Loaded(h) \in Objects
<1>1. h \in [status : Statuses, retries : Int]
  BY DEF Hashes
<1>2. QED
  BY <1>1 DEF Loaded, Objects

LEMMA ObjectTypes ==
  /\ New \in Objects /\ Off \in [at : {"idle", "load", "begin", "run", "push"},
                                  task : Tasks \cup {NoTask}, object : Objects]
  /\ \A o \in Objects : Stored(o) \in Hashes /\ Stored(o) # NoHash
<1>1. New \in Objects
  BY DEF New, Objects, Statuses
<1>2. \A o \in Objects : Stored(o) \in [status : Statuses, retries : Int]
  BY DEF Stored, Objects
<1>3. \A o \in Objects : Stored(o).status # "none"
  BY DEF Stored, Objects, Statuses
<1>4. QED
  BY <1>1, <1>2, <1>3 DEF Off, Hashes, NoHash

\* What a consumer is: its step, its task and its object.
Loops == [at : {"idle", "load", "begin", "run", "push"},
          task : Tasks \cup {NoTask}, object : Objects]

LEMMA JobTypes ==
  ASSUME TypeOK, NEW c \in Consumers
  PROVE  /\ consumer[c] \in Loops
         /\ At(c) \in {"idle", "load", "begin", "run", "push"}
         /\ Job(c) \in Tasks \cup {NoTask} /\ Object(c) \in Objects
BY DEF TypeOK, Loops, At, Job, Object

LEMMA MoveTypes ==
  ASSUME TypeOK, NEW c \in Consumers,
         NEW step \in {"idle", "load", "begin", "run", "push"},
         NEW t \in Tasks \cup {NoTask}, NEW o \in Objects, Move(c, step, t, o)
  PROVE  consumer' \in [Consumers -> Loops]
<1>1. [at |-> step, task |-> t, object |-> o] \in Loops
  BY DEF Loops
<1>2. QED
  BY <1>1 DEF TypeOK, Move, Loops

LEMMA LeaveTypes ==
  ASSUME TypeOK, NEW c \in Consumers, Leave(c)
  PROVE  consumer' \in [Consumers -> Loops]
BY ObjectTypes DEF TypeOK, Leave, Loops

LEMMA SaveTypes ==
  ASSUME TypeOK, NEW t \in Tasks, NEW o \in Objects
  PROVE  /\ HMSet(t, o) => hash' \in [Tasks -> Hashes]
         /\ Save(t, o) => hash' \in [Tasks -> Hashes] /\ expiring' \subseteq Tasks
BY ObjectTypes DEF TypeOK, HMSet, Save

LEMMA FaultTypes == TypeOK /\ Fault => calls' \in [cancels : Nat, counts : Nat, faults : Nat]
BY DEF TypeOK, Fault

LEMMA MoverTypes ==
  TypeOK => /\ Rest \in [at : {"wait", "read", "commit"}, ids : SUBSET Tasks,
                         payloads : [Tasks -> Hashes]]
            /\ Read \subseteq Tasks
BY DEF Rest, Read, Hashes

\* A consumer that works has a task.
LEMMA HasJob ==
  ASSUME TypeOK, PlaceInv, NEW c \in Consumers, At(c) # "idle"
  PROVE  Job(c) \in Tasks /\ Job(c) # NoTask
BY JobTypes DEF PlaceInv

LEMMA TypeInit == Init => TypeOK
<1>1. NoHash \in Hashes
  BY DEF Hashes
<1>2. QED
  BY <1>1, ObjectTypes DEF Init, TypeOK

\* The actions type correctness needs a task for, which PlaceInv provides.
LEMMA TypeStep == TypeOK /\ PlaceInv /\ [Next]_vars => TypeOK'
<1> SUFFICES ASSUME TypeOK, PlaceInv, [Next]_vars PROVE TypeOK'
  OBVIOUS
<1>1. ASSUME NEW t \in Tasks, PublishHash(t) PROVE TypeOK'
  BY <1>1, ObjectTypes DEF TypeOK, PublishHash, HMSet
<1>2. ASSUME NEW t \in Tasks, PublishId(t) PROVE TypeOK'
  BY <1>2 DEF TypeOK, PublishId, PushId, Fault
<1>3. ASSUME NEW t \in Tasks, CancelGet(t) PROVE TypeOK'
  <2>1. Loaded(hash[t]) \in Objects
    BY <1>3, HashTypes DEF TypeOK, CancelGet, Exists
  <2>2. [Loaded(hash[t]) EXCEPT !.status = "canceled"] \in Objects
    BY <2>1 DEF Objects, Statuses
  <2>3. QED
    BY <1>3, <2>2 DEF TypeOK, CancelGet, redis
<1>4. ASSUME NEW t \in Tasks, Expire(t) PROVE TypeOK'
  BY <1>4 DEF TypeOK, Expire, Hashes
<1>5. ASSUME NEW c \in Consumers, BRPop(c) PROVE TypeOK'
  BY <1>5, ObjectTypes DEF TypeOK, BRPop, Move, Fault
<1>6. ASSUME NEW c \in Consumers, Load(c) PROVE TypeOK'
  <2>1. Exists(Job(c)) => Loaded(hash[Job(c)]) \in Objects
    BY <1>6, HasJob, HashTypes DEF TypeOK, Load, Exists
  <2>2. consumer' \in [Consumers -> Loops]
    BY <1>6, <2>1, HasJob, MoveTypes, LeaveTypes DEF Load
  <2>3. calls' \in [cancels : Nat, counts : Nat, faults : Nat]
    BY <1>6, FaultTypes DEF TypeOK, Load
  <2>4. QED
    BY <1>6, <2>2, <2>3 DEF TypeOK, Load, Loops, redis
<1>7. ASSUME NEW c \in Consumers, Skip(c) PROVE TypeOK'
  BY <1>7, ObjectTypes DEF TypeOK, Skip, Leave, redis
<1>8. ASSUME NEW c \in Consumers, Begin(c) PROVE TypeOK'
  <2> DEFINE o == [Object(c) EXCEPT !.status = "processing"]
  <2>1. Job(c) \in Tasks /\ o \in Objects
    BY <1>8, HasJob, JobTypes DEF Begin, Objects, Statuses
  <2>2. consumer' \in [Consumers -> Loops]
    BY <1>8, <2>1, MoveTypes DEF Begin
  <2>3. hash' \in [Tasks -> Hashes] /\ expiring' \subseteq Tasks
    BY <1>8, <2>1, SaveTypes DEF Begin
  <2>4. runs' \in [Tasks -> Nat]
    <3>1. runs' = [runs EXCEPT ![Job(c)] = @ + 1]
      BY <1>8 DEF Begin
    <3>2. QED
      BY <3>1, <2>1 DEF TypeOK
  <2>5. count' \in [at : {"none", "one", "done"}, first : SUBSET Tasks,
                    second : SUBSET Tasks, begun : SUBSET Tasks]
    <3>1. CASE count.at = "one"
      <4>1. count' = [count EXCEPT !.begun = @ \cup {Job(c)}]
        BY <1>8, <3>1 DEF Begin
      <4>2. QED
        BY <4>1, <2>1 DEF TypeOK
    <3>2. CASE count.at # "one"
      BY <1>8, <3>2 DEF TypeOK, Begin
    <3>3. QED
      BY <3>1, <3>2
  <2>6. QED
    BY <1>8, <2>2, <2>3, <2>4, <2>5 DEF TypeOK, Begin, Loops
<1>9. ASSUME NEW c \in Consumers, EndSave(c) PROVE TypeOK'
  <2>1. PICK s \in Results : Save(Job(c), [Object(c) EXCEPT !.status = s])
    BY <1>9 DEF EndSave
  <2>2. Job(c) \in Tasks /\ [Object(c) EXCEPT !.status = s] \in Objects
    BY <1>9, HasJob, JobTypes DEF EndSave, Objects, Statuses, Results
  <2>3. hash' \in [Tasks -> Hashes] /\ expiring' \subseteq Tasks
    BY <2>1, <2>2, SaveTypes
  <2>4. QED
    BY <1>9, <2>3, LeaveTypes DEF TypeOK, EndSave, Loops
<1>10. ASSUME NEW c \in Consumers, EndRetry(c) PROVE TypeOK'
  <2> DEFINE o == [Object(c) EXCEPT !.retries = @ - 1]
  <2>1. PICK s \in Results : HMSet(Job(c), [o EXCEPT !.status = s])
    BY <1>10 DEF EndRetry
  <2>2. Job(c) \in Tasks /\ [o EXCEPT !.status = s] \in Objects
    <3>1. Job(c) \in Tasks /\ Object(c) \in Objects
      BY <1>10, HasJob, JobTypes DEF EndRetry
    <3>2. o \in Objects
      BY <3>1 DEF Objects
    <3>3. QED
      BY <3>1, <3>2 DEF Objects, Statuses, Results
  <2>3. hash' \in [Tasks -> Hashes]
    BY <2>1, <2>2, SaveTypes
  <2>4. consumer' \in [Consumers -> Loops]
    BY <1>10, <2>2, ObjectTypes, MoveTypes DEF EndRetry
  <2>5. QED
    BY <1>10, <2>3, <2>4 DEF TypeOK, EndRetry, Loops
<1>11. ASSUME NEW c \in Consumers, RetryId(c) PROVE TypeOK'
  <2>1. Job(c) \in Tasks
    BY <1>11, HasJob DEF RetryId
  <2>2. ready' \subseteq Tasks /\ delayed' \subseteq Tasks
    BY <1>11, <2>1 DEF TypeOK, RetryId, PushId
  <2>3. calls' \in [cancels : Nat, counts : Nat, faults : Nat]
    BY <1>11, FaultTypes DEF TypeOK, RetryId
  <2>4. QED
    BY <1>11, <2>2, <2>3, LeaveTypes DEF TypeOK, RetryId, Loops
<1>12. ASSUME NEW c \in Consumers, SaveError(c) PROVE TypeOK'
  BY <1>12, LeaveTypes, FaultTypes DEF TypeOK, SaveError, Loops, redis
<1>13. CASE MoverRange
  BY <1>13 DEF TypeOK, MoverRange, redis
<1>14. CASE MoverPayloads
  <2>1. [t \in Tasks |-> IF t \in mover.ids THEN hash[t] ELSE NoHash] \in [Tasks -> Hashes]
    BY DEF TypeOK, Hashes
  <2>2. mover' \in [at : {"wait", "read", "commit"}, ids : SUBSET Tasks,
                    payloads : [Tasks -> Hashes]]
    BY <1>14, <2>1, MoverTypes DEF TypeOK, MoverPayloads
  <2>3. QED
    BY <1>14, <2>2 DEF TypeOK, MoverPayloads, redis
<1>15. CASE MoverCommit
  BY <1>15, MoverTypes DEF TypeOK, MoverCommit
<1>16. CASE MoverError
  BY <1>16, MoverTypes, FaultTypes DEF TypeOK, MoverError, redis
<1>17. CASE CancelSave
  <2>1. cancel.task \in Tasks /\ cancel.object \in Objects
    BY <1>17 DEF TypeOK, CancelSave
  <2>2. hash' \in [Tasks -> Hashes] /\ expiring' \subseteq Tasks
    BY <1>17, <2>1, SaveTypes DEF CancelSave
  <2>3. QED
    BY <1>17, <2>1, <2>2, ObjectTypes DEF TypeOK, CancelSave
<1>18. CASE CountFirst
  BY <1>18 DEF TypeOK, CountFirst, Counted, redis
<1>19. CASE CountSecond
  BY <1>19 DEF TypeOK, CountSecond, Counted, redis
<1>20. CASE Crash
  BY <1>20, MoverTypes, ObjectTypes DEF TypeOK, Crash, redis
<1>21. CASE UNCHANGED vars
  BY <1>21 DEF TypeOK, vars, redis
<1>22. CASE CancelError
  BY <1>22, ObjectTypes, FaultTypes DEF TypeOK, CancelError, redis
<1>23. QED
  BY <1>1, <1>2, <1>3, <1>4, <1>5, <1>6, <1>7, <1>8, <1>9, <1>10, <1>11, <1>12, <1>13,
     <1>14, <1>15, <1>16, <1>17, <1>18, <1>19, <1>20, <1>21, <1>22
  DEF Next, ConsumerStep, MoverStep

-----------------------------------------------------------------------------
(* Places.                                                                 *)

\* What a step of a consumer does to it, and that the others stay.
LEMMA MoveEffect ==
  ASSUME TypeOK, NEW c \in Consumers, NEW step, NEW t, NEW o, Move(c, step, t, o)
  PROVE  /\ At(c)' = step /\ Job(c)' = t /\ Object(c)' = o
         /\ \A d \in Consumers : d # c =>
              At(d)' = At(d) /\ Job(d)' = Job(d) /\ Object(d)' = Object(d)
BY DEF TypeOK, Move, At, Job, Object

LEMMA LeaveEffect ==
  ASSUME TypeOK, NEW c \in Consumers, Leave(c)
  PROVE  /\ At(c)' = "idle" /\ Job(c)' = NoTask
         /\ \A d \in Consumers : d # c =>
              At(d)' = At(d) /\ Job(d)' = Job(d) /\ Object(d)' = Object(d)
BY DEF TypeOK, Leave, Off, At, Job, Object

LEMMA StayEffect ==
  UNCHANGED consumer =>
    \A d \in Consumers : At(d)' = At(d) /\ Job(d)' = Job(d) /\ Object(d)' = Object(d)
BY DEF At, Job, Object

LEMMA RestEffect ==
  mover' = Rest => Read' = {} /\ mover'.ids = {} /\ mover'.at = "wait"
BY DEF Rest, Read

LEMMA PlaceInit == Init => PlaceInv
BY DEF Init, PlaceInv, Off, At, Job, Read

LEMMA PlaceStep == TypeOK /\ PlaceInv /\ [Next]_vars => PlaceInv'
<1> SUFFICES ASSUME TypeOK, PlaceInv, [Next]_vars PROVE PlaceInv'
  OBVIOUS
<1> USE DEF PlaceInv
<1>1. ASSUME UNCHANGED <<ready, delayed, consumer, mover>>,
             \A t \in Tasks : born[t] = "queued" => born'[t] = "queued"
      PROVE  PlaceInv'
  <2>1. Read' = Read
    BY <1>1 DEF Read
  <2>2. QED
    BY <1>1, <2>1, StayEffect, JobTypes DEF TypeOK
<1>2. ASSUME NEW t \in Tasks, PublishHash(t) PROVE PlaceInv'
  BY <1>1, <1>2 DEF PublishHash, TypeOK
<1>3. ASSUME NEW t \in Tasks, PublishId(t) PROVE PlaceInv'
  <2>1. /\ t \notin ready \cup delayed /\ \A c \in Consumers : Job(c) # t
        /\ born' = [born EXCEPT ![t] = "queued"] /\ UNCHANGED <<consumer, mover>>
    BY <1>3 DEF PublishId
  <2>2. \/ ready' = ready \cup {t} /\ delayed' = delayed
        \/ ready' = ready /\ delayed' = delayed \cup {t}
        \/ ready' = ready /\ delayed' = delayed
    BY <1>3 DEF PublishId, PushId
  <2>3. Read' = Read
    BY <2>1 DEF Read
  <2>4. QED
    BY <2>1, <2>2, <2>3, StayEffect, JobTypes DEF TypeOK
<1>4. ASSUME NEW t \in Tasks, CancelGet(t) PROVE PlaceInv'
  BY <1>1, <1>4 DEF CancelGet, redis
<1>5. ASSUME NEW t \in Tasks, Expire(t) PROVE PlaceInv'
  BY <1>1, <1>5 DEF Expire
<1>6. ASSUME NEW c \in Consumers, BRPop(c) PROVE PlaceInv'
  <2>1. PICK t \in ready : /\ ready' = ready \ {t}
                           /\ Move(c, "load", t, New) \/ UNCHANGED consumer
    BY <1>6 DEF BRPop
  <2>2. UNCHANGED <<delayed, born, mover>> /\ t \in Tasks /\ t # NoTask /\ born[t] = "queued"
        /\ \A d \in Consumers : Job(d) # t
    BY <1>6 DEF BRPop, TypeOK
  <2>3. Read' = Read
    BY <2>2 DEF Read
  <2>4. CASE UNCHANGED consumer
    BY <2>1, <2>2, <2>3, <2>4, StayEffect
  <2>5. CASE Move(c, "load", t, New)
    <3>1. /\ At(c)' = "load" /\ Job(c)' = t
          /\ \A d \in Consumers : d # c => At(d)' = At(d) /\ Job(d)' = Job(d)
      BY <2>5, MoveEffect
    <3>2. QED
      BY <2>1, <2>2, <2>3, <3>1
  <2>6. QED
    BY <2>1, <2>4, <2>5
\* A consumer that keeps its id, or forgets it.
<1>7. ASSUME NEW c \in Consumers, UNCHANGED <<ready, delayed, born, mover>>,
             \/ Leave(c)
             \/ \E step \in {"begin", "run", "push"}, o \in Objects :
                  At(c) # "idle" /\ Move(c, step, Job(c), o)
      PROVE  PlaceInv'
  <2>1. Read' = Read
    BY <1>7 DEF Read
  <2>2. CASE Leave(c)
    <3>1. /\ At(c)' = "idle" /\ Job(c)' = NoTask
          /\ \A d \in Consumers : d # c => At(d)' = At(d) /\ Job(d)' = Job(d)
      BY <2>2, LeaveEffect
    <3>2. NoTask \notin ready \cup delayed
      BY DEF TypeOK
    <3>3. QED
      BY <1>7, <2>1, <3>1, <3>2
  <2>3. ASSUME NEW step \in {"begin", "run", "push"}, NEW o \in Objects,
               At(c) # "idle", Move(c, step, Job(c), o)
        PROVE  PlaceInv'
    <3>1. /\ At(c)' = step /\ Job(c)' = Job(c)
          /\ \A d \in Consumers : d # c => At(d)' = At(d) /\ Job(d)' = Job(d)
      BY <2>3, MoveEffect
    <3>2. QED
      BY <1>7, <2>1, <2>3, <3>1
  <2>4. QED
    BY <1>7, <2>2, <2>3
<1>8. ASSUME NEW c \in Consumers, Load(c) PROVE PlaceInv'
  <2>1. Exists(Job(c)) => Loaded(hash[Job(c)]) \in Objects
    BY <1>8, HasJob, HashTypes DEF TypeOK, Load, Exists
  <2>2. QED
    BY <1>7, <1>8, <2>1 DEF Load, redis
<1>9. ASSUME NEW c \in Consumers, Skip(c) PROVE PlaceInv'
  BY <1>7, <1>9 DEF Skip, redis
<1>10. ASSUME NEW c \in Consumers, Begin(c) PROVE PlaceInv'
  <2>1. [Object(c) EXCEPT !.status = "processing"] \in Objects
    BY JobTypes DEF Objects, Statuses
  <2>2. QED
    BY <1>7, <1>10, <2>1 DEF Begin
<1>11. ASSUME NEW c \in Consumers, EndSave(c) PROVE PlaceInv'
  BY <1>7, <1>11 DEF EndSave
<1>12. ASSUME NEW c \in Consumers, EndRetry(c) PROVE PlaceInv'
  BY <1>7, <1>12, ObjectTypes DEF EndRetry
<1>13. ASSUME NEW c \in Consumers, RetryId(c) PROVE PlaceInv'
  <2>1. /\ Job(c) \in Tasks /\ Job(c) # NoTask /\ Job(c) \notin ready \cup delayed
        /\ born[Job(c)] = "queued" /\ UNCHANGED <<born, mover>>
        /\ \A d \in Consumers : d # c => Job(d) # Job(c)
    BY <1>13, HasJob DEF RetryId
  <2>2. \/ ready' = ready \cup {Job(c)} /\ delayed' = delayed
        \/ ready' = ready /\ delayed' = delayed \cup {Job(c)}
        \/ ready' = ready /\ delayed' = delayed
    BY <1>13 DEF RetryId, PushId
  <2>3. /\ At(c)' = "idle" /\ Job(c)' = NoTask
        /\ \A d \in Consumers : d # c => At(d)' = At(d) /\ Job(d)' = Job(d)
    BY <1>13, LeaveEffect DEF RetryId
  <2>4. Read' = Read /\ NoTask \notin ready \cup delayed
    BY <2>1 DEF Read, TypeOK
  <2>5. QED
    BY <2>1, <2>2, <2>3, <2>4
<1>14. ASSUME NEW c \in Consumers, SaveError(c) PROVE PlaceInv'
  BY <1>7, <1>14 DEF SaveError, redis
<1>15. CASE MoverRange
  <2>1. mover'.ids \subseteq delayed /\ Read' = Read /\ Read = {}
        /\ UNCHANGED <<ready, delayed, born, consumer>>
    BY <1>15 DEF MoverRange, TypeOK, Read, redis
  <2>2. QED
    BY <2>1, StayEffect
<1>16. CASE MoverPayloads
  <2>1. UNCHANGED <<ready, delayed, born, consumer>>
    BY <1>16 DEF MoverPayloads, redis
  <2>2. /\ mover'.ids \subseteq mover.ids /\ Read' \subseteq mover'.ids
        /\ mover'.at # "commit" => Read' = {}
    <3> DEFINE payloads == [t \in Tasks |-> IF t \in mover.ids THEN hash[t] ELSE NoHash]
    <3>1. CASE payloads = Rest.payloads
      BY <1>16, <3>1, RestEffect DEF MoverPayloads
    <3>2. CASE payloads # Rest.payloads
      <4>1. mover' = [mover EXCEPT !.at = "commit", !.payloads = payloads]
        BY <1>16, <3>2 DEF MoverPayloads
      <4>2. mover'.ids = mover.ids /\ mover'.at = "commit" /\ mover'.payloads = payloads
        BY <4>1 DEF TypeOK
      <4>3. Read' \subseteq mover.ids
        BY <4>2 DEF Read
      <4>4. QED
        BY <4>2, <4>3
    <3>3. QED
      BY <3>1, <3>2
  <2>3. QED
    BY <2>1, <2>2, StayEffect
<1>17. CASE MoverCommit
  <2>1. /\ ready' = ready \cup Read /\ delayed' = delayed \ mover.ids
        /\ UNCHANGED <<born, consumer>> /\ Read' = {} /\ mover'.ids = {}
    BY <1>17, RestEffect DEF MoverCommit
  <2>2. QED
    BY <2>1, StayEffect
<1>18. CASE MoverError
  <2>1. UNCHANGED <<ready, delayed, born, consumer>> /\ Read' = {} /\ mover'.ids = {}
    BY <1>18, RestEffect DEF MoverError, redis
  <2>2. QED
    BY <2>1, StayEffect
<1>19. CASE CancelSave
  BY <1>1, <1>19 DEF CancelSave
<1>20. CASE CountFirst
  BY <1>1, <1>20 DEF CountFirst, redis
<1>21. CASE CountSecond
  BY <1>1, <1>21 DEF CountSecond, redis
<1>22. CASE Crash
  <2>1. UNCHANGED <<ready, delayed, born>> /\ Read' = {} /\ mover'.ids = {}
        /\ \A d \in Consumers : At(d)' = "idle" /\ Job(d)' = NoTask
    BY <1>22, RestEffect DEF Crash, redis, Off, At, Job
  <2>2. NoTask \notin ready \cup delayed
    BY DEF TypeOK
  <2>3. QED
    BY <2>1, <2>2
<1>23. CASE UNCHANGED vars
  BY <1>1, <1>23 DEF vars, redis
<1>24. CASE CancelError
  BY <1>1, <1>24 DEF CancelError, redis
<1>25. QED
  BY <1>2, <1>3, <1>4, <1>5, <1>6, <1>8, <1>9, <1>10, <1>11, <1>12, <1>13, <1>14, <1>15,
     <1>16, <1>17, <1>18, <1>19, <1>20, <1>21, <1>22, <1>23, <1>24
  DEF Next, ConsumerStep, MoverStep

-----------------------------------------------------------------------------
(* Hashes.                                                                 *)

Content == <<hash, runs, expiring, asked>>

\* Steps that write no hash and whose readers read nothing new.
LEMMA TaskFrame ==
  ASSUME TaskInv, UNCHANGED Content, cancel' = cancel \/ cancel'.task = NoTask,
         \A t \in Tasks : born'[t] = "new" => born[t] = "new",
         \A t \in Tasks : OnTheWay(t)' => OnTheWay(t),
         \A t \in Tasks : Busy(t)' => Busy(t) \/ OnTheWay(t),
         TypeOK
  PROVE  TaskInv'
BY DEF TaskInv, Content, Fresh, Runnable, Exists, TypeOK

LEMMA ReadFrame ==
  ASSUME ReadInv, UNCHANGED Content, Read' \subseteq Read,
         \A t \in Read' : mover'.payloads[t] = mover.payloads[t]
  PROVE  ReadInv'
BY DEF ReadInv, Content, Fresh, Runnable

LEMMA LoopFrame ==
  ASSUME LoopInv, UNCHANGED Content,
         \A c \in Consumers : At(c)' \in {"begin", "run"} =>
           At(c)' = At(c) /\ Job(c)' = Job(c) /\ Object(c)' = Object(c)
  PROVE  LoopInv'
BY DEF LoopInv, Content, Fresh, Runnable

\* A consumer that leaves.
LEMMA LeaveFrame ==
  ASSUME TypeOK, HashInv, NEW c \in Consumers, Leave(c),
         UNCHANGED Content, UNCHANGED <<cancel, born, mover, ready, delayed>>
  PROVE  HashInv'
<1>1. /\ At(c)' = "idle" /\ Job(c)' = NoTask
      /\ \A d \in Consumers : d # c =>
           At(d)' = At(d) /\ Job(d)' = Job(d) /\ Object(d)' = Object(d)
  BY LeaveEffect
<1>2. \A t \in Tasks : (OnTheWay(t)' => OnTheWay(t)) /\ (Busy(t)' => Busy(t))
  BY <1>1, SystemAssumption DEF OnTheWay, Busy
<1>3. Read' = Read
  BY DEF Read
<1>4. QED
  BY <1>1, <1>2, <1>3, TaskFrame, ReadFrame, LoopFrame DEF HashInv

\* Only the named consumer has the task, so that nobody else finds it.
LEMMA OnlyJob ==
  ASSUME TypeOK, PlaceInv, NEW c \in Consumers, At(c) # "idle"
  PROVE  /\ Job(c) \in Tasks /\ born[Job(c)] = "queued"
         /\ Job(c) \notin ready \cup delayed \cup Read
         /\ \A d \in Consumers : d # c => Job(d) # Job(c)
         /\ At(c) \in {"begin", "run"} => ~OnTheWay(Job(c))
         /\ At(c) = "load" => OnTheWay(Job(c))
BY HasJob DEF PlaceInv, OnTheWay

LEMMA HashInit == Init => HashInv
BY DEF Init, HashInv, TaskInv, ReadInv, LoopInv, OnTheWay, Off, At, Job, Read

LEMMA HashStep == TypeOK /\ PlaceInv /\ HashInv /\ [Next]_vars => HashInv'
<1> SUFFICES ASSUME TypeOK, PlaceInv, HashInv, [Next]_vars PROVE HashInv'
  OBVIOUS
<1>1. ASSUME NEW t \in Tasks, PublishHash(t) PROVE HashInv'
  <2>1. /\ born[t] = "new" /\ born' = [born EXCEPT ![t] = "hash"]
        /\ hash' = [hash EXCEPT ![t] = [status |-> "waiting", retries |-> MaxRetries]]
        /\ UNCHANGED <<consumer, mover, ready, delayed, expiring, asked, runs, cancel>>
    BY <1>1 DEF PublishHash, HMSet, Stored, New
  <2>2. t \notin Read /\ ~OnTheWay(t) /\ ~Busy(t)
    BY <2>1 DEF PlaceInv, OnTheWay, Busy, TypeOK
  <2>3. \A u \in Tasks : u # t => (OnTheWay(u)' => OnTheWay(u)) /\ (Busy(u)' => Busy(u))
    BY <2>1, StayEffect DEF OnTheWay, Busy, TypeOK
  <2>4. TaskInv'
    <3>1. Exists(t)' /\ Fresh(t, hash[t])' /\ born'[t] # "new"
      BY <2>1, SystemAssumption DEF HashInv, TaskInv, TypeOK, Exists, NoHash, Fresh, Runnable
    <3>2. QED
      BY <2>1, <2>2, <2>3, <3>1
      DEF HashInv, TaskInv, TypeOK, Exists, Fresh, Runnable
  <2>5. ReadInv'
    BY <2>1, <2>2 DEF HashInv, ReadInv, Read, Fresh, Runnable, TypeOK
  <2>6. LoopInv'
    BY <2>1, <2>2, StayEffect, JobTypes, OnlyJob
    DEF HashInv, LoopInv, Fresh, Runnable, TypeOK, Busy
  <2>7. QED
    BY <2>4, <2>5, <2>6 DEF HashInv
<1>2. ASSUME NEW t \in Tasks, PublishId(t) PROVE HashInv'
  <2>1. /\ born[t] = "hash" /\ born' = [born EXCEPT ![t] = "queued"]
        /\ ready' \subseteq ready \cup {t} /\ delayed' \subseteq delayed \cup {t}
        /\ UNCHANGED Content /\ UNCHANGED <<consumer, mover, cancel>>
    BY <1>2 DEF PublishId, PushId, Content
  <2>2. \A u \in Tasks : (OnTheWay(u)' => OnTheWay(u)) /\ (Busy(u)' => Busy(u))
    BY <2>1, StayEffect DEF OnTheWay, Busy, TypeOK
  <2>3. Read' = Read
    BY <2>1 DEF Read
  <2>4. QED
    BY <2>1, <2>2, <2>3, StayEffect, TaskFrame, ReadFrame, LoopFrame DEF HashInv, TypeOK
<1>3. ASSUME NEW t \in Tasks, CancelGet(t) PROVE HashInv'
  <2>1. /\ Exists(t) /\ asked' = asked \cup {t}
        /\ cancel'.task = t /\ cancel'.object.status = "canceled"
        /\ UNCHANGED <<hash, expiring, ready, delayed, born, consumer, mover, runs>>
    <3>1. cancel' = [task |-> t, object |-> [Loaded(hash[t]) EXCEPT !.status = "canceled"]]
      BY <1>3 DEF CancelGet
    <3>2. cancel'.object.status = "canceled" /\ cancel'.task = t
      BY <3>1 DEF Loaded
    <3>3. QED
      BY <1>3, <3>2 DEF CancelGet, redis
  <2>2. born[t] # "new"
    BY <2>1 DEF HashInv, TaskInv, Exists
  <2>3. \A u \in Tasks : (OnTheWay(u)' <=> OnTheWay(u)) /\ (Busy(u)' <=> Busy(u))
    BY <2>1, StayEffect DEF OnTheWay, Busy
  <2>4. TaskInv'
    BY <2>1, <2>2, <2>3 DEF HashInv, TaskInv, Fresh, Runnable, Exists, TypeOK
  <2>5. ReadInv'
    BY <2>1 DEF HashInv, ReadInv, Read, Fresh, Runnable
  <2>6. LoopInv'
    BY <2>1, StayEffect DEF HashInv, LoopInv, Fresh, Runnable
  <2>7. QED
    BY <2>4, <2>5, <2>6 DEF HashInv
<1>4. ASSUME NEW t \in Tasks, Expire(t) PROVE HashInv'
  <2>1. /\ t \in expiring /\ expiring' = expiring \ {t}
        /\ hash' = [hash EXCEPT ![t] = NoHash]
        /\ UNCHANGED <<ready, delayed, born, consumer, mover, runs, asked, cancel>>
    BY <1>4 DEF Expire
  <2>2. \A u \in Tasks : (OnTheWay(u)' <=> OnTheWay(u)) /\ (Busy(u)' <=> Busy(u))
    BY <2>1, StayEffect DEF OnTheWay, Busy
  <2>3. OnTheWay(t) => t \in asked
    BY <2>1 DEF HashInv, TaskInv
  <2>4. ~Exists(t)' /\ \A u \in Tasks : u # t => hash'[u] = hash[u]
    BY <2>1 DEF Exists, TypeOK
  <2>5. TaskInv'
    BY <2>1, <2>2, <2>3, <2>4 DEF HashInv, TaskInv, Fresh, Runnable, Exists, TypeOK
  <2>6. ReadInv'
    <3>1. t \in Read => OnTheWay(t)
      BY DEF PlaceInv, OnTheWay
    <3>2. QED
      BY <2>1, <2>3, <2>4, <3>1 DEF HashInv, ReadInv, Read, Fresh, Runnable
  <2>7. LoopInv'
    <3>1. ASSUME NEW c \in Consumers, At(c) = "begin", Job(c) \notin asked
          PROVE  Job(c) # t /\ hash'[Job(c)] = hash[Job(c)]
      BY <2>1, <2>4, <3>1, HasJob DEF HashInv, LoopInv
    <3>2. QED
      BY <2>1, <3>1, StayEffect DEF HashInv, LoopInv, Fresh, Runnable
  <2>8. QED
    BY <2>5, <2>6, <2>7 DEF HashInv
<1>5. ASSUME NEW c \in Consumers, BRPop(c) PROVE HashInv'
  <2>1. PICK t \in ready : /\ ready' = ready \ {t}
                           /\ Move(c, "load", t, New) \/ UNCHANGED consumer
    BY <1>5 DEF BRPop
  <2>2. UNCHANGED Content /\ UNCHANGED <<delayed, born, mover, cancel>>
        /\ t \in Tasks /\ OnTheWay(t)
    BY <1>5 DEF BRPop, TypeOK, Content, OnTheWay
  <2>3. \/ \A d \in Consumers : At(d)' = At(d) /\ Job(d)' = Job(d) /\ Object(d)' = Object(d)
        \/ /\ At(c)' = "load" /\ Job(c)' = t
           /\ \A d \in Consumers : d # c =>
                At(d)' = At(d) /\ Job(d)' = Job(d) /\ Object(d)' = Object(d)
    BY <2>1, StayEffect, MoveEffect
  <2>4. /\ \A u \in Tasks : OnTheWay(u)' => OnTheWay(u)
        /\ \A u \in Tasks : Busy(u)' => Busy(u) \/ OnTheWay(u)
        /\ \A u \in Tasks : born'[u] = "new" => born[u] = "new"
    BY <2>1, <2>2, <2>3 DEF OnTheWay, Busy
  <2>5. Read' = Read
    BY <2>2 DEF Read
  <2>6. TaskInv'
    BY <2>2, <2>4, TaskFrame DEF HashInv
  <2>7. ReadInv'
    BY <2>2, <2>5, ReadFrame DEF HashInv
  <2>8. LoopInv'
    BY <2>2, <2>3, LoopFrame DEF HashInv
  <2>9. QED
    BY <2>6, <2>7, <2>8 DEF HashInv
<1>6. ASSUME NEW c \in Consumers, Load(c) PROVE HashInv'
  <2>1. At(c) = "load" /\ UNCHANGED Content
        /\ UNCHANGED <<cancel, born, mover, ready, delayed>>
    BY <1>6 DEF Load, redis, Content
  <2>2. CASE Leave(c)
    BY <2>1, <2>2, LeaveFrame
  <2>3. CASE Exists(Job(c)) /\ Move(c, "begin", Job(c), Loaded(hash[Job(c)]))
    <3>1. /\ At(c)' = "begin" /\ Job(c)' = Job(c) /\ Object(c)' = Loaded(hash[Job(c)])
          /\ \A d \in Consumers : d # c =>
               At(d)' = At(d) /\ Job(d)' = Job(d) /\ Object(d)' = Object(d)
      BY <2>3, MoveEffect
    <3>2. \A t \in Tasks : (OnTheWay(t)' => OnTheWay(t)) /\ (Busy(t)' => Busy(t))
      BY <2>1, <3>1 DEF OnTheWay, Busy
    <3>3. Read' = Read
      BY <2>1 DEF Read
    <3>4. TaskInv' /\ ReadInv'
      BY <2>1, <3>2, <3>3, TaskFrame, ReadFrame DEF HashInv
    <3>5. /\ Job(c) \in Tasks /\ Fresh(Job(c), hash[Job(c)])
          /\ Job(c) \notin asked => Job(c) \notin expiring
          /\ hash[Job(c)] \in [status : Statuses, retries : Int]
      BY <2>1, <2>3, OnlyJob, HashTypes DEF HashInv, TaskInv, Exists, TypeOK
    <3>6. /\ Fresh(Job(c), Object(c))' /\ (Object(c).old = Object(c).status)'
          /\ (Stored(Object(c)) = hash[Job(c)])'
      BY <2>1, <3>1, <3>5 DEF Loaded, Stored, Fresh, Runnable, Content
    <3>7. LoopInv'
      BY <2>1, <3>1, <3>5, <3>6 DEF HashInv, LoopInv, Fresh, Runnable, Content
    <3>8. QED
      BY <3>4, <3>7 DEF HashInv
  <2>4. QED
    BY <1>6, <2>2, <2>3 DEF Load
<1>7. ASSUME NEW c \in Consumers, Skip(c) PROVE HashInv'
  BY <1>7, LeaveFrame DEF Skip, redis, Content
<1>8. ASSUME NEW c \in Consumers, SaveError(c) PROVE HashInv'
  BY <1>8, LeaveFrame DEF SaveError, redis, Content
<1>9. ASSUME NEW c \in Consumers, RetryId(c) PROVE HashInv'
  <2>1. /\ At(c) = "push" /\ Leave(c) /\ UNCHANGED Content
        /\ UNCHANGED <<cancel, born, mover>>
        /\ ready' \subseteq ready \cup {Job(c)} /\ delayed' \subseteq delayed \cup {Job(c)}
    BY <1>9 DEF RetryId, PushId, Content
  <2>2. /\ At(c)' = "idle" /\ Job(c)' = NoTask
        /\ \A d \in Consumers : d # c =>
             At(d)' = At(d) /\ Job(d)' = Job(d) /\ Object(d)' = Object(d)
    BY <2>1, LeaveEffect
  <2>3. \A t \in Tasks : (OnTheWay(t)' => OnTheWay(t)) /\ (Busy(t)' => Busy(t))
    BY <2>1, <2>2, SystemAssumption DEF OnTheWay, Busy
  <2>4. Read' = Read
    BY <2>1 DEF Read
  <2>5. QED
    BY <2>1, <2>2, <2>3, <2>4, TaskFrame, ReadFrame, LoopFrame DEF HashInv
<1>10. ASSUME NEW c \in Consumers, Begin(c) PROVE HashInv'
  <2> DEFINE t == Job(c)
             o == [Object(c) EXCEPT !.status = "processing"]
  <2>1. /\ At(c) = "begin" /\ Object(c).status # "canceled"
        /\ Move(c, "run", t, o) /\ Save(t, o) /\ runs' = [runs EXCEPT ![t] = @ + 1]
        /\ UNCHANGED <<ready, delayed, born, mover, cancel, asked>>
    BY <1>10 DEF Begin
  <2>2. /\ Runnable(t, Object(c)) /\ Object(c).old = Object(c).status
        /\ t \notin asked => t \notin expiring
        /\ Object(c) \in Objects
    BY <2>1, JobTypes DEF HashInv, LoopInv, Fresh
  <2>3. /\ t \in Tasks /\ born[t] = "queued" /\ t \notin Read /\ ~OnTheWay(t)
        /\ t \notin ready \cup delayed
        /\ \A d \in Consumers : d # c => Job(d) # t
    BY <2>1, OnlyJob
  <2>4. /\ o.status = "processing" /\ o.old \in {"waiting", "failed"}
        /\ o.retries \in Nat /\ o.retries = MaxRetries - runs[t]
        /\ Finished(o) => o.retries = 0
    BY <2>2 DEF Objects, Runnable, Finished
  <2>5. /\ runs'[t] = runs[t] + 1 /\ \A u \in Tasks : u # t => runs'[u] = runs[u]
        /\ \A u \in Tasks : u # t => hash'[u] = hash[u]
        /\ \A u \in Tasks : u # t => (u \in expiring' <=> u \in expiring)
        /\ t \in expiring' => t \in expiring \/ Finished(o)
    BY <2>1, <2>3 DEF Save, HMSet, TypeOK
  <2>6. /\ At(c)' = "run" /\ Job(c)' = t /\ Object(c)' = o
        /\ \A d \in Consumers : d # c =>
             At(d)' = At(d) /\ Job(d)' = Job(d) /\ Object(d)' = Object(d)
    BY <2>1, MoveEffect
  <2>7. \A u \in Tasks : (OnTheWay(u)' => OnTheWay(u)) /\ (Busy(u)' <=> Busy(u))
    BY <2>1, <2>6 DEF OnTheWay, Busy
  <2>8. runs[t] \in Nat /\ runs'[t] = MaxRetries - o.retries + 1
    BY <2>3, <2>4, <2>5, SystemAssumption DEF TypeOK
  <2> HIDE DEF t, o
  <2>9. TaskInv'
    <3>1. ASSUME NEW u \in Tasks, born'[u] = "new"
          PROVE  hash'[u] = NoHash /\ runs'[u] = 0 /\ u \notin asked' \cup expiring'
      BY <2>1, <2>3, <2>5, <3>1 DEF HashInv, TaskInv
    <3>2. ASSUME NEW u \in Tasks, OnTheWay(u)'
          PROVE  /\ Fresh(u, hash[u])' \/ ~Exists(u)'
                 /\ u \notin asked' => Exists(u)' /\ u \notin expiring'
      BY <2>1, <2>3, <2>5, <2>7, <3>2 DEF HashInv, TaskInv, Fresh, Runnable, Exists
    <3>3. ASSUME NEW u \in expiring' \ asked'
          PROVE  runs'[u] = MaxRetries + 1 \/ (hash'[u].status = "succeeded" /\ ~Busy(u)')
      <4>1. u \in Tasks
        BY <1>10, TypeStep DEF TypeOK
      <4>2. CASE u = t
        BY <2>1, <2>2, <2>4, <2>5, <2>8, <4>2, SystemAssumption
      <4>3. CASE u # t
        BY <2>1, <2>5, <2>7, <4>1, <4>3 DEF HashInv, TaskInv
      <4>4. QED
        BY <4>2, <4>3
    <3>4. cancel'.task # NoTask => cancel'.task \in asked' /\ cancel'.object.status = "canceled"
      BY <2>1 DEF HashInv, TaskInv
    <3>5. QED
      BY <3>1, <3>2, <3>3, <3>4 DEF TaskInv
  <2>10. ReadInv'
    BY <2>1, <2>3, <2>5, MoverTypes DEF HashInv, ReadInv, Read, Fresh, Runnable
  <2>11. LoopInv'
    <3>1. ASSUME NEW d \in Consumers, d # c, At(d) # "idle"
          PROVE  runs'[Job(d)] = runs[Job(d)] /\ hash'[Job(d)] = hash[Job(d)]
                 /\ (Job(d) \in expiring' <=> Job(d) \in expiring)
      BY <2>3, <2>5, <3>1, HasJob
    <3>2. QED
      BY <2>1, <2>4, <2>6, <2>8, <3>1 DEF HashInv, LoopInv, Fresh, Runnable
  <2>12. QED
    BY <2>9, <2>10, <2>11 DEF HashInv
\* The end of an attempt: its task may be on its way again, or not.
<1>11. ASSUME NEW c \in Consumers, At(c) = "run", NEW t, t = Job(c),
              Job(c)' = NoTask \/ (At(c)' = "push" /\ Job(c)' = t),
              At(c)' \in {"idle", "push"},
              \A d \in Consumers : d # c =>
                At(d)' = At(d) /\ Job(d)' = Job(d) /\ Object(d)' = Object(d),
              UNCHANGED <<ready, delayed, born, mover, cancel, asked, runs>>,
              \A u \in Tasks : u # t => hash'[u] = hash[u],
              \A u \in Tasks : u # t => (u \in expiring' <=> u \in expiring),
              At(c)' = "push" =>
                /\ Fresh(t, hash'[t]) /\ hash'[t] # NoHash
                /\ t \notin asked => t \notin expiring',
              t \in expiring' \ asked =>
                runs[t] = MaxRetries + 1 \/ (hash'[t].status = "succeeded" /\ At(c)' = "idle"),
              expiring' \subseteq Tasks
       PROVE  HashInv'
  <2>1. /\ t \in Tasks /\ born[t] = "queued" /\ t \notin Read
        /\ t \notin ready \cup delayed
        /\ \A d \in Consumers : d # c => Job(d) # t
        /\ t # NoTask
    BY <1>11, OnlyJob, HasJob
  <2>2. At(c)' = "idle" => Job(c)' = NoTask \/ At(c)' = "push"
    BY <1>11
  <2>3. \A u \in Tasks : u # t => (OnTheWay(u)' => OnTheWay(u)) /\ (Busy(u)' => Busy(u))
    BY <1>11, <2>1, SystemAssumption DEF OnTheWay, Busy
  <2>4. OnTheWay(t)' => At(c)' = "push"
    BY <1>11, <2>1 DEF OnTheWay
  <2>5. At(c)' = "idle" => ~Busy(t)'
    BY <1>11, <2>1 DEF Busy
  <2>6. TaskInv'
    <3>1. ASSUME NEW u \in Tasks, born'[u] = "new"
          PROVE  hash'[u] = NoHash /\ runs'[u] = 0 /\ u \notin asked' \cup expiring'
      BY <1>11, <2>1, <3>1 DEF HashInv, TaskInv
    <3>2. ASSUME NEW u \in Tasks, OnTheWay(u)'
          PROVE  /\ Fresh(u, hash[u])' \/ ~Exists(u)'
                 /\ u \notin asked' => Exists(u)' /\ u \notin expiring'
      <4>1. CASE u = t
        BY <1>11, <2>4, <3>2, <4>1 DEF Fresh, Runnable, Exists
      <4>2. CASE u # t
        BY <1>11, <2>3, <3>2, <4>2 DEF HashInv, TaskInv, Fresh, Runnable, Exists
      <4>3. QED
        BY <4>1, <4>2
    <3>3. ASSUME NEW u \in expiring' \ asked'
          PROVE  runs'[u] = MaxRetries + 1 \/ (hash'[u].status = "succeeded" /\ ~Busy(u)')
      BY <1>11, <2>3, <2>5, <3>3 DEF HashInv, TaskInv
    <3>4. cancel'.task # NoTask => cancel'.task \in asked' /\ cancel'.object.status = "canceled"
      BY <1>11 DEF HashInv, TaskInv
    <3>5. QED
      BY <3>1, <3>2, <3>3, <3>4 DEF TaskInv
  <2>7. ReadInv'
    BY <1>11, <2>1, MoverTypes DEF HashInv, ReadInv, Read, Fresh, Runnable
  <2>8. LoopInv'
    <3>1. ASSUME NEW d \in Consumers, d # c, At(d) # "idle"
          PROVE  hash'[Job(d)] = hash[Job(d)]
                 /\ (Job(d) \in expiring' <=> Job(d) \in expiring)
      BY <1>11, <2>1, <3>1, HasJob
    <3>2. QED
      BY <1>11, <3>1 DEF HashInv, LoopInv, Fresh, Runnable
  <2>9. QED
    BY <2>6, <2>7, <2>8 DEF HashInv
<1>12. ASSUME NEW c \in Consumers, EndSave(c) PROVE HashInv'
  <2>1. PICK s \in Results :
          (s = "succeeded" \/ Object(c).retries = 0) /\ Save(Job(c), [Object(c) EXCEPT !.status = s])
    BY <1>12 DEF EndSave
  <2> DEFINE t == Job(c)
             o == [Object(c) EXCEPT !.status = s]
  <2>2. /\ At(c) = "run" /\ Leave(c)
        /\ UNCHANGED <<ready, delayed, born, mover, cancel, asked, runs>>
    BY <1>12 DEF EndSave
  <2>3. /\ t \in Tasks /\ Object(c) \in Objects /\ o \in Objects
        /\ o.status = s /\ Object(c).retries = o.retries /\ o.old = Object(c).old
    BY <2>2, HasJob, JobTypes DEF Objects, Results, Statuses
  <2>4. /\ o.old \in {"waiting", "failed"} /\ o.retries \in Nat
        /\ runs[t] = MaxRetries - o.retries + 1
    BY <2>2, <2>3 DEF HashInv, LoopInv
  <2>5. /\ \A u \in Tasks : u # t => hash'[u] = hash[u]
        /\ \A u \in Tasks : u # t => (u \in expiring' <=> u \in expiring)
        /\ hash'[t] = Stored(o)
    BY <2>1, <2>3 DEF Save, HMSet, TypeOK
  <2>6. s = "succeeded" \/ o.retries = 0
    BY <2>1, <2>3
  <2> HIDE DEF o
  <2>7. s # "succeeded" => runs[t] = MaxRetries + 1
    BY <2>4, <2>6, SystemAssumption
  <2>8. hash'[t].status = s
    BY <2>3, <2>5 DEF Stored
  <2>9. /\ At(c)' = "idle" /\ Job(c)' = NoTask
        /\ \A d \in Consumers : d # c =>
             At(d)' = At(d) /\ Job(d)' = Job(d) /\ Object(d)' = Object(d)
    BY <2>2, LeaveEffect
  <2>10. expiring' \subseteq Tasks
    BY <2>1, <2>3, SaveTypes DEF o
  <2> HIDE DEF t
  <2>11. t = Job(c)
    BY DEF t
  <2>12. QED
    BY <1>11, <2>2, <2>5, <2>7, <2>8, <2>9, <2>10, <2>11
<1>13. ASSUME NEW c \in Consumers, EndRetry(c) PROVE HashInv'
  <2> DEFINE t == Job(c)
             o == [Object(c) EXCEPT !.retries = @ - 1]
  <2>1. PICK s \in {"failed", "canceled"} : HMSet(t, [o EXCEPT !.status = s])
    BY <1>13 DEF EndRetry, Results
  <2>2. /\ At(c) = "run" /\ Object(c).retries # 0 /\ Move(c, "push", t, New)
        /\ UNCHANGED <<ready, delayed, born, mover, cancel, asked, runs, expiring>>
    BY <1>13 DEF EndRetry
  <2>3. t \in Tasks /\ Object(c) \in Objects /\ ~OnTheWay(t)
    BY <2>2, OnlyJob, JobTypes
  <2>4. /\ Object(c).retries \in Nat /\ runs[t] = MaxRetries - Object(c).retries + 1
    BY <2>2 DEF HashInv, LoopInv
  <2>5. Stored([o EXCEPT !.status = s]) = [status |-> s, retries |-> Object(c).retries - 1]
    BY <2>3 DEF Objects, Stored
  <2>6. /\ \A u \in Tasks : u # t => hash'[u] = hash[u]
        /\ hash'[t] = [status |-> s, retries |-> Object(c).retries - 1]
    BY <2>1, <2>3, <2>5 DEF HMSet, TypeOK
  <2>7. Fresh(t, hash'[t]) /\ hash'[t] # NoHash
    <3>1. Object(c).retries - 1 \in Nat
          /\ Object(c).retries - 1 = MaxRetries - runs[t]
      BY <2>2, <2>3, <2>4, SystemAssumption DEF TypeOK
    <3>2. QED
      BY <2>1, <2>6, <3>1 DEF Fresh, Runnable, NoHash
  <2>8. Busy(t)
    BY DEF Busy
  <2>9. t \notin asked => t \notin expiring
    <3>1. runs[t] # MaxRetries + 1
      BY <2>2, <2>3, <2>4, SystemAssumption DEF TypeOK
    <3>2. QED
      BY <2>8, <3>1 DEF HashInv, TaskInv
  <2>10. /\ At(c)' = "push" /\ Job(c)' = t
         /\ \A d \in Consumers : d # c =>
              At(d)' = At(d) /\ Job(d)' = Job(d) /\ Object(d)' = Object(d)
    BY <2>2, MoveEffect
  <2>11. expiring' \subseteq Tasks
    BY <2>2 DEF TypeOK
  <2> HIDE DEF t
  <2>12. t = Job(c)
    BY DEF t
  <2>13. QED
    BY <1>11, <2>2, <2>6, <2>7, <2>9, <2>10, <2>11, <2>12
\* Steps of the mover and calls of Count.
<1>14. ASSUME UNCHANGED Content,
              UNCHANGED <<consumer, born, ready, cancel>>, delayed' \subseteq delayed,
              Read' \subseteq Read, \A t \in Read' : mover'.payloads[t] = mover.payloads[t]
       PROVE  HashInv'
  <2>1. \A t \in Tasks : (OnTheWay(t)' => OnTheWay(t)) /\ (Busy(t)' => Busy(t))
    BY <1>14, StayEffect DEF OnTheWay, Busy
  <2>2. QED
    BY <1>14, <2>1, StayEffect, TaskFrame, ReadFrame, LoopFrame DEF HashInv
<1>15. CASE MoverRange
  <2>1. Read' = Read /\ mover'.payloads = mover.payloads
    BY <1>15 DEF MoverRange, TypeOK, Read
  <2>2. QED
    BY <1>14, <1>15, <2>1 DEF MoverRange, redis, Content
<1>16. CASE MoverPayloads
  <2>1. UNCHANGED Content /\ UNCHANGED <<consumer, born, ready, delayed, cancel>>
    BY <1>16 DEF MoverPayloads, redis, Content
  <2>2. CASE mover' = Rest
    BY <1>14, <2>1, <2>2, RestEffect
  <2>3. CASE mover' # Rest
    <3> DEFINE payloads == [t \in Tasks |-> IF t \in mover.ids THEN hash[t] ELSE NoHash]
    <3>1. mover' = [mover EXCEPT !.at = "commit", !.payloads = payloads]
      BY <1>16, <2>3 DEF MoverPayloads
    <3>2. mover'.payloads = payloads
      BY <3>1 DEF TypeOK
    <3>3. \A t \in Read' : /\ t \in Tasks /\ mover'.payloads[t] = hash[t]
                           /\ OnTheWay(t) /\ Exists(t)
      BY <3>2 DEF Read, Exists, OnTheWay, PlaceInv
    <3>4. ReadInv'
      BY <2>1, <3>3 DEF HashInv, TaskInv, ReadInv, Fresh, Runnable, Content
    <3>5. \A t \in Tasks : (OnTheWay(t)' => OnTheWay(t)) /\ (Busy(t)' => Busy(t))
      BY <2>1, StayEffect DEF OnTheWay, Busy
    <3>6. TaskInv' /\ LoopInv'
      BY <2>1, <3>5, StayEffect, TaskFrame, LoopFrame DEF HashInv
    <3>7. QED
      BY <3>4, <3>6 DEF HashInv
  <2>4. QED
    BY <2>2, <2>3
<1>17. CASE MoverCommit
  <2>1. /\ hash' = [t \in Tasks |-> IF t \in Read THEN mover.payloads[t] ELSE hash[t]]
        /\ ready' = ready \cup Read /\ delayed' = delayed \ mover.ids /\ mover' = Rest
        /\ UNCHANGED <<expiring, born, consumer, cancel, runs, asked>>
    BY <1>17 DEF MoverCommit
  <2>2. \A t \in Tasks : (OnTheWay(t)' => OnTheWay(t)) /\ (Busy(t)' <=> Busy(t))
    BY <2>1, StayEffect DEF OnTheWay, Busy, PlaceInv
  <2>3. \A t \in Tasks : t \notin Read \/ t \notin asked => hash'[t] = hash[t]
    BY <2>1 DEF HashInv, ReadInv
  <2>4. \A t \in Read : /\ t \in Tasks /\ OnTheWay(t) /\ Fresh(t, hash'[t]) /\ Exists(t)'
    BY <2>1 DEF HashInv, ReadInv, Read, Exists, OnTheWay, PlaceInv
  <2>5. TaskInv'
    <3>1. ASSUME NEW u \in Tasks, born'[u] = "new"
          PROVE  hash'[u] = NoHash /\ runs'[u] = 0 /\ u \notin asked' \cup expiring'
      BY <2>1, <2>3, <3>1 DEF HashInv, TaskInv
    <3>2. ASSUME NEW u \in Tasks, OnTheWay(u)'
          PROVE  /\ Fresh(u, hash[u])' \/ ~Exists(u)'
                 /\ u \notin asked' => Exists(u)' /\ u \notin expiring'
      BY <2>1, <2>2, <2>3, <2>4, <3>2 DEF HashInv, TaskInv, Fresh, Runnable, Exists
    <3>3. ASSUME NEW u \in expiring' \ asked'
          PROVE  runs'[u] = MaxRetries + 1 \/ (hash'[u].status = "succeeded" /\ ~Busy(u)')
      BY <2>1, <2>2, <2>3, <3>3 DEF HashInv, TaskInv, TypeOK
    <3>4. cancel'.task # NoTask => cancel'.task \in asked' /\ cancel'.object.status = "canceled"
      BY <2>1 DEF HashInv, TaskInv
    <3>5. QED
      BY <3>1, <3>2, <3>3, <3>4 DEF TaskInv
  <2>6. ReadInv'
    BY <2>1, RestEffect DEF ReadInv
  <2>7. LoopInv'
    <3>1. ASSUME NEW d \in Consumers, At(d) # "idle"
          PROVE  hash'[Job(d)] = hash[Job(d)]
      BY <2>3, <3>1, OnlyJob
    <3>2. QED
      BY <2>1, <3>1, StayEffect DEF HashInv, LoopInv, Fresh, Runnable
  <2>8. QED
    BY <2>5, <2>6, <2>7 DEF HashInv
<1>18. CASE MoverError
  BY <1>14, <1>18, RestEffect DEF MoverError, redis, Content
<1>19. CASE CancelSave
  <2> DEFINE t == cancel.task
  <2>1. /\ t \in Tasks /\ t \in asked /\ cancel.object \in Objects
        /\ cancel.object.status = "canceled" /\ Save(t, cancel.object)
        /\ UNCHANGED <<ready, delayed, born, consumer, mover, runs, asked>>
        /\ cancel'.task = NoTask
    BY <1>19 DEF CancelSave, HashInv, TaskInv, TypeOK
  <2>2. /\ \A u \in Tasks : u # t => hash'[u] = hash[u]
        /\ \A u \in Tasks : u # t => (u \in expiring' <=> u \in expiring)
        /\ hash'[t].status = "canceled" /\ expiring' \subseteq Tasks
    BY <2>1, SaveTypes DEF Save, HMSet, Stored, TypeOK
  <2>3. \A u \in Tasks : (OnTheWay(u)' <=> OnTheWay(u)) /\ (Busy(u)' <=> Busy(u))
    BY <2>1, StayEffect DEF OnTheWay, Busy
  <2> HIDE DEF t
  <2>4. TaskInv'
    BY <2>1, <2>2, <2>3 DEF HashInv, TaskInv, Fresh, Runnable, Exists
  <2>5. ReadInv'
    BY <2>1, <2>2, MoverTypes DEF HashInv, ReadInv, Read, Fresh, Runnable
  <2>6. LoopInv'
    <3>1. ASSUME NEW d \in Consumers, At(d) # "idle", Job(d) \notin asked
          PROVE  /\ hash'[Job(d)] = hash[Job(d)]
                 /\ Job(d) \in expiring' <=> Job(d) \in expiring
      BY <2>1, <2>2, <3>1, HasJob
    <3>2. QED
      BY <2>1, <3>1, StayEffect DEF HashInv, LoopInv, Fresh, Runnable
  <2>7. QED
    BY <2>4, <2>5, <2>6 DEF HashInv
<1>20. CASE CountFirst
  BY <1>14, <1>20 DEF CountFirst, redis, Content, Read
<1>21. CASE CountSecond
  BY <1>14, <1>21 DEF CountSecond, redis, Content, Read
<1>22. CASE Crash
  <2>1. /\ UNCHANGED Content /\ UNCHANGED <<born, ready, delayed, cancel>> /\ Read' = {}
        /\ \A d \in Consumers : At(d)' = "idle" /\ Job(d)' = NoTask
    BY <1>22, RestEffect DEF Crash, redis, Off, At, Job, Content
  <2>2. \A t \in Tasks : (OnTheWay(t)' => OnTheWay(t)) /\ (Busy(t)' => Busy(t))
    BY <2>1, SystemAssumption DEF OnTheWay, Busy
  <2>3. QED
    BY <2>1, <2>2, TaskFrame, ReadFrame, LoopFrame DEF HashInv
<1>23. CASE UNCHANGED vars
  BY <1>14, <1>23 DEF vars, redis, Content, Read
<1>24. CASE CancelError
  <2>1. /\ cancel'.task = NoTask /\ UNCHANGED Content
        /\ UNCHANGED <<consumer, born, ready, delayed, mover>>
    BY <1>24 DEF CancelError, redis, Content
  <2>2. \A t \in Tasks : (OnTheWay(t)' <=> OnTheWay(t)) /\ (Busy(t)' <=> Busy(t))
    BY <2>1, StayEffect DEF OnTheWay, Busy
  <2>3. TaskInv'
    BY <2>1, <2>2, TaskFrame DEF HashInv
  <2>4. Read' = Read
    BY <2>1 DEF Read
  <2>5. ReadInv' /\ LoopInv'
    BY <2>1, <2>4, StayEffect, ReadFrame, LoopFrame DEF HashInv
  <2>6. QED
    BY <2>3, <2>5 DEF HashInv
<1>25. QED
  BY <1>1, <1>2, <1>3, <1>4, <1>5, <1>6, <1>7, <1>8, <1>9, <1>10, <1>12, <1>13, <1>15,
     <1>16, <1>17, <1>18, <1>19, <1>20, <1>21, <1>22, <1>23, <1>24
  DEF Next, ConsumerStep, MoverStep

-----------------------------------------------------------------------------
(* Canceled tasks.                                                         *)

\* Nobody comes to hold a payload, and the hashes of canceled tasks stay so.
LEMMA SureFrame ==
  ASSUME SureInv, sure' = sure, asked \subseteq asked',
         \A t \in sure : hash'[t].status \in {"canceled", "none"},
         \A c \in Consumers : Job(c)' \in sure /\ At(c)' \in {"begin", "run"} =>
           At(c)' = At(c) /\ Job(c)' = Job(c) /\ Object(c)' = Object(c),
         \A t \in Read' : t \in Read /\ mover'.payloads[t] = mover.payloads[t]
  PROVE  SureInv'
BY DEF SureInv

LEMMA SureInit == Init => SureInv
BY DEF Init, SureInv, Off, At, Job, Read

LEMMA SureStep == TypeOK /\ PlaceInv /\ HashInv /\ SureInv /\ [Next]_vars => SureInv'
<1> SUFFICES ASSUME TypeOK, PlaceInv, HashInv, SureInv, [Next]_vars PROVE SureInv'
  OBVIOUS
\* Steps that write no hash and after which nobody holds more than before.
<1>1. ASSUME UNCHANGED <<sure, hash>>, asked \subseteq asked',
             \A c \in Consumers : At(c)' \in {"begin", "run"} =>
               At(c)' = At(c) /\ Job(c)' = Job(c) /\ Object(c)' = Object(c),
             \A t \in Read' : t \in Read /\ mover'.payloads[t] = mover.payloads[t]
      PROVE  SureInv'
  BY <1>1, SureFrame DEF SureInv
\* Steps of a consumer that write the hash of a task that is not canceled.
<1>2. ASSUME NEW t \in Tasks, t \notin sure, UNCHANGED <<sure, asked, mover>>,
             \A u \in Tasks : u # t => hash'[u] = hash[u],
             \A c \in Consumers : Job(c)' # t /\ At(c)' \in {"begin", "run"} =>
               At(c)' = At(c) /\ Job(c)' = Job(c) /\ Object(c)' = Object(c)
      PROVE  SureInv'
  <2>1. Read' = Read
    BY <1>2 DEF Read
  <2>2. \A u \in sure : hash'[u] = hash[u]
    BY <1>2 DEF TypeOK
  <2>3. QED
    BY <1>2, <2>1, <2>2, SureFrame DEF SureInv
<1>3. ASSUME NEW t \in Tasks, PublishHash(t) PROVE SureInv'
  <2>1. /\ \A u \in Tasks : u # t => hash'[u] = hash[u]
        /\ UNCHANGED <<consumer, sure, asked, mover>>
        /\ t \notin sure
    BY <1>3 DEF PublishHash, HMSet, TypeOK, HashInv, TaskInv, SureInv
  <2>2. QED
    BY <1>2, <2>1, StayEffect
<1>4. ASSUME NEW t \in Tasks, PublishId(t) PROVE SureInv'
  BY <1>1, <1>4, StayEffect DEF PublishId, Read
<1>5. ASSUME NEW t \in Tasks, CancelGet(t) PROVE SureInv'
  BY <1>1, <1>5, StayEffect DEF CancelGet, redis, Read
<1>6. ASSUME NEW t \in Tasks, Expire(t) PROVE SureInv'
  <2>1. \A u \in sure : hash'[u].status \in {"canceled", "none"}
    BY <1>6 DEF Expire, SureInv, NoHash, TypeOK
  <2>2. QED
    BY <1>6, <2>1, SureFrame, StayEffect DEF Expire, Read
<1>7. ASSUME NEW c \in Consumers, BRPop(c) PROVE SureInv'
  <2>1. PICK t \in ready : Move(c, "load", t, New) \/ UNCHANGED consumer
    BY <1>7 DEF BRPop
  <2>2. UNCHANGED <<sure, hash, asked, mover>>
    BY <1>7 DEF BRPop
  <2>3. \A d \in Consumers : At(d)' \in {"begin", "run"} =>
          At(d)' = At(d) /\ Job(d)' = Job(d) /\ Object(d)' = Object(d)
    BY <2>1, StayEffect, MoveEffect
  <2>4. QED
    BY <1>1, <2>2, <2>3 DEF Read
\* A consumer that leaves.
<1>8. ASSUME NEW c \in Consumers, Leave(c), UNCHANGED <<sure, hash, asked, mover>>
      PROVE  SureInv'
  BY <1>1, <1>8, LeaveEffect DEF Read
<1>9. ASSUME NEW c \in Consumers, Load(c) PROVE SureInv'
  <2>1. UNCHANGED <<sure, hash, asked, mover>>
    BY <1>9 DEF Load, redis
  <2>2. CASE Leave(c)
    BY <1>8, <2>1, <2>2
  <2>3. CASE Exists(Job(c)) /\ Move(c, "begin", Job(c), Loaded(hash[Job(c)]))
    <3>1. /\ At(c)' = "begin" /\ Job(c)' = Job(c) /\ Object(c)' = Loaded(hash[Job(c)])
          /\ \A d \in Consumers : d # c =>
               At(d)' = At(d) /\ Job(d)' = Job(d) /\ Object(d)' = Object(d)
      BY <2>3, MoveEffect
    <3>2. Job(c) \in sure => Object(c)'.status = "canceled"
      <4>1. Job(c) \in sure => hash[Job(c)].status = "canceled"
        BY <2>3, HashTypes DEF SureInv, Exists, TypeOK, Statuses
      <4>2. QED
        BY <3>1, <4>1 DEF Loaded
    <3>3. Read' = Read
      BY <2>1 DEF Read
    <3>4. QED
      BY <2>1, <3>1, <3>2, <3>3 DEF SureInv
  <2>4. QED
    BY <1>9, <2>2, <2>3 DEF Load
<1>10. ASSUME NEW c \in Consumers, Skip(c) PROVE SureInv'
  BY <1>8, <1>10 DEF Skip, redis
<1>11. ASSUME NEW c \in Consumers, SaveError(c) PROVE SureInv'
  BY <1>8, <1>11 DEF SaveError, redis
<1>12. ASSUME NEW c \in Consumers, RetryId(c) PROVE SureInv'
  BY <1>8, <1>12 DEF RetryId
<1>13. ASSUME NEW c \in Consumers, Begin(c) PROVE SureInv'
  <2> DEFINE o == [Object(c) EXCEPT !.status = "processing"]
  <2>1. /\ At(c) = "begin" /\ Object(c).status # "canceled"
        /\ Move(c, "run", Job(c), o) /\ Save(Job(c), o) /\ UNCHANGED <<sure, asked, mover>>
    BY <1>13 DEF Begin
  <2>2. Job(c) \in Tasks /\ Job(c) \notin sure
    BY <2>1, HasJob DEF SureInv
  <2>3. /\ \A u \in Tasks : u # Job(c) => hash'[u] = hash[u]
        /\ Job(c)' = Job(c)
        /\ \A d \in Consumers : d # c =>
             At(d)' = At(d) /\ Job(d)' = Job(d) /\ Object(d)' = Object(d)
    BY <2>1, MoveEffect DEF Save, HMSet, TypeOK
  <2>4. QED
    BY <1>2, <2>1, <2>2, <2>3
<1>14. ASSUME NEW c \in Consumers, EndSave(c) PROVE SureInv'
  <2>1. PICK s \in Results : Save(Job(c), [Object(c) EXCEPT !.status = s])
    BY <1>14 DEF EndSave
  <2>2. Job(c) \in Tasks /\ Job(c) \notin sure /\ UNCHANGED <<sure, asked, mover>>
    BY <1>14, HasJob DEF EndSave, SureInv
  <2>3. /\ \A u \in Tasks : u # Job(c) => hash'[u] = hash[u]
        /\ At(c)' = "idle"
        /\ \A d \in Consumers : d # c =>
             At(d)' = At(d) /\ Job(d)' = Job(d) /\ Object(d)' = Object(d)
    BY <1>14, <2>1, LeaveEffect DEF EndSave, Save, HMSet, TypeOK
  <2>4. QED
    BY <1>2, <2>2, <2>3
<1>15. ASSUME NEW c \in Consumers, EndRetry(c) PROVE SureInv'
  <2> DEFINE o == [Object(c) EXCEPT !.retries = @ - 1]
  <2>1. PICK s \in Results : HMSet(Job(c), [o EXCEPT !.status = s])
    BY <1>15 DEF EndRetry
  <2>2. Job(c) \in Tasks /\ Job(c) \notin sure /\ UNCHANGED <<sure, asked, mover>>
    BY <1>15, HasJob DEF EndRetry, SureInv
  <2>3. /\ \A u \in Tasks : u # Job(c) => hash'[u] = hash[u]
        /\ At(c)' = "push"
        /\ \A d \in Consumers : d # c =>
             At(d)' = At(d) /\ Job(d)' = Job(d) /\ Object(d)' = Object(d)
    BY <1>15, <2>1, MoveEffect DEF EndRetry, HMSet, TypeOK
  <2>4. QED
    BY <1>2, <2>2, <2>3
<1>16. CASE MoverRange
  BY <1>1, <1>16, StayEffect DEF MoverRange, redis, TypeOK, Read
<1>17. CASE MoverPayloads
  <2>1. UNCHANGED <<sure, hash, asked, consumer>>
    BY <1>17 DEF MoverPayloads, redis
  <2>2. CASE mover' = Rest
    BY <1>1, <2>1, <2>2, StayEffect, RestEffect
  <2>3. CASE mover' # Rest
    <3> DEFINE payloads == [t \in Tasks |-> IF t \in mover.ids THEN hash[t] ELSE NoHash]
    <3>1. mover' = [mover EXCEPT !.at = "commit", !.payloads = payloads]
      BY <1>17, <2>3 DEF MoverPayloads
    <3>2. mover'.payloads = payloads
      BY <3>1 DEF TypeOK
    <3>3. \A t \in Read' : t \in Tasks /\ mover'.payloads[t] = hash[t] /\ hash[t] # NoHash
      BY <3>2 DEF Read
    <3>4. \A t \in Read' \cap sure : mover'.payloads[t].status = "canceled"
      BY <3>3, HashTypes DEF SureInv, TypeOK, Statuses
    <3>5. QED
      BY <2>1, <3>4, StayEffect DEF SureInv
  <2>4. QED
    BY <2>2, <2>3
<1>18. CASE MoverCommit
  <2>1. /\ hash' = [t \in Tasks |-> IF t \in Read THEN mover.payloads[t] ELSE hash[t]]
        /\ UNCHANGED <<sure, asked, consumer>> /\ mover' = Rest
    BY <1>18 DEF MoverCommit
  <2>2. \A t \in sure : hash'[t].status \in {"canceled", "none"}
    BY <2>1 DEF SureInv, TypeOK
  <2>3. QED
    BY <2>1, <2>2, SureFrame, StayEffect, RestEffect
<1>19. CASE MoverError
  BY <1>1, <1>19, StayEffect, RestEffect DEF MoverError, redis
<1>20. CASE CancelSave
  <2> DEFINE t == cancel.task
  <2>1. /\ t \in Tasks /\ t \in asked /\ cancel.object.status = "canceled"
        /\ Save(t, cancel.object) /\ UNCHANGED <<consumer, mover, asked>>
        /\ sure' = IF t \in Held THEN sure ELSE sure \cup {t}
    BY <1>20 DEF CancelSave, HashInv, TaskInv, TypeOK
  <2>2. hash'[t].status = "canceled" /\ \A u \in Tasks : u # t => hash'[u] = hash[u]
    BY <2>1 DEF Save, HMSet, Stored, TypeOK
  <2>3. t \in sure' \ sure =>
          t \notin Read /\ \A c \in Consumers : Job(c) = t => At(c) \notin {"begin", "run"}
    BY <2>1 DEF Held
  <2>4. Read' = Read /\ mover' = mover
    BY <2>1 DEF Read
  <2> HIDE DEF t
  <2>5. QED
    BY <2>1, <2>2, <2>3, <2>4, StayEffect DEF SureInv, TypeOK
<1>21. CASE CountFirst
  BY <1>1, <1>21, StayEffect DEF CountFirst, redis, Read
<1>22. CASE CountSecond
  BY <1>1, <1>22, StayEffect DEF CountSecond, redis, Read
<1>23. CASE Crash
  BY <1>1, <1>23, RestEffect DEF Crash, redis, Off, At
<1>24. CASE UNCHANGED vars
  BY <1>1, <1>24, StayEffect DEF vars, redis, Read
<1>25. CASE CancelError
  BY <1>1, <1>25, StayEffect DEF CancelError, redis, Read
<1>26. QED
  BY <1>3, <1>4, <1>5, <1>6, <1>7, <1>9, <1>10, <1>11, <1>12, <1>13, <1>14, <1>15,
     <1>16, <1>17, <1>18, <1>19, <1>20, <1>21, <1>22, <1>23, <1>24, <1>25
  DEF Next, ConsumerStep, MoverStep

-----------------------------------------------------------------------------
(* Counted tasks.                                                          *)

LEMMA CountInit == Init => CountInv
BY DEF Init, CountInv, CountOnce

LEMMA CountStep == TypeOK /\ PlaceInv /\ CountInv /\ [Next]_vars => CountInv'
<1> SUFFICES ASSUME TypeOK, PlaceInv, CountInv, [Next]_vars PROVE CountInv'
  OBVIOUS
\* Steps of nobody who has an id, or of one who keeps it away from the zset.
<1>1. ASSUME count' = count,
             \A t \in Tasks : born[t] = "queued" => born'[t] = "queued",
             \A t \in delayed' \ delayed : t \notin count.first \ count.begun,
             \A c \in Consumers : \/ Job(c)' = Job(c) /\ (At(c)' = At(c) \/ At(c)' = "begin")
                                 \/ At(c)' = "load" \/ Job(c)' = NoTask
      PROVE  CountInv'
  BY <1>1, SystemAssumption DEF CountInv, CountOnce, TypeOK
\* A consumer's task was counted only if it has not been processed since.
<1>2. ASSUME NEW c \in Consumers, At(c) \in {"run", "push"}, count.at = "one"
      PROVE  Job(c) \notin count.first \ count.begun
  BY <1>2 DEF CountInv
<1>3. ASSUME NEW t \in Tasks, PublishHash(t) PROVE CountInv'
  <2>1. \A u \in Tasks : born[u] = "queued" => born'[u] = "queued"
    BY <1>3 DEF PublishHash, TypeOK
  <2>2. QED
    BY <1>1, <1>3, <2>1, StayEffect DEF PublishHash
<1>4. ASSUME NEW t \in Tasks, PublishId(t) PROVE CountInv'
  <2>1. count' = count /\ UNCHANGED consumer /\ delayed' \subseteq delayed \cup {t}
        /\ born[t] = "hash"
        /\ \A u \in Tasks : born[u] = "queued" => born'[u] = "queued"
    BY <1>4 DEF PublishId, PushId, TypeOK
  <2>2. CASE count.at = "one"
    <3>1. t \notin count.first \ count.begun
      BY <2>1, <2>2 DEF CountInv
    <3>2. QED
      BY <1>1, <2>1, <3>1, StayEffect
  <2>3. CASE count.at # "one"
    BY <2>1, <2>3 DEF CountInv, CountOnce
  <2>4. QED
    BY <2>2, <2>3
<1>5. ASSUME NEW t \in Tasks, CancelGet(t) PROVE CountInv'
  BY <1>1, <1>5, StayEffect DEF CancelGet, redis
<1>6. ASSUME NEW t \in Tasks, Expire(t) PROVE CountInv'
  BY <1>1, <1>6, StayEffect DEF Expire
<1>7. ASSUME NEW c \in Consumers, BRPop(c) PROVE CountInv'
  <2>1. PICK t \in ready : Move(c, "load", t, New) \/ UNCHANGED consumer
    BY <1>7 DEF BRPop
  <2>2. UNCHANGED <<count, born, delayed>>
    BY <1>7 DEF BRPop
  <2>3. QED
    BY <1>1, <2>1, <2>2, StayEffect, MoveEffect
<1>8. ASSUME NEW c \in Consumers, Leave(c), UNCHANGED <<count, born, delayed>>
      PROVE  CountInv'
  BY <1>1, <1>8, LeaveEffect
<1>9. ASSUME NEW c \in Consumers, Load(c) PROVE CountInv'
  <2>1. UNCHANGED <<count, born, delayed>> /\ At(c) = "load"
    BY <1>9 DEF Load, redis
  <2>2. CASE Leave(c)
    BY <1>8, <2>1, <2>2
  <2>3. CASE Move(c, "begin", Job(c), Loaded(hash[Job(c)]))
    BY <1>1, <2>1, <2>3, MoveEffect
  <2>4. QED
    BY <1>9, <2>2, <2>3 DEF Load
<1>10. ASSUME NEW c \in Consumers, Skip(c) PROVE CountInv'
  BY <1>8, <1>10 DEF Skip, redis
<1>11. ASSUME NEW c \in Consumers, SaveError(c) PROVE CountInv'
  BY <1>8, <1>11 DEF SaveError, redis
<1>12. ASSUME NEW c \in Consumers, EndSave(c) PROVE CountInv'
  BY <1>8, <1>12 DEF EndSave
<1>13. ASSUME NEW c \in Consumers, RetryId(c) PROVE CountInv'
  <2>1. /\ At(c) = "push" /\ Leave(c) /\ UNCHANGED <<count, born>>
        /\ delayed' \subseteq delayed \cup {Job(c)}
    BY <1>13 DEF RetryId, PushId
  <2>2. CASE count.at = "one"
    BY <1>1, <1>2, <2>1, <2>2, LeaveEffect
  <2>3. CASE count.at # "one"
    BY <2>1, <2>3 DEF CountInv, CountOnce
  <2>4. QED
    BY <2>2, <2>3
<1>14. ASSUME NEW c \in Consumers, EndRetry(c) PROVE CountInv'
  <2>1. /\ At(c) = "run" /\ Move(c, "push", Job(c), New) /\ UNCHANGED <<count, born, delayed>>
    BY <1>14 DEF EndRetry
  <2>2. /\ At(c)' = "push" /\ Job(c)' = Job(c)
        /\ \A d \in Consumers : d # c => At(d)' = At(d) /\ Job(d)' = Job(d)
    BY <2>1, MoveEffect
  <2>3. CASE count.at = "one"
    BY <1>2, <2>1, <2>2, <2>3 DEF CountInv, CountOnce
  <2>4. CASE count.at # "one"
    BY <2>1, <2>4 DEF CountInv, CountOnce
  <2>5. QED
    BY <2>3, <2>4
<1>15. ASSUME NEW c \in Consumers, Begin(c) PROVE CountInv'
  <2> DEFINE o == [Object(c) EXCEPT !.status = "processing"]
  <2>1. /\ Move(c, "run", Job(c), o) /\ UNCHANGED <<born, delayed>>
        /\ count' = IF count.at = "one" THEN [count EXCEPT !.begun = @ \cup {Job(c)}] ELSE count
    BY <1>15 DEF Begin
  <2>2. /\ Job(c)' = Job(c) /\ \A d \in Consumers : d # c => At(d)' = At(d) /\ Job(d)' = Job(d)
    BY <2>1, MoveEffect
  <2>3. CASE count.at = "one"
    <3>1. count'.at = "one" /\ count'.first = count.first
          /\ count'.begun = count.begun \cup {Job(c)}
      BY <2>1, <2>3 DEF TypeOK
    <3>2. QED
      BY <2>1, <2>2, <2>3, <3>1 DEF CountInv, CountOnce
  <2>4. CASE count.at # "one"
    BY <2>1, <2>4 DEF CountInv, CountOnce
  <2>5. QED
    BY <2>3, <2>4
<1>16. CASE MoverRange
  BY <1>1, <1>16, StayEffect DEF MoverRange, redis
<1>17. CASE MoverPayloads
  BY <1>1, <1>17, StayEffect DEF MoverPayloads, redis
<1>18. CASE MoverCommit
  BY <1>1, <1>18, StayEffect DEF MoverCommit
<1>19. CASE MoverError
  BY <1>1, <1>19, StayEffect DEF MoverError, redis
<1>20. CASE CancelSave
  BY <1>1, <1>20, StayEffect DEF CancelSave
<1>21. CASE CountFirst
  <2>1. /\ count'.at = "one" /\ count'.first = ready /\ count'.begun = {}
        /\ UNCHANGED <<born, delayed, consumer>>
    BY <1>21 DEF CountFirst, Counted, redis
  <2>2. QED
    BY <2>1, StayEffect DEF CountInv, CountOnce, PlaceInv
<1>22. CASE CountSecond
  <2>1. /\ count.at = "one" /\ count'.at = "done" /\ count'.first = count.first
        /\ count'.begun = count.begun /\ count'.second = delayed
    BY <1>22 DEF CountSecond, Counted, TypeOK
  <2>2. QED
    BY <2>1 DEF CountInv, CountOnce
<1>23. CASE Crash
  BY <1>1, <1>23 DEF Crash, redis, Off, Job
<1>24. CASE UNCHANGED vars
  BY <1>1, <1>24, StayEffect DEF vars, redis
<1>25. CASE CancelError
  BY <1>1, <1>25, StayEffect DEF CancelError, redis
<1>26. QED
  BY <1>3, <1>4, <1>5, <1>6, <1>7, <1>9, <1>10, <1>11, <1>12, <1>13, <1>14, <1>15,
     <1>16, <1>17, <1>18, <1>19, <1>20, <1>21, <1>22, <1>23, <1>24, <1>25
  DEF Next, ConsumerStep, MoverStep

-----------------------------------------------------------------------------
(* The theorems.                                                           *)

Inv == TypeOK /\ PlaceInv /\ HashInv /\ SureInv /\ CountInv

\* The invariant is inductive: it holds at the start and every step keeps it.
THEOREM InvCorrect == Spec => []Inv
<1>1. Init => Inv
  BY TypeInit, PlaceInit, HashInit, SureInit, CountInit DEF Inv
<1>2. Inv /\ [Next]_vars => Inv'
  BY TypeStep, PlaceStep, HashStep, SureStep, CountStep DEF Inv
<1>3. QED
  BY <1>1, <1>2, PTL DEF Spec

\* Every variable keeps its shape, for all constants and failures.
THEOREM TypeCorrect == Spec => []TypeOK
<1>1. Inv => TypeOK
  BY DEF Inv
<1>2. QED
  BY <1>1, InvCorrect, PTL

\* What consumeDelayed (broker_redis.go:184) writes back is what Redis holds,
\* unless Queue.Cancel was called for the task.
THEOREM MoverFaithfulCorrect == Spec => []MoverFaithful
<1>1. Inv => MoverFaithful
  BY DEF Inv, HashInv, ReadInv, MoverFaithful
<1>2. QED
  BY <1>1, InvCorrect, PTL

\* A task canceled while nobody held its payload (queue.go:199) stays canceled
\* until its hash expires.
THEOREM CancelSticksCorrect == Spec => []CancelSticks
<1>1. Inv => CancelSticks
  BY DEF Inv, SureInv, CancelSticks
<1>2. QED
  BY <1>1, InvCorrect, PTL

\* RedisBroker.Count (broker_redis.go:396) counts a task in the list and in
\* the zset only if it was processed between the two commands.
THEOREM CountOnceCorrect == Spec => []CountOnce
<1>1. Inv => CountOnce
  BY DEF Inv, CountInv
<1>2. QED
  BY <1>1, InvCorrect, PTL

-----------------------------------------------------------------------------
(* The life of a task.                                                     *)

LEMMA SeenTypes ==
  TypeOK => StatusSeen \in [Tasks -> Life!LStatuses]
BY HashTypes DEF TypeOK, StatusSeen, Exists, Statuses, Life!LStatuses

\* A step that writes the hash of one task, or of none, changes the status of
\* that task only.
LEMMA SeenEffect ==
  ASSUME NEW t \in Tasks,
         \A u \in Tasks : u # t =>
           hash'[u] = hash[u] /\ (born'[u] = "new" <=> born[u] = "new")
  PROVE  StatusSeen' = [StatusSeen EXCEPT ![t] = StatusSeen'[t]]
BY DEF StatusSeen, Exists

LEMMA SeenFrame ==
  ASSUME UNCHANGED hash, \A u \in Tasks : born'[u] = "new" <=> born[u] = "new"
  PROVE  StatusSeen' = StatusSeen
BY DEF StatusSeen, Exists

\* Steps of consumers that do not run a handler.
LEMMA RunningFrame ==
  ASSUME \A c \in Consumers : (At(c)' = "run" <=> At(c) = "run")
                             /\ (At(c) = "run" => Job(c)' = Job(c))
  PROVE  Running' = Running
BY DEF Running

\* The end of an attempt, whatever becomes of the task.
LEMMA EndEffect ==
  ASSUME TypeOK, PlaceInv, NEW c \in Consumers, At(c) = "run", At(c)' # "run",
         \A d \in Consumers : d # c => At(d)' = At(d) /\ Job(d)' = Job(d)
  PROVE  Job(c) \in Running /\ Running' = Running \ {Job(c)}
<1>1. \A d \in Consumers : d # c => Job(d) # Job(c)
  BY OnlyJob
<1>2. QED
  BY <1>1 DEF Running

LEMMA LifeInit == Init => Life!LInit
<1> SUFFICES ASSUME Init PROVE Life!LInit
  OBVIOUS
<1>1. StatusSeen = [t \in Tasks |-> "unpublished"]
  BY DEF Init, StatusSeen
<1>2. Running = {}
  BY DEF Init, Running, At, Off
<1>3. QED
  BY <1>1, <1>2 DEF Init, Life!LInit

LEMMA LifeStep == Inv /\ Inv' /\ [Next]_vars => [Life!LNext]_(Life!life)
<1> SUFFICES ASSUME TypeOK, PlaceInv, HashInv, TypeOK', [Next]_vars
             PROVE  Life!LNext \/ UNCHANGED <<StatusSeen, runs, Running, asked>>
  BY DEF Inv, Life!life
<1>1. ASSUME NEW t \in Tasks, PublishHash(t) PROVE Life!LNext
  <2>1. /\ born[t] = "new" /\ born'[t] = "hash"
        /\ hash'[t] = [status |-> "waiting", retries |-> MaxRetries]
        /\ \A u \in Tasks : u # t => hash'[u] = hash[u] /\ born'[u] = born[u]
        /\ UNCHANGED <<consumer, runs, asked>>
    BY <1>1 DEF PublishHash, HMSet, Stored, New, TypeOK
  <2>2. StatusSeen[t] = "unpublished" /\ StatusSeen'[t] = "waiting"
    BY <2>1 DEF StatusSeen, Exists, NoHash
  <2>3. StatusSeen' = [StatusSeen EXCEPT ![t] = "waiting"]
    BY <2>1, <2>2, SeenEffect
  <2>4. Running' = Running
    BY <2>1, StayEffect, RunningFrame
  <2>5. QED
    BY <2>1, <2>2, <2>3, <2>4 DEF Life!LNext, Life!LPublish, Life!Becomes
<1>2. ASSUME UNCHANGED <<hash, runs, asked>>,
             \A u \in Tasks : born'[u] = "new" <=> born[u] = "new",
             \A c \in Consumers : (At(c)' = "run" <=> At(c) = "run")
                                 /\ (At(c) = "run" => Job(c)' = Job(c))
      PROVE  UNCHANGED <<StatusSeen, runs, Running, asked>>
  BY <1>2, SeenFrame, RunningFrame
<1>3. ASSUME NEW t \in Tasks, PublishId(t) PROVE UNCHANGED <<StatusSeen, runs, Running, asked>>
  <2>1. \A u \in Tasks : born'[u] = "new" <=> born[u] = "new"
    BY <1>3 DEF PublishId, TypeOK
  <2>2. QED
    BY <1>2, <1>3, <2>1, StayEffect DEF PublishId
<1>4. ASSUME NEW t \in Tasks, CancelGet(t) PROVE Life!LNext
  <2>1. asked' = asked \cup {t} /\ UNCHANGED <<hash, born, runs, consumer>>
    BY <1>4 DEF CancelGet, redis
  <2>2. StatusSeen' = StatusSeen /\ Running' = Running
    BY <2>1, StayEffect, SeenFrame, RunningFrame
  <2>3. QED
    BY <2>1, <2>2 DEF Life!LNext, Life!LAsk
<1>5. ASSUME NEW t \in Tasks, Expire(t) PROVE Life!LNext
  <2>1. /\ t \in expiring /\ hash'[t] = NoHash
        /\ \A u \in Tasks : u # t => hash'[u] = hash[u]
        /\ UNCHANGED <<born, runs, consumer, asked>>
    BY <1>5 DEF Expire, TypeOK
  <2>2. born[t] # "new"
    BY <2>1 DEF HashInv, TaskInv
  <2>3. StatusSeen'[t] = "expired"
    BY <2>1, <2>2 DEF StatusSeen, Exists
  <2>4. StatusSeen' = [StatusSeen EXCEPT ![t] = "expired"]
    BY <2>1, <2>3, SeenEffect
  <2>5. StatusSeen[t] = "succeeded" \/ runs[t] = MaxRetries + 1 \/ t \in asked
    BY <2>1, <2>2 DEF HashInv, TaskInv, StatusSeen, Exists, NoHash
  <2>6. Running' = Running
    BY <2>1, StayEffect, RunningFrame
  <2>7. QED
    BY <2>1, <2>4, <2>5, <2>6 DEF Life!LNext, Life!LExpire, Life!Becomes
<1>6. ASSUME NEW c \in Consumers, BRPop(c) PROVE UNCHANGED <<StatusSeen, runs, Running, asked>>
  <2>1. PICK t \in ready : Move(c, "load", t, New) \/ UNCHANGED consumer
    BY <1>6 DEF BRPop
  <2>2. At(c) = "idle" /\ UNCHANGED <<hash, born, runs, asked>>
    BY <1>6 DEF BRPop
  <2>3. \A d \in Consumers : (At(d)' = "run" <=> At(d) = "run") /\ (At(d) = "run" => Job(d)' = Job(d))
    BY <2>1, <2>2, MoveEffect, StayEffect
  <2>4. QED
    BY <1>2, <2>2, <2>3
\* Consumers that leave without a result.
<1>7. ASSUME NEW c \in Consumers, Leave(c), UNCHANGED <<hash, born, runs, asked>>
      PROVE  Life!LNext
  <2>1. StatusSeen' = StatusSeen
    BY <1>7, SeenFrame
  <2>2. Running' \subseteq Running
    BY <1>7, LeaveEffect DEF Running
  <2>3. QED
    BY <1>7, <2>1, <2>2 DEF Life!LNext, Life!LAbandon
<1>8. ASSUME NEW c \in Consumers, Load(c)
      PROVE  Life!LNext \/ UNCHANGED <<StatusSeen, runs, Running, asked>>
  <2>1. At(c) = "load" /\ UNCHANGED <<hash, born, runs, asked>>
    BY <1>8 DEF Load, redis
  <2>2. CASE Leave(c)
    BY <1>7, <2>1, <2>2
  <2>3. CASE Move(c, "begin", Job(c), Loaded(hash[Job(c)]))
    BY <1>2, <2>1, <2>3, MoveEffect
  <2>4. QED
    BY <1>8, <2>2, <2>3 DEF Load
<1>9. ASSUME NEW c \in Consumers, Skip(c) PROVE Life!LNext
  BY <1>7, <1>9 DEF Skip, redis
<1>10. ASSUME NEW c \in Consumers, SaveError(c) PROVE Life!LNext
  BY <1>7, <1>10 DEF SaveError, redis
<1>11. ASSUME NEW c \in Consumers, RetryId(c) PROVE Life!LNext
  BY <1>7, <1>11 DEF RetryId
<1>12. ASSUME NEW c \in Consumers, Begin(c) PROVE Life!LNext
  <2> DEFINE t == Job(c)
             o == [Object(c) EXCEPT !.status = "processing"]
  <2>1. /\ At(c) = "begin" /\ Object(c).status # "canceled"
        /\ Move(c, "run", t, o) /\ Save(t, o) /\ runs' = [runs EXCEPT ![t] = @ + 1]
        /\ UNCHANGED <<born, asked>>
    BY <1>12 DEF Begin
  <2>2. /\ t \in Tasks /\ born[t] = "queued" /\ \A d \in Consumers : d # c => Job(d) # t
    BY <2>1, OnlyJob
  <2>3. /\ Object(c).status \in {"waiting", "failed"}
        /\ Object(c).retries = MaxRetries - runs[t] /\ Object(c).retries \in Nat
        /\ t \notin asked => Stored(Object(c)) = hash[t]
    BY <2>1 DEF HashInv, LoopInv, Fresh, Runnable
  <2>4. StatusSeen[t] \in {"waiting", "failed"} \/ t \in asked
    <3>1. ASSUME t \notin asked PROVE hash[t].status = Object(c).status
      BY <2>3, <3>1 DEF Stored
    <3>2. QED
      BY <2>2, <2>3, <3>1 DEF StatusSeen, Exists, NoHash
  <2>5. runs[t] <= MaxRetries
    BY <2>2, <2>3, SystemAssumption DEF TypeOK
  <2>6. /\ hash'[t].status = "processing"
        /\ \A u \in Tasks : u # t => hash'[u] = hash[u] /\ born'[u] = born[u]
    BY <2>1, <2>2, JobTypes DEF Save, HMSet, Stored, Objects, TypeOK
  <2>7. StatusSeen'[t] = "processing"
    BY <2>1, <2>2, <2>6 DEF StatusSeen, Exists, NoHash
  <2>8. StatusSeen' = [StatusSeen EXCEPT ![t] = "processing"]
    BY <2>2, <2>6, <2>7, SeenEffect
  <2>9. /\ At(c)' = "run" /\ Job(c)' = t
        /\ \A d \in Consumers : d # c => At(d)' = At(d) /\ Job(d)' = Job(d)
    BY <2>1, MoveEffect
  <2>10. t \notin Running /\ Running' = Running \cup {t}
    BY <2>1, <2>2, <2>9 DEF Running
  <2> HIDE DEF t
  <2>11. QED
    BY <2>1, <2>2, <2>4, <2>5, <2>8, <2>10 DEF Life!LNext, Life!LBegin, Life!Becomes
\* The end of an attempt, with one of the three results.
<1>13. ASSUME NEW c \in Consumers, At(c) = "run", At(c)' # "run",
              \A d \in Consumers : d # c => At(d)' = At(d) /\ Job(d)' = Job(d),
              NEW s \in Results, hash'[Job(c)].status = s,
              \A u \in Tasks : u # Job(c) => hash'[u] = hash[u],
              UNCHANGED <<born, runs, asked>>
       PROVE  Life!LNext
  <2>1. Job(c) \in Tasks /\ born[Job(c)] = "queued"
    BY <1>13, OnlyJob
  <2>2. StatusSeen'[Job(c)] = s
    BY <1>13, <2>1 DEF StatusSeen, Exists, NoHash, Results
  <2>3. StatusSeen' = [StatusSeen EXCEPT ![Job(c)] = s]
    BY <1>13, <2>1, <2>2, SeenEffect
  <2>4. Job(c) \in Running /\ Running' = Running \ {Job(c)}
    BY <1>13, EndEffect
  <2>5. QED
    BY <1>13, <2>1, <2>3, <2>4 DEF Life!LNext, Life!LEnd, Life!Becomes, Life!Ends, Results
<1>14. ASSUME NEW c \in Consumers, EndSave(c) PROVE Life!LNext
  <2>1. PICK s \in Results : Save(Job(c), [Object(c) EXCEPT !.status = s])
    BY <1>14 DEF EndSave
  <2>2. At(c) = "run" /\ Leave(c) /\ UNCHANGED <<born, runs, asked>>
    BY <1>14 DEF EndSave
  <2>3. Job(c) \in Tasks
    BY <2>2, OnlyJob
  <2>4. /\ hash'[Job(c)].status = s
        /\ \A u \in Tasks : u # Job(c) => hash'[u] = hash[u]
    BY <2>1, <2>3, JobTypes DEF Save, HMSet, Stored, Objects, TypeOK
  <2>5. QED
    BY <1>13, <2>2, <2>4, LeaveEffect
<1>15. ASSUME NEW c \in Consumers, EndRetry(c) PROVE Life!LNext
  <2> DEFINE o == [Object(c) EXCEPT !.retries = @ - 1]
  <2>1. PICK s \in Results : HMSet(Job(c), [o EXCEPT !.status = s])
    BY <1>15 DEF EndRetry
  <2>2. At(c) = "run" /\ Move(c, "push", Job(c), New) /\ UNCHANGED <<born, runs, asked>>
    BY <1>15 DEF EndRetry
  <2>3. Job(c) \in Tasks
    BY <2>2, OnlyJob
  <2>4. /\ hash'[Job(c)].status = s
        /\ \A u \in Tasks : u # Job(c) => hash'[u] = hash[u]
    BY <2>1, <2>3, JobTypes DEF HMSet, Stored, Objects, TypeOK
  <2>5. QED
    BY <1>13, <2>2, <2>4, MoveEffect
<1>16. CASE MoverRange
  BY <1>2, <1>16, StayEffect DEF MoverRange, redis
<1>17. CASE MoverPayloads
  BY <1>2, <1>17, StayEffect DEF MoverPayloads, redis
<1>18. CASE MoverError
  BY <1>2, <1>18, StayEffect DEF MoverError, redis
\* Writes that change nothing for a task that nobody asked to cancel.
<1>19. ASSUME UNCHANGED <<consumer, born, runs, asked>>,
              \A t \in Tasks \ asked : hash'[t] = hash[t]
       PROVE  Life!LNext
  <2>1. \A t \in Tasks \ asked : StatusSeen'[t] = StatusSeen[t]
    BY <1>19 DEF StatusSeen, Exists
  <2>2. Running' = Running
    BY <1>19, StayEffect, RunningFrame
  <2>3. StatusSeen' \in [Tasks -> Life!LStatuses]
    BY HashTypes DEF TypeOK, StatusSeen, Exists, Hashes, Statuses, Life!LStatuses
  <2>4. QED
    BY <1>19, <2>1, <2>2, <2>3 DEF Life!LNext, Life!LOverwrite
<1>20. CASE MoverCommit
  BY <1>19, <1>20 DEF MoverCommit, HashInv, ReadInv
<1>21. CASE CancelSave
  <2>1. cancel.task \in asked
    BY <1>21 DEF CancelSave, HashInv, TaskInv
  <2>2. \A t \in Tasks \ asked : hash'[t] = hash[t]
    BY <1>21, <2>1 DEF CancelSave, Save, HMSet, TypeOK
  <2>3. QED
    BY <1>19, <1>21, <2>2 DEF CancelSave
<1>22. CASE CountFirst
  BY <1>2, <1>22, StayEffect DEF CountFirst, redis
<1>23. CASE CountSecond
  BY <1>2, <1>23, StayEffect DEF CountSecond, redis
<1>24. CASE Crash
  <2>1. UNCHANGED <<hash, born, runs, asked>> /\ \A c \in Consumers : At(c)' = "idle"
    BY <1>24 DEF Crash, redis, Off, At
  <2>2. StatusSeen' = StatusSeen /\ Running' = {}
    BY <2>1, SeenFrame DEF Running
  <2>3. QED
    BY <2>1, <2>2 DEF Life!LNext, Life!LAbandon
<1>25. CASE UNCHANGED vars
  BY <1>2, <1>25, StayEffect DEF vars, redis
<1>26. CASE CancelError
  BY <1>2, <1>26, StayEffect DEF CancelError, redis
<1>27. QED
  BY <1>1, <1>3, <1>4, <1>5, <1>6, <1>8, <1>9, <1>10, <1>11, <1>12, <1>14, <1>15,
     <1>16, <1>17, <1>18, <1>20, <1>21, <1>22, <1>23, <1>24, <1>25, <1>26
  DEF Next, ConsumerStep, MoverStep

\* The queue implements TaskLife: a task nobody cancels is processed at most
\* once more than it has retries, by one consumer at a time, only while it
\* waits or has failed, and it expires only when nothing is left to do.
THEOREM LifeCorrect == Spec => LifeOfTask
BY LifeInit, LifeStep, InvCorrect, PTL DEF Spec, LifeOfTask, Life!LSpec
=============================================================================

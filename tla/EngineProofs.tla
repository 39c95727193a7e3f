---------------------------- MODULE EngineProofs ----------------------------
(***************************************************************************)
(* Theorems about Engine, for any number of consumers, servers and tasks.  *)
(*                                                                         *)
(* The WaitGroup is exact, and Run blocks until all is stopped, when Run   *)
(* runs every queue and Stop is called once Run waits: once, or any number *)
(* of times where there is no server.  PhaseInv is what then follows from  *)
(* where Run and Stop are: what they have started and stopped so far.      *)
(***************************************************************************)
EXTENDS Engine, FiniteSetTheorems, TLAPS

\* WithQueues leaves no queue out, Stop is called after Run waits, and no
\* server meets a second call.
LateStop ==
  Selected = Consumers /\ ~EarlyStop /\ (MaxStops <= 1 \/ Servers = {})

PhaseInv ==
  /\ run \in {"init", "starting", "failed"} => stop.calls = 0
  /\ run \in {"waiting", "returned"} => starting.consumers = {} /\ starting.servers = {}
  /\ \A c \in Consumers : c \in starting.consumers <=> loop[c] = "off"
  /\ \A s \in Servers : s \in starting.servers <=> server[s] = "off"
  /\ stop.calls = 0 => stop.at = "idle" /\ closed = {}
  /\ stop.calls # 0 => starting.consumers = {} /\ starting.servers = {}
  /\ stop.calls = 0 \/ stop.at = "consumers" => \A s \in Servers : server[s] # "stopped"
  /\ stop.at = "servers" => stop.left = {s \in Servers : server[s] # "stopped"}

Inv == TypeOK /\ PhaseInv /\ WaitGroupCounts /\ RunBlocks

USE EngineAssumption

-----------------------------------------------------------------------------
(* Types.                                                                  *)

LEMMA TypeInit == Init => TypeOK
BY DEF Init, TypeOK

LEMMA TypeStep == TypeOK /\ [Next]_vars => TypeOK'
<1> SUFFICES ASSUME TypeOK, [Next]_vars PROVE TypeOK'
  OBVIOUS
<1>1. ASSUME RunStep PROVE TypeOK'
  BY <1>1 DEF RunStep, RunFails, RunBegins, RunWaits, RunReturns, Exit, StartConsumer,
              StartServer, TypeOK
<1>2. ASSUME StopBegins PROVE TypeOK'
  BY <1>2 DEF StopBegins, TypeOK
<1>3. ASSUME StopQueuesDone PROVE TypeOK'
  BY <1>3 DEF StopQueuesDone, TypeOK
<1>4. ASSUME NEW c \in Consumers, StopConsumer(c) PROVE TypeOK'
  BY <1>4 DEF StopConsumer, TypeOK
<1>5. ASSUME NEW s \in Servers, StopServer(s) PROVE TypeOK'
  <2> USE <1>5 DEF StopServer, TypeOK
  <2>1. stop'.left \in SUBSET (Consumers \cup Servers) /\ stop'.calls = stop.calls
    OBVIOUS
  <2>2. stop'.at \in {"idle", "consumers", "servers"}
    OBVIOUS
  <2>3. stop' \in [at : {"idle", "consumers", "servers"},
                   left : SUBSET (Consumers \cup Servers), calls : 0..MaxStops]
    BY <2>1, <2>2
  <2>4. server' \in [Servers -> {"off", "starting", "running", "failed", "stopped"}]
    OBVIOUS
  <2>5. wg' \in Int /\ UNCHANGED <<run, starting, closed, loop, tasks, late>>
    OBVIOUS
  <2> HIDE <1>5 DEF StopServer
  <2>6. QED
    BY <2>3, <2>4, <2>5
<1>6. ASSUME NEW c \in Consumers, CheckClosed(c) \/ HandleBegins(c) PROVE TypeOK'
  BY <1>6 DEF CheckClosed, HandleBegins, TypeOK
<1>7. ASSUME NEW c \in Consumers, Consume(c) PROVE TypeOK'
  <2> USE <1>7 DEF Consume, TypeOK
  <2>1. tasks' \in [published : Nat, ready : Nat, taken : Nat, handled : Nat]
    <3>1. CASE UNCHANGED tasks
      BY <3>1
    <3>2. CASE tasks.ready > 0 /\ tasks' = [tasks EXCEPT !.ready = @ - 1, !.taken = @ + 1]
      <4>1. tasks.ready - 1 \in Nat /\ tasks.taken + 1 \in Nat
        BY <3>2
      <4>2. QED
        BY <3>2, <4>1
    <3>3. QED
      BY <3>1, <3>2
  <2>2. QED
    BY <2>1
<1>8. ASSUME NEW c \in Consumers, HandleEnds(c) PROVE TypeOK'
  BY <1>8 DEF HandleEnds, TypeOK
<1>9. ASSUME Publish PROVE TypeOK'
  <2> USE <1>9 DEF Publish, TypeOK
  <2>1. tasks.published + 1 \in Nat /\ tasks.ready + 1 \in Nat
    OBVIOUS
  <2>2. tasks' \in [published : Nat, ready : Nat, taken : Nat, handled : Nat]
    BY <2>1
  <2>3. QED
    BY <2>2
<1>10. ASSUME NEW s \in Servers, ServerStarts(s) PROVE TypeOK'
  BY <1>10 DEF ServerStarts, TypeOK
<1>11. CASE UNCHANGED vars
  BY <1>11 DEF vars, TypeOK
<1>12. QED
  BY <1>1, <1>2, <1>3, <1>4, <1>5, <1>6, <1>7, <1>8, <1>9, <1>10, <1>11
  DEF Next, StopStep, Loop

\* Every variable keeps its shape, whenever and however often Stop is called.
THEOREM TypeCorrect == Spec => []TypeOK
BY TypeInit, TypeStep, PTL DEF Spec

-----------------------------------------------------------------------------
(* The late task.                                                          *)

\* A consumer that has handled a late task is past the loop's only window.
LateInv ==
  \A c \in Consumers :
    late[c] = 0 \/ (late[c] = 1 /\ c \in closed /\ loop[c] \in {"handle", "check", "ended"})

LEMMA LateInit == Init => LateInv
BY DEF Init, LateInv

LEMMA LateStep == TypeOK /\ LateInv /\ [Next]_vars => LateInv'
<1> SUFFICES ASSUME TypeOK, LateInv, [Next]_vars PROVE LateInv'
  OBVIOUS
<1> USE DEF LateInv, TypeOK
<1>1. CASE UNCHANGED <<late, closed, loop>>
  BY <1>1
<1>2. ASSUME NEW c \in Consumers, StartConsumer(c) PROVE LateInv'
  BY <1>2 DEF StartConsumer
<1>3. ASSUME NEW c \in Consumers, StopConsumer(c) PROVE LateInv'
  BY <1>3 DEF StopConsumer
<1>4. ASSUME NEW c \in Consumers, CheckClosed(c) PROVE LateInv'
  BY <1>4 DEF CheckClosed
<1>5. ASSUME NEW c \in Consumers, Consume(c) PROVE LateInv'
  BY <1>5 DEF Consume
<1>6. ASSUME NEW c \in Consumers, HandleBegins(c) PROVE LateInv'
  BY <1>6 DEF HandleBegins
<1>7. ASSUME NEW c \in Consumers, HandleEnds(c) PROVE LateInv'
  BY <1>7 DEF HandleEnds
<1>8. QED
  BY <1>1, <1>2, <1>3, <1>4, <1>5, <1>6, <1>7
  DEF Next, RunStep, StopStep, Loop, RunFails, RunBegins, RunWaits, RunReturns, Exit,
      StartServer, StopBegins, StopQueuesDone, StopServer, Publish, ServerStarts, vars

\* A consumer that has been closed handles at most the one task it was
\* fetching then, whenever and however often Stop is called.
THEOREM OneLateTaskCorrect == Spec => []OneLateTask
<1>1. LateInv => OneLateTask
  BY DEF LateInv, OneLateTask
<1>2. QED
  BY TypeInit, TypeStep, LateInit, LateStep, <1>1, PTL DEF Spec

-----------------------------------------------------------------------------
(* The WaitGroup.                                                          *)

Open == Started \ closed

LEMMA Finite == IsFiniteSet(Open) /\ IsFiniteSet(Serving)
BY FS_Subset DEF Open, Started, Serving, EngineAssumption

LEMMA CountsNat == Cardinality(Open) \in Nat /\ Cardinality(Serving) \in Nat
BY Finite, FS_CardinalityType

LEMMA PhaseInit == LateStop /\ Init => PhaseInv
BY DEF LateStop, Init, PhaseInv

LEMMA PhaseStep == LateStop /\ TypeOK /\ PhaseInv /\ [Next]_vars => PhaseInv'
<1> SUFFICES ASSUME LateStop, TypeOK, PhaseInv, [Next]_vars PROVE PhaseInv'
  OBVIOUS
<1> USE DEF LateStop, PhaseInv, TypeOK
<1>1. CASE UNCHANGED <<run, starting, stop, closed, loop, server>>
  BY <1>1
<1>2. CASE RunFails \/ RunBegins \/ RunWaits \/ RunReturns \/ Exit
  BY <1>2 DEF RunFails, RunBegins, RunWaits, RunReturns, Exit
<1>3. ASSUME NEW c \in Consumers, StartConsumer(c) PROVE PhaseInv'
  BY <1>3 DEF StartConsumer
<1>4. ASSUME NEW s \in Servers, StartServer(s) PROVE PhaseInv'
  BY <1>4 DEF StartServer
<1>5. CASE StopBegins
  BY <1>5 DEF StopBegins
<1>6. CASE StopQueuesDone
  BY <1>6 DEF StopQueuesDone
<1>7. ASSUME NEW c \in Consumers, StopConsumer(c) PROVE PhaseInv'
  BY <1>7 DEF StopConsumer
<1>8. ASSUME NEW s \in Servers, StopServer(s) PROVE PhaseInv'
  BY <1>8 DEF StopServer
<1>9. ASSUME NEW c \in Consumers, Loop(c) PROVE PhaseInv'
  BY <1>9 DEF Loop, CheckClosed, Consume, HandleBegins, HandleEnds
<1>10. ASSUME NEW s \in Servers, ServerStarts(s) PROVE PhaseInv'
  BY <1>10 DEF ServerStarts
<1>11. QED
  BY <1>1, <1>2, <1>3, <1>4, <1>5, <1>6, <1>7, <1>8, <1>9, <1>10
  DEF Next, RunStep, StopStep, Publish, vars

LEMMA CountsInit == Init => WaitGroupCounts /\ RunBlocks
<1> SUFFICES ASSUME Init PROVE WaitGroupCounts /\ RunBlocks
  OBVIOUS
<1>1. Started \ closed = {} /\ Serving = {}
  BY DEF Init, Started, Serving
<1>2. QED
  BY <1>1, FS_EmptySet DEF Init, WaitGroupCounts, RunBlocks

\* The steps that neither start nor stop anything.
LEMMA CountsSame ==
  ASSUME TypeOK, WaitGroupCounts, RunBlocks, wg' = wg, Started' \ closed' = Started \ closed,
         Serving' = Serving, run' = "returned" => run = "returned"
  PROVE  WaitGroupCounts' /\ RunBlocks'
BY DEF WaitGroupCounts, RunBlocks

LEMMA CountsStep == LateStop /\ Inv /\ [Next]_vars => WaitGroupCounts' /\ RunBlocks'
<1> SUFFICES ASSUME LateStop, Inv, [Next]_vars PROVE WaitGroupCounts' /\ RunBlocks'
  OBVIOUS
<1> USE DEF Inv
<1>1. CASE UNCHANGED vars
  BY <1>1, CountsSame DEF vars, Started, Serving
<1>2. CASE RunFails \/ RunBegins \/ RunWaits \/ Exit
  BY <1>2, CountsSame DEF RunFails, RunBegins, RunWaits, Exit, Started, Serving
<1>3. CASE RunReturns
  <2>1. Cardinality(Started \ closed) = 0 /\ Cardinality(Serving) = 0
    BY <1>3, CountsNat DEF RunReturns, WaitGroupCounts, Open
  <2>2. Started \ closed = {} /\ Serving = {}
    BY <2>1, Finite, FS_EmptySet DEF Open
  <2>3. QED
    BY <1>3, <2>2 DEF RunReturns, WaitGroupCounts, RunBlocks, Started, Serving
<1>4. ASSUME NEW c \in Consumers, StartConsumer(c) PROVE WaitGroupCounts' /\ RunBlocks'
  <2>1. closed = {} /\ loop[c] = "off"
    BY <1>4 DEF StartConsumer, PhaseInv
  <2>2. Started' \ closed' = Open \cup {c} /\ c \notin Open /\ Serving' = Serving
    BY <1>4, <2>1 DEF StartConsumer, Started, Serving, Open, TypeOK
  <2>3. Cardinality(Started' \ closed') = Cardinality(Open) + 1
    BY <2>2, Finite, FS_AddElement
  <2>4. QED
    BY <1>4, <2>2, <2>3, CountsNat DEF StartConsumer, WaitGroupCounts, RunBlocks, Open
<1>5. ASSUME NEW s \in Servers, StartServer(s) PROVE WaitGroupCounts' /\ RunBlocks'
  <2>1. server[s] = "off"
    BY <1>5 DEF StartServer, PhaseInv
  <2>2. Serving' = Serving \cup {s} /\ s \notin Serving /\ Started' \ closed' = Started \ closed
    BY <1>5, <2>1 DEF StartServer, Started, Serving, TypeOK
  <2>3. Cardinality(Serving') = Cardinality(Serving) + 1
    BY <2>2, Finite, FS_AddElement
  <2>4. QED
    <3>1. WaitGroupCounts'
      <4>1. wg' = wg + 1 /\ wg = Cardinality(Open) + Cardinality(Serving)
        BY <1>5 DEF StartServer, WaitGroupCounts, Open
      <4>2. Cardinality(Started' \ closed') = Cardinality(Open)
        BY <2>2 DEF Open
      <4>3. QED
        BY <4>1, <4>2, <2>3, CountsNat DEF WaitGroupCounts
    <3>2. RunBlocks'
      BY <1>5 DEF StartServer, RunBlocks
    <3>3. QED
      BY <3>1, <3>2
<1>6. CASE StopBegins \/ StopQueuesDone \/ Publish
  BY <1>6, CountsSame DEF StopBegins, StopQueuesDone, Publish, Started, Serving
<1>7. ASSUME NEW c \in Consumers, StopConsumer(c) PROVE WaitGroupCounts' /\ RunBlocks'
  <2>1. stop.calls # 0 /\ loop[c] # "off"
    BY <1>7 DEF StopConsumer, PhaseInv
  <2>2. CASE c \in closed
    <3>1. wg' = wg /\ closed' = closed /\ UNCHANGED <<run, loop, server>>
      BY <1>7, <2>2 DEF StopConsumer
    <3>2. QED
      BY <3>1, CountsSame DEF Started, Serving
  <2>3. CASE c \notin closed
    <3>1. Started' \ closed' = Open \ {c} /\ c \in Open /\ Serving' = Serving
      BY <1>7, <2>1, <2>3 DEF StopConsumer, Started, Serving, Open
    <3>2. Cardinality(Started' \ closed') = Cardinality(Open) - 1
      BY <3>1, Finite, FS_RemoveElement
    <3>3. QED
      BY <1>7, <2>1, <2>3, <3>1, <3>2, CountsNat
      DEF StopConsumer, WaitGroupCounts, RunBlocks, Started, Open
  <2>4. QED
    BY <2>2, <2>3
<1>8. ASSUME NEW s \in Servers, StopServer(s) PROVE WaitGroupCounts' /\ RunBlocks'
  <2>1. server[s] # "off" /\ server[s] # "stopped"
    BY <1>8 DEF StopServer, PhaseInv
  <2>2. Serving' = Serving \ {s} /\ s \in Serving /\ Started' \ closed' = Started \ closed
    BY <1>8, <2>1 DEF StopServer, Started, Serving, TypeOK
  <2>3. Cardinality(Serving') = Cardinality(Serving) - 1
    BY <2>2, Finite, FS_RemoveElement
  <2>4. QED
    <3>1. WaitGroupCounts'
      <4>1. wg' = wg - 1 /\ wg = Cardinality(Open) + Cardinality(Serving)
        BY <1>8 DEF StopServer, WaitGroupCounts, Open
      <4>2. Cardinality(Started' \ closed') = Cardinality(Open)
        BY <2>2 DEF Open
      <4>3. QED
        BY <4>1, <4>2, <2>3, CountsNat DEF WaitGroupCounts
    <3>2. RunBlocks'
      BY <1>8, <2>2 DEF StopServer, RunBlocks
    <3>3. QED
      BY <3>1, <3>2
<1>9. ASSUME NEW c \in Consumers, Loop(c) PROVE WaitGroupCounts' /\ RunBlocks'
  <2>1. Started' = Started
    BY <1>9 DEF Loop, CheckClosed, Consume, HandleBegins, HandleEnds, Started, TypeOK
  <2>2. QED
    BY <1>9, <2>1, CountsSame DEF Loop, CheckClosed, Consume, HandleBegins, HandleEnds, Serving
<1>10. ASSUME NEW s \in Servers, ServerStarts(s) PROVE WaitGroupCounts' /\ RunBlocks'
  <2>1. Serving' = Serving
    BY <1>10 DEF ServerStarts, Serving, TypeOK
  <2>2. QED
    BY <1>10, <2>1, CountsSame DEF ServerStarts, Started
<1>11. QED
  BY <1>1, <1>2, <1>3, <1>4, <1>5, <1>6, <1>7, <1>8, <1>9, <1>10 DEF Next, RunStep, StopStep

LEMMA InvInit == LateStop /\ Init => Inv
BY TypeInit, PhaseInit, CountsInit DEF Inv

LEMMA InvStep == LateStop /\ Inv /\ [Next]_vars => Inv'
BY TypeStep, PhaseStep, CountsStep DEF Inv

\* The counter of the WaitGroup is the number of consumers and servers that
\* are started and not stopped.
THEOREM WaitGroupCorrect == ASSUME LateStop PROVE Spec => []WaitGroupCounts
<1>1. Inv => WaitGroupCounts
  BY DEF Inv
<1>2. QED
  BY InvInit, InvStep, <1>1, PTL DEF Spec

\* Run returns only once every consumer and every server has been stopped.
THEOREM RunBlocksCorrect == ASSUME LateStop PROVE Spec => []RunBlocks
<1>1. Inv => RunBlocks
  BY DEF Inv
<1>2. QED
  BY InvInit, InvStep, <1>1, PTL DEF Spec

\* Stop, called once after Run has begun to wait, or more than once where
\* there is no server, never takes the counter of the WaitGroup below zero.
THEOREM NoPanicCorrect == ASSUME LateStop PROVE Spec => []NoPanic
<1>1. Inv => NoPanic
  BY CountsNat DEF Inv, WaitGroupCounts, NoPanic, Panicked, TypeOK, Open
<1>2. QED
  BY InvInit, InvStep, <1>1, PTL DEF Spec
=============================================================================

---------------------------- MODULE ScriptsProofs ----------------------------
(***************************************************************************)
(* Theorems about Scripts, for any number of processes, goroutines,        *)
(* scripts, restarts and failures.                                         *)
(*                                                                         *)
(* Several goroutines may empty and fill the map of their process at once. *)
(* MapInv says that one of them still has everything to do that the map    *)
(* lacks, so that whoever reads it when nobody fills it gets an id         *)
(* (ReadInv), and FreshInv that what a goroutine has done since the last   *)
(* restart is in Redis.                                                    *)
(***************************************************************************)
EXTENDS Scripts, TLAPS

\* A goroutine that is in a call knows what it calls, and one that stores an
\* id has it yet to do.
CallInv ==
  \A g \in Goroutines :
    /\ pc[g] \notin {"idle", "lost", "dead"} => key[g] \in Keys
    /\ pc[g] = "store" => loading[g] \in todo[g]
    /\ pc[g] = "again" => todo[g] = {}
    /\ ProcessOf[g] \in dead => pc[g] = "dead"

\* Whoever read from a map that was settled has read an id.
ReadInv ==
  \A g \in Goroutines \ blind :
    pc[g] \in {"eval", "ping", "make", "load", "store", "again"} => g \in known

MapInv ==
  \A p \in Processes \ (dead \cup broken) :
    \/ scripts[p] = Keys
    \/ \E g \in Initializing(p) : Keys \ scripts[p] \subseteq todo[g]

FreshInv ==
  \A g \in fresh :
    pc[g] \in {"load", "store", "again"} =>
      /\ Keys \ todo[g] \subseteq loaded
      /\ pc[g] = "store" => loading[g] \in loaded

Inv == TypeOK /\ CallInv /\ ReadInv /\ MapInv /\ FreshInv

USE ScriptsAssumption

LEMMA KeyTypes == {"MULTIHGETALL", "HMSETEXPIRE"} \subseteq Keys /\ NoKey \notin Keys
BY DEF NoKey

LEMMA InvInit == Init => Inv
BY KeyTypes DEF Init, Inv, TypeOK, CallInv, ReadInv, MapInv, FreshInv

\* The end of a call, with an answer or without.
LEMMA ReturnEffect ==
  ASSUME Inv, NEW g \in Goroutines, Answer(g) \/ Fail(g)
  PROVE  \E step \in {"idle", "lost", "read"}, next \in Keys \cup {NoKey} :
           /\ step = "read" => next \in Keys
           /\ pc' = [pc EXCEPT ![g] = step] /\ key' = [key EXCEPT ![g] = next]
           /\ known' = known \ {g} /\ blind' = blind \ {g} /\ fresh' = fresh \ {g}
           /\ todo' = [todo EXCEPT ![g] = {}] /\ loading' = [loading EXCEPT ![g] = NoKey]
BY KeyTypes DEF Answer, Fail, Return, Goto

LEMMA ReturnStep ==
  ASSUME Inv, NEW g \in Goroutines, Answer(g) \/ Fail(g),
         UNCHANGED <<loaded, scripts, dead>>, restarts' \in Nat, errors' \in Nat,
         broken' \subseteq Processes, broken \subseteq broken',
         pc[g] = "load" => ProcessOf[g] \in broken',
         pc[g] \notin {"store", "dead"}
  PROVE  Inv'
<1>1. PICK step \in {"idle", "lost", "read"}, next \in Keys \cup {NoKey} :
        /\ step = "read" => next \in Keys
        /\ pc' = [pc EXCEPT ![g] = step] /\ key' = [key EXCEPT ![g] = next]
        /\ known' = known \ {g} /\ blind' = blind \ {g} /\ fresh' = fresh \ {g}
        /\ todo' = [todo EXCEPT ![g] = {}] /\ loading' = [loading EXCEPT ![g] = NoKey]
  BY ReturnEffect
<1>2. TypeOK'
  BY <1>1, KeyTypes DEF Inv, TypeOK
<1>3. CallInv'
  BY <1>1 DEF Inv, TypeOK, CallInv
<1>4. MapInv'
  <2>1. ASSUME NEW p \in Processes \ (dead' \cup broken'), NEW h \in Initializing(p),
               Keys \ scripts[p] \subseteq todo[h]
        PROVE  h \in Initializing(p)' /\ Keys \ scripts'[p] \subseteq todo'[h]
    BY <1>1, <2>1 DEF Inv, TypeOK, Initializing, Of
  <2>2. QED
    BY <2>1 DEF Inv, MapInv
<1>5. FreshInv' /\ ReadInv'
  BY <1>1 DEF Inv, TypeOK, FreshInv, ReadInv
<1>6. QED
  BY <1>2, <1>3, <1>4, <1>5 DEF Inv

\* A step of one goroutine between calls to Redis, that changes no map.
LEMMA GotoStep ==
  ASSUME Inv, NEW g \in Goroutines,
         NEW step \in {"read", "eval", "ping", "make"}, Goto(g, step),
         pc[g] \notin {"load", "store", "dead"},
         key' \in [Goroutines -> Keys \cup {NoKey}], key'[g] \in Keys,
         \A h \in Goroutines : h # g => key'[h] = key[h],
         known' \subseteq Goroutines, blind' \subseteq Goroutines,
         \A h \in Goroutines : h # g => (h \in known' <=> h \in known) /\ (h \in blind' <=> h \in blind),
         step # "read" => g \in known' \cup blind',
         UNCHANGED <<loaded, scripts, todo, loading, fresh, restarts, errors, broken, dead>>
  PROVE  Inv'
<1>1. /\ pc' = [pc EXCEPT ![g] = step]
      /\ \A h \in Goroutines : h # g => pc'[h] = pc[h]
      /\ pc'[g] = step
  BY DEF Inv, TypeOK, Goto
<1>2. TypeOK'
  BY <1>1 DEF Inv, TypeOK
<1>3. CallInv'
  BY <1>1 DEF Inv, CallInv
<1>4. MapInv'
  <2>1. ASSUME NEW p \in Processes, NEW h \in Initializing(p)
        PROVE  h \in Initializing(p)'
    BY <1>1, <2>1 DEF Initializing, Of
  <2>2. QED
    BY <2>1 DEF Inv, MapInv
<1>5. FreshInv' /\ ReadInv'
  BY <1>1 DEF Inv, TypeOK, FreshInv, ReadInv
<1>6. QED
  BY <1>2, <1>3, <1>4, <1>5 DEF Inv

LEMMA InvStep == Inv /\ [Next]_vars => Inv'
<1> SUFFICES ASSUME Inv, [Next]_vars PROVE Inv'
  OBVIOUS
<1>1. ASSUME NEW g \in Goroutines, Begin(g) PROVE Inv'
  <2>1. key' = [key EXCEPT ![g] = "MULTIHGETALL"]
    BY <1>1 DEF Begin
  <2>2. /\ key' \in [Goroutines -> Keys \cup {NoKey}] /\ key'[g] \in Keys
        /\ \A h \in Goroutines : h # g => key'[h] = key[h]
    BY <2>1, KeyTypes DEF Inv, TypeOK
  <2>3. QED
    BY <1>1, <2>2, GotoStep DEF Begin, Inv, TypeOK
<1>2. ASSUME NEW g \in Goroutines, ReadId(g) PROVE Inv'
  <2>1. key' = key /\ key[g] \in Keys /\ pc[g] = "read"
    BY <1>2 DEF ReadId, Inv, CallInv, TypeOK
  <2>2. /\ known' \subseteq Goroutines /\ blind' \subseteq Goroutines
        /\ \A h \in Goroutines : h # g => (h \in known' <=> h \in known) /\ (h \in blind' <=> h \in blind)
    BY <1>2 DEF ReadId, Inv, TypeOK
  <2>3. g \in known' \cup blind'
    <3>1. CASE Settled(ProcessOf[g])
      <4>1. ProcessOf[g] \in Processes \ (dead \cup broken)
        BY <2>1, <3>1 DEF Inv, CallInv, Settled
      <4>2. scripts[ProcessOf[g]] = Keys
        BY <3>1, <4>1 DEF Inv, MapInv, Settled
      <4>3. QED
        BY <1>2, <2>1, <4>2 DEF ReadId
    <3>2. CASE ~Settled(ProcessOf[g])
      BY <1>2, <3>2 DEF ReadId
    <3>3. QED
      BY <3>1, <3>2
  <2>4. QED
    BY <1>2, <2>1, <2>2, <2>3, GotoStep DEF ReadId, Inv, TypeOK
<1>3. ASSUME NEW g \in Goroutines, Error PROVE errors' \in Nat
  BY <1>3 DEF Error, Inv, TypeOK
<1>4. ASSUME NEW g \in Goroutines, EvalSha(g) PROVE Inv'
  <2>1. CASE Answer(g) \/ Fail(g)
    <3>1. errors' \in Nat /\ UNCHANGED <<loaded, scripts, restarts, broken, dead>>
          /\ pc[g] = "eval"
      BY <1>3, <1>4 DEF EvalSha, Inv, TypeOK
    <3>2. QED
      BY <2>1, <3>1, ReturnStep DEF Inv, TypeOK
  <2>2. CASE Goto(g, "ping") /\ UNCHANGED <<key, known, blind, todo, loading, fresh, errors>>
    <3>1. key' = key /\ key[g] \in Keys /\ pc[g] = "eval" /\ known' = known /\ blind' = blind
          /\ g \in known' \cup blind'
      BY <1>4, <2>2 DEF EvalSha, Inv, CallInv, ReadInv
    <3>2. QED
      BY <1>4, <2>2, <3>1, GotoStep DEF EvalSha, Inv, TypeOK
  <2>3. QED
    BY <1>4, <2>1, <2>2 DEF EvalSha
<1>5. ASSUME NEW g \in Goroutines, EvalShaAgain(g) PROVE Inv'
  <2>1. errors' \in Nat /\ UNCHANGED <<loaded, scripts, restarts, broken, dead>>
        /\ pc[g] = "again" /\ (Answer(g) \/ Fail(g))
    BY <1>3, <1>5 DEF EvalShaAgain, Inv, TypeOK
  <2>2. QED
    BY <2>1, ReturnStep DEF Inv, TypeOK
<1>6. ASSUME NEW g \in Goroutines, Ping(g) PROVE Inv'
  <2>1. CASE Fail(g)
    <3>1. errors' \in Nat /\ UNCHANGED <<loaded, scripts, restarts, broken, dead>>
          /\ pc[g] = "ping"
      BY <1>3, <1>6 DEF Ping, Inv, TypeOK
    <3>2. QED
      BY <2>1, <3>1, ReturnStep DEF Inv, TypeOK
  <2>2. CASE Goto(g, "make") /\ UNCHANGED <<key, known, blind, todo, loading, fresh, errors>>
    <3>1. key' = key /\ key[g] \in Keys /\ pc[g] = "ping" /\ known' = known /\ blind' = blind
          /\ g \in known' \cup blind'
      BY <1>6, <2>2 DEF Ping, Inv, CallInv, ReadInv
    <3>2. QED
      BY <1>6, <2>2, <3>1, GotoStep DEF Ping, Inv, TypeOK
  <2>3. QED
    BY <1>6, <2>1, <2>2 DEF Ping
\* The map of the process is empty, and g has everything to do.
<1>7. ASSUME NEW g \in Goroutines, Make(g) PROVE Inv'
  <2> DEFINE q == ProcessOf[g]
  <2>1. /\ q \in Processes /\ pc[g] = "make" /\ pc' = [pc EXCEPT ![g] = "load"]
        /\ scripts' = [scripts EXCEPT ![q] = {}] /\ broken' = broken \ {q}
        /\ todo' = [todo EXCEPT ![g] = Keys] /\ fresh' = fresh \cup {g}
        /\ UNCHANGED <<loaded, key, known, blind, loading, restarts, errors, dead>>
    BY <1>7 DEF Make, Goto
  <2>2. TypeOK'
    BY <2>1 DEF Inv, TypeOK
  <2>3. CallInv'
    BY <2>1 DEF Inv, TypeOK, CallInv
  <2>4. MapInv'
    <3>1. g \in Initializing(q)' /\ todo'[g] = Keys
      BY <2>1 DEF Inv, TypeOK, Initializing, Of
    <3>2. ASSUME NEW p \in Processes \ (dead' \cup broken'), p # q
          PROVE  \/ scripts'[p] = Keys
                 \/ \E h \in Initializing(p)' : Keys \ scripts'[p] \subseteq todo'[h]
      <4>1. p \notin dead \cup broken /\ scripts'[p] = scripts[p]
        BY <2>1, <3>2 DEF Inv, TypeOK
      <4>2. ASSUME NEW h \in Initializing(p)
            PROVE  h \in Initializing(p)' /\ todo'[h] = todo[h]
        BY <2>1, <3>2, <4>2 DEF Inv, TypeOK, Initializing, Of
      <4>3. QED
        BY <4>1, <4>2 DEF Inv, MapInv
    <3>3. QED
      BY <3>1, <3>2 DEF MapInv
  <2>5. FreshInv' /\ ReadInv'
    BY <2>1 DEF Inv, TypeOK, FreshInv, ReadInv
  <2>6. QED
    BY <2>2, <2>3, <2>4, <2>5 DEF Inv
<1>8. ASSUME NEW g \in Goroutines, Load(g) PROVE Inv'
  <2>1. CASE Fail(g)
    <3>1. \/ Error /\ broken' = broken \cup {ProcessOf[g]} /\ UNCHANGED loaded
          \/ \E k \in todo[g] : Goto(g, "store")
      BY <1>8 DEF Load
    <3>2. ~Goto(g, "store")
      BY <2>1 DEF Fail, Return, Goto, Inv, TypeOK
    <3>3. errors' \in Nat /\ broken' = broken \cup {ProcessOf[g]} /\ UNCHANGED <<loaded, scripts, restarts, dead>>
          /\ pc[g] = "load"
      BY <1>3, <1>8, <3>1, <3>2 DEF Load
    <3>4. QED
      BY <2>1, <3>3, ReturnStep DEF Inv, TypeOK
  <2>2. CASE \E k \in todo[g] :
               /\ loaded' = loaded \cup {k}
               /\ loading' = [loading EXCEPT ![g] = k]
               /\ Goto(g, "store")
               /\ UNCHANGED <<key, known, blind, todo, fresh, errors, broken>>
    <3>1. PICK k \in todo[g] :
            /\ loaded' = loaded \cup {k} /\ loading' = [loading EXCEPT ![g] = k]
            /\ pc' = [pc EXCEPT ![g] = "store"]
            /\ UNCHANGED <<key, known, blind, todo, fresh, errors, broken>>
      BY <2>2 DEF Goto
    <3>2. pc[g] = "load" /\ UNCHANGED <<scripts, restarts, dead>> /\ k \in Keys
      BY <1>8 DEF Load, Inv, TypeOK
    <3>3. TypeOK'
      BY <3>1, <3>2 DEF Inv, TypeOK
    <3>4. CallInv'
      BY <3>1, <3>2 DEF Inv, TypeOK, CallInv
    <3>5. MapInv'
      <4>1. ASSUME NEW p \in Processes, NEW h \in Initializing(p)
            PROVE  h \in Initializing(p)'
        BY <3>1, <4>1 DEF Inv, TypeOK, Initializing, Of
      <4>2. QED
        BY <3>1, <3>2, <4>1 DEF Inv, MapInv
    <3>6. FreshInv' /\ ReadInv'
      BY <3>1, <3>2 DEF Inv, TypeOK, FreshInv, ReadInv
    <3>7. QED
      BY <3>3, <3>4, <3>5, <3>6 DEF Inv
  <2>3. QED
    BY <1>8, <2>1, <2>2 DEF Load
<1>9. ASSUME NEW g \in Goroutines, Store(g) PROVE Inv'
  <2> DEFINE q == ProcessOf[g]
             step == IF todo[g] \subseteq {loading[g]} THEN "again" ELSE "load"
  <2>1. /\ q \in Processes /\ pc[g] = "store" /\ pc' = [pc EXCEPT ![g] = step]
        /\ scripts' = [scripts EXCEPT ![q] = @ \cup {loading[g]}]
        /\ todo' = [todo EXCEPT ![g] = @ \ {loading[g]}]
        /\ UNCHANGED <<loaded, key, known, blind, loading, fresh, restarts, errors, broken, dead>>
    BY <1>9 DEF Store, Goto
  <2>2. loading[g] \in Keys /\ key[g] \in Keys
    BY <2>1 DEF Inv, TypeOK, CallInv
  <2>3. /\ step \in {"load", "again"}
        /\ step = "again" => todo'[g] = {}
        /\ todo'[g] = todo[g] \ {loading[g]} /\ pc'[g] = step
    BY <2>1 DEF Inv, TypeOK
  <2> HIDE DEF step
  <2>4. TypeOK'
    BY <2>1, <2>2, <2>3 DEF Inv, TypeOK
  <2>5. CallInv'
    BY <2>1, <2>2, <2>3 DEF Inv, TypeOK, CallInv
  <2>6. MapInv'
    <3>1. ASSUME NEW p \in Processes \ (dead \cup broken), NEW h \in Initializing(p),
                 Keys \ scripts[p] \subseteq todo[h]
          PROVE  \/ scripts'[p] = Keys
                 \/ \E i \in Initializing(p)' : Keys \ scripts'[p] \subseteq todo'[i]
      <4>1. CASE h = g
        <5>1. p = q /\ Keys \ scripts'[p] \subseteq todo'[g]
          BY <2>1, <2>3, <3>1, <4>1 DEF Inv, TypeOK, Initializing, Of
        <5>2. CASE step = "again"
          BY <2>1, <2>2, <2>3, <5>1, <5>2 DEF Inv, TypeOK
        <5>3. CASE step = "load"
          BY <2>1, <2>3, <5>1, <5>3 DEF Initializing, Of
        <5>4. QED
          BY <2>3, <5>2, <5>3
      <4>2. CASE h # g
        BY <2>1, <3>1, <4>2 DEF Inv, TypeOK, Initializing, Of
      <4>3. QED
        BY <4>1, <4>2
    <3>2. ASSUME NEW p \in Processes, scripts[p] = Keys PROVE scripts'[p] = Keys
      BY <2>1, <2>2, <3>2 DEF Inv, TypeOK
    <3>3. QED
      BY <2>1, <3>1, <3>2 DEF Inv, MapInv
  <2>7. FreshInv' /\ ReadInv'
    BY <2>1, <2>2, <2>3 DEF Inv, TypeOK, FreshInv, ReadInv
  <2>8. QED
    BY <2>4, <2>5, <2>6, <2>7 DEF Inv
<1>10. CASE RedisRestarts
  BY <1>10 DEF RedisRestarts, Inv, TypeOK, CallInv, ReadInv, MapInv, FreshInv, Initializing
<1>11. ASSUME NEW q \in Processes, ConcurrentMapAccess(q) PROVE Inv'
  <2>1. /\ dead' = dead \cup {q}
        /\ pc' = [g \in Goroutines |-> IF ProcessOf[g] = q THEN "dead" ELSE pc[g]]
        /\ UNCHANGED <<loaded, scripts, key, known, blind, todo, loading, fresh, restarts, errors, broken>>
    BY <1>11 DEF ConcurrentMapAccess
  <2>2. TypeOK' /\ CallInv' /\ ReadInv' /\ FreshInv'
    BY <2>1 DEF Inv, TypeOK, CallInv, ReadInv, FreshInv
  <2>3. MapInv'
    BY <2>1 DEF Inv, MapInv, Initializing, Of
  <2>4. QED
    BY <2>2, <2>3 DEF Inv
<1>12. CASE UNCHANGED vars
  BY <1>12 DEF vars, call, Inv, TypeOK, CallInv, ReadInv, MapInv, FreshInv, Initializing
<1>13. QED
  BY <1>1, <1>2, <1>4, <1>5, <1>6, <1>7, <1>8, <1>9, <1>10, <1>11, <1>12 DEF Next, Step

THEOREM InvCorrect == Spec => []Inv
BY InvInit, InvStep, PTL DEF Spec

\* Every variable keeps its shape.
THEOREM TypeCorrect == Spec => []TypeOK
<1>1. Inv => TypeOK
  BY DEF Inv
<1>2. QED
  BY <1>1, InvCorrect, PTL

\* When nobody in a process runs Initialize (broker_redis.go:148), and none has
\* failed half-way, p.scripts has an id for every script, whoever emptied and
\* filled it at once.
THEOREM CompleteAtRestCorrect == Spec => []CompleteAtRest
<1>1. Inv => CompleteAtRest
  BY DEF Inv, MapInv, CompleteAtRest, Settled
<1>2. QED
  BY <1>1, InvCorrect, PTL

\* The EVALSHA that evalSha repeats after Initialize (broker_redis.go:326) finds
\* its script, with two exceptions: Redis was restarted once more, or the call
\* read the map while another goroutine was filling it, or after one had failed
\* to, and repeats the "" it got for an id.
THEOREM CureWorksCorrect == Spec => []CureWorks
<1>1. Inv => CureWorks
  BY DEF Inv, CallInv, ReadInv, FreshInv, TypeOK, CureWorks, Found
<1>2. QED
  BY <1>1, InvCorrect, PTL
=============================================================================

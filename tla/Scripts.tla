------------------------------- MODULE Scripts -------------------------------
(***************************************************************************)
(* The Lua scripts of the broker (broker_redis.go): Redis runs a script by *)
(* its id, EVALSHA, and forgets all scripts when it restarts.  Each worker *)
(* process keeps the ids in a map, p.scripts, that its goroutines read for *)
(* every call; a goroutine whose call gets NOSCRIPT runs Initialize, which *)
(* empties the map and fills it again, and then repeats its call, once,    *)
(* with the id it had read before.                                         *)
(*                                                                         *)
(* A consumer needs MULTIHGETALL right after it has popped a task, and     *)
(* HMSETEXPIRE to save the result; a mover needs MULTIHGETALL for the ids  *)
(* that are due, which it has not removed yet.                             *)
(***************************************************************************)
EXTENDS Naturals, FiniteSets

CONSTANTS
  Processes,
  Consumers,    \* the consumer goroutines of all processes
  Movers,       \* the mover goroutines
  ProcessOf,    \* the process a goroutine runs in
  Keys,         \* redisScripts: the scripts that are loaded
  MaxRestarts,  \* bound: restarts of Redis
  MaxErrors     \* bound: commands that fail for another reason

Goroutines == Consumers \cup Movers

ASSUME ScriptsAssumption ==
  /\ ProcessOf \in [Goroutines -> Processes]
  /\ Consumers \cap Movers = {}
  /\ {"MULTIHGETALL", "HMSETEXPIRE"} \subseteq Keys /\ Keys \subseteq STRING \ {"none"}
  /\ MaxRestarts \in Nat /\ MaxErrors \in Nat

VARIABLES
  loaded,    \* the scripts Redis knows
  scripts,   \* p.scripts of each process: the keys that have an id
  pc,        \* where each goroutine is
  key,       \* the script it wants
  known,     \* the goroutines that have read an id for it, and not ""
  blind,     \* history: those that read while the map was being filled, or left so
  todo,      \* what the Initialize each goroutine runs has yet to put in the map
  loading,   \* the script it has loaded last
  fresh,     \* history: those that began Initialize after the last restart
  restarts,  \* how often Redis was restarted
  errors,    \* how many commands have failed
  broken,    \* history: the processes whose map a failed Initialize has left
  dead       \* the processes that have died

call == <<pc, key, known, blind, blind, todo, loading, fresh>>
vars == <<loaded, scripts, call, restarts, errors, broken, dead>>

NoKey == "none"

Of(p) == {g \in Goroutines : ProcessOf[g] = p}
Goto(g, step) == pc' = [pc EXCEPT ![g] = step]

-----------------------------------------------------------------------------
\* New has run Initialize, before there were any goroutines.
Init ==
  /\ loaded = Keys /\ scripts = [p \in Processes |-> Keys]
  /\ pc = [g \in Goroutines |-> "idle"]
  /\ key = [g \in Goroutines |-> NoKey]
  /\ known = {} /\ blind = {}
  /\ todo = [g \in Goroutines |-> {}] /\ loading = [g \in Goroutines |-> NoKey]
  /\ fresh = {}
  /\ restarts = 0 /\ errors = 0 /\ broken = {} /\ dead = {}

\* A consumer has popped a task, a mover has found ids that are due.
Begin(g) ==
  /\ pc[g] \in {"idle", "lost"}
  /\ key' = [key EXCEPT ![g] = "MULTIHGETALL"]
  /\ Goto(g, "read")
  /\ UNCHANGED <<loaded, scripts, known, blind, todo, loading, fresh, restarts, errors, broken, dead>>

\* The map of a process is settled when nobody is filling it and none has failed to.
Initializing(p) == {g \in Of(p) : pc[g] \in {"load", "store"}}
Settled(p) == Initializing(p) = {} /\ p \notin broken

\* p.scripts[key], which is "" when the map does not have the key.
ReadId(g) ==
  /\ pc[g] = "read"
  /\ known' = IF key[g] \in scripts[ProcessOf[g]] THEN known \cup {g} ELSE known
  /\ blind' = IF Settled(ProcessOf[g]) THEN blind ELSE blind \cup {g}
  /\ Goto(g, "eval")
  /\ UNCHANGED <<loaded, scripts, key, todo, loading, fresh, restarts, errors, broken, dead>>

\* evalSha returns: its variables are gone.
Return(g, step, next) ==
  /\ Goto(g, step)
  /\ key' = [key EXCEPT ![g] = next]
  /\ known' = known \ {g} /\ blind' = blind \ {g} /\ fresh' = fresh \ {g}
  /\ todo' = [todo EXCEPT ![g] = {}] /\ loading' = [loading EXCEPT ![g] = NoKey]

\* The call has its answer: a consumer that has its task handles it and may
\* save the result next.
Answer(g) ==
  \/ Return(g, "idle", NoKey)
  \/ g \in Consumers /\ key[g] = "MULTIHGETALL" /\ Return(g, "read", "HMSETEXPIRE")

\* The call has failed: the task a consumer has popped is lost, or its result.
Fail(g) == Return(g, IF g \in Consumers THEN "lost" ELSE "idle", NoKey)

\* The command Redis got fails, for another reason than a missing script.
Error == errors < MaxErrors /\ errors' = errors + 1

\* Would EVALSHA find the script?
Found(g) == g \in known /\ key[g] \in loaded

EvalSha(g) ==
  /\ pc[g] = "eval"
  /\ \/ Found(g) /\ Answer(g) /\ UNCHANGED errors
     \/ ~Found(g) /\ Goto(g, "ping") /\ UNCHANGED <<key, known, blind, todo, loading, fresh, errors>>
     \/ Error /\ Fail(g)
  /\ UNCHANGED <<loaded, scripts, restarts, broken, dead>>

-----------------------------------------------------------------------------
(* Initialize.                                                             *)

Ping(g) ==
  /\ pc[g] = "ping"
  /\ \/ Goto(g, "make") /\ UNCHANGED <<key, known, blind, todo, loading, fresh, errors>>
     \/ Error /\ Fail(g)
  /\ UNCHANGED <<loaded, scripts, restarts, broken, dead>>

\* Faulty variant, for a mutation: only the missing script is loaded again.
MakeOne(g) ==
  /\ pc[g] = "make"
  /\ scripts' = [scripts EXCEPT ![ProcessOf[g]] = {}]
  /\ broken' = broken \ {ProcessOf[g]}
  /\ todo' = [todo EXCEPT ![g] = {key[g]}]
  /\ fresh' = fresh \cup {g}
  /\ Goto(g, "load")
  /\ UNCHANGED <<loaded, key, known, blind, loading, restarts, errors, dead>>

\* p.scripts = make(map[string]string)
Make(g) ==
  /\ pc[g] = "make"
  /\ scripts' = [scripts EXCEPT ![ProcessOf[g]] = {}]
  /\ broken' = broken \ {ProcessOf[g]}
  /\ todo' = [todo EXCEPT ![g] = Keys]
  /\ fresh' = fresh \cup {g}
  /\ Goto(g, "load")
  /\ UNCHANGED <<loaded, key, known, blind, loading, restarts, errors, dead>>

\* ScriptLoad of the next key, in the order of the Go map: any.
Load(g) ==
  /\ pc[g] = "load"
  /\ \/ \E k \in todo[g] :
          /\ loaded' = loaded \cup {k}
          /\ loading' = [loading EXCEPT ![g] = k]
          /\ Goto(g, "store")
          /\ UNCHANGED <<key, known, blind, todo, fresh, errors, broken>>
     \/ /\ Error /\ Fail(g)
        /\ broken' = broken \cup {ProcessOf[g]}
        /\ UNCHANGED loaded
  /\ UNCHANGED <<scripts, restarts, dead>>

\* Faulty variant, for a mutation: the call is repeated after the first load.
StoreOnce(g) ==
  /\ pc[g] = "store"
  /\ scripts' = [scripts EXCEPT ![ProcessOf[g]] = @ \cup {loading[g]}]
  /\ todo' = [todo EXCEPT ![g] = @ \ {loading[g]}]
  /\ Goto(g, "again")
  /\ UNCHANGED <<loaded, key, known, blind, loading, fresh, restarts, errors, broken, dead>>

\* p.scripts[key] = sha, in whatever map p.scripts is by now.
Store(g) ==
  /\ pc[g] = "store"
  /\ scripts' = [scripts EXCEPT ![ProcessOf[g]] = @ \cup {loading[g]}]
  /\ todo' = [todo EXCEPT ![g] = @ \ {loading[g]}]
  /\ Goto(g, IF todo[g] \subseteq {loading[g]} THEN "again" ELSE "load")
  /\ UNCHANGED <<loaded, key, known, blind, loading, fresh, restarts, errors, broken, dead>>

\* Faulty variant, for a mutation: every goroutine keeps trying.
TryAgain(g) ==
  /\ pc[g] = "again"
  /\ Goto(g, "eval")
  /\ UNCHANGED <<loaded, scripts, key, known, blind, todo, loading, fresh, restarts, errors, broken, dead>>

\* EVALSHA again, with the id that was read before.
EvalShaAgain(g) ==
  /\ pc[g] = "again"
  /\ \/ Found(g) /\ Answer(g) /\ UNCHANGED errors
     \/ ~Found(g) /\ Fail(g) /\ UNCHANGED errors
     \/ Error /\ Fail(g)
  /\ UNCHANGED <<loaded, scripts, restarts, broken, dead>>

-----------------------------------------------------------------------------
(* The environment.                                                        *)

\* Redis is restarted, or a replica without the scripts takes over.
RedisRestarts ==
  /\ restarts < MaxRestarts
  /\ restarts' = restarts + 1
  /\ loaded' = {} /\ fresh' = {}
  /\ UNCHANGED <<scripts, pc, key, known, blind, todo, loading, errors, broken, dead>>

\* A map that is written by one goroutine and used by another is a data race,
\* which the Go runtime may end with a fatal error.
ConcurrentMapAccess(p) ==
  /\ p \notin dead
  /\ \E g, h \in Of(p) : g # h /\ pc[g] = "store" /\ pc[h] \in {"read", "store"}
  /\ dead' = dead \cup {p}
  /\ pc' = [g \in Goroutines |-> IF ProcessOf[g] = p THEN "dead" ELSE pc[g]]
  /\ UNCHANGED <<loaded, scripts, key, known, blind, todo, loading, fresh, restarts, errors, broken>>

-----------------------------------------------------------------------------
Step(g) ==
  \/ Begin(g) \/ ReadId(g) \/ EvalSha(g) \/ EvalShaAgain(g)
  \/ Ping(g) \/ Make(g) \/ Load(g) \/ Store(g)

Next ==
  \/ \E g \in Goroutines : Step(g)
  \/ RedisRestarts
  \/ \E p \in Processes : ConcurrentMapAccess(p)

Spec == Init /\ [][Next]_vars

\* Goroutines are scheduled, and there are always tasks.
FairSpec == Spec /\ \A g \in Goroutines : WF_vars(Step(g))

-----------------------------------------------------------------------------
Alone == {g \in Goroutines : Of(ProcessOf[g]) = {g}}

\* Every variable keeps its shape.
TypeOK ==
  /\ loaded \subseteq Keys
  /\ scripts \in [Processes -> SUBSET Keys]
  /\ pc \in [Goroutines -> {"idle", "read", "eval", "ping", "make", "load", "store",
                            "again", "lost", "dead"}]
  /\ key \in [Goroutines -> Keys \cup {NoKey}]
  /\ known \subseteq Goroutines /\ blind \subseteq Goroutines
  /\ todo \in [Goroutines -> SUBSET Keys]
  /\ loading \in [Goroutines -> Keys \cup {NoKey}]
  /\ fresh \subseteq Goroutines
  /\ restarts \in Nat /\ errors \in Nat
  /\ broken \subseteq Processes /\ dead \subseteq Processes

\* However many goroutines of a process run Initialize at once, emptying and
\* filling the one map, it is complete when they are through, unless a command
\* of theirs failed (broker_redis.go:154).
CompleteAtRest ==
  \A p \in Processes \ dead : Settled(p) => scripts[p] = Keys

\* broker_redis.go:318, "This is helpful when Redis is restarted": a repeated
\* call finds its script, unless Redis has been restarted once more since, or
\* the call read the map while another goroutine was filling it, or after one
\* had failed to, and so got "" for an id.
CureWorks ==
  \A g \in fresh : pc[g] = "again" => Found(g) \/ g \in blind \ known

\* The only goroutine of a process gets over every restart and every failure:
\* at last all its calls find their script at once.
AloneRecovers ==
  \A g \in Alone : <>[](pc[g] \in {"idle", "read", "eval"})

(* README.md shows the settings under which these claims fail.             *)

\* broker_redis.go:318, "This is helpful when Redis is restarted": a restart
\* costs no task.
RestartCostsNothing == \A g \in Consumers : pc[g] # "lost"

\* The same with several goroutines in a process: at last no call fails.
AllRecover == \A g \in Consumers : <>[](pc[g] # "lost")
=============================================================================

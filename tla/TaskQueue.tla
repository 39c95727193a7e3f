----------------------------- MODULE TaskQueue -----------------------------
(***************************************************************************)
(* What a bokchoy queue promises to the code that publishes and consumes,  *)
(* without Redis: a task is in one place at a time, it comes to at most    *)
(* one consumer for each time it is published, and it leaves the queue     *)
(* only into the hands of a consumer.  Lossy says whether the service may  *)
(* drop a task: it may when a worker or Redis fails, or when somebody      *)
(* empties the queue, and it may not otherwise.                            *)
(***************************************************************************)
CONSTANTS Tasks,        \* the tasks ever created
          Consumers,    \* the goroutines that handle tasks
          Lossy         \* may a task be dropped?

VARIABLE place          \* where each task is

Created == "created"    \* not visible to any consumer yet
Queued  == "queued"     \* waiting for a consumer, now or at its ETA
Done    == "done"       \* handled for the last time
Lost    == "lost"       \* dropped

QInit == place = [t \in Tasks |-> Created]

Move(t, from, to) == place[t] = from /\ place' = [place EXCEPT ![t] = to]

QPublish(t) == Move(t, Created, Queued)

Take(t, c) == Move(t, Queued, c)

Return(t, c) == Move(t, c, Queued)

Complete(t, c) == Move(t, c, Done)

\* One failure may take several tasks with it, never a handled one.
Drop == /\ Lossy
        /\ \E S \in SUBSET {t \in Tasks : place[t] # Done} :
             place' = [t \in Tasks |-> IF t \in S THEN Lost ELSE place[t]]

QNext == \/ \E t \in Tasks : QPublish(t)
         \/ \E t \in Tasks, c \in Consumers :
               Take(t, c) \/ Return(t, c) \/ Complete(t, c)
         \/ Drop

QSpec == QInit /\ [][QNext]_place
=============================================================================

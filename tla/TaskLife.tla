------------------------------ MODULE TaskLife ------------------------------
(***************************************************************************)
(* What bokchoy promises about the life of a task, seen from its status in *)
(* the broker: it is published once, it is processed at most once more     *)
(* than it has retries and by one consumer at a time, and it comes to one  *)
(* of three ends.  A task that has succeeded or was canceled stays so, one *)
(* that failed may be processed again, and only a task without retries     *)
(* left expires.  Nothing but the runs is promised of a task that somebody *)
(* asked to cancel: Queue.Cancel writes over whatever the broker holds.    *)
(***************************************************************************)
EXTENDS Naturals

CONSTANTS Tasks, MaxRetries

VARIABLES
  status,    \* of each task in the broker; "expired" when its hash is gone
  runs,      \* how often each task was processed
  running,   \* the tasks that are with a consumer now
  asked      \* the tasks Queue.Cancel was called for

life == <<status, runs, running, asked>>

LStatuses == {"unpublished", "waiting", "processing", "succeeded", "failed",
              "canceled", "expired"}
Ends == {"succeeded", "failed", "canceled"}

LInit ==
  /\ status = [t \in Tasks |-> "unpublished"]
  /\ runs = [t \in Tasks |-> 0]
  /\ running = {} /\ asked = {}

Becomes(t, s) == status' = [status EXCEPT ![t] = s]

LPublish(t) ==
  /\ status[t] = "unpublished" /\ Becomes(t, "waiting")
  /\ UNCHANGED <<runs, running, asked>>

LBegin(t) ==
  /\ t \notin running
  /\ status[t] \in {"waiting", "failed"} \/ t \in asked
  /\ runs[t] <= MaxRetries
  /\ Becomes(t, "processing")
  /\ runs' = [runs EXCEPT ![t] = @ + 1]
  /\ running' = running \cup {t}
  /\ UNCHANGED asked

LEnd(t) ==
  /\ t \in running
  /\ \E s \in Ends : Becomes(t, s)
  /\ running' = running \ {t}
  /\ UNCHANGED <<runs, asked>>

\* Workers die, or cannot tell the broker the result.
LAbandon ==
  /\ running' \subseteq running
  /\ UNCHANGED <<status, runs, asked>>

LExpire(t) ==
  /\ status[t] = "succeeded" \/ runs[t] = MaxRetries + 1 \/ t \in asked
  /\ Becomes(t, "expired")
  /\ UNCHANGED <<runs, running, asked>>

LAsk(t) ==
  /\ asked' = asked \cup {t}
  /\ UNCHANGED <<status, runs, running>>

\* Queue.Cancel writes its own status, and others write theirs over it.
LOverwrite ==
  /\ status' \in [Tasks -> LStatuses]
  /\ \A t \in Tasks \ asked : status'[t] = status[t]
  /\ UNCHANGED <<runs, running, asked>>

LNext ==
  \/ \E t \in Tasks : LPublish(t) \/ LBegin(t) \/ LEnd(t) \/ LExpire(t) \/ LAsk(t)
  \/ LAbandon \/ LOverwrite

LSpec == LInit /\ [][LNext]_life
=============================================================================

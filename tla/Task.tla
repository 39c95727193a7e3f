-------------------------------- MODULE Task --------------------------------
(***************************************************************************)
(* The task object of task.go, as far as its control goes: the status it   *)
(* has now, the status it had when it was read from the broker             *)
(* (OldStatus), the retries it has left, the intervals between them and    *)
(* its ETA.  A module that needs fewer fields uses records without the     *)
(* others.                                                                 *)
(***************************************************************************)
EXTENDS Integers, Sequences, SequencesExt

Statuses == {"waiting", "processing", "succeeded", "failed", "canceled"}

\* The zero time.Time, which no clock shows: no ETA.
NoETA == -1

\* Faulty variant, for a mutation: the retries are not looked at.
FinishedBySuccess(t) == t.old = "succeeded" \/ t.status = "succeeded"

\* Task.Finished
Finished(t) ==
  \/ t.old = "succeeded"
  \/ (t.old = "failed" \/ t.status = "failed") /\ t.retries = 0
  \/ t.status = "succeeded"

\* Serialize, then what Redis keeps of it, and TaskFromPayload: the status
\* read becomes the old one.
Stored(t) == [status |-> t.status, retries |-> t.retries]
Loaded(hash) == [status |-> hash.status, old |-> hash.status, retries |-> hash.retries]

\* Task.RetryETA.  An index out of range panics, which Panic stands for.
Panic == -2

\* Faulty variant, for a mutation: the intervals are not reversed.
UnreversedETA(t, now) ==
  CASE t.retries >= Len(t.intervals) -> t.eta
    [] t.retries < 0 -> IF t.intervals = <<>> THEN NoETA ELSE Panic
    [] OTHER -> now + t.intervals[t.retries + 1]

RetryETA(t, now) ==
  LET intervals == Reverse(t.intervals)
  IN CASE t.retries >= Len(intervals) -> t.eta
       [] t.retries < 0 -> IF intervals = <<>> THEN NoETA ELSE Panic
       [] OTHER -> now + intervals[t.retries + 1]
=============================================================================

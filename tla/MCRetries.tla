----------------------------- MODULE MCRetries ------------------------------
(* Values for the constants of Retries that a .cfg cannot write.           *)
EXTENDS Retries

CONSTANTS Durations, MaxIntervals

Intervals == SeqOf(Durations, MaxIntervals)

\* An engine with the defaults, and one with options of its own.
TwoEngines == {<<>>, <<WithMaxRetries(1), WithTimeout(4)>>}

\* No option, or up to two, the second perhaps in place of the first.
OptionLists ==
  {<<>>, <<WithMaxRetries(2)>>, <<WithTTL(3), WithTTL(4)>>, <<WithTimeout(1), WithMaxRetries(0)>>}
  \cup {<<WithMaxRetries(n), WithRetryIntervals(ds)>> : n \in 0..3, ds \in Intervals}
  \cup {<<WithRetryIntervals(ds), WithMaxRetries(n), WithMaxRetries(1)>> :
          n \in 2..3, ds \in Intervals}

\* Requests with a countdown, with retries, with a timeout and with nothing.
SomeRequests ==
  {<<>>, [countdown |-> 3], [countdown |-> -1], [timeout |-> 5, ttl |-> 1]}
  \cup [maxRetries : 0..1, retryIntervals : {<<>>, <<2>>, <<5, 3>>}]
=============================================================================

--------------------------- MODULE MCRedisBroker ---------------------------
(* Values for the constants of RedisBroker that a .cfg cannot write.       *)
EXTENDS RedisBroker

\* All consumers in one worker process, or each in its own.
OneProcess   == [c \in Consumers |-> CHOOSE p \in Processes : TRUE]
EachOwnProcess == CHOOSE f \in [Consumers -> Processes] : IsInjective(f)

\* No countdown, a priority task, a task due this second, one due later.
AnyCountdown == {NoCountdown, -1, 0, TicksPerSecond}

\* Countdowns that outlast the second in which a pipeline may still be built.
WholeCountdowns == {NoCountdown, TicksPerSecond + Latency}

NoOrPriority == {NoCountdown, -1}
OnlyDirect == {NoCountdown}
OnlyDelayed  == {TicksPerSecond}
SubSecond    == {0}

Symmetric == Permutations(Tasks) \cup Permutations(Consumers) \cup Permutations(Producers)
=============================================================================

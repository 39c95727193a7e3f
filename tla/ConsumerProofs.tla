--------------------------- MODULE ConsumerProofs ---------------------------
(***************************************************************************)
(* Theorems about Consumer, for any number of retries, consumers and       *)
(* attempts, any handlers, and whatever fails where nothing else is said.  *)
(*                                                                         *)
(* The steps of both goroutines are first described field by field (the    *)
(* lemmas named ...Effect).  Every invariant is then a statement about one *)
(* attempt, kept by the steps of that attempt (the lemmas named ...Own)    *)
(* and untouched by those of another (OthersSame).  The argument:          *)
(*   PhaseInv   exec begins once, after main has started it;               *)
(*   OneInv     while no deadline passes, one goroutine of an attempt      *)
(*              runs at a time;                                            *)
(*   AloneInv   the task is in the queue or has one carrier, the attempt   *)
(*              that may still run it or publish it again;                 *)
(*   CopiesInv  with deadlines there are more carriers, but no more than   *)
(*              one for each attempt that has passed its own, and one;     *)
(*   BudgetInv  the runs so far and the retries the carrier, or the stored *)
(*              task, has left are together no more than the task had;     *)
(*   EndInv     nor less, when nothing disturbs the task, and what is      *)
(*              stored when nobody carries it any more is final;           *)
(*   RealInv    where a nil error comes from;                              *)
(*   WinInv     after a success event nobody carries the task, and what is *)
(*              stored is the success, a cancellation of it or what a save *)
(*              that failed has left.                                      *)
(***************************************************************************)
EXTENDS Consumer, FiniteSetTheorems, TLAPS

USE ConsumerAssumption

Places ==
  {"off", "begin", "processing", "start", "select", "timedout", "check",
   "mark", "test", "dec", "publish", "save", "events", "handler",
   "hanging", "return", "context", "send", "unwind", "dying", "done", "dead"}
Errors == {"nil", "error", "canceled"}
Hashes == [status : Statuses, retries : Int]
TaskRecords == [status : Statuses, old : Statuses, retries : Int]
Goroutines == [at : Places, err : Errors, retries : Int]
EventNames == {"start", "success", "failure", "complete"}

-----------------------------------------------------------------------------
(* What the operators of the model return.                                 *)

\* One goroutine of one attempt moves; the others stay where they are.
Moves(a, h, l, e, r) ==
  /\ thread' \in [Attempts -> [Threads -> Goroutines]]
  /\ thread'[a][h] = [at |-> l, err |-> e, retries |-> r]
  /\ \A b \in Attempts, k \in Threads :
       b # a \/ k # h => thread'[b][k] = thread[b][k]

LEMMA MovesTo ==
  ASSUME TypeOK, NEW a \in Attempts, NEW h \in Threads,
         NEW l \in Places, NEW e \in Errors, NEW r \in Int,
         thread' = [thread EXCEPT ![a][h] = [at |-> l, err |-> e, retries |-> r]]
  PROVE  Moves(a, h, l, e, r)
<1> DEFINE g == [at |-> l, err |-> e, retries |-> r]
<1>1. thread \in [Attempts -> [Threads -> Goroutines]]
  BY DEF TypeOK, Goroutines, Places, Errors
<1>2. g \in Goroutines
  BY DEF Goroutines
<1> HIDE DEF g
<1>3. [thread[a] EXCEPT ![h] = g] \in [Threads -> Goroutines]
  BY <1>1, <1>2
<1>4. thread' = [thread EXCEPT ![a] = [thread[a] EXCEPT ![h] = g]]
  BY <1>1 DEF g
<1>5. thread' \in [Attempts -> [Threads -> Goroutines]]
  BY <1>1, <1>3, <1>4
<1>6. thread'[a] = [thread[a] EXCEPT ![h] = g]
  BY <1>1, <1>4
<1>7. thread'[a][h] = g
  BY <1>1, <1>6
<1>8. ASSUME NEW b \in Attempts, NEW k \in Threads, b # a \/ k # h
      PROVE  thread'[b][k] = thread[b][k]
  <2>1. CASE b # a
    BY <1>1, <1>4, <2>1
  <2>2. CASE b = a /\ k # h
    BY <1>1, <1>6, <2>2
  <2>3. QED
    BY <1>8, <2>1, <2>2
<1>9. QED
  BY <1>5, <1>7, <1>8 DEF Moves, g

\* The record of a goroutine, field by field.
LEMMA ThreadType ==
  ASSUME TypeOK, NEW a \in Attempts, NEW h \in Threads
  PROVE  /\ thread \in [Attempts -> [Threads -> Goroutines]]
         /\ thread[a][h] = [at |-> At(a, h), err |-> thread[a][h].err,
                            retries |-> thread[a][h].retries]
         /\ thread[a][h] \in Goroutines
         /\ At(a, h) \in Places
         /\ thread[a][h].err \in Errors
         /\ thread[a][h].retries \in Int
<1>1. thread \in [Attempts -> [Threads -> Goroutines]]
  BY DEF TypeOK, Goroutines, Places, Errors
<1>2. thread[a][h] \in Goroutines
  BY <1>1
<1>3. QED
  BY <1>1, <1>2 DEF Goroutines, At

LEMMA GotoMoves ==
  ASSUME TypeOK, NEW a \in Attempts, NEW h \in Threads, NEW l \in Places, Goto(a, h, l)
  PROVE  Moves(a, h, l, thread[a][h].err, thread[a][h].retries)
<1>1. thread[a][h].err \in Errors /\ thread[a][h].retries \in Int
  BY ThreadType
<1>2. thread[a][h] \in Goroutines
  BY ThreadType
<1>3. [thread[a][h] EXCEPT !.at = l] =
        [at |-> l, err |-> thread[a][h].err, retries |-> thread[a][h].retries]
  BY <1>2 DEF Goroutines
<1>4. thread' = [thread EXCEPT ![a][h] = [thread[a][h] EXCEPT !.at = l]]
  BY ThreadType DEF Goto
<1>5. QED
  BY <1>1, <1>3, <1>4, MovesTo

\* Two fields of a goroutine are set at once.
LEMMA SetsErr ==
  ASSUME TypeOK, NEW a \in Attempts, NEW h \in Threads, NEW l \in Places, NEW e \in Errors
  PROVE  thread' = [thread EXCEPT ![a][h].at = l, ![a][h].err = e]
           => Moves(a, h, l, e, thread[a][h].retries)
<1>1. thread \in [Attempts -> [Threads -> Goroutines]] /\ thread[a][h].retries \in Int
  BY ThreadType
<1>2. thread[a][h] =
        [at |-> thread[a][h].at, err |-> thread[a][h].err, retries |-> thread[a][h].retries]
  BY <1>1 DEF Goroutines
<1>3. [thread[a][h] EXCEPT !.at = l] =
        [at |-> l, err |-> thread[a][h].err, retries |-> thread[a][h].retries]
  BY <1>2
<1>4. [[at |-> l, err |-> thread[a][h].err, retries |-> thread[a][h].retries] EXCEPT !.err = e] =
        [at |-> l, err |-> e, retries |-> thread[a][h].retries]
  OBVIOUS
<1>5. [[thread[a][h] EXCEPT !.at = l] EXCEPT !.err = e] =
        [at |-> l, err |-> e, retries |-> thread[a][h].retries]
  BY <1>3, <1>4, Zenon
<1>6. [thread EXCEPT ![a][h].at = l, ![a][h].err = e] =
        [thread EXCEPT ![a][h] = [[thread[a][h] EXCEPT !.at = l] EXCEPT !.err = e]]
  OBVIOUS
<1>7. QED
  BY <1>1, <1>5, <1>6, MovesTo

LEMMA SetsRetries ==
  ASSUME TypeOK, NEW a \in Attempts, NEW h \in Threads, NEW l \in Places, NEW r \in Int
  PROVE  thread' = [thread EXCEPT ![a][h].retries = r, ![a][h].at = l]
           => Moves(a, h, l, thread[a][h].err, r)
<1>1. thread \in [Attempts -> [Threads -> Goroutines]] /\ thread[a][h].err \in Errors
  BY ThreadType
<1>2. thread[a][h] =
        [at |-> thread[a][h].at, err |-> thread[a][h].err, retries |-> thread[a][h].retries]
  BY <1>1 DEF Goroutines
<1>3. [thread[a][h] EXCEPT !.retries = r] =
        [at |-> thread[a][h].at, err |-> thread[a][h].err, retries |-> r]
  BY <1>2
<1>4. [[at |-> thread[a][h].at, err |-> thread[a][h].err, retries |-> r] EXCEPT !.at = l] =
        [at |-> l, err |-> thread[a][h].err, retries |-> r]
  OBVIOUS
<1>5. [[thread[a][h] EXCEPT !.retries = r] EXCEPT !.at = l] =
        [at |-> l, err |-> thread[a][h].err, retries |-> r]
  BY <1>3, <1>4, Zenon
<1>6. [thread EXCEPT ![a][h].retries = r, ![a][h].at = l] =
        [thread EXCEPT ![a][h] = [[thread[a][h] EXCEPT !.retries = r] EXCEPT !.at = l]]
  OBVIOUS
<1>7. QED
  BY <1>1, <1>5, <1>6, MovesTo

LEMMA ReturnMoves ==
  ASSUME TypeOK, NEW a \in Attempts, NEW e \in Errors, Return(a, e)
  PROVE  Moves(a, "exec", "return", e, thread[a]["exec"].retries)
<1>1. "exec" \in Threads /\ "return" \in Places
  BY DEF Threads, Places
<1>2. thread[a]["exec"].retries \in Int
  BY <1>1, ThreadType
<1>3. QED
  BY <1>1, <1>2, SetsErr DEF Return

\* Both goroutines of an attempt move.
BothMove(a, m, e, x) ==
  /\ thread' \in [Attempts -> [Threads -> Goroutines]]
  /\ thread'[a]["main"] = [at |-> m, err |-> e, retries |-> thread[a]["main"].retries]
  /\ thread'[a]["exec"] = [at |-> x, err |-> thread[a]["exec"].err,
                           retries |-> thread[a]["exec"].retries]
  /\ \A b \in Attempts : b # a => thread'[b] = thread[b]

LEMMA MoveBoth ==
  ASSUME TypeOK, NEW a \in Attempts, NEW m \in Places, NEW e \in Errors, NEW x \in Places
  PROVE  /\ thread' = [thread EXCEPT ![a]["main"].at = m, ![a]["main"].err = e,
                                     ![a]["exec"].at = x]
              => BothMove(a, m, e, x)
         /\ thread' = [thread EXCEPT ![a]["main"].at = m, ![a]["exec"].at = x]
              => BothMove(a, m, thread[a]["main"].err, x)
<1> DEFINE g == thread[a]["main"]
           k == thread[a]["exec"]
           new == [at |-> m, err |-> e, retries |-> g.retries]
           same == [at |-> m, err |-> g.err, retries |-> g.retries]
           other == [at |-> x, err |-> k.err, retries |-> k.retries]
<1>1. thread \in [Attempts -> [Threads -> Goroutines]] /\ "main" \in Threads /\ "exec" \in Threads
  BY ThreadType DEF Threads
<1>2. g \in Goroutines /\ k \in Goroutines
  BY <1>1
<1>3. [g EXCEPT !.at = m] = same /\ [k EXCEPT !.at = x] = other
  BY <1>2 DEF Goroutines
<1>4. [[g EXCEPT !.at = m] EXCEPT !.err = e] = new
  <2>1. [same EXCEPT !.err = e] = new
    OBVIOUS
  <2>2. QED
    BY <1>3, <2>1, Zenon
<1>5. new \in Goroutines /\ same \in Goroutines /\ other \in Goroutines
  BY <1>2 DEF Goroutines
<1> HIDE DEF new, same, other
<1>6. ASSUME NEW f \in Goroutines
      PROVE  /\ [thread EXCEPT ![a] = [[@ EXCEPT !["main"] = f] EXCEPT !["exec"] = other]]
                  \in [Attempts -> [Threads -> Goroutines]]
             /\ [thread EXCEPT ![a] = [[@ EXCEPT !["main"] = f] EXCEPT !["exec"] = other]][a]["main"] = f
             /\ [thread EXCEPT ![a] = [[@ EXCEPT !["main"] = f] EXCEPT !["exec"] = other]][a]["exec"] = other
             /\ \A b \in Attempts : b # a =>
                  [thread EXCEPT ![a] = [[@ EXCEPT !["main"] = f] EXCEPT !["exec"] = other]][b] = thread[b]
  <2>1. [[thread[a] EXCEPT !["main"] = f] EXCEPT !["exec"] = other] \in [Threads -> Goroutines]
    BY <1>1, <1>5
  <2>2. QED
    BY <1>1, <1>5, <2>1
<1>7. [thread EXCEPT ![a]["main"].at = m, ![a]["main"].err = e, ![a]["exec"].at = x] =
        [thread EXCEPT ![a] = [[@ EXCEPT !["main"] = new] EXCEPT !["exec"] = other]]
  BY <1>1, <1>3, <1>4
<1>8. [thread EXCEPT ![a]["main"].at = m, ![a]["exec"].at = x] =
        [thread EXCEPT ![a] = [[@ EXCEPT !["main"] = same] EXCEPT !["exec"] = other]]
  BY <1>1, <1>3
<1>9. ASSUME thread' = [thread EXCEPT ![a]["main"].at = m, ![a]["main"].err = e,
                                      ![a]["exec"].at = x]
      PROVE  BothMove(a, m, e, x)
  <2>1. thread' = [thread EXCEPT ![a] = [[@ EXCEPT !["main"] = new] EXCEPT !["exec"] = other]]
    BY <1>7, <1>9
  <2>2. QED
    BY <1>5, <1>6, <2>1 DEF BothMove, new, other
<1>10. ASSUME thread' = [thread EXCEPT ![a]["main"].at = m, ![a]["exec"].at = x]
       PROVE  BothMove(a, m, g.err, x)
  <2>1. thread' = [thread EXCEPT ![a] = [[@ EXCEPT !["main"] = same] EXCEPT !["exec"] = other]]
    BY <1>8, <1>10
  <2>2. QED
    BY <1>5, <1>6, <2>1 DEF BothMove, same, other
<1>11. QED
  BY <1>9, <1>10

\* handleError returns: where its goroutine goes on.
LEMMA LeaveMoves ==
  ASSUME TypeOK, NEW a \in Attempts, NEW h \in Threads, NEW result \in Errors,
         Leave(a, h, result)
  PROVE  \/ h = "exec" /\ Moves(a, h, "return", result, thread[a][h].retries)
         \/ /\ h = "main" /\ result = "nil"
            /\ Moves(a, h, "events", thread[a][h].err, thread[a][h].retries)
         \/ /\ h = "main" /\ result # "nil"
            /\ Moves(a, h, "done", thread[a][h].err, thread[a][h].retries)
<1>1. {"events", "done"} \subseteq Places
  BY DEF Places
<1>2. CASE h = "exec"
  BY <1>2, ReturnMoves DEF Leave
<1>3. CASE h = "main" /\ result = "nil"
  <2>1. Goto(a, h, "events")
    BY <1>3 DEF Leave
  <2>2. QED
    BY <1>1, <1>3, <2>1, GotoMoves
<1>4. CASE h = "main" /\ result # "nil"
  <2>1. Goto(a, h, "done")
    BY <1>4 DEF Leave
  <2>2. QED
    BY <1>1, <1>4, <2>1, GotoMoves
<1>5. QED
  BY <1>2, <1>3, <1>4 DEF Threads

-----------------------------------------------------------------------------
(* Types.                                                                  *)

\* TypeOK with names for its sets.
Typed ==
  /\ store \in [hash : Hashes, ttl : BOOLEAN]
  /\ queued \in Nat /\ attempts \in 0..MaxAttempts
  /\ task \in [Attempts -> TaskRecords]
  /\ thread \in [Attempts -> [Threads -> Goroutines]]
  /\ err \in [Attempts -> Errors]
  /\ outcome \in [Attempts -> Outcomes \cup {"none"}]
  /\ events \in [Attempts -> Seq(EventNames)]
  /\ cancel \in [read : [status : Statuses \cup {"none"}, retries : Int], calls : 0..MaxCancels]

LEMMA TypedIsTypeOK == (TypeOK <=> Typed) /\ (TypeOK' <=> Typed')
BY DEF TypeOK, Typed, Hashes, TaskRecords, Goroutines, Places, Errors, EventNames

LEMMA TypeInit == Init => TypeOK
<1> SUFFICES ASSUME Init PROVE Typed
  BY TypedIsTypeOK
<1>1. Loaded([status |-> "waiting", retries |-> MaxRetries]) \in TaskRecords
  BY DEF Loaded, TaskRecords, Statuses
<1>2. Off \in Goroutines
  BY DEF Off, Goroutines, Places, Errors
<1>3. store \in [hash : Hashes, ttl : BOOLEAN]
  BY DEF Init, Hashes, Statuses
<1>4. cancel \in [read : [status : Statuses \cup {"none"}, retries : Int], calls : 0..MaxCancels]
  BY DEF Init, NoHash
<1>5. "nil" \in Errors /\ <<>> \in Seq(EventNames)
  BY DEF Errors
<1>6. QED
  BY <1>1, <1>2, <1>3, <1>4, <1>5 DEF Init, Typed

\* What is stored and read again.
LEMMA StoredType ==
  ASSUME TypeOK, NEW t \in TaskRecords
  PROVE  /\ Stored(t) \in Hashes
         /\ [store EXCEPT !.hash = Stored(t)] \in [hash : Hashes, ttl : BOOLEAN]
         /\ [hash |-> Stored(t), ttl |-> store.ttl \/ Finished(t)]
              \in [hash : Hashes, ttl : BOOLEAN]
<1>1. Stored(t) \in Hashes
  BY DEF Stored, Hashes, TaskRecords
<1>2. store \in [hash : Hashes, ttl : BOOLEAN]
  BY TypedIsTypeOK DEF Typed
<1>3. (store.ttl \/ Finished(t)) \in BOOLEAN
  OBVIOUS
<1>4. QED
  BY <1>1, <1>2, <1>3

LEMMA SaveType ==
  ASSUME TypeOK, NEW t \in TaskRecords, Save(t)
  PROVE  store' \in [hash : Hashes, ttl : BOOLEAN]
BY StoredType DEF Save

LEMMA FiredType ==
  ASSUME NEW t \in TaskRecords
  PROVE  Fired(t) \in Seq(EventNames)
<1> DEFINE s1 == IF t.status = "processing" THEN <<"start">> ELSE <<>>
           s2 == IF t.status = "succeeded" THEN <<"success">> ELSE <<>>
           s3 == IF t.status \in {"failed", "canceled"} THEN <<"failure">> ELSE <<>>
           s4 == IF Finished(t) THEN <<"complete">> ELSE <<>>
<1>1. \A s, u \in Seq(EventNames) : s \o u \in Seq(EventNames)
  OBVIOUS
<1>2. /\ <<"start">> \in Seq(EventNames) /\ <<"success">> \in Seq(EventNames)
      /\ <<"failure">> \in Seq(EventNames) /\ <<"complete">> \in Seq(EventNames)
      /\ <<>> \in Seq(EventNames)
  BY DEF EventNames
<1>3. s1 \in Seq(EventNames) /\ s2 \in Seq(EventNames)
  BY <1>2
<1>4. s3 \in Seq(EventNames) /\ s4 \in Seq(EventNames)
  BY <1>2
<1>5. Fired(t) = ((s1 \o s2) \o s3) \o s4
  BY DEF Fired
<1> HIDE DEF s1, s2, s3, s4
<1>6. (s1 \o s2) \in Seq(EventNames)
  BY <1>1, <1>3
<1>7. ((s1 \o s2) \o s3) \in Seq(EventNames)
  BY <1>1, <1>4, <1>6
<1>8. QED
  BY <1>1, <1>4, <1>5, <1>7

\* The success event is for a task that has succeeded.
LEMMA FiredNoSuccess ==
  ASSUME NEW t \in TaskRecords, t.status # "succeeded"
  PROVE  \A i \in 1..Len(Fired(t)) : Fired(t)[i] # "success"
<1> DEFINE others == EventNames \ {"success"}
           s1 == IF t.status = "processing" THEN <<"start">> ELSE <<>>
           s3 == IF t.status \in {"failed", "canceled"} THEN <<"failure">> ELSE <<>>
           s4 == IF Finished(t) THEN <<"complete">> ELSE <<>>
<1>1. \A s, u \in Seq(others) : s \o u \in Seq(others)
  OBVIOUS
<1>2. /\ <<"start">> \in Seq(others) /\ <<"failure">> \in Seq(others)
      /\ <<"complete">> \in Seq(others) /\ <<>> \in Seq(others)
  BY DEF EventNames
<1>3. s1 \in Seq(others) /\ s3 \in Seq(others) /\ s4 \in Seq(others)
  BY <1>2
<1>4. Fired(t) = ((s1 \o <<>>) \o s3) \o s4
  BY DEF Fired
<1> HIDE DEF s1, s3, s4, others
<1>5. (s1 \o <<>>) \in Seq(others)
  BY <1>1, <1>2, <1>3
<1>6. ((s1 \o <<>>) \o s3) \in Seq(others)
  BY <1>1, <1>3, <1>5
<1>7. Fired(t) \in Seq(others)
  BY <1>1, <1>3, <1>4, <1>6
<1>8. \A i \in 1..Len(Fired(t)) : Fired(t)[i] \in others
  BY <1>7
<1>9. QED
  BY <1>8 DEF others

LEMMA FireType ==
  ASSUME TypeOK, NEW a \in Attempts, NEW n \in 0..Len(Fired(task[a])), Fire(a, n)
  PROVE  events' \in [Attempts -> Seq(EventNames)]
<1>1. events \in [Attempts -> Seq(EventNames)] /\ task \in [Attempts -> TaskRecords]
  BY TypedIsTypeOK DEF Typed
<1>2. Fired(task[a]) \in Seq(EventNames)
  BY <1>1, FiredType
<1>3. SubSeq(Fired(task[a]), 1, n) \in Seq(EventNames)
  BY <1>2
<1>4. events[a] \o SubSeq(Fired(task[a]), 1, n) \in Seq(EventNames)
  BY <1>1, <1>3
<1>5. QED
  BY <1>1, <1>4 DEF Fire

\* The thread a step moves keeps its type.
LEMMA MovesType ==
  ASSUME NEW a, NEW h, NEW l, NEW e, NEW r, Moves(a, h, l, e, r)
  PROVE  thread' \in [Attempts -> [Threads -> Goroutines]]
BY DEF Moves

\* handleError is the same six steps in both goroutines.
LEMMA HandleErrorType ==
  ASSUME TypeOK, NEW a \in Attempts, NEW h \in Threads, HandleError(a, h)
  PROVE  TypeOK'
<1> USE DEF Typed
<1> SUFFICES Typed'
  BY TypedIsTypeOK
<1>1. Typed /\ task[a] \in TaskRecords
  BY TypedIsTypeOK
<1>2. {"mark", "save", "test", "dec", "publish"} \subseteq Places
      /\ {"nil", "error"} \subseteq Errors
  BY DEF Places, Errors
<1>3. ASSUME Check(a, h) PROVE Typed'
  <2>1. thread' \in [Attempts -> [Threads -> Goroutines]]
    BY <1>2, <1>3, GotoMoves, LeaveMoves, MovesType DEF Check
  <2>2. QED
    BY <1>1, <1>3, <2>1 DEF Check
<1>4. ASSUME Mark(a, h) PROVE Typed'
  <2>1. thread' \in [Attempts -> [Threads -> Goroutines]]
    BY <1>2, <1>4, GotoMoves, MovesType DEF Mark
  <2>2. thread[a][h].err \in {"nil", "error", "canceled"}
    BY ThreadType DEF Errors
  <2>3. PICK s \in Statuses : task' = [task EXCEPT ![a].status = s]
    BY <1>4, <2>2 DEF Mark, Statuses
  <2>4. [task[a] EXCEPT !.status = s] \in TaskRecords
    BY <1>1 DEF TaskRecords
  <2>5. task' \in [Attempts -> TaskRecords]
    BY <1>1, <2>3, <2>4
  <2>6. QED
    BY <1>1, <1>4, <2>1, <2>5 DEF Mark
<1>5. ASSUME TestRetries(a, h) PROVE Typed'
  <2>1. task[a].retries \in Int
    BY <1>1 DEF TaskRecords
  <2>2. PICK l \in {"save", "dec"} :
          thread' = [thread EXCEPT ![a][h].retries = task[a].retries, ![a][h].at = l]
    BY <1>5 DEF TestRetries
  <2>3. thread' \in [Attempts -> [Threads -> Goroutines]]
    <3>1. l \in Places /\ task[a].retries \in Int
      BY <1>2, <2>1
    <3>2. Moves(a, h, l, thread[a][h].err, task[a].retries)
      BY <2>2, <3>1, SetsRetries
    <3>3. QED
      BY <3>2, MovesType
  <2>4. QED
    BY <1>1, <1>5, <2>3 DEF TestRetries
<1>6. ASSUME DecRetries(a, h) PROVE Typed'
  <2>1. thread' \in [Attempts -> [Threads -> Goroutines]]
    BY <1>2, <1>6, GotoMoves, MovesType DEF DecRetries
  <2>2. PICK read \in {thread[a][h].retries, task[a].retries} :
          task' = [task EXCEPT ![a].retries = read - 1]
    BY <1>6 DEF DecRetries
  <2>3. task[a].retries \in Int /\ thread[a][h].retries \in Int
    BY <1>1, ThreadType DEF TaskRecords
  <2>5. read - 1 \in Int
    BY <2>3
  <2>6. [task[a] EXCEPT !.retries = read - 1] \in TaskRecords
    BY <1>1, <2>5 DEF TaskRecords
  <2>4. task' \in [Attempts -> TaskRecords]
    BY <1>1, <2>2, <2>6
  <2>7. QED
    BY <1>1, <1>6, <2>1, <2>4 DEF DecRetries
<1>7. ASSUME PublishRetry(a, h) PROVE Typed'
  <2>1. thread' \in [Attempts -> [Threads -> Goroutines]]
    BY <1>2, <1>7, LeaveMoves, MovesType DEF PublishRetry
  <2>2. store' \in [hash : Hashes, ttl : BOOLEAN] /\ queued' \in Nat
    BY <1>1, <1>7, StoredType DEF PublishRetry
  <2>3. QED
    BY <1>1, <1>7, <2>1, <2>2 DEF PublishRetry
<1>8. ASSUME SaveResult(a, h) PROVE Typed'
  <2>1. thread' \in [Attempts -> [Threads -> Goroutines]]
    BY <1>2, <1>8, LeaveMoves, MovesType DEF SaveResult
  <2>2. store' \in [hash : Hashes, ttl : BOOLEAN]
    BY <1>1, <1>8, SaveType DEF SaveResult
  <2>3. QED
    BY <1>1, <1>8, <2>1, <2>2 DEF SaveResult
<1>9. QED
  BY <1>3, <1>4, <1>5, <1>6, <1>7, <1>8 DEF HandleError

LEMMA TypeStep == TypeOK /\ [Next]_vars => TypeOK'
<1> USE DEF Typed
<1> SUFFICES ASSUME Typed, TypeOK, [Next]_vars PROVE Typed'
  BY TypedIsTypeOK
<1>1. /\ {"begin", "processing", "start", "select", "check", "events", "timedout", "done",
          "dying", "handler", "hanging", "return", "context", "send", "unwind"} \subseteq Places
      /\ {"main", "exec"} \subseteq Threads /\ {"nil", "error", "canceled"} \subseteq Errors
  BY DEF Places, Threads, Errors
<1>2. ASSUME NEW hash \in Hashes PROVE Loaded(hash) \in TaskRecords
  BY DEF Loaded, Hashes, TaskRecords
<1>3. ASSUME Receive PROVE Typed'
  <2>1. attempts + 1 \in Attempts
    BY <1>3 DEF Receive, Attempts
  <2>2. thread' \in [Attempts -> [Threads -> Goroutines]]
    BY <1>1, <1>3, <2>1, GotoMoves, MovesType DEF Receive
  <2>3. store.hash \in Hashes
    OBVIOUS
  <2>4. task' \in [Attempts -> TaskRecords]
    BY <1>2, <1>3, <2>1, <2>3 DEF Receive
  <2>5. queued' \in Nat /\ attempts' \in 0..MaxAttempts
    BY <1>3, <2>1 DEF Receive, Attempts
  <2>6. QED
    BY <1>3, <2>2, <2>4, <2>5 DEF Receive
<1>4. ASSUME NEW a \in Attempts, Begin(a) PROVE Typed'
  <2>1. thread' \in [Attempts -> [Threads -> Goroutines]]
    BY <1>1, <1>4, GotoMoves, MovesType DEF Begin
  <2>2. task[a] \in TaskRecords /\ "processing" \in Statuses
    BY DEF Statuses
  <2>3. [task[a] EXCEPT !.status = "processing"] \in TaskRecords
    BY <2>2 DEF TaskRecords
  <2>4. CASE task' = task
    BY <1>4, <2>1, <2>4 DEF Begin
  <2>5. CASE task' = [task EXCEPT ![a].status = "processing"]
    <3>1. task' = [task EXCEPT ![a] = [task[a] EXCEPT !.status = "processing"]]
      BY <2>5
    <3>2. task' \in [Attempts -> TaskRecords]
      BY <2>3, <3>1
    <3>3. QED
      BY <1>4, <2>1, <3>2 DEF Begin
  <2>6. QED
    BY <1>4, <2>4, <2>5 DEF Begin
<1>5. ASSUME NEW a \in Attempts, SaveProcessing(a) PROVE Typed'
  <2>1. thread' \in [Attempts -> [Threads -> Goroutines]]
    BY <1>1, <1>5, GotoMoves, MovesType DEF SaveProcessing
  <2>2. store' \in [hash : Hashes, ttl : BOOLEAN]
    BY <1>5, SaveType DEF SaveProcessing
  <2>3. QED
    BY <1>5, <2>1, <2>2 DEF SaveProcessing
<1>6. ASSUME NEW a \in Attempts, FireAll(a) PROVE events' \in [Attempts -> Seq(EventNames)]
  <2>1. Len(Fired(task[a])) \in 0..Len(Fired(task[a]))
    BY FiredType
  <2>2. QED
    BY <1>6, <2>1, FireType DEF FireAll
<1>7. ASSUME NEW a \in Attempts, Start(a) PROVE Typed'
  <2>1. thread' \in [Attempts -> [Threads -> Goroutines]]
    BY <1>1, <1>7, MoveBoth DEF Start, BothMove
  <2>2. QED
    BY <1>6, <1>7, <2>1 DEF Start
<1>8. ASSUME NEW a \in Attempts, EventError(a) PROVE Typed'
  <2>1. thread' \in [Attempts -> [Threads -> Goroutines]]
    BY <1>1, <1>8, GotoMoves, MovesType DEF EventError
  <2>2. PICK n \in DOMAIN Fired(task[a]) : Fire(a, n)
    BY <1>8 DEF EventError
  <2>3. n \in 0..Len(Fired(task[a]))
    BY FiredType
  <2>4. events' \in [Attempts -> Seq(EventNames)]
    BY <2>2, <2>3, FireType
  <2>5. QED
    BY <1>8, <2>1, <2>4 DEF EventError
<1>9. ASSUME NEW a \in Attempts, FireEvents(a) PROVE Typed'
  <2>1. thread' \in [Attempts -> [Threads -> Goroutines]]
    BY <1>1, <1>9, GotoMoves, MovesType DEF FireEvents
  <2>2. QED
    BY <1>6, <1>9, <2>1 DEF FireEvents
<1>10. ASSUME NEW a \in Attempts, NEW o \in Outcomes, HandlerEnds(a, o) PROVE Typed'
  <2>1. \E e \in Errors : \/ Goto(a, "exec", "unwind") \/ Return(a, "nil")
          \/ thread' = [thread EXCEPT ![a]["exec"].at = "check", ![a]["exec"].err = e]
    BY <1>1, <1>10 DEF HandlerEnds
  <2>2. CASE Goto(a, "exec", "unwind") \/ Return(a, "nil")
    <3>1. thread' \in [Attempts -> [Threads -> Goroutines]]
      BY <1>1, <2>2, GotoMoves, ReturnMoves, MovesType
    <3>2. QED
      BY <1>10, <3>1 DEF HandlerEnds
  <2>3. ASSUME NEW e \in Errors,
               thread' = [thread EXCEPT ![a]["exec"].at = "check", ![a]["exec"].err = e]
        PROVE  Typed'
    <3>1. thread' \in [Attempts -> [Threads -> Goroutines]]
      BY <1>1, <2>3, SetsErr, MovesType
    <3>2. QED
      BY <1>10, <3>1 DEF HandlerEnds
  <2>4. QED
    BY <2>1, <2>2, <2>3
<1>11. ASSUME NEW a \in Attempts, HandlerHangs(a) PROVE Typed'
  <2>1. thread' \in [Attempts -> [Threads -> Goroutines]]
    BY <1>1, <1>11, GotoMoves, MovesType DEF HandlerHangs
  <2>2. QED
    BY <1>11, <2>1 DEF HandlerHangs
<1>12. ASSUME NEW a \in Attempts, ChainReturns(a) \/ ReadContext(a) PROVE Typed'
  <2>1. thread' \in [Attempts -> [Threads -> Goroutines]]
    BY <1>1, <1>12, GotoMoves, MovesType DEF ChainReturns, ReadContext
  <2>2. thread[a]["exec"].err \in Errors
    BY <1>1, ThreadType
  <2>3. PICK e \in Errors : err' = [err EXCEPT ![a] = e]
    <3>1. ContextError(a) \in Errors /\ err[a] \in Errors
      BY <1>1 DEF ContextError
    <3>2. QED
      BY <1>12, <2>2, <3>1 DEF ChainReturns, ReadContext
  <2>5. err' \in [Attempts -> Errors]
    BY <2>3
  <2>4. QED
    BY <1>12, <2>1, <2>5 DEF ChainReturns, ReadContext
<1>13. ASSUME NEW a \in Attempts, Send(a) PROVE Typed'
  <2>1. thread' \in [Attempts -> [Threads -> Goroutines]]
    BY <1>1, <1>13, MoveBoth DEF Send, BothMove
  <2>2. QED
    BY <1>13, <2>1 DEF Send
<1>14. ASSUME ProcessDies PROVE Typed'
  <2>1. [Off EXCEPT !.at = "dead"] \in Goroutines
    BY DEF Off, Goroutines, Places, Errors
  <2>2. thread' \in [Attempts -> [Threads -> Goroutines]]
    BY <1>14, <2>1 DEF ProcessDies
  <2>3. QED
    BY <1>14, <2>2 DEF ProcessDies
<1>15. ASSUME NEW a \in Attempts, TimeOut(a) PROVE Typed'
  <2>1. thread' \in [Attempts -> [Threads -> Goroutines]]
    BY <1>1, <1>15, GotoMoves, MovesType DEF TimeOut
  <2>2. QED
    BY <1>1, <1>15, <2>1 DEF TimeOut
<1>16. ASSUME NEW a \in Attempts, LeaveHandleTask(a) PROVE Typed'
  <2>1. thread' \in [Attempts -> [Threads -> Goroutines]]
    BY <1>1, <1>16, SetsErr, MovesType DEF LeaveHandleTask
  <2>2. QED
    BY <1>16, <2>1 DEF LeaveHandleTask
<1>17. ASSUME CancelGet \/ CancelSave PROVE Typed'
  <2>1. CASE CancelGet
    <3>1. store.hash \in [status : Statuses \cup {"none"}, retries : Int]
      BY DEF Hashes
    <3>2. cancel'.read = store.hash /\ cancel'.calls \in 0..MaxCancels
      BY <2>1 DEF CancelGet
    <3>3. cancel' \in [read : [status : Statuses \cup {"none"}, retries : Int], calls : 0..MaxCancels]
      BY <2>1, <3>1, <3>2 DEF CancelGet
    <3>4. QED
      BY <2>1, <3>3 DEF CancelGet
  <2>2. CASE CancelSave
    <3> DEFINE t == [Loaded(cancel.read) EXCEPT !.status = "canceled"]
    <3>1. cancel.read.retries \in Int
      OBVIOUS
    <3>2. Stored(t) \in Hashes
      BY <3>1 DEF Loaded, Stored, Hashes, Statuses
    <3>3. store' = [hash |-> Stored(t), ttl |-> store.ttl \/ Finished(t)]
      BY <2>2 DEF CancelSave, Save
    <3>4. (store.ttl \/ Finished(t)) \in BOOLEAN
      OBVIOUS
    <3> HIDE DEF t
    <3>5. store' \in [hash : Hashes, ttl : BOOLEAN]
      BY <3>2, <3>3, <3>4
    <3>6. NoHash \in [status : Statuses \cup {"none"}, retries : Int]
      BY DEF NoHash
    <3>7. cancel' \in [read : [status : Statuses \cup {"none"}, retries : Int], calls : 0..MaxCancels]
      BY <2>2, <3>6 DEF CancelSave
    <3>8. QED
      BY <2>2, <3>5, <3>7 DEF CancelSave
  <2>3. QED
    BY <1>17, <2>1, <2>2
<1>18. CASE UNCHANGED vars
  BY <1>18 DEF vars
<1>19. QED
  BY <1>1, <1>3, <1>4, <1>5, <1>7, <1>8, <1>9, <1>10, <1>11, <1>12, <1>13, <1>14,
     <1>15, <1>16, <1>17, <1>18, HandleErrorType, TypedIsTypeOK DEF Next, Main, Exec

\* Every variable keeps its shape.
THEOREM TypeCorrect == Spec => []TypeOK
BY TypeInit, TypeStep, PTL DEF Spec

-----------------------------------------------------------------------------
(* What a step does, goroutine by goroutine and field by field.            *)

\* The other attempts keep their goroutines.
Away(a) == \A b \in Attempts : b # a => thread'[b] = thread[b]

Keeps(a, h) ==
  /\ At(a, h)' = At(a, h) /\ thread'[a][h].err = thread[a][h].err
  /\ thread'[a][h].retries = thread[a][h].retries

\* Goroutine h of an attempt gets to l, with this error and these retries read.
Gets(a, h, l, e, r) ==
  /\ At(a, h)' = l /\ thread'[a][h].err = e /\ thread'[a][h].retries = r
  /\ h = "main" => Keeps(a, "exec")
  /\ h = "exec" => Keeps(a, "main")
  /\ Away(a)

Goes(a, h, l) == Gets(a, h, l, thread[a][h].err, thread[a][h].retries)

\* Both goroutines get on; main with this error.
BothGet(a, m, e, x) ==
  /\ At(a, "main")' = m /\ thread'[a]["main"].err = e
  /\ thread'[a]["main"].retries = thread[a]["main"].retries
  /\ At(a, "exec")' = x /\ thread'[a]["exec"].err = thread[a]["exec"].err
  /\ thread'[a]["exec"].retries = thread[a]["exec"].retries
  /\ Away(a)

LEMMA MovesGets ==
  ASSUME TypeOK, NEW a \in Attempts, NEW h \in Threads,
         NEW l \in Places, NEW e \in Errors, NEW r \in Int, Moves(a, h, l, e, r)
  PROVE  Gets(a, h, l, e, r)
<1>1. /\ At(a, h)' = l /\ thread'[a][h].err = e /\ thread'[a][h].retries = r
      /\ \A k \in Threads : k # h => thread'[a][k] = thread[a][k]
  BY DEF Moves, At
<1>2. "main" \in Threads /\ "exec" \in Threads
  BY DEF Threads
<1>3. \A k \in Threads : k # h => Keeps(a, k)
  BY <1>1 DEF Keeps, At
<1>4. ASSUME NEW b \in Attempts, b # a PROVE thread'[b] = thread[b]
  <2>1. thread' \in [Attempts -> [Threads -> Goroutines]] /\ thread \in [Attempts -> [Threads -> Goroutines]]
    BY TypedIsTypeOK DEF Typed, Moves
  <2>2. \A k \in Threads : thread'[b][k] = thread[b][k]
    BY <1>4 DEF Moves
  <2>3. QED
    BY <2>1, <2>2
<1>5. QED
  BY <1>1, <1>2, <1>3, <1>4 DEF Gets, Away

LEMMA BothGets ==
  ASSUME NEW a \in Attempts, NEW m, NEW e, NEW x, BothMove(a, m, e, x)
  PROVE  BothGet(a, m, e, x)
BY DEF BothMove, BothGet, At, Away

LEMMA GotoGoes ==
  ASSUME TypeOK, NEW a \in Attempts, NEW h \in Threads, NEW l \in Places, Goto(a, h, l)
  PROVE  Goes(a, h, l)
BY GotoMoves, MovesGets, ThreadType DEF Goes

LEMMA ErrGets ==
  ASSUME TypeOK, NEW a \in Attempts, NEW h \in Threads, NEW l \in Places, NEW e \in Errors,
         thread' = [thread EXCEPT ![a][h].at = l, ![a][h].err = e]
  PROVE  Gets(a, h, l, e, thread[a][h].retries)
BY SetsErr, MovesGets, ThreadType

LEMMA RetriesGets ==
  ASSUME TypeOK, NEW a \in Attempts, NEW h \in Threads, NEW l \in Places, NEW r \in Int,
         thread' = [thread EXCEPT ![a][h].retries = r, ![a][h].at = l]
  PROVE  Gets(a, h, l, thread[a][h].err, r)
BY SetsRetries, MovesGets, ThreadType

LEMMA ReturnGets ==
  ASSUME TypeOK, NEW a \in Attempts, NEW e \in Errors, Return(a, e)
  PROVE  Gets(a, "exec", "return", e, thread[a]["exec"].retries)
BY ReturnMoves, MovesGets, ThreadType DEF Threads, Places

\* handleError returns.
Left(a, h, result) ==
  \/ h = "exec" /\ Gets(a, h, "return", result, thread[a][h].retries)
  \/ h = "main" /\ result = "nil" /\ Goes(a, h, "events")
  \/ h = "main" /\ result # "nil" /\ Goes(a, h, "done")

SetTask(a, s, r) ==
  /\ task'[a].status = s /\ task'[a].retries = r
  /\ \A b \in Attempts : b # a => task'[b] = task[b]

SetAt(f, a, x) == f'[a] = x /\ \A b \in Attempts : b # a => f'[b] = f[b]

LEMMA ReceiveEffect ==
  ASSUME TypeOK, Receive
  PROVE  \E a \in Attempts :
           /\ a = attempts + 1 /\ attempts' = a
           /\ queued > 0 /\ queued' = queued - 1
           /\ Goes(a, "main", "begin")
           /\ SetTask(a, store.hash.status, store.hash.retries)
           /\ UNCHANGED <<store, err, outcome, events, cancel>>
<1>1. attempts + 1 \in Attempts
  BY TypedIsTypeOK DEF Receive, Attempts, Typed
<1>2. PICK a \in Attempts : a = attempts + 1
  BY <1>1
<1>3. /\ Goto(a, "main", "begin") /\ task' = [task EXCEPT ![a] = Loaded(store.hash)]
      /\ attempts' = a
  BY <1>2 DEF Receive, Goto
<1>4. Goes(a, "main", "begin")
  BY <1>3, GotoGoes DEF Threads, Places
<1>5. SetTask(a, store.hash.status, store.hash.retries)
  BY <1>3, TypedIsTypeOK DEF SetTask, Loaded, Typed
<1>6. QED
  BY <1>2, <1>3, <1>4, <1>5 DEF Receive

LEMMA BeginEffect ==
  ASSUME TypeOK, NEW a \in Attempts, Begin(a)
  PROVE  /\ At(a, "main") = "begin"
         /\ \/ Status(a) = "canceled" /\ Goes(a, "main", "events") /\ UNCHANGED task
            \/ /\ Status(a) # "canceled" /\ Goes(a, "main", "processing")
               /\ SetTask(a, "processing", task[a].retries)
         /\ UNCHANGED <<store, queued, attempts, err, outcome, events, cancel>>
<1>1. CASE Status(a) = "canceled"
  BY <1>1, GotoGoes DEF Begin, Threads, Places
<1>2. CASE Status(a) # "canceled"
  <2>1. Goes(a, "main", "processing")
    BY <1>2, GotoGoes DEF Begin, Threads, Places
  <2>2. task[a] \in TaskRecords /\ task \in [Attempts -> TaskRecords]
    BY TypedIsTypeOK DEF Typed
  <2>3. task' = [task EXCEPT ![a].status = "processing"]
    BY <1>2 DEF Begin
  <2>4. SetTask(a, "processing", task[a].retries)
    BY <2>2, <2>3 DEF SetTask, TaskRecords
  <2>5. QED
    BY <1>2, <2>1, <2>4 DEF Begin
<1>3. QED
  BY <1>1, <1>2

LEMMA SaveProcessingEffect ==
  ASSUME TypeOK, NEW a \in Attempts, SaveProcessing(a)
  PROVE  /\ At(a, "main") = "processing"
         /\ \/ Save(task[a]) /\ Goes(a, "main", "start")
            \/ "save" \in Faults /\ Goes(a, "main", "done") /\ (Save(task[a]) \/ UNCHANGED store)
         /\ UNCHANGED <<queued, attempts, task, err, outcome, events, cancel>>
BY GotoGoes DEF SaveProcessing, Threads, Places

LEMMA StartEffect ==
  ASSUME TypeOK, NEW a \in Attempts, Start(a)
  PROVE  /\ At(a, "main") = "start"
         /\ BothGet(a, "select", thread[a]["main"].err, "handler") /\ FireAll(a)
         /\ UNCHANGED <<store, queued, attempts, task, err, outcome, cancel>>
BY MoveBoth, BothGets, ThreadType DEF Start, Places, Errors, Threads

LEMMA EventErrorEffect ==
  ASSUME TypeOK, NEW a \in Attempts, EventError(a)
  PROVE  /\ "event" \in Faults /\ At(a, "main") \in {"start", "events"}
         /\ Goes(a, "main", "done") /\ \E n \in DOMAIN Fired(task[a]) : Fire(a, n)
         /\ UNCHANGED <<store, queued, attempts, task, err, outcome, cancel>>
BY GotoGoes DEF EventError, Threads, Places

LEMMA FireEventsEffect ==
  ASSUME TypeOK, NEW a \in Attempts, FireEvents(a)
  PROVE  /\ At(a, "main") = "events" /\ Goes(a, "main", "done") /\ FireAll(a)
         /\ UNCHANGED <<store, queued, attempts, task, err, outcome, cancel>>
BY GotoGoes DEF FireEvents, Threads, Places

\* The error handleRequest passes on for what the handler did.
ResultOf(o) == CASE o = "ok" -> "nil" [] o = "error" -> "error" [] o = "cancel" -> "canceled"

LEMMA HandlerEndsEffect ==
  ASSUME TypeOK, NEW a \in Attempts, NEW o \in Outcomes, HandlerEnds(a, o)
  PROVE  /\ At(a, "exec") = "handler" /\ o # "hang" /\ SetAt(outcome, a, o)
         /\ \/ o = "panic" /\ Recoverer = "absent" /\ Goes(a, "exec", "unwind")
            \/ /\ o = "panic" /\ Recoverer # "absent"
               /\ Gets(a, "exec", "return", "nil", thread[a]["exec"].retries)
            \/ /\ o # "panic"
               /\ Gets(a, "exec", "check", ResultOf(o), thread[a]["exec"].retries)
         /\ UNCHANGED <<store, queued, attempts, task, err, events, cancel>>
<1>1. SetAt(outcome, a, o)
  BY TypedIsTypeOK DEF HandlerEnds, SetAt, Typed
<1>2. CASE o = "panic" /\ Recoverer = "absent"
  BY <1>1, <1>2, GotoGoes DEF HandlerEnds, Threads, Places
<1>3. CASE o = "panic" /\ Recoverer # "absent"
  BY <1>1, <1>3, ReturnGets DEF HandlerEnds, Errors
<1>4. CASE o # "panic"
  <2>1. ResultOf(o) \in Errors
    BY <1>4 DEF ResultOf, Errors, HandlerEnds
  <2>2. thread' = [thread EXCEPT ![a]["exec"].at = "check", ![a]["exec"].err = ResultOf(o)]
    BY <1>4 DEF HandlerEnds, ResultOf
  <2>3. Gets(a, "exec", "check", ResultOf(o), thread[a]["exec"].retries)
    BY <2>1, <2>2, ErrGets DEF Threads, Places
  <2>4. QED
    BY <1>1, <1>4, <2>3 DEF HandlerEnds
<1>5. QED
  BY <1>2, <1>3, <1>4

LEMMA HandlerHangsEffect ==
  ASSUME TypeOK, NEW a \in Attempts, HandlerHangs(a)
  PROVE  /\ At(a, "exec") = "handler" /\ SetAt(outcome, a, "hang")
         /\ Goes(a, "exec", "hanging")
         /\ UNCHANGED <<store, queued, attempts, task, err, events, cancel>>
<1>1. SetAt(outcome, a, "hang")
  BY TypedIsTypeOK DEF HandlerHangs, SetAt, Typed
<1>2. QED
  BY <1>1, GotoGoes DEF HandlerHangs, Threads, Places

LEMMA ChainReturnsEffect ==
  ASSUME TypeOK, NEW a \in Attempts, ChainReturns(a)
  PROVE  /\ At(a, "exec") = "return" /\ Goes(a, "exec", "context")
         /\ SetAt(err, a, thread[a]["exec"].err)
         /\ UNCHANGED <<store, queued, attempts, task, outcome, events, cancel>>
<1>1. SetAt(err, a, thread[a]["exec"].err)
  BY TypedIsTypeOK DEF ChainReturns, SetAt, Typed
<1>2. QED
  BY <1>1, GotoGoes DEF ChainReturns, Threads, Places

LEMMA ReadContextEffect ==
  ASSUME TypeOK, NEW a \in Attempts, ReadContext(a)
  PROVE  /\ At(a, "exec") = "context" /\ Goes(a, "exec", "send")
         /\ SetAt(err, a, IF err[a] = "nil" THEN ContextError(a) ELSE err[a])
         /\ UNCHANGED <<store, queued, attempts, task, outcome, events, cancel>>
<1>1. SetAt(err, a, IF err[a] = "nil" THEN ContextError(a) ELSE err[a])
  BY TypedIsTypeOK DEF ReadContext, SetAt, Typed
<1>2. QED
  BY <1>1, GotoGoes DEF ReadContext, Threads, Places

LEMMA SendEffect ==
  ASSUME TypeOK, NEW a \in Attempts, Send(a)
  PROVE  /\ At(a, "main") = "select"
         /\ \/ At(a, "exec") = "send" /\ BothGet(a, "check", err[a], "done")
            \/ At(a, "exec") = "unwind" /\ BothGet(a, "check", err[a], "dying")
         /\ UNCHANGED <<store, queued, attempts, task, err, outcome, events, cancel>>
<1>1. err[a] \in Errors
  BY TypedIsTypeOK DEF Typed
<1>2. QED
  BY <1>1, MoveBoth, BothGets DEF Send, Places

LEMMA DiesEffect ==
  ASSUME TypeOK, ProcessDies
  PROVE  /\ \E a \in Attempts : At(a, "exec") = "dying"
         /\ \A a \in Attempts, h \in Threads :
              \/ At(a, h) \in {"off", "done"} /\ Keeps(a, h)
              \/ At(a, h) \notin {"off", "done"} /\ At(a, h)' = "dead"
         /\ UNCHANGED <<store, queued, attempts, task, err, outcome, events, cancel>>
BY DEF ProcessDies, Off, Keeps, At

LEMMA TimeOutEffect ==
  ASSUME TypeOK, NEW a \in Attempts, TimeOut(a)
  PROVE  /\ Timeouts /\ At(a, "main") = "select" /\ Goes(a, "main", "timedout")
         /\ SetAt(err, a, "canceled")
         /\ UNCHANGED <<store, queued, attempts, task, outcome, events, cancel>>
<1>1. SetAt(err, a, "canceled")
  BY TypedIsTypeOK DEF TimeOut, SetAt, Typed
<1>2. QED
  BY <1>1, GotoGoes DEF TimeOut, Threads, Places

LEMMA LeaveHandleTaskEffect ==
  ASSUME TypeOK, NEW a \in Attempts, LeaveHandleTask(a)
  PROVE  /\ At(a, "main") = "timedout"
         /\ Gets(a, "main", "check", err[a], thread[a]["main"].retries)
         /\ UNCHANGED <<store, queued, attempts, task, err, outcome, events, cancel>>
<1>1. err[a] \in Errors
  BY TypedIsTypeOK DEF Typed
<1>2. QED
  BY <1>1, ErrGets DEF LeaveHandleTask, Threads, Places

LEMMA LeaveLeft ==
  ASSUME TypeOK, NEW a \in Attempts, NEW h \in Threads, NEW result \in Errors,
         Leave(a, h, result)
  PROVE  Left(a, h, result)
<1>1. CASE h = "exec"
  BY <1>1, ReturnGets DEF Left, Leave
<1>2. CASE h = "main" /\ result = "nil"
  <2>1. Goto(a, h, "events")
    BY <1>2 DEF Leave
  <2>2. QED
    BY <1>2, <2>1, GotoGoes DEF Left, Places
<1>3. CASE h = "main" /\ result # "nil"
  <2>1. Goto(a, h, "done")
    BY <1>3 DEF Leave
  <2>2. QED
    BY <1>3, <2>1, GotoGoes DEF Left, Places
<1>4. QED
  BY <1>1, <1>2, <1>3 DEF Threads

LEMMA CheckEffect ==
  ASSUME TypeOK, NEW a \in Attempts, NEW h \in Threads, Check(a, h)
  PROVE  /\ At(a, h) = "check"
         /\ \/ Status(a) # "processing" /\ Left(a, h, "nil")
            \/ Status(a) = "processing" /\ Goes(a, h, "mark")
         /\ UNCHANGED <<store, queued, attempts, task, err, outcome, events, cancel>>
BY GotoGoes, LeaveLeft DEF Check, Places, Errors

\* The status handleError gives to a task for an error.
StatusFor(e) == CASE e = "nil" -> "succeeded" [] e = "canceled" -> "canceled"
                  [] e = "error" -> "failed"

LEMMA MarkEffect ==
  ASSUME TypeOK, NEW a \in Attempts, NEW h \in Threads, Mark(a, h)
  PROVE  /\ At(a, h) = "mark"
         /\ SetTask(a, StatusFor(thread[a][h].err), task[a].retries)
         /\ task'[a].status \in Final
         /\ task'[a].status = "succeeded" <=> thread[a][h].err = "nil"
         /\ \/ thread[a][h].err = "nil" /\ Goes(a, h, "save")
            \/ thread[a][h].err # "nil" /\ Goes(a, h, "test")
         /\ UNCHANGED <<store, queued, attempts, err, outcome, events, cancel>>
<1>1. task[a] \in TaskRecords /\ task \in [Attempts -> TaskRecords]
  BY TypedIsTypeOK DEF Typed
<1>2. task' = [task EXCEPT ![a].status = StatusFor(thread[a][h].err)]
  BY DEF Mark, StatusFor
<1>3. SetTask(a, StatusFor(thread[a][h].err), task[a].retries)
  BY <1>1, <1>2 DEF SetTask, TaskRecords
<1>4. thread[a][h].err \in Errors
  BY ThreadType
<1>5. /\ StatusFor(thread[a][h].err) \in Final
      /\ StatusFor(thread[a][h].err) = "succeeded" <=> thread[a][h].err = "nil"
  BY <1>4 DEF StatusFor, Final, Errors
<1>6. QED
  BY <1>3, <1>5, GotoGoes DEF Mark, Places, SetTask

LEMMA TestEffect ==
  ASSUME TypeOK, NEW a \in Attempts, NEW h \in Threads, TestRetries(a, h)
  PROVE  /\ At(a, h) = "test"
         /\ \/ task[a].retries = 0 /\ Gets(a, h, "save", thread[a][h].err, task[a].retries)
            \/ task[a].retries # 0 /\ Gets(a, h, "dec", thread[a][h].err, task[a].retries)
         /\ UNCHANGED <<store, queued, attempts, task, err, outcome, events, cancel>>
<1>1. task[a].retries \in Int
  BY TypedIsTypeOK DEF Typed, TaskRecords
<1>2. "save" \in Places /\ "dec" \in Places
  BY DEF Places
<1>3. CASE task[a].retries = 0
  <2>1. thread' = [thread EXCEPT ![a][h].retries = task[a].retries, ![a][h].at = "save"]
    BY <1>3 DEF TestRetries
  <2>2. Gets(a, h, "save", thread[a][h].err, task[a].retries)
    BY <1>1, <1>2, <2>1, RetriesGets
  <2>3. QED
    BY <1>3, <2>2 DEF TestRetries
<1>4. CASE task[a].retries # 0
  <2>1. thread' = [thread EXCEPT ![a][h].retries = task[a].retries, ![a][h].at = "dec"]
    BY <1>4 DEF TestRetries
  <2>2. Gets(a, h, "dec", thread[a][h].err, task[a].retries)
    BY <1>1, <1>2, <2>1, RetriesGets
  <2>3. QED
    BY <1>4, <2>2 DEF TestRetries
<1>5. QED
  BY <1>3, <1>4

LEMMA DecEffect ==
  ASSUME TypeOK, NEW a \in Attempts, NEW h \in Threads, DecRetries(a, h)
  PROVE  /\ At(a, h) = "dec" /\ Goes(a, h, "publish")
         /\ \E read \in {thread[a][h].retries, task[a].retries} :
              SetTask(a, task[a].status, read - 1)
         /\ UNCHANGED <<store, queued, attempts, err, outcome, events, cancel>>
<1>1. task[a] \in TaskRecords /\ task \in [Attempts -> TaskRecords]
  BY TypedIsTypeOK DEF Typed
<1>2. PICK read \in {thread[a][h].retries, task[a].retries} :
        task' = [task EXCEPT ![a].retries = read - 1]
  BY DEF DecRetries
<1>3. SetTask(a, task[a].status, read - 1)
  BY <1>1, <1>2 DEF SetTask, TaskRecords
<1>4. QED
  BY <1>2, <1>3, GotoGoes DEF DecRetries, Places

LEMMA PublishEffect ==
  ASSUME TypeOK, NEW a \in Attempts, NEW h \in Threads, PublishRetry(a, h)
  PROVE  /\ At(a, h) = "publish"
         /\ \/ /\ store'.hash = Stored(task[a]) /\ store'.ttl = store.ttl
               /\ queued' = queued + 1
               /\ Left(a, h, "nil") \/ ("save" \in Faults /\ Left(a, h, "error"))
            \/ /\ "save" \in Faults /\ Left(a, h, "error") /\ queued' = queued
               /\ UNCHANGED store \/ (store'.hash = Stored(task[a]) /\ store'.ttl = store.ttl)
         /\ UNCHANGED <<attempts, task, err, outcome, events, cancel>>
<1>1. store \in [hash : Hashes, ttl : BOOLEAN]
  BY TypedIsTypeOK DEF Typed
<1>2. QED
  BY <1>1, LeaveLeft DEF PublishRetry, Errors

LEMMA SaveEffect ==
  ASSUME TypeOK, NEW a \in Attempts, NEW h \in Threads, SaveResult(a, h)
  PROVE  /\ At(a, h) = "save"
         /\ \/ Save(task[a]) /\ Left(a, h, "nil")
            \/ "save" \in Faults /\ Left(a, h, "error") /\ (Save(task[a]) \/ UNCHANGED store)
         /\ UNCHANGED <<queued, attempts, task, err, outcome, events, cancel>>
BY LeaveLeft DEF SaveResult, Errors

-----------------------------------------------------------------------------
(* Where the two goroutines of an attempt can be.                          *)

MainPlaces ==
  {"off", "begin", "processing", "start", "select", "timedout", "check", "mark",
   "test", "dec", "publish", "save", "events", "done", "dead"}
ExecPlaces ==
  {"off", "handler", "hanging", "check", "mark", "test", "dec", "publish", "save",
   "return", "context", "send", "unwind", "dying", "done", "dead"}
Marked == {"test", "dec", "publish", "save"}

\* Whatever the settings: exec begins once, after main has started it, main does
\* not wait for an exec that is gone, and a task that handleError has marked is
\* not processing.
PhaseOf(a) ==
  /\ At(a, "main") \in MainPlaces /\ At(a, "exec") \in ExecPlaces
  /\ a > attempts => At(a, "main") = "off"
  /\ At(a, "main") \in {"off", "begin", "processing", "start"} => At(a, "exec") = "off"
  /\ At(a, "main") = "select" => At(a, "exec") \notin {"off", "dying", "done", "dead"}
  /\ At(a, "exec") \in {"off", "handler"} => outcome[a] = "none"
  /\ At(a, "main") \in Marked \/ At(a, "exec") \in Marked => Status(a) # "processing"

PhaseInv == \A a \in Attempts : PhaseOf(a)

\* Nothing of an attempt changes.
Same(a) ==
  /\ thread'[a] = thread[a] /\ task'[a] = task[a]
  /\ outcome'[a] = outcome[a] /\ err'[a] = err[a]

LEMMA PhaseInit == Init => PhaseInv
BY DEF Init, PhaseInv, PhaseOf, At, Off, Attempts, MainPlaces, ExecPlaces, Marked, Threads

\* A step of one attempt is no step of another.
LEMMA OthersSame ==
  ASSUME TypeOK, NEW a \in Attempts, NEW b \in Attempts, b # a,
         Main(a) \/ Exec(a) \/ Send(a) \/ TimeOut(a)
  PROVE  Same(b)
<1> USE DEF Same, Goes, Gets, Away, BothGet
<1>1. CASE Begin(a)
  BY <1>1, BeginEffect DEF SetTask
<1>2. CASE SaveProcessing(a)
  BY <1>2, SaveProcessingEffect
<1>3. CASE Start(a)
  BY <1>3, StartEffect
<1>4. CASE LeaveHandleTask(a)
  BY <1>4, LeaveHandleTaskEffect
<1>5. CASE FireEvents(a) \/ EventError(a)
  BY <1>5, FireEventsEffect, EventErrorEffect
<1>6. ASSUME NEW o \in Outcomes, HandlerEnds(a, o) PROVE Same(b)
  BY <1>6, HandlerEndsEffect DEF SetAt, ResultOf
<1>7. CASE HandlerHangs(a)
  BY <1>7, HandlerHangsEffect DEF SetAt
<1>8. CASE ChainReturns(a)
  BY <1>8, ChainReturnsEffect DEF SetAt
<1>9. CASE ReadContext(a)
  BY <1>9, ReadContextEffect DEF SetAt, ContextError
<1>10. CASE Send(a)
  BY <1>10, SendEffect
<1>11. CASE TimeOut(a)
  BY <1>11, TimeOutEffect DEF SetAt
<1>12. ASSUME NEW h \in Threads, HandleError(a, h) PROVE Same(b)
  <2> USE DEF Left, Threads
  <2>1. CASE Check(a, h)
    BY <2>1, CheckEffect
  <2>2. CASE Mark(a, h)
    BY <2>2, MarkEffect DEF SetTask, Final
  <2>3. CASE TestRetries(a, h)
    BY <2>3, TestEffect
  <2>4. CASE DecRetries(a, h)
    BY <2>4, DecEffect DEF SetTask
  <2>5. CASE PublishRetry(a, h)
    BY <2>5, PublishEffect
  <2>6. CASE SaveResult(a, h)
    BY <2>6, SaveEffect
  <2>7. QED
    BY <1>12, <2>1, <2>2, <2>3, <2>4, <2>5, <2>6 DEF HandleError
<1>13. QED
  BY <1>1, <1>2, <1>3, <1>4, <1>5, <1>6, <1>7, <1>8, <1>9, <1>10, <1>11, <1>12
  DEF Main, Exec, Threads

LEMMA PhaseOwn ==
  ASSUME TypeOK, NEW a \in Attempts, PhaseOf(a),
         Main(a) \/ Exec(a) \/ Send(a) \/ TimeOut(a)
  PROVE  PhaseOf(a)'
<1> USE DEF Goes, Gets, Keeps, BothGet, PhaseOf, Status, MainPlaces, ExecPlaces, Marked
<1>1. CASE Begin(a)
  BY <1>1, BeginEffect DEF SetTask
<1>2. CASE SaveProcessing(a)
  BY <1>2, SaveProcessingEffect
<1>3. CASE Start(a)
  BY <1>3, StartEffect
<1>4. CASE LeaveHandleTask(a)
  BY <1>4, LeaveHandleTaskEffect
<1>5. CASE FireEvents(a) \/ EventError(a)
  BY <1>5, FireEventsEffect, EventErrorEffect
<1>6. ASSUME NEW o \in Outcomes, HandlerEnds(a, o) PROVE PhaseOf(a)'
  BY <1>6, HandlerEndsEffect DEF SetAt, ResultOf
<1>7. CASE HandlerHangs(a)
  BY <1>7, HandlerHangsEffect DEF SetAt
<1>8. CASE ChainReturns(a)
  BY <1>8, ChainReturnsEffect DEF SetAt
<1>9. CASE ReadContext(a)
  BY <1>9, ReadContextEffect DEF SetAt, ContextError
<1>10. CASE Send(a)
  BY <1>10, SendEffect
<1>11. CASE TimeOut(a)
  BY <1>11, TimeOutEffect DEF SetAt
<1>12. ASSUME NEW h \in Threads, HandleError(a, h) PROVE PhaseOf(a)'
  <2> USE DEF Left, Threads
  <2>1. CASE Check(a, h)
    BY <2>1, CheckEffect
  <2>2. CASE Mark(a, h)
    BY <2>2, MarkEffect DEF SetTask, Final
  <2>3. CASE TestRetries(a, h)
    BY <2>3, TestEffect
  <2>4. CASE DecRetries(a, h)
    BY <2>4, DecEffect DEF SetTask
  <2>5. CASE PublishRetry(a, h)
    BY <2>5, PublishEffect
  <2>6. CASE SaveResult(a, h)
    BY <2>6, SaveEffect
  <2>7. QED
    BY <1>12, <2>1, <2>2, <2>3, <2>4, <2>5, <2>6 DEF HandleError
<1>13. QED
  BY <1>1, <1>2, <1>3, <1>4, <1>5, <1>6, <1>7, <1>8, <1>9, <1>10, <1>11, <1>12
  DEF Main, Exec, Threads

\* A step of the system is a step of one attempt, or one of these.
LEMMA StepCases ==
  ASSUME [Next]_vars
  PROVE  \/ \E a \in Attempts : Main(a) \/ Exec(a) \/ Send(a) \/ TimeOut(a)
         \/ Receive \/ CancelGet \/ CancelSave \/ ProcessDies \/ UNCHANGED vars
BY DEF Next

\* What no step of an attempt changes.
LEMMA AttemptKeeps ==
  ASSUME NEW a \in Attempts, Main(a) \/ Exec(a) \/ Send(a) \/ TimeOut(a)
  PROVE  UNCHANGED <<attempts, cancel>>
BY DEF Main, Exec, HandleError, Begin, SaveProcessing, Start, LeaveHandleTask, FireEvents,
       EventError, HandlerEnds, HandlerHangs, ChainReturns, ReadContext, Send, TimeOut,
       Check, Mark, TestRetries, DecRetries, PublishRetry, SaveResult

LEMMA PhaseStep == TypeOK /\ PhaseInv /\ [Next]_vars => PhaseInv'
<1> SUFFICES ASSUME TypeOK, PhaseInv, [Next]_vars, NEW b \in Attempts PROVE PhaseOf(b)'
  BY DEF PhaseInv
<1>0. PhaseOf(b)
  BY DEF PhaseInv
<1>1. ASSUME NEW a \in Attempts, Main(a) \/ Exec(a) \/ Send(a) \/ TimeOut(a) PROVE PhaseOf(b)'
  <2>1. CASE a = b
    BY <1>0, <1>1, <2>1, PhaseOwn
  <2>2. CASE a # b
    BY <1>0, <1>1, <2>2, OthersSame, AttemptKeeps DEF Same, PhaseOf, At, Status
  <2>3. QED
    BY <2>1, <2>2
<1>2. CASE Receive
  <2>1. PICK a \in Attempts : /\ a = attempts + 1 /\ attempts' = a
                              /\ Goes(a, "main", "begin")
                              /\ SetTask(a, store.hash.status, store.hash.retries)
                              /\ outcome' = outcome
    BY <1>2, ReceiveEffect
  <2>2. attempts \in Nat
    BY TypedIsTypeOK DEF Typed
  <2>3. CASE b = a
    <3>1. At(a, "main") = "off" /\ At(a, "exec") = "off" /\ outcome[a] = "none"
      BY <1>0, <2>1, <2>2, <2>3 DEF PhaseOf
    <3>2. At(a, "main")' = "begin" /\ At(a, "exec")' = "off" /\ outcome'[a] = "none"
      BY <2>1, <3>1 DEF Goes, Gets, Keeps
    <3>3. QED
      BY <2>1, <2>3, <3>2 DEF PhaseOf, MainPlaces, ExecPlaces, Marked
  <2>4. CASE b # a
    <3>1. thread'[b] = thread[b] /\ task'[b] = task[b]
      BY <2>1, <2>4 DEF Goes, Gets, Away, SetTask
    <3>2. b > attempts' => b > attempts
      BY <2>1, <2>2 DEF Attempts
    <3>3. QED
      BY <1>0, <2>1, <3>1, <3>2 DEF PhaseOf, At, Status
  <2>5. QED
    BY <2>3, <2>4
<1>3. CASE CancelGet \/ CancelSave \/ UNCHANGED vars
  BY <1>0, <1>3 DEF CancelGet, CancelSave, vars, PhaseOf, At, Status
<1>4. CASE ProcessDies
  <2>1. /\ \/ At(b, "main") \in {"off", "done"} /\ At(b, "main")' = At(b, "main")
           \/ At(b, "main") \notin {"off", "done"} /\ At(b, "main")' = "dead"
        /\ \/ At(b, "exec") \in {"off", "done"} /\ At(b, "exec")' = At(b, "exec")
           \/ At(b, "exec") \notin {"off", "done"} /\ At(b, "exec")' = "dead"
    BY <1>4, DiesEffect DEF Keeps, Threads
  <2>2. Status(b)' = Status(b) /\ outcome'[b] = outcome[b] /\ attempts' = attempts
    BY <1>4, DiesEffect DEF Status
  <2>3. QED
    BY <1>0, <2>1, <2>2 DEF PhaseOf, MainPlaces, ExecPlaces, Marked
<1>5. QED
  BY <1>1, <1>2, <1>3, <1>4, StepCases

-----------------------------------------------------------------------------
(* When no deadline passes, the goroutines of an attempt take turns.       *)

OneOf(a) ==
  /\ At(a, "main") # "timedout"
  /\ At(a, "exec") \in ExecPlaces \ {"off", "dying", "done", "dead"} => At(a, "main") = "select"
  /\ (\/ At(a, "main") \in {"processing", "start", "mark"}
      \/ At(a, "exec") \in {"handler", "hanging", "check", "mark"})
       => Status(a) = "processing"

OneInv == \A a \in Attempts : OneOf(a)

LEMMA OneInit == Init => OneInv
BY DEF Init, OneInv, OneOf, At, Off, Attempts, ExecPlaces, Threads

LEMMA OneOwn ==
  ASSUME TypeOK, NEW a \in Attempts, ~Timeouts, PhaseOf(a), OneOf(a),
         Main(a) \/ Exec(a) \/ Send(a) \/ TimeOut(a)
  PROVE  OneOf(a)'
<1> USE DEF Goes, Gets, Keeps, BothGet, Status, MainPlaces, ExecPlaces, Marked,
           PhaseOf, OneOf
<1>1. CASE Begin(a)
  BY <1>1, BeginEffect DEF SetTask
<1>2. CASE SaveProcessing(a)
  BY <1>2, SaveProcessingEffect
<1>3. CASE Start(a)
  BY <1>3, StartEffect
<1>4. CASE LeaveHandleTask(a)
  BY <1>4, LeaveHandleTaskEffect
<1>5. CASE FireEvents(a) \/ EventError(a)
  BY <1>5, FireEventsEffect, EventErrorEffect
<1>6. ASSUME NEW o \in Outcomes, HandlerEnds(a, o) PROVE OneOf(a)'
  BY <1>6, HandlerEndsEffect DEF SetAt, ResultOf
<1>7. CASE HandlerHangs(a)
  BY <1>7, HandlerHangsEffect DEF SetAt
<1>8. CASE ChainReturns(a)
  BY <1>8, ChainReturnsEffect DEF SetAt
<1>9. CASE ReadContext(a)
  BY <1>9, ReadContextEffect DEF SetAt, ContextError
<1>10. CASE Send(a)
  BY <1>10, SendEffect
<1>11. CASE TimeOut(a)
  BY <1>11, TimeOutEffect DEF SetAt
<1>12. ASSUME NEW h \in Threads, HandleError(a, h) PROVE OneOf(a)'
  <2> USE DEF Left, Threads
  <2>1. CASE Check(a, h)
    BY <2>1, CheckEffect
  <2>2. CASE Mark(a, h)
    BY <2>2, MarkEffect DEF SetTask, Final
  <2>3. CASE TestRetries(a, h)
    BY <2>3, TestEffect
  <2>4. CASE DecRetries(a, h)
    BY <2>4, DecEffect DEF SetTask
  <2>5. CASE PublishRetry(a, h)
    BY <2>5, PublishEffect
  <2>6. CASE SaveResult(a, h)
    BY <2>6, SaveEffect
  <2>7. QED
    BY <1>12, <2>1, <2>2, <2>3, <2>4, <2>5, <2>6 DEF HandleError
<1>13. QED
  BY <1>1, <1>2, <1>3, <1>4, <1>5, <1>6, <1>7, <1>8, <1>9, <1>10, <1>11, <1>12
  DEF Main, Exec, Threads

LEMMA OneStep == ~Timeouts /\ TypeOK /\ PhaseInv /\ OneInv /\ [Next]_vars => OneInv'
<1> SUFFICES ASSUME ~Timeouts, TypeOK, PhaseInv, OneInv, [Next]_vars, NEW b \in Attempts
             PROVE  OneOf(b)'
  BY DEF OneInv
<1>0. PhaseOf(b) /\ OneOf(b)
  BY DEF PhaseInv, OneInv
<1>1. ASSUME NEW a \in Attempts, Main(a) \/ Exec(a) \/ Send(a) \/ TimeOut(a) PROVE OneOf(b)'
  <2>1. CASE a = b
    BY <1>0, <1>1, <2>1, OneOwn
  <2>2. CASE a # b
    BY <1>0, <1>1, <2>2, OthersSame DEF Same, OneOf, At, Status
  <2>3. QED
    BY <2>1, <2>2
<1>2. CASE Receive
  <2>1. PICK a \in Attempts : /\ a = attempts + 1 /\ Goes(a, "main", "begin")
                              /\ SetTask(a, store.hash.status, store.hash.retries)
    BY <1>2, ReceiveEffect
  <2>2. CASE b = a
    <3>1. At(a, "exec") = "off"
      BY <1>0, <2>1, <2>2, TypedIsTypeOK DEF PhaseOf, Typed
    <3>2. At(a, "main")' = "begin" /\ At(a, "exec")' = "off"
      BY <2>1, <3>1 DEF Goes, Gets, Keeps
    <3>3. QED
      BY <2>2, <3>2 DEF OneOf
  <2>3. CASE b # a
    <3>1. thread'[b] = thread[b] /\ task'[b] = task[b]
      BY <2>1, <2>3 DEF Goes, Gets, Away, SetTask
    <3>2. QED
      BY <1>0, <3>1 DEF OneOf, At, Status
  <2>4. QED
    BY <2>2, <2>3
<1>3. CASE CancelGet \/ CancelSave \/ UNCHANGED vars
  BY <1>0, <1>3 DEF CancelGet, CancelSave, vars, OneOf, At, Status
<1>4. CASE ProcessDies
  <2>1. /\ \/ At(b, "main") \in {"off", "done"} /\ At(b, "main")' = At(b, "main")
           \/ At(b, "main") \notin {"off", "done"} /\ At(b, "main")' = "dead"
        /\ \/ At(b, "exec") \in {"off", "done"} /\ At(b, "exec")' = At(b, "exec")
           \/ At(b, "exec") \notin {"off", "done"} /\ At(b, "exec")' = "dead"
    BY <1>4, DiesEffect DEF Keeps, Threads
  <2>2. QED
    BY <1>0, <2>1 DEF OneOf
<1>5. QED
  BY <1>1, <1>2, <1>3, <1>4, StepCases

-----------------------------------------------------------------------------
(* The task has one carrier.                                               *)

\* The attempt may still run the task or publish it again.
Carrier(a) ==
  \/ At(a, "main") \in {"begin", "processing", "start", "mark"} \cup Marked
  \/ At(a, "exec") \in Marked
  \/ At(a, "main") \in {"select", "check"} /\ Status(a) = "processing"

\* An attempt does not become the carrier, and is none after it has published.
CarrierStep(a) ==
  /\ Carrier(a)' => Carrier(a)
  /\ \/ queued' = queued
     \/ queued' = queued + 1 /\ Carrier(a) /\ ~Carrier(a)'

AloneInv ==
  /\ queued <= 1
  /\ \A a \in Attempts : Carrier(a) => queued = 0
  /\ \A a, b \in Attempts : Carrier(a) /\ Carrier(b) => a = b

\* The queue has received a new attempt.
Receives(a) ==
  /\ a = attempts + 1 /\ attempts' = a
  /\ queued > 0 /\ queued' = queued - 1
  /\ At(a, "main") = "off" /\ At(a, "exec") = "off" /\ outcome[a] = "none"
  /\ At(a, "main")' = "begin" /\ At(a, "exec")' = "off"
  /\ task'[a].status = store.hash.status /\ task'[a].retries = store.hash.retries
  /\ \A b \in Attempts : b # a => Same(b)
  /\ UNCHANGED <<store, outcome, events, err, cancel>>

LEMMA ReceivesA ==
  ASSUME TypeOK, PhaseInv, Receive
  PROVE  \E a \in Attempts : Receives(a)
<1>1. PICK a \in Attempts : /\ a = attempts + 1 /\ attempts' = a
                            /\ queued > 0 /\ queued' = queued - 1
                            /\ Goes(a, "main", "begin")
                            /\ SetTask(a, store.hash.status, store.hash.retries)
                            /\ UNCHANGED <<store, err, outcome, events, cancel>>
  BY ReceiveEffect
<1>2. attempts \in Nat
  BY TypedIsTypeOK DEF Typed
<1>3. At(a, "main") = "off" /\ At(a, "exec") = "off" /\ outcome[a] = "none"
  BY <1>1, <1>2 DEF PhaseInv, PhaseOf
<1>4. At(a, "main")' = "begin" /\ At(a, "exec")' = "off"
  BY <1>1, <1>3 DEF Goes, Gets, Keeps
<1>5. \A b \in Attempts : b # a => Same(b)
  BY <1>1 DEF Goes, Gets, Away, SetTask, Same
<1>6. QED
  BY <1>1, <1>3, <1>4, <1>5 DEF Receives, SetTask

\* The process dies: its goroutines stop where they are.
Dies(a) ==
  /\ \A h \in {"main", "exec"} :
       \/ At(a, h) \in {"off", "done"} /\ At(a, h)' = At(a, h)
       \/ At(a, h) \notin {"off", "done"} /\ At(a, h)' = "dead"
  /\ task'[a] = task[a] /\ outcome'[a] = outcome[a]

LEMMA DiesAll == TypeOK /\ ProcessDies => \A a \in Attempts : Dies(a)
BY DiesEffect DEF Dies, Keeps, Threads

LEMMA DiesNoCarrier ==
  ASSUME NEW a \in Attempts, Dies(a) PROVE ~Carrier(a)'
BY DEF Dies, Carrier, Marked, Status

LEMMA SameCarrier ==
  ASSUME NEW a \in Attempts, Same(a) PROVE Carrier(a)' <=> Carrier(a)
BY DEF Same, Carrier, At, Status

LEMMA CarrierOwn ==
  ASSUME TypeOK, NEW a \in Attempts, ~Timeouts, PhaseOf(a), OneOf(a), queued \in Nat,
         Main(a) \/ Exec(a) \/ Send(a) \/ TimeOut(a)
  PROVE  CarrierStep(a)
<1> USE DEF Goes, Gets, Keeps, BothGet, Status, MainPlaces, ExecPlaces, Marked,
           PhaseOf, OneOf, Carrier, CarrierStep
<1>1. CASE Begin(a)
  BY <1>1, BeginEffect DEF SetTask
<1>2. CASE SaveProcessing(a)
  BY <1>2, SaveProcessingEffect
<1>3. CASE Start(a)
  BY <1>3, StartEffect
<1>4. CASE LeaveHandleTask(a)
  BY <1>4, LeaveHandleTaskEffect
<1>5. CASE FireEvents(a) \/ EventError(a)
  BY <1>5, FireEventsEffect, EventErrorEffect
<1>6. ASSUME NEW o \in Outcomes, HandlerEnds(a, o) PROVE CarrierStep(a)
  BY <1>6, HandlerEndsEffect DEF SetAt, ResultOf
<1>7. CASE HandlerHangs(a)
  BY <1>7, HandlerHangsEffect DEF SetAt
<1>8. CASE ChainReturns(a)
  BY <1>8, ChainReturnsEffect DEF SetAt
<1>9. CASE ReadContext(a)
  BY <1>9, ReadContextEffect DEF SetAt, ContextError
<1>10. CASE Send(a)
  BY <1>10, SendEffect
<1>11. CASE TimeOut(a)
  BY <1>11, TimeOutEffect DEF SetAt
<1>12. ASSUME NEW h \in Threads, HandleError(a, h) PROVE CarrierStep(a)
  <2> USE DEF Left, Threads
  <2>1. CASE Check(a, h)
    BY <2>1, CheckEffect
  <2>2. CASE Mark(a, h)
    BY <2>2, MarkEffect DEF SetTask, Final
  <2>3. CASE TestRetries(a, h)
    BY <2>3, TestEffect
  <2>4. CASE DecRetries(a, h)
    BY <2>4, DecEffect DEF SetTask
  <2>5. CASE PublishRetry(a, h)
    BY <2>5, PublishEffect
  <2>6. CASE SaveResult(a, h)
    BY <2>6, SaveEffect
  <2>7. QED
    BY <1>12, <2>1, <2>2, <2>3, <2>4, <2>5, <2>6 DEF HandleError
<1>13. QED
  BY <1>1, <1>2, <1>3, <1>4, <1>5, <1>6, <1>7, <1>8, <1>9, <1>10, <1>11, <1>12
  DEF Main, Exec, Threads

LEMMA AloneInit == Init => AloneInv
BY DEF Init, AloneInv, Carrier, At, Off, Attempts, Marked, Threads

LEMMA AloneStep ==
  ~Timeouts /\ TypeOK /\ PhaseInv /\ OneInv /\ AloneInv /\ [Next]_vars => AloneInv'
<1> SUFFICES ASSUME ~Timeouts, TypeOK, PhaseInv, OneInv, AloneInv, [Next]_vars
             PROVE  AloneInv'
  OBVIOUS
<1>0. queued \in Nat
  BY TypedIsTypeOK DEF Typed
<1>1. ASSUME NEW a \in Attempts, Main(a) \/ Exec(a) \/ Send(a) \/ TimeOut(a) PROVE AloneInv'
  <2>1. PhaseOf(a) /\ OneOf(a)
    BY DEF PhaseInv, OneInv
  <2>2. CarrierStep(a)
    BY <1>0, <1>1, <2>1, CarrierOwn
  <2>3. \A b \in Attempts : b # a => (Carrier(b)' <=> Carrier(b))
    BY <1>1, OthersSame, SameCarrier
  <2>4. QED
    BY <1>0, <2>2, <2>3 DEF AloneInv, CarrierStep
<1>2. CASE Receive
  <2>1. PICK a \in Attempts : Receives(a)
    BY <1>2, ReceivesA
  <2>2. \A b \in Attempts : b # a => (Carrier(b)' <=> Carrier(b))
    BY <2>1, SameCarrier DEF Receives
  <2>3. QED
    BY <1>0, <2>1, <2>2 DEF AloneInv, Receives
<1>3. CASE CancelGet \/ CancelSave \/ UNCHANGED vars
  <2>1. UNCHANGED <<queued, thread, task>>
    BY <1>3 DEF CancelGet, CancelSave, vars
  <2>2. QED
    BY <2>1 DEF AloneInv, Carrier, At, Status
<1>4. CASE ProcessDies
  <2>1. queued' = queued /\ \A a \in Attempts : ~Carrier(a)'
    BY <1>4, DiesEffect, DiesAll, DiesNoCarrier
  <2>2. QED
    BY <2>1 DEF AloneInv
<1>5. QED
  BY <1>1, <1>2, <1>3, <1>4, StepCases

-----------------------------------------------------------------------------
(* Copies of the task, whatever passes its deadline.                       *)

\* The goroutines that may still run the task or publish it.
MainHolds(a) ==
  \/ At(a, "main") \in {"begin", "processing", "start", "timedout", "mark"} \cup Marked
  \/ At(a, "main") = "check" /\ Status(a) = "processing"

ExecHolds(a) ==
  \/ At(a, "exec") \in {"handler", "hanging", "mark"} \cup Marked
  \/ At(a, "exec") = "check" /\ Status(a) = "processing"
  \/ /\ At(a, "exec") \in {"return", "context", "send", "unwind"}
     /\ At(a, "main") = "select" /\ Status(a) = "processing"

Outran(a) ==
  /\ Timeouts
  /\ At(a, "main") \notin {"off", "begin", "processing", "start", "select"}
  /\ At(a, "exec") \notin {"off", "dying", "done"}

Mains == {a \in Attempts : MainHolds(a)}
Execs == {a \in Attempts : ExecHolds(a)}

CopiesInv == queued + Cardinality(Mains) + Cardinality(Execs) <= 1 + Cardinality(Overran)

One(x) == IF x THEN 1 ELSE 0

\* A step makes no copy, unless it is the attempt's deadline.
CopiesStep(a) ==
  /\ Outran(a) => Outran(a)'
  /\ queued' + One(MainHolds(a)') + One(ExecHolds(a)') + One(Outran(a))
       <= queued + One(MainHolds(a)) + One(ExecHolds(a)) + One(Outran(a)')

LEMMA CopiesOwn ==
  ASSUME TypeOK, NEW a \in Attempts, PhaseOf(a), queued \in Nat,
         Main(a) \/ Exec(a) \/ Send(a) \/ TimeOut(a)
  PROVE  CopiesStep(a)
<1> USE DEF Goes, Gets, Keeps, BothGet, Status, MainPlaces, ExecPlaces, Marked,
           PhaseOf, MainHolds, ExecHolds, Outran, One, CopiesStep
<1>1. CASE Begin(a)
  BY <1>1, BeginEffect DEF SetTask
<1>2. CASE SaveProcessing(a)
  BY <1>2, SaveProcessingEffect
<1>3. CASE Start(a)
  BY <1>3, StartEffect
<1>4. CASE LeaveHandleTask(a)
  BY <1>4, LeaveHandleTaskEffect
<1>5. CASE FireEvents(a) \/ EventError(a)
  BY <1>5, FireEventsEffect, EventErrorEffect
<1>6. ASSUME NEW o \in Outcomes, HandlerEnds(a, o) PROVE CopiesStep(a)
  BY <1>6, HandlerEndsEffect DEF SetAt, ResultOf
<1>7. CASE HandlerHangs(a)
  BY <1>7, HandlerHangsEffect DEF SetAt
<1>8. CASE ChainReturns(a)
  BY <1>8, ChainReturnsEffect DEF SetAt
<1>9. CASE ReadContext(a)
  BY <1>9, ReadContextEffect DEF SetAt, ContextError
<1>10. CASE Send(a)
  BY <1>10, SendEffect
<1>11. CASE TimeOut(a)
  BY <1>11, TimeOutEffect DEF SetAt
<1>12. ASSUME NEW h \in Threads, HandleError(a, h) PROVE CopiesStep(a)
  <2> USE DEF Left, Threads
  <2>1. CASE Check(a, h)
    BY <2>1, CheckEffect
  <2>2. CASE Mark(a, h)
    BY <2>2, MarkEffect DEF SetTask, Final
  <2>3. CASE TestRetries(a, h)
    BY <2>3, TestEffect
  <2>4. CASE DecRetries(a, h)
    BY <2>4, DecEffect DEF SetTask
  <2>5. CASE PublishRetry(a, h)
    BY <2>5, PublishEffect
  <2>6. CASE SaveResult(a, h)
    BY <2>6, SaveEffect
  <2>7. QED
    BY <1>12, <2>1, <2>2, <2>3, <2>4, <2>5, <2>6 DEF HandleError
<1>13. QED
  BY <1>1, <1>2, <1>3, <1>4, <1>5, <1>6, <1>7, <1>8, <1>9, <1>10, <1>11, <1>12
  DEF Main, Exec, Threads

LEMMA HoldersAre ==
  /\ Overran = {a \in Attempts : Outran(a)} /\ Overran' = {a \in Attempts : Outran(a)'}
  /\ Mains' = {a \in Attempts : MainHolds(a)'} /\ Execs' = {a \in Attempts : ExecHolds(a)'}
BY DEF Overran, Outran, Mains, Execs

LEMMA SomeAttempts ==
  ASSUME NEW S, S \subseteq Attempts PROVE IsFiniteSet(S) /\ Cardinality(S) \in Nat
<1>1. IsFiniteSet(Attempts)
  BY FS_Interval DEF Attempts
<1>2. QED
  BY <1>1, FS_Subset, FS_CardinalityType

\* Two sets of attempts that differ in one of them at most.
LEMMA OneApart ==
  ASSUME NEW S, NEW T, S \subseteq Attempts, T \subseteq Attempts, NEW a \in Attempts,
         \A b \in Attempts : b # a => (b \in T <=> b \in S)
  PROVE  Cardinality(T) + One(a \in S) = Cardinality(S) + One(a \in T)
<1>1. IsFiniteSet(S) /\ IsFiniteSet(T) /\ Cardinality(S) \in Nat /\ Cardinality(T) \in Nat
  BY SomeAttempts
<1>2. CASE a \in S <=> a \in T
  <2>1. S = T
    BY <1>2
  <2>2. QED
    BY <1>1, <2>1 DEF One
<1>3. CASE a \in T /\ a \notin S
  <2>1. T = S \cup {a}
    BY <1>3
  <2>2. Cardinality(T) = Cardinality(S) + 1
    BY <1>1, <1>3, <2>1, FS_AddElement
  <2>3. QED
    BY <1>1, <1>3, <2>2 DEF One
<1>4. CASE a \in S /\ a \notin T
  <2>1. S = T \cup {a}
    BY <1>4
  <2>2. Cardinality(S) = Cardinality(T) + 1
    BY <1>1, <1>4, <2>1, FS_AddElement
  <2>3. QED
    BY <1>1, <1>4, <2>2 DEF One
<1>5. QED
  BY <1>2, <1>3, <1>4

\* A step of one attempt, or of the queue for it.
LEMMA CopiesMove ==
  ASSUME TypeOK, TypeOK', CopiesInv, NEW a \in Attempts, CopiesStep(a),
         \A b \in Attempts : b # a => Same(b)
  PROVE  CopiesInv'
<1>1. \A b \in Attempts : b # a => /\ MainHolds(b)' <=> MainHolds(b)
                                   /\ ExecHolds(b)' <=> ExecHolds(b)
                                   /\ Outran(b)' <=> Outran(b)
  BY DEF Same, MainHolds, ExecHolds, Outran, At, Status
<1>2. /\ Mains \subseteq Attempts /\ Mains' \subseteq Attempts
      /\ Execs \subseteq Attempts /\ Execs' \subseteq Attempts
      /\ Overran \subseteq Attempts /\ Overran' \subseteq Attempts
  BY HoldersAre DEF Mains, Execs
<1>3. Cardinality(Mains') + One(MainHolds(a)) = Cardinality(Mains) + One(MainHolds(a)')
  <2>1. (a \in Mains <=> MainHolds(a)) /\ (a \in Mains' <=> MainHolds(a)')
    BY HoldersAre DEF Mains
  <2>2. \A b \in Attempts : b # a => (b \in Mains' <=> b \in Mains)
    BY <1>1, HoldersAre DEF Mains
  <2>3. QED
    BY <1>2, <2>1, <2>2, OneApart DEF One
<1>4. Cardinality(Execs') + One(ExecHolds(a)) = Cardinality(Execs) + One(ExecHolds(a)')
  <2>1. (a \in Execs <=> ExecHolds(a)) /\ (a \in Execs' <=> ExecHolds(a)')
    BY HoldersAre DEF Execs
  <2>2. \A b \in Attempts : b # a => (b \in Execs' <=> b \in Execs)
    BY <1>1, HoldersAre DEF Execs
  <2>3. QED
    BY <1>2, <2>1, <2>2, OneApart DEF One
<1>5. Cardinality(Overran') + One(Outran(a)) = Cardinality(Overran) + One(Outran(a)')
  <2>1. (a \in Overran <=> Outran(a)) /\ (a \in Overran' <=> Outran(a)')
    BY HoldersAre
  <2>2. \A b \in Attempts : b # a => (b \in Overran' <=> b \in Overran)
    BY <1>1, HoldersAre
  <2>3. QED
    BY <1>2, <2>1, <2>2, OneApart DEF One
<1>6. /\ Cardinality(Mains) \in Nat /\ Cardinality(Mains') \in Nat
      /\ Cardinality(Execs) \in Nat /\ Cardinality(Execs') \in Nat
      /\ Cardinality(Overran) \in Nat /\ Cardinality(Overran') \in Nat
      /\ queued \in Nat /\ queued' \in Nat
  BY <1>2, SomeAttempts, TypedIsTypeOK DEF Typed
<1>7. \A x : One(x) \in Nat
  BY DEF One
<1>8. PICK m \in Nat, n \in Nat, x \in Nat, y \in Nat, u \in Nat, v \in Nat :
        /\ m = One(MainHolds(a)) /\ n = One(MainHolds(a)')
        /\ x = One(ExecHolds(a)) /\ y = One(ExecHolds(a)')
        /\ u = One(Outran(a)) /\ v = One(Outran(a)')
  BY <1>7
<1>9. queued' + n + y + u <= queued + m + x + v
  BY <1>8 DEF CopiesStep
<1>10. /\ Cardinality(Mains') + m = Cardinality(Mains) + n
       /\ Cardinality(Execs') + x = Cardinality(Execs) + y
       /\ Cardinality(Overran') + u = Cardinality(Overran) + v
  BY <1>3, <1>4, <1>5, <1>8
<1>11. QED
  BY <1>6, <1>8, <1>9, <1>10 DEF CopiesInv

LEMMA CopiesInit == Init => CopiesInv
<1> SUFFICES ASSUME Init PROVE CopiesInv
  OBVIOUS
<1>1. \A a \in Attempts : At(a, "main") = "off" /\ At(a, "exec") = "off"
  BY DEF Init, At, Off, Threads
<1>2. Mains = {} /\ Execs = {} /\ Overran = {}
  BY <1>1 DEF Mains, MainHolds, Execs, ExecHolds, Overran, Marked
<1>3. QED
  BY <1>2, FS_EmptySet DEF Init, CopiesInv

LEMMA CopiesNext == TypeOK /\ TypeOK' /\ PhaseInv /\ CopiesInv /\ [Next]_vars => CopiesInv'
<1> SUFFICES ASSUME TypeOK, TypeOK', PhaseInv, CopiesInv, [Next]_vars PROVE CopiesInv'
  OBVIOUS
<1>0. queued \in Nat
  BY TypedIsTypeOK DEF Typed
<1>1. ASSUME NEW a \in Attempts, Main(a) \/ Exec(a) \/ Send(a) \/ TimeOut(a) PROVE CopiesInv'
  BY <1>0, <1>1, CopiesOwn, OthersSame, CopiesMove DEF PhaseInv
<1>2. CASE Receive
  <2>1. PICK a \in Attempts : Receives(a)
    BY <1>2, ReceivesA
  <2>2. CopiesStep(a)
    BY <1>0, <2>1 DEF Receives, CopiesStep, MainHolds, ExecHolds, Outran, One, Marked
  <2>3. QED
    BY <2>1, <2>2, CopiesMove DEF Receives
<1>3. CASE CancelGet \/ CancelSave \/ UNCHANGED vars
  <2>1. UNCHANGED <<queued, thread, task>>
    BY <1>3 DEF CancelGet, CancelSave, vars
  <2>2. UNCHANGED <<Mains, Execs, Overran>>
    BY <2>1 DEF Mains, MainHolds, Execs, ExecHolds, Overran, At, Status
  <2>3. QED
    BY <2>1, <2>2 DEF CopiesInv
<1>4. CASE ProcessDies
  <2>1. queued' = queued /\ \A a \in Attempts : Dies(a)
    BY <1>4, DiesEffect, DiesAll
  <2>2. \A a \in Attempts : ~MainHolds(a)' /\ ~ExecHolds(a)' /\ (Outran(a) => Outran(a)')
    BY <2>1 DEF Dies, MainHolds, ExecHolds, Outran, Marked, Status
  <2>3. Mains' = {} /\ Execs' = {} /\ Overran \subseteq Overran'
    BY <2>2, HoldersAre
  <2>4. Mains \subseteq Attempts /\ Execs \subseteq Attempts /\ Overran' \subseteq Attempts
    BY HoldersAre DEF Mains, Execs
  <2>5. /\ Cardinality(Mains) \in Nat /\ Cardinality(Execs) \in Nat
        /\ Cardinality(Overran) \in Nat /\ Cardinality(Overran') \in Nat
        /\ Cardinality(Overran) <= Cardinality(Overran')
    BY <2>3, <2>4, SomeAttempts, FS_Subset
  <2>6. Cardinality(Mains') = 0 /\ Cardinality(Execs') = 0
    BY <2>3, FS_EmptySet
  <2>7. QED
    BY <1>0, <2>1, <2>5, <2>6 DEF CopiesInv
<1>5. QED
  BY <1>1, <1>2, <1>3, <1>4, StepCases

\* The handler of a task never runs twice at once, nor while the task is queued,
\* but for one copy for each attempt that has passed its deadline.
THEOREM HandlerAloneCorrect == Spec => []HandlerAlone
<1>1. Init => TypeOK /\ PhaseInv /\ CopiesInv
  BY TypeInit, PhaseInit, CopiesInit
<1>2. TypeOK /\ PhaseInv /\ CopiesInv /\ [Next]_vars => (TypeOK /\ PhaseInv /\ CopiesInv)'
  BY TypeStep, PhaseStep, CopiesNext
<1>3. TypeOK /\ CopiesInv => HandlerAlone
  <2> SUFFICES ASSUME TypeOK, CopiesInv PROVE HandlerAlone
    OBVIOUS
  <2>1. Running \subseteq Execs
    BY DEF Running, Execs, ExecHolds
  <2>2. Mains \subseteq Attempts /\ Execs \subseteq Attempts /\ Overran \subseteq Attempts
        /\ Running \subseteq Attempts
    BY DEF Mains, Execs, Overran, Running
  <2>3. /\ Cardinality(Mains) \in Nat /\ Cardinality(Overran) \in Nat
        /\ Cardinality(Running) \in Nat /\ Cardinality(Execs) \in Nat
        /\ Cardinality(Running) <= Cardinality(Execs)
    BY <2>1, <2>2, SomeAttempts, FS_Subset
  <2>4. queued \in Nat
    BY TypedIsTypeOK DEF Typed
  <2>5. QED
    BY <2>3, <2>4 DEF CopiesInv, HandlerAlone
<1>4. QED
  BY <1>1, <1>2, <1>3, PTL DEF Spec

-----------------------------------------------------------------------------
(* The retries.                                                            *)

Spent == Cardinality(Ran)

\* main starts the handler.
Begins(a) == At(a, "main") = "start" /\ At(a, "main")' = "select"

HasRun(a) == At(a, "exec") = "handler" \/ outcome[a] # "none"

RunsOnce(a) ==
  /\ Begins(a) => ~HasRun(a) /\ HasRun(a)'
  /\ ~Begins(a) => (HasRun(a)' <=> HasRun(a))
LEMMA HasRunOwn ==
  ASSUME TypeOK, NEW a \in Attempts, PhaseOf(a),
         Main(a) \/ Exec(a) \/ Send(a) \/ TimeOut(a)
  PROVE  RunsOnce(a)
<1> USE DEF Goes, Gets, Keeps, BothGet, Status, MainPlaces, ExecPlaces, Marked,
           Begins, PhaseOf, HasRun, RunsOnce
<1>1. CASE Begin(a)
  BY <1>1, BeginEffect DEF SetTask
<1>2. CASE SaveProcessing(a)
  BY <1>2, SaveProcessingEffect
<1>3. CASE Start(a)
  BY <1>3, StartEffect
<1>4. CASE LeaveHandleTask(a)
  BY <1>4, LeaveHandleTaskEffect
<1>5. CASE FireEvents(a) \/ EventError(a)
  BY <1>5, FireEventsEffect, EventErrorEffect
<1>6. ASSUME NEW o \in Outcomes, HandlerEnds(a, o) PROVE RunsOnce(a)
  BY <1>6, HandlerEndsEffect DEF SetAt, ResultOf
<1>7. CASE HandlerHangs(a)
  BY <1>7, HandlerHangsEffect DEF SetAt
<1>8. CASE ChainReturns(a)
  BY <1>8, ChainReturnsEffect DEF SetAt
<1>9. CASE ReadContext(a)
  BY <1>9, ReadContextEffect DEF SetAt, ContextError
<1>10. CASE Send(a)
  BY <1>10, SendEffect
<1>11. CASE TimeOut(a)
  BY <1>11, TimeOutEffect DEF SetAt
<1>12. ASSUME NEW h \in Threads, HandleError(a, h) PROVE RunsOnce(a)
  <2> USE DEF Left, Threads
  <2>1. CASE Check(a, h)
    BY <2>1, CheckEffect
  <2>2. CASE Mark(a, h)
    BY <2>2, MarkEffect DEF SetTask, Final
  <2>3. CASE TestRetries(a, h)
    BY <2>3, TestEffect
  <2>4. CASE DecRetries(a, h)
    BY <2>4, DecEffect DEF SetTask
  <2>5. CASE PublishRetry(a, h)
    BY <2>5, PublishEffect
  <2>6. CASE SaveResult(a, h)
    BY <2>6, SaveEffect
  <2>7. QED
    BY <1>12, <2>1, <2>2, <2>3, <2>4, <2>5, <2>6 DEF HandleError
<1>13. QED
  BY <1>1, <1>2, <1>3, <1>4, <1>5, <1>6, <1>7, <1>8, <1>9, <1>10, <1>11, <1>12
  DEF Main, Exec, Threads

LEMMA RanFinite == Ran = {a \in Attempts : HasRun(a)} /\ IsFiniteSet(Ran) /\ Spent \in Nat
<1>1. Ran = {a \in Attempts : HasRun(a)}
  BY DEF Ran, HasRun
<1>2. IsFiniteSet(Attempts)
  BY FS_Interval DEF Attempts
<1>3. IsFiniteSet(Ran)
  BY <1>1, <1>2, FS_Subset
<1>4. QED
  BY <1>1, <1>3, FS_CardinalityType DEF Spent

LEMMA RanFinite2 == Ran' = {a \in Attempts : HasRun(a)'} /\ IsFiniteSet(Ran') /\ Spent' \in Nat
<1>1. Ran' = {a \in Attempts : HasRun(a)'}
  BY DEF Ran, HasRun
<1>2. IsFiniteSet(Attempts)
  BY FS_Interval DEF Attempts
<1>3. IsFiniteSet(Ran')
  BY <1>1, <1>2, FS_Subset
<1>4. QED
  BY <1>1, <1>3, FS_CardinalityType DEF Spent

LEMMA SpentOwn ==
  ASSUME TypeOK, PhaseInv, NEW a \in Attempts,
         Main(a) \/ Exec(a) \/ Send(a) \/ TimeOut(a)
  PROVE  /\ Begins(a) => Spent' = Spent + 1
         /\ ~Begins(a) => Spent' = Spent
<1>1. \A b \in Attempts : b # a => (HasRun(b)' <=> HasRun(b))
  BY OthersSame DEF Same, HasRun, At
<1>2. RunsOnce(a)
  BY HasRunOwn DEF PhaseInv
<1>3. CASE ~Begins(a)
  <2>1. Ran' = Ran
    BY <1>1, <1>2, <1>3, RanFinite, RanFinite2 DEF RunsOnce
  <2>2. QED
    BY <1>3, <2>1 DEF Spent
<1>4. CASE Begins(a)
  <2>1. Ran' = Ran \cup {a} /\ a \notin Ran
    BY <1>1, <1>2, <1>4, RanFinite, RanFinite2 DEF RunsOnce
  <2>2. QED
    BY <1>4, <2>1, RanFinite, FS_AddElement DEF Spent
<1>5. QED
  BY <1>3, <1>4

\* A step of the system that is no step of an attempt runs no handler.
LEMMA SpentSame ==
  ASSUME TypeOK, PhaseInv, Receive \/ CancelGet \/ CancelSave \/ UNCHANGED vars
  PROVE  Spent' = Spent
<1>1. CASE Receive
  <2>1. PICK a \in Attempts : Receives(a)
    BY <1>1, ReceivesA
  <2>2. \A b \in Attempts : HasRun(b)' <=> HasRun(b)
    BY <2>1 DEF Receives, Same, HasRun, At
  <2>3. Ran' = Ran
    BY <2>2, RanFinite, RanFinite2
  <2>4. QED
    BY <2>3 DEF Spent
<1>2. CASE CancelGet \/ CancelSave \/ UNCHANGED vars
  <2>1. UNCHANGED <<thread, outcome>>
    BY <1>2 DEF CancelGet, CancelSave, vars
  <2>2. Ran' = Ran
    BY <2>1 DEF Ran, At
  <2>3. QED
    BY <2>2 DEF Spent
<1>3. QED
  BY <1>1, <1>2

LEMMA SpentDies ==
  ASSUME TypeOK, ProcessDies
  PROVE  Spent' <= Spent
<1>1. \A b \in Attempts : HasRun(b)' => HasRun(b)
  BY DiesAll DEF Dies, HasRun
<1>2. Ran' \subseteq Ran
  BY <1>1, RanFinite, RanFinite2
<1>3. QED
  BY <1>2, RanFinite, FS_Subset DEF Spent

\* An attempt that has not started its handler leaves a run over for it, and
\* so does one that is about to publish.
Ahead(a) ==
  At(a, "main") \in {"begin", "processing", "start", "publish"} \/ At(a, "exec") = "publish"

Over(a) == At(a, "main") = "begin" /\ Status(a) = "canceled"

\* What n runs leave to an attempt, and to the queue.
LeavesTo(a, n) ==
  /\ Carrier(a) => task[a].retries >= 0
  /\ Carrier(a) => Over(a) \/ n + task[a].retries <= (IF Ahead(a) THEN MaxRetries ELSE MaxRetries + 1)
  /\ At(a, "main") = "dec" => thread[a]["main"].retries = task[a].retries /\ task[a].retries # 0
  /\ At(a, "exec") = "dec" => thread[a]["exec"].retries = task[a].retries /\ task[a].retries # 0

LeavesQueue(n) ==
  /\ n <= MaxRetries + 1
  /\ store.hash.retries >= 0 /\ cancel.read.retries >= 0
  /\ queued = 1 => store.hash.status = "canceled" \/ n + store.hash.retries <= MaxRetries

BudgetInv == LeavesQueue(Spent) /\ \A a \in Attempts : LeavesTo(a, Spent)
LEMMA LeavesOwn ==
  ASSUME TypeOK, NEW a \in Attempts, ~Timeouts, PhaseOf(a), OneOf(a),
         queued \in {0, 1}, Carrier(a) => queued = 0,
         task[a].retries \in Int, store.hash.retries \in Int,
         NEW n \in Nat, NEW k \in Nat, k = n \/ (Begins(a) /\ k = n + 1),
         LeavesTo(a, n), LeavesQueue(n),
         Main(a) \/ Exec(a) \/ Send(a) \/ TimeOut(a)
  PROVE  LeavesTo(a, k)' /\ LeavesQueue(k)'
<1> USE DEF Goes, Gets, Keeps, BothGet, Status, MainPlaces, ExecPlaces, Marked,
           Begins,
           PhaseOf, OneOf, Carrier, LeavesTo, LeavesQueue, Ahead, Over, Save, Stored
<1>1. CASE Begin(a)
  BY <1>1, BeginEffect DEF SetTask
<1>2. CASE SaveProcessing(a)
  BY <1>2, SaveProcessingEffect
<1>3. CASE Start(a)
  BY <1>3, StartEffect
<1>4. CASE LeaveHandleTask(a)
  BY <1>4, LeaveHandleTaskEffect
<1>5. CASE FireEvents(a) \/ EventError(a)
  BY <1>5, FireEventsEffect, EventErrorEffect
<1>6. ASSUME NEW o \in Outcomes, HandlerEnds(a, o) PROVE LeavesTo(a, k)' /\ LeavesQueue(k)'
  BY <1>6, HandlerEndsEffect DEF SetAt, ResultOf
<1>7. CASE HandlerHangs(a)
  BY <1>7, HandlerHangsEffect DEF SetAt
<1>8. CASE ChainReturns(a)
  BY <1>8, ChainReturnsEffect DEF SetAt
<1>9. CASE ReadContext(a)
  BY <1>9, ReadContextEffect DEF SetAt, ContextError
<1>10. CASE Send(a)
  BY <1>10, SendEffect
<1>11. CASE TimeOut(a)
  BY <1>11, TimeOutEffect DEF SetAt
<1>12. ASSUME NEW h \in Threads, HandleError(a, h) PROVE LeavesTo(a, k)' /\ LeavesQueue(k)'
  <2> USE DEF Left, Threads
  <2>1. CASE Check(a, h)
    BY <2>1, CheckEffect
  <2>2. CASE Mark(a, h)
    BY <2>2, MarkEffect DEF SetTask, Final
  <2>3. CASE TestRetries(a, h)
    BY <2>3, TestEffect
  <2>4. CASE DecRetries(a, h)
    BY <2>4, DecEffect DEF SetTask
  <2>5. CASE PublishRetry(a, h)
    <3>1. At(a, h) = "publish" /\ UNCHANGED <<task, cancel>>
      BY <2>5, PublishEffect
    <3>2. Carrier(a) /\ Ahead(a) /\ ~Over(a) /\ queued = 0 /\ k = n
      BY <3>1
    <3>3. task[a].retries >= 0 /\ n + task[a].retries <= MaxRetries
      BY <3>2
    <3>4. At(a, "main")' \notin {"dec"} /\ At(a, "exec")' # "dec" /\ ~Carrier(a)'
      <4>1. CASE h = "main"
        BY <2>5, <4>1, PublishEffect
      <4>2. CASE h = "exec"
        BY <2>5, <4>2, PublishEffect
      <4>3. QED
        BY <4>1, <4>2
    <3>5. CASE UNCHANGED <<store, queued>>
      BY <3>1, <3>2, <3>4, <3>5
    <3>6. CASE store'.hash = Stored(task[a])
      BY <3>1, <3>2, <3>3, <3>4, <3>6
    <3>7. QED
      BY <2>5, <3>5, <3>6, PublishEffect
  <2>6. CASE SaveResult(a, h)
    BY <2>6, SaveEffect
  <2>7. QED
    BY <1>12, <2>1, <2>2, <2>3, <2>4, <2>5, <2>6 DEF HandleError
<1>13. QED
  BY <1>1, <1>2, <1>3, <1>4, <1>5, <1>6, <1>7, <1>8, <1>9, <1>10, <1>11, <1>12
  DEF Main, Exec, Threads

LEMMA BudgetInit == Init => BudgetInv
<1> SUFFICES ASSUME Init PROVE BudgetInv
  OBVIOUS
<1>1. \A a \in Attempts : ~HasRun(a)
  BY DEF Init, HasRun, At, Off, Threads
<1>2. Ran = {}
  BY <1>1, RanFinite
<1>3. Spent = 0
  BY <1>2, FS_EmptySet DEF Spent
<1>4. LeavesQueue(0)
  BY DEF Init, LeavesQueue, NoHash
<1>5. \A a \in Attempts : LeavesTo(a, 0)
  BY DEF Init, LeavesTo, Carrier, At, Off, Marked, Threads
<1>6. QED
  BY <1>3, <1>4, <1>5 DEF BudgetInv

LEMMA BudgetStep ==
  ~Timeouts /\ TypeOK /\ PhaseInv /\ OneInv /\ AloneInv /\ BudgetInv /\ [Next]_vars => BudgetInv'
<1> SUFFICES ASSUME ~Timeouts, TypeOK, PhaseInv, OneInv, AloneInv, BudgetInv, [Next]_vars
             PROVE  BudgetInv'
  OBVIOUS
<1>0. /\ queued \in {0, 1} /\ store.hash.retries \in Int
      /\ \A a \in Attempts : task[a].retries \in Int
      /\ Spent \in Nat /\ Spent' \in Nat
  BY TypedIsTypeOK, RanFinite, RanFinite2 DEF Typed, Hashes, TaskRecords, AloneInv
<1>1. ASSUME NEW a \in Attempts, Main(a) \/ Exec(a) \/ Send(a) \/ TimeOut(a) PROVE BudgetInv'
  <2>1. PICK n \in Nat : n = Spent
    BY <1>0
  <2>2. PICK k \in Nat : k = Spent'
    BY <1>0
  <2>3. k = n \/ (Begins(a) /\ k = n + 1)
    BY <1>1, <2>1, <2>2, SpentOwn
  <2>4. LeavesTo(a, n) /\ LeavesQueue(n)
    BY <2>1 DEF BudgetInv
  <2>5. PhaseOf(a) /\ OneOf(a) /\ (Carrier(a) => queued = 0)
    BY DEF PhaseInv, OneInv, AloneInv
  <2>6. LeavesTo(a, k)' /\ LeavesQueue(k)'
    BY <1>0, <1>1, <2>3, <2>4, <2>5, LeavesOwn
  <2>7. ASSUME NEW b \in Attempts, b # a PROVE LeavesTo(b, k)'
    <3>1. Same(b) /\ LeavesTo(b, n)
      BY <1>1, <2>1, <2>7, OthersSame DEF BudgetInv
    <3>2. Begins(a) => Carrier(a)
      BY DEF Begins, Carrier
    <3>3. CASE k = n
      BY <3>1, <3>3, SameCarrier DEF Same, LeavesTo, Over, Ahead, At, Status
    <3>4. CASE Begins(a)
      <4>1. ~Carrier(b) /\ ~Carrier(b)'
        BY <2>7, <3>1, <3>2, <3>4, SameCarrier DEF AloneInv
      <4>2. QED
        BY <3>1, <4>1 DEF Same, LeavesTo, At
    <3>5. QED
      BY <2>3, <3>3, <3>4
  <2>8. LeavesQueue(Spent)' /\ \A b \in Attempts : LeavesTo(b, Spent)'
    BY <2>2, <2>6, <2>7 DEF LeavesQueue, LeavesTo
  <2>9. QED
    BY <2>8 DEF BudgetInv
<1>2. CASE Receive
  <2>1. PICK a \in Attempts : Receives(a)
    BY <1>2, ReceivesA
  <2>2. Spent' = Spent
    BY <1>2, SpentSame
  <2>3. LeavesQueue(Spent)'
    BY <1>0, <2>1, <2>2 DEF BudgetInv, LeavesQueue, Receives
  <2>4. LeavesTo(a, Spent)'
    <3>1. store.hash.retries >= 0
          /\ (store.hash.status = "canceled" \/ Spent + store.hash.retries <= MaxRetries)
      BY <1>0, <2>1 DEF BudgetInv, LeavesQueue, Receives
    <3>2. At(a, "main")' = "begin" /\ At(a, "exec")' = "off"
      BY <2>1 DEF Receives
    <3>3. task'[a].status = store.hash.status /\ task'[a].retries = store.hash.retries
      BY <2>1 DEF Receives
    <3>4. QED
      BY <2>2, <3>1, <3>2, <3>3 DEF LeavesTo, Over, Ahead, Status
  <2>5. ASSUME NEW b \in Attempts, b # a PROVE LeavesTo(b, Spent)'
    <3>1. Same(b) /\ LeavesTo(b, Spent)
      BY <2>1, <2>5 DEF BudgetInv, Receives
    <3>2. QED
      BY <2>2, <3>1, SameCarrier DEF Same, LeavesTo, Over, Ahead, At, Status
  <2>6. QED
    BY <2>3, <2>4, <2>5 DEF BudgetInv
<1>3. CASE CancelGet \/ CancelSave \/ UNCHANGED vars
  <2>1. UNCHANGED <<queued, thread, task>>
    BY <1>3 DEF CancelGet, CancelSave, vars
  <2>2. Spent' = Spent
    BY <1>3, SpentSame
  <2>3. \A a \in Attempts : LeavesTo(a, Spent)'
    BY <2>1, <2>2 DEF BudgetInv, LeavesTo, Carrier, Over, Ahead, At, Status
  <2>4. LeavesQueue(Spent)'
    <3>1. LeavesQueue(Spent)
      BY DEF BudgetInv
    <3>2. CASE CancelGet
      BY <2>1, <2>2, <3>1, <3>2 DEF CancelGet, LeavesQueue
    <3>3. CASE CancelSave
      <4>1. store'.hash.status = "canceled" /\ store'.hash.retries = cancel.read.retries
        BY <3>3 DEF CancelSave, Save, Stored, Loaded
      <4>2. cancel'.read.retries >= 0
        BY <3>3, TypedIsTypeOK DEF CancelSave, NoHash, Typed
      <4>3. QED
        BY <2>2, <3>1, <4>1, <4>2 DEF LeavesQueue
    <3>4. CASE UNCHANGED vars
      BY <2>2, <3>1, <3>4 DEF vars, LeavesQueue
    <3>5. QED
      BY <1>3, <3>2, <3>3, <3>4
  <2>5. QED
    BY <2>3, <2>4 DEF BudgetInv
<1>4. CASE ProcessDies
  <2>1. UNCHANGED <<store, queued, cancel>> /\ \A a \in Attempts : Dies(a)
    BY <1>4, DiesEffect, DiesAll
  <2>2. Spent' <= Spent
    BY <1>4, SpentDies
  <2>3. LeavesQueue(Spent)'
    BY <1>0, <2>1, <2>2 DEF BudgetInv, LeavesQueue
  <2>4. \A a \in Attempts : LeavesTo(a, Spent)'
    BY <2>1, DiesNoCarrier DEF LeavesTo, Dies
  <2>5. QED
    BY <2>3, <2>4 DEF BudgetInv
<1>5. QED
  BY <1>1, <1>2, <1>3, <1>4, StepCases

\* The handler runs at most once more than the task has retries, as long as no
\* deadline passes: README.md:283.
THEOREM RetryBudgetCorrect == ASSUME ~Timeouts PROVE Spec => []RetryBudget
<1>1. Init => TypeOK /\ PhaseInv /\ OneInv /\ AloneInv /\ BudgetInv
  BY TypeInit, PhaseInit, OneInit, AloneInit, BudgetInit
<1>2. TypeOK /\ PhaseInv /\ OneInv /\ AloneInv /\ BudgetInv /\ [Next]_vars
        => (TypeOK /\ PhaseInv /\ OneInv /\ AloneInv /\ BudgetInv)'
  BY TypeStep, PhaseStep, OneStep, AloneStep, BudgetStep
<1>3. BudgetInv => RetryBudget
  BY DEF BudgetInv, LeavesQueue, Spent, RetryBudget
<1>4. QED
  BY <1>1, <1>2, <1>3, PTL DEF Spec

-----------------------------------------------------------------------------
(* Success.                                                                *)

\* Recoverer comes first, and a handler that panics is not left behind.
Recovered == Recoverer = "first" /\ (~Timeouts \/ "panic" \notin Outcomes)

Real == \E a \in Attempts : outcome[a] = "ok"

\* A nil error is a handler's, unless handleError has done its work or
\* Recoverer has yet to be asked; r says whether a handler returned nil.
Sure(a, r) == r \/ Status(a) # "processing"

RealOf(a, r) ==
  /\ At(a, "exec") # "unwind"
  /\ At(a, "main") = "timedout" => Timeouts
  /\ At(a, "exec") \in {"check", "mark"} /\ thread[a]["exec"].err = "nil" => r
  /\ At(a, "exec") = "return" /\ thread[a]["exec"].err = "nil" => Sure(a, r) \/ outcome[a] = "panic"
  /\ At(a, "exec") = "context" /\ err[a] = "nil" => Sure(a, r) \/ outcome[a] = "panic"
  /\ At(a, "exec") = "send" /\ err[a] = "nil" => Sure(a, r)
  /\ At(a, "main") = "timedout" /\ err[a] = "nil" => Sure(a, r)
  /\ At(a, "main") = "check" /\ thread[a]["main"].err = "nil" => Sure(a, r)
  /\ At(a, "main") = "mark" /\ thread[a]["main"].err = "nil" => r
  /\ Status(a) = "succeeded" => r

StoreReal(r) == store.hash.status = "succeeded" => r

RealInv == StoreReal(Real) /\ \A a \in Attempts : RealOf(a, Real)
\* What a handler did is not forgotten.
LEMMA OutcomeOwn ==
  ASSUME TypeOK, NEW a \in Attempts, PhaseOf(a),
         Main(a) \/ Exec(a) \/ Send(a) \/ TimeOut(a)
  PROVE  outcome[a] = "none" \/ outcome'[a] = outcome[a]
<1> USE DEF PhaseOf
<1>1. CASE Begin(a)
  BY <1>1, BeginEffect DEF SetTask
<1>2. CASE SaveProcessing(a)
  BY <1>2, SaveProcessingEffect
<1>3. CASE Start(a)
  BY <1>3, StartEffect
<1>4. CASE LeaveHandleTask(a)
  BY <1>4, LeaveHandleTaskEffect
<1>5. CASE FireEvents(a) \/ EventError(a)
  BY <1>5, FireEventsEffect, EventErrorEffect
<1>6. ASSUME NEW o \in Outcomes, HandlerEnds(a, o) PROVE outcome[a] = "none" \/ outcome'[a] = outcome[a]
  BY <1>6, HandlerEndsEffect DEF SetAt, ResultOf
<1>7. CASE HandlerHangs(a)
  BY <1>7, HandlerHangsEffect DEF SetAt
<1>8. CASE ChainReturns(a)
  BY <1>8, ChainReturnsEffect DEF SetAt
<1>9. CASE ReadContext(a)
  BY <1>9, ReadContextEffect DEF SetAt, ContextError
<1>10. CASE Send(a)
  BY <1>10, SendEffect
<1>11. CASE TimeOut(a)
  BY <1>11, TimeOutEffect DEF SetAt
<1>12. ASSUME NEW h \in Threads, HandleError(a, h) PROVE outcome[a] = "none" \/ outcome'[a] = outcome[a]
  <2> USE DEF Left, Threads
  <2>1. CASE Check(a, h)
    BY <2>1, CheckEffect
  <2>2. CASE Mark(a, h)
    BY <2>2, MarkEffect DEF SetTask, Final
  <2>3. CASE TestRetries(a, h)
    BY <2>3, TestEffect
  <2>4. CASE DecRetries(a, h)
    BY <2>4, DecEffect DEF SetTask
  <2>5. CASE PublishRetry(a, h)
    BY <2>5, PublishEffect
  <2>6. CASE SaveResult(a, h)
    BY <2>6, SaveEffect
  <2>7. QED
    BY <1>12, <2>1, <2>2, <2>3, <2>4, <2>5, <2>6 DEF HandleError
<1>13. QED
  BY <1>1, <1>2, <1>3, <1>4, <1>5, <1>6, <1>7, <1>8, <1>9, <1>10, <1>11, <1>12
  DEF Main, Exec, Threads

LEMMA RealOwn ==
  ASSUME TypeOK, NEW a \in Attempts, Recovered, PhaseOf(a), outcome[a] = "panic" => ~Timeouts,
         NEW r \in BOOLEAN, NEW q \in BOOLEAN, r => q, outcome'[a] = "ok" => q,
         RealOf(a, r), StoreReal(r),
         Main(a) \/ Exec(a) \/ Send(a) \/ TimeOut(a)
  PROVE  RealOf(a, q)' /\ StoreReal(q)'
<1> USE DEF Goes, Gets, Keeps, BothGet, Status, MainPlaces, ExecPlaces, Marked,
           PhaseOf, RealOf, StoreReal, Sure, Recovered, Save, Stored
<1>1. CASE Begin(a)
  BY <1>1, BeginEffect DEF SetTask
<1>2. CASE SaveProcessing(a)
  BY <1>2, SaveProcessingEffect
<1>3. CASE Start(a)
  BY <1>3, StartEffect
<1>4. CASE LeaveHandleTask(a)
  BY <1>4, LeaveHandleTaskEffect
<1>5. CASE FireEvents(a) \/ EventError(a)
  BY <1>5, FireEventsEffect, EventErrorEffect
<1>6. ASSUME NEW o \in Outcomes, HandlerEnds(a, o) PROVE RealOf(a, q)' /\ StoreReal(q)'
  BY <1>6, HandlerEndsEffect DEF SetAt, ResultOf
<1>7. CASE HandlerHangs(a)
  BY <1>7, HandlerHangsEffect DEF SetAt
<1>8. CASE ChainReturns(a)
  BY <1>8, ChainReturnsEffect DEF SetAt
<1>9. CASE ReadContext(a)
  BY <1>9, ReadContextEffect DEF SetAt, ContextError
<1>10. CASE Send(a)
  BY <1>10, SendEffect
<1>11. CASE TimeOut(a)
  BY <1>11, TimeOutEffect DEF SetAt
<1>12. ASSUME NEW h \in Threads, HandleError(a, h) PROVE RealOf(a, q)' /\ StoreReal(q)'
  <2> USE DEF Left, Threads
  <2>1. CASE Check(a, h)
    BY <2>1, CheckEffect
  <2>2. CASE Mark(a, h)
    BY <2>2, MarkEffect DEF SetTask, Final
  <2>3. CASE TestRetries(a, h)
    BY <2>3, TestEffect
  <2>4. CASE DecRetries(a, h)
    BY <2>4, DecEffect DEF SetTask
  <2>5. CASE PublishRetry(a, h)
    <3>1. At(a, h) = "publish" /\ UNCHANGED <<task, outcome, err>>
          /\ (Left(a, h, "nil") \/ Left(a, h, "error"))
      BY <2>5, PublishEffect
    <3>2. RealOf(a, q)'
      BY <3>1
    <3>3. UNCHANGED store \/ store'.hash = Stored(task[a])
      BY <2>5, PublishEffect
    <3>4. StoreReal(q)'
      BY <3>3
    <3>5. QED
      BY <3>2, <3>4
  <2>6. CASE SaveResult(a, h)
    BY <2>6, SaveEffect
  <2>7. QED
    BY <1>12, <2>1, <2>2, <2>3, <2>4, <2>5, <2>6 DEF HandleError
<1>13. QED
  BY <1>1, <1>2, <1>3, <1>4, <1>5, <1>6, <1>7, <1>8, <1>9, <1>10, <1>11, <1>12
  DEF Main, Exec, Threads

LEMMA RealInit == Init => RealInv
BY DEF Init, RealInv, RealOf, StoreReal, At, Off, Status, Loaded, Threads

LEMMA RealStep == Recovered /\ TypeOK /\ PhaseInv /\ RealInv /\ [Next]_vars => RealInv'
<1> SUFFICES ASSUME Recovered, TypeOK, PhaseInv, RealInv, [Next]_vars PROVE RealInv'
  OBVIOUS
<1>0. Real \in BOOLEAN /\ Real' \in BOOLEAN
  BY DEF Real
<1>1. ASSUME NEW a \in Attempts, Main(a) \/ Exec(a) \/ Send(a) \/ TimeOut(a) PROVE RealInv'
  <2>1. PICK r \in BOOLEAN : r <=> Real
    BY <1>0
  <2>2. PICK q \in BOOLEAN : q <=> Real'
    BY <1>0
  <2>3. outcome[a] = "panic" => ~Timeouts
    BY TypedIsTypeOK DEF Typed, Recovered
  <2>4. PhaseOf(a)
    BY DEF PhaseInv
  <2>5. r => q
    <3>1. outcome[a] = "none" \/ outcome'[a] = outcome[a]
      BY <1>1, OutcomeOwn DEF PhaseInv
    <3>2. \A b \in Attempts : b # a => outcome'[b] = outcome[b]
      BY <1>1, OthersSame DEF Same
    <3>3. Real => Real'
      BY <3>1, <3>2 DEF Real
    <3>4. QED
      BY <2>1, <2>2, <3>3
  <2>6. outcome'[a] = "ok" => q
    BY <2>2 DEF Real
  <2>7. RealOf(a, r) /\ StoreReal(r)
    BY <2>1 DEF RealInv, RealOf, StoreReal, Sure
  <2>8. RealOf(a, q)' /\ StoreReal(q)'
    BY <1>1, <2>3, <2>4, <2>5, <2>6, <2>7, RealOwn
  <2>9. ASSUME NEW b \in Attempts, b # a PROVE RealOf(b, q)'
    BY <1>1, <2>1, <2>5, <2>9, OthersSame DEF RealInv, RealOf, Sure, Same, At, Status
  <2>10. QED
    BY <2>2, <2>8, <2>9 DEF RealInv, RealOf, StoreReal, Sure
<1>2. CASE Receive
  <2>1. PICK a \in Attempts : Receives(a)
    BY <1>2, ReceivesA
  <2>2. Real' <=> Real
    BY <2>1 DEF Receives, Real
  <2>3. StoreReal(Real)' /\ RealOf(a, Real)'
    BY <2>1, <2>2 DEF Receives, RealInv, RealOf, StoreReal, Sure, Status
  <2>4. ASSUME NEW b \in Attempts, b # a PROVE RealOf(b, Real)'
    BY <2>1, <2>2, <2>4 DEF Receives, RealInv, RealOf, Sure, Same, At, Status
  <2>5. QED
    BY <2>3, <2>4 DEF RealInv
<1>3. CASE CancelGet \/ CancelSave \/ UNCHANGED vars
  <2>1. UNCHANGED <<task, thread, outcome, err>>
    BY <1>3 DEF CancelGet, CancelSave, vars
  <2>2. store'.hash.status = "canceled" \/ UNCHANGED store
    BY <1>3 DEF CancelGet, CancelSave, vars, Save, Stored, Loaded
  <2>3. StoreReal(Real)'
    BY <2>1, <2>2 DEF RealInv, StoreReal, Real
  <2>4. \A a \in Attempts : RealOf(a, Real)'
    BY <2>1 DEF RealInv, RealOf, Sure, At, Status, Real
  <2>5. QED
    BY <2>3, <2>4 DEF RealInv
<1>4. CASE ProcessDies
  <2>1. UNCHANGED <<store, outcome, task, err>> /\ \A a \in Attempts : Dies(a)
    BY <1>4, DiesEffect, DiesAll
  <2>2. Real' <=> Real
    BY <2>1 DEF Real
  <2>3. StoreReal(Real)' /\ \A a \in Attempts : RealOf(a, Real)'
    BY <2>1, <2>2 DEF RealInv, RealOf, StoreReal, Dies, Status
  <2>4. QED
    BY <2>3 DEF RealInv
<1>5. QED
  BY <1>1, <1>2, <1>3, <1>4, StepCases

\* A task is saved as succeeded only when a handler returned nil, whatever
\* fails or is canceled: docs/a-tour-of-bokchoy.md:371.
THEOREM SuccessIsRealCorrect == ASSUME Recovered PROVE Spec => []SuccessIsReal
<1>1. Init => TypeOK /\ PhaseInv /\ RealInv
  BY TypeInit, PhaseInit, RealInit
<1>2. TypeOK /\ PhaseInv /\ RealInv /\ [Next]_vars => (TypeOK /\ PhaseInv /\ RealInv)'
  BY TypeStep, PhaseStep, RealStep
<1>3. RealInv => SuccessIsReal
  BY DEF RealInv, StoreReal, Real, SuccessIsReal
<1>4. QED
  BY <1>1, <1>2, <1>3, PTL DEF Spec

-----------------------------------------------------------------------------
(* The success event, whatever fails or is canceled.                       *)

NoCarrier == \A a \in Attempts : ~Carrier(a)

Success(a) == "success" \in ToSet(events[a])

\* The broker holds the task in one of these states, unless it was canceled.
StoredIn(states) ==
  store.hash.status \in states \/ (store.hash.status = "canceled" /\ cancel.calls # 0)

\* The first handleError of the attempt has reported that it could not save, or
\* no success event will follow; f says whether there was one.
Unsaved(a, f) ==
  \/ At(a, "exec") = "return" /\ thread[a]["exec"].err # "nil"
  \/ At(a, "exec") # "return" /\ err[a] # "nil"
  \/ At(a, "main") \in {"done", "dead"} /\ ~f

WinOf(a, f) ==
  /\ Carrier(a) => a = attempts /\ ~f
  /\ Carrier(a) /\ Status(a) = "succeeded" => At(a, "main") = "save" \/ At(a, "exec") = "save"
  /\ Carrier(a) /\ At(a, "main") \notin {"begin", "processing"} => StoredIn({"processing"})
  /\ Status(a) = "succeeded" /\ ~Carrier(a) =>
       /\ a = attempts /\ StoredIn({"succeeded", "processing"})
       /\ store.hash.status = "processing" => Unsaved(a, f)
  /\ f => /\ Status(a) = "succeeded" /\ At(a, "main") \in {"done", "dead"}
          /\ store.hash.status = "processing" => err[a] # "nil"

\* An attempt that has succeeded leaves no copy behind.
WonOf(a) == Status(a) = "succeeded" /\ ~Carrier(a) => queued = 0 /\ NoCarrier

WinInv ==
  /\ queued # 0 => store.hash.status # "succeeded"
  /\ cancel.read # NoHash => cancel.calls # 0
  /\ \A a \in Attempts : WinOf(a, Success(a)) /\ WonOf(a)

\* Only the last events of an attempt have a success among them.
FiresStep(a) ==
  /\ Success(a)' => \/ Success(a)
                    \/ /\ Status(a) = "succeeded"
                       /\ At(a, "main") = "events" /\ At(a, "main")' = "done"
  /\ \A b \in Attempts : b # a => events'[b] = events[b]

LEMMA SuccessFired ==
  ASSUME TypeOK, NEW a \in Attempts, NEW n \in 0..Len(Fired(task[a])), Fire(a, n)
  PROVE  /\ Success(a)' => Success(a) \/ Status(a) = "succeeded"
         /\ \A b \in Attempts : b # a => events'[b] = events[b]
<1> DEFINE f == Fired(task[a])
           e == SubSeq(f, 1, n)
<1>1. events \in [Attempts -> Seq(EventNames)] /\ task[a] \in TaskRecords
  BY TypedIsTypeOK DEF Typed
<1>2. f \in Seq(EventNames)
  BY <1>1, FiredType
<1>3. e \in Seq(EventNames) /\ \A i \in 1..Len(e) : i \in 1..Len(f) /\ e[i] = f[i]
  BY <1>2
<1>4. events'[a] = events[a] \o e /\ \A b \in Attempts : b # a => events'[b] = events[b]
  BY <1>1 DEF Fire
<1>5. Status(a) # "succeeded" => \A i \in 1..Len(f) : f[i] # "success"
  BY <1>1, FiredNoSuccess DEF Status
<1> HIDE DEF e, f
<1>6. ASSUME "success" \in ToSet(events[a] \o e), Status(a) # "succeeded"
      PROVE  "success" \in ToSet(events[a])
  <2>1. events[a] \in Seq(EventNames)
    BY <1>1
  <2>2. PICK i \in 1..Len(events[a] \o e) : (events[a] \o e)[i] = "success"
    BY <1>3, <1>6, <2>1 DEF ToSet
  <2>3. CASE i <= Len(events[a])
    <3>1. (events[a] \o e)[i] = events[a][i] /\ i \in 1..Len(events[a])
      BY <1>3, <2>1, <2>2, <2>3
    <3>2. QED
      BY <2>1, <2>2, <3>1 DEF ToSet
  <2>4. CASE i > Len(events[a])
    <3>1. (events[a] \o e)[i] = e[i - Len(events[a])] /\ i - Len(events[a]) \in 1..Len(e)
      BY <1>3, <2>1, <2>2, <2>4
    <3>2. QED
      BY <1>3, <1>5, <1>6, <2>2, <3>1
  <2>5. QED
    BY <2>1, <2>2, <2>3, <2>4
<1>7. QED
  BY <1>4, <1>6 DEF Success

LEMMA FiresOwn ==
  ASSUME TypeOK, NEW a \in Attempts, OneOf(a), Main(a) \/ Exec(a) \/ Send(a) \/ TimeOut(a)
  PROVE  FiresStep(a)
<1>1. CASE events' = events
  BY <1>1 DEF FiresStep, Success
<1>2. ASSUME NEW n \in 0..Len(Fired(task[a])), Fire(a, n),
             At(a, "main") = "start" \/ (At(a, "main") = "events" /\ At(a, "main")' = "done")
      PROVE  FiresStep(a)
  BY <1>2, SuccessFired DEF FiresStep, OneOf
<1>3. Fired(task[a]) \in Seq(EventNames)
  BY TypedIsTypeOK, FiredType DEF Typed
<1>4. CASE Start(a)
  <2>1. Fire(a, Len(Fired(task[a]))) /\ At(a, "main") = "start"
    BY <1>4, StartEffect DEF FireAll
  <2>2. QED
    BY <1>2, <1>3, <2>1
<1>5. CASE FireEvents(a)
  <2>1. Fire(a, Len(Fired(task[a]))) /\ At(a, "main") = "events" /\ At(a, "main")' = "done"
    BY <1>5, FireEventsEffect DEF FireAll, Goes, Gets
  <2>2. QED
    BY <1>2, <1>3, <2>1
<1>6. CASE EventError(a)
  <2>1. PICK n \in DOMAIN Fired(task[a]) : Fire(a, n)
    BY <1>6, EventErrorEffect
  <2>2. n \in 0..Len(Fired(task[a]))
    BY <1>3, <2>1
  <2>3. At(a, "main") \in {"start", "events"} /\ At(a, "main")' = "done"
    BY <1>6, EventErrorEffect DEF Goes, Gets
  <2>4. QED
    BY <1>2, <2>1, <2>2, <2>3
<1>7. CASE ~Start(a) /\ ~FireEvents(a) /\ ~EventError(a)
  <2>1. events' = events
    BY <1>7 DEF Main, Exec, HandleError, Begin, SaveProcessing, LeaveHandleTask, HandlerEnds,
       HandlerHangs, ChainReturns, ReadContext, Send, TimeOut, Check, Mark, TestRetries,
       DecRetries, PublishRetry, SaveResult
  <2>2. QED
    BY <1>1, <2>1
<1>8. QED
  BY <1>4, <1>5, <1>6, <1>7

\* A carrier may win; who is none writes nothing.
Wins(a, g) ==
  /\ WinOf(a, g)'
  /\ ~Carrier(a) => ~Carrier(a)' /\ UNCHANGED <<store, queued>> /\ Status(a)' = Status(a)
  /\ Carrier(a) => /\ queued' # 0 => store'.hash.status # "succeeded"
                   /\ Status(a)' = "succeeded" /\ ~Carrier(a)' => queued' = 0

LEMMA WinOwn ==
  ASSUME TypeOK, NEW a \in Attempts, ~Timeouts, PhaseOf(a), OneOf(a), queued \in Nat,
         Carrier(a) => queued = 0, UNCHANGED <<attempts, cancel>>,
         NEW f \in BOOLEAN, NEW g \in BOOLEAN, WinOf(a, f),
         g => f \/ (Status(a) = "succeeded" /\ At(a, "main") = "events" /\ At(a, "main")' = "done"),
         Main(a) \/ Exec(a) \/ Send(a) \/ TimeOut(a)
  PROVE  Wins(a, g)
<1> USE DEF Goes, Gets, Keeps, BothGet, Status, MainPlaces, ExecPlaces, Marked,
           PhaseOf, OneOf, Carrier, WinOf, Wins, Unsaved, StoredIn, Save, Stored
<1>1. CASE Begin(a)
  BY <1>1, BeginEffect DEF SetTask
<1>2. CASE SaveProcessing(a)
  BY <1>2, SaveProcessingEffect
<1>3. CASE Start(a)
  BY <1>3, StartEffect
<1>4. CASE LeaveHandleTask(a)
  BY <1>4, LeaveHandleTaskEffect
<1>5. CASE FireEvents(a) \/ EventError(a)
  BY <1>5, FireEventsEffect, EventErrorEffect
<1>6. ASSUME NEW o \in Outcomes, HandlerEnds(a, o) PROVE Wins(a, g)
  BY <1>6, HandlerEndsEffect DEF SetAt, ResultOf
<1>7. CASE HandlerHangs(a)
  BY <1>7, HandlerHangsEffect DEF SetAt
<1>8. CASE ChainReturns(a)
  BY <1>8, ChainReturnsEffect DEF SetAt
<1>9. CASE ReadContext(a)
  BY <1>9, ReadContextEffect DEF SetAt, ContextError
<1>10. CASE Send(a)
  BY <1>10, SendEffect
<1>11. CASE TimeOut(a)
  BY <1>11, TimeOutEffect DEF SetAt
<1>12. ASSUME NEW h \in Threads, HandleError(a, h) PROVE Wins(a, g)
  <2> USE DEF Left, Threads
  <2>1. CASE Check(a, h)
    BY <2>1, CheckEffect
  <2>2. CASE Mark(a, h)
    BY <2>2, MarkEffect DEF SetTask, Final
  <2>3. CASE TestRetries(a, h)
    BY <2>3, TestEffect
  <2>4. CASE DecRetries(a, h)
    BY <2>4, DecEffect DEF SetTask
  <2>5. CASE PublishRetry(a, h)
    <3>1. /\ At(a, h) = "publish" /\ UNCHANGED <<task, err>>
          /\ Left(a, h, "nil") \/ Left(a, h, "error")
      BY <2>5, PublishEffect
    <3>2. Carrier(a) /\ Status(a) # "succeeded" /\ At(a, "main") \notin {"events", "begin", "processing"}
      BY <3>1
    <3>3. ~Carrier(a)' /\ ~f /\ ~g /\ Status(a)' = Status(a)
      BY <3>1, <3>2
    <3>4. WinOf(a, g)'
      BY <3>2, <3>3
    <3>5. store'.hash = store.hash \/ store'.hash = Stored(task[a])
      BY <2>5, PublishEffect
    <3>6. store.hash.status # "succeeded"
      BY <3>2
    <3>7. store'.hash.status # "succeeded"
      BY <3>2, <3>5, <3>6
    <3>8. QED
      BY <3>2, <3>3, <3>4, <3>7
  <2>6. CASE SaveResult(a, h)
    BY <2>6, SaveEffect
  <2>7. QED
    BY <1>12, <2>1, <2>2, <2>3, <2>4, <2>5, <2>6 DEF HandleError
<1>13. QED
  BY <1>1, <1>2, <1>3, <1>4, <1>5, <1>6, <1>7, <1>8, <1>9, <1>10, <1>11, <1>12
  DEF Main, Exec, Threads

LEMMA WinInit == Init => WinInv
<1> SUFFICES ASSUME Init PROVE WinInv
  OBVIOUS
<1>1. \A a \in Attempts : /\ At(a, "main") = "off" /\ At(a, "exec") = "off"
                          /\ Status(a) = "waiting" /\ events[a] = <<>>
  BY DEF Init, At, Off, Status, Loaded, Threads
<1>2. \A a \in Attempts : ~Carrier(a) /\ ~Success(a)
  BY <1>1 DEF Carrier, Marked, Success, ToSet
<1>3. store.hash.status = "waiting" /\ cancel.read = NoHash
  BY DEF Init
<1>4. QED
  BY <1>1, <1>2, <1>3 DEF WinInv, WinOf, WonOf

LEMMA WinAttempt ==
  ASSUME ~Timeouts, TypeOK, PhaseInv, OneInv, AloneInv, WinInv,
         NEW a \in Attempts, Main(a) \/ Exec(a) \/ Send(a) \/ TimeOut(a)
  PROVE  WinInv'
<1>1. PhaseOf(a) /\ OneOf(a) /\ queued \in Nat /\ (Carrier(a) => queued = 0)
      /\ UNCHANGED <<attempts, cancel>>
  BY TypedIsTypeOK, AttemptKeeps DEF PhaseInv, OneInv, AloneInv, Typed
<1>2. FiresStep(a)
  BY <1>1, FiresOwn
<1>3. PICK f \in BOOLEAN : f <=> Success(a)
  OBVIOUS
<1>4. PICK g \in BOOLEAN : g <=> Success(a)'
  OBVIOUS
<1>5. WinOf(a, f)
  BY <1>3 DEF WinInv, WinOf, Unsaved
<1>6. g => f \/ (Status(a) = "succeeded" /\ At(a, "main") = "events" /\ At(a, "main")' = "done")
  BY <1>2, <1>3, <1>4 DEF FiresStep
<1>7. Wins(a, g)
  BY <1>1, <1>5, <1>6, WinOwn
<1>8. WinOf(a, Success(a))'
  BY <1>4, <1>7 DEF Wins, WinOf, Unsaved
<1>9. \A b \in Attempts : b # a => Same(b) /\ (Carrier(b)' <=> Carrier(b))
                                   /\ (Success(b)' <=> Success(b))
  BY <1>2, OthersSame, SameCarrier DEF FiresStep, Success
<1>10. CASE Carrier(a)
  <2>1. ASSUME NEW b \in Attempts, b # a
        PROVE  ~Carrier(b) /\ Status(b) # "succeeded" /\ ~Success(b)
    <3>1. ~Carrier(b) /\ ~NoCarrier
      BY <1>10, <2>1 DEF AloneInv, NoCarrier
    <3>2. QED
      BY <3>1 DEF WinInv, WonOf, WinOf
  <2>2. ASSUME NEW b \in Attempts, b # a PROVE WinOf(b, Success(b))' /\ WonOf(b)'
    BY <1>9, <2>1, <2>2 DEF WinOf, WonOf, Same, Status
  <2>3. WonOf(a)'
    BY <1>7, <1>9, <1>10, <2>1 DEF Wins, WonOf, NoCarrier
  <2>4. queued' # 0 => store'.hash.status # "succeeded"
    BY <1>7, <1>10 DEF Wins
  <2>5. QED
    BY <1>1, <1>8, <2>2, <2>3, <2>4 DEF WinInv
<1>11. CASE ~Carrier(a)
  <2>1. UNCHANGED <<store, queued>> /\ ~Carrier(a)' /\ Status(a)' = Status(a)
    BY <1>7, <1>11 DEF Wins
  <2>2. NoCarrier' <=> NoCarrier
    BY <1>9, <1>11, <2>1 DEF NoCarrier
  <2>3. \A b \in Attempts : WonOf(b)'
    BY <1>9, <1>11, <2>1, <2>2 DEF WinInv, WonOf, Same, Status
  <2>4. ASSUME NEW b \in Attempts, b # a PROVE WinOf(b, Success(b))'
    BY <1>1, <1>9, <2>1, <2>4 DEF WinInv, WinOf, Unsaved, StoredIn, Same, At, Status
  <2>5. QED
    BY <1>1, <1>8, <2>1, <2>3, <2>4 DEF WinInv
<1>12. QED
  BY <1>10, <1>11

LEMMA WinDies ==
  ASSUME TypeOK, PhaseInv, OneInv, AloneInv, WinInv, ProcessDies
  PROVE  WinInv'
<1>1. UNCHANGED <<store, queued, attempts, task, err, events, cancel>> /\ \A a \in Attempts : Dies(a)
  BY DiesEffect, DiesAll
<1>2. NoCarrier'
  BY <1>1, DiesNoCarrier DEF NoCarrier
<1>3. ASSUME NEW a \in Attempts PROVE WinOf(a, Success(a))' /\ WonOf(a)'
  <2>1. WinOf(a, Success(a)) /\ WonOf(a) /\ PhaseOf(a) /\ OneOf(a)
    BY DEF WinInv, PhaseInv, OneInv
  <2>2. ~Carrier(a)' /\ Status(a)' = Status(a) /\ (Success(a)' <=> Success(a))
    BY <1>1, <1>2 DEF NoCarrier, Status, Success
  <2>3. At(a, "main") \in {"done", "dead"} => At(a, "main")' \in {"done", "dead"}
    BY <1>1 DEF Dies
  <2>4. At(a, "exec")' # "return" /\ (At(a, "main") # "off" => At(a, "main")' \in {"done", "dead"})
    BY <1>1 DEF Dies
  <2>5. CASE Carrier(a)
    <3>1. At(a, "main") \notin {"off", "done", "dead"} /\ queued = 0
      BY <2>1, <2>5 DEF Carrier, OneOf, Marked, ExecPlaces, AloneInv
    <3>2. ~Success(a) /\ a = attempts
      BY <2>1, <2>5 DEF WinOf
    <3>3. Status(a) = "succeeded" => StoredIn({"processing"})
      BY <2>1, <2>5 DEF WinOf, OneOf, Marked, ExecPlaces
    <3>4. QED
      BY <1>1, <1>2, <2>2, <2>4, <3>1, <3>2, <3>3 DEF WinOf, WonOf, StoredIn, Unsaved
  <2>6. CASE ~Carrier(a)
    <3>1. WonOf(a)'
      BY <1>1, <1>2, <2>1, <2>2, <2>6 DEF WonOf
    <3>2. At(a, "exec") = "return" => At(a, "main") = "select"
      BY <2>1 DEF OneOf, ExecPlaces
    <3>3. QED
      BY <1>1, <2>1, <2>2, <2>3, <2>4, <2>6, <3>1, <3>2 DEF WinOf, StoredIn, Unsaved
  <2>7. QED
    BY <2>5, <2>6
<1>4. QED
  BY <1>1, <1>3 DEF WinInv

LEMMA WinStep ==
  ~Timeouts /\ TypeOK /\ PhaseInv /\ OneInv /\ AloneInv /\ WinInv /\ [Next]_vars => WinInv'
<1> SUFFICES ASSUME ~Timeouts, TypeOK, PhaseInv, OneInv, AloneInv, WinInv, [Next]_vars
             PROVE  WinInv'
  OBVIOUS
<1>1. ASSUME NEW a \in Attempts, Main(a) \/ Exec(a) \/ Send(a) \/ TimeOut(a) PROVE WinInv'
  BY <1>1, WinAttempt
<1>2. CASE Receive
  <2>1. PICK a \in Attempts : Receives(a)
    BY <1>2, ReceivesA
  <2>2. /\ queued # 0 /\ store.hash.status # "succeeded"
        /\ UNCHANGED <<store, cancel, events, err>> /\ attempts' = a
    BY <2>1, TypedIsTypeOK DEF Receives, WinInv, Typed
  <2>3. At(a, "main")' = "begin" /\ At(a, "main") = "off" /\ Status(a)' = store.hash.status
    BY <2>1 DEF Receives, Status
  <2>4. ~Success(a)
    BY <2>3 DEF WinInv, WinOf
  <2>5. WinOf(a, Success(a))' /\ WonOf(a)'
    BY <2>2, <2>3, <2>4 DEF WinOf, WonOf, Carrier, Success
  <2>6. ASSUME NEW b \in Attempts, b # a PROVE WinOf(b, Success(b))' /\ WonOf(b)'
    <3>1. ~Carrier(b) /\ Status(b) # "succeeded" /\ ~Success(b)
      BY <2>2 DEF AloneInv, WinInv, WinOf, WonOf
    <3>2. Same(b) /\ ~Carrier(b)'
      BY <2>1, <2>6, <3>1, SameCarrier DEF Receives
    <3>3. QED
      BY <2>2, <3>1, <3>2 DEF WinOf, WonOf, Same, Status, Success
  <2>7. QED
    BY <2>2, <2>5, <2>6 DEF WinInv
<1>3. CASE CancelGet \/ CancelSave \/ UNCHANGED vars
  <2>1. UNCHANGED <<queued, attempts, thread, task, err, events>>
    BY <1>3 DEF CancelGet, CancelSave, vars
  <2>2. \/ UNCHANGED store /\ (cancel' = cancel \/ cancel'.calls = cancel.calls + 1)
        \/ /\ store'.hash.status = "canceled" /\ cancel.read # NoHash
           /\ cancel'.calls = cancel.calls /\ cancel'.read = NoHash
    BY <1>3, TypedIsTypeOK DEF CancelGet, CancelSave, vars, Save, Stored, Loaded, Typed
  <2>3. cancel.calls \in Nat /\ (cancel'.read # NoHash => cancel'.calls # 0)
    BY <1>3, <2>2, TypedIsTypeOK DEF WinInv, Typed
  <2>4. queued' # 0 => store'.hash.status # "succeeded"
    BY <2>1, <2>2 DEF WinInv
  <2>5. ASSUME NEW a \in Attempts PROVE WinOf(a, Success(a))' /\ WonOf(a)'
    <3>1. WinOf(a, Success(a)) /\ WonOf(a)
      BY DEF WinInv
    <3>2. (Carrier(a)' <=> Carrier(a)) /\ (NoCarrier' <=> NoCarrier) /\ Status(a)' = Status(a)
      BY <2>1 DEF NoCarrier, Carrier, At, Status
    <3>3. WonOf(a)'
      BY <2>1, <3>1, <3>2 DEF WonOf
    <3>4. \A x : StoredIn(x) => StoredIn(x)'
      BY <2>2, <2>3 DEF StoredIn, WinInv
    <3>5. store'.hash.status = "processing" => store.hash.status = "processing"
      BY <2>2
    <3>6. (Success(a)' <=> Success(a)) /\ \A h \in Threads : At(a, h)' = At(a, h)
      BY <2>1 DEF Success, At
    <3>7. QED
      BY <2>1, <3>1, <3>2, <3>3, <3>4, <3>5, <3>6 DEF WinOf, Unsaved, Threads
  <2>6. QED
    BY <2>3, <2>4, <2>5 DEF WinInv
<1>4. CASE ProcessDies
  BY <1>4, WinDies
<1>5. QED
  BY <1>1, <1>2, <1>3, <1>4, StepCases

\* A success event is the last word about a task, as long as no deadline passes:
\* whatever saves and event handlers fail, whatever is canceled and whenever the
\* process dies, the broker holds the task as succeeded, but for a cancellation
\* and for the error of a save that the second handleError hides.
THEOREM SuccessSavedCorrect == ASSUME ~Timeouts PROVE Spec => []SuccessSaved
<1>1. Init => TypeOK /\ PhaseInv /\ OneInv /\ AloneInv /\ WinInv
  BY TypeInit, PhaseInit, OneInit, AloneInit, WinInit
<1>2. TypeOK /\ PhaseInv /\ OneInv /\ AloneInv /\ WinInv /\ [Next]_vars
        => (TypeOK /\ PhaseInv /\ OneInv /\ AloneInv /\ WinInv)'
  BY TypeStep, PhaseStep, OneStep, AloneStep, WinStep
<1>3. WinInv => SuccessSaved
  <2> SUFFICES ASSUME WinInv, NEW a \in Attempts, Success(a)
               PROVE  /\ queued = 0 /\ attempts = a
                      /\ store.hash.status \in {"succeeded"}
                           \cup (IF err[a] = "nil" THEN {} ELSE {"processing"})
                           \cup (IF cancel.calls = 0 THEN {} ELSE {"canceled"})
    BY DEF SuccessSaved, Success
  <2>1. ~Carrier(a) /\ Status(a) = "succeeded"
    BY DEF WinInv, WinOf
  <2>2. QED
    BY <2>1 DEF WinInv, WinOf, WonOf, StoredIn
<1>4. QED
  BY <1>1, <1>2, <1>3, PTL DEF Spec

-----------------------------------------------------------------------------
(* The end of a task that nothing disturbs.                                *)

Undisturbed == ~Timeouts /\ Faults = {} /\ MaxCancels = 0 /\ Recoverer # "absent"

\* The other half of BudgetInv: no run is given up, for n runs.
UsedOf(a, n) ==
  /\ At(a, "exec") \notin {"unwind", "dying"}
  /\ Carrier(a) => Over(a) \/ n + task[a].retries >= (IF Ahead(a) THEN MaxRetries ELSE MaxRetries + 1)
  /\ At(a, "main") = "begin" => Status(a) = store.hash.status /\ Status(a) # "succeeded"
  /\ At(a, "main") = "save" \/ At(a, "exec") = "save" => Status(a) # "failed" \/ task[a].retries = 0
  /\ Carrier(a) /\ Status(a) = "succeeded" => At(a, "main") = "save" \/ At(a, "exec") = "save"

UsedQueue(n) ==
  queued = 1 => /\ store.hash.status # "succeeded"
                /\ store.hash.status = "canceled" \/ n + store.hash.retries >= MaxRetries

\* What is stored when nobody carries the task any more.
AtRest(n) ==
  /\ store.hash.status = "failed" => n >= MaxRetries + 1
  /\ store.hash.status \in {"succeeded", "failed"} => store.ttl

EndInv ==
  /\ cancel.calls = 0 /\ cancel.read = NoHash
  /\ UsedQueue(Spent) /\ \A a \in Attempts : UsedOf(a, Spent)
  /\ queued = 0 /\ NoCarrier => AtRest(Spent)

\* Who does not carry the task writes nothing.
Idles(a) ==
  /\ ~Carrier(a)' /\ UNCHANGED <<store, queued>>
  /\ Status(a)' = Status(a) /\ task'[a].retries = task[a].retries
  /\ ~Begins(a) /\ At(a, "main")' # "begin"
  /\ At(a, "main")' # "save" /\ At(a, "exec")' # "save"
  /\ At(a, "exec")' \notin {"unwind", "dying"}
LEMMA IdleOwn ==
  ASSUME TypeOK, NEW a \in Attempts, Undisturbed, PhaseOf(a), OneOf(a), ~Carrier(a),
         At(a, "exec") \notin {"unwind", "dying"},
         Main(a) \/ Exec(a) \/ Send(a) \/ TimeOut(a)
  PROVE  Idles(a)
<1> USE DEF Goes, Gets, Keeps, BothGet, Status, MainPlaces, ExecPlaces, Marked,
           Begins, Undisturbed,
           PhaseOf, OneOf, Carrier, Idles
<1>1. CASE Begin(a)
  BY <1>1, BeginEffect DEF SetTask
<1>2. CASE SaveProcessing(a)
  BY <1>2, SaveProcessingEffect
<1>3. CASE Start(a)
  BY <1>3, StartEffect
<1>4. CASE LeaveHandleTask(a)
  BY <1>4, LeaveHandleTaskEffect
<1>5. CASE FireEvents(a) \/ EventError(a)
  BY <1>5, FireEventsEffect, EventErrorEffect
<1>6. ASSUME NEW o \in Outcomes, HandlerEnds(a, o) PROVE Idles(a)
  BY <1>6, HandlerEndsEffect DEF SetAt, ResultOf
<1>7. CASE HandlerHangs(a)
  BY <1>7, HandlerHangsEffect DEF SetAt
<1>8. CASE ChainReturns(a)
  BY <1>8, ChainReturnsEffect DEF SetAt
<1>9. CASE ReadContext(a)
  BY <1>9, ReadContextEffect DEF SetAt, ContextError
<1>10. CASE Send(a)
  BY <1>10, SendEffect
<1>11. CASE TimeOut(a)
  BY <1>11, TimeOutEffect DEF SetAt
<1>12. ASSUME NEW h \in Threads, HandleError(a, h) PROVE Idles(a)
  <2> USE DEF Left, Threads
  <2>1. CASE Check(a, h)
    BY <2>1, CheckEffect
  <2>2. CASE Mark(a, h)
    BY <2>2, MarkEffect DEF SetTask, Final
  <2>3. CASE TestRetries(a, h)
    BY <2>3, TestEffect
  <2>4. CASE DecRetries(a, h)
    BY <2>4, DecEffect DEF SetTask
  <2>5. CASE PublishRetry(a, h)
    BY <2>5, PublishEffect
  <2>6. CASE SaveResult(a, h)
    BY <2>6, SaveEffect
  <2>7. QED
    BY <1>12, <2>1, <2>2, <2>3, <2>4, <2>5, <2>6 DEF HandleError
<1>13. QED
  BY <1>1, <1>2, <1>3, <1>4, <1>5, <1>6, <1>7, <1>8, <1>9, <1>10, <1>11, <1>12
  DEF Main, Exec, Threads


\* The carrier goes on, publishes the task or leaves it at its end.
Ends(a, k) ==
  /\ UsedOf(a, k)' /\ UsedQueue(k)'
  /\ queued' = 0 /\ ~Carrier(a)' => AtRest(k)'
  /\ queued' \in {0, 1} /\ (queued' = 1 => ~Carrier(a)')

LEMMA UsedOwn ==
  ASSUME TypeOK, NEW a \in Attempts, Undisturbed, PhaseOf(a), OneOf(a), Carrier(a), queued = 0,
         task[a].retries \in Int,
         NEW n \in Nat, NEW k \in Nat, k = (IF Begins(a) THEN n + 1 ELSE n), LeavesTo(a, n), UsedOf(a, n),
         Main(a) \/ Exec(a) \/ Send(a) \/ TimeOut(a)
  PROVE  Ends(a, k)
<1> USE DEF Goes, Gets, Keeps, BothGet, Status, MainPlaces, ExecPlaces, Marked,
           Begins, Undisturbed,
           PhaseOf, OneOf, Carrier, LeavesTo, UsedOf, UsedQueue, AtRest, Ahead, Over, Save,
           Stored, Finished, Ends
<1>1. CASE Begin(a)
  BY <1>1, BeginEffect DEF SetTask
<1>2. CASE SaveProcessing(a)
  BY <1>2, SaveProcessingEffect
<1>3. CASE Start(a)
  <2>1. /\ At(a, "main") = "start" /\ At(a, "main")' = "select" /\ At(a, "exec")' = "handler"
        /\ UNCHANGED <<task, store, queued>>
    BY <1>3, StartEffect
  <2>2. Status(a) = "processing" /\ n + task[a].retries >= MaxRetries /\ k = n + 1
    BY <2>1
  <2>3. n + 1 + task[a].retries >= MaxRetries + 1
    BY <2>2
  <2>4. UsedOf(a, k)'
    BY <2>1, <2>2, <2>3
  <2>5. QED
    BY <2>1, <2>2, <2>4
<1>4. CASE LeaveHandleTask(a)
  BY <1>4, LeaveHandleTaskEffect
<1>5. CASE FireEvents(a) \/ EventError(a)
  BY <1>5, FireEventsEffect, EventErrorEffect
<1>6. ASSUME NEW o \in Outcomes, HandlerEnds(a, o) PROVE Ends(a, k)
  BY <1>6, HandlerEndsEffect DEF SetAt, ResultOf
<1>7. CASE HandlerHangs(a)
  BY <1>7, HandlerHangsEffect DEF SetAt
<1>8. CASE ChainReturns(a)
  BY <1>8, ChainReturnsEffect DEF SetAt
<1>9. CASE ReadContext(a)
  BY <1>9, ReadContextEffect DEF SetAt, ContextError
<1>10. CASE Send(a)
  BY <1>10, SendEffect
<1>11. CASE TimeOut(a)
  BY <1>11, TimeOutEffect DEF SetAt
<1>12. ASSUME NEW h \in Threads, HandleError(a, h) PROVE Ends(a, k)
  <2> USE DEF Left, Threads
  <2>1. CASE Check(a, h)
    BY <2>1, CheckEffect
  <2>2. CASE Mark(a, h)
    BY <2>2, MarkEffect DEF SetTask, Final
  <2>3. CASE TestRetries(a, h)
    BY <2>3, TestEffect
  <2>4. CASE DecRetries(a, h)
    <3>1. PICK read \in {thread[a][h].retries, task[a].retries} :
            SetTask(a, task[a].status, read - 1)
      BY <2>4, DecEffect
    <3>2. At(a, h) = "dec" /\ At(a, h)' = "publish" /\ UNCHANGED <<store, queued>>
      BY <2>4, DecEffect
    <3>3. thread[a][h].retries = task[a].retries
      <4>1. CASE h = "main"
        BY <3>2, <4>1
      <4>2. CASE h = "exec"
        BY <3>2, <4>2
      <4>3. QED
        BY <4>1, <4>2
    <3>4. task'[a].status = Status(a) /\ task'[a].retries = task[a].retries - 1
      BY <3>1, <3>3 DEF SetTask
    <3>5. k = n /\ n + task[a].retries >= MaxRetries + 1 /\ Status(a) # "succeeded" /\ h \in Threads
      BY <3>2
    <3>6. n + (task[a].retries - 1) >= MaxRetries
      BY <3>5
    <3>7. Ahead(a)' /\ Carrier(a)'
      BY <3>2, <3>5
    <3>8. At(a, "main")' \notin {"begin", "save"} /\ At(a, "exec")' \notin {"save", "unwind", "dying"}
      BY <2>4, DecEffect
    <3>9. UsedOf(a, k)'
      BY <3>4, <3>5, <3>6, <3>7, <3>8
    <3>10. QED
      BY <3>2, <3>4, <3>5, <3>7, <3>9
  <2>5. CASE PublishRetry(a, h)
    <3>1. /\ At(a, h) = "publish" /\ Left(a, h, "nil") /\ queued' = 1
          /\ store'.hash = Stored(task[a]) /\ UNCHANGED task
      BY <2>5, PublishEffect
    <3>2. k = n /\ n + task[a].retries >= MaxRetries /\ Status(a) # "succeeded"
      BY <3>1
    <3>3. ~Carrier(a)'
      BY <3>1
    <3>4. At(a, "main")' \notin {"begin", "save"} /\ At(a, "exec")' \notin {"save", "unwind", "dying"}
      BY <3>1
    <3>5. UsedOf(a, k)' /\ UsedQueue(k)'
      BY <3>1, <3>2, <3>3, <3>4
    <3>6. QED
      BY <3>1, <3>2, <3>3, <3>5
  <2>6. CASE SaveResult(a, h)
    <3>1. /\ At(a, h) = "save" /\ Left(a, h, "nil") /\ queued' = 0
          /\ Save(task[a]) /\ UNCHANGED task
      BY <2>6, SaveEffect
    <3>2. k = n /\ n + task[a].retries >= MaxRetries + 1
      BY <3>1
    <3>3. Status(a) = "failed" => task[a].retries = 0 /\ n >= MaxRetries + 1
      BY <3>1, <3>2
    <3>4. ~Carrier(a)'
      BY <3>1
    <3>5. At(a, "main")' \notin {"begin", "save"} /\ At(a, "exec")' \notin {"save", "unwind", "dying"}
      BY <3>1
    <3>6. UsedOf(a, k)' /\ UsedQueue(k)'
      BY <3>1, <3>4, <3>5
    <3>7. store'.hash.status = Status(a) /\ store'.ttl = (store.ttl \/ Finished(task[a]))
      BY <3>1
    <3>8. Status(a) \in {"succeeded", "failed"} => store'.ttl
      BY <3>3, <3>7
    <3>9. AtRest(k)'
      BY <3>2, <3>3, <3>7, <3>8
    <3>10. QED
      BY <3>1, <3>4, <3>6, <3>7, <3>9
  <2>7. QED
    BY <1>12, <2>1, <2>2, <2>3, <2>4, <2>5, <2>6 DEF HandleError
<1>13. QED
  BY <1>1, <1>2, <1>3, <1>4, <1>5, <1>6, <1>7, <1>8, <1>9, <1>10, <1>11, <1>12
  DEF Main, Exec, Threads

LEMMA EndInit == Undisturbed /\ Init => EndInv
<1> SUFFICES ASSUME Undisturbed, Init PROVE EndInv
  OBVIOUS
<1>1. \A a \in Attempts : ~HasRun(a)
  BY DEF Init, HasRun, At, Off, Threads
<1>2. Ran = {}
  BY <1>1, RanFinite
<1>3. Spent = 0
  BY <1>2, FS_EmptySet DEF Spent
<1>4. \A a \in Attempts : At(a, "main") = "off" /\ At(a, "exec") = "off" /\ Status(a) = "waiting"
  BY DEF Init, At, Off, Status, Loaded, Threads
<1>5. queued = 1 /\ store.hash.status = "waiting" /\ store.hash.retries = MaxRetries
      /\ cancel.calls = 0 /\ cancel.read = NoHash
  BY DEF Init
<1>6. \A a \in Attempts : ~Carrier(a)
  BY <1>4 DEF Carrier, Marked
<1>7. UsedQueue(Spent) /\ \A a \in Attempts : UsedOf(a, Spent)
  BY <1>3, <1>4, <1>5, <1>6 DEF UsedQueue, UsedOf
<1>8. QED
  BY <1>5, <1>7 DEF EndInv

\* One step of an attempt that does not carry the task.
LEMMA EndIdle ==
  ASSUME Undisturbed, TypeOK, PhaseInv, OneInv, AloneInv, EndInv,
         NEW a \in Attempts, Main(a) \/ Exec(a) \/ Send(a) \/ TimeOut(a), ~Carrier(a)
  PROVE  EndInv'
<1>1. PhaseOf(a) /\ OneOf(a) /\ UsedOf(a, Spent)
  BY DEF PhaseInv, OneInv, EndInv
<1>2. Idles(a)
  BY <1>1, IdleOwn DEF UsedOf
<1>3. UNCHANGED <<attempts, cancel, store, queued>> /\ Spent' = Spent
  BY <1>2, AttemptKeeps, SpentOwn DEF Idles
<1>4. \A b \in Attempts : b # a => Same(b)
  BY OthersSame
<1>5. \A b \in Attempts : Carrier(b)' <=> Carrier(b)
  BY <1>2, <1>4, SameCarrier DEF Idles
<1>6. UsedOf(a, Spent)'
  BY <1>2 DEF Idles, UsedOf
<1>7. ASSUME NEW b \in Attempts, b # a PROVE UsedOf(b, Spent)'
  BY <1>3, <1>4, <1>5, <1>7 DEF EndInv, UsedOf, Same, At, Status, Over, Ahead
<1>8. UsedQueue(Spent)' /\ (queued' = 0 /\ NoCarrier' => AtRest(Spent)')
  BY <1>3, <1>5 DEF EndInv, UsedQueue, AtRest, NoCarrier
<1>9. QED
  BY <1>3, <1>6, <1>7, <1>8 DEF EndInv

\* One step of the attempt that carries the task.
LEMMA EndCarrier ==
  ASSUME Undisturbed, TypeOK, PhaseInv, OneInv, AloneInv, BudgetInv, EndInv,
         NEW a \in Attempts, Main(a) \/ Exec(a) \/ Send(a) \/ TimeOut(a), Carrier(a)
  PROVE  EndInv'
<1>1. PhaseOf(a) /\ OneOf(a) /\ queued = 0 /\ task[a].retries \in Int
  BY TypedIsTypeOK DEF PhaseInv, OneInv, AloneInv, Typed, TaskRecords
<1>2. PICK n \in Nat : n = Spent
  BY RanFinite
<1>3. PICK k \in Nat : k = Spent'
  BY RanFinite2
<1>4. k = (IF Begins(a) THEN n + 1 ELSE n)
  BY <1>2, <1>3, SpentOwn
<1>5. LeavesTo(a, n) /\ UsedOf(a, n)
  BY <1>2 DEF BudgetInv, EndInv
<1>6. Ends(a, k)
  BY <1>1, <1>4, <1>5, UsedOwn
<1>7. \A b \in Attempts : b # a => Same(b) /\ ~Carrier(b) /\ ~Carrier(b)'
  BY OthersSame, SameCarrier DEF AloneInv
<1>8. ASSUME NEW b \in Attempts, b # a PROVE UsedOf(b, k)'
  <2>1. At(b, "main") \notin {"begin", "save"} /\ At(b, "exec") # "save"
    BY <1>7, <1>8 DEF Carrier, Marked
  <2>2. At(b, "exec") \notin {"unwind", "dying"}
    BY DEF EndInv, UsedOf
  <2>3. QED
    BY <1>7, <1>8, <2>1, <2>2 DEF UsedOf, Same, At
<1>9. UsedOf(a, k)' /\ UsedQueue(k)' /\ (queued' = 0 /\ NoCarrier' => AtRest(k)')
  BY <1>6 DEF Ends, NoCarrier
<1>10. UsedQueue(Spent)' /\ (queued' = 0 /\ NoCarrier' => AtRest(Spent)')
       /\ \A b \in Attempts : UsedOf(b, Spent)'
  BY <1>3, <1>8, <1>9 DEF UsedQueue, AtRest, UsedOf
<1>11. cancel' = cancel
  BY AttemptKeeps
<1>12. QED
  BY <1>10, <1>11 DEF EndInv

LEMMA EndStep ==
  Undisturbed /\ TypeOK /\ PhaseInv /\ OneInv /\ AloneInv /\ BudgetInv /\ EndInv /\ [Next]_vars
    => EndInv'
<1> SUFFICES ASSUME Undisturbed, TypeOK, PhaseInv, OneInv, AloneInv, BudgetInv, EndInv, [Next]_vars
             PROVE  EndInv'
  OBVIOUS
<1>1. ASSUME NEW a \in Attempts, Main(a) \/ Exec(a) \/ Send(a) \/ TimeOut(a) PROVE EndInv'
  BY <1>1, EndIdle, EndCarrier
<1>2. CASE Receive
  <2>1. PICK a \in Attempts : Receives(a)
    BY <1>2, ReceivesA
  <2>2. Spent' = Spent /\ Spent \in Nat
    BY <1>2, SpentSame, RanFinite
  <2>3. queued = 1 /\ queued' = 0 /\ UNCHANGED <<store, cancel>>
    BY <2>1, TypedIsTypeOK DEF Receives, AloneInv, Typed
  <2>4. \A b \in Attempts : b # a => Same(b) /\ ~Carrier(b) /\ ~Carrier(b)'
    BY <2>1, <2>3, SameCarrier DEF Receives, AloneInv
  <2>5. At(a, "main")' = "begin" /\ At(a, "exec")' = "off"
        /\ Status(a)' = store.hash.status /\ task'[a].retries = store.hash.retries
    BY <2>1 DEF Receives, Status
  <2>6. Carrier(a)'
    BY <2>5 DEF Carrier
  <2>7. UsedOf(a, Spent)'
    BY <2>2, <2>3, <2>5, <2>6 DEF EndInv, UsedQueue, UsedOf, Over, Ahead
  <2>8. ASSUME NEW b \in Attempts, b # a PROVE UsedOf(b, Spent)'
    <3>1. At(b, "main") \notin {"begin", "save"} /\ At(b, "exec") # "save"
      BY <2>4, <2>8 DEF Carrier, Marked
    <3>2. At(b, "exec") \notin {"unwind", "dying"}
      BY DEF EndInv, UsedOf
    <3>3. QED
      BY <2>4, <2>8, <3>1, <3>2 DEF UsedOf, Same, At
  <2>9. UsedQueue(Spent)' /\ ~NoCarrier'
    BY <2>3, <2>6 DEF UsedQueue, NoCarrier
  <2>10. QED
    BY <2>3, <2>7, <2>8, <2>9 DEF EndInv
<1>3. CASE UNCHANGED vars
  <2>1. Spent' = Spent
    BY <1>3, SpentSame
  <2>2. UNCHANGED <<store, queued, thread, task, cancel>>
    BY <1>3 DEF vars
  <2>3. \A a \in Attempts : (Carrier(a)' <=> Carrier(a)) /\ At(a, "main")' = At(a, "main")
          /\ At(a, "exec")' = At(a, "exec") /\ Status(a)' = Status(a)
    BY <2>2 DEF Carrier, At, Status
  <2>4. QED
    BY <2>1, <2>2, <2>3 DEF EndInv, UsedQueue, UsedOf, AtRest, NoCarrier, Over, Ahead
<1>4. ~CancelGet /\ ~CancelSave
  BY DEF Undisturbed, EndInv, CancelGet, CancelSave
<1>5. ~ProcessDies
  BY DiesEffect DEF EndInv, UsedOf
<1>6. QED
  BY <1>1, <1>2, <1>3, <1>4, <1>5, StepCases

EndAll == TypeOK /\ PhaseInv /\ OneInv /\ AloneInv /\ BudgetInv /\ EndInv

LEMMA EndAlways == ASSUME Undisturbed PROVE Spec => []EndAll
<1>1. Init => EndAll
  BY TypeInit, PhaseInit, OneInit, AloneInit, BudgetInit, EndInit DEF EndAll
<1>2. EndAll /\ [Next]_vars => EndAll'
  BY TypeStep, PhaseStep, OneStep, AloneStep, BudgetStep, EndStep DEF EndAll, Undisturbed
<1>3. QED
  BY <1>1, <1>2, PTL DEF Spec

LEMMA QuietRests == EndAll /\ Quiet => AtRest(Spent)
<1> SUFFICES ASSUME EndAll, Quiet PROVE AtRest(Spent)
  OBVIOUS
<1>1. \A a \in Attempts : At(a, "main") \in {"off", "done", "dead"}
  BY DEF Quiet, Busy
<1>2. NoCarrier
  BY <1>1 DEF EndAll, OneInv, OneOf, NoCarrier, Carrier, Marked, ExecPlaces
<1>3. QED
  BY <1>2 DEF EndAll, EndInv, Quiet

\* A task is left failed only after all its retries.
THEOREM AllRetriesUsedCorrect == ASSUME Undisturbed PROVE Spec => []AllRetriesUsed
<1>1. EndAll => AllRetriesUsed
  <2>1. EndAll => Spent <= MaxRetries + 1 /\ Spent \in Nat
    BY RanFinite DEF EndAll, BudgetInv, LeavesQueue
  <2>2. QED
    BY <2>1, QuietRests DEF AllRetriesUsed, AtRest, Spent
<1>2. QED
  BY <1>1, EndAlways, PTL

\* A result that has been saved for good has a time to live: README.md:359.
THEOREM KeptForTTLCorrect == ASSUME Undisturbed PROVE Spec => []KeptForTTL
<1>1. EndAll => KeptForTTL
  BY QuietRests DEF KeptForTTL, AtRest
<1>2. QED
  BY <1>1, EndAlways, PTL
=============================================================================

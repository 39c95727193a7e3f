---------------------------- MODULE RetriesProofs -----------------------------
(***************************************************************************)
(* Theorems about Retries, for any options, requests and payloads: the     *)
(* options a task is given, or its engine, are those its attempts work     *)
(* with.                                                                   *)
(***************************************************************************)
EXTENDS Retries, WellFoundedInduction, SequenceTheorems, TLAPS

USE SecondAssumption

-----------------------------------------------------------------------------
(* Options applied in turn.                                                *)

\* A set of naturals that is not empty has a least element.
LEMMA Least ==
  ASSUME NEW T \in SUBSET Nat, T # {}
  PROVE  \E n \in T : \A m \in T : n <= m
<1> DEFINE R == OpToRel(<, Nat)
<1>1. IsWellFoundedOn(R, Nat)
  BY NatLessThanWellFounded, Zenon
<1>2. PICK n \in T : \A m \in T : <<m, n>> \notin R
  BY <1>1, WFMin, Zenon
<1>3. \A m \in T : ~(m < n)
  BY <1>2 DEF OpToRel
<1> QED
  BY <1>3

LEMMA Greatest ==
  ASSUME NEW n \in Nat, NEW S \in SUBSET (1..n), S # {}
  PROVE  Max(S) \in S /\ \A j \in S : j <= Max(S)
<1> DEFINE T == {n - i : i \in S}
<1>a. \A i \in S : n - i \in Nat
  OBVIOUS
<1>b. T \subseteq Nat
  BY <1>a, Zenon
<1>0. T # {}
  OBVIOUS
<1>1. PICK k \in T : \A m \in T : k <= m
  BY <1>b, <1>0, Least
<1>2. PICK i \in S : k = n - i
  BY <1>1
<1>3. \A j \in S : i >= j
  BY <1>1, <1>2
<1>4. QED
  BY <1>3 DEF Max

\* What the options at these positions leave a field with: the value given last.
Latest(opts, at_, field) ==
  IF at_ = {} THEN newOptions[field]
  ELSE opts[CHOOSE i \in at_ : \A j \in at_ : j <= i].value

LastOf(opts, s, field) == Latest(opts, {i \in s : opts[i].field = field}, field)

AllFields == DOMAIN newOptions

Applied(opts, s) == [field \in AllFields |-> LastOf(opts, s, field)]

LEMMA OptionTypes ==
  \A o \in Option : /\ o.field \in AllFields
                    /\ o.field \in {"maxRetries", "ttl", "timeout"} => o.value \in Nat
                    /\ o.field = "retryIntervals" => o.value \in Seq(Nat)
BY DEF Option, AllFields, newOptions

\* One more option overwrites its field and no other.
LEMMA AppliedLast ==
  ASSUME NEW opts \in Seq(Option), NEW s \in SUBSET (DOMAIN opts), s # {}
  PROVE  Applied(opts, s) = Apply(Applied(opts, s \ {Max(s)}), opts[Max(s)])
<1> DEFINE m == Max(s)
           r == s \ {m}
           At(u, f) == {i \in u : opts[i].field = f}
<1>1. DOMAIN opts = 1..Len(opts) /\ Len(opts) \in Nat
  OBVIOUS
<1>2. m \in s /\ \A j \in s : j <= m
  BY <1>1, Greatest
<1>3. m \in DOMAIN opts /\ opts[m] \in Option /\ opts[m].field \in AllFields
  BY <1>1, <1>2, OptionTypes
<1> HIDE DEF m
<1>4. ASSUME NEW f \in AllFields, f # opts[m].field
      PROVE  LastOf(opts, s, f) = LastOf(opts, r, f)
  <2>1. At(s, f) = At(r, f)
    BY <1>4
  <2>2. QED
    BY <2>1, Zenon DEF LastOf
<1>5. LastOf(opts, s, opts[m].field) = opts[m].value
  <2> DEFINE a == At(s, opts[m].field)
  <2>1. m \in a /\ \A j \in a : j <= m
    BY <1>2
  <2>2. a \subseteq Nat
    BY <1>1
  <2>3. \A i \in a : (\A j \in a : j <= i) => i = m
    BY <2>1, <2>2
  <2>4. (CHOOSE i \in a : \A j \in a : j <= i) = m
    BY <2>1, <2>3
  <2>5. QED
    BY <2>1, <2>4 DEF LastOf, Latest
<1>6. Apply(Applied(opts, r), opts[m]) =
        [f \in AllFields |-> IF f = opts[m].field THEN opts[m].value ELSE LastOf(opts, r, f)]
  BY <1>3 DEF Apply, Applied
<1>7. QED
  BY <1>4, <1>5, <1>6 DEF Applied, m

LEMMA AppliedNone == ASSUME NEW opts PROVE Applied(opts, {}) = newOptions
BY DEF Applied, LastOf, Latest, AllFields, newOptions

\* Configured gives every field the value given last.
LEMMA ConfiguredApplies ==
  ASSUME NEW opts \in Seq(Option)
  PROVE  Configured(opts) = Applied(opts, DOMAIN opts)
<1> DEFINE D == DOMAIN opts
           Step(g) == [s \in SUBSET D |-> IF s = {} THEN newOptions
                                          ELSE Apply(g[s \ {Max(s)}], opts[Max(s)])]
           iter == CHOOSE g : g = Step(g)
           good == [s \in SUBSET D |-> Applied(opts, s)]
<1>1. Configured(opts) = iter[D]
  BY DEF Configured, FoldLeft, MapThenFoldSet
<1>2. good = Step(good)
  <2>1. ASSUME NEW s \in SUBSET D PROVE good[s] = Step(good)[s]
    <3>1. CASE s = {}
      BY <3>1, AppliedNone
    <3>2. CASE s # {}
      BY <3>2, AppliedLast
    <3>3. QED
      BY <3>1, <3>2
  <2>2. QED
    BY <2>1
<1>3. iter = Step(iter)
  BY <1>2
<1>4. D = 1..Len(opts) /\ Len(opts) \in Nat
  OBVIOUS
<1> HIDE DEF iter, good
<1> DEFINE bad == {n \in Nat : n <= Len(opts) /\ iter[1..n] # Applied(opts, 1..n)}
<1>5. bad = {}
  <2>1. SUFFICES ASSUME bad # {} PROVE FALSE
    OBVIOUS
  <2>2. PICK n \in bad : \A k \in bad : n <= k
    BY <2>1, Least
  <2>3. 1..n \in SUBSET D
    BY <1>4, <2>2
  <2>4. CASE n = 0
    <3>1. 1..n = {}
      BY <2>4
    <3>2. iter[{}] = newOptions
      BY <1>3, <2>3, <3>1
    <3>3. QED
      BY <3>1, <3>2, <2>2, AppliedNone
  <2>5. CASE n # 0
    <3>1. Max(1..n) = n /\ 1..n # {}
      <4>1. n \in 1..n /\ \A i \in 1..n : (\A j \in 1..n : i >= j) <=> i = n
        BY <2>2, <2>5
      <4>2. QED
        BY <4>1 DEF Max
    <3>2. (1..n) \ {n} = 1..(n - 1)
      BY <2>2, <2>5
    <3>3. iter[1..n] = Apply(iter[1..(n - 1)], opts[n])
      BY <1>3, <2>3, <3>1, <3>2
    <3>4. Applied(opts, 1..n) = Apply(Applied(opts, 1..(n - 1)), opts[n])
      BY <2>3, <3>1, <3>2, AppliedLast
    <3>5. n - 1 \in Nat /\ n - 1 <= Len(opts) /\ n - 1 \notin bad
      BY <1>4, <2>2, <2>5
    <3>6. QED
      BY <2>2, <3>3, <3>4, <3>5
  <2>6. QED
    BY <2>4, <2>5
<1>6. QED
  BY <1>1, <1>4, <1>5

-----------------------------------------------------------------------------
(* Whole seconds.                                                          *)

LEMMA SecondFacts ==
  ASSUME NEW d \in Int
  PROVE  /\ Seconds(d) \in Int /\ Ticks(Seconds(d)) \in Int
         /\ Ticks(Seconds(d)) <= d /\ d < Ticks(Seconds(d)) + TicksPerSecond
BY DEF Seconds, Ticks

LEMMA TickFacts ==
  ASSUME NEW a \in Int, NEW b \in Int
  PROVE  /\ Ticks(a) \in Int
         /\ a <= b => Ticks(a) <= Ticks(b)
         /\ a < b => Ticks(a) + TicksPerSecond <= Ticks(b)
         /\ a >= 0 => Ticks(a) >= 0
BY DEF Ticks

\* Whole seconds stay what they are.
LEMMA WholeAgain ==
  ASSUME NEW d \in Int
  PROVE  Seconds(Whole(d)) = Seconds(d)
<1> DEFINE s == Seconds(d)
           r == Seconds(Ticks(s))
<1>1. s \in Int /\ Ticks(s) \in Int
  BY SecondFacts
<1>2. r \in Int /\ Ticks(r) <= Ticks(s) /\ Ticks(s) < Ticks(r) + TicksPerSecond
  BY <1>1, SecondFacts
<1> HIDE DEF s, r
<1>3. ~(r < s) /\ ~(s < r)
  BY <1>1, <1>2, TickFacts
<1>4. r = s
  BY <1>1, <1>2, <1>3
<1>5. QED
  BY <1>4 DEF r, s, Whole

LEMMA WholeFacts ==
  ASSUME NEW d \in Nat
  PROVE  Whole(d) \in Nat /\ Seconds(d) \in Nat /\ Whole(d) <= d /\ d < Whole(d) + TicksPerSecond
<1>1. Seconds(d) \in Nat
  BY DEF Seconds
<1>2. QED
  BY <1>1, SecondFacts, TickFacts DEF Whole

-----------------------------------------------------------------------------
(* What is asked for.                                                      *)

\* The options the task is made with.
Given == IF options = <<>> THEN engine ELSE options

\* A field has its default value, or the one that some option gives it.
LEMMA LastGiven ==
  ASSUME NEW opts \in Seq(Option), NEW field
  PROVE  \/ LastOf(opts, DOMAIN opts, field) = newOptions[field]
         \/ \E i \in DOMAIN opts : /\ opts[i].field = field
                                   /\ LastOf(opts, DOMAIN opts, field) = opts[i].value
<1> DEFINE S == {i \in DOMAIN opts : opts[i].field = field}
<1>1. CASE S = {}
  BY <1>1, Zenon DEF LastOf, Latest
<1>2. CASE S # {}
  <2>1. Len(opts) \in Nat /\ S \in SUBSET (1..Len(opts)) /\ S # {}
    BY <1>2
  <2>2. Max(S) \in S /\ \A j \in S : j <= Max(S)
    BY <2>1, Greatest
  <2> DEFINE m == CHOOSE i \in S : \A j \in S : j <= i
  <2>3. m \in S
    BY <2>2, Zenon
  <2>4. LastOf(opts, DOMAIN opts, field) = opts[m].value
    BY <1>2, Zenon DEF LastOf, Latest
  <2>5. QED
    BY <2>3, <2>4
<1>3. QED
  BY <1>1, <1>2

LEMMA LastTyped ==
  ASSUME NEW opts \in Seq(Option)
  PROVE  /\ LastOf(opts, DOMAIN opts, "maxRetries") \in Nat
         /\ LastOf(opts, DOMAIN opts, "ttl") \in Nat
         /\ LastOf(opts, DOMAIN opts, "timeout") \in Nat
         /\ LastOf(opts, DOMAIN opts, "retryIntervals") \in Seq(Nat)
         /\ LastOf(opts, DOMAIN opts, "countdown") \in Int \cup {Nil}
<1>1. \A i \in DOMAIN opts : opts[i] \in Option
  OBVIOUS
<1>2. /\ newOptions.maxRetries \in Nat /\ newOptions.ttl \in Nat /\ newOptions.timeout \in Nat
      /\ newOptions.retryIntervals \in Seq(Nat) /\ newOptions.countdown = Nil
  BY DEF newOptions, Ticks
<1>3. \A o \in Option : o.field = "countdown" => o.value \in Int \cup {Nil}
  BY DEF Option
<1>4. LastOf(opts, DOMAIN opts, "maxRetries") \in Nat
  BY <1>1, <1>2, LastGiven, OptionTypes
<1>5. LastOf(opts, DOMAIN opts, "ttl") \in Nat
  BY <1>1, <1>2, LastGiven, OptionTypes
<1>6. LastOf(opts, DOMAIN opts, "timeout") \in Nat
  BY <1>1, <1>2, LastGiven, OptionTypes
<1>7. LastOf(opts, DOMAIN opts, "retryIntervals") \in Seq(Nat)
  BY <1>1, <1>2, LastGiven, OptionTypes
<1>8. LastOf(opts, DOMAIN opts, "countdown") \in Int \cup {Nil}
  BY <1>1, <1>2, <1>3, LastGiven
<1>9. QED
  BY <1>4, <1>5, <1>6, <1>7, <1>8

LEMMA AskedIsLast ==
  ASSUME NEW field
  PROVE  Asked(field) = LastOf(Given, DOMAIN Given, field)
BY Zenon DEF Asked, LastOf, Latest, Given

\* The settings that are asked for are those NewTask works with.
LEMMA AskedFacts ==
  ASSUME engine \in Seq(Option), options \in Seq(Option)
  PROVE  /\ Asked("maxRetries") \in Nat /\ Asked("ttl") \in Nat /\ Asked("timeout") \in Nat
         /\ Asked("retryIntervals") \in Seq(Nat) /\ Asked("countdown") \in Int \cup {Nil}
         /\ \A field \in AllFields : Effective(engine, options)[field] = Asked(field)
<1>1. Given \in Seq(Option)
  BY DEF Given
<1>2. Effective(engine, options) = Applied(Given, DOMAIN Given)
  BY <1>1, ConfiguredApplies DEF Effective, Given
<1>3. \A field \in AllFields : Effective(engine, options)[field] = Asked(field)
  BY <1>2, AskedIsLast DEF Applied
<1>4. QED
  BY <1>1, <1>3, LastTyped, AskedIsLast

\* The options a request is turned into are options of the engine's kind.
LEMMA RequestTyped ==
  ASSUME NEW req \in Requests
  PROVE  RequestOptions(req) \in Seq(Option)
<1> DEFINE given(field) == IF field \in DOMAIN req THEN <<With(field, req[field])>> ELSE <<>>
           kept == IF given("retryIntervals") = <<WithRetryIntervals(<<>>)>> THEN <<>>
                   ELSE given("retryIntervals")
<1>1. \A field \in DOMAIN newOptions : given(field) \in Seq(Option)
  BY OptionsAssumption
<1>2. {"countdown", "ttl", "maxRetries", "retryIntervals", "timeout"} = DOMAIN newOptions
  BY DEF newOptions
<1>3. /\ given("countdown") \in Seq(Option) /\ given("ttl") \in Seq(Option)
      /\ given("maxRetries") \in Seq(Option) /\ given("timeout") \in Seq(Option)
      /\ kept \in Seq(Option)
  BY <1>1, <1>2
<1>4. RequestOptions(req) = given("countdown") \o given("ttl") \o given("maxRetries")
                              \o kept \o given("timeout")
  BY Zenon DEF RequestOptions
<1> HIDE DEF given, kept
<1>5. QED
  BY <1>3, <1>4

-----------------------------------------------------------------------------
(* The task and its hash.                                                  *)

TaskType ==
  [status : Statuses, old : Statuses, payload : Payloads, retries : Int,
   intervals : Seq(Nat), ttl : Nat, timeout : Nat, eta : Int]

Times == [from : Nat, to : Nat, how : {"running", "succeeded", "failed", "canceled"}]

\* What Redis holds after Serialize of a task into a hash that is there already.
LEMMA SaveFacts ==
  ASSUME NEW t \in TaskType, NEW old, NEW new, new = HMSet(old, Serialize(t))
  PROVE  /\ DOMAIN old \subseteq DOMAIN new
         /\ {"status", "max_retries", "ttl", "timeout"} \subseteq DOMAIN new
         /\ new.status = t.status /\ new.max_retries = t.retries
         /\ new.ttl = Seconds(t.ttl) /\ new.timeout = Seconds(t.timeout)
         /\ "payload" \in DOMAIN new => new.payload = t.payload \/ (new.payload = old.payload /\ "payload" \in DOMAIN old)
         /\ "eta" \in DOMAIN new => new.eta \in Int \/ (new.eta = old.eta /\ "eta" \in DOMAIN old)
         /\ t.intervals # <<>> =>
              /\ "retry_intervals" \in DOMAIN new
              /\ new.retry_intervals = [i \in DOMAIN t.intervals |-> Seconds(t.intervals[i])]
         /\ t.intervals = <<>> => ("retry_intervals" \in DOMAIN new <=> "retry_intervals" \in DOMAIN old)
<1> DEFINE all == {"status", "max_retries", "payload", "ttl", "timeout", "eta", "retry_intervals"}
           skip == (IF t.eta = NoETA THEN {"eta"} ELSE {})
                     \cup (IF t.payload = Nil THEN {"payload"} ELSE {})
                     \cup (IF t.intervals = <<>> THEN {"retry_intervals"} ELSE {})
           f == Fields(t)
           data == Serialize(t)
<1>1. DOMAIN f = all
  BY DEF Fields
<1>2. data = [x \in all \ skip |-> f[x]]
  BY <1>1, Zenon DEF Serialize, Written, Restrict
<1>3. /\ f.status = t.status /\ f.max_retries = t.retries /\ f.payload = t.payload
      /\ f.ttl = Seconds(t.ttl) /\ f.timeout = Seconds(t.timeout) /\ f.eta = Seconds(t.eta)
      /\ f.retry_intervals = [i \in DOMAIN t.intervals |-> Seconds(t.intervals[i])]
  BY DEF Fields
<1>4. Seconds(t.eta) \in Int
  BY SecondFacts DEF TaskType
<1> HIDE DEF f, data
<1>5. DOMAIN data = all \ skip /\ \A x \in DOMAIN data : data[x] = f[x]
  BY <1>2
<1>6. /\ new = [x \in DOMAIN data \cup DOMAIN old |-> IF x \in DOMAIN data THEN data[x] ELSE old[x]]
  BY Zenon DEF HMSet, data
<1>7. DOMAIN new = DOMAIN data \cup DOMAIN old
  BY <1>6
<1>8. \A x \in DOMAIN data : new[x] = data[x]
  BY <1>6
<1>9. \A x \in DOMAIN old \ DOMAIN data : new[x] = old[x]
  BY <1>6
<1>10. \A x \in all \ skip : x \in DOMAIN new /\ new[x] = f[x]
  BY <1>5, <1>7, <1>8
<1>11. \A x \in DOMAIN new : new[x] = f[x] \/ (new[x] = old[x] /\ x \in DOMAIN old)
  <2>1. TAKE x \in DOMAIN new
  <2>2. CASE x \in DOMAIN data
    BY <1>5, <1>8, <2>2
  <2>3. CASE x \notin DOMAIN data
    BY <1>7, <1>9, <2>3
  <2>4. QED
    BY <2>2, <2>3
<1>12. {"status", "max_retries", "ttl", "timeout"} \subseteq all \ skip
  OBVIOUS
<1>13. "payload" \in DOMAIN new => new.payload = t.payload \/ (new.payload = old.payload /\ "payload" \in DOMAIN old)
  BY <1>3, <1>11
<1>14. "eta" \in DOMAIN new => new.eta \in Int \/ (new.eta = old.eta /\ "eta" \in DOMAIN old)
  BY <1>3, <1>4, <1>11
<1>15. t.intervals # <<>> => "retry_intervals" \in all \ skip
  OBVIOUS
<1>16. t.intervals = <<>> => "retry_intervals" \notin all \ skip
  OBVIOUS
<1> HIDE DEF skip, all
<1>17. QED
  BY <1>3, <1>5, <1>7, <1>10, <1>12, <1>13, <1>14, <1>15, <1>16

\* What is read of a complete hash.
LEMMA ReadFacts ==
  ASSUME NEW h, NEW t, t = TaskFromPayload(h), "timeout" \in DOMAIN h,
         NEW intervals \in Seq(Nat), NEW ttl \in Nat, NEW timeout \in Nat,
         h.status \in Statuses, h.max_retries \in Int, h.payload \in Payloads,
         h.ttl = Seconds(ttl), h.timeout = Seconds(timeout),
         "eta" \in DOMAIN h => h.eta \in Int,
         "retry_intervals" \in DOMAIN h <=> intervals # <<>>,
         intervals # <<>> =>
           h.retry_intervals = [i \in DOMAIN intervals |-> Seconds(intervals[i])]
  PROVE  /\ t \in TaskType
         /\ t.status = h.status /\ t.retries = h.max_retries
         /\ t.ttl = Whole(ttl) /\ t.timeout = Whole(timeout)
         /\ t.intervals = [i \in DOMAIN intervals |-> Whole(intervals[i])]
<1> DEFINE eta == IF "eta" \in DOMAIN h THEN Ticks(h.eta) ELSE NoETA
           given == IF "retry_intervals" \notin DOMAIN h THEN <<>>
                    ELSE [i \in DOMAIN h.retry_intervals |-> Ticks(h.retry_intervals[i])]
           whole == [i \in DOMAIN intervals |-> Whole(intervals[i])]
<1>1. t = [status |-> h.status, old |-> h.status, payload |-> h.payload,
           retries |-> h.max_retries, intervals |-> given, ttl |-> Ticks(h.ttl),
           timeout |-> Ticks(h.timeout), eta |-> eta]
  BY Zenon DEF TaskFromPayload
<1>2. eta \in Int
  BY TickFacts DEF NoETA
<1>3. \A i \in DOMAIN intervals : intervals[i] \in Nat /\ Whole(intervals[i]) \in Nat
  <2>1. \A i \in DOMAIN intervals : intervals[i] \in Nat
    OBVIOUS
  <2>2. QED
    BY <2>1, WholeFacts
<1>4. whole \in Seq(Nat)
  <2>1. DOMAIN intervals = 1..Len(intervals) /\ Len(intervals) \in Nat
    OBVIOUS
  <2>2. QED
    BY <1>3, <2>1
<1>5. given = whole
  <2>1. CASE intervals = <<>>
    BY <2>1
  <2>2. CASE intervals # <<>>
    <3>1. DOMAIN h.retry_intervals = DOMAIN intervals
      BY <2>2
    <3>2. \A i \in DOMAIN intervals : Ticks(h.retry_intervals[i]) = Whole(intervals[i])
      BY <2>2 DEF Whole
    <3>3. QED
      BY <2>2, <3>1, <3>2
  <2>3. QED
    BY <2>1, <2>2
<1>6. Ticks(h.ttl) = Whole(ttl) /\ Ticks(h.timeout) = Whole(timeout)
  BY DEF Whole
<1>7. Whole(ttl) \in Nat /\ Whole(timeout) \in Nat
  BY WholeFacts
<1> HIDE DEF eta, given, whole
<1>8. t \in TaskType
  BY <1>1, <1>2, <1>4, <1>5, <1>6, <1>7 DEF TaskType
<1>9. QED
  BY <1>1, <1>5, <1>6, <1>8 DEF whole

-----------------------------------------------------------------------------
(* The inductive invariant.                                                *)

Typed ==
  /\ now \in Nat /\ waits \in Nat
  /\ engine \in Seq(Option) /\ options \in Seq(Option)
  /\ task \in TaskType
  /\ due \in Int
  /\ at \in {"queued", "running", "over"}
  /\ attempts \in Seq(Times)

\* The hash is that of the task, in whole seconds of what was asked for.
HashInv ==
  LET intervals == Asked("retryIntervals")
  IN /\ {"status", "max_retries", "ttl", "timeout"} \subseteq DOMAIN hash
     /\ hash.status = task.status /\ hash.max_retries = task.retries
     /\ hash.ttl = Seconds(Asked("ttl")) /\ hash.timeout = Seconds(Asked("timeout"))
     /\ "payload" \in DOMAIN hash => hash.payload \in Payloads
     /\ "eta" \in DOMAIN hash => hash.eta \in Int
     /\ "retry_intervals" \in DOMAIN hash <=> intervals # <<>>
     /\ intervals # <<>> =>
          hash.retry_intervals = [i \in DOMAIN intervals |-> Seconds(intervals[i])]
     /\ attempts # <<>> => "payload" \in DOMAIN hash

\* Every attempt but the one that runs has used up a retry.
CountInv ==
  LET retries == Asked("maxRetries")
  IN /\ at = "queued" => /\ task.retries = retries - Len(attempts) /\ task.retries >= 0
                         /\ task.status = "failed" => attempts # <<>>
     /\ at = "running" => /\ task.retries = retries + 1 - Len(attempts) /\ task.retries >= 0
                          /\ attempts # <<>>
     /\ at = "over" => /\ Len(attempts) <= retries + 1
                       /\ task.status = "failed" => Len(attempts) = retries + 1

\* While the task waits for a retry, it is not due before its interval is over.
WaitInv ==
  LET intervals == Asked("retryIntervals")
      first == Len(intervals) - Asked("maxRetries")
  IN first >= 0 /\ at = "queued" /\ attempts # <<>> =>
       Ticks(due) - attempts[Len(attempts)].to > Whole(intervals[first + Len(attempts)]) - TicksPerSecond

IInv == Typed /\ HashInv /\ CountInv /\ SettingsStable /\ RetriesSpaced /\ WaitInv

-----------------------------------------------------------------------------
(* The initial states.                                                     *)

LEMMA InitFacts ==
  ASSUME Init
  PROVE  IInv
<1> USE RetriesAssumption
<1>1. engine \in Seq(Option) /\ options \in Seq(Option)
  BY RequestTyped, OptionsAssumption DEF Init
<1> DEFINE E == Effective(engine, options)
<1>2. PICK payload \in Payloads : task = NewTask(payload, E, now)
  BY DEF Init
<1>3. /\ E.maxRetries = Asked("maxRetries") /\ E.ttl = Asked("ttl") /\ E.timeout = Asked("timeout")
      /\ E.retryIntervals = Asked("retryIntervals") /\ E.countdown = Asked("countdown")
  BY <1>1, AskedFacts DEF AllFields, newOptions
<1>4. /\ Asked("maxRetries") \in Nat /\ Asked("ttl") \in Nat /\ Asked("timeout") \in Nat
      /\ Asked("retryIntervals") \in Seq(Nat) /\ Asked("countdown") \in Int \cup {Nil}
  BY <1>1, AskedFacts
<1> HIDE DEF E
<1>5. now = 1 /\ waits = 0 /\ at = "queued" /\ attempts = <<>> /\ due = DueSecond(task.eta)
      /\ hash = Serialize(task)
  BY DEF Init
<1> DEFINE eta == IF E.countdown = Nil THEN NoETA ELSE now + E.countdown
<1>6. eta \in Int
  BY <1>3, <1>4, <1>5 DEF NoETA
<1>7. task = [status |-> "waiting", old |-> "waiting", payload |-> payload,
              retries |-> E.maxRetries, intervals |-> E.retryIntervals,
              ttl |-> E.ttl, timeout |-> E.timeout, eta |-> eta]
  BY <1>2, Zenon DEF NewTask
<1> HIDE DEF eta
<1>8. /\ task \in TaskType /\ task.status = "waiting" /\ task.retries = Asked("maxRetries")
      /\ task.intervals = Asked("retryIntervals")
      /\ task.ttl = Asked("ttl") /\ task.timeout = Asked("timeout")
  BY <1>3, <1>4, <1>6, <1>7 DEF TaskType, Statuses
<1>9. due \in Int
  <2>1. task.eta \in Int
    BY <1>8 DEF TaskType
  <2>2. QED
    BY <1>5, <2>1, SecondFacts DEF DueSecond
<1>10. Typed
  BY <1>1, <1>5, <1>8, <1>9 DEF Typed
<1>11. HashInv
  <2> DEFINE none == [x \in {} |-> 0]
  <2>1. hash = HMSet(none, Serialize(task))
    <3> DEFINE data == Serialize(task)
    <3>1. data = [x \in DOMAIN data |-> data[x]]
      BY Zenon DEF Serialize, Written, Restrict
    <3>2. DOMAIN none = {}
      OBVIOUS
    <3> HIDE DEF data, none
    <3>3. HMSet(none, data) = [x \in DOMAIN data |-> data[x]]
      BY <3>2 DEF HMSet
    <3>4. QED
      BY <1>5, <3>1, <3>3 DEF data
  <2>2. DOMAIN none = {}
    OBVIOUS
  <2> HIDE DEF none
  <2>3. task.payload \in Payloads
    BY <1>8 DEF TaskType
  <2>4. /\ {"status", "max_retries", "ttl", "timeout"} \subseteq DOMAIN hash
        /\ hash.status = task.status /\ hash.max_retries = task.retries
        /\ hash.ttl = Seconds(task.ttl) /\ hash.timeout = Seconds(task.timeout)
        /\ "payload" \in DOMAIN hash => hash.payload = task.payload
        /\ "eta" \in DOMAIN hash => hash.eta \in Int
        /\ task.intervals # <<>> =>
             /\ "retry_intervals" \in DOMAIN hash
             /\ hash.retry_intervals = [i \in DOMAIN task.intervals |-> Seconds(task.intervals[i])]
        /\ task.intervals = <<>> => "retry_intervals" \notin DOMAIN hash
    BY <1>8, <2>1, <2>2, SaveFacts
  <2>5. QED
    BY <1>5, <1>8, <2>3, <2>4 DEF HashInv
<1>12. CountInv
  BY <1>4, <1>5, <1>8 DEF CountInv
<1>13. SettingsStable /\ WaitInv
  BY <1>5 DEF SettingsStable, WaitInv
<1>14. RetriesSpaced
  BY <1>5 DEF RetriesSpaced
<1>15. QED
  BY <1>10, <1>11, <1>12, <1>13, <1>14 DEF IInv

-----------------------------------------------------------------------------
(* The steps.                                                              *)

\* What is asked for does not change.
LEMMA SameAsked ==
  ASSUME UNCHANGED <<engine, options>>, NEW field
  PROVE  Asked(field)' = Asked(field)
BY DEF Asked

LEMMA TickStep ==
  ASSUME IInv, Tick
  PROVE  IInv'
<1> USE DEF IInv
<1>1. UNCHANGED <<engine, options, task, hash, due, at, attempts>>
  BY DEF Tick
<1>2. due \in Int /\ task.timeout \in Nat /\ now \in Nat /\ waits \in Nat
  BY DEF Typed, TaskType
<1>3. ASSUME at = "running" PROVE attempts[Len(attempts)].from \in Nat
  <2>1. attempts \in Seq(Times) /\ attempts # <<>>
    BY <1>3 DEF Typed, CountInv
  <2>2. attempts[Len(attempts)] \in Times
    BY <2>1
  <2>3. QED
    BY <2>2 DEF Times
<1>4. Horizon \in Int
  <2>1. Ticks(due) \in Int
    BY <1>2, TickFacts
  <2>2. CASE at = "running"
    BY <1>2, <1>3, <2>2 DEF Horizon, Last
  <2>3. CASE at # "running"
    BY <1>2, <2>1, <2>3 DEF Horizon
  <2>4. QED
    BY <2>2, <2>3
<1>5. now' \in Nat /\ waits' \in Nat
  <2>1. CASE waits < MaxWaits /\ waits' = waits + 1 /\ now' = now + 1
    BY <1>2, <2>1
  <2>2. CASE Horizon > now + 1 /\ now' = Horizon - 1 /\ UNCHANGED waits
    BY <1>2, <1>4, <2>2
  <2>3. QED
    BY <2>1, <2>2 DEF Tick
<1>6. \A field : Asked(field)' = Asked(field)
  BY <1>1, SameAsked
<1>7. Typed'
  BY <1>1, <1>5 DEF Typed
<1>8. HashInv' /\ CountInv' /\ WaitInv'
  BY <1>1, <1>6 DEF HashInv, CountInv, WaitInv
<1>9. SettingsStable' /\ RetriesSpaced'
  BY <1>1, <1>6 DEF SettingsStable, RetriesSpaced
<1>10. QED
  BY <1>7, <1>8, <1>9

\* What a consumer reads when it gets a complete payload.
LEMMA ReceivedFacts ==
  ASSUME IInv, Complete(hash), NEW read, read = TaskFromPayload(hash)
  PROVE  /\ read \in TaskType /\ read.status = task.status /\ read.retries = task.retries
         /\ read.ttl = Whole(Asked("ttl")) /\ read.timeout = Whole(Asked("timeout"))
         /\ read.intervals = [i \in DOMAIN Asked("retryIntervals") |->
                                Whole(Asked("retryIntervals")[i])]
<1>1. /\ Asked("ttl") \in Nat /\ Asked("timeout") \in Nat /\ Asked("retryIntervals") \in Seq(Nat)
  BY AskedFacts DEF IInv, Typed
<1>2. task.status \in Statuses /\ task.retries \in Int
  BY DEF IInv, Typed, TaskType
<1>3. "payload" \in DOMAIN hash
  BY DEF Complete
<1>4. /\ "timeout" \in DOMAIN hash /\ hash.status = task.status /\ hash.max_retries = task.retries
      /\ hash.payload \in Payloads
      /\ hash.ttl = Seconds(Asked("ttl")) /\ hash.timeout = Seconds(Asked("timeout"))
      /\ "eta" \in DOMAIN hash => hash.eta \in Int
      /\ "retry_intervals" \in DOMAIN hash <=> Asked("retryIntervals") # <<>>
      /\ Asked("retryIntervals") # <<>> =>
           hash.retry_intervals = [i \in DOMAIN Asked("retryIntervals") |->
                                     Seconds(Asked("retryIntervals")[i])]
  BY <1>3 DEF IInv, HashInv
<1>5. QED
  BY <1>1, <1>2, <1>4, ReadFacts

\* Saving a task with the settings that were asked for keeps HashInv.
LEMMA HashKept ==
  ASSUME IInv, UNCHANGED <<engine, options>>, task' \in TaskType, "payload" \in DOMAIN hash,
         hash' = HMSet(hash, Serialize(task')),
         task'.ttl = Whole(Asked("ttl")), task'.timeout = Whole(Asked("timeout")),
         task'.intervals = [i \in DOMAIN Asked("retryIntervals") |->
                              Whole(Asked("retryIntervals")[i])]
  PROVE  HashInv'
<1> DEFINE I == Asked("retryIntervals")
           t == task'
           h == hash'
<1>1. Asked("ttl") \in Nat /\ Asked("timeout") \in Nat /\ I \in Seq(Nat)
  BY AskedFacts DEF IInv, Typed
<1>2. Seconds(t.ttl) = Seconds(Asked("ttl")) /\ Seconds(t.timeout) = Seconds(Asked("timeout"))
  BY <1>1, WholeAgain
<1>3. DOMAIN t.intervals = DOMAIN I
  OBVIOUS
<1>4. t.intervals = <<>> <=> I = <<>>
  BY <1>1, <1>3
<1>5. [i \in DOMAIN t.intervals |-> Seconds(t.intervals[i])] = [i \in DOMAIN I |-> Seconds(I[i])]
  <2>1. \A i \in DOMAIN I : Seconds(t.intervals[i]) = Seconds(I[i])
    BY <1>1, WholeAgain
  <2>2. QED
    BY <1>3, <2>1
<1>6. \A field : Asked(field)' = Asked(field)
  BY SameAsked
<1>7. t.payload \in Payloads
  BY DEF TaskType
<1>8. /\ "payload" \in DOMAIN hash => hash.payload \in Payloads
      /\ "eta" \in DOMAIN hash => hash.eta \in Int
      /\ "retry_intervals" \in DOMAIN hash <=> I # <<>>
  BY DEF IInv, HashInv
<1> HIDE DEF I, t, h
<1>9. t \in TaskType /\ h = HMSet(hash, Serialize(t))
  BY DEF t, h
<1>10. /\ DOMAIN hash \subseteq DOMAIN h
       /\ {"status", "max_retries", "ttl", "timeout"} \subseteq DOMAIN h
       /\ h.status = t.status /\ h.max_retries = t.retries
       /\ h.ttl = Seconds(t.ttl) /\ h.timeout = Seconds(t.timeout)
       /\ "payload" \in DOMAIN h => h.payload = t.payload \/ (h.payload = hash.payload /\ "payload" \in DOMAIN hash)
       /\ "eta" \in DOMAIN h => h.eta \in Int \/ (h.eta = hash.eta /\ "eta" \in DOMAIN hash)
       /\ t.intervals # <<>> =>
            /\ "retry_intervals" \in DOMAIN h
            /\ h.retry_intervals = [i \in DOMAIN t.intervals |-> Seconds(t.intervals[i])]
       /\ t.intervals = <<>> => ("retry_intervals" \in DOMAIN h <=> "retry_intervals" \in DOMAIN hash)
  BY <1>9, SaveFacts
<1>11. "payload" \in DOMAIN h => h.payload \in Payloads
  BY <1>7, <1>8, <1>10
<1>12. "eta" \in DOMAIN h => h.eta \in Int
  BY <1>8, <1>10
<1>13. "retry_intervals" \in DOMAIN h <=> I # <<>>
  BY <1>4, <1>8, <1>10
<1>14. I # <<>> => h.retry_intervals = [i \in DOMAIN I |-> Seconds(I[i])]
  BY <1>4, <1>5, <1>10
<1>15. "payload" \in DOMAIN h
  BY <1>10
<1>16. QED
  BY <1>2, <1>6, <1>10, <1>11, <1>12, <1>13, <1>14, <1>15 DEF HashInv, I, t, h

\* A task with the settings that were asked for makes SettingsStable.
LEMMA SettledFacts ==
  ASSUME Typed, UNCHANGED <<engine, options>>,
         task'.ttl = Whole(Asked("ttl")), task'.timeout = Whole(Asked("timeout")),
         task'.intervals = [i \in DOMAIN Asked("retryIntervals") |->
                              Whole(Asked("retryIntervals")[i])],
         task' \in TaskType
  PROVE  SettingsStable'
<1>1. \A field : Asked(field)' = Asked(field)
  BY SameAsked
<1>2. Asked("retryIntervals") \in Seq(Nat) /\ task'.intervals \in Seq(Nat)
  BY AskedFacts DEF Typed, TaskType
<1>3. DOMAIN task'.intervals = DOMAIN Asked("retryIntervals")
  OBVIOUS
<1>4. Len(task'.intervals) = Len(Asked("retryIntervals"))
  BY <1>2, <1>3
<1>5. QED
  BY <1>1, <1>3, <1>4 DEF SettingsStable

LEMMA ReceiveStep ==
  ASSUME IInv, Receive
  PROVE  IInv'
<1> DEFINE R == Asked("maxRetries")
           I == Asked("retryIntervals")
           first == Len(I) - R
           n == Len(attempts)
           read == TaskFromPayload(hash)
<1>1. at = "queued" /\ due <= Seconds(now) /\ UNCHANGED <<now, waits, engine, options, due>>
  BY DEF Receive
<1>2. \A field : Asked(field)' = Asked(field)
  BY <1>1, SameAsked
<1>3. /\ Typed /\ HashInv /\ CountInv /\ RetriesSpaced /\ WaitInv
      /\ attempts \in Seq(Times) /\ n \in Nat /\ now \in Nat /\ due \in Int
  BY DEF IInv, Typed
<1>4. R \in Nat /\ I \in Seq(Nat) /\ Asked("timeout") \in Nat
  BY <1>3, AskedFacts DEF Typed
<1>5. task.retries = R - n /\ task.retries >= 0 /\ (task.status = "failed" => attempts # <<>>)
  BY <1>1, <1>3 DEF CountInv
<1>6. CASE ~Complete(hash)
  <2>1. at' = "over" /\ UNCHANGED <<task, hash, attempts>>
    BY <1>6 DEF Receive
  <2>2. attempts = <<>>
    BY <1>3, <1>6 DEF HashInv, Complete
  <2>3. Typed' /\ HashInv'
    BY <1>1, <1>2, <1>3, <2>1 DEF Typed, HashInv
  <2>4. CountInv'
    BY <1>2, <1>4, <1>5, <2>1, <2>2 DEF CountInv
  <2>5. SettingsStable' /\ RetriesSpaced' /\ WaitInv'
    BY <1>1, <1>2, <1>3, <2>1, <2>2 DEF SettingsStable, RetriesSpaced, WaitInv
  <2>6. QED
    BY <2>3, <2>4, <2>5 DEF IInv
<1>7. CASE Complete(hash)
  <2>1. /\ read \in TaskType /\ read.status = task.status /\ read.retries = task.retries
        /\ read.ttl = Whole(Asked("ttl")) /\ read.timeout = Whole(Asked("timeout"))
        /\ read.intervals = [i \in DOMAIN I |-> Whole(I[i])]
    BY <1>7, ReceivedFacts
  <2>2. CASE read.status = "canceled"
    <3>1. at' = "over" /\ task' = read /\ UNCHANGED <<hash, attempts>>
      BY <1>7, <2>2 DEF Receive
    <3> HIDE DEF read
    <3>2. Typed'
      BY <1>1, <1>3, <2>1, <3>1 DEF Typed
    <3>3. HashInv'
      BY <1>1, <1>2, <1>3, <2>1, <3>1 DEF HashInv
    <3>4. CountInv'
      BY <1>2, <1>3, <1>4, <1>5, <2>2, <3>1 DEF CountInv
    <3>5. SettingsStable' /\ RetriesSpaced' /\ WaitInv'
      BY <1>1, <1>2, <1>3, <3>1 DEF SettingsStable, RetriesSpaced, WaitInv
    <3>6. QED
      BY <3>2, <3>3, <3>4, <3>5 DEF IInv
  <2>3. CASE read.status # "canceled"
    <3> DEFINE new == [from |-> now, to |-> now, how |-> "running"]
    <3>1. /\ at' = "running" /\ task' = [read EXCEPT !.status = "processing"]
          /\ hash' = HMSet(hash, Serialize(task'))
          /\ attempts' = Append(attempts, new)
      BY <1>7, <2>3, Zenon DEF Receive
    <3> HIDE DEF read
    <3>2. /\ task' \in TaskType /\ task'.status = "processing" /\ task'.retries = R - n
          /\ task'.ttl = Whole(Asked("ttl")) /\ task'.timeout = Whole(Asked("timeout"))
          /\ task'.intervals = [i \in DOMAIN I |-> Whole(I[i])]
      BY <1>5, <2>1, <3>1 DEF TaskType, Statuses
    <3>3. new \in Times
      BY <1>3 DEF Times
    <3>4. attempts' \in Seq(Times) /\ Len(attempts') = n + 1 /\ attempts'[n + 1] = new
          /\ (\A k \in 1..n : attempts'[k] = attempts[k]) /\ attempts' # <<>>
      <4>1. attempts' = Append(attempts, new)
        BY <3>1
      <4> HIDE DEF new
      <4>2. QED
        BY <1>3, <3>3, <4>1, AppendProperties
    <3>5. Typed'
      BY <1>1, <1>3, <3>1, <3>2, <3>4 DEF Typed
    <3>6. HashInv'
      BY <1>1, <1>7, <3>1, <3>2, HashKept DEF Complete
    <3>7. CountInv'
      BY <1>2, <1>3, <1>4, <1>5, <3>1, <3>2, <3>4 DEF CountInv
    <3>8. SettingsStable'
      BY <1>1, <1>3, <3>2, SettledFacts
    <3>9. WaitInv'
      BY <3>1 DEF WaitInv
    <3>10. RetriesSpaced'
      <4>1. SUFFICES ASSUME first >= 0, NEW k \in 1..(Len(attempts') - 1)
                     PROVE  attempts'[k + 1].from - attempts'[k].to > Whole(I[first + k]) - TicksPerSecond
        BY <1>2 DEF RetriesSpaced
      <4>2. CASE k < n
        <5>1. k \in 1..(n - 1) /\ k \in 1..n /\ k + 1 \in 1..n
          BY <1>3, <3>4, <4>2
        <5>2. attempts[k + 1].from - attempts[k].to > Whole(I[first + k]) - TicksPerSecond
          BY <1>3, <4>1, <5>1 DEF RetriesSpaced
        <5>3. QED
          BY <3>4, <5>1, <5>2
      <4>3. CASE k = n
        <5>1. n \in 1..n /\ attempts # <<>> /\ attempts[n] \in Times
          BY <1>3, <3>4, <4>3
        <5>2. Ticks(due) - attempts[n].to > Whole(I[first + n]) - TicksPerSecond
          BY <1>1, <1>3, <4>1, <5>1 DEF WaitInv
        <5>3. attempts'[n].to = attempts[n].to /\ attempts[n].to \in Nat /\ attempts'[n + 1].from = now
          BY <3>4, <5>1 DEF Times
        <5>4. Ticks(due) \in Int /\ Ticks(due) <= now
          <6>1. Seconds(now) \in Int /\ Ticks(Seconds(now)) \in Int /\ Ticks(Seconds(now)) <= now
            <7>1. now \in Int
              BY <1>3
            <7>2. QED
              BY <7>1, SecondFacts
          <6>2. Ticks(due) \in Int /\ Ticks(due) <= Ticks(Seconds(now))
            BY <1>1, <1>3, <6>1, TickFacts
          <6>3. QED
            BY <1>3, <6>1, <6>2
        <5>5. I[first + n] \in Nat
          <6>1. n <= R
            BY <1>3, <1>4, <1>5
          <6>2. first + n \in 1..Len(I)
            BY <1>3, <1>4, <4>1, <5>1, <6>1
          <6>3. QED
            BY <1>4, <6>2
        <5>6. Whole(I[first + n]) \in Nat
          BY <5>5, WholeFacts
        <5>7. now - attempts[n].to > Whole(I[first + n]) - TicksPerSecond
          <6> DEFINE wait == Whole(I[first + n])
                     to == attempts[n].to
          <6>1. Ticks(due) - to > wait - TicksPerSecond
            BY <5>2
          <6>2. now \in Nat /\ to \in Nat /\ wait \in Nat /\ Ticks(due) \in Int /\ Ticks(due) <= now
            BY <1>3, <5>3, <5>4, <5>6
          <6> HIDE DEF wait, to
          <6>3. now - to > wait - TicksPerSecond
            BY <6>1, <6>2
          <6>4. QED
            BY <6>3 DEF wait, to
        <5>8. QED
          BY <4>3, <5>3, <5>7
      <4>4. QED
        BY <1>3, <3>4, <4>2, <4>3
    <3>11. QED
      BY <3>5, <3>6, <3>7, <3>8, <3>9, <3>10 DEF IInv
  <2>4. QED
    BY <2>2, <2>3
<1>8. QED
  BY <1>6, <1>7

LEMMA ReverseFacts ==
  ASSUME NEW s \in Seq(Nat)
  PROVE  /\ Reverse(s) \in Seq(Nat) /\ Len(Reverse(s)) = Len(s)
         /\ \A j \in 1..Len(s) : Reverse(s)[j] = s[Len(s) - j + 1]
<1> DEFINE n == Len(s)
           r == Reverse(s)
<1>1. n \in Nat /\ \A i \in 1..n : s[i] \in Nat
  OBVIOUS
<1>2. r = [i \in 1..n |-> s[n - i + 1]]
  BY Zenon DEF Reverse
<1>3. \A i \in 1..n : n - i + 1 \in 1..n
  BY <1>1
<1> HIDE DEF n, r
<1>4. r \in [1..n -> Nat]
  BY <1>1, <1>2, <1>3
<1>5. r \in Seq(Nat) /\ Len(r) = n
  BY <1>1, <1>4
<1>6. QED
  BY <1>2, <1>5 DEF n, r

\* handleError leaves a task that ends or that waits for its interval.
LEMMA EndStep ==
  ASSUME IInv, NEW status \in {"succeeded", "failed", "canceled"}, End(status)
  PROVE  IInv'
<1> DEFINE R == Asked("maxRetries")
           I == Asked("retryIntervals")
           first == Len(I) - R
           n == Len(attempts)
           result == [task EXCEPT !.status = status]
           again == [result EXCEPT !.retries = @ - 1]
           last == status = "succeeded" \/ task.retries = 0
           eta == RetryETA(again, now)
           ended == [attempts[n] EXCEPT !.to = now, !.how = status]
<1>1. /\ at = "running" /\ UNCHANGED <<now, waits, engine, options>>
      /\ attempts' = [attempts EXCEPT ![n] = ended]
      /\ task' = IF last THEN result ELSE [again EXCEPT !.eta = eta]
      /\ hash' = HMSet(hash, Serialize(task'))
      /\ at' = IF last THEN "over" ELSE "queued"
      /\ due' = IF last THEN due ELSE DueSecond(task'.eta)
  BY Zenon DEF End
<1>2. \A field : Asked(field)' = Asked(field)
  BY <1>1, SameAsked
<1>3. /\ Typed /\ HashInv /\ CountInv /\ RetriesSpaced /\ SettingsStable
      /\ attempts \in Seq(Times) /\ n \in Nat /\ now \in Nat /\ due \in Int /\ task \in TaskType
  BY DEF IInv, Typed
<1>4. R \in Nat /\ I \in Seq(Nat)
  BY <1>3, AskedFacts DEF Typed
<1>5. task.retries = R + 1 - n /\ task.retries >= 0 /\ attempts # <<>>
  BY <1>1, <1>3 DEF CountInv
<1>6. /\ task.ttl = Whole(Asked("ttl")) /\ task.timeout = Whole(Asked("timeout"))
      /\ Len(task.intervals) = Len(I) /\ \A i \in DOMAIN task.intervals : task.intervals[i] = Whole(I[i])
  BY <1>1, <1>3 DEF SettingsStable
<1>7. task.intervals \in Seq(Nat) /\ task.intervals = [i \in DOMAIN I |-> Whole(I[i])]
  <2>1. task.intervals \in Seq(Nat)
    BY <1>3 DEF TaskType
  <2>2. DOMAIN task.intervals = DOMAIN I
    BY <1>4, <1>6, <2>1
  <2>3. QED
    BY <1>6, <2>1, <2>2
<1>8. n \in 1..n /\ n \in Nat \ {0} /\ attempts[n] \in Times
  BY <1>3, <1>5
<1>9. ended \in Times /\ ended.from = attempts[n].from /\ ended.to = now
  BY <1>3, <1>8 DEF Times
<1> HIDE DEF ended
<1>10. /\ attempts' \in Seq(Times) /\ Len(attempts') = n /\ attempts' # <<>> /\ attempts'[n] = ended
       /\ \A k \in 1..n : k # n => attempts'[k] = attempts[k]
  BY <1>1, <1>3, <1>8, <1>9
<1>11. /\ result \in TaskType /\ result.status = status /\ result.retries = task.retries
       /\ result.ttl = task.ttl /\ result.timeout = task.timeout
       /\ result.intervals = task.intervals /\ result.eta = task.eta
  BY <1>3 DEF TaskType, Statuses
<1> HIDE DEF result
<1>12. /\ again \in TaskType /\ again.status = status /\ again.retries = R - n
       /\ again.ttl = task.ttl /\ again.timeout = task.timeout
       /\ again.intervals = task.intervals
  <2>1. result.retries - 1 \in Int /\ result.retries - 1 = R - n
    BY <1>3, <1>4, <1>5, <1>11
  <2>2. again = [result EXCEPT !.retries = result.retries - 1]
    OBVIOUS
  <2> HIDE DEF again
  <2>3. again \in TaskType /\ again.retries = result.retries - 1
    BY <1>11, <2>1, <2>2 DEF TaskType
  <2>4. /\ again.status = result.status /\ again.ttl = result.ttl
        /\ again.timeout = result.timeout /\ again.intervals = result.intervals
    BY <1>11, <2>2 DEF TaskType
  <2>5. QED
    BY <1>11, <2>1, <2>3, <2>4
<1> HIDE DEF again
<1>13. ASSUME ~last PROVE n <= R
  BY <1>4, <1>5, <1>8, <1>13
\* The interval of this retry.
<1>14. ASSUME ~last PROVE eta \in Int /\ (first >= 0 => eta = now + Whole(I[first + n]) /\ Whole(I[first + n]) \in Nat)
  <2> DEFINE J == task.intervals
             rev == Reverse(J)
  <2>1. J \in Seq(Nat) /\ Len(J) \in Nat /\ Len(J) = Len(I)
    BY <1>6, <1>7
  <2>2. /\ rev \in Seq(Nat) /\ Len(rev) = Len(J)
        /\ \A j \in 1..Len(J) : rev[j] = J[Len(J) - j + 1]
    BY <2>1, ReverseFacts
  <2>3. eta = CASE again.retries >= Len(rev) -> again.eta
                [] again.retries < 0 -> IF rev = <<>> THEN NoETA ELSE Panic
                [] OTHER -> now + rev[again.retries + 1]
    BY <1>12, Zenon DEF RetryETA
  <2> HIDE DEF J, rev, eta
  <2>4. again.retries \in Nat
    BY <1>4, <1>12, <1>13, <1>14, <1>8
  <2>5. CASE again.retries >= Len(J)
    <3>1. eta = again.eta
      <4>1. again.retries >= Len(rev) /\ ~(again.retries < 0)
        BY <2>2, <2>4, <2>5
      <4>2. QED
        BY <2>3, <4>1, Zenon
    <3>2. ~(first >= 0)
      BY <1>4, <1>8, <1>12, <2>1, <2>5
    <3>3. QED
      BY <1>12, <3>1, <3>2 DEF TaskType
  <2>6. CASE ~(again.retries >= Len(J))
    <3>1. eta = now + rev[again.retries + 1]
      <4>1. ~(again.retries >= Len(rev)) /\ ~(again.retries < 0)
        BY <2>2, <2>4, <2>6
      <4>2. QED
        BY <2>3, <4>1
    <3>2. again.retries + 1 \in 1..Len(J) /\ Len(J) - (again.retries + 1) + 1 = first + n
          /\ first + n \in 1..Len(I)
      <4>1. again.retries = R - n /\ R \in Nat /\ n \in Nat \ {0} /\ Len(I) \in Nat /\ Len(J) = Len(I)
        BY <1>4, <1>8, <1>12, <2>1
      <4>2. again.retries \in Nat /\ again.retries + 1 \in 1..Len(J)
        BY <2>1, <2>4, <2>6
      <4>3. Len(J) - (again.retries + 1) + 1 = first + n
        BY <4>1
      <4>4. QED
        BY <4>1, <4>2, <4>3
    <3>3. rev[again.retries + 1] = J[first + n]
      BY <2>2, <3>2
    <3>4. J[first + n] = Whole(I[first + n]) /\ J[first + n] \in Nat
      <4>1. J = [i \in DOMAIN I |-> Whole(I[i])] /\ first + n \in DOMAIN I
        BY <1>4, <1>7, <3>2 DEF J
      <4>2. J[first + n] = Whole(I[first + n])
        BY <4>1
      <4>3. J[first + n] \in Nat
        BY <2>1, <3>2
      <4>4. QED
        BY <4>2, <4>3
    <3>5. QED
      BY <1>3, <3>1, <3>3, <3>4
  <2>7. QED
    BY <2>5, <2>6
<1> HIDE DEF eta
<1>15. /\ task' \in TaskType /\ task'.status = status
       /\ task'.ttl = Whole(Asked("ttl")) /\ task'.timeout = Whole(Asked("timeout"))
       /\ task'.intervals = [i \in DOMAIN I |-> Whole(I[i])]
       /\ task'.retries = IF last THEN task.retries ELSE R - n
       /\ ~last => task'.eta = eta
  <2>1. CASE last
    BY <1>1, <1>6, <1>7, <1>11, <2>1
  <2>2. CASE ~last
    <3>1. task' = [again EXCEPT !.eta = eta] /\ eta \in Int
      BY <1>1, <1>14, <2>2
    <3>2. /\ task' \in TaskType /\ task'.status = again.status /\ task'.retries = again.retries
          /\ task'.ttl = again.ttl /\ task'.timeout = again.timeout
          /\ task'.intervals = again.intervals /\ task'.eta = eta
      BY <1>12, <3>1 DEF TaskType
    <3>3. QED
      BY <1>6, <1>7, <1>12, <2>2, <3>2
  <2>3. QED
    BY <2>1, <2>2
<1>16. due' \in Int /\ (~last /\ first >= 0 => due' = Seconds(eta))
  <2>1. CASE last
    BY <1>1, <1>3, <2>1
  <2>2. CASE ~last
    <3>1. due' = DueSecond(eta) /\ eta \in Int
      BY <1>1, <1>14, <1>15, <2>2
    <3>2. due' = IF eta < now THEN 0 ELSE Seconds(eta)
      BY <1>1, <3>1, Zenon DEF DueSecond
    <3>3. Seconds(eta) \in Int
      BY <3>1, SecondFacts
    <3>4. first >= 0 => ~(eta < now)
      BY <1>3, <1>14, <2>2, <3>1
    <3>5. QED
      BY <3>2, <3>3, <3>4
  <2>3. QED
    BY <2>1, <2>2
<1>17. Typed'
  BY <1>1, <1>3, <1>10, <1>15, <1>16 DEF Typed
<1>18. "payload" \in DOMAIN hash
  BY <1>3, <1>5 DEF HashInv
<1>19. HashInv'
  BY <1>1, <1>15, <1>18, HashKept
<1>20. CountInv'
  <2>1. CASE last
    BY <1>1, <1>2, <1>4, <1>5, <1>8, <1>10, <1>15, <2>1 DEF CountInv
  <2>2. CASE ~last
    BY <1>1, <1>2, <1>4, <1>8, <1>10, <1>13, <1>15, <2>2 DEF CountInv
  <2>3. QED
    BY <2>1, <2>2
<1>21. SettingsStable'
  BY <1>1, <1>3, <1>15, SettledFacts
<1>22. WaitInv'
  <2>1. CASE last
    BY <1>1, <2>1 DEF WaitInv
  <2>2. CASE ~last
    <3>1. SUFFICES ASSUME first >= 0
                   PROVE  Ticks(due') - attempts'[n].to > Whole(I[first + n]) - TicksPerSecond
      BY <1>2, <1>10 DEF WaitInv
    <3>2. /\ eta = now + Whole(I[first + n]) /\ Whole(I[first + n]) \in Nat /\ eta \in Int
          /\ due' = Seconds(eta)
      BY <1>14, <1>16, <2>2, <3>1
    <3>3. Ticks(Seconds(eta)) \in Int /\ eta < Ticks(Seconds(eta)) + TicksPerSecond
      BY <3>2, SecondFacts
    <3>4. attempts'[n].to = now
      BY <1>9, <1>10
    <3> HIDE DEF first, n, I
    <3>5. QED
      BY <1>3, <3>2, <3>3, <3>4
  <2>3. QED
    BY <2>1, <2>2
<1>23. RetriesSpaced'
  <2>1. SUFFICES ASSUME first >= 0, NEW k \in 1..(n - 1)
                 PROVE  attempts'[k + 1].from - attempts'[k].to > Whole(I[first + k]) - TicksPerSecond
    BY <1>2, <1>10 DEF RetriesSpaced
  <2>2. k \in 1..n /\ k + 1 \in 1..n /\ k # n
    BY <1>8
  <2>3. attempts[k + 1].from - attempts[k].to > Whole(I[first + k]) - TicksPerSecond
    BY <1>3, <2>1 DEF RetriesSpaced
  <2>4. attempts'[k] = attempts[k] /\ attempts'[k + 1].from = attempts[k + 1].from
    BY <1>9, <1>10, <2>2
  <2>5. QED
    BY <2>3, <2>4
<1>24. QED
  BY <1>17, <1>19, <1>20, <1>21, <1>22, <1>23 DEF IInv

LEMMA Inductive == Spec => []IInv
<1>1. Init => IInv
  BY InitFacts
<1>2. IInv /\ [Next]_vars => IInv'
  <2> SUFFICES ASSUME IInv, [Next]_vars PROVE IInv'
    OBVIOUS
  <2>1. CASE Tick
    BY <2>1, TickStep
  <2>2. CASE Receive
    BY <2>2, ReceiveStep
  <2>3. CASE Succeed
    BY <2>3, EndStep DEF Succeed
  <2>4. CASE Fail
    BY <2>4, EndStep DEF Fail
  <2>5. CASE TimeOut
    BY <2>5, EndStep DEF TimeOut
  <2>6. CASE UNCHANGED vars
    <3>1. UNCHANGED <<now, waits, engine, options, task, hash, due, at, attempts>>
      BY <2>6 DEF vars
    <3>2. \A field : Asked(field)' = Asked(field)
      BY <3>1, SameAsked
    <3>3. QED
      BY <3>1, <3>2 DEF IInv, Typed, HashInv, CountInv, SettingsStable, RetriesSpaced, WaitInv
  <2>7. QED
    BY <2>1, <2>2, <2>3, <2>4, <2>5, <2>6 DEF Next
<1>3. QED
  BY <1>1, <1>2, PTL DEF Spec

-----------------------------------------------------------------------------
(* The theorems.                                                           *)

\* README.md:284, for any options of the engine and of the task: the retries of
\* a task that has an interval for each wait for these intervals in their order
\* (RetryETA of task.go, the bucket of a delayed task in broker_redis.go).
THEOREM RetriesSpacedCorrect == Spec => []RetriesSpaced
<1>1. IInv => RetriesSpaced
  BY DEF IInv
<1>2. QED
  BY <1>1, Inductive, PTL

\* README.md:286: a task that fails runs once and as many times more as the
\* options of the task, or else of the engine, ask for, whatever they are.
THEOREM RetriesAsAskedCorrect == Spec => []RetriesAsAsked
<1>1. IInv => RetriesAsAsked
  <2> SUFFICES ASSUME IInv PROVE RetriesAsAsked
    OBVIOUS
  <2>1. Typed /\ CountInv /\ Asked("maxRetries") \in Nat
    BY AskedFacts DEF IInv, Typed
  <2>2. Len(attempts) \in Nat /\ at \in {"queued", "running", "over"} /\ task.retries \in Int
    BY <2>1 DEF Typed, TaskType
  <2>3. QED
    BY <2>1, <2>2 DEF CountInv, RetriesAsAsked
<1>2. QED
  BY <1>1, Inductive, PTL

\* However often a task is read from Redis and written back, and whatever its
\* options, an attempt works with the whole seconds of what they ask for
\* (Serialize and TaskFromPayload of task.go).
THEOREM SettingsStableCorrect == Spec => []SettingsStable
<1>1. IInv => SettingsStable
  BY DEF IInv
<1>2. QED
  BY <1>1, Inductive, PTL
=============================================================================

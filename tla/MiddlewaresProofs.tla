-------------------------- MODULE MiddlewaresProofs --------------------------
(***************************************************************************)
(* Theorems about Middlewares, for any number of queues and consumers: as  *)
(* long as the slices that different queues copy have no room, consumers   *)
(* overwrite nothing that another queue's consumer reads.                  *)
(***************************************************************************)
EXTENDS Middlewares, FiniteSetTheorems, SequenceTheorems, TLAPS

USE MiddlewaresAssumption

\* Two middlewares of the engine fill their array, in one call of Use or two; a
\* third call is the first that can leave room.  A consumer made between two
\* Use of its queue can share the array of the second.
FullSlices == MaxEngineUses <= 2 /\ (UseAfterHandle => MaxQueueUses <= 1)

-----------------------------------------------------------------------------
(* The inductive invariant.                                                *)

Elements == [name : Kinds \cup {"handleRequest", "unused"}, by : Owners]

\* What Use registers.
Uses == [name : Kinds, by : Queues \cup {Engine}]

Slices == [array : Owners \X Nat, len : Int]

Chains == [slice : Slices, chain : Seq(Elements)]

HeapOK ==
  /\ DOMAIN heap \subseteq Owners \X Nat
  /\ \A a \in DOMAIN heap : heap[a] \in [1..a[2] -> Elements]

Typed ==
  /\ HeapOK
  /\ slice \in [Owners -> Slices] /\ asked \in [Owners -> Seq(Uses)]
  /\ running \in BOOLEAN
  /\ pc \in [Consumers -> {"consume", "append", "chain", "handle"}]
  /\ hand \in [Consumers -> Tasks \cup {NoTask}]
  /\ chained \in [Consumers -> Chains]
  /\ ready \in [Queues -> SUBSET Tasks]
  /\ task \in [Tasks -> [name : Queues \cup {"none"}, retries : Nat]]
  /\ ran \in SUBSET (Tasks \X Queues)

\* The slice is the window on its array in which these elements stand.
Holds(h, s, elements) ==
  /\ s.array \in DOMAIN h
  /\ s.len = Len(elements) /\ s.len <= Capacity(s)
  /\ \A i \in 1..s.len : h[s.array][i] = elements[i]

SliceInv == \A o \in Owners : slice[o] # Absent => Holds(heap, slice[o], asked[o])

\* A slice of the engine without room: whoever appends to it gets another array.
OnEngine(s) ==
  s.array[1] = Engine /\ s.len = Capacity(s) /\ s.len <= slice[Engine].len

\* Only slices of one queue share an array with room.
ShareInv ==
  /\ slice[Engine] # Absent /\ OnEngine(slice[Engine]) /\ slice[Engine].len <= 2
  /\ \A q \in Queues : slice[q] # Absent =>
       /\ OnEngine(slice[q]) \/ slice[q].array[1] = q
       /\ (\A i \in DOMAIN asked[q] : asked[q][i].by # q) => OnEngine(slice[q])
  /\ \A c \in Consumers : slice[c] # Absent =>
       /\ slice[QueueOf[c]] # Absent
       /\ slice[c] = slice[QueueOf[c]] \/ OnEngine(slice[c])

\* What may stand at this place of a chain of the consumer.
Right(c, i, m) ==
  IF i <= Len(asked[c]) THEN m = asked[c][i]
  ELSE m.name = "handleRequest" /\ m.by \in Consumers /\ QueueOf[m.by] = QueueOf[c]

\* What a consumer reads of its slice, and what it has read of it.
ReadsRight(c) ==
  LET s == chained[c].slice
      chain == chained[c].chain
  IN /\ s = AppendSlice(c, slice[c], <<HandleRequest(c)>>)
     /\ \A j \in 1..Len(chain) : Right(c, s.len - Len(chain) + j, chain[j])
     /\ pc[c] = "chain" => /\ Len(chain) < s.len /\ s.array \in DOMAIN heap
                           /\ \A i \in 1..s.len : Right(c, i, heap[s.array][i])
     /\ pc[c] = "handle" => Len(chain) = s.len

ChainInv ==
  \A c \in Consumers :
    /\ pc[c] # "consume" => /\ running /\ slice[c] # Absent
                            /\ hand[c] \in Tasks /\ task[hand[c]].name = QueueOf[c]
    /\ pc[c] \in {"chain", "handle"} => ReadsRight(c)

TaskInv ==
  /\ \A q \in Queues : \A t \in ready[q] : task[t].name = q
  /\ OwnHandler

IInv == Typed /\ SliceInv /\ ShareInv /\ ChainInv /\ TaskInv

-----------------------------------------------------------------------------
(* What append does.                                                       *)

LEMMA GrownFacts ==
  ASSUME NEW n \in Nat, NEW k \in Nat
  PROVE  Grown(n, k) \in Nat /\ Grown(n, k) >= k
<1>1. \A c \in Nat : RoundUp(c) \in Nat /\ RoundUp(c) >= c
  BY DEF RoundUp
<1>2. QED
  BY <1>1 DEF Grown

\* The elements end up behind those that were there, whichever the array: h is
\* the heap and r the slice afterwards.
Lands(o, s, ms, r, h) ==
  /\ r \in Slices /\ s.len \in Nat /\ r.len = s.len + Len(ms) /\ r.len <= Capacity(r)
  /\ r.array \in DOMAIN h /\ DOMAIN h \subseteq Owners \X Nat
  /\ DOMAIN heap \subseteq DOMAIN h
  /\ \A a \in DOMAIN h : h[a] \in [1..a[2] -> Elements]
  /\ \A i \in 1..s.len : h[r.array][i] = heap[s.array][i]
  /\ \A i \in 1..Len(ms) : h[r.array][s.len + i] = ms[i]
  /\ \A a \in DOMAIN heap : a # r.array => h[a] = heap[a]
  /\ HasRoom(s, ms) =>
       /\ r.array = s.array
       /\ \A i \in 1..Capacity(s) :
             i \notin (s.len + 1)..(s.len + Len(ms)) => h[s.array][i] = heap[s.array][i]
  /\ ~HasRoom(s, ms) => r.array = <<o, Grown(Capacity(s), s.len + Len(ms))>>

LEMMA AppendFacts ==
  ASSUME HeapOK, NEW o \in Owners, NEW s \in Slices, NEW list, Holds(heap, s, list),
         NEW ms \in Seq(Elements), NEW r, r = AppendSlice(o, s, ms), NEW h, h = AppendHeap(o, s, ms)
  PROVE  Lands(o, s, ms, r, h)
<1> DEFINE n == s.len
           k == Len(ms)
           into == r.array
           row == IF HasRoom(s, ms) THEN heap[into] ELSE Moved(s, into[2])
<1>1. s.array \in DOMAIN heap /\ s.array \in Owners \X Nat /\ n \in Int
  BY DEF Holds, Slices
<1>2. n \in Nat /\ n <= Capacity(s) /\ Capacity(s) \in Nat /\ k \in Nat
  BY <1>1 DEF Holds, Capacity
<1>3. heap[s.array] \in [1..Capacity(s) -> Elements]
  BY <1>1 DEF HeapOK, Capacity
<1>4. r = [array |-> IF HasRoom(s, ms) THEN s.array ELSE <<o, Grown(Capacity(s), n + k)>>,
           len |-> n + k]
  BY Zenon DEF AppendSlice
<1>5. Grown(Capacity(s), n + k) \in Nat /\ Grown(Capacity(s), n + k) >= n + k
  <2>1. n + k \in Nat
    BY <1>2
  <2> HIDE DEF n, k
  <2>2. QED
    BY <1>2, <2>1, GrownFacts
<1>6. h = [a \in DOMAIN heap \cup {into} |-> IF a = into THEN Written(row, n, ms) ELSE heap[a]]
  BY Zenon DEF AppendHeap
<1>7. DOMAIN heap \subseteq Owners \X Nat /\ \A a \in DOMAIN heap : heap[a] \in [1..a[2] -> Elements]
  BY DEF HeapOK
\* Which array it is, and what its slots hold before the elements are written.
<1>8. /\ r \in Slices /\ r.len = n + k /\ into \in Owners \X Nat /\ n + k <= into[2]
      /\ row \in [1..into[2] -> Elements]
      /\ \A i \in 1..n : row[i] = heap[s.array][i]
      /\ HasRoom(s, ms) => into = s.array /\ row = heap[s.array]
      /\ ~HasRoom(s, ms) => into = <<o, Grown(Capacity(s), n + k)>>
  <2>1. CASE HasRoom(s, ms)
    <3>1. r = [array |-> s.array, len |-> n + k] /\ n + k <= Capacity(s)
      BY <1>4, <2>1 DEF HasRoom
    <3>2. into = s.array /\ r.len = n + k /\ row = heap[s.array]
      BY <2>1, <3>1
    <3>3. QED
      BY <1>1, <1>2, <1>3, <2>1, <3>1, <3>2 DEF Slices, Capacity
  <2>2. CASE ~HasRoom(s, ms)
    <3> DEFINE cap == Grown(Capacity(s), n + k)
    <3>1. r = [array |-> <<o, cap>>, len |-> n + k]
      BY <1>4, <2>2
    <3> HIDE DEF cap
    <3>2. into = <<o, cap>> /\ r.len = n + k /\ into[2] = cap /\ r \in Slices /\ into \in Owners \X Nat
      BY <1>2, <1>5, <3>1 DEF Slices, cap
    <3>3. row = [i \in 1..cap |-> IF i <= n THEN heap[s.array][i] ELSE Unused]
      BY <2>2, <3>2, Zenon DEF Moved
    <3>4. Unused \in Elements
      BY DEF Unused, Elements, Owners
    <3>5. \A i \in 1..n : i \in 1..cap /\ i <= n /\ i \in 1..Capacity(s) /\ heap[s.array][i] \in Elements
      BY <1>2, <1>3, <1>5 DEF cap
    <3>6. \A i \in 1..cap : i <= n => i \in 1..n
      BY <1>2
    <3> HIDE DEF row, n, into
    <3>7. row \in [1..cap -> Elements] /\ \A i \in 1..n : row[i] = heap[s.array][i]
      BY <3>3, <3>4, <3>5, <3>6
    <3>8. QED
      BY <1>5, <2>2, <3>2, <3>7 DEF cap, n, into
  <2>3. QED
    BY <2>1, <2>2
<1> HIDE DEF row, into, n, k
<1> DEFINE after == Written(row, n, ms)
<1>9. after = [i \in 1..into[2] |-> IF i \in (n + 1)..(n + k) THEN ms[i - n] ELSE row[i]]
  BY <1>8, Zenon DEF Written, k
<1>10. \A i \in (n + 1)..(n + k) : i - n \in 1..k /\ ms[i - n] \in Elements
  BY <1>2 DEF k
<1> HIDE DEF after
<1>11. after \in [1..into[2] -> Elements]
  BY <1>8, <1>9, <1>10
<1>12. \A i \in 1..into[2] : i \notin (n + 1)..(n + k) => after[i] = row[i]
  BY <1>9
<1>13. \A i \in 1..n : after[i] = heap[s.array][i]
  <2>1. \A i \in 1..n : i \in 1..into[2] /\ i \notin (n + 1)..(n + k)
    BY <1>2, <1>8
  <2>2. QED
    BY <1>8, <1>12, <2>1
<1>14. \A i \in 1..k : after[n + i] = ms[i]
  <2>1. \A i \in 1..k : n + i \in 1..into[2] /\ n + i \in (n + 1)..(n + k) /\ n + i - n = i
    BY <1>2, <1>8
  <2>2. ASSUME NEW i \in 1..k PROVE after[n + i] = ms[i]
    <3>1. \A x \in 1..into[2] : x \in (n + 1)..(n + k) => after[x] = ms[x - n]
      BY <1>9
    <3>2. n + i \in 1..into[2] /\ n + i \in (n + 1)..(n + k)
      BY <2>1
    <3>3. after[n + i] = ms[(n + i) - n]
      BY <3>1, <3>2
    <3>4. (n + i) - n = i
      BY <1>2
    <3>5. QED
      BY <3>3, <3>4
  <2>3. QED
    BY <2>2
<1>15. /\ DOMAIN h = DOMAIN heap \cup {into} /\ h[into] = after
       /\ \A a \in DOMAIN heap : a # into => h[a] = heap[a]
  BY <1>6 DEF after
<1>16. \A a \in DOMAIN h : h[a] \in [1..a[2] -> Elements]
  BY <1>7, <1>11, <1>15
<1>17. HasRoom(s, ms) => \A i \in 1..Capacity(s) :
                           i \notin (n + 1)..(n + k) => h[s.array][i] = heap[s.array][i]
  BY <1>8, <1>12, <1>15 DEF Capacity
<1>18. r.len <= Capacity(r)
  BY <1>8 DEF Capacity, into
<1>19. QED
  BY <1>2, <1>7, <1>8, <1>13, <1>14, <1>15, <1>16, <1>17, <1>18 DEF Lands, into, n, k

\* The same for one element.
LEMMA AppendOne ==
  ASSUME HeapOK, NEW o \in Owners, NEW s \in Slices, NEW list, Holds(heap, s, list),
         NEW m \in Elements, NEW r, r = AppendSlice(o, s, <<m>>), NEW h, h = AppendHeap(o, s, <<m>>)
  PROVE  /\ r \in Slices /\ s.len \in Nat /\ r.len = s.len + 1 /\ r.len <= Capacity(r)
         /\ r.array \in DOMAIN h /\ DOMAIN h \subseteq Owners \X Nat
         /\ DOMAIN heap \subseteq DOMAIN h
         /\ \A a \in DOMAIN h : h[a] \in [1..a[2] -> Elements]
         /\ \A i \in 1..s.len : h[r.array][i] = heap[s.array][i]
         /\ h[r.array][s.len + 1] = m
         /\ \A a \in DOMAIN heap : a # r.array => h[a] = heap[a]
         /\ s.len < Capacity(s) =>
              /\ r.array = s.array
              /\ \A i \in 1..Capacity(s) : i # s.len + 1 => h[s.array][i] = heap[s.array][i]
         /\ ~(s.len < Capacity(s)) => r.array[1] = o /\ s.len = Capacity(s)
<1> DEFINE ms == <<m>>
<1>1. ms \in Seq(Elements) /\ Len(ms) = 1 /\ ms[1] = m /\ 1 \in 1..Len(ms)
  OBVIOUS
<1> HIDE DEF ms
<1>2. r = AppendSlice(o, s, ms) /\ h = AppendHeap(o, s, ms)
  BY DEF ms
<1>3. Lands(o, s, ms, r, h)
  BY <1>1, <1>2, AppendFacts
<1>4. s.len \in Nat /\ s.len <= Capacity(s) /\ Capacity(s) \in Nat
  BY <1>3 DEF Lands, Holds, Slices, Capacity
<1>5. HasRoom(s, ms) <=> s.len < Capacity(s)
  BY <1>1, <1>4 DEF HasRoom
<1>6. \A i : i \in (s.len + 1)..(s.len + 1) <=> i = s.len + 1
  BY <1>4
<1>7. ~(s.len < Capacity(s)) => r.array[1] = o /\ s.len = Capacity(s)
  BY <1>3, <1>4, <1>5 DEF Lands
<1>8. h[r.array][s.len + 1] = m
  BY <1>1, <1>3 DEF Lands
<1>9. s.len < Capacity(s) => /\ r.array = s.array
                            /\ \A i \in 1..Capacity(s) : i # s.len + 1 => h[s.array][i] = heap[s.array][i]
  BY <1>1, <1>3, <1>5, <1>6 DEF Lands
<1>10. QED
  BY <1>1, <1>3, <1>7, <1>8, <1>9 DEF Lands

\* A slice on another array, or on the part of it that was there, stays.
LEMMA StillHolds ==
  ASSUME NEW h, NEW g, NEW w \in Slices, NEW list, Holds(h, w, list),
         DOMAIN h \subseteq DOMAIN g,
         \A i \in 1..w.len : g[w.array][i] = h[w.array][i]
  PROVE  Holds(g, w, list)
BY DEF Holds

LEMMA UsesAreElements == Uses \subseteq Elements
BY DEF Uses, Elements, Owners

LEMMA OwnersApart ==
  /\ Engine \in Owners /\ Queues \subseteq Owners /\ Consumers \subseteq Owners
  /\ \A q \in Queues : q # Engine /\ q \notin Consumers
  /\ \A c \in Consumers : c # Engine /\ c \notin Queues /\ QueueOf[c] \in Queues
BY DEF Owners

\* An array with room, or one that its queue has made, is that queue's.
LEMMA Whose ==
  ASSUME ShareInv, NEW p \in Owners, slice[p] # Absent
  PROVE  \/ OnEngine(slice[p])
         \/ p \in Queues /\ slice[p].array[1] = p
         \/ /\ p \in Consumers /\ slice[p] = slice[QueueOf[p]]
            /\ slice[p].array[1] = QueueOf[p] /\ slice[QueueOf[p]] # Absent
<1>1. CASE p = Engine
  BY <1>1 DEF ShareInv
<1>2. CASE p \in Queues
  BY <1>2 DEF ShareInv
<1>3. CASE p \in Consumers
  <2>1. QueueOf[p] \in Queues
    BY <1>3, OwnersApart
  <2>2. slice[QueueOf[p]] # Absent /\ (slice[p] = slice[QueueOf[p]] \/ OnEngine(slice[p]))
    BY <1>3 DEF ShareInv
  <2>3. OnEngine(slice[QueueOf[p]]) \/ slice[QueueOf[p]].array[1] = QueueOf[p]
    BY <2>1, <2>2 DEF ShareInv
  <2>4. QED
    BY <1>3, <2>2, <2>3
<1>4. QED
  BY <1>1, <1>2, <1>3 DEF Owners

-----------------------------------------------------------------------------
(* The initial states, and registration.                                   *)

LEMMA InitFacts ==
  ASSUME Init
  PROVE  IInv
<1>1. HeapOK /\ heap = [a \in {<<Engine, 0>>} |-> <<>>]
  BY OwnersApart DEF Init, HeapOK
<1>2. NilSlice \in Slices /\ Absent \in Slices /\ NilSlice # Absent
  BY OwnersApart DEF NilSlice, Absent, Slices
<1>3. /\ slice = [o \in Owners |-> IF o = Engine THEN NilSlice ELSE Absent]
      /\ asked = [o \in Owners |-> <<>>] /\ running = FALSE
      /\ pc = [c \in Consumers |-> "consume"] /\ hand = [c \in Consumers |-> NoTask]
      /\ chained = [c \in Consumers |-> [slice |-> NilSlice, chain |-> <<>>]]
      /\ ready = [q \in Queues |-> {}]
      /\ task = [t \in Tasks |-> [name |-> "none", retries |-> MaxRetries]]
      /\ ran = {}
  BY DEF Init
<1>4. Typed
  <2>1. slice \in [Owners -> Slices] /\ running \in BOOLEAN
    BY <1>2, <1>3
  <2>2. chained \in [Consumers -> Chains]
    BY <1>2, <1>3 DEF Chains
  <2>3. asked \in [Owners -> Seq(Uses)]
    BY <1>3
  <2>4. QED
    BY <1>1, <1>3, <2>1, <2>2, <2>3 DEF Typed
<1>5. Holds(heap, NilSlice, <<>>)
  BY <1>1 DEF Holds, NilSlice, Capacity
<1>6. SliceInv
  BY <1>3, <1>5 DEF SliceInv
<1>7. ShareInv
  <2>1. OnEngine(NilSlice) /\ slice[Engine] = NilSlice
    BY <1>3, OwnersApart DEF OnEngine, NilSlice, Capacity
  <2>2. \A o \in Queues \cup Consumers : slice[o] = Absent
    BY <1>3, OwnersApart
  <2>3. NilSlice.len <= 2
    BY DEF NilSlice
  <2>4. QED
    BY <1>2, <2>1, <2>2, <2>3 DEF ShareInv
<1>8. ChainInv /\ TaskInv
  BY <1>3 DEF ChainInv, TaskInv, OwnHandler
<1>9. QED
  BY <1>4, <1>6, <1>7, <1>8 DEF IInv

\* Before Run no consumer has a request.
LEMMA Unstarted ==
  ASSUME IInv, ~running, UNCHANGED <<running, unused>>
  PROVE  ChainInv' /\ TaskInv'
<1>1. UNCHANGED <<running, pc, hand, chained, ready, task, ran>>
  BY DEF unused
<1>2. \A c \in Consumers : pc'[c] = "consume"
  BY <1>1 DEF IInv, ChainInv
<1>3. ChainInv'
  BY <1>2 DEF ChainInv
<1>4. TaskInv'
  BY <1>1 DEF IInv, TaskInv, OwnHandler
<1>5. QED
  BY <1>3, <1>4

\* Use appends to a slice whose next array no other slice stands on.
Registers(o, ms) ==
  /\ ~running /\ slice[o] # Absent
  /\ AppendTo(o, ms) /\ asked' = [asked EXCEPT ![o] = @ \o ms]
  /\ UNCHANGED <<running, unused>>

Appended(o, ms) == AppendSlice(o, slice[o], ms)

LEMMA RegisterFacts ==
  ASSUME IInv, NEW o \in Queues \cup {Engine}, NEW ms \in Seq(Uses), Registers(o, ms),
         \A p \in Owners : p # o /\ slice[p] # Absent => slice[p].array # Appended(o, ms).array
  PROVE  /\ Typed' /\ SliceInv' /\ ChainInv' /\ TaskInv'
         /\ slice'[o] = Appended(o, ms) /\ Appended(o, ms) # Absent
         /\ \A p \in Owners : p # o => slice'[p] = slice[p]
         /\ asked'[o] = (asked[o] \o ms)
         /\ \A p \in Owners : p # o => asked'[p] = asked[p]
<1> DEFINE s == slice[o]
           r == Appended(o, ms)
<1>1. /\ HeapOK /\ slice \in [Owners -> Slices] /\ asked \in [Owners -> Seq(Uses)]
      /\ o \in Owners /\ s \in Slices /\ asked[o] \in Seq(Uses) /\ Holds(heap, s, asked[o])
      /\ ~running /\ UNCHANGED <<running, unused>>
  BY OwnersApart DEF IInv, Typed, SliceInv, Registers
<1>2. ms \in Seq(Uses) /\ ms \in Seq(Elements)
  BY UsesAreElements
<1>3. heap' = AppendHeap(o, s, ms) /\ slice' = [slice EXCEPT ![o] = r]
  BY Zenon DEF AppendTo, Registers, Appended
<1>4. r = AppendSlice(o, s, ms)
  BY DEF Appended
<1> HIDE DEF s, r
<1> DEFINE h == AppendHeap(o, s, ms)
<1>5. /\ r \in Slices /\ s.len \in Nat /\ r.len = s.len + Len(ms) /\ r.len <= Capacity(r)
      /\ r.array \in DOMAIN h /\ DOMAIN h \subseteq Owners \X Nat
      /\ DOMAIN heap \subseteq DOMAIN h
      /\ \A a \in DOMAIN h : h[a] \in [1..a[2] -> Elements]
      /\ \A i \in 1..s.len : h[r.array][i] = heap[s.array][i]
      /\ \A i \in 1..Len(ms) : h[r.array][s.len + i] = ms[i]
      /\ \A a \in DOMAIN heap : a # r.array => h[a] = heap[a]
  <2>1. Lands(o, s, ms, r, h)
    BY <1>1, <1>2, <1>4, AppendFacts
  <2>2. QED
    BY <2>1 DEF Lands
<1> HIDE DEF h
<1>6. heap' = h
  BY <1>3 DEF h
<1>7. HeapOK'
  BY <1>5, <1>6 DEF HeapOK
<1>8. /\ slice' \in [Owners -> Slices] /\ slice'[o] = r
      /\ \A p \in Owners : p # o => slice'[p] = slice[p]
  BY <1>1, <1>3, <1>5
<1>9. /\ asked' = [asked EXCEPT ![o] = (asked[o] \o ms)]
      /\ (asked[o] \o ms) \in Seq(Uses)
  BY <1>1, <1>2 DEF Registers
<1>10. /\ asked' \in [Owners -> Seq(Uses)] /\ asked'[o] = (asked[o] \o ms)
       /\ \A p \in Owners : p # o => asked'[p] = asked[p]
  BY <1>1, <1>9
<1>11. Typed'
  <2>1. UNCHANGED <<running, pc, hand, chained, ready, task, ran>>
    BY <1>1 DEF unused
  <2>2. QED
    BY <1>7, <1>8, <1>10, <2>1 DEF IInv, Typed
<1>12. Holds(h, r, (asked[o] \o ms))
  <2>1. s.len = Len(asked[o]) /\ \A i \in 1..s.len : heap[s.array][i] = asked[o][i]
    BY <1>1 DEF Holds
  <2> DEFINE list == asked[o] \o ms
  <2>2. /\ Len(list) = Len(asked[o]) + Len(ms) /\ Len(ms) \in Nat /\ Len(asked[o]) \in Nat
        /\ \A i \in 1..(Len(asked[o]) + Len(ms)) :
             list[i] = IF i <= Len(asked[o]) THEN asked[o][i] ELSE ms[i - Len(asked[o])]
    BY <1>1, <1>2, ConcatProperties
  <2> HIDE DEF list
  <2>3. ASSUME NEW i \in 1..r.len PROVE h[r.array][i] = list[i]
    <3>1. CASE i <= s.len
      <4>1. i \in 1..s.len
        BY <1>5, <3>1
      <4>2. QED
        BY <1>5, <2>1, <2>2, <3>1, <4>1
    <3>2. CASE ~(i <= s.len)
      <4>1. i - s.len \in 1..Len(ms) /\ s.len + (i - s.len) = i
        BY <1>5, <2>2, <3>2
      <4>2. h[r.array][i] = ms[i - s.len]
        BY <1>5, <4>1
      <4>3. QED
        BY <1>5, <2>1, <2>2, <3>2, <4>2
    <3>3. QED
      BY <3>1, <3>2
  <2>4. QED
    BY <1>5, <2>1, <2>2, <2>3 DEF Holds, list
<1>13. SliceInv'
  <2>1. SUFFICES ASSUME NEW p \in Owners, slice'[p] # Absent
                 PROVE  Holds(h, slice'[p], asked'[p])
    BY <1>6 DEF SliceInv
  <2>2. CASE p = o
    BY <1>8, <1>10, <1>12, <2>2
  <2>3. CASE p # o
    <3>1. slice'[p] = slice[p] /\ asked'[p] = asked[p] /\ slice[p] # Absent
      BY <1>8, <1>10, <2>1, <2>3
    <3>2. Holds(heap, slice[p], asked[p]) /\ slice[p] \in Slices
      BY <1>1, <3>1 DEF IInv, SliceInv
    <3>3. slice[p].array # r.array /\ slice[p].array \in DOMAIN heap
      BY <2>3, <3>1, <3>2 DEF Holds, r
    <3>4. h[slice[p].array] = heap[slice[p].array]
      BY <1>5, <3>3
    <3>5. Holds(h, slice[p], asked[p])
      BY <1>5, <3>2, <3>4, StillHolds
    <3>6. QED
      BY <3>1, <3>5
  <2>4. QED
    BY <2>2, <2>3
<1>14. r # Absent /\ r.len \in Nat
  BY <1>5 DEF Absent
<1>15. QED
  BY <1>1, <1>8, <1>10, <1>11, <1>13, <1>14, Unstarted DEF r

LEMMA ListFacts ==
  ASSUME NEW n \in Nat, NEW kinds \in SeqOf(Kinds, n) \ {<<>>}
  PROVE  kinds \in Seq(Kinds) /\ kinds # <<>>
<1>1. PICK k \in 0..n : kinds \in [1..k -> Kinds]
  BY DEF SeqOf
<1>2. QED
  BY <1>1

LEMMA AllOfFacts ==
  ASSUME NEW kinds \in Seq(Kinds), NEW o \in Queues \cup {Engine}
  PROVE  /\ AllOf(kinds, o) \in Seq(Uses) /\ Len(AllOf(kinds, o)) = Len(kinds)
         /\ \A i \in 1..Len(kinds) : AllOf(kinds, o)[i].by = o
<1>1. AllOf(kinds, o) = [i \in 1..Len(kinds) |-> [name |-> kinds[i], by |-> o]]
  BY DEF AllOf, Middleware
<1>2. \A i \in 1..Len(kinds) : [name |-> kinds[i], by |-> o] \in Uses
  BY DEF Uses
<1>3. AllOf(kinds, o) \in [1..Len(kinds) -> Uses] /\ Len(kinds) \in Nat
  BY <1>1, <1>2
<1>4. AllOf(kinds, o) \in Seq(Uses) /\ Len(AllOf(kinds, o)) = Len(kinds)
  BY <1>3
<1>5. QED
  BY <1>1, <1>4

LEMMA UseStep ==
  ASSUME FullSlices, IInv, NEW kinds \in Seq(Kinds), kinds # <<>>, Use(kinds)
  PROVE  IInv'
<1> DEFINE s == slice[Engine]
           n == s.len
           k == Len(kinds)
           ms == AllOf(kinds, Engine)
           r == Appended(Engine, ms)
<1>1. n + k <= MaxEngineUses /\ k \in Nat /\ k # 0 /\ ms \in Seq(Uses) /\ Len(ms) = k
  BY AllOfFacts, EmptySeq, OwnersApart DEF Use
<1>2. /\ s # Absent /\ s.array[1] = Engine /\ n = Capacity(s) /\ s \in Slices
      /\ Holds(heap, s, asked[Engine]) /\ ShareInv
  BY OwnersApart DEF IInv, ShareInv, OnEngine, Typed, SliceInv
<1>3. n \in Nat
  BY <1>2, OwnersApart DEF Holds, IInv, Typed
<1>4. n + k \in {1, 2} /\ n + k > n /\ Grown(n, n + k) = n + k
  BY <1>1, <1>3 DEF FullSlices, Grown, RoundUp
<1> HIDE DEF n, k, ms
<1>5. r.array = <<Engine, n + k>> /\ r.len = n + k
  <2>1. ~HasRoom(s, ms)
    BY <1>1, <1>2, <1>3, <1>4 DEF HasRoom, n
  <2>2. QED
    BY <1>1, <1>2, <2>1, <1>4 DEF Appended, AppendSlice, n
<1>6. ASSUME NEW p \in Owners, p # Engine, slice[p] # Absent PROVE slice[p].array # r.array
  <2>1. CASE OnEngine(slice[p])
    <3>1. slice[p].array[2] <= n
      BY <2>1 DEF OnEngine, Capacity, n
    <3>2. r.array[2] = n + k /\ n + k > n /\ n + k \in Nat
      BY <1>4, <1>5
    <3>3. QED
      BY <1>3, <3>1, <3>2
  <2>2. CASE ~OnEngine(slice[p])
    <3>1. slice[p].array[1] # Engine
      BY <1>2, <1>6, <2>2, Whose, OwnersApart
    <3>2. r.array[1] = Engine
      BY <1>5
    <3>3. QED
      BY <3>1, <3>2
  <2>3. QED
    BY <2>1, <2>2
<1> HIDE DEF r
<1>7. /\ Typed' /\ SliceInv' /\ ChainInv' /\ TaskInv'
      /\ slice'[Engine] = r /\ r # Absent /\ \A p \in Owners : p # Engine => slice'[p] = slice[p]
      /\ \A p \in Owners : p # Engine => asked'[p] = asked[p]
  <2>1. ms \in Seq(Uses)
    BY <1>1
  <2>2. Registers(Engine, ms)
    BY <1>2, Zenon DEF Use, Registers, ms
  <2>3. \A p \in Owners : p # Engine /\ slice[p] # Absent => slice[p].array # Appended(Engine, ms).array
    BY <1>6 DEF r
  <2>4. QED
    BY <2>1, <2>2, <2>3, RegisterFacts DEF r
<1>8. ShareInv'
  <2>1. OnEngine(slice[Engine])' /\ slice'[Engine].len <= 2
    BY <1>4, <1>5, <1>7 DEF OnEngine, Capacity
  <2>2. \A p \in Owners : slice'[p] = slice[p] /\ OnEngine(slice[p]) /\ slice[p].len \in Int
                           => OnEngine(slice[p])'
    BY <1>3, <1>4, <1>5, <1>7 DEF OnEngine, n
  <2>3. \A p \in Queues \cup Consumers : p \in Owners /\ slice'[p] = slice[p] /\ asked'[p] = asked[p]
    BY <1>7, OwnersApart
  <2>4. \A p \in Queues \cup Consumers : slice[p].len \in Int
    BY OwnersApart DEF IInv, Typed, Slices
  <2>5. ASSUME NEW q \in Queues, slice'[q] # Absent
        PROVE  /\ OnEngine(slice[q])' \/ slice'[q].array[1] = q
               /\ (\A i \in DOMAIN asked'[q] : asked'[q][i].by # q) => OnEngine(slice[q])'
    <3>1. /\ OnEngine(slice[q]) \/ slice[q].array[1] = q
          /\ (\A i \in DOMAIN asked[q] : asked[q][i].by # q) => OnEngine(slice[q])
      BY <1>2, <2>3, <2>5 DEF ShareInv
    <3>2. OnEngine(slice[q]) => OnEngine(slice[q])'
      BY <2>2, <2>3, <2>4
    <3>3. QED
      BY <2>3, <3>1, <3>2
  <2>6. ASSUME NEW c \in Consumers, slice'[c] # Absent
        PROVE  /\ slice'[QueueOf[c]] # Absent
               /\ slice'[c] = slice'[QueueOf[c]] \/ OnEngine(slice[c])'
    <3>1. slice[QueueOf[c]] # Absent /\ (slice[c] = slice[QueueOf[c]] \/ OnEngine(slice[c]))
      BY <1>2, <2>3, <2>6 DEF ShareInv
    <3>2. OnEngine(slice[c]) => OnEngine(slice[c])'
      BY <2>2, <2>3, <2>4
    <3>3. QED
      BY <2>3, <3>1, <3>2, OwnersApart
  <2>7. QED
    BY <1>7, <2>1, <2>5, <2>6 DEF ShareInv
<1>9. QED
  BY <1>7, <1>8 DEF IInv

\* A queue, or a consumer, starts with a slice that is there.
LEMMA CopyFacts ==
  ASSUME IInv, ~running, NEW o \in Queues \cup Consumers, NEW from \in Owners, slice[from] # Absent,
         slice' = [slice EXCEPT ![o] = slice[from]], asked' = [asked EXCEPT ![o] = asked[from]],
         UNCHANGED <<heap, running, unused>>
  PROVE  /\ Typed' /\ SliceInv' /\ ChainInv' /\ TaskInv'
         /\ slice'[o] = slice[from] /\ asked'[o] = asked[from]
         /\ \A p \in Owners : p # o => slice'[p] = slice[p] /\ asked'[p] = asked[p]
         /\ slice'[Engine] = slice[Engine]
<1>1. /\ HeapOK /\ slice \in [Owners -> Slices] /\ asked \in [Owners -> Seq(Uses)] /\ o \in Owners
      /\ o # Engine
  BY OwnersApart DEF IInv, Typed
<1>2. /\ slice' \in [Owners -> Slices] /\ asked' \in [Owners -> Seq(Uses)]
      /\ slice'[o] = slice[from] /\ asked'[o] = asked[from]
      /\ \A p \in Owners : p # o => slice'[p] = slice[p] /\ asked'[p] = asked[p]
  BY <1>1
<1>3. Typed'
  <2>1. UNCHANGED <<heap, running, pc, hand, chained, ready, task, ran>>
    BY DEF unused
  <2>2. HeapOK'
    BY <1>1 DEF HeapOK
  <2>3. QED
    BY <1>2, <2>1, <2>2 DEF IInv, Typed
<1>4. SliceInv'
  BY <1>2 DEF IInv, SliceInv
<1>5. QED
  BY <1>1, <1>2, <1>3, <1>4, Unstarted, OwnersApart

LEMMA QueueStep ==
  ASSUME IInv, NEW q \in Queues, Queue(q)
  PROVE  IInv'
<1>1. /\ ~running /\ slice[q] = Absent /\ UNCHANGED <<heap, running, unused>>
      /\ slice' = [slice EXCEPT ![q] = slice[Engine]]
      /\ asked' = [asked EXCEPT ![q] = asked[Engine]]
  BY DEF Queue
<1>2. slice[Engine] # Absent /\ ShareInv /\ Engine \in Owners /\ q # Engine
  BY OwnersApart DEF IInv, ShareInv
<1>3. /\ Typed' /\ SliceInv' /\ ChainInv' /\ TaskInv'
      /\ slice'[q] = slice[Engine] /\ slice'[Engine] = slice[Engine]
      /\ \A p \in Owners : p # q => slice'[p] = slice[p] /\ asked'[p] = asked[p]
  BY <1>1, <1>2, CopyFacts
<1>4. \A w : OnEngine(w)' <=> OnEngine(w)
  BY <1>3 DEF OnEngine
<1>5. OnEngine(slice'[q])
  BY <1>2, <1>3 DEF ShareInv
<1>6. \A c \in Consumers : c # q /\ c \in Owners /\ QueueOf[c] \in Owners
  BY OwnersApart
<1>7. \A c \in Consumers : slice[c] # Absent => QueueOf[c] # q
  BY <1>1, <1>2 DEF ShareInv
<1>8. ShareInv'
  BY <1>2, <1>3, <1>4, <1>5, <1>6, <1>7, OwnersApart DEF ShareInv
<1>9. QED
  BY <1>3, <1>8 DEF IInv

LEMMA HandleFuncStep ==
  ASSUME IInv, NEW c \in Consumers, HandleFunc(c)
  PROVE  IInv'
<1>1. /\ ~running /\ slice[QueueOf[c]] # Absent /\ UNCHANGED <<heap, running, unused>>
      /\ slice' = [slice EXCEPT ![c] = slice[QueueOf[c]]]
      /\ asked' = [asked EXCEPT ![c] = asked[QueueOf[c]]]
  BY DEF HandleFunc
<1>2. ShareInv /\ QueueOf[c] \in Owners /\ QueueOf[c] # c
  BY OwnersApart DEF IInv
<1>3. /\ Typed' /\ SliceInv' /\ ChainInv' /\ TaskInv'
      /\ slice'[c] = slice[QueueOf[c]] /\ slice'[Engine] = slice[Engine]
      /\ \A p \in Owners : p # c => slice'[p] = slice[p] /\ asked'[p] = asked[p]
  BY <1>1, <1>2, CopyFacts
<1>4. \A w : OnEngine(w)' <=> OnEngine(w)
  BY <1>3 DEF OnEngine
<1>5. \A q \in Queues : slice'[q] = slice[q] /\ asked'[q] = asked[q]
  BY <1>3, OwnersApart
<1>6. \A d \in Consumers : d # c => slice'[d] = slice[d] /\ QueueOf[d] \in Queues
  BY <1>3, OwnersApart
<1>7. ShareInv'
  BY <1>1, <1>2, <1>3, <1>4, <1>5, <1>6, OwnersApart DEF ShareInv
<1>8. QED
  BY <1>3, <1>7 DEF IInv

LEMMA QueueUseStep ==
  ASSUME FullSlices, IInv, NEW q \in Queues, NEW kinds \in Seq(Kinds), kinds # <<>>, QueueUse(q, kinds)
  PROVE  IInv'
<1> DEFINE s == slice[q]
           ms == AllOf(kinds, q)
           own == {i \in DOMAIN asked[q] : asked[q][i].by = q}
           r == Appended(q, ms)
<1>1. /\ s # Absent /\ ~running
      /\ UseAfterHandle \/ Handled(q) = {}
      /\ Cardinality(own) + Len(kinds) <= MaxQueueUses
      /\ Len(kinds) \in Nat /\ Len(kinds) # 0
      /\ ms \in Seq(Uses) /\ Len(ms) = Len(kinds) /\ \A i \in 1..Len(ms) : ms[i].by = q
  BY AllOfFacts, EmptySeq DEF QueueUse
<1>2. /\ ShareInv /\ s \in Slices /\ asked[q] \in Seq(Uses) /\ Holds(heap, s, asked[q]) /\ q # Engine
  BY <1>1, OwnersApart DEF IInv, Typed, SliceInv
<1>3. ASSUME UseAfterHandle PROVE OnEngine(s)
  <2>1. MaxQueueUses <= 1
    BY <1>3 DEF FullSlices
  <2>2. IsFiniteSet(own)
    <3>1. own \in SUBSET (1..Len(asked[q])) /\ Len(asked[q]) \in Nat
      BY <1>2
    <3>2. IsFiniteSet(1..Len(asked[q]))
      BY <3>1, FS_Interval
    <3>3. QED
      BY <3>1, <3>2, FS_Subset
  <2>3. Cardinality(own) \in Nat
    BY <2>2, FS_CardinalityType
  <2>4. Cardinality(own) = 0
    BY <1>1, <2>1, <2>3
  <2>5. own = {}
    BY <2>2, <2>4, FS_EmptySet
  <2>6. QED
    BY <1>1, <1>2, <2>5 DEF ShareInv
<1>4. OnEngine(s) \/ s.array[1] = q
  BY <1>1, <1>2 DEF ShareInv
<1>5. r.array[1] = q
  <2>1. CASE HasRoom(s, ms)
    <3>1. ~OnEngine(s)
      BY <1>1, <1>2, <2>1 DEF OnEngine, HasRoom, Capacity, Slices
    <3>2. QED
      BY <1>4, <2>1, <3>1 DEF Appended, AppendSlice
  <2>2. CASE ~HasRoom(s, ms)
    BY <2>2 DEF Appended, AppendSlice
  <2>3. QED
    BY <2>1, <2>2
\* No consumer stands on an array of the queue that is still being registered with.
<1>6. ASSUME NEW p \in Owners, p # q, slice[p] # Absent PROVE OnEngine(slice[p]) \/ slice[p].array[1] # q
  <2>1. CASE p \in Queues
    BY <1>2, <1>6, <2>1 DEF ShareInv
  <2>2. CASE p \in Consumers /\ QueueOf[p] = q
    <3>1. p \in Handled(q)
      BY <1>6, <2>2 DEF Handled
    <3>2. OnEngine(s)
      BY <1>1, <1>3, <3>1
    <3>3. slice[p] = s \/ OnEngine(slice[p])
      BY <1>2, <1>6, <2>2 DEF ShareInv
    <3>4. QED
      BY <3>2, <3>3
  <2>3. CASE ~(p \in Queues) /\ ~(p \in Consumers /\ QueueOf[p] = q)
    BY <1>2, <1>6, <2>3, Whose
  <2>4. QED
    BY <2>1, <2>2, <2>3
<1>7. ASSUME NEW p \in Owners, p # q, slice[p] # Absent PROVE slice[p].array # r.array
  <2>1. slice[p].array[1] # q
    BY <1>2, <1>6, <1>7 DEF OnEngine
  <2>2. QED
    BY <1>5, <2>1
<1> HIDE DEF r, s, ms
<1>8. /\ Typed' /\ SliceInv' /\ ChainInv' /\ TaskInv'
      /\ slice'[q] = r /\ r # Absent /\ \A p \in Owners : p # q => slice'[p] = slice[p]
      /\ asked'[q] = (asked[q] \o ms)
      /\ \A p \in Owners : p # q => asked'[p] = asked[p]
  <2>1. ms \in Seq(Uses)
    BY <1>1
  <2>2. Registers(q, ms)
    BY Zenon DEF QueueUse, Registers, ms
  <2>3. \A p \in Owners : p # q /\ slice[p] # Absent => slice[p].array # Appended(q, ms).array
    BY <1>7 DEF r
  <2>4. QED
    BY <2>1, <2>2, <2>3, RegisterFacts DEF r
<1>9. slice'[Engine] = slice[Engine] /\ \A w : OnEngine(w)' <=> OnEngine(w)
  <2>1. slice'[Engine] = slice[Engine]
    BY <1>2, <1>8, OwnersApart
  <2>2. QED
    BY <2>1 DEF OnEngine
<1>10. \E i \in DOMAIN asked'[q] : asked'[q][i].by = q
  <2> DEFINE longer == asked[q] \o ms
             i == Len(asked[q]) + 1
  <2>1. /\ longer \in Seq(Uses) /\ Len(longer) = Len(asked[q]) + Len(ms) /\ Len(asked[q]) \in Nat
        /\ \A x \in 1..(Len(asked[q]) + Len(ms)) :
             longer[x] = IF x <= Len(asked[q]) THEN asked[q][x] ELSE ms[x - Len(asked[q])]
    <3>1. asked[q] \in Seq(Uses) /\ ms \in Seq(Uses)
      BY <1>1, <1>2
    <3>2. QED
      BY <3>1, ConcatProperties
  <2> HIDE DEF longer
  <2>2. Len(ms) \in Nat /\ Len(ms) # 0 /\ 1 \in 1..Len(ms)
    BY <1>1
  <2>3. i \in 1..Len(longer) /\ ~(i <= Len(asked[q])) /\ i - Len(asked[q]) = 1
    BY <2>1, <2>2
  <2> HIDE DEF i
  <2>4. longer[i] = ms[1] /\ i \in DOMAIN longer
    <3>1. i \in 1..(Len(asked[q]) + Len(ms)) /\ DOMAIN longer = 1..Len(longer)
      BY <2>1, <2>3
    <3>2. longer[i] = ms[i - Len(asked[q])]
      BY <2>1, <2>3, <3>1
    <3>3. QED
      BY <2>3, <3>1, <3>2
  <2>5. longer[i].by = q
    BY <1>1, <2>2, <2>4
  <2>6. QED
    BY <1>8, <2>4, <2>5 DEF longer
<1>11. ASSUME NEW c \in Consumers, slice'[c] # Absent
       PROVE  slice'[QueueOf[c]] # Absent /\ (slice'[c] = slice'[QueueOf[c]] \/ OnEngine(slice'[c]))
  <2>1. slice'[c] = slice[c] /\ c \in Owners /\ c # q /\ QueueOf[c] \in Owners
    BY <1>8, OwnersApart
  <2>2. slice[QueueOf[c]] # Absent /\ (slice[c] = slice[QueueOf[c]] \/ OnEngine(slice[c]))
    BY <1>2, <1>11, <2>1 DEF ShareInv
  <2>3. CASE QueueOf[c] = q
    <3>1. OnEngine(slice[c]) \/ slice[c].array[1] # q
      BY <1>6, <1>11, <2>1
    <3>2. OnEngine(slice[c])
      BY <1>4, <2>2, <2>3, <3>1 DEF s
    <3>3. QED
      BY <1>8, <2>1, <2>3, <3>2
  <2>4. CASE QueueOf[c] # q
    BY <1>8, <2>1, <2>2, <2>4
  <2>5. QED
    BY <2>3, <2>4
<1>12. ASSUME NEW x \in Queues, slice'[x] # Absent
       PROVE  /\ OnEngine(slice'[x]) \/ slice'[x].array[1] = x
              /\ (\A i \in DOMAIN asked'[x] : asked'[x][i].by # x) => OnEngine(slice'[x])
  <2>1. CASE x = q
    BY <1>5, <1>8, <1>10, <2>1
  <2>2. CASE x # q
    <3>1. slice'[x] = slice[x] /\ asked'[x] = asked[x]
      BY <1>8, <2>2, OwnersApart
    <3>2. QED
      BY <1>2, <1>12, <3>1 DEF ShareInv
  <2>3. QED
    BY <2>1, <2>2
<1>13. ShareInv'
  BY <1>2, <1>9, <1>11, <1>12 DEF ShareInv
<1>14. QED
  BY <1>8, <1>13 DEF IInv

-----------------------------------------------------------------------------
(* Requests.                                                               *)

\* What a step that leaves the slices and the arrays alone keeps.
LEMMA SetupKept ==
  ASSUME IInv, UNCHANGED <<heap, slice, asked>>
  PROVE  HeapOK' /\ SliceInv' /\ ShareInv'
BY DEF IInv, Typed, HeapOK, SliceInv, ShareInv, OnEngine

\* A consumer that has not moved has the same place in the same chain.
LEMMA PlaceKept ==
  ASSUME UNCHANGED <<heap, slice, asked>>, NEW c \in Consumers,
         pc'[c] = pc[c], chained'[c] = chained[c], ReadsRight(c)
  PROVE  ReadsRight(c)'
BY DEF ReadsRight, Right

LEMMA RightKept ==
  ASSUME UNCHANGED asked
  PROVE  \A c, i, m : Right(c, i, m)' <=> Right(c, i, m)
BY DEF Right

LEMMA RunStep ==
  ASSUME IInv, Run
  PROVE  IInv'
<1>1. ~running /\ running' = TRUE
      /\ UNCHANGED <<heap, slice, asked, pc, hand, chained, ready, task, ran>>
  BY DEF Run, unused
<1>2. HeapOK' /\ SliceInv' /\ ShareInv'
  BY <1>1, SetupKept
<1>3. Typed'
  BY <1>1, <1>2 DEF IInv, Typed
<1>4. ChainInv'
  BY <1>1 DEF IInv, ChainInv
<1>5. TaskInv'
  BY <1>1 DEF IInv, TaskInv, OwnHandler
<1>6. QED
  BY <1>2, <1>3, <1>4, <1>5 DEF IInv

LEMMA PublishStep ==
  ASSUME IInv, NEW t \in Tasks, NEW q \in Queues, Publish(t, q)
  PROVE  IInv'
<1>1. /\ task[t].name = "none" /\ task' = [task EXCEPT ![t] = [@ EXCEPT !.name = q]]
      /\ ready' = [ready EXCEPT ![q] = @ \cup {t}]
      /\ UNCHANGED <<heap, slice, asked, running, pc, hand, chained, ran>>
  BY DEF Publish, setup
<1>2. HeapOK' /\ SliceInv' /\ ShareInv'
  BY <1>1, SetupKept
<1>3. /\ task \in [Tasks -> [name : Queues \cup {"none"}, retries : Nat]]
      /\ ready \in [Queues -> SUBSET Tasks] /\ ran \in SUBSET (Tasks \X Queues)
  BY DEF IInv, Typed
<1>4. /\ task' \in [Tasks -> [name : Queues \cup {"none"}, retries : Nat]] /\ task'[t].name = q
      /\ \A u \in Tasks : u # t => task'[u] = task[u]
  <2> DEFINE new == [task[t] EXCEPT !.name = q]
  <2>1. new \in [name : Queues \cup {"none"}, retries : Nat] /\ new.name = q
    BY <1>3
  <2>2. task' = [task EXCEPT ![t] = new]
    BY <1>1
  <2> HIDE DEF new
  <2>3. QED
    BY <1>3, <2>1, <2>2
<1>5. /\ ready' \in [Queues -> SUBSET Tasks] /\ ready'[q] = ready[q] \cup {t}
      /\ \A x \in Queues : x # q => ready'[x] = ready[x]
  BY <1>1, <1>3
\* A task that has a queue keeps it.
<1>6. \A u \in Tasks : task[u].name \in Queues => task'[u].name = task[u].name
  BY <1>1, <1>4
<1>7. Typed'
  BY <1>1, <1>2, <1>4, <1>5 DEF IInv, Typed
<1>8. ChainInv'
  <2>1. SUFFICES ASSUME NEW c \in Consumers
                 PROVE  /\ pc[c] # "consume" => /\ running /\ slice[c] # Absent /\ hand[c] \in Tasks
                                                /\ task'[hand[c]].name = QueueOf[c]
                        /\ pc[c] \in {"chain", "handle"} => ReadsRight(c)'
    BY <1>1 DEF ChainInv
  <2>2. /\ pc[c] # "consume" => /\ running /\ slice[c] # Absent /\ hand[c] \in Tasks
                                /\ task[hand[c]].name = QueueOf[c]
        /\ pc[c] \in {"chain", "handle"} => ReadsRight(c)
    BY DEF IInv, ChainInv
  <2>3. pc[c] \in {"chain", "handle"} => ReadsRight(c)'
    BY <1>1, <2>2, PlaceKept
  <2>4. QED
    BY <1>6, <2>2, <2>3, OwnersApart
<1>9. TaskInv'
  <2>1. \A x \in Queues : \A u \in ready'[x] : task'[u].name = x
    BY <1>3, <1>4, <1>5, <1>6 DEF IInv, TaskInv
  <2>2. \A run \in ran : task'[run[1]].name = run[2]
    BY <1>3, <1>6 DEF IInv, TaskInv, OwnHandler
  <2>3. QED
    BY <1>1, <2>1, <2>2 DEF TaskInv, OwnHandler
<1>10. QED
  BY <1>2, <1>7, <1>8, <1>9 DEF IInv

LEMMA ConsumeStep ==
  ASSUME IInv, NEW c \in Consumers, NEW t \in Tasks, Consume(c, t)
  PROVE  IInv'
<1> DEFINE q == QueueOf[c]
<1>1. /\ running /\ slice[c] # Absent /\ pc[c] = "consume" /\ t \in ready[q]
      /\ ready' = [ready EXCEPT ![q] = @ \ {t}] /\ hand' = [hand EXCEPT ![c] = t]
      /\ pc' = [pc EXCEPT ![c] = "append"]
      /\ UNCHANGED <<heap, slice, asked, running, chained, task, ran>>
  BY DEF Consume, setup
<1>2. HeapOK' /\ SliceInv' /\ ShareInv'
  BY <1>1, SetupKept
<1>3. /\ q \in Queues /\ ready \in [Queues -> SUBSET Tasks]
      /\ pc \in [Consumers -> {"consume", "append", "chain", "handle"}]
      /\ hand \in [Consumers -> Tasks \cup {NoTask}]
  BY OwnersApart DEF IInv, Typed
<1>4. /\ pc' \in [Consumers -> {"consume", "append", "chain", "handle"}]
      /\ hand' \in [Consumers -> Tasks \cup {NoTask}]
      /\ pc'[c] = "append" /\ hand'[c] = t
      /\ \A d \in Consumers : d # c => pc'[d] = pc[d] /\ hand'[d] = hand[d]
  BY <1>1, <1>3
<1>5. /\ ready' \in [Queues -> SUBSET Tasks]
      /\ \A x \in Queues : ready'[x] \subseteq ready[x]
  BY <1>1, <1>3
<1>6. Typed'
  BY <1>1, <1>2, <1>4, <1>5 DEF IInv, Typed
<1>7. task[t].name = q
  BY <1>1, <1>3 DEF IInv, TaskInv
<1>8. ChainInv'
  <2>1. SUFFICES ASSUME NEW d \in Consumers
                 PROVE  /\ pc'[d] # "consume" => /\ running /\ slice[d] # Absent /\ hand'[d] \in Tasks
                                                 /\ task[hand'[d]].name = QueueOf[d]
                        /\ pc'[d] \in {"chain", "handle"} => ReadsRight(d)'
    BY <1>1 DEF ChainInv
  <2>2. CASE d = c
    BY <1>1, <1>4, <1>7, <2>2
  <2>3. CASE d # c
    <3>1. /\ pc[d] # "consume" => /\ running /\ slice[d] # Absent /\ hand[d] \in Tasks
                                  /\ task[hand[d]].name = QueueOf[d]
          /\ pc[d] \in {"chain", "handle"} => ReadsRight(d)
      BY DEF IInv, ChainInv
    <3>2. pc'[d] \in {"chain", "handle"} => ReadsRight(d)'
      BY <1>1, <1>4, <2>3, <3>1, PlaceKept
    <3>3. QED
      BY <1>4, <2>3, <3>1, <3>2
  <2>4. QED
    BY <2>2, <2>3
<1>9. TaskInv'
  BY <1>1, <1>5 DEF IInv, TaskInv, OwnHandler
<1>10. QED
  BY <1>2, <1>6, <1>8, <1>9 DEF IInv

\* The append of a handleTask touches nothing that a slice shows, and of what
\* others read only the slot in which a consumer of their queue puts its own.
LEMMA AppendStep ==
  ASSUME IInv, NEW c \in Consumers, AppendHandleRequest(c)
  PROVE  IInv'
<1> DEFINE s == slice[c]
           q == QueueOf[c]
           m == HandleRequest(c)
           r == AppendSlice(c, s, <<m>>)
           h == AppendHeap(c, s, <<m>>)
           n == s.len
<1>1. /\ pc[c] = "append" /\ heap' = h
      /\ chained' = [chained EXCEPT ![c] = [slice |-> r, chain |-> <<>>]]
      /\ pc' = [pc EXCEPT ![c] = "chain"]
      /\ UNCHANGED <<slice, asked, running, hand, ready, task, ran>>
  BY Zenon DEF AppendHandleRequest, setup
<1>2. /\ running /\ s # Absent /\ c \in Owners /\ q \in Queues /\ q \in Owners
      /\ HeapOK /\ SliceInv /\ ShareInv /\ ChainInv
      /\ slice \in [Owners -> Slices] /\ asked \in [Owners -> Seq(Uses)]
      /\ pc \in [Consumers -> {"consume", "append", "chain", "handle"}]
      /\ chained \in [Consumers -> Chains]
  BY <1>1, OwnersApart DEF IInv, Typed, ChainInv
<1>3. s \in Slices /\ Holds(heap, s, asked[c]) /\ asked[c] \in Seq(Uses)
  BY <1>2 DEF SliceInv
<1>4. m \in Elements /\ m.name = "handleRequest" /\ m.by = c
  BY <1>2 DEF HandleRequest, Elements
<1>5. r = AppendSlice(c, s, <<m>>) /\ h = AppendHeap(c, s, <<m>>)
  OBVIOUS
<1> HIDE DEF r, h, m
<1>6. /\ r \in Slices /\ n \in Nat /\ r.len = n + 1 /\ r.len <= Capacity(r)
      /\ r.array \in DOMAIN h /\ DOMAIN h \subseteq Owners \X Nat
      /\ DOMAIN heap \subseteq DOMAIN h
      /\ \A a \in DOMAIN h : h[a] \in [1..a[2] -> Elements]
      /\ \A i \in 1..n : h[r.array][i] = heap[s.array][i]
      /\ h[r.array][n + 1] = m
      /\ \A a \in DOMAIN heap : a # r.array => h[a] = heap[a]
      /\ n < Capacity(s) =>
           /\ r.array = s.array
           /\ \A i \in 1..Capacity(s) : i # n + 1 => h[s.array][i] = heap[s.array][i]
      /\ ~(n < Capacity(s)) => r.array[1] = c /\ n = Capacity(s)
  <2>1. HeapOK /\ c \in Owners /\ s \in Slices /\ Holds(heap, s, asked[c]) /\ m \in Elements
    BY <1>2, <1>3, <1>4
  <2> HIDE DEF s
  <2>2. QED
    BY <1>5, <2>1, AppendOne
\* Where the element goes: into an array of the consumer's own, or behind the
\* slice of its queue.
<1>7. \/ r.array[1] = c
      \/ r.array = s.array /\ s = slice[q] /\ s.array[1] = q /\ n < Capacity(s) /\ s # Absent
  <2>1. CASE n < Capacity(s)
    <3>1. ~OnEngine(s)
      BY <1>6, <2>1 DEF OnEngine
    <3>2. s = slice[q] /\ s.array[1] = q
      BY <1>2, <3>1, Whose, OwnersApart
    <3>3. QED
      BY <1>2, <1>6, <2>1, <3>2
  <2>2. CASE ~(n < Capacity(s))
    BY <1>6, <2>2
  <2>3. QED
    BY <2>1, <2>2
<1>8. ASSUME NEW p \in Owners, slice[p] # Absent
      PROVE  /\ slice[p] \in Slices /\ Holds(heap, slice[p], asked[p])
             /\ \A i \in 1..slice[p].len : h[slice[p].array][i] = heap[slice[p].array][i]
  <2> DEFINE w == slice[p]
  <2>1. w \in Slices /\ Holds(heap, w, asked[p])
    BY <1>2, <1>8 DEF SliceInv
  <2>2. w.array \in DOMAIN heap /\ w.len <= Capacity(w)
    BY <2>1 DEF Holds
  <2>3. CASE w.array # r.array
    BY <1>6, <2>1, <2>2, <2>3
  <2>4. CASE w.array = r.array
    <3>1. w.array[1] # c
      <4>1. \/ w.array[1] = Engine \/ w.array[1] \in Queues
        BY <1>2, <1>8, Whose, OwnersApart DEF OnEngine
      <4>2. QED
        BY <4>1, OwnersApart
    <3>2. w.array = s.array /\ s = slice[q] /\ w.array[1] = q /\ n < Capacity(s)
      BY <1>7, <2>4, <3>1
    <3>3. ~OnEngine(w)
      BY <1>2, <3>2, OwnersApart DEF OnEngine
    <3>4. w = slice[q]
      <4>1. \/ p \in Queues /\ w.array[1] = p
            \/ p \in Consumers /\ w = slice[QueueOf[p]] /\ w.array[1] = QueueOf[p]
        BY <1>2, <1>8, <3>3, Whose
      <4>2. QED
        BY <3>2, <4>1
    <3>5. w.len = n
      BY <3>2, <3>4
    <3>6. \A i \in 1..n : i \in 1..Capacity(s) /\ i # n + 1
      BY <1>6, <3>2 DEF Capacity
    <3>7. QED
      BY <1>6, <2>1, <3>2, <3>5, <3>6
  <2>5. QED
    BY <2>3, <2>4
<1>9. HeapOK'
  BY <1>1, <1>6 DEF HeapOK
<1>10. SliceInv'
  <2>1. SUFFICES ASSUME NEW p \in Owners, slice[p] # Absent PROVE Holds(h, slice[p], asked[p])
    BY <1>1 DEF SliceInv
  <2>2. QED
    BY <1>6, <1>8, <2>1, StillHolds
<1>11. ShareInv'
  BY <1>1, <1>2 DEF ShareInv, OnEngine
<1>12. /\ chained' \in [Consumers -> Chains] /\ chained'[c] = [slice |-> r, chain |-> <<>>]
       /\ \A d \in Consumers : d # c => chained'[d] = chained[d] /\ pc'[d] = pc[d]
       /\ pc' \in [Consumers -> {"consume", "append", "chain", "handle"}] /\ pc'[c] = "chain"
  <2> DEFINE new == [slice |-> r, chain |-> <<>>]
  <2>1. new \in Chains
    BY <1>6 DEF Chains
  <2>2. chained' = [chained EXCEPT ![c] = new]
    BY <1>1
  <2> HIDE DEF new
  <2>3. chained' \in [Consumers -> Chains] /\ chained'[c] = new
        /\ \A d \in Consumers : d # c => chained'[d] = chained[d]
    BY <1>2, <2>1, <2>2
  <2>4. QED
    BY <1>1, <1>2, <2>3 DEF new
<1>13. Typed'
  BY <1>1, <1>9, <1>12 DEF IInv, Typed
\* The consumer's own slice.
<1>14. ReadsRight(c)'
  <2>1. Len(asked[c]) = n /\ \A i \in 1..n : h[r.array][i] = asked[c][i]
    BY <1>3, <1>6 DEF Holds
  <2>2. ASSUME NEW i \in 1..(n + 1) PROVE Right(c, i, h[r.array][i])
    <3>1. CASE i = n + 1
      BY <1>4, <1>6, <2>1, <3>1 DEF Right
    <3>2. CASE i # n + 1
      <4>1. i \in 1..n
        BY <1>6, <3>2
      <4>2. QED
        BY <1>6, <2>1, <4>1 DEF Right
    <3>3. QED
      BY <3>1, <3>2
  <2>3. chained'[c].slice = r /\ chained'[c].chain = <<>> /\ heap' = h /\ pc'[c] = "chain"
    BY <1>1, <1>12
  <2>4. r = AppendSlice(c, slice[c], <<HandleRequest(c)>>)'
    BY <1>1, <1>5 DEF m, AppendSlice, HasRoom, Capacity
  <2>5. \A i \in 1..(n + 1) : \A x : x = h[r.array][i] => Right(c, i, x)'
    BY <1>1, <2>2, RightKept
  <2>6. /\ Len(chained'[c].chain) = 0 /\ r.len = n + 1 /\ n \in Nat /\ r.array \in DOMAIN h
    BY <1>6, <2>3
  <2>7. QED
    BY <2>3, <2>4, <2>5, <2>6 DEF ReadsRight
\* The consumers that read.
<1>15. ASSUME NEW d \in Consumers, d # c, pc[d] \in {"chain", "handle"}
       PROVE  ReadsRight(d)'
  <2> DEFINE w == chained[d].slice
             list == asked[d]
  <2>1. /\ ReadsRight(d) /\ slice[d] # Absent /\ d \in Owners /\ chained'[d] = chained[d] /\ pc'[d] = pc[d]
        /\ slice'[d] = slice[d]
    BY <1>1, <1>2, <1>12, <1>15, OwnersApart DEF ChainInv
  <2>2. w = AppendSlice(d, slice[d], <<HandleRequest(d)>>)
    BY <2>1 DEF ReadsRight
  <2>3. CASE pc[d] = "handle"
    <3>1. \A i, x : Right(d, i, x)' <=> Right(d, i, x)
      BY <1>1, RightKept
    <3>2. QED
      BY <2>1, <2>3, <3>1 DEF ReadsRight
  <2>4. CASE pc[d] = "chain"
    <3>1. w.array \in DOMAIN heap /\ \A i \in 1..w.len : Right(d, i, heap[w.array][i])
      BY <2>1, <2>4 DEF ReadsRight
    <3>2. w.array \in DOMAIN h
      BY <1>6, <3>1
    <3>3. ASSUME NEW i \in 1..w.len PROVE Right(d, i, h[w.array][i])
      <4>1. CASE w.array # r.array
        BY <1>6, <3>1, <4>1
      <4>2. CASE w.array = r.array
        <5>1. \/ w.array = slice[d].array
              \/ w.array[1] = d
          BY <2>2 DEF AppendSlice
        <5>2. slice[d].array[1] # c
          <6>1. slice[d].array[1] = Engine \/ slice[d].array[1] \in Queues
            BY <1>2, <2>1, Whose, OwnersApart DEF OnEngine
          <6>2. QED
            BY <6>1, OwnersApart
        <5>3. r.array[1] # c
          BY <1>15, <4>2, <5>1, <5>2
        <5>4. r.array = s.array /\ s = slice[q] /\ r.array[1] = q /\ n < Capacity(s)
          BY <1>7, <5>3
        <5>5. w.array = slice[d].array /\ slice[d].array[1] = q
          BY <4>2, <5>1, <5>4, OwnersApart
        <5>6. slice[d] = slice[q] /\ QueueOf[d] = q
          <6>1. ~OnEngine(slice[d])
            <7>1. q # Engine
              BY <1>2, OwnersApart
            <7>2. QED
              BY <5>5, <7>1 DEF OnEngine
          <6>2. slice[d] = slice[QueueOf[d]] /\ slice[d].array[1] = QueueOf[d]
            BY <1>2, <2>1, <6>1, Whose, OwnersApart
          <6>3. QED
            BY <5>5, <6>2
        <5>7. w.len = n + 1 /\ Len(list) = n
          <6>1. w.len = slice[d].len + 1
            BY <2>2 DEF AppendSlice
          <6>2. slice[d].len = Len(list)
            BY <1>8, <2>1 DEF Holds
          <6>3. QED
            BY <5>4, <5>6, <6>1, <6>2
        <5>8. CASE i = n + 1
          <6>1. h[w.array][i] = m
            BY <1>6, <4>2, <5>8
          <6>2. ~(i <= Len(list))
            BY <1>6, <5>7, <5>8
          <6>3. QED
            BY <1>4, <5>6, <6>1, <6>2 DEF Right
        <5>9. CASE i # n + 1
          <6>1. i \in 1..n
            <7>1. n \in Nat /\ i \in 1..(n + 1)
              BY <1>6, <5>7
            <7>2. QED
              BY <5>9, <7>1
          <6>2. h[w.array][i] = heap[s.array][i] /\ s.array = w.array
            BY <1>6, <4>2, <5>4, <6>1
          <6>3. QED
            BY <3>1, <6>2
        <5>10. QED
          BY <5>8, <5>9
      <4>3. QED
        BY <4>1, <4>2
    <3>4. \A i, x : Right(d, i, x)' <=> Right(d, i, x)
      BY <1>1, RightKept
    <3> HIDE DEF list
    <3>5. heap' = h
      BY <1>1
    <3>6. QED
      BY <2>1, <2>4, <3>2, <3>3, <3>4, <3>5 DEF ReadsRight
  <2>5. QED
    BY <1>15, <2>3, <2>4
<1>16. ChainInv'
  <2>1. SUFFICES ASSUME NEW d \in Consumers
                 PROVE  /\ pc'[d] # "consume" => /\ running /\ slice[d] # Absent /\ hand[d] \in Tasks
                                                 /\ task[hand[d]].name = QueueOf[d]
                        /\ pc'[d] \in {"chain", "handle"} => ReadsRight(d)'
    BY <1>1 DEF ChainInv
  <2>2. pc[d] # "consume" => /\ running /\ slice[d] # Absent /\ hand[d] \in Tasks
                             /\ task[hand[d]].name = QueueOf[d]
    BY <1>2 DEF ChainInv
  <2>3. CASE d = c
    BY <1>1, <1>14, <2>2, <2>3
  <2>4. CASE d # c
    BY <1>12, <1>15, <2>2, <2>4
  <2>5. QED
    BY <2>3, <2>4
<1>17. TaskInv'
  BY <1>1 DEF IInv, TaskInv, OwnHandler
<1>18. QED
  BY <1>10, <1>11, <1>13, <1>16, <1>17 DEF IInv

LEMMA WrapStep ==
  ASSUME IInv, NEW c \in Consumers, Wrap(c)
  PROVE  IInv'
<1> DEFINE s == chained[c].slice
           chain == chained[c].chain
           k == Len(chain)
           x == heap[s.array][s.len - k]
           new == [chained[c] EXCEPT !.chain = <<x>> \o chain]
<1>1. /\ pc[c] = "chain" /\ chained' = [chained EXCEPT ![c] = new]
      /\ pc' = [pc EXCEPT ![c] = IF s.len - k = 1 THEN "handle" ELSE "chain"]
      /\ UNCHANGED <<heap, slice, asked, running, hand, ready, task, ran>>
  BY DEF Wrap, NextSlot, setup
<1>2. /\ running /\ slice[c] # Absent /\ c \in Owners /\ ReadsRight(c)
      /\ HeapOK /\ SliceInv /\ ChainInv
      /\ pc \in [Consumers -> {"consume", "append", "chain", "handle"}]
      /\ chained \in [Consumers -> Chains] /\ slice[c] \in Slices
  BY <1>1, OwnersApart DEF IInv, Typed, ChainInv
<1>3. HeapOK' /\ SliceInv' /\ ShareInv'
  BY <1>1, SetupKept
<1>4. s \in Slices /\ chain \in Seq(Elements) /\ k \in Nat
  BY <1>2 DEF Chains
<1>5. /\ k < s.len /\ s.array \in DOMAIN heap /\ s = AppendSlice(c, slice[c], <<HandleRequest(c)>>)
      /\ \A i \in 1..s.len : Right(c, i, heap[s.array][i])
      /\ \A j \in 1..k : Right(c, s.len - k + j, chain[j])
  BY <1>1, <1>2 DEF ReadsRight
<1>6. s.len \in Nat /\ s.len <= Capacity(s)
  <2>1. HandleRequest(c) \in Elements
    BY <1>2 DEF HandleRequest, Elements
  <2>2. Holds(heap, slice[c], asked[c])
    BY <1>2 DEF SliceInv
  <2> HIDE DEF s
  <2>3. s.len <= Capacity(s) /\ slice[c].len \in Nat /\ s.len = slice[c].len + 1
    <3> DEFINE w == slice[c]
               m == HandleRequest(c)
    <3>1. HeapOK /\ w \in Slices /\ Holds(heap, w, asked[c]) /\ m \in Elements /\ c \in Owners
      BY <1>2, <2>1, <2>2
    <3>2. s = AppendSlice(c, w, <<m>>)
      BY <1>5
    <3> HIDE DEF w, m
    <3>3. s.len <= Capacity(s) /\ w.len \in Nat /\ s.len = w.len + 1
      BY <3>1, <3>2, AppendOne
    <3>4. QED
      BY <3>3 DEF w
  <2>4. QED
    BY <2>3
<1>7. s.len - k \in 1..s.len /\ x \in Elements /\ Right(c, s.len - k, x)
  <2>1. s.len - k \in 1..s.len /\ s.len - k \in 1..Capacity(s)
    BY <1>4, <1>5, <1>6 DEF Capacity, Slices
  <2>2. heap[s.array] \in [1..Capacity(s) -> Elements]
    BY <1>2, <1>5 DEF HeapOK, Capacity
  <2>3. QED
    BY <1>5, <2>1, <2>2
<1> HIDE DEF x
<1>8. /\ <<x>> \o chain \in Seq(Elements) /\ Len(<<x>> \o chain) = k + 1
      /\ (<<x>> \o chain)[1] = x /\ \A j \in 1..k : (<<x>> \o chain)[j + 1] = chain[j]
  BY <1>4, <1>7
<1>9. /\ new \in Chains /\ new.slice = s /\ new.chain = <<x>> \o chain
  <2> DEFINE longer == <<x>> \o chain
  <2>1. chained[c] \in Chains /\ longer \in Seq(Elements)
    BY <1>2, <1>8
  <2>2. new = [chained[c] EXCEPT !.chain = longer]
    OBVIOUS
  <2> HIDE DEF longer, new
  <2>3. new \in Chains /\ new.slice = chained[c].slice /\ new.chain = longer
    BY <2>1, <2>2 DEF Chains
  <2>4. QED
    BY <2>3 DEF longer
<1> HIDE DEF new
<1>10. /\ chained' \in [Consumers -> Chains] /\ chained'[c] = new
       /\ pc' \in [Consumers -> {"consume", "append", "chain", "handle"}]
       /\ pc'[c] = IF s.len - k = 1 THEN "handle" ELSE "chain"
       /\ \A d \in Consumers : d # c => chained'[d] = chained[d] /\ pc'[d] = pc[d]
  BY <1>1, <1>2, <1>9
<1>11. Typed'
  BY <1>1, <1>3, <1>10 DEF IInv, Typed
<1>12. ASSUME NEW j \in 1..Len(new.chain)
       PROVE  Right(c, new.slice.len - Len(new.chain) + j, new.chain[j])
  <2> DEFINE longer == <<x>> \o chain
  <2>1. /\ Len(longer) = k + 1 /\ longer[1] = x /\ \A i \in 1..k : longer[i + 1] = chain[i]
        /\ new.chain = longer /\ new.slice.len = s.len
    BY <1>8, <1>9
  <2> HIDE DEF longer, chain, s, k
  <2>2. CASE j = 1
    <3>1. s.len - (k + 1) + j = s.len - k
      BY <1>4, <1>6, <2>2
    <3>2. QED
      BY <1>7, <2>1, <2>2, <3>1
  <2>3. CASE j # 1
    <3>1. j - 1 \in 1..k /\ j - 1 + 1 = j
      BY <1>4, <1>12, <2>1, <2>3
    <3>2. s.len - (k + 1) + j = s.len - k + (j - 1)
      BY <1>4, <1>6, <3>1
    <3>3. longer[j] = chain[j - 1]
      BY <2>1, <3>1
    <3>4. QED
      BY <1>5, <2>1, <3>1, <3>2, <3>3
  <2>4. QED
    BY <2>2, <2>3
<1>13. ReadsRight(c)'
  <2>1. \A i, m : Right(c, i, m)' <=> Right(c, i, m)
    BY <1>1, RightKept
  <2>2. Len(new.chain) = k + 1 /\ new.slice = s
    BY <1>8, <1>9
  <2>3. pc'[c] = "chain" => k + 1 < s.len
    BY <1>4, <1>5, <1>6, <1>10
  <2>4. pc'[c] = "handle" => k + 1 = s.len
    BY <1>4, <1>6, <1>10
  <2>5. AppendSlice(c, slice[c], <<HandleRequest(c)>>)' = AppendSlice(c, slice[c], <<HandleRequest(c)>>)
    BY <1>1 DEF AppendSlice, Capacity
  <2> HIDE DEF s, k, chain
  <2>6. QED
    BY <1>1, <1>5, <1>10, <1>12, <2>1, <2>2, <2>3, <2>4, <2>5 DEF ReadsRight
<1>14. ChainInv'
  <2>1. SUFFICES ASSUME NEW d \in Consumers
                 PROVE  /\ pc'[d] # "consume" => /\ running /\ slice[d] # Absent /\ hand[d] \in Tasks
                                                 /\ task[hand[d]].name = QueueOf[d]
                        /\ pc'[d] \in {"chain", "handle"} => ReadsRight(d)'
    BY <1>1 DEF ChainInv
  <2>2. /\ pc[d] # "consume" => /\ running /\ slice[d] # Absent /\ hand[d] \in Tasks
                                /\ task[hand[d]].name = QueueOf[d]
        /\ pc[d] \in {"chain", "handle"} => ReadsRight(d)
    BY <1>2 DEF ChainInv
  <2>3. CASE d = c
    BY <1>1, <1>13, <2>2, <2>3
  <2>4. CASE d # c
    <3>1. pc'[d] \in {"chain", "handle"} => ReadsRight(d)'
      BY <1>1, <1>10, <2>2, <2>4, PlaceKept
    <3>2. QED
      BY <1>10, <2>2, <2>4, <3>1
  <2>5. QED
    BY <2>3, <2>4
<1>15. TaskInv'
  BY <1>1 DEF IInv, TaskInv, OwnHandler
<1>16. QED
  BY <1>3, <1>11, <1>14, <1>15 DEF IInv

\* The chain a request goes through: the middlewares of its consumer, then the
\* handleRequest of a consumer of the same queue.
LEMMA ChainFacts ==
  ASSUME IInv, NEW c \in Consumers, pc[c] = "handle"
  PROVE  LET chain == chained[c].chain
             n == Len(asked[c])
         IN /\ chain \in Seq(Elements) /\ n \in Nat /\ Len(chain) = n + 1 /\ asked[c] \in Seq(Uses)
            /\ \A i \in 1..n : chain[i] = asked[c][i]
            /\ chain[n + 1].name = "handleRequest"
            /\ chain[n + 1].by \in Consumers /\ QueueOf[chain[n + 1].by] = QueueOf[c]
            /\ \A i \in 1..n : chain[i].name # "handleRequest"
<1> DEFINE chain == chained[c].chain
           n == Len(asked[c])
<1>1. /\ slice[c] # Absent /\ ReadsRight(c) /\ asked[c] \in Seq(Uses) /\ chained[c] \in Chains
      /\ Holds(heap, slice[c], asked[c])
  BY OwnersApart DEF IInv, ChainInv, Typed, SliceInv
<1>2. chain \in Seq(Elements) /\ n \in Nat
  BY <1>1 DEF Chains
<1>3. chained[c].slice.len = n + 1
  BY <1>1 DEF ReadsRight, AppendSlice, Holds
<1>4. /\ Len(chain) = chained[c].slice.len
      /\ \A j \in 1..Len(chain) : Right(c, chained[c].slice.len - Len(chain) + j, chain[j])
  BY <1>1 DEF ReadsRight
<1>5. \A j \in 1..(n + 1) : Right(c, j, chain[j])
  <2>1. TAKE j \in 1..(n + 1)
  <2>2. n + 1 - (n + 1) + j = j
    BY <1>2
  <2>3. Right(c, n + 1 - (n + 1) + j, chain[j])
    BY <1>3, <1>4
  <2>4. QED
    BY <2>2, <2>3
<1>6. \A i \in 1..n : chain[i] = asked[c][i]
  BY <1>2, <1>5 DEF Right
<1>7. /\ chain[n + 1].name = "handleRequest" /\ chain[n + 1].by \in Consumers
      /\ QueueOf[chain[n + 1].by] = QueueOf[c]
  <2>1. n + 1 \in 1..(n + 1) /\ ~(n + 1 <= n)
    BY <1>2
  <2>2. QED
    BY <1>5, <2>1 DEF Right
<1>8. \A i \in 1..n : asked[c][i] \in Uses
  BY <1>1
<1>9. \A m \in Uses : m.name # "handleRequest"
  BY DEF Uses
<1>10. \A i \in 1..n : chain[i].name # "handleRequest"
  BY <1>6, <1>8, <1>9
<1>11. QED
  BY <1>1, <1>2, <1>3, <1>4, <1>6, <1>7, <1>10

\* The handleRequest of the chain publishes to the consumer's own queue.
LEMMA InnerFacts ==
  ASSUME IInv, NEW c \in Consumers, pc[c] = "handle", NEW by, by = InnerHandler(chained[c].chain)
  PROVE  by \in Consumers /\ QueueOf[by] = QueueOf[c]
<1> DEFINE chain == chained[c].chain
           n == Len(asked[c])
           handlers == Named(chain, {"handleRequest"})
           inner == CHOOSE i \in handlers : \A j \in handlers : j <= i
<1>1. /\ chain \in Seq(Elements) /\ n \in Nat /\ Len(chain) = n + 1
      /\ chain[n + 1].name = "handleRequest"
      /\ chain[n + 1].by \in Consumers /\ QueueOf[chain[n + 1].by] = QueueOf[c]
      /\ \A i \in 1..n : chain[i].name # "handleRequest"
  BY ChainFacts
<1>2. handlers = {n + 1}
  <2>1. \A i \in 1..(n + 1) : i \in 1..n \/ i = n + 1
    BY <1>1
  <2>2. DOMAIN chain = 1..(n + 1) /\ n + 1 \in 1..(n + 1)
    BY <1>1
  <2> HIDE DEF chain, n
  <2>3. QED
    BY <1>1, <2>1, <2>2 DEF Named
<1>3. inner = n + 1
  <2> HIDE DEF handlers, n
  <2>1. \A i \in handlers : i = n + 1
    BY <1>2
  <2>2. n + 1 \in handlers /\ \A j \in handlers : j <= n + 1
    BY <1>1, <1>2
  <2>3. QED
    BY <2>1, <2>2
<1>4. by = chain[inner].by
  BY Zenon DEF InnerHandler
<1> HIDE DEF inner, n, chain
<1>5. QED
  BY <1>1, <1>3, <1>4

LEMMA HandleStep ==
  ASSUME IInv, NEW c \in Consumers, Handle(c)
  PROVE  IInv'
<1> DEFINE t == hand[c]
           q == QueueOf[c]
           chain == chained[c].chain
           none == [slice |-> NilSlice, chain |-> <<>>]
<1>1. /\ pc[c] = "handle" /\ ran' = ran \cup {<<t, q>>}
      /\ \/ UNCHANGED <<task, ready>>
         \/ Retry(InnerHandler(chain), t)
         \/ Retry(c, t)
      /\ pc' = [pc EXCEPT ![c] = "consume"] /\ hand' = [hand EXCEPT ![c] = NoTask]
      /\ chained' = [chained EXCEPT ![c] = none]
      /\ UNCHANGED <<heap, slice, asked, running>>
  BY DEF Handle, setup
<1>2. /\ running /\ slice[c] # Absent /\ t \in Tasks /\ task[t].name = q /\ q \in Queues
      /\ ChainInv /\ TaskInv
      /\ pc \in [Consumers -> {"consume", "append", "chain", "handle"}]
      /\ hand \in [Consumers -> Tasks \cup {NoTask}]
      /\ chained \in [Consumers -> Chains] /\ ready \in [Queues -> SUBSET Tasks]
      /\ task \in [Tasks -> [name : Queues \cup {"none"}, retries : Nat]]
      /\ ran \in SUBSET (Tasks \X Queues)
  BY <1>1, OwnersApart DEF IInv, Typed, ChainInv
<1>3. HeapOK' /\ SliceInv' /\ ShareInv'
  BY <1>1, SetupKept
\* Whoever publishes the retry, it goes to the queue of the task.
<1>4. UNCHANGED <<task, ready>> \/ \E b \in Consumers : QueueOf[b] = q /\ Retry(b, t)
  <2>1. InnerHandler(chain) \in Consumers /\ QueueOf[InnerHandler(chain)] = q
    BY <1>1, InnerFacts
  <2>2. QED
    BY <1>1, <2>1
<1>5. \/ UNCHANGED <<task, ready>>
      \/ /\ task[t].retries # 0
         /\ task' = [task EXCEPT ![t] = [task[t] EXCEPT !.retries = task[t].retries - 1]]
         /\ ready' = [ready EXCEPT ![q] = @ \cup {t}]
  <2>1. CASE UNCHANGED <<task, ready>>
    BY <2>1
  <2>2. CASE ~UNCHANGED <<task, ready>>
    <3>1. PICK b \in Consumers : QueueOf[b] = q /\ Retry(b, t)
      BY <1>4, <2>2
    <3>2. /\ task[t].retries # 0 /\ task' = [task EXCEPT ![t].retries = @ - 1]
          /\ ready' = [ready EXCEPT ![QueueOf[b]] = @ \cup {t}]
      BY <2>2, <3>1, Zenon DEF Retry
    <3>3. QED
      BY <3>1, <3>2
  <2>3. QED
    BY <2>1, <2>2
<1>6. /\ task' \in [Tasks -> [name : Queues \cup {"none"}, retries : Nat]]
      /\ \A u \in Tasks : task'[u].name = task[u].name
      /\ ready' \in [Queues -> SUBSET Tasks]
      /\ \A x \in Queues : \A u \in ready'[x] : u \in ready[x] \/ (x = q /\ u = t)
  <2>1. CASE UNCHANGED <<task, ready>>
    BY <1>2, <2>1
  <2>2. CASE ~UNCHANGED <<task, ready>>
    <3> DEFINE new == [task[t] EXCEPT !.retries = task[t].retries - 1]
    <3>1. task[t] \in [name : Queues \cup {"none"}, retries : Nat] /\ task[t].retries - 1 \in Nat
      <4>1. task[t] \in [name : Queues \cup {"none"}, retries : Nat]
        BY <1>2
      <4>2. task[t].retries \in Nat /\ task[t].retries # 0
        BY <1>5, <2>2, <4>1
      <4>3. QED
        BY <4>1, <4>2
    <3>2. new \in [name : Queues \cup {"none"}, retries : Nat] /\ new.name = task[t].name
      BY <3>1
    <3>3. task' = [task EXCEPT ![t] = new] /\ ready' = [ready EXCEPT ![q] = @ \cup {t}]
      BY <1>5, <2>2
    <3> HIDE DEF new
    <3>4. /\ task' \in [Tasks -> [name : Queues \cup {"none"}, retries : Nat]]
          /\ \A u \in Tasks : task'[u].name = task[u].name
      BY <1>2, <3>2, <3>3
    <3>5. /\ ready' \in [Queues -> SUBSET Tasks]
          /\ \A x \in Queues : \A u \in ready'[x] : u \in ready[x] \/ (x = q /\ u = t)
      BY <1>2, <3>3
    <3>6. QED
      BY <3>4, <3>5
  <2>3. QED
    BY <2>1, <2>2
<1>7. /\ pc' \in [Consumers -> {"consume", "append", "chain", "handle"}] /\ pc'[c] = "consume"
      /\ hand' \in [Consumers -> Tasks \cup {NoTask}]
      /\ \A d \in Consumers : d # c => pc'[d] = pc[d] /\ hand'[d] = hand[d]
  BY <1>1, <1>2
<1>8. /\ chained' \in [Consumers -> Chains]
      /\ \A d \in Consumers : d # c => chained'[d] = chained[d]
  <2>1. none \in Chains
    BY OwnersApart DEF Chains, Slices, NilSlice
  <2> HIDE DEF none
  <2>2. QED
    BY <1>1, <1>2, <2>1
<1>9. Typed'
  BY <1>1, <1>2, <1>3, <1>6, <1>7, <1>8 DEF IInv, Typed
<1>10. ChainInv'
  <2>1. SUFFICES ASSUME NEW d \in Consumers, pc'[d] # "consume"
                 PROVE  /\ running /\ slice[d] # Absent /\ hand'[d] \in Tasks
                        /\ task'[hand'[d]].name = QueueOf[d]
                        /\ pc'[d] \in {"chain", "handle"} => ReadsRight(d)'
    BY <1>1 DEF ChainInv
  <2>2. d # c /\ pc'[d] = pc[d] /\ hand'[d] = hand[d] /\ chained'[d] = chained[d]
    BY <1>7, <1>8, <2>1
  <2>3. /\ running /\ slice[d] # Absent /\ hand[d] \in Tasks /\ task[hand[d]].name = QueueOf[d]
        /\ pc[d] \in {"chain", "handle"} => ReadsRight(d)
    BY <1>2, <2>1, <2>2 DEF ChainInv
  <2>4. pc[d] \in {"chain", "handle"} => ReadsRight(d)'
    BY <1>1, <2>2, <2>3, PlaceKept
  <2>5. QED
    BY <1>6, <2>2, <2>3, <2>4
<1>11. TaskInv'
  <2>1. \A x \in Queues : \A u \in ready'[x] : u \in Tasks /\ task'[u].name = x
    BY <1>2, <1>6 DEF TaskInv
  <2>2. \A run \in ran' : task'[run[1]].name = run[2]
    <3>1. TAKE run \in ran'
    <3>2. CASE run \in ran
      BY <1>2, <1>6, <3>2 DEF TaskInv, OwnHandler
    <3>3. CASE run = <<t, q>>
      BY <1>2, <1>6, <3>3
    <3>4. QED
      BY <1>1, <3>2, <3>3
  <2>3. QED
    BY <2>1, <2>2 DEF TaskInv, OwnHandler
<1>12. QED
  BY <1>3, <1>9, <1>10, <1>11 DEF IInv

LEMMA Inductive == FullSlices => (Spec => []IInv)
<1> SUFFICES ASSUME FullSlices PROVE Spec => []IInv
  OBVIOUS
<1>1. Init => IInv
  BY InitFacts
<1>2. IInv /\ [Next]_vars => IInv'
  <2> SUFFICES ASSUME IInv, [Next]_vars PROVE IInv'
    OBVIOUS
  <2>1. ASSUME NEW kinds \in Seq(Kinds), kinds # <<>>, Use(kinds) PROVE IInv'
    BY <2>1, UseStep
  <2>2. ASSUME NEW q \in Queues, NEW kinds \in Seq(Kinds), kinds # <<>>, QueueUse(q, kinds) PROVE IInv'
    BY <2>2, QueueUseStep
  <2>3. ASSUME NEW q \in Queues, Queue(q) PROVE IInv'
    BY <2>3, QueueStep
  <2>4. ASSUME NEW c \in Consumers, HandleFunc(c) PROVE IInv'
    BY <2>4, HandleFuncStep
  <2>5. CASE Run
    BY <2>5, RunStep
  <2>6. ASSUME NEW t \in Tasks, NEW q \in Queues, Publish(t, q) PROVE IInv'
    BY <2>6, PublishStep
  <2>7. ASSUME NEW c \in Consumers, AppendHandleRequest(c) PROVE IInv'
    BY <2>7, AppendStep
  <2>8. ASSUME NEW c \in Consumers, Wrap(c) PROVE IInv'
    BY <2>8, WrapStep
  <2>9. ASSUME NEW c \in Consumers, Handle(c) PROVE IInv'
    BY <2>9, HandleStep
  <2>10. ASSUME NEW c \in Consumers, NEW t \in Tasks, Consume(c, t) PROVE IInv'
    BY <2>10, ConsumeStep
  <2>11. CASE UNCHANGED vars
    <3>1. UNCHANGED <<heap, slice, asked, running, pc, hand, chained, ready, task, ran>>
      BY <2>11 DEF vars, setup
    <3>2. HeapOK' /\ SliceInv' /\ ShareInv'
      BY <3>1, SetupKept
    <3>3. Typed' /\ TaskInv'
      BY <3>1, <3>2 DEF IInv, Typed, TaskInv, OwnHandler
    <3>4. ChainInv'
      <4>1. ASSUME NEW c \in Consumers, ReadsRight(c) PROVE ReadsRight(c)'
        BY <3>1, <4>1, PlaceKept
      <4>2. QED
        BY <3>1, <4>1 DEF IInv, ChainInv
    <3>5. QED
      BY <3>2, <3>3, <3>4 DEF IInv
  <2>12. QED
    <3>1. \A n \in Nat : \A kinds \in SeqOf(Kinds, n) \ {<<>>} : kinds \in Seq(Kinds) /\ kinds # <<>>
      BY ListFacts
    <3>2. (\E kinds \in SeqOf(Kinds, MaxEngineUses) \ {<<>>} : Use(kinds)) => IInv'
      BY <2>1, <3>1
    <3>3. (\E q \in Queues, kinds \in SeqOf(Kinds, MaxQueueUses) \ {<<>>} : QueueUse(q, kinds)) => IInv'
      BY <2>2, <3>1
    <3>4. QED
      BY <2>3, <2>4, <2>5, <2>6, <2>7, <2>8, <2>9, <2>10, <2>11, <3>2, <3>3
         DEF Next, Registration
<1>3. QED
  BY <1>1, <1>2, PTL DEF Spec

-----------------------------------------------------------------------------
(* The theorems.                                                           *)

\* As long as the slices that are copied have no room, a task is only run by the
\* handler of its queue, whoever writes into the arrays consumers share
\* (append in handleTask of consumer.go), for any number of consumers and tasks.
THEOREM OwnHandlerCorrect == FullSlices => (Spec => []OwnHandler)
<1>1. IInv => OwnHandler
  BY DEF IInv, TaskInv
<1>2. QED
  BY <1>1, Inductive, PTL

\* docs/a-tour-of-bokchoy.md:334: on the same condition, a request goes through
\* the middlewares its consumer was registered with, in the order of the calls of
\* Use (bokchoy.go, queue.go), and then handleRequest, although consumers append
\* to the slices and walk them concurrently (consumer.go, handler.go).
THEOREM ConfiguredChainCorrect == FullSlices => (Spec => []ConfiguredChain)
<1>1. IInv => ConfiguredChain
  <2> SUFFICES ASSUME IInv, NEW c \in Chained, NEW chain, chain = chained[c].chain
               PROVE  /\ Front(chain) = asked[c]
                      /\ Last(chain).name = "handleRequest" /\ QueueOf[Last(chain).by] = QueueOf[c]
    BY DEF ConfiguredChain
  <2> DEFINE n == Len(asked[c])
  <2>1. c \in Consumers /\ pc[c] = "handle"
    BY DEF Chained
  <2>2. /\ chain \in Seq(Elements) /\ n \in Nat /\ Len(chain) = n + 1 /\ asked[c] \in Seq(Uses)
        /\ \A i \in 1..n : chain[i] = asked[c][i]
        /\ chain[n + 1].name = "handleRequest" /\ QueueOf[chain[n + 1].by] = QueueOf[c]
    BY <2>1, ChainFacts
  <2>3. Last(chain) = chain[n + 1]
    BY <2>2 DEF Last
  <2>4. Front(chain) = SubSeq(chain, 1, n)
    BY <2>2 DEF Front
  <2>5. /\ SubSeq(chain, 1, n) \in Seq(Elements) /\ Len(SubSeq(chain, 1, n)) = n
        /\ \A i \in 1..n : SubSeq(chain, 1, n)[i] = chain[i]
    BY <2>2
  <2>6. Front(chain) = asked[c]
    BY <2>2, <2>4, <2>5
  <2>7. QED
    BY <2>2, <2>3, <2>6
<1>2. QED
  BY <1>1, Inductive, PTL

\* docs/a-tour-of-bokchoy.md:371: on the same condition, the error of a handler
\* that panics reaches handleTask when Recoverer is registered first and nowhere
\* else, whatever middlewares come after it (middleware/recoverer.go).
THEOREM PanicRecordedCorrect == FullSlices => (Spec => []PanicRecorded)
<1>1. IInv => PanicRecorded
  <2> SUFFICES ASSUME IInv, NEW c \in Chained, NEW chain, chain = chained[c].chain,
                      asked[c] # <<>>, Head(asked[c]).name = "Recoverer",
                      Cardinality(Named(asked[c], {"Recoverer"})) = 1
               PROVE  RecoversIntoOriginal(chain)
    BY DEF PanicRecorded
  <2> DEFINE n == Len(asked[c])
             own == Named(asked[c], {"Recoverer"})
             all == Named(chain, {"Recoverer"})
             nearest == CHOOSE i \in all : \A j \in all : j <= i
  <2>1. c \in Consumers /\ pc[c] = "handle"
    BY DEF Chained
  <2>2. /\ chain \in Seq(Elements) /\ n \in Nat /\ Len(chain) = n + 1 /\ asked[c] \in Seq(Uses)
        /\ \A i \in 1..n : chain[i] = asked[c][i]
        /\ chain[n + 1].name = "handleRequest"
    BY <2>1, ChainFacts
  <2>3. 1 \in 1..n /\ asked[c][1].name = "Recoverer" /\ DOMAIN asked[c] = 1..n
    BY <2>2
  <2>4. own = {1}
    <3>1. 1 \in own /\ own \subseteq 1..n
      BY <2>3 DEF Named
    <3>2. IsFiniteSet(own)
      <4>1. IsFiniteSet(1..n)
        BY <2>2, FS_Interval
      <4>2. QED
        BY <3>1, <4>1, FS_Subset
    <3>3. PICK e : own = {e}
      BY <3>2, FS_Singleton
    <3>4. QED
      BY <3>1, <3>3
  <2>5. all = {1}
    <3>1. DOMAIN chain = 1..(n + 1) /\ \A i \in 1..(n + 1) : i \in 1..n \/ i = n + 1
      BY <2>2
    <3>2. \A i \in 1..n : chain[i].name = "Recoverer" <=> i = 1
      BY <2>2, <2>3, <2>4 DEF Named
    <3>3. 1 \in 1..(n + 1)
      BY <2>2
    <3> HIDE DEF n, own
    <3>4. QED
      BY <2>2, <2>3, <3>1, <3>2, <3>3 DEF Named
  <2>6. nearest = 1
    <3> HIDE DEF all
    <3>1. \A i \in all : i = 1
      BY <2>5
    <3>2. 1 \in all /\ \A j \in all : j <= 1
      BY <2>5
    <3>3. QED
      BY <3>1, <3>2
  <2>7. Catching(chain) = 1
    <3>1. Catching(chain) = nearest
      BY Zenon DEF Catching
    <3>2. QED
      BY <2>6, <3>1
  <2>8. \A i \in Named(chain, Copying) : i \in Nat /\ i >= 1 /\ i # 1
    <3>1. DOMAIN chain = 1..(n + 1)
      BY <2>2
    <3>2. chain[1].name = "Recoverer"
      BY <2>2, <2>3
    <3>3. QED
      BY <3>1, <3>2 DEF Named, Copying
  <2>9. QED
    BY <2>7, <2>8 DEF RecoversIntoOriginal
<1>2. QED
  BY <1>1, Inductive, PTL
=============================================================================

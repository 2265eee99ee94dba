---------------------------- MODULE SchedProofs -----------------------------
(***************************************************************************)
(* The scheduler, proved for any number of workers, clients, jobs and      *)
(* priorities: its lock order and its destruction, for which the queue     *)
(* does not matter but who has which mutex and where each client is in its *)
(* call; its memory, for which only the queue matters; and that it keeps   *)
(* the promise of JobQueue, but for the order of the jobs if any of them   *)
(* is unscheduled or given another priority.  The heap needs induction,    *)
(* over the calls of heap_heapify and the turns of the loop of             *)
(* cc_heap_add; what it promises is proved here for any set of elements    *)
(* and any priorities.                                                     *)
(***************************************************************************)
EXTENDS Sched, WPoolProofs

(* A set of numbers that is not empty has a least element: otherwise the   *)
(* map of each number to its predecessor would take the finite set of the  *)
(* numbers from some element of the set up to k to a smaller one.          *)
LEMMA LeastNumber ==
    ASSUME NEW T, T \subseteq Nat, T # {}
    PROVE  \E n \in T : \A m \in T : n <= m
<1> SUFFICES ASSUME \A n \in T : \E m \in T : m < n
             PROVE  FALSE
  OBVIOUS
<1> PICK k \in T : TRUE
  OBVIOUS
<1> DEFINE U == {m \in 0..k : \E t \in T : t <= m}
           pred == [m \in U |-> m - 1]
<1>1. IsFiniteSet(U) /\ Cardinality(U) \in Nat
  <2>1. k \in Nat /\ U \in SUBSET Nat /\ \A m \in U : m <= k
    OBVIOUS
  <2> HIDE DEF U
  <2>2. IsFiniteSet(U)
    BY <2>1, FS_BoundedSetOfNaturals
  <2> QED
    BY <2>2, FS_CardinalityType
<1>2. k \in U
  OBVIOUS
<1>3. \A m \in U : m - 1 \in U \ {k}
  <2> TAKE m \in U
  <2>1. PICK t \in T : t <= m
    OBVIOUS
  <2>2. PICK s \in T : s < t
    OBVIOUS
  <2> QED
    BY <2>1, <2>2
<1> HIDE DEF U
<1>4. pred \in [U -> U \ {k}]
  BY <1>3
<1> HIDE DEF pred
<1>5. IsFiniteSet(U \ {k}) /\ Cardinality(U \ {k}) = Cardinality(U) - 1
  BY <1>1, <1>2, FS_RemoveElement
<1>6. Cardinality(U \ {k}) < Cardinality(U)
  BY <1>1, <1>5
<1>7. PICK x, y \in U : x # y /\ pred[x] = pred[y]
  BY <1>1, <1>4, <1>5, <1>6, FS_PigeonHole
<1>8. x \in Int /\ y \in Int
  BY DEF U
<1> QED
  BY <1>7, <1>8 DEF pred

(* So what holds of 0, and of n + 1 if it holds of n, holds of every n.    *)
LEMMA SetInduction ==
    ASSUME NEW T, 0 \in T, \A n \in Nat : n \in T => n + 1 \in T
    PROVE  Nat \subseteq T
<1> SUFFICES ASSUME Nat \ T # {} PROVE FALSE
  OBVIOUS
<1>1. PICK n \in Nat \ T : \A m \in Nat \ T : n <= m
  BY LeastNumber
<1>2. n - 1 \in Nat /\ n - 1 \in T
  BY <1>1
<1> QED
  BY <1>2

(* There are the values that s0 has after each number of steps.            *)
Iterated(S, s0, step) ==
    \E g \in [Nat -> S] : g = [n \in Nat |-> IF n = 0 THEN s0 ELSE step[g[n-1]]]

(* A step on S can be iterated from any s0, for ever. *)
LEMMA Iterates ==
    ASSUME NEW S, NEW s0 \in S, NEW step \in [S -> S]
    PROVE  Iterated(S, s0, step)
<1> DEFINE UpTo(n) == {g \in [0..n -> S] :
                         g[0] = s0 /\ \A m \in 0..(n-1) : g[m+1] = step[g[m]]}
           T == {n \in Nat : UpTo(n) # {}}
           V == {m \in Nat : \A n, k \in Nat : m <= n /\ m <= k =>
                   \A g \in UpTo(n), h \in UpTo(k) : g[m] = h[m]}
           G == [n \in Nat |-> (CHOOSE g \in UpTo(n) : TRUE)[n]]
<1>1. Nat \subseteq T
  <2>1. [m \in 0..0 |-> s0] \in UpTo(0)
    OBVIOUS
  <2>2. ASSUME NEW n \in Nat, NEW g \in UpTo(n)
        PROVE  \E h : h \in UpTo(n+1)
    <3>1. [m \in 0..(n+1) |-> IF m = n+1 THEN step[g[n]] ELSE g[m]] \in UpTo(n+1)
      OBVIOUS
    <3> HIDE DEF UpTo
    <3> QED
      BY <3>1
  <2> HIDE DEF UpTo
  <2>3. 0 \in T /\ \A n \in Nat : n \in T => n + 1 \in T
    BY <2>1, <2>2
  <2> QED
    BY <2>3, SetInduction
<1>2. Nat \subseteq V
  <2>1. 0 \in V
    OBVIOUS
  <2>2. ASSUME NEW m \in Nat, m \in V,
               NEW n \in Nat, NEW k \in Nat, m + 1 <= n, m + 1 <= k,
               NEW g \in UpTo(n), NEW h \in UpTo(k)
        PROVE  g[m+1] = h[m+1]
    <3>1. g[m] = h[m]
      <4> HIDE DEF UpTo
      <4> QED
        BY <2>2
    <3>2. g[m+1] = step[g[m]] /\ h[m+1] = step[h[m]]
      BY <2>2
    <3> QED
      BY <3>1, <3>2
  <2>3. \A m \in Nat : m \in V => m + 1 \in V
    <3> HIDE DEF UpTo
    <3> QED
      BY <2>2
  <2> HIDE DEF V
  <2> QED
    BY <2>1, <2>3, SetInduction
<1>3. \A n \in Nat : \E g \in UpTo(n) : G[n] = g[n] /\ g[n] \in S
  <2> TAKE n \in Nat
  <2>1. (CHOOSE g \in UpTo(n) : TRUE) \in UpTo(n)
    <3> HIDE DEF UpTo
    <3> QED BY <1>1
  <2>2. \A g \in UpTo(n) : g[n] \in S
    OBVIOUS
  <2>3. G[n] = (CHOOSE g \in UpTo(n) : TRUE)[n]
    <3> HIDE DEF UpTo
    <3> QED OBVIOUS
  <2> HIDE DEF G, UpTo
  <2> QED
    BY <2>1, <2>2, <2>3
<1>4. G[0] = s0
  <2>1. \A g \in UpTo(0) : g[0] = s0
    OBVIOUS
  <2> HIDE DEF G, UpTo
  <2> QED
    BY <1>3, <2>1
<1>5. ASSUME NEW n \in Nat PROVE G[n+1] = step[G[n]]
  <2>0. n + 1 \in Nat /\ n <= n + 1 /\ n <= n
    OBVIOUS
  <2>1. PICK g \in UpTo(n) : G[n] = g[n]
    <3> HIDE DEF G, UpTo
    <3> QED BY <1>3
  <2>2. PICK h \in UpTo(n+1) : G[n+1] = h[n+1]
    <3> HIDE DEF G, UpTo
    <3> QED BY <1>3, <2>0
  <2>3. h[n+1] = step[h[n]]
    OBVIOUS
  <2>4. g[n] = h[n]
    <3>1. n \in V
      <4> HIDE DEF V
      <4> QED BY <1>2
    <3> HIDE DEF UpTo, G
    <3> QED
      BY <2>0, <3>1
  <2> HIDE DEF G, UpTo
  <2> QED
    BY <2>1, <2>2, <2>3, <2>4
<1>6. G \in [Nat -> S]
  <2>1. \A n \in Nat : G[n] \in S
    <3> HIDE DEF UpTo, G
    <3> QED BY <1>3
  <2> HIDE DEF UpTo
  <2> QED
    BY <2>1
<1>7. \A n \in Nat : G[n] = IF n = 0 THEN s0 ELSE step[G[n-1]]
  <2> TAKE n \in Nat
  <2> HIDE DEF G
  <2>1. CASE n = 0
    BY <1>4, <2>1
  <2>2. CASE n # 0
    <3>1. n - 1 \in Nat /\ (n - 1) + 1 = n
      BY <2>2
    <3> QED
      BY <1>5, <2>2, <3>1
  <2> QED
    BY <2>1, <2>2
<1> HIDE DEF G
<1>8. G = [n \in Nat |-> IF n = 0 THEN s0 ELSE step[G[n-1]]]
  BY <1>6, <1>7
<1> QED
  BY <1>6, <1>8 DEF Iterated

-----------------------------------------------------------------------------
(* Heaps of elements of D.                                                 *)
HeapType(D) ==
    [array : Seq(D), hash : UNION {[E -> Nat \ {0}] : E \in SUBSET D}]

(* The array has the elements of A and each of them once, at the place     *)
(* that the hash table has for it, which may have others as well.          *)
Indexed(h, D, A, E) ==
    /\ h \in HeapType(D)
    /\ ToSet(h.array) = A /\ DOMAIN h.hash = A \union E
    /\ \A j \in 1..Len(h.array) : h.hash[h.array[j]] = j

(* What a heap is made of.                                                 *)
LEMMA HeapTyped ==
    ASSUME NEW D, NEW h \in HeapType(D)
    PROVE  /\ h.array \in Seq(D) /\ Len(h.array) \in Nat
           /\ DOMAIN h.array = 1..Len(h.array)
           /\ \A j \in 1..Len(h.array) : h.array[j] \in D
           /\ DOMAIN h.hash \subseteq D /\ h.hash \in [DOMAIN h.hash -> Nat \ {0}]
           /\ h = [array |-> h.array, hash |-> h.hash]
BY DEF HeapType

(* An array and a hash table make a heap.                                  *)
LEMMA MakeHeap ==
    ASSUME NEW D, NEW a \in Seq(D), NEW E \in SUBSET D, NEW g \in [E -> Nat \ {0}]
    PROVE  [array |-> a, hash |-> g] \in HeapType(D)
BY DEF HeapType

(* An element is written to a place, in the array and the hash table.      *)
LEMMA PutFacts ==
    ASSUME NEW D, NEW h \in HeapType(D), NEW i \in 1..Len(h.array), NEW x \in D
    PROVE  /\ Put(h, i, x) \in HeapType(D)
           /\ Len(Put(h, i, x).array) = Len(h.array)
           /\ \A j \in 1..Len(h.array) :
                Put(h, i, x).array[j] = IF j = i THEN x ELSE h.array[j]
           /\ DOMAIN Put(h, i, x).hash = DOMAIN h.hash \union {x}
           /\ \A y \in DOMAIN h.hash \union {x} :
                Put(h, i, x).hash[y] = IF y = x THEN i ELSE h.hash[y]
<1> DEFINE a == [h.array EXCEPT ![i] = x]
           g == Store(h.hash, x, i)
<1>1. /\ a \in Seq(D) /\ Len(a) = Len(h.array)
      /\ \A j \in 1..Len(h.array) : a[j] = IF j = i THEN x ELSE h.array[j]
  BY HeapTyped
<1>2. /\ g \in [DOMAIN h.hash \union {x} -> Nat \ {0}]
      /\ \A y \in DOMAIN h.hash \union {x} : g[y] = IF y = x THEN i ELSE h.hash[y]
  BY HeapTyped DEF Store
<1>3. Put(h, i, x) = [array |-> a, hash |-> g]
  BY DEF Put
<1> HIDE DEF a, g
<1>4. [array |-> a, hash |-> g] \in HeapType(D)
  BY <1>1, <1>2, HeapTyped, MakeHeap
<1> QED
  BY <1>1, <1>2, <1>3, <1>4

(* A heap, and where the element is that moves through it.                 *)
Walk(D) == [h : HeapType(D), i : Nat \ {0}]

(* One call of heap_heapify exchanges two elements.                        *)
LEMMA SinkKeeps ==
    ASSUME NEW D, NEW A, NEW E, NEW p, NEW s \in Walk(D), Indexed(s.h, D, A, E)
    PROVE  Sink(s, p) \in Walk(D) /\ Indexed(Sink(s, p).h, D, A, E)
<1> DEFINE h == s.h
           i == s.i
           a == h.array
           m == Largest(a, i, p)
<1>0. i \in Nat \ {0} /\ Indexed(h, D, A, E)
  BY DEF Walk
<1> HIDE DEF h, i
<1>1. m \in {i, 2 * i, 2 * i + 1} /\ (m # i => m <= Len(a) /\ m > i)
  BY <1>0 DEF Largest
<1>2. /\ h \in HeapType(D) /\ a \in Seq(D) /\ Len(a) \in Nat
      /\ \A j \in 1..Len(a) : a[j] \in D
  BY <1>0, HeapTyped DEF Indexed
<1> HIDE DEF m
<1>3. CASE m = i
  BY <1>3 DEF Sink, m, h, i
<1>4. CASE m # i
  <2>1. i \in 1..Len(a) /\ m \in 1..Len(a)
    BY <1>0, <1>1, <1>2, <1>4
  <2> DEFINE k == Put(h, i, a[m])
             l == Put(k, m, a[i])
  <2>2. Sink(s, p) = [h |-> l, i |-> m]
    BY <1>4 DEF Sink, m, h, i
  <2>3. /\ k \in HeapType(D) /\ Len(k.array) = Len(a)
        /\ \A j \in 1..Len(a) : k.array[j] = IF j = i THEN a[m] ELSE a[j]
        /\ DOMAIN k.hash = DOMAIN h.hash \union {a[m]}
        /\ \A y \in DOMAIN h.hash \union {a[m]} :
             k.hash[y] = IF y = a[m] THEN i ELSE h.hash[y]
    <3> QED BY <1>2, <2>1, PutFacts
  <2> HIDE DEF k
  <2>4. /\ l \in HeapType(D) /\ Len(l.array) = Len(a)
        /\ \A j \in 1..Len(a) : l.array[j] = IF j = m THEN a[i] ELSE k.array[j]
        /\ DOMAIN l.hash = DOMAIN k.hash \union {a[i]}
        /\ \A y \in DOMAIN k.hash \union {a[i]} :
             l.hash[y] = IF y = a[i] THEN m ELSE k.hash[y]
    <3>1. a[i] \in D /\ m \in 1..Len(k.array) /\ k \in HeapType(D)
      BY <1>2, <2>1, <2>3
    <3> QED
      BY <2>3, <3>1, PutFacts
  <2> HIDE DEF l
  <2>5. a[i] \in A /\ a[m] \in A /\ ToSet(a) = A /\ DOMAIN h.hash = A \union E
        /\ DOMAIN a = 1..Len(a) /\ DOMAIN l.array = 1..Len(a)
    BY <1>0, <1>2, <2>1, <2>4, HeapTyped DEF Indexed, ToSet
  <2>6. \A j \in 1..Len(a) :
          l.array[j] = IF j = m THEN a[i] ELSE IF j = i THEN a[m] ELSE a[j]
    BY <2>3, <2>4
  <2>7. ToSet(l.array) = A
    BY <2>1, <2>5, <2>6 DEF ToSet
  <2>8. DOMAIN l.hash = A \union E
    BY <2>3, <2>4, <2>5
  <2>9. ASSUME NEW j \in 1..Len(a) PROVE l.hash[l.array[j]] = j
    <3>1. h.hash[a[j]] = j /\ h.hash[a[i]] = i /\ h.hash[a[m]] = m /\ a[j] \in A
      BY <1>0, <2>1, <2>5 DEF Indexed, ToSet
    <3> QED
      BY <2>3, <2>4, <2>5, <2>6, <3>1
  <2>10. Indexed(l, D, A, E)
    BY <2>4, <2>7, <2>8, <2>9 DEF Indexed
  <2> QED
    BY <1>0, <1>1, <2>2, <2>4, <2>10 DEF Walk
<1> QED
  BY <1>3, <1>4

(* And so do all of them, however deep the recursion goes.                 *)
LEMMA HeapifyKeeps ==
    ASSUME NEW D, NEW A, NEW E, NEW h, NEW i \in Nat \ {0}, NEW p,
           Indexed(h, D, A, E)
    PROVE  Indexed(Heapify(h, i, p), D, A, E)
<1> DEFINE S == {t \in Walk(D) : Indexed(t.h, D, A, E)}
           s0 == [h |-> h, i |-> i]
           step == [t \in S |-> Sink(t, p)]
           P(g) == g = [n \in Nat |-> IF n = 0 THEN s0 ELSE Sink(g[n-1], p)]
           after == CHOOSE g : P(g)
<1>1. s0 \in S
  BY DEF Indexed, Walk
<1>2. \A t \in S : Sink(t, p) \in S
  BY SinkKeeps
<1> HIDE DEF S, s0
<1>3. step \in [S -> S]
  BY <1>2
<1>4. PICK g \in [Nat -> S] :
        g = [n \in Nat |-> IF n = 0 THEN s0 ELSE step[g[n-1]]]
  <2> HIDE DEF step
  <2>1. Iterated(S, s0, step)
    BY <1>1, <1>3, Iterates
  <2> QED
    BY <2>1 DEF Iterated
<1>5. P(g)
  <2>1. \A n \in Nat : n # 0 => n - 1 \in Nat /\ g[n-1] \in S
    OBVIOUS
  <2>2. \A t \in S : step[t] = Sink(t, p)
    OBVIOUS
  <2>3. \A n \in Nat : n # 0 => step[g[n-1]] = Sink(g[n-1], p)
    <3> HIDE DEF step
    <3> QED BY <2>1, <2>2
  <2> QED
    BY <1>4, <2>3
<1>6. P(after)
  <2> HIDE DEF P
  <2> QED
    BY <1>5
<1> HIDE DEF after
<1> DEFINE T == {n \in Nat : after[n] \in S}
<1>7. Nat \subseteq T
  <2>1. 0 \in T /\ \A n \in Nat : n \in T => n + 1 \in T
    <3>1. after[0] = s0 /\ \A n \in Nat : after[n+1] = Sink(after[n], p)
      BY <1>6
    <3> QED
      BY <1>1, <1>2, <3>1
  <2> HIDE DEF T
  <2> QED
    BY <2>1, SetInduction
<1>8. after[Len(h.array)] \in S
  BY <1>7, HeapTyped DEF Indexed
<1>9. Heapify(h, i, p) = after[Len(h.array)].h
  BY DEF Heapify, after, s0
<1> QED
  BY <1>8, <1>9 DEF S

(* An array with room for one more element at place i.                     *)
Room(t, D, A, n) ==
    /\ t \in Walk(D) /\ Len(t.h.array) = n /\ t.i \in 1..n
    /\ DOMAIN t.h.hash = A
    /\ {t.h.array[j] : j \in (1..n) \ {t.i}} = A
    /\ \A j \in (1..n) \ {t.i} : t.h.hash[t.h.array[j]] = j

(* One turn of the loop of cc_heap_add moves it one level up.              *)
LEMMA RiseKeeps ==
    ASSUME NEW D, NEW A \in SUBSET D, NEW n \in Nat, NEW x \in D, NEW p, NEW t,
           Room(t, D, A, n)
    PROVE  Room(Rise(t, x, p), D, A, n)
<1> DEFINE h == t.h
           i == t.i
           k == i \div 2
           y == h.array[k]
<1>1. /\ h \in HeapType(D) /\ Len(h.array) = n /\ i \in 1..n
      /\ \A j \in 1..n : h.array[j] \in D
  BY HeapTyped DEF Room, Walk
<1>2. CASE Rise(t, x, p) = t
  BY <1>2
<1>3. CASE Rise(t, x, p) # t
  <2>1. i > 1 /\ Rise(t, x, p) = [h |-> Put(h, i, y), i |-> k]
    BY <1>3 DEF Rise
  <2>2. k \in 1..n /\ k # i
    BY <1>1, <2>1
  <2> HIDE DEF k
  <2> DEFINE l == Put(h, i, y)
  <2>3. y \in D /\ y \in A /\ h.hash[y] = k
    BY <1>1, <2>2 DEF Room
  <2>4. /\ l \in HeapType(D) /\ Len(l.array) = n
        /\ \A j \in 1..n : l.array[j] = IF j = i THEN y ELSE h.array[j]
        /\ DOMAIN l.hash = A
        /\ \A z \in A : l.hash[z] = IF z = y THEN i ELSE h.hash[z]
    <3>1. /\ DOMAIN h.hash = A /\ A \union {y} = A /\ i \in 1..Len(h.array)
          /\ h \in HeapType(D) /\ y \in D
      BY <1>1, <2>3 DEF Room
    <3> HIDE DEF h, i, y
    <3>2. /\ Put(h, i, y) \in HeapType(D) /\ Len(Put(h, i, y).array) = Len(h.array)
          /\ \A j \in 1..Len(h.array) :
               Put(h, i, y).array[j] = IF j = i THEN y ELSE h.array[j]
          /\ DOMAIN Put(h, i, y).hash = DOMAIN h.hash \union {y}
          /\ \A z \in DOMAIN h.hash \union {y} :
               Put(h, i, y).hash[z] = IF z = y THEN i ELSE h.hash[z]
      BY <3>1, PutFacts
    <3> QED
      BY <1>1, <3>1, <3>2
  <2> HIDE DEF l
  <2>5. \A j \in (1..n) \ {i} : h.array[j] \in A /\ h.hash[h.array[j]] = j
    BY DEF Room
  <2>6. {l.array[j] : j \in (1..n) \ {k}} = A
    <3>1. ASSUME NEW j \in (1..n) \ {k} PROVE l.array[j] \in A
      BY <2>3, <2>4, <2>5, <3>1
    <3>2. ASSUME NEW z \in A PROVE \E j \in (1..n) \ {k} : l.array[j] = z
      <4>1. PICK j \in (1..n) \ {i} : h.array[j] = z
        BY <3>2 DEF Room
      <4>2. CASE j = k
        BY <1>1, <2>2, <2>4, <4>1, <4>2
      <4>3. CASE j # k
        BY <2>4, <4>1, <4>3
      <4> QED
        BY <4>2, <4>3
    <3> QED
      BY <3>1, <3>2
  <2>7. \A j \in (1..n) \ {k} : l.hash[l.array[j]] = j
    <3> TAKE j \in (1..n) \ {k}
    <3>1. CASE j = i
      BY <2>3, <2>4, <3>1
    <3>2. CASE j # i
      BY <2>3, <2>4, <2>5, <3>2
    <3> QED
      BY <3>1, <3>2
  <2> HIDE DEF h, i, y
  <2> QED
    BY <2>1, <2>2, <2>4, <2>6, <2>7 DEF Room, Walk, l
<1> QED
  BY <1>2, <1>3

(* The array that cc_heap_add begins with, with x for what is in the room. *)
Bottom(h, x) ==
    [h |-> [array |-> Append(h.array, x), hash |-> h.hash], i |-> Len(h.array) + 1]
(* It is the last place that is left.                                      *)
LEMMA BottomRoom ==
    ASSUME NEW D, NEW A, NEW h, NEW x \in D \ A, Indexed(h, D, A, {})
    PROVE  Room(Bottom(h, x), D, A, Len(h.array) + 1)
<1> DEFINE n == Len(h.array) + 1
           s0 == [h |-> [array |-> Append(h.array, x), hash |-> h.hash], i |-> n]
<1>0. /\ h \in HeapType(D) /\ n \in Nat /\ n - 1 = Len(h.array)
      /\ h.array \in Seq(D) /\ DOMAIN h.array = 1..Len(h.array)
      /\ A \in SUBSET D
  BY HeapTyped DEF Indexed, ToSet
<1> DEFINE a == Append(h.array, x)
<1>1. /\ a \in Seq(D) /\ Len(a) = n
      /\ \A j \in (1..n) \ {n} : j \in 1..Len(h.array) /\ a[j] = h.array[j]
      /\ \A j \in 1..Len(h.array) : j \in (1..n) \ {n}
  BY <1>0
<1>2. s0.h = [array |-> a, hash |-> h.hash] /\ s0.i = n
      /\ s0 = [h |-> s0.h, i |-> s0.i]
  OBVIOUS
<1> HIDE DEF a, s0
<1>3. s0.h \in HeapType(D)
  <2>1. DOMAIN h.hash \in SUBSET D /\ h.hash \in [DOMAIN h.hash -> Nat \ {0}]
    BY <1>0, HeapTyped
  <2> DEFINE E == DOMAIN h.hash
             g == h.hash
  <2>2. E \in SUBSET D /\ g \in [E -> Nat \ {0}] /\ s0.h = [array |-> a, hash |-> g]
    BY <1>2, <2>1
  <2> HIDE DEF E, g, a, n
  <2>3. [array |-> a, hash |-> g] \in HeapType(D)
    BY <1>1, <2>2, MakeHeap
  <2> QED
    BY <2>2, <2>3
<1>4. s0 \in Walk(D) /\ n \in 1..n
  BY <1>0, <1>2, <1>3 DEF Walk
<1>5. DOMAIN h.hash = A /\ {h.array[j] : j \in 1..Len(h.array)} = A
      /\ \A j \in 1..Len(h.array) : h.hash[h.array[j]] = j
  BY <1>0 DEF Indexed, ToSet
<1>6. {a[j] : j \in (1..n) \ {n}} = A
  BY <1>1, <1>5
<1>7. Bottom(h, x) = s0
  BY DEF Bottom, s0
<1>8. Room(s0, D, A, n)
  <2> HIDE DEF n
  <2> QED
    BY <1>1, <1>2, <1>4, <1>5, <1>6 DEF Room
<1> QED
  BY <1>7, <1>8

(* cc_heap_add adds the element, and only that.                            *)
LEMMA HeapAddKeeps ==
    ASSUME NEW D, NEW A, NEW h, NEW x \in D \ A, NEW p, Indexed(h, D, A, {})
    PROVE  Indexed(HeapAdd(h, x, p), D, A \union {x}, {})
<1> DEFINE n == Len(h.array) + 1
           S == {t \in Walk(D) : Room(t, D, A, n)}
           s0 == [h |-> [array |-> Append(h.array, x), hash |-> h.hash], i |-> n]
           step == [t \in S |-> Rise(t, x, p)]
           P(g) == g = [m \in Nat |-> IF m = 0 THEN s0 ELSE Rise(g[m-1], x, p)]
           after == CHOOSE g : P(g)
<1>0. /\ h \in HeapType(D) /\ n \in Nat /\ n - 1 = Len(h.array)
      /\ h.array \in Seq(D) /\ DOMAIN h.array = 1..Len(h.array)
      /\ A \in SUBSET D
  BY HeapTyped DEF Indexed, ToSet
<1>1. s0 \in S
  <2>1. Room(Bottom(h, x), D, A, n) /\ s0 = Bottom(h, x)
    BY BottomRoom DEF Bottom
  <2> HIDE DEF n, s0
  <2> QED
    BY <2>1 DEF Room
<1>2. \A t \in S : Rise(t, x, p) \in S
  <2> HIDE DEF n
  <2>1. \A t \in S : Room(Rise(t, x, p), D, A, n)
    BY <1>0, RiseKeeps
  <2> QED
    BY <2>1 DEF Room
<1> HIDE DEF S, s0
<1>3. step \in [S -> S]
  BY <1>2
<1>4. PICK g \in [Nat -> S] :
        g = [m \in Nat |-> IF m = 0 THEN s0 ELSE step[g[m-1]]]
  <2> HIDE DEF step
  <2>1. Iterated(S, s0, step)
    BY <1>1, <1>3, Iterates
  <2> QED
    BY <2>1 DEF Iterated
<1>5. P(g)
  <2>1. \A m \in Nat : m # 0 => m - 1 \in Nat /\ g[m-1] \in S
    OBVIOUS
  <2>2. \A t \in S : step[t] = Rise(t, x, p)
    OBVIOUS
  <2>3. \A m \in Nat : m # 0 => step[g[m-1]] = Rise(g[m-1], x, p)
    <3> HIDE DEF step
    <3> QED BY <2>1, <2>2
  <2> QED
    BY <1>4, <2>3
<1>6. P(after)
  <2> HIDE DEF P
  <2> QED
    BY <1>5
<1> HIDE DEF after
<1> DEFINE T == {m \in Nat : after[m] \in S}
<1>7. Nat \subseteq T
  <2>1. 0 \in T /\ \A m \in Nat : m \in T => m + 1 \in T
    <3>1. after[0] = s0 /\ \A m \in Nat : after[m+1] = Rise(after[m], x, p)
      BY <1>6
    <3> QED
      BY <1>1, <1>2, <3>1
  <2> HIDE DEF T
  <2> QED
    BY <2>1, SetInduction
<1> DEFINE t == after[Len(h.array)]
           k == Put(t.h, t.i, x)
<1>8. t \in S
  BY <1>0, <1>7, HeapTyped
<1>9. HeapAdd(h, x, p) = k
  BY DEF HeapAdd, after, s0
<1> HIDE DEF t, n, P, T
<1>10. /\ t.h \in HeapType(D) /\ Len(t.h.array) = n /\ t.i \in 1..n
       /\ DOMAIN t.h.hash = A
       /\ {t.h.array[j] : j \in (1..n) \ {t.i}} = A
       /\ \A j \in (1..n) \ {t.i} : t.h.hash[t.h.array[j]] = j
  BY <1>8 DEF S, Room, Walk
<1>11. /\ k \in HeapType(D) /\ Len(k.array) = n
       /\ \A j \in 1..n : k.array[j] = IF j = t.i THEN x ELSE t.h.array[j]
       /\ DOMAIN k.hash = A \union {x}
       /\ \A y \in A \union {x} : k.hash[y] = IF y = x THEN t.i ELSE t.h.hash[y]
  <2>1. t.i \in 1..Len(t.h.array) /\ x \in D
    BY <1>10
  <2> DEFINE o == t.h
             i == t.i
  <2>2. o \in HeapType(D) /\ i \in 1..Len(o.array) /\ k = Put(o, i, x)
    BY <1>10, <2>1
  <2> HIDE DEF o, i, k
  <2>3. /\ k \in HeapType(D) /\ Len(k.array) = Len(o.array)
        /\ \A j \in 1..Len(o.array) :
             k.array[j] = IF j = i THEN x ELSE o.array[j]
        /\ DOMAIN k.hash = DOMAIN o.hash \union {x}
        /\ \A y \in DOMAIN o.hash \union {x} :
             k.hash[y] = IF y = x THEN i ELSE o.hash[y]
    BY <2>1, <2>2, PutFacts
  <2> QED
    BY <1>10, <2>3 DEF o, i
<1> HIDE DEF k
<1>12. ToSet(k.array) = A \union {x}
  <2>1. DOMAIN k.array = 1..n
    BY <1>11, HeapTyped
  <2> QED
    BY <1>10, <1>11, <2>1 DEF ToSet
<1>13. \A j \in 1..n : k.hash[k.array[j]] = j
  BY <1>10, <1>11
<1> QED
  BY <1>9, <1>11, <1>12, <1>13 DEF Indexed

(* What remains in the array when the last element has taken the place of  *)
(* another, x, which the hash table still knows.                           *)
LEMMA MoveLastKeeps ==
    ASSUME NEW D, NEW A, NEW h, Indexed(h, D, A, {}), NEW x \in A
    PROVE  /\ h.hash[x] \in 1..Len(h.array) /\ h.array[h.hash[x]] = x
           /\ Indexed(MoveLast(h, h.hash[x]), D, A \ {x}, {x})
<1> DEFINE i == h.hash[x]
           a == h.array
           n == Len(a)
           z == Last(a)
           f == Front(a)
           b == IF i \in DOMAIN f THEN [f EXCEPT ![i] = z] ELSE f
           g == Store(h.hash, z, i)
<1>1. /\ h \in HeapType(D) /\ a \in Seq(D) /\ n \in Nat /\ DOMAIN a = 1..n
      /\ \A j \in 1..n : a[j] \in A /\ h.hash[a[j]] = j
      /\ DOMAIN h.hash = A /\ h.hash \in [A -> Nat \ {0}] /\ A \subseteq D
      /\ \A y \in A : \E j \in 1..n : a[j] = y
  BY HeapTyped DEF Indexed, ToSet
<1>2. PICK j \in 1..n : a[j] = x
  BY <1>1
<1>3. i = j
  BY <1>1, <1>2
<1>4. i \in 1..n /\ a[i] = x /\ n \in 1..n /\ i \in Nat \ {0}
  BY <1>1, <1>2, <1>3
<1>5. z = a[n] /\ z \in A /\ z \in D /\ h.hash[z] = n
  BY <1>1, <1>4 DEF Last
<1>6. f \in Seq(D) /\ Len(f) = n - 1 /\ DOMAIN f = 1..(n-1)
      /\ \A k \in 1..(n-1) : f[k] = a[k]
  BY <1>1, <1>4 DEF Front
<1> HIDE DEF i, a, n, z, f
<1>7. b \in Seq(D) /\ Len(b) = n - 1 /\ DOMAIN b = 1..(n-1)
      /\ \A k \in 1..(n-1) : b[k] = IF k = i THEN z ELSE a[k]
  BY <1>5, <1>6
<1>8. g \in [A -> Nat \ {0}]
      /\ \A y \in A : g[y] = IF y = z THEN i ELSE h.hash[y]
  BY <1>1, <1>4, <1>5 DEF Store
<1>9. MoveLast(h, i) = [array |-> b, hash |-> g]
  BY DEF MoveLast, z, f, a
<1> HIDE DEF b, g
<1>10. MoveLast(h, i) \in HeapType(D)
  <2>1. A \in SUBSET D
    BY <1>1
  <2> QED
    BY <1>7, <1>8, <1>9, <2>1, MakeHeap
<1>11. \A k \in 1..(n-1) : b[k] \in A \ {x} /\ g[b[k]] = k
  <2> TAKE k \in 1..(n-1)
  <2>0. k \in 1..n /\ k # n
    BY <1>1
  <2>1. CASE k = i
    BY <1>1, <1>4, <1>5, <1>7, <1>8, <2>0, <2>1
  <2>2. CASE k # i
    BY <1>1, <1>4, <1>5, <1>7, <1>8, <2>0, <2>2
  <2> QED
    BY <2>1, <2>2
<1>12. ASSUME NEW y \in A \ {x} PROVE \E k \in 1..(n-1) : b[k] = y
  <2>1. PICK k \in 1..n : a[k] = y
    BY <1>1
  <2>2. k # i
    BY <1>4, <2>1
  <2>3. CASE k = n
    <3>1. i \in 1..(n-1) /\ b[i] = y
      BY <1>1, <1>4, <1>5, <1>7, <2>1, <2>2, <2>3
    <3> QED
      BY <3>1
  <2>4. CASE k # n
    BY <1>1, <1>7, <2>1, <2>2, <2>4
  <2> QED
    BY <2>3, <2>4
<1>13. ToSet(b) = A \ {x}
  BY <1>7, <1>11, <1>12 DEF ToSet
<1>14. Indexed(MoveLast(h, i), D, A \ {x}, {x})
  BY <1>7, <1>8, <1>9, <1>10, <1>11, <1>13 DEF Indexed
<1> QED
  BY <1>4, <1>14 DEF i, a, n

(* cc_dict_remove takes the element that has left the array from the hash  *)
(* table.                                                                  *)
LEMMA ForgetKeeps ==
    ASSUME NEW D, NEW A, NEW h, NEW x, x \notin A, Indexed(h, D, A, {x})
    PROVE  Indexed(Forget(h, x), D, A, {})
<1>1. /\ h \in HeapType(D) /\ h.array \in Seq(D) /\ h = [array |-> h.array, hash |-> h.hash]
      /\ h.hash \in [A \union {x} -> Nat \ {0}] /\ A \subseteq D
      /\ DOMAIN h.hash = A \union {x}
  BY HeapTyped DEF Indexed
<1> DEFINE g == Restrict(h.hash, DOMAIN h.hash \ {x})
<1>2. g \in [A -> Nat \ {0}] /\ \A y \in A : g[y] = h.hash[y]
  BY <1>1 DEF Restrict
<1>3. Forget(h, x) = [array |-> h.array, hash |-> g]
  BY <1>1 DEF Forget
<1> HIDE DEF g
<1>4. Forget(h, x) \in HeapType(D)
  <2>1. A \in SUBSET D
    BY <1>1
  <2> QED
    <3> DEFINE a == h.array
    <3>1. a \in Seq(D) /\ Forget(h, x) = [array |-> a, hash |-> g]
      BY <1>1, <1>3
    <3> HIDE DEF a
    <3> QED
      BY <1>2, <2>1, <3>1, MakeHeap
<1>5. \A j \in 1..Len(h.array) : h.array[j] \in A
  BY <1>1 DEF Indexed, ToSet
<1> QED
  BY <1>2, <1>3, <1>4, <1>5 DEF Indexed

(* cc_heap_extract_top takes the first element, and only that.             *)
LEMMA HeapExtractTopKeeps ==
    ASSUME NEW D, NEW A, NEW h, NEW p, Indexed(h, D, A, {}), h.array # <<>>
    PROVE  /\ h.array[1] \in A
           /\ Indexed(HeapExtractTop(h, p), D, A \ {h.array[1]}, {})
<1>1. h \in HeapType(D) /\ h.array \in Seq(D) /\ 1 \in 1..Len(h.array)
  BY HeapTyped DEF Indexed
<1>2. h.array[1] \in A /\ h.hash[h.array[1]] = 1
  BY <1>1 DEF Indexed, ToSet
<1>3. Indexed(MoveLast(h, 1), D, A \ {h.array[1]}, {h.array[1]})
  <2> DEFINE x == h.array[1]
  <2>1. Indexed(MoveLast(h, h.hash[x]), D, A \ {x}, {x})
    <3> HIDE DEF x
    <3> QED BY <1>2, MoveLastKeeps DEF x
  <2> QED
    BY <1>2, <2>1
<1>4. Indexed(Forget(MoveLast(h, 1), h.array[1]), D, A \ {h.array[1]}, {})
  BY <1>3, ForgetKeeps
<1> QED
  BY <1>2, <1>4, HeapifyKeeps DEF HeapExtractTop

(* cc_heap_remove takes the element it is asked to, and only that.         *)
LEMMA HeapRemoveKeeps ==
    ASSUME NEW D, NEW A, NEW h, NEW p, Indexed(h, D, A, {}), NEW x \in A
    PROVE  Indexed(HeapRemove(h, x, p), D, A \ {x}, {})
<1> DEFINE i == h.hash[x]
<1>1. i \in Nat \ {0} /\ x \in DOMAIN h.hash
  BY HeapTyped, MoveLastKeeps DEF Indexed
<1>2. Indexed(MoveLast(h, i), D, A \ {x}, {x})
  BY MoveLastKeeps
<1>3. Indexed(Heapify(MoveLast(h, i), i, p), D, A \ {x}, {x})
  <2> HIDE DEF i
  <2> QED
    BY <1>1, <1>2, HeapifyKeeps
<1>4. HeapRemove(h, x, p) = Forget(Heapify(MoveLast(h, i), i, p), x)
  BY <1>1 DEF HeapRemove
<1> QED
  BY <1>3, <1>4, ForgetKeeps

(* Each element is known at its place, and nothing else is.                *)
LEMMA IndexedAgrees ==
    ASSUME NEW D, NEW h
    PROVE  (\E A : Indexed(h, D, A, {})) => h.array \in Seq(D) /\ HashAgrees(h)
<1> SUFFICES ASSUME NEW A, Indexed(h, D, A, {})
             PROVE  h.array \in Seq(D) /\ HashAgrees(h)
  OBVIOUS
<1>1. h.array \in Seq(D) /\ DOMAIN h.array = 1..Len(h.array)
      /\ DOMAIN h.hash = ToSet(h.array)
  BY HeapTyped DEF Indexed
<1>2. \A j \in 1..Len(h.array) : h.hash[h.array[j]] = j
  BY DEF Indexed
<1>3. \A x \in DOMAIN h.hash : h.hash[x] \in DOMAIN h.array /\ h.array[h.hash[x]] = x
  BY <1>1, <1>2 DEF ToSet
<1>4. IsInjective(h.array)
  BY <1>1, <1>2 DEF IsInjective
<1> QED
  BY <1>1, <1>3, <1>4 DEF HashAgrees

-----------------------------------------------------------------------------
(* Where clients are, and what they hold there. *)
ControlOK ==
    /\ smutex \in Clients \union {NoOne}
    /\ cpc \in [Clients -> {"idle", "trigger", "returning", "poolwait", "waited"}]
    /\ op \in [Clients -> {"none", "schedule", "allow", "waitall", "destruct"}]
    /\ \A c \in Clients :
         /\ chosen[c] # NoOne => cpc[c] = "trigger"
         /\ cpc[c] = "trigger" => smutex = c
         /\ cpc[c] = "trigger" => op[c] # "none"
         /\ need[c] # 0 => cpc[c] = "waited" /\ need[c] = All
         /\ cpc[c] \in {"poolwait", "waited"} => op[c] \in {"waitall", "destruct"}
         /\ op[c] = "waitall" => c \in Controllers

(* Nobody else is in a call once the destructor is; and when it has waited *)
(* all workers are in the idle list.                                       *)
DestructAlone ==
    \A c, d \in Clients : op[c] = "destruct" /\ d # c => cpc[d] = "idle"
DestructedIdle ==
    \A c \in Clients : Destructed(c) => idlepool = Workers

SchedInv == PoolInv /\ ControlOK /\ DestructAlone /\ DestructedIdle

(* The invariant holds of a scheduler that was just constructed.           *)
LEMMA SchedInit == Init => SchedInv
<1> SUFFICES ASSUME Init PROVE SchedInv
  OBVIOUS
<1>1. PoolInv
  BY PoolInitInv DEF Init
<1>2. ControlOK
  BY NoOneAssumption DEF Init, PoolInit, ControlOK
<1>3. DestructAlone /\ DestructedIdle
  BY DEF Init, DestructAlone, DestructedIdle, Destructed
<1> QED
  BY <1>1, <1>2, <1>3 DEF SchedInv

(* What nobody changes is true as before.                                  *)
LEMMA PoolUntouched ==
    ASSUME PoolInv, UNCHANGED poolVars
    PROVE  PoolInv'
  BY DEF poolVars, PoolInv, PoolTypeOK, ListsPartition, ChosenBusy, lists, Idle

(* A call begins: it takes the scheduler's mutex with it or leaves it.     *)
LEMMA CallKeeps ==
    ASSUME SchedInv, NEW c \in Clients,
           NEW o \in {"schedule", "allow", "waitall", "destruct"}, Call(c, o),
           NEW l \in {"trigger", "returning", "poolwait"}, Goto(c, l),
           smutex' = IF l = "trigger" THEN c ELSE NoOne,
           o = "destruct" => \A d \in Clients : cpc[d] = "idle",
           o = "waitall" => c \in Controllers,
           l = "poolwait" => o = "waitall",
           UNCHANGED poolVars
    PROVE  SchedInv'
<1>1. /\ cpc[c] = "idle" /\ smutex = NoOne /\ Alive
      /\ op' = [op EXCEPT ![c] = o] /\ cpc' = [cpc EXCEPT ![c] = l]
  BY DEF Call, Goto
<1>2. PoolInv'
  BY PoolUntouched DEF SchedInv
<1>3. /\ op'[c] = o /\ cpc'[c] = l
      /\ \A d \in Clients : d # c => op'[d] = op[d] /\ cpc'[d] = cpc[d]
  BY <1>1 DEF SchedInv, ControlOK
<1>4. \A d \in Clients : cpc[d] # "trigger" /\ chosen[d] = NoOne
  BY <1>1, NoOneAssumption DEF SchedInv, ControlOK
<1>5. UNCHANGED <<chosen, need, idlepool>>
  BY DEF poolVars
<1>6. ControlOK'
  BY <1>1, <1>3, <1>4, <1>5 DEF SchedInv, ControlOK, All
<1>7. DestructAlone'
  BY <1>1, <1>3 DEF DestructAlone, Alive
<1>8. DestructedIdle'
  BY <1>1, <1>3 DEF DestructedIdle, Destructed, Alive
<1> QED
  BY <1>2, <1>6, <1>7, <1>8 DEF SchedInv

(* A client goes on within its call, or leaves it, without the scheduler's *)
(* mutex.                                                                  *)
LEMMA MoveKeeps ==
    ASSUME SchedInv, PoolInv', NEW c \in Clients,
           cpc[c] # "idle", chosen'[c] = NoOne, need'[c] = 0,
           NEW l \in {"idle", "returning", "poolwait"}, Goto(c, l),
           NEW o \in {op[c], "none"}, op' = [op EXCEPT ![c] = o],
           l = "poolwait" => o \in {"waitall", "destruct"},
           smutex' \in {smutex, NoOne}, cpc[c] = "trigger" \/ smutex' = smutex,
           \A d \in Clients : d # c => chosen'[d] = chosen[d],
           UNCHANGED <<need, idlepool>>
    PROVE  SchedInv'
<1>1. cpc' = [cpc EXCEPT ![c] = l]
  BY DEF Goto
<1>2. /\ op'[c] = o /\ cpc'[c] = l
      /\ \A d \in Clients : d # c => op'[d] = op[d] /\ cpc'[d] = cpc[d]
  BY <1>1 DEF SchedInv, ControlOK
<1>3. \A d \in Clients : d # c /\ cpc[d] = "trigger" => smutex' = d
  BY DEF SchedInv, ControlOK
<1>4. ControlOK'
  BY <1>1, <1>2, <1>3 DEF SchedInv, ControlOK, All
<1>5. DestructAlone'
  BY <1>2 DEF SchedInv, DestructAlone
<1>6. DestructedIdle'
  BY <1>2 DEF SchedInv, DestructedIdle, Destructed
<1> QED
  BY <1>4, <1>5, <1>6 DEF SchedInv

(* A worker, or a wakeup, changes the pool under clients that do nothing.  *)
LEMMA PoolStepKeeps ==
    ASSUME SchedInv, PoolInv', idlepool \subseteq idlepool',
           UNCHANGED <<smutex, clients, chosen, need>>
    PROVE  SchedInv'
<1>1. ControlOK' /\ DestructAlone'
  BY DEF SchedInv, ControlOK, DestructAlone, clients, All
<1>2. DestructedIdle'
  BY DEF SchedInv, DestructedIdle, Destructed, clients, PoolInv, PoolTypeOK
<1> QED
  BY <1>1, <1>2 DEF SchedInv

(* sched_try_trigger finds no idle worker, or has started one: the call    *)
(* that it was made from goes on.                                          *)
LEMMA TriggerEnds ==
    ASSUME SchedInv, PoolInv', NEW c \in Clients, NEW started \in BOOLEAN,
           cpc[c] = "trigger", AfterTrigger(c, started), chosen'[c] = NoOne,
           \A d \in Clients : d # c => chosen'[d] = chosen[d],
           UNCHANGED <<need, idlepool>>
    PROVE  SchedInv'
<1>1. need[c] = 0
  BY DEF SchedInv, ControlOK
<1>2. CASE op[c] = "waitall" /\ started /\ ~Empty
  <2>1. UNCHANGED <<smutex, cpc, op>>
    BY <1>2 DEF AfterTrigger
  <2>2. ControlOK'
    BY <2>1 DEF SchedInv, ControlOK, All
  <2>3. DestructAlone' /\ DestructedIdle'
    BY <2>1 DEF SchedInv, DestructAlone, DestructedIdle, Destructed
  <2> QED
    BY <2>2, <2>3 DEF SchedInv
<1>3. CASE ~(op[c] = "waitall" /\ started /\ ~Empty)
  <2> DEFINE l == CASE op[c] = "schedule" -> "returning"
                    [] op[c] = "allow" -> "idle"
                    [] OTHER -> "poolwait"
             o == IF op[c] = "allow" THEN "none" ELSE op[c]
  <2>1. smutex' = NoOne /\ Goto(c, l) /\ op' = [op EXCEPT ![c] = o]
    BY <1>3 DEF AfterTrigger
  <2>2. l \in {"idle", "returning", "poolwait"} /\ o \in {op[c], "none"}
    OBVIOUS
  <2>3. l = "poolwait" => o \in {"waitall", "destruct"}
    BY DEF SchedInv, ControlOK
  <2> HIDE DEF l, o
  <2> QED
    BY <1>1, <2>1, <2>2, <2>3, MoveKeeps
<1> QED
  BY <1>2, <1>3

(* sched_try_trigger takes an idle worker and both mutexes.                *)
LEMMA TriggerKeeps ==
    ASSUME SchedInv, NEW c \in Clients, Trigger(c)
    PROVE  SchedInv'
<1>1. /\ cpc[c] = "trigger" /\ chosen[c] = NoOne /\ pmutex = NoOne
      /\ UNCHANGED <<iswaiting, wst, need, asleep>>
  BY DEF Trigger
<1>2. CASE Idle >= 1
  <2>1. GetIdleWorker(c) /\ pmutex' = c /\ UNCHANGED <<smutex, clients>>
    BY <1>2 DEF Trigger
  <2>2. PoolInv'
    BY <1>1, <2>1, ChoosingKeeps DEF SchedInv
  <2>3. \A d \in Clients : d # c => chosen'[d] = chosen[d]
    BY <2>1 DEF GetIdleWorker, SchedInv, PoolInv, PoolTypeOK
  <2>4. ControlOK'
    BY <1>1, <2>1, <2>3 DEF SchedInv, ControlOK, clients, All
  <2>5. DestructAlone'
    BY <2>1 DEF SchedInv, DestructAlone, clients
  <2>6. \A d \in Clients : ~Destructed(d)
    BY <1>1 DEF SchedInv, DestructAlone, Destructed
  <2>7. DestructedIdle'
    BY <2>1, <2>6, <1>1 DEF DestructedIdle, Destructed, clients
  <2> QED
    BY <2>2, <2>4, <2>5, <2>7 DEF SchedInv
<1>3. CASE ~(Idle >= 1)
  <2>1. AfterTrigger(c, FALSE) /\ UNCHANGED <<pmutex, lists, chosen>>
    BY <1>3 DEF Trigger
  <2>2. PoolInv'
    BY <1>1, <2>1, PoolUntouched DEF SchedInv, poolVars, lists
  <2> QED
    BY <1>1, <2>1, <2>2, TriggerEnds DEF lists
<1> QED
  BY <1>2, <1>3

(* The worker gets its job, and the pool's mutex is released.              *)
LEMMA PostKeeps ==
    ASSUME SchedInv, NEW c \in Clients, Post(c)
    PROVE  SchedInv'
<1>1. /\ cpc[c] = "trigger" /\ chosen[c] # NoOne /\ WorkerStart(c)
      /\ pmutex' = NoOne /\ AfterTrigger(c, TRUE)
      /\ UNCHANGED <<lists, iswaiting, need, asleep>>
  BY DEF Post
<1>2. PoolInv'
  BY <1>1, PostingKeeps DEF SchedInv
<1>3. chosen'[c] = NoOne /\ \A d \in Clients : d # c => chosen'[d] = chosen[d]
  BY <1>1 DEF WorkerStart, SchedInv, PoolInv, PoolTypeOK
<1> QED
  BY <1>1, <1>2, <1>3, TriggerEnds DEF lists

(* cc_wpool_wait_all, called by wait_all and the destructor, returns at    *)
(* once only when all workers are idle.                                    *)
LEMMA PoolWaitKeeps ==
    ASSUME SchedInv, NEW c \in Clients, PoolWait(c)
    PROVE  SchedInv'
<1>1. /\ cpc[c] = "poolwait" /\ pmutex = NoOne /\ WaitTest(c, All, NoOne)
      /\ cpc' = [cpc EXCEPT ![c] = "waited"]
      /\ UNCHANGED <<lists, wst, chosen, smutex, op>>
  BY DEF PoolWait, Goto
<1>2. All \in Nat \ {0} /\ All \in 1..All
  BY Counts
<1>3. need[c] = 0
  BY <1>1 DEF SchedInv, ControlOK
<1>4. PoolInv'
  BY <1>1, <1>2, <1>3, WaitTestKeeps DEF SchedInv
<1>5. /\ cpc'[c] = "waited"
      /\ \A d \in Clients : d # c => cpc'[d] = cpc[d] /\ need'[d] = need[d]
  BY <1>1, <1>2 DEF WaitTest, SchedInv, ControlOK, PoolInv, PoolTypeOK
<1>6. /\ need'[c] \in {0, All}
      /\ need'[c] = 0 => ~(Idle < All)
  BY <1>1, <1>2 DEF WaitTest, SchedInv, PoolInv, PoolTypeOK
<1>7. ControlOK'
  BY <1>1, <1>2, <1>5, <1>6 DEF SchedInv, ControlOK, All
<1>8. DestructAlone'
  BY <1>1, <1>2, <1>5 DEF SchedInv, DestructAlone
<1>9. ~(Idle < All) => idlepool = Workers
  BY <1>2, Counts DEF SchedInv, PoolInv, PoolTypeOK, Idle
<1>10. DestructedIdle'
  BY <1>1, <1>5, <1>6, <1>9 DEF SchedInv, DestructedIdle, Destructed, lists
<1> QED
  BY <1>4, <1>7, <1>8, <1>10 DEF SchedInv

(* And so does it when it was woken.                                       *)
LEMMA ResumeKeeps ==
    ASSUME SchedInv, NEW c \in Clients, Resume(c)
    PROVE  SchedInv'
<1>1. WaitWoken(c, NoOne) /\ UNCHANGED <<smutex, cpc, op>>
  BY DEF Resume, schedVars, clients
<1>2. PoolInv'
  BY <1>1, WaitWokenKeeps DEF SchedInv
<1>3. need[c] # 0 /\ UNCHANGED <<idlepool, chosen>>
  BY <1>1 DEF WaitWoken, lists
<1>4. need[c] = All /\ cpc[c] = "waited"
  BY <1>3 DEF SchedInv, ControlOK
<1>5. \A d \in Clients : d # c => need'[d] = need[d]
  BY <1>1 DEF WaitWoken, SchedInv, PoolInv, PoolTypeOK
<1>6. need'[c] \in {0, need[c]} /\ (need'[c] = 0 => ~(Idle < need[c]))
  BY <1>1, <1>3 DEF WaitWoken, SchedInv, PoolInv, PoolTypeOK
<1>7. ControlOK'
  BY <1>1, <1>3, <1>4, <1>5, <1>6 DEF SchedInv, ControlOK, All
<1>8. DestructAlone'
  BY <1>1 DEF SchedInv, DestructAlone
<1>9. ~(Idle < All) => idlepool = Workers
  BY Counts DEF SchedInv, PoolInv, PoolTypeOK, Idle
<1>10. DestructedIdle'
  BY <1>1, <1>3, <1>4, <1>5, <1>6, <1>9 DEF SchedInv, DestructedIdle, Destructed
<1> QED
  BY <1>2, <1>7, <1>8, <1>10 DEF SchedInv

(* The calls of cc_sched_schedule, cc_sched_set_num_allowed,               *)
(* cc_sched_wait_all and cc_sched_destruct.                                *)
LEMMA CallsKeep ==
    ASSUME SchedInv, NEW c \in Clients,
           \/ \E p \in Prios : Schedule(c, p)
           \/ \E n \in Allowances : SetNumAllowed(c, n)
           \/ WaitAll(c) \/ Destruct(c)
    PROVE  SchedInv'
<1>1. ASSUME NEW p \in Prios, Schedule(c, p) PROVE SchedInv'
  <2>1. Call(c, "schedule") /\ smutex = NoOne /\ UNCHANGED poolVars
    BY <1>1 DEF Schedule, Call
  <2>2. CASE Empty
    BY <1>1, <2>1, <2>2, CallKeeps DEF Schedule
  <2>3. CASE ~Empty
    <3>1. smutex' = NoOne /\ Goto(c, "returning")
      BY <1>1, <2>1, <2>3 DEF Schedule
    <3> QED
      BY <2>1, <3>1, CallKeeps
  <2> QED
    BY <2>2, <2>3
<1>2. ASSUME NEW n \in Allowances, SetNumAllowed(c, n) PROVE SchedInv'
  BY <1>2, CallKeeps DEF SetNumAllowed
<1>3. CASE WaitAll(c)
  <2>1. /\ c \in Controllers /\ Call(c, "waitall") /\ smutex = NoOne
        /\ UNCHANGED poolVars
    BY <1>3 DEF WaitAll, Call
  <2>2. CASE Empty
    <3>1. smutex' = NoOne /\ Goto(c, "poolwait")
      BY <1>3, <2>1, <2>2 DEF WaitAll
    <3> QED
      BY <2>1, <3>1, CallKeeps
  <2>3. CASE ~Empty
    <3>1. smutex' = c /\ Goto(c, "trigger")
      BY <1>3, <2>3 DEF WaitAll
    <3> QED
      BY <2>1, <3>1, CallKeeps
  <2> QED
    BY <2>2, <2>3
<1>4. CASE Destruct(c)
  BY <1>4, CallKeeps DEF Destruct
<1> QED
  BY <1>1, <1>2, <1>3, <1>4

(* cc_sched_schedule and cc_sched_wait_all return.                         *)
LEMMA ReturnsKeep ==
    ASSUME SchedInv, NEW c \in Clients, Return(c) \/ Waited(c)
    PROVE  SchedInv'
<1>1. /\ cpc[c] \in {"returning", "waited"} /\ need[c] = 0 /\ Goto(c, "idle")
      /\ op' = [op EXCEPT ![c] = "none"] /\ smutex' = smutex
      /\ UNCHANGED poolVars
  BY DEF Return, Waited, SchedInv, ControlOK
<1>2. PoolInv' /\ UNCHANGED <<chosen, need, idlepool>>
  BY <1>1, PoolUntouched DEF SchedInv, poolVars
<1>3. chosen[c] = NoOne
  BY <1>1 DEF SchedInv, ControlOK
<1> QED
  BY <1>1, <1>2, <1>3, MoveKeeps

(* The entry point, the idle callback and the wait of a worker.            *)
LEMMA WorkerKeeps ==
    ASSUME SchedInv, NEW w \in Workers, Worker(w)
    PROVE  SchedInv'
<1>1. CASE Enter(w) \/ Finish(w)
  <2>1. /\ wst[w] \in {"posted", "working"}
        /\ UNCHANGED <<pmutex, lists, iswaiting, need, asleep, chosen, smutex,
                       clients>>
    BY <1>1 DEF Enter, Finish
  <2>2. PICK to \in {"working", "leaving"} : wst' = [wst EXCEPT ![w] = to]
    BY <1>1 DEF Enter, Finish, TakeNext
  <2>3. PoolInv'
    BY <2>1, <2>2, WorkingKeeps DEF SchedInv, Unemployed
  <2> QED
    BY <2>1, <2>3, PoolStepKeeps DEF lists
<1>2. CASE IdleCb(w) /\ UNCHANGED schedVars
  <2>1. PoolInv'
    BY <1>2, IdleCbKeeps DEF SchedInv
  <2>2. idlepool \subseteq idlepool' /\ UNCHANGED <<chosen, need>>
    BY <1>2 DEF IdleCb
  <2> QED
    BY <1>2, <2>1, <2>2, PoolStepKeeps DEF schedVars
<1>3. CASE Park(w) /\ UNCHANGED schedVars
  <2>1. PoolInv'
    BY <1>3, ParkKeeps DEF SchedInv
  <2> QED
    BY <1>3, <2>1, PoolStepKeeps DEF Park, schedVars, lists
<1> QED
  BY <1>1, <1>2, <1>3 DEF Worker

(* Every step keeps the invariant.                                         *)
LEMMA SchedStep == SchedInv /\ [Next]_vars => SchedInv'
<1> SUFFICES ASSUME SchedInv, [Next]_vars PROVE SchedInv'
  OBVIOUS
<1>1. ASSUME NEW c \in Clients, NEW j \in Ids,
             Unschedule(c, j) \/ \E p \in Prios : ChangePriority(c, j, p)
      PROVE  SchedInv'
  <2>1. UNCHANGED <<poolVars, smutex, clients>>
    BY <1>1 DEF Unschedule, ChangePriority
  <2>2. PoolInv'
    BY <2>1, PoolUntouched DEF SchedInv
  <2> QED
    BY <2>1, <2>2, PoolStepKeeps DEF poolVars
<1>2. CASE UNCHANGED vars
  <2>1. PoolInv'
    BY <1>2, PoolUntouched DEF SchedInv, vars
  <2> QED
    BY <1>2, <2>1, PoolStepKeeps DEF vars, poolVars, schedVars
<1>3. ASSUME NEW c \in Clients, Client(c) PROVE SchedInv'
  BY <1>1, <1>3, CallsKeep, ReturnsKeep, TriggerKeeps, PostKeeps, PoolWaitKeeps,
     ResumeKeeps
  DEF Client, Continue
<1> QED
  BY <1>2, <1>3, WorkerKeeps DEF Next, Terminated

(* So it holds for ever.                                                   *)
LEMMA SchedInvariant == Spec => []SchedInv
  BY SchedInit, SchedStep, PTL DEF Spec

(* Every worker is in exactly one list of the pool, a working one in the   *)
(* busy list, also when clients and workers of the scheduler use it.       *)
THEOREM SchedListsPartition == Spec => []ListsPartition
<1>1. SchedInv => ListsPartition
  BY DEF SchedInv, PoolInv
<1> QED
  BY <1>1, SchedInvariant, PTL

(* A client of the scheduler that waits for a worker with both mutexes     *)
(* held waits for one that needs neither: there is no deadlock in it.      *)
THEOREM SchedLockOrder == Spec => []LockOrder
<1>1. SchedInv => LockOrder
  BY DEF SchedInv, PoolInv, ChosenBusy, ControlOK, LockOrder, Unemployed
<1> QED
  BY <1>1, SchedInvariant, PTL

(* When the destructor has waited, no worker touches the scheduler again.  *)
THEOREM SchedDestructAlone == Spec => []NothingRunsAfterDestruct
<1>1. SchedInv => NothingRunsAfterDestruct
  BY DEF SchedInv, PoolInv, ListsPartition, DestructedIdle,
         NothingRunsAfterDestruct
<1> QED
  BY <1>1, SchedInvariant, PTL

-----------------------------------------------------------------------------
(* The cells of the workers' items. *)
Held == {item[w] : w \in Running}

FreeListOK ==
    /\ freelist \in Seq(Cells)
    /\ \A i, j \in 1..Len(freelist) : freelist[i] = freelist[j] => i = j

(* Where the cells are. *)
PlacesOK ==
    /\ item \in [Workers -> Cells \union {NoCell}] /\ Held \subseteq Cells
    /\ \A v, w \in Running : item[v] = item[w] => v = w
    /\ Queued \intersect FreeCells = {}
    /\ Held \intersect (Queued \union FreeCells) = {}
    /\ Queued \union FreeCells \union Held = Cells

(* Items in use have the ids of different jobs. *)
IdsOK ==
    /\ schedid_counter \in 1..(MaxJobs + 1)
    /\ items \in [Cells -> [id : Ids \union {0}, prio : Prios \union {0}]]
    /\ \A x \in Queued \union Held : items[x].id \in 1..(schedid_counter - 1)
    /\ \A x, y \in Queued \union Held : items[x].id = items[y].id => x = y

CellsOK == Indexed(heap, Cells, Queued, {}) /\ FreeListOK /\ PlacesOK /\ IdsOK

(* As long as there are ids for jobs there are cells for their items.      *)
LEMMA CellForJob ==
    ASSUME CellsOK, schedid_counter <= MaxJobs
    PROVE  freelist # <<>>
<1> SUFFICES ASSUME freelist = <<>> PROVE FALSE
  OBVIOUS
<1>1. FreeCells = {} /\ Queued \union Held = Cells
  BY DEF FreeCells, CellsOK, PlacesOK
<1> DEFINE n == schedid_counter - 1
           f == [x \in Cells |-> items[x].id]
<1>2. n \in Nat /\ n < MaxJobs /\ MaxJobs \in Nat
  BY SchedAssumption DEF CellsOK, IdsOK
<1>3. f \in [Cells -> 1..n] /\ \A x, y \in Cells : f[x] = f[y] => x = y
  BY <1>1 DEF CellsOK, IdsOK
<1> HIDE DEF n, f
<1>4. IsFiniteSet(1..n) /\ Cardinality(1..n) = n
  BY <1>2, FS_Interval
<1>5. IsFiniteSet(Cells) /\ Cardinality(Cells) = MaxJobs
  BY <1>2, FS_Interval DEF Cells
<1>6. PICK x, y \in Cells : x # y /\ f[x] = f[y]
  BY <1>2, <1>3, <1>4, <1>5, FS_PigeonHole
<1> QED
  BY <1>3, <1>6

(* A cell is allocated. *)
LEMMA Allocated ==
    ASSUME FreeListOK, freelist # <<>>, freelist' = Tail(freelist)
    PROVE  FreeListOK' /\ Head(freelist) \in FreeCells
           /\ FreeCells' = FreeCells \ {Head(freelist)}
<1>1. /\ Len(freelist) \in Nat \ {0} /\ freelist' \in Seq(Cells)
      /\ Len(freelist') = Len(freelist) - 1 /\ Head(freelist) = freelist[1]
      /\ \A i \in 1..Len(freelist') : freelist'[i] = freelist[i+1]
      /\ DOMAIN freelist = 1..Len(freelist) /\ DOMAIN freelist' = 1..Len(freelist')
  BY DEF FreeListOK
<1>2. FreeListOK'
  BY <1>1 DEF FreeListOK
<1>3. ASSUME NEW x \in FreeCells' PROVE x \in FreeCells \ {Head(freelist)}
  <2>1. PICK i \in 1..Len(freelist') : freelist'[i] = x
    BY <1>1, <1>3 DEF FreeCells
  <2>2. i + 1 \in 1..Len(freelist) /\ freelist[i+1] = x /\ i + 1 # 1
    BY <1>1, <2>1
  <2> QED
    BY <1>1, <2>2 DEF FreeCells, FreeListOK
<1>4. ASSUME NEW x \in FreeCells \ {Head(freelist)} PROVE x \in FreeCells'
  <2>1. PICK i \in 1..Len(freelist) : freelist[i] = x
    BY <1>1, <1>4 DEF FreeCells
  <2>2. i # 1 /\ i - 1 \in 1..Len(freelist') /\ freelist'[i - 1] = x
    BY <1>1, <1>4, <2>1
  <2> QED
    BY <1>1, <2>2 DEF FreeCells
<1>5. Head(freelist) \in FreeCells
  BY <1>1 DEF FreeCells
<1> QED
  BY <1>2, <1>3, <1>4, <1>5

(* A cell in use is freed. *)
LEMMA Freed ==
    ASSUME FreeListOK, NEW x \in Cells \ FreeCells, Free(x)
    PROVE  FreeListOK' /\ FreeCells' = FreeCells \union {x}
<1>1. /\ Len(freelist) \in Nat /\ freelist' \in Seq(Cells)
      /\ Len(freelist') = Len(freelist) + 1 /\ freelist'[1] = x
      /\ \A i \in 1..Len(freelist) : freelist'[i + 1] = freelist[i]
      /\ DOMAIN freelist = 1..Len(freelist) /\ DOMAIN freelist' = 1..Len(freelist')
  BY DEF FreeListOK, Free
<1>2. \A i \in 2..Len(freelist') :
        i - 1 \in 1..Len(freelist) /\ freelist'[i] = freelist[i - 1]
        /\ freelist'[i] \in FreeCells
  <2> TAKE i \in 2..Len(freelist')
  <2>1. i - 1 \in 1..Len(freelist) /\ (i - 1) + 1 = i
    BY <1>1
  <2> QED
    BY <1>1, <2>1 DEF FreeCells
<1>3. ASSUME NEW i \in 1..Len(freelist'), NEW j \in 1..Len(freelist'),
             freelist'[i] = freelist'[j]
      PROVE  i = j
  <2>1. CASE i = 1 \/ j = 1
    BY <1>1, <1>2, <1>3, <2>1
  <2>2. CASE i # 1 /\ j # 1
    BY <1>1, <1>2, <1>3, <2>2 DEF FreeListOK
  <2> QED
    BY <2>1, <2>2
<1>4. \A y \in FreeCells' : y \in FreeCells \union {x}
  BY <1>1, <1>2 DEF FreeCells
<1>5. \A y \in FreeCells : y \in FreeCells'
  <2> TAKE y \in FreeCells
  <2>1. PICK i \in 1..Len(freelist) : freelist[i] = y
    BY <1>1 DEF FreeCells
  <2>2. i + 1 \in 1..Len(freelist')
    BY <1>1
  <2> QED
    BY <1>1, <2>1, <2>2 DEF FreeCells
<1>6. x \in FreeCells'
  BY <1>1 DEF FreeCells
<1>7. FreeListOK'
  BY <1>1, <1>3 DEF FreeListOK
<1> QED
  BY <1>4, <1>5, <1>6, <1>7

(* Nothing happens to the cells.                                           *)
LEMMA CellsStay ==
    ASSUME CellsOK, UNCHANGED <<heap, items, freelist, schedid_counter, item>>,
           Running' = Running
    PROVE  CellsOK'
<1>1. Held' = Held /\ Queued' = Queued /\ FreeCells' = FreeCells
  BY DEF Held, Queued, FreeCells
<1> QED
  BY <1>1 DEF CellsOK, FreeListOK, PlacesOK, IdsOK

(* cc_sched_schedule: the cell that was freed last gets a new id.          *)
LEMMA ScheduleCells ==
    ASSUME CellsOK, NEW c \in Clients, NEW p \in Prios, Schedule(c, p)
    PROVE  /\ CellsOK'
           /\ Head(freelist) \in Cells \ (Queued \union Held)
           /\ Queued' = Queued \union {Head(freelist)} /\ Held' = Held
<1> DEFINE x == Head(freelist)
           q == [Priority EXCEPT ![x] = p]
<1>1. /\ schedid_counter <= MaxJobs /\ freelist' = Tail(freelist)
      /\ items' = [items EXCEPT ![x] = [id |-> schedid_counter, prio |-> p]]
      /\ schedid_counter' = schedid_counter + 1
      /\ heap' = HeapAdd(heap, x, q) /\ UNCHANGED <<wst, item>>
  BY DEF Schedule, poolVars
<1> HIDE DEF q
<1>2. FreeListOK' /\ x \in FreeCells /\ FreeCells' = FreeCells \ {x}
  BY <1>1, CellForJob, Allocated DEF CellsOK
<1> HIDE DEF x
<1>3. x \in Cells \ Queued /\ x \notin Held
  BY <1>2 DEF CellsOK, PlacesOK
<1>4. Indexed(heap', Cells, Queued \union {x}, {})
  BY <1>1, <1>3, HeapAddKeeps DEF CellsOK
<1>5. Queued' = Queued \union {x}
  BY <1>4 DEF Queued, Indexed
<1>6. Held' = Held /\ Running' = Running
  BY <1>1 DEF Held, Running
<1>7. PlacesOK'
  BY <1>1, <1>2, <1>3, <1>5, <1>6 DEF CellsOK, PlacesOK
<1>8. schedid_counter \in Ids /\ schedid_counter' \in 1..(MaxJobs + 1)
  BY <1>1, SchedAssumption DEF CellsOK, IdsOK, Ids
<1>9. IdsOK'
  <2>1. items' \in [Cells -> [id : Ids \union {0}, prio : Prios \union {0}]]
    BY <1>1, <1>3, <1>8 DEF CellsOK, IdsOK
  <2>2. /\ items'[x].id = schedid_counter
        /\ \A y \in Queued \union Held : items'[y].id = items[y].id /\ y # x
    BY <1>1, <1>3 DEF CellsOK, IdsOK, PlacesOK, Cells
  <2> QED
    BY <1>1, <1>3, <1>5, <1>6, <1>8, <2>1, <2>2, SchedAssumption
    DEF CellsOK, IdsOK
<1> QED
  BY <1>2, <1>3, <1>4, <1>5, <1>6, <1>7, <1>9 DEF CellsOK, x

(* Only the priority of an item changes, and no item comes into use.       *)
LEMMA PrioOnly ==
    ASSUME IdsOK, NEW x \in Cells, NEW p \in Prios \union {0},
           SetPriority(x, p), UNCHANGED schedid_counter,
           Queued' \union Held' \subseteq Queued \union Held,
           Queued \union Held \subseteq Cells
    PROVE  IdsOK'
<1>1. /\ items \in [Cells -> [id : Ids \union {0}, prio : Prios \union {0}]]
      /\ items' = [y \in Cells |-> IF y = x THEN [id |-> items[x].id, prio |-> p]
                                            ELSE items[y]]
  BY DEF IdsOK, SetPriority
<1>2. items' \in [Cells -> [id : Ids \union {0}, prio : Prios \union {0}]]
  BY <1>1
<1>3. \A y \in Cells : items'[y].id = items[y].id
  BY <1>1
<1> QED
  BY <1>2, <1>3 DEF IdsOK

(* cc_sched_unschedule: the item leaves the heap and is freed.             *)
LEMMA UnscheduleCells ==
    ASSUME CellsOK, NEW c \in Clients, NEW j \in Ids, Unschedule(c, j)
    PROVE  /\ CellsOK'
           /\ \E x \in Cell(j) :
                SetPriority(x, 0) /\ Queued' = Queued \ {x} /\ Held' = Held
<1>1. PICK x \in Cell(j) :
        /\ heap' = HeapRemove(heap, x, Priority)
        /\ SetPriority(x, 0) /\ Free(x)
  BY DEF Unschedule
<1>2. UNCHANGED <<wst, item, schedid_counter>>
  BY DEF Unschedule, poolVars
<1>3. x \in Queued /\ x \in Cells /\ x \notin FreeCells \union Held
  BY DEF Cell, CellsOK, PlacesOK
<1>4. Indexed(heap', Cells, Queued \ {x}, {})
  BY <1>1, <1>3, HeapRemoveKeeps DEF CellsOK
<1>5. Queued' = Queued \ {x}
  BY <1>4 DEF Queued, Indexed
<1>6. FreeListOK' /\ FreeCells' = FreeCells \union {x}
  BY <1>1, <1>3, Freed DEF CellsOK
<1>7. Held' = Held /\ Running' = Running
  BY <1>2 DEF Held, Running
<1>8. PlacesOK'
  BY <1>2, <1>3, <1>5, <1>6, <1>7 DEF CellsOK, PlacesOK
<1>9. IdsOK'
  <2>1. IdsOK /\ Queued \union Held \subseteq Cells
        /\ Queued' \union Held' \subseteq Queued \union Held
    BY <1>5, <1>7 DEF CellsOK, PlacesOK
  <2> QED
    BY <1>1, <1>2, <1>3, <2>1, PrioOnly
<1> QED
  BY <1>1, <1>4, <1>5, <1>6, <1>7, <1>8, <1>9 DEF CellsOK

(* cc_sched_change_priority: the item leaves the heap and comes back.      *)
LEMMA ChangePriorityCells ==
    ASSUME CellsOK, NEW c \in Clients, NEW j \in Ids, NEW p \in Prios,
           ChangePriority(c, j, p)
    PROVE  /\ CellsOK'
           /\ \E x \in Cell(j) :
                SetPriority(x, p) /\ Queued' = Queued /\ Held' = Held
<1>1. PICK x \in Cell(j) :
        /\ SetPriority(x, p)
        /\ heap' = HeapAdd(HeapRemove(heap, x, Priority), x,
                           [Priority EXCEPT ![x] = p])
  BY DEF ChangePriority
<1>2. UNCHANGED <<wst, item, schedid_counter, freelist>>
  BY DEF ChangePriority, poolVars
<1>3. x \in Queued /\ x \in Cells
  BY DEF Cell, CellsOK, PlacesOK
<1>4. Indexed(HeapRemove(heap, x, Priority), Cells, Queued \ {x}, {})
  BY <1>3, HeapRemoveKeeps DEF CellsOK
<1> DEFINE q == [Priority EXCEPT ![x] = p]
           g == HeapRemove(heap, x, Priority)
           A == Queued \ {x}
<1>5. heap' = HeapAdd(g, x, q) /\ Indexed(g, Cells, A, {}) /\ x \in Cells \ A
      /\ A \union {x} = Queued
  BY <1>1, <1>3, <1>4
<1> HIDE DEF q, g, A
<1>6. Indexed(heap', Cells, Queued, {})
  BY <1>5, HeapAddKeeps
<1>7. Queued' = Queued /\ FreeCells' = FreeCells /\ Held' = Held /\ Running' = Running
  BY <1>2, <1>6 DEF Queued, Indexed, FreeCells, Held, Running
<1>8. IdsOK'
  <2>1. IdsOK /\ Queued \union Held \subseteq Cells
    BY DEF CellsOK, PlacesOK
  <2>2. p \in Prios \union {0} /\ SetPriority(x, p)
    BY <1>1
  <2> QED
    BY <1>2, <1>3, <1>7, <2>1, <2>2, PrioOnly
<1>9. CellsOK'
  BY <1>2, <1>6, <1>7, <1>8 DEF CellsOK, FreeListOK, PlacesOK
<1> QED
  BY <1>1, <1>7, <1>9

(* The cells of the other workers' items.                                  *)
HeldByOthers(w) == {item[v] : v \in Running \ {w}}

(* A worker that has no item is given the first of the heap, or none.      *)
Taking(w) ==
    \/ Queued' = Queued /\ Held' = HeldByOthers(w)
    \/ /\ heap.array # <<>> /\ heap.array[1] \in Queued
       /\ Queued' = Queued \ {heap.array[1]}
       /\ Held' = HeldByOthers(w) \union {heap.array[1]}

(* The test of the worker's loop.                                          *)
LEMMA TakeNextCells ==
    ASSUME NEW w \in Workers, NEW n, TakeNext(w, n),
           Indexed(heap, Cells, Queued, {}),
           PoolTypeOK,
           item \in [Workers -> Cells \union {NoCell}],
           HeldByOthers(w) \subseteq Cells,
           \A u, v \in Running \ {w} : item[u] = item[v] => u = v,
           Queued \intersect FreeCells' = {},
           HeldByOthers(w) \intersect (Queued \union FreeCells') = {},
           Queued \union FreeCells' \union HeldByOthers(w) = Cells
    PROVE  Indexed(heap', Cells, Queued', {}) /\ PlacesOK'
           /\ Queued' \union Held' = Queued \union HeldByOthers(w) /\ Taking(w)
<1> DEFINE R == Running \ {w}
           H == HeldByOthers(w)
<1>1. CASE ~Empty /\ (n # 0 \/ iswaitingall)
  <2> DEFINE x == heap.array[1]
  <2>1. /\ heap' = HeapExtractTop(heap, Priority)
        /\ item' = [item EXCEPT ![w] = x]
        /\ wst' = [wst EXCEPT ![w] = "working"]
        /\ heap.array # <<>>
    BY <1>1 DEF TakeNext, Empty
  <2>2. x \in Queued /\ Indexed(heap', Cells, Queued \ {x}, {})
    BY <2>1, HeapExtractTopKeeps
  <2> HIDE DEF x
  <2>3. Queued' = Queued \ {x} /\ x \in Cells
    BY <2>2 DEF Queued, Indexed
  <2>4. Running' = R \union {w} /\ w \notin R
    BY <2>1 DEF Running, PoolTypeOK
  <2>5. item' \in [Workers -> Cells \union {NoCell}] /\ item'[w] = x
        /\ \A v \in R : item'[v] = item[v]
    BY <2>1, <2>3 DEF Running
  <2>6. Held' = H \union {x}
    BY <2>4, <2>5 DEF Held, HeldByOthers
  <2>7. \A v \in R : item[v] # x
    BY <2>2 DEF HeldByOthers
  <2>8. PlacesOK'
    BY <2>2, <2>3, <2>4, <2>5, <2>6, <2>7 DEF PlacesOK
  <2> QED
    BY <2>1, <2>2, <2>3, <2>6, <2>8 DEF Taking, x
<1>2. CASE ~(~Empty /\ (n # 0 \/ iswaitingall))
  <2>1. /\ heap' = heap
        /\ item' = [item EXCEPT ![w] = NoCell]
        /\ wst' = [wst EXCEPT ![w] = "leaving"]
    BY <1>2 DEF TakeNext
  <2>2. Queued' = Queued
    BY <2>1 DEF Queued
  <2>3. Running' = R /\ w \notin R
    BY <2>1 DEF Running, PoolTypeOK
  <2>4. item' \in [Workers -> Cells \union {NoCell}] /\ \A v \in R : item'[v] = item[v]
    BY <2>1 DEF Running
  <2>5. Held' = H
    BY <2>3, <2>4 DEF Held, HeldByOthers
  <2> QED
    BY <2>1, <2>2, <2>3, <2>4, <2>5 DEF PlacesOK, Taking
<1> QED
  BY <1>1, <1>2

(* sched_worker_entry_point: a worker that begins holds no item yet.       *)
LEMMA EnterCells ==
    ASSUME CellsOK, PoolTypeOK, NEW w \in Workers, Enter(w)
    PROVE  CellsOK' /\ HeldByOthers(w) = Held /\ Taking(w)
<1>1. wst[w] = "posted" /\ TakeNext(w, numallowed)
      /\ UNCHANGED <<items, freelist, schedid_counter>>
  BY DEF Enter
<1>2. /\ FreeListOK' /\ FreeCells' = FreeCells /\ Running = Running \ {w}
      /\ HeldByOthers(w) = Held
  BY <1>1 DEF CellsOK, FreeListOK, FreeCells, Running, Held, HeldByOthers
<1>3. Indexed(heap', Cells, Queued', {}) /\ PlacesOK'
      /\ Queued' \union Held' = Queued \union Held /\ Taking(w)
  <2>1. /\ \A u, v \in Running : item[u] = item[v] => u = v
        /\ item \in [Workers -> Cells \union {NoCell}] /\ Held \subseteq Cells
        /\ Queued \intersect FreeCells' = {}
        /\ Held \intersect (Queued \union FreeCells') = {}
        /\ Queued \union FreeCells' \union Held = Cells
        /\ Indexed(heap, Cells, Queued, {})
    BY <1>2 DEF CellsOK, PlacesOK
  <2> QED
    BY <1>1, <1>2, <2>1, TakeNextCells
<1>4. IdsOK'
  BY <1>1, <1>3 DEF CellsOK, IdsOK
<1> QED
  BY <1>2, <1>3, <1>4 DEF CellsOK

(* And one whose job has returned frees the item before it goes on.        *)
LEMMA FinishCells ==
    ASSUME CellsOK, PoolTypeOK, NEW w \in Workers, Finish(w)
    PROVE  /\ CellsOK' /\ Taking(w)
           /\ item[w] \in Held /\ HeldByOthers(w) = Held \ {item[w]}
<1> DEFINE x == item[w]
           n == IF numallowed > 0 THEN numallowed - 1 ELSE numallowed
           H == HeldByOthers(w)
<1>1. /\ wst[w] = "working" /\ TakeNext(w, n)
      /\ SetPriority(x, 0) /\ Free(x) /\ UNCHANGED schedid_counter
  BY DEF Finish
<1>2. w \in Running
  BY <1>1 DEF Running
<1>3. x \in Held /\ x \in Cells /\ x \notin Queued \union FreeCells
  BY <1>2 DEF Held, CellsOK, PlacesOK
<1>4. x \notin H /\ H \union {x} = Held /\ H = Held \ {x}
  BY <1>2 DEF Held, HeldByOthers, CellsOK, PlacesOK
<1>5. FreeListOK' /\ FreeCells' = FreeCells \union {x}
  BY <1>1, <1>3, Freed DEF CellsOK
<1>6. Indexed(heap', Cells, Queued', {}) /\ PlacesOK'
      /\ Queued' \union Held' = Queued \union H /\ Taking(w)
  <2>1. /\ \A u, v \in Running \ {w} : item[u] = item[v] => u = v
        /\ item \in [Workers -> Cells \union {NoCell}] /\ H \subseteq Cells
        /\ Queued \intersect FreeCells' = {}
        /\ H \intersect (Queued \union FreeCells') = {}
        /\ Queued \union FreeCells' \union H = Cells
        /\ Indexed(heap, Cells, Queued, {})
    BY <1>2, <1>3, <1>4, <1>5 DEF CellsOK, PlacesOK
  <2> HIDE DEF n
  <2> QED
    BY <1>1, <1>5, <2>1, TakeNextCells
<1>7. IdsOK'
  <2>1. IdsOK /\ Queued \union Held \subseteq Cells
        /\ Queued' \union Held' \subseteq Queued \union Held
    BY <1>4, <1>6 DEF CellsOK, PlacesOK
  <2> QED
    BY <1>1, <1>3, <2>1, PrioOnly
<1> QED
  BY <1>3, <1>4, <1>5, <1>6, <1>7 DEF CellsOK

(* The other steps leave the cells alone.                                  *)
LEMMA CellsKept ==
    ASSUME SchedInv, CellsOK, [Next]_vars
    PROVE  CellsOK'
<1>1. PoolTypeOK /\ ChosenBusy
  BY DEF SchedInv, PoolInv
<1>2. ASSUME NEW w \in Workers, Worker(w) PROVE CellsOK'
  <2>1. CASE Enter(w)
    BY <1>1, <2>1, EnterCells
  <2>2. CASE Finish(w)
    BY <1>1, <2>2, FinishCells
  <2>3. CASE (IdleCb(w) \/ Park(w)) /\ UNCHANGED schedVars
    <3>1. PICK to : wst' = [wst EXCEPT ![w] = to] /\ to # "working" /\ wst[w] # "working"
      BY <2>3 DEF IdleCb, Park
    <3>2. Running' = Running
      BY <1>1, <3>1 DEF Running, PoolTypeOK
    <3> QED
      BY <2>3, <3>2, CellsStay DEF schedVars, queue
  <2> QED
    BY <1>2, <2>1, <2>2, <2>3 DEF Worker
<1>3. CASE UNCHANGED <<heap, items, freelist, schedid_counter, item, wst>>
  BY <1>3, CellsStay DEF Running
<1>4. ASSUME NEW c \in Clients, Client(c) PROVE CellsOK'
  <2>1. ASSUME NEW p \in Prios, Schedule(c, p) PROVE CellsOK'
    BY <2>1, ScheduleCells
  <2>2. ASSUME NEW j \in Ids, Unschedule(c, j) \/ \E p \in Prios : ChangePriority(c, j, p)
        PROVE  CellsOK'
    BY <2>2, UnscheduleCells, ChangePriorityCells
  <2>3. CASE \/ \E n \in Allowances : SetNumAllowed(c, n)
             \/ WaitAll(c) \/ Destruct(c) \/ Return(c) \/ Trigger(c)
             \/ PoolWait(c) \/ Resume(c) \/ Waited(c)
    BY <1>3, <2>3
    DEF SetNumAllowed, WaitAll, Destruct, Return, Trigger, PoolWait, Resume, Waited,
        WaitWoken, poolVars, schedVars, queue
  <2>4. CASE Post(c)
    <3>1. /\ UNCHANGED <<heap, items, freelist, schedid_counter, item>>
          /\ wst' = [wst EXCEPT ![chosen[c]] = "posted"]
          /\ wst[chosen[c]] # "working" /\ chosen[c] \in Workers
      BY <1>1, <2>4 DEF Post, WorkerStart, queue, ChosenBusy, PoolTypeOK
    <3>2. Running' = Running
      BY <1>1, <3>1 DEF Running, PoolTypeOK
    <3> QED
      BY <3>1, <3>2, CellsStay
  <2> QED
    BY <1>4, <2>1, <2>2, <2>3, <2>4 DEF Client, Continue
<1>5. CASE UNCHANGED vars
  BY <1>3, <1>5 DEF vars, poolVars, schedVars, queue
<1> QED
  BY <1>2, <1>4, <1>5 DEF Next, Terminated

(* All cells are free when the scheduler is constructed.                   *)
LEMMA CellsInit == Init => CellsOK
<1> SUFFICES ASSUME Init PROVE CellsOK
  OBVIOUS
<1>1. /\ heap = [array |-> <<>>, hash |-> <<>>] /\ freelist = [i \in Cells |-> i]
      /\ items = [x \in Cells |-> [id |-> 0, prio |-> 0]]
      /\ schedid_counter = 1 /\ item = [w \in Workers |-> NoCell]
      /\ wst = [w \in Workers |-> "new"] /\ Cells = 1..MaxJobs /\ MaxJobs \in Nat
  BY SchedAssumption DEF Init, PoolInit, EmptyHeap, Cells
<1>2. heap \in HeapType(Cells) /\ Queued = {}
  <2>1. <<>> \in [{} -> Nat \ {0}] /\ <<>> \in Seq(Cells)
    OBVIOUS
  <2>2. [array |-> <<>>, hash |-> <<>>] \in HeapType(Cells)
    BY <2>1, MakeHeap
  <2> QED
    BY <1>1, <2>2 DEF Queued, ToSet
<1>3. Indexed(heap, Cells, Queued, {})
  BY <1>1, <1>2 DEF Indexed, Queued
<1>4. /\ freelist \in Seq(Cells) /\ Len(freelist) = MaxJobs
      /\ \A i \in 1..MaxJobs : freelist[i] = i
  BY <1>1
<1>5. FreeListOK
  BY <1>1, <1>4 DEF FreeListOK
<1>6. FreeCells = Cells /\ Running = {} /\ Held = {}
  BY <1>1 DEF FreeCells, Running, Held
<1>7. PlacesOK
  BY <1>1, <1>2, <1>6 DEF PlacesOK
<1>8. IdsOK
  BY <1>1, <1>2, <1>6 DEF IdsOK, Ids
<1> QED
  BY <1>3, <1>5, <1>7, <1>8 DEF CellsOK

(* The fields that are left.                                               *)
RestOK ==
    /\ numallowed \in Allowances \union {-1, 0} \union
           UNION {0..n : n \in Allowances}
    /\ iswaitingall \in BOOLEAN
    /\ ptr \in [Clients -> [cell : Cells \union {NoCell}, job : Ids \union {0}]]
    /\ cancelled \subseteq Ids

(* They are in their types at first.                                       *)
LEMMA RestInit == Init => RestOK
<1> SUFFICES ASSUME Init PROVE RestOK
  OBVIOUS
<1>1. numallowed = -1 /\ iswaitingall = FALSE /\ cancelled = {}
  BY DEF Init
<1>2. ptr = [c \in Clients |-> [cell |-> NoCell, job |-> 0]]
  BY DEF Init, NoPtr
<1> QED
  BY <1>1, <1>2 DEF RestOK

(* And after every step; numallowed stops at 0.                            *)
LEMMA RestKept ==
    ASSUME CellsOK, RestOK, [Next]_vars
    PROVE  RestOK'
<1>1. CASE UNCHANGED <<numallowed, iswaitingall, ptr, cancelled>>
  BY <1>1 DEF RestOK
<1>2. ASSUME NEW w \in Workers, Worker(w) PROVE RestOK'
  <2>1. CASE Finish(w)
    <3>1. /\ numallowed' = IF numallowed > 0 THEN numallowed - 1 ELSE numallowed
          /\ UNCHANGED <<iswaitingall, ptr, cancelled>>
      BY <2>1 DEF Finish, clients
    <3>2. CASE numallowed > 0
      <4>1. PICK n \in Allowances : n \in Nat /\ numallowed \in 0..n
        <5>1. CASE numallowed \in Allowances
          BY <3>2, <5>1, SchedAssumption
        <5>2. CASE \E n \in Allowances : numallowed \in 0..n
          BY <3>2, <5>2, SchedAssumption
        <5> QED
          BY <3>2, <5>1, <5>2 DEF RestOK
      <4>2. numallowed - 1 \in 0..n
        BY <3>2, <4>1
      <4> QED
        BY <3>1, <3>2, <4>2 DEF RestOK
    <3>3. CASE ~(numallowed > 0)
      BY <1>1, <3>1, <3>3
    <3> QED
      BY <3>2, <3>3
  <2> QED
    BY <1>1, <1>2, <2>1 DEF Worker, Enter, modes, schedVars, queue, clients
<1>3. ASSUME NEW c \in Clients, Client(c) PROVE RestOK'
  <2>1. ASSUME NEW p \in Prios, Schedule(c, p) PROVE RestOK'
    <3>1. /\ schedid_counter \in Ids /\ freelist # <<>>
      BY <2>1, CellForJob, SchedAssumption DEF Schedule, CellsOK, IdsOK, Ids
    <3>2. Head(freelist) \in Cells
      BY <3>1 DEF CellsOK, FreeListOK
    <3>3. /\ ptr' = [ptr EXCEPT ![c] =
                      [cell |-> Head(freelist), job |-> schedid_counter]]
          /\ UNCHANGED <<numallowed, iswaitingall, cancelled>>
      BY <2>1 DEF Schedule, modes
    <3> QED
      BY <3>1, <3>2, <3>3 DEF RestOK
  <2>2. ASSUME NEW j \in Ids, Unschedule(c, j) PROVE RestOK'
    BY <2>2 DEF Unschedule, RestOK, modes, clients
  <2>3. ASSUME NEW j \in Ids, NEW p \in Prios, ChangePriority(c, j, p) PROVE RestOK'
    BY <1>1, <2>3 DEF ChangePriority, modes, clients
  <2>4. ASSUME NEW n \in Allowances, SetNumAllowed(c, n) PROVE RestOK'
    BY <2>4 DEF SetNumAllowed, RestOK, queue
  <2>5. CASE WaitAll(c) \/ Waited(c)
    BY <2>5 DEF WaitAll, Waited, RestOK, queue
  <2>6. CASE Destruct(c)
    <3>1. numallowed' = 0 /\ UNCHANGED <<iswaitingall, ptr, cancelled>>
      BY <2>6 DEF Destruct, queue
    <3> QED
      BY <3>1 DEF RestOK
  <2>7. CASE Return(c)
    BY <2>7 DEF Return, RestOK, queue, modes, NoPtr
  <2>8. CASE Trigger(c) \/ Post(c) \/ PoolWait(c) \/ Resume(c)
    BY <1>1, <2>8
    DEF Trigger, Post, PoolWait, Resume, queue, modes, clients, schedVars
  <2> QED
    BY <1>3, <2>1, <2>2, <2>3, <2>4, <2>5, <2>6, <2>7, <2>8 DEF Client, Continue
<1>4. CASE UNCHANGED vars
  BY <1>1, <1>4 DEF vars, schedVars, queue, modes, clients
<1> QED
  BY <1>2, <1>3, <1>4 DEF Next, Terminated

(* Items that are queued or run have different ids.                        *)
OneItemPerId ==
    \A x, y \in Queued \union {item[w] : w \in Running} :
        items[x].id = items[y].id => x = y

(* Ids tell items apart: what cc_sched_unschedule finds for an id is one   *)
(* item, and not that of another job whose cell was used before.           *)
THEOREM SchedOneItemPerId == Spec => []OneItemPerId
<1>1. CellsOK => OneItemPerId
  BY DEF CellsOK, IdsOK, OneItemPerId, Held
<1> QED
  BY <1>1, SchedInvariant, CellsInit, CellsKept, PTL DEF Spec

(* Type correctness, and no item is freed in use, freed twice or leaked:   *)
(* the heap of src/src/base/heap.cpp and its hash table agree, whatever is *)
(* added, removed and taken, and the cells of the allocator are divided    *)
(* between it, the workers and the free list.                              *)
THEOREM SchedCellsDisjoint == Spec => []CellsDisjoint
<1>1. SchedInv /\ CellsOK /\ RestOK => CellsDisjoint
  <2> SUFFICES ASSUME SchedInv, CellsOK, RestOK PROVE CellsDisjoint
    OBVIOUS
  <2>1. heap.array \in Seq(Cells) /\ HashAgrees(heap)
    BY IndexedAgrees DEF CellsOK
  <2>2. TypeOK
    BY <2>1 DEF TypeOK, SchedInv, PoolInv, ControlOK, CellsOK, IdsOK, PlacesOK, RestOK
  <2>3. Cardinality(FreeCells) = Len(freelist)
    <3>1. /\ freelist \in [1..Len(freelist) -> FreeCells] /\ Len(freelist) \in Nat
          /\ FreeCells = {freelist[i] : i \in 1..Len(freelist)}
      BY DEF CellsOK, FreeListOK, FreeCells
    <3>2. IsInjective(freelist)
      BY <3>1 DEF IsInjective, CellsOK, FreeListOK
    <3>3. freelist \in Surjection(1..Len(freelist), FreeCells)
      BY <3>1 DEF Surjection
    <3>4. freelist \in Bijection(1..Len(freelist), FreeCells)
      BY <3>1, <3>2, <3>3 DEF Bijection, Injection
    <3>5. IsFiniteSet(1..Len(freelist)) /\ Cardinality(1..Len(freelist)) = Len(freelist)
      BY <3>1, FS_Interval
    <3>6. ExistsBijection(1..Len(freelist), FreeCells)
      BY <3>4 DEF ExistsBijection
    <3> QED
      BY <3>5, <3>6, FS_Bijection
  <2>4. /\ \A w \in Running : item[w] \in Held /\ item[w] \in Cells /\ item[w] # NoCell
        /\ Held = {item[w] : w \in Running}
    BY DEF Held, CellsOK, PlacesOK, Cells, NoCell
  <2> QED
    BY <2>2, <2>3, <2>4 DEF CellsDisjoint, CellsOK, PlacesOK
<1> QED
  BY <1>1, SchedInvariant, CellsInit, CellsKept, RestInit, RestKept, PTL DEF Spec

-----------------------------------------------------------------------------
(* The promise of JobQueue but for the order of the jobs.                  *)
Unordered == INSTANCE JobQueue WITH
    Jobs <- Ids, Width <- All, InOrder <- FALSE, state <- JobState, prio <- JobPrio

QueuedIds == {items[x].id : x \in Queued}
HeldIds == {items[x].id : x \in Held}

(* A job that was unscheduled has no item. *)
CancelledOK ==
    /\ cancelled \subseteq 1..(schedid_counter - 1)
    /\ cancelled \intersect (QueuedIds \union HeldIds) = {}

(* The state of job j when ids from n on are new, and the others are       *)
(* queued, running and cancelled as the sets say.                          *)
StateOf(j, n, Q, H, C) ==
    IF j >= n THEN "new" ELSE IF j \in Q THEN "queued" ELSE IF j \in H THEN "running"
    ELSE IF j \in C THEN "cancelled" ELSE "done"

(* The state of a job is read off the sets of ids.                         *)
LEMMA StateIs ==
    /\ JobState = [j \in Ids |-> JobState[j]] /\ JobState' = [j \in Ids |-> JobState'[j]]
    /\ \A j \in Ids :
         /\ JobState[j] = StateOf(j, schedid_counter, QueuedIds, HeldIds, cancelled)
         /\ JobState'[j] = StateOf(j, schedid_counter', QueuedIds', HeldIds', cancelled')
<1>1. \A j \in Ids : /\ Cell(j) # {} <=> j \in QueuedIds
                     /\ RunningId(j) <=> j \in HeldIds
  BY DEF Cell, QueuedIds, RunningId, HeldIds, Held
<1>2. \A j \in Ids : /\ Cell(j)' # {} <=> j \in QueuedIds'
                     /\ RunningId(j)' <=> j \in HeldIds'
  BY DEF Cell, QueuedIds, RunningId, HeldIds, Held
<1> QED
  BY <1>1, <1>2 DEF JobState, StateOf

(* The ids in use. *)
LEMMA IdsInUse ==
    ASSUME CellsOK
    PROVE  /\ schedid_counter \in 1..(MaxJobs + 1) /\ MaxJobs \in Nat
           /\ QueuedIds \subseteq 1..(schedid_counter - 1)
           /\ HeldIds \subseteq 1..(schedid_counter - 1)
           /\ 1..(schedid_counter - 1) \subseteq Ids
           /\ QueuedIds \intersect HeldIds = {}
           /\ Queued \subseteq Cells /\ Held \subseteq Cells
           /\ \A x, y \in Queued \union Held : items[x].id = items[y].id => x = y
<1>1. schedid_counter \in 1..(MaxJobs + 1) /\ MaxJobs \in Nat
  BY SchedAssumption DEF CellsOK, IdsOK
<1>2. /\ QueuedIds \subseteq 1..(schedid_counter - 1)
      /\ HeldIds \subseteq 1..(schedid_counter - 1)
  BY DEF CellsOK, IdsOK, QueuedIds, HeldIds
<1>3. Queued \subseteq Cells /\ Held \subseteq Cells /\ Queued \intersect Held = {}
  BY DEF CellsOK, PlacesOK
<1>4. QueuedIds \intersect HeldIds = {}
  BY <1>3 DEF CellsOK, IdsOK, QueuedIds, HeldIds
<1> QED
  BY <1>1, <1>2, <1>3, <1>4 DEF Ids, CellsOK, IdsOK

(* The priority of a queued job is that of its item, and of others 0.      *)
PrioView ==
    /\ JobPrio = [j \in Ids |-> JobPrio[j]]
    /\ \A x \in Queued : JobPrio[items[x].id] = items[x].prio
    /\ \A j \in Ids \ QueuedIds : JobPrio[j] = 0

(* It follows from the ids of the items being different.                   *)
LEMMA PrioViewed == CellsOK => PrioView
<1> SUFFICES ASSUME CellsOK PROVE PrioView
  OBVIOUS
<1>1. \A j \in Ids : JobPrio[j] = IF Cell(j) = {} THEN 0
                       ELSE items[CHOOSE x \in Cell(j) : TRUE].prio
  BY DEF JobPrio
<1>2. ASSUME NEW x \in Queued PROVE JobPrio[items[x].id] = items[x].prio
  <2> DEFINE j == items[x].id
             y == CHOOSE y \in Cell(j) : TRUE
  <2>1. j \in Ids /\ x \in Cell(j)
    BY IdsInUse DEF Cell, QueuedIds
  <2>2. y \in Cell(j)
    BY <2>1
  <2> HIDE DEF y
  <2>3. y = x
    BY <2>2, IdsInUse DEF Cell
  <2> QED
    BY <1>1, <2>1, <2>3 DEF y
<1>3. \A j \in Ids \ QueuedIds : Cell(j) = {}
  BY DEF Cell, QueuedIds
<1>4. JobPrio = [j \in Ids |-> JobPrio[j]]
  BY DEF JobPrio
<1> QED
  BY <1>1, <1>2, <1>3, <1>4 DEF PrioView

(* And does so after a step.                                               *)
LEMMA PrioViewedNext == CellsOK' => PrioView'
  BY PrioViewed, PTL

(* A function that differs from another in one place.                      *)
LEMMA DiffersAt ==
    ASSUME NEW S, NEW f, NEW g, f = [j \in S |-> f[j]], g = [j \in S |-> g[j]],
           NEW k, NEW v, \A j \in S : g[j] = IF j = k THEN v ELSE f[j]
    PROVE  g = [f EXCEPT ![k] = v]
OBVIOUS

(* What no step but those below changes. *)
LEMMA JobsStay ==
    ASSUME CellsOK, CellsOK', CancelledOK, cancelled' = cancelled,
           schedid_counter' = schedid_counter, Queued' = Queued, Held' = Held,
           items' = items
    PROVE  CancelledOK' /\ JobState' = JobState /\ JobPrio' = JobPrio
<1>1. QueuedIds' = QueuedIds /\ HeldIds' = HeldIds
  BY DEF QueuedIds, HeldIds
<1>2. CancelledOK' /\ \A j \in Ids : JobState'[j] = JobState[j]
  BY <1>1, StateIs DEF CancelledOK
<1>3. JobPrio' = JobPrio
  BY DEF JobPrio, Cell
<1> QED
  BY <1>2, <1>3, StateIs

(* cc_sched_schedule schedules the job whose id it gives out.              *)
LEMMA ScheduleJob ==
    ASSUME CellsOK, CancelledOK, NEW c \in Clients, NEW p \in Prios, Schedule(c, p)
    PROVE  CancelledOK' /\ \E j \in Ids : Unordered!Schedule(j, p)
<1> DEFINE x == Head(freelist)
           n == schedid_counter
<1>1. /\ n <= MaxJobs /\ schedid_counter' = n + 1 /\ cancelled' = cancelled
      /\ items' = [items EXCEPT ![x] = [id |-> n, prio |-> p]]
  BY DEF Schedule
<1>2. /\ CellsOK' /\ x \in Cells \ (Queued \union Held)
      /\ Queued' = Queued \union {x} /\ Held' = Held
  BY ScheduleCells
<1> HIDE DEF x
<1>3. /\ items'[x].id = n /\ items'[x].prio = p
      /\ \A y \in Queued \union Held : items'[y] = items[y]
  BY <1>1, <1>2 DEF CellsOK, IdsOK, PlacesOK
<1>4. n \in Ids /\ n \notin QueuedIds /\ n \notin HeldIds /\ n \notin cancelled
  BY <1>1, IdsInUse DEF Ids, CancelledOK
<1>5. QueuedIds' = QueuedIds \union {n} /\ HeldIds' = HeldIds
  BY <1>2, <1>3 DEF QueuedIds, HeldIds
<1>6. CancelledOK'
  BY <1>1, <1>4, <1>5, IdsInUse DEF CancelledOK
<1>7. JobState[n] = "new" /\ JobState' = [JobState EXCEPT ![n] = "queued"]
  <2>1. JobState[n] = "new"
    BY <1>4, StateIs DEF StateOf, Ids
  <2>2. ASSUME NEW j \in Ids
        PROVE  JobState'[j] = IF j = n THEN "queued" ELSE JobState[j]
    BY <1>1, <1>4, <1>5, StateIs, IdsInUse DEF StateOf, Ids
  <2> QED
    BY <2>1, <2>2, StateIs, DiffersAt
<1>8. JobPrio' = [JobPrio EXCEPT ![n] = p]
  <2>1. ASSUME NEW j \in Ids PROVE JobPrio'[j] = IF j = n THEN p ELSE JobPrio[j]
    <3>1. CASE j \in QueuedIds
      <4>1. PICK y \in Queued : items[y].id = j
        BY <3>1 DEF QueuedIds
      <4>2. JobPrio[j] = items[y].prio
        BY <4>1, PrioViewed DEF PrioView
      <4>3. JobPrio'[j] = items'[y].prio
        BY <1>2, <1>3, <4>1, PrioViewedNext DEF PrioView
      <4> QED
        BY <1>3, <1>4, <3>1, <4>2, <4>3
    <3>2. CASE j = n
      BY <1>2, <1>3, <3>2, PrioViewedNext DEF PrioView
    <3>3. CASE j # n /\ j \notin QueuedIds
      BY <1>2, <1>5, <3>3, PrioViewed, PrioViewedNext DEF PrioView
    <3> QED
      BY <3>1, <3>2, <3>3
  <2>2. JobPrio = [j \in Ids |-> JobPrio[j]] /\ JobPrio' = [j \in Ids |-> JobPrio'[j]]
    BY <1>2, PrioViewed, PrioViewedNext DEF PrioView
  <2> QED
    BY <2>1, <2>2, DiffersAt
<1> QED
  BY <1>4, <1>6, <1>7, <1>8 DEF Unordered!Schedule, Unordered!Move

(* cc_sched_unschedule cancels the job, if it is queued, and no other.     *)
LEMMA UnscheduleJob ==
    ASSUME CellsOK, CancelledOK, NEW c \in Clients, NEW j \in Ids, Unschedule(c, j)
    PROVE  CancelledOK' /\ Unordered!Cancel(j)
<1>1. cancelled' = cancelled \union {j} /\ schedid_counter' = schedid_counter
  BY DEF Unschedule
<1>2. PICK x \in Cell(j) : SetPriority(x, 0) /\ Queued' = Queued \ {x} /\ Held' = Held
  BY UnscheduleCells
<1>3. CellsOK' /\ x \in Queued /\ items[x].id = j /\ x \in Cells /\ x \notin Held
  BY <1>2, UnscheduleCells DEF Cell, CellsOK, PlacesOK
<1>4. /\ \A y \in Cells : items'[y].id = items[y].id
      /\ \A y \in Cells \ {x} : items'[y] = items[y]
  BY <1>2, <1>3 DEF SetPriority, CellsOK, IdsOK
<1>5. QueuedIds' = QueuedIds \ {j} /\ HeldIds' = HeldIds
  <2>1. \A y \in Queued : y # x => items[y].id # j
    BY <1>3, IdsInUse
  <2> QED
    BY <1>2, <1>3, <1>4, <2>1, IdsInUse DEF QueuedIds, HeldIds
<1>6. j \in QueuedIds /\ j \notin HeldIds /\ j \in 1..(schedid_counter - 1)
  BY <1>3, IdsInUse DEF QueuedIds
<1>7. CancelledOK'
  BY <1>1, <1>5, <1>6 DEF CancelledOK
<1>8. JobState[j] = "queued" /\ JobState' = [JobState EXCEPT ![j] = "cancelled"]
  <2>1. JobState[j] = "queued"
    BY <1>6, StateIs, IdsInUse DEF StateOf
  <2>2. ASSUME NEW k \in Ids
        PROVE  JobState'[k] = IF k = j THEN "cancelled" ELSE JobState[k]
    BY <1>1, <1>5, <1>6, StateIs, IdsInUse DEF StateOf, Ids
  <2> QED
    BY <2>1, <2>2, StateIs, DiffersAt
<1>9. JobPrio' = [JobPrio EXCEPT ![j] = 0]
  <2>1. ASSUME NEW k \in Ids PROVE JobPrio'[k] = IF k = j THEN 0 ELSE JobPrio[k]
    <3>1. CASE k \in QueuedIds /\ k # j
      <4>1. PICK y \in Queued : items[y].id = k
        BY <3>1 DEF QueuedIds
      <4>2. JobPrio[k] = items[y].prio
        BY <4>1, PrioViewed DEF PrioView
      <4>3. y # x /\ y \in Cells /\ y \in Queued'
        BY <1>2, <1>3, <3>1, <4>1, IdsInUse
      <4>4. JobPrio'[k] = items'[y].prio
        BY <1>3, <1>4, <4>1, <4>3, PrioViewedNext DEF PrioView
      <4> QED
        BY <1>4, <3>1, <4>2, <4>3, <4>4
    <3>2. CASE k \notin QueuedIds \/ k = j
      BY <1>3, <1>5, <3>2, PrioViewed, PrioViewedNext DEF PrioView
    <3> QED
      BY <3>1, <3>2
  <2>2. JobPrio = [k \in Ids |-> JobPrio[k]] /\ JobPrio' = [k \in Ids |-> JobPrio'[k]]
    BY <1>3, PrioViewed, PrioViewedNext DEF PrioView
  <2> QED
    BY <2>1, <2>2, DiffersAt
<1> QED
  BY <1>7, <1>8, <1>9 DEF Unordered!Cancel, Unordered!Move

(* cc_sched_change_priority changes the priority of the job, if it is      *)
(* queued, and of no other; that it leaves the heap for a while is not     *)
(* seen.                                                                   *)
LEMMA ChangePriorityJob ==
    ASSUME CellsOK, CancelledOK, NEW c \in Clients, NEW j \in Ids, NEW p \in Prios,
           ChangePriority(c, j, p)
    PROVE  CancelledOK' /\ Unordered!ChangePriority(j, p)
<1>1. cancelled' = cancelled /\ schedid_counter' = schedid_counter
  BY DEF ChangePriority
<1>2. PICK x \in Cell(j) : SetPriority(x, p) /\ Queued' = Queued /\ Held' = Held
  BY ChangePriorityCells
<1>3. CellsOK' /\ x \in Queued /\ items[x].id = j /\ x \in Cells
  BY <1>2, ChangePriorityCells DEF Cell, CellsOK, PlacesOK
<1>4. /\ \A y \in Cells : items'[y].id = items[y].id
      /\ \A y \in Cells \ {x} : items'[y] = items[y]
      /\ items'[x].prio = p
  BY <1>2, <1>3 DEF SetPriority, CellsOK, IdsOK
<1>5. QueuedIds' = QueuedIds /\ HeldIds' = HeldIds
  BY <1>2, <1>4, IdsInUse DEF QueuedIds, HeldIds
<1>6. CancelledOK' /\ j \in QueuedIds
  BY <1>1, <1>3, <1>5 DEF CancelledOK, QueuedIds
<1>7. JobState[j] = "queued" /\ JobState' = JobState
  <2>1. JobState[j] = "queued"
    BY <1>6, StateIs, IdsInUse DEF StateOf
  <2>2. \A k \in Ids : JobState'[k] = JobState[k]
    BY <1>1, <1>5, StateIs
  <2> QED
    BY <2>1, <2>2, StateIs
<1>8. JobPrio' = [JobPrio EXCEPT ![j] = p]
  <2>1. ASSUME NEW k \in Ids PROVE JobPrio'[k] = IF k = j THEN p ELSE JobPrio[k]
    <3>1. CASE k \in QueuedIds
      <4>1. PICK y \in Queued : items[y].id = k
        BY <3>1 DEF QueuedIds
      <4>2. JobPrio[k] = items[y].prio
        BY <4>1, PrioViewed DEF PrioView
      <4>3. y \in Cells /\ y \in Queued' /\ (y = x <=> k = j)
        BY <1>2, <1>3, <4>1, IdsInUse
      <4>4. JobPrio'[k] = items'[y].prio
        BY <1>3, <1>4, <4>1, <4>3, PrioViewedNext DEF PrioView
      <4> QED
        BY <1>4, <4>2, <4>3, <4>4
    <3>2. CASE k \notin QueuedIds
      BY <1>3, <1>5, <1>6, <3>2, PrioViewed, PrioViewedNext DEF PrioView
    <3> QED
      BY <3>1, <3>2
  <2>2. JobPrio = [k \in Ids |-> JobPrio[k]] /\ JobPrio' = [k \in Ids |-> JobPrio'[k]]
    BY <1>3, PrioViewed, PrioViewedNext DEF PrioView
  <2> QED
    BY <2>1, <2>2, DiffersAt
<1> QED
  BY <1>6, <1>7, <1>8 DEF Unordered!ChangePriority

(* A worker that takes up a job did not run one.                           *)
LEMMA WidthKept ==
    ASSUME CellsOK, NEW w \in Workers, w \notin Running
    PROVE  Unordered!Cardinality(Unordered!In("running")) < All
<1> DEFINE f == [v \in Running |-> items[item[v]].id]
<1>1. IsFiniteSet(Running) /\ Cardinality(Running) < All /\ Cardinality(Running) \in Nat
      /\ All \in Nat
  <2>1. IsFiniteSet(Workers) /\ Running \in SUBSET (Workers \ {w})
    BY WorkersAssumption DEF Running
  <2>2. IsFiniteSet(Workers \ {w}) /\ Cardinality(Workers \ {w}) = All - 1
        /\ All \in Nat
    BY <2>1, FS_RemoveElement, FS_CardinalityType DEF All
  <2>3. IsFiniteSet(Running) /\ Cardinality(Running) <= Cardinality(Workers \ {w})
    BY <2>1, <2>2, FS_Subset
  <2> QED
    BY <2>2, <2>3, FS_CardinalityType
<1>2. HeldIds = {f[v] : v \in Running} /\ f \in [Running -> HeldIds]
  BY DEF HeldIds, Held
<1>3. Unordered!In("running") = HeldIds
  BY StateIs, IdsInUse DEF Unordered!In, StateOf, Ids
<1>4. f \in Surjection(Running, HeldIds)
  <2> HIDE DEF f
  <2> QED
    BY <1>2 DEF Surjection
<1>5. Cardinality(HeldIds) <= Cardinality(Running) /\ Cardinality(HeldIds) \in Nat
  BY <1>1, <1>4, FS_Surjection, FS_CardinalityType
<1>6. Unordered!Cardinality(HeldIds) = Cardinality(HeldIds)
  BY DEF Unordered!Cardinality, Cardinality
<1> QED
  BY <1>1, <1>3, <1>5, <1>6
(* What taking the first item of the heap does to the ids in use. *)
LEMMA TakenIds ==
    ASSUME CellsOK, NEW w \in Workers, Taking(w), HeldByOthers(w) \subseteq Held,
           \A x \in Cells : items'[x].id = items[x].id,
           NEW O, O = {items[x].id : x \in HeldByOthers(w)}
    PROVE  \/ QueuedIds' = QueuedIds /\ HeldIds' = O
           \/ \E k \in QueuedIds :
                /\ heap.array[1] \in Queued /\ k = items[heap.array[1]].id
                /\ QueuedIds' = QueuedIds \ {k} /\ HeldIds' = O \union {k}
<1>1. \A x \in Queued \union HeldByOthers(w) : items'[x].id = items[x].id
  BY IdsInUse
<1>2. CASE Queued' = Queued /\ Held' = HeldByOthers(w)
  BY <1>1, <1>2 DEF QueuedIds, HeldIds
<1>3. CASE /\ heap.array[1] \in Queued
           /\ Queued' = Queued \ {heap.array[1]}
           /\ Held' = HeldByOthers(w) \union {heap.array[1]}
  <2> DEFINE x == heap.array[1]
             k == items[x].id
  <2>1. x \in Queued /\ k \in QueuedIds /\ items'[x].id = k
    BY <1>1, <1>3 DEF QueuedIds
  <2>2. HeldIds' = O \union {k}
    BY <1>1, <1>3, <2>1 DEF HeldIds
  <2>3. QueuedIds' = QueuedIds \ {k}
    <3>1. \A y \in Queued : y # x => items[y].id # k
      BY <2>1, IdsInUse
    <3> QED
      BY <1>1, <1>3, <2>1, <3>1 DEF QueuedIds
  <2> QED
    BY <2>1, <2>2, <2>3
<1> QED
  BY <1>2, <1>3 DEF Taking

(* And to the priorities of the jobs: only that of the job that runs, if   *)
(* any, is lost.                                                           *)
LEMMA TakenPrio ==
    ASSUME CellsOK, CellsOK', \A x \in Queued : items'[x] = items[x],
           Queued' \subseteq Queued
    PROVE  /\ QueuedIds' = QueuedIds => JobPrio' = JobPrio
           /\ \A k \in QueuedIds : QueuedIds' = QueuedIds \ {k} =>
                JobPrio' = [JobPrio EXCEPT ![k] = 0]
<1>1. ASSUME NEW j \in QueuedIds' PROVE JobPrio'[j] = JobPrio[j]
  <2>1. PICK y \in Queued' : items'[y].id = j
    BY <1>1 DEF QueuedIds
  <2>2. y \in Queued /\ items'[y] = items[y] /\ items[y].id = j
    BY <2>1
  <2>3. JobPrio'[j] = items'[y].prio
    BY <2>1, PrioViewedNext DEF PrioView
  <2>4. JobPrio[j] = items[y].prio
    BY <2>2, PrioViewed DEF PrioView
  <2> QED
    BY <2>2, <2>3, <2>4
<1>2. \A j \in Ids : j \notin QueuedIds' => JobPrio'[j] = 0
  BY PrioViewedNext DEF PrioView
<1>3. \A j \in Ids : j \notin QueuedIds => JobPrio[j] = 0
  BY PrioViewed DEF PrioView
<1>4. JobPrio = [j \in Ids |-> JobPrio[j]] /\ JobPrio' = [j \in Ids |-> JobPrio'[j]]
  BY PrioViewed, PrioViewedNext DEF PrioView
<1>5. ASSUME QueuedIds' = QueuedIds PROVE JobPrio' = JobPrio
  <2>1. \A j \in Ids : JobPrio'[j] = JobPrio[j]
    BY <1>1, <1>2, <1>3, <1>5
  <2> QED
    BY <1>4, <2>1
<1>6. ASSUME NEW k \in QueuedIds, QueuedIds' = QueuedIds \ {k}
      PROVE  JobPrio' = [JobPrio EXCEPT ![k] = 0]
  <2>1. \A j \in Ids : JobPrio'[j] = IF j = k THEN 0 ELSE JobPrio[j]
    BY <1>1, <1>2, <1>3, <1>6
  <2> QED
    BY <1>4, <2>1, DiffersAt
<1> QED
  BY <1>5, <1>6

(* A worker that begins runs the job whose item is the first of the heap,  *)
(* or none.                                                                *)
LEMMA EnterJob ==
    ASSUME CellsOK, CancelledOK, PoolTypeOK, NEW w \in Workers, Enter(w)
    PROVE  /\ CancelledOK'
           /\ \/ JobState' = JobState /\ JobPrio' = JobPrio
              \/ /\ heap.array[1] \in Queued
                 /\ Unordered!Run(items[heap.array[1]].id)
<1>1. /\ wst[w] = "posted"
      /\ UNCHANGED <<items, schedid_counter, cancelled>>
  BY DEF Enter
<1>2. CellsOK' /\ HeldByOthers(w) = Held /\ Taking(w)
  BY EnterCells
<1>3. HeldIds = {items[x].id : x \in HeldByOthers(w)} /\ Queued' \subseteq Queued
  BY <1>2 DEF HeldIds, Taking
<1>4. CASE QueuedIds' = QueuedIds /\ HeldIds' = HeldIds
  <2>1. CancelledOK' /\ \A j \in Ids : JobState'[j] = JobState[j]
    BY <1>1, <1>4, StateIs DEF CancelledOK
  <2>2. JobPrio' = JobPrio
    BY <1>1, <1>2, <1>3, <1>4, TakenPrio
  <2> QED
    BY <2>1, <2>2, StateIs
<1>5. ASSUME NEW k \in QueuedIds, heap.array[1] \in Queued,
             k = items[heap.array[1]].id,
             QueuedIds' = QueuedIds \ {k}, HeldIds' = HeldIds \union {k}
      PROVE  CancelledOK' /\ Unordered!Run(k)
  <2>1. k \in Ids /\ k \notin HeldIds /\ k < schedid_counter /\ k \notin cancelled
    BY <1>5, IdsInUse DEF CancelledOK
  <2>2. CancelledOK'
    BY <1>1, <1>5, <2>1 DEF CancelledOK
  <2>3. JobState[k] = "queued"
    BY <1>5, <2>1, StateIs, IdsInUse DEF StateOf
  <2>4. \A j \in Ids : JobState'[j] = IF j = k THEN "running" ELSE JobState[j]
    BY <1>1, <1>5, <2>1, StateIs, IdsInUse DEF StateOf
  <2>5. JobState' = [JobState EXCEPT ![k] = "running"]
    BY <2>4, StateIs, DiffersAt
  <2>6. JobPrio' = [JobPrio EXCEPT ![k] = 0]
    BY <1>1, <1>2, <1>3, <1>5, TakenPrio
  <2>7. Unordered!Cardinality(Unordered!In("running")) < All
    BY <1>1, WidthKept DEF Running
  <2> QED
    BY <2>2, <2>3, <2>5, <2>6, <2>7 DEF Unordered!Run, Unordered!MayRun, Unordered!Move
<1>6. \/ QueuedIds' = QueuedIds /\ HeldIds' = HeldIds
      \/ \E k \in QueuedIds :
           /\ heap.array[1] \in Queued /\ k = items[heap.array[1]].id
           /\ QueuedIds' = QueuedIds \ {k} /\ HeldIds' = HeldIds \union {k}
  BY <1>1, <1>2, <1>3, TakenIds
<1> QED
  BY <1>4, <1>5, <1>6

(* One whose job has returned has finished it, and may run the first of    *)
(* the heap in the same step.                                              *)
LEMMA FinishJob ==
    ASSUME CellsOK, CancelledOK, PoolTypeOK, NEW w \in Workers, Finish(w)
    PROVE  /\ CancelledOK'
           /\ \E j \in Ids :
                \/ Unordered!Finish(j)
                \/ /\ heap.array[1] \in Queued
                   /\ Unordered!RunNext(j, items[heap.array[1]].id)
<1> DEFINE y == item[w]
           j == items[y].id
           O == {items[x].id : x \in HeldByOthers(w)}
<1>1. SetPriority(y, 0) /\ UNCHANGED <<schedid_counter, cancelled>>
  BY DEF Finish
<1>2. CellsOK' /\ y \in Held /\ HeldByOthers(w) = Held \ {y} /\ Taking(w)
  BY FinishCells
<1>3. /\ y \in Cells /\ y \notin Queued /\ Queued \subseteq Cells
      /\ \A x \in Cells : items'[x].id = items[x].id
      /\ \A x \in Queued : items'[x] = items[x]
      /\ Queued' \subseteq Queued
  BY <1>1, <1>2 DEF SetPriority, CellsOK, IdsOK, PlacesOK, Taking
<1>4. /\ j \in HeldIds /\ j \in Ids /\ j \notin QueuedIds /\ j < schedid_counter
      /\ j \notin cancelled
  <2>1. j \in HeldIds
    BY <1>2 DEF HeldIds
  <2> QED
    BY <2>1, IdsInUse DEF CancelledOK
<1>5. O = HeldIds \ {j}
  <2>1. \A x \in Held : x # y => items[x].id # j
    BY <1>2, IdsInUse
  <2> QED
    BY <1>2, <2>1 DEF HeldIds
<1>6. JobState[j] = "running"
  <2> HIDE DEF j
  <2> QED
    BY <1>4, StateIs, IdsInUse DEF StateOf
<1> HIDE DEF j, O
<1>7. CASE QueuedIds' = QueuedIds /\ HeldIds' = O
  <2>1. CancelledOK'
    BY <1>1, <1>5, <1>7 DEF CancelledOK
  <2>2. \A k \in Ids : JobState'[k] = IF k = j THEN "done" ELSE JobState[k]
    BY <1>1, <1>4, <1>5, <1>7, StateIs, IdsInUse DEF StateOf
  <2>3. JobState' = [JobState EXCEPT ![j] = "done"]
    BY <2>2, StateIs, DiffersAt
  <2>4. JobPrio' = JobPrio
    BY <1>2, <1>3, <1>7, TakenPrio
  <2> QED
    BY <1>4, <1>6, <2>1, <2>3, <2>4 DEF Unordered!Finish, Unordered!Move
<1>8. ASSUME NEW k \in QueuedIds, heap.array[1] \in Queued,
             k = items[heap.array[1]].id,
             QueuedIds' = QueuedIds \ {k}, HeldIds' = O \union {k}
      PROVE  CancelledOK' /\ Unordered!RunNext(j, k)
  <2>1. k \in Ids /\ k \notin HeldIds /\ k < schedid_counter /\ k \notin cancelled
        /\ k # j
    BY <1>4, <1>8, IdsInUse DEF CancelledOK
  <2>2. CancelledOK'
    BY <1>1, <1>5, <1>8, <2>1 DEF CancelledOK
  <2>3. JobState[k] = "queued"
    BY <1>8, <2>1, StateIs, IdsInUse DEF StateOf
  <2>4. \A l \in Ids : JobState'[l] = IF l = k THEN "running"
                           ELSE IF l = j THEN "done" ELSE JobState[l]
    BY <1>1, <1>4, <1>5, <1>8, <2>1, StateIs, IdsInUse DEF StateOf
  <2>5. JobState' = [JobState EXCEPT ![j] = "done", ![k] = "running"]
    BY <1>4, <2>1, <2>4, StateIs
  <2>6. JobPrio' = [JobPrio EXCEPT ![k] = 0]
    BY <1>2, <1>3, <1>8, TakenPrio
  <2> QED
    BY <1>6, <2>2, <2>3, <2>5, <2>6 DEF Unordered!RunNext, Unordered!MayRun
<1>9. \/ QueuedIds' = QueuedIds /\ HeldIds' = O
      \/ \E k \in QueuedIds :
           /\ heap.array[1] \in Queued /\ k = items[heap.array[1]].id
           /\ QueuedIds' = QueuedIds \ {k} /\ HeldIds' = O \union {k}
  BY <1>2, <1>3, TakenIds DEF O
<1> QED
  BY <1>4, <1>7, <1>8, <1>9

(* What a step does to the jobs: nothing, or it is one of JobQueue's, and  *)
(* a job that is run is the one whose item is the first of the heap.       *)
JobsUnchanged == JobState' = JobState /\ JobPrio' = JobPrio
Top == items[heap.array[1]].id
TopStep ==
    \/ JobsUnchanged
    \/ \E j \in Ids, p \in Prios : Unordered!Schedule(j, p) \/ Unordered!ChangePriority(j, p)
    \/ \E j \in Ids : Unordered!Cancel(j) \/ Unordered!Finish(j)
    \/ /\ heap.array[1] \in Queued
       /\ Unordered!Run(Top) \/ \E j \in Ids : Unordered!RunNext(j, Top)

(* Every step does that. *)
LEMMA JobsStep ==
    ASSUME SchedInv, CellsOK, CancelledOK, [Next]_vars
    PROVE  CancelledOK' /\ TopStep
<1>1. PoolTypeOK /\ ChosenBusy /\ CellsOK'
  BY CellsKept DEF SchedInv, PoolInv
<1>2. CASE UNCHANGED <<heap, items, schedid_counter, cancelled, item>> /\ Running' = Running
  <2>1. Queued' = Queued /\ Held' = Held
    BY <1>2 DEF Queued, Held
  <2> QED
    BY <1>1, <1>2, <2>1, JobsStay DEF TopStep, JobsUnchanged
<1>3. ASSUME NEW w \in Workers, Worker(w)
      PROVE  CancelledOK' /\ TopStep
  <2>1. CASE Enter(w)
    BY <1>1, <2>1, EnterJob DEF TopStep, JobsUnchanged, Top
  <2>2. CASE Finish(w)
    BY <1>1, <2>2, FinishJob DEF TopStep, Top
  <2>3. CASE (IdleCb(w) \/ Park(w)) /\ UNCHANGED schedVars
    <3>1. PICK to : wst' = [wst EXCEPT ![w] = to] /\ to # "working" /\ wst[w] # "working"
      BY <2>3 DEF IdleCb, Park
    <3>2. Running' = Running
      BY <1>1, <3>1 DEF Running, PoolTypeOK
    <3> QED
      BY <1>2, <2>3, <3>2 DEF schedVars, queue
  <2> QED
    BY <1>3, <2>1, <2>2, <2>3 DEF Worker
<1>4. ASSUME NEW c \in Clients, Client(c)
      PROVE  CancelledOK' /\ TopStep
  <2>1. ASSUME NEW p \in Prios, Schedule(c, p)
        PROVE  CancelledOK' /\ TopStep
    BY <2>1, ScheduleJob DEF TopStep
  <2>2. ASSUME NEW j \in Ids, Unschedule(c, j)
        PROVE  CancelledOK' /\ TopStep
    BY <2>2, UnscheduleJob DEF TopStep
  <2>3. ASSUME NEW j \in Ids, NEW p \in Prios, ChangePriority(c, j, p)
        PROVE  CancelledOK' /\ TopStep
    BY <2>3, ChangePriorityJob DEF TopStep
  <2>4. CASE \/ \E n \in Allowances : SetNumAllowed(c, n)
             \/ WaitAll(c) \/ Destruct(c) \/ Return(c) \/ Trigger(c)
             \/ PoolWait(c) \/ Resume(c) \/ Waited(c)
    BY <1>2, <2>4
    DEF SetNumAllowed, WaitAll, Destruct, Return, Trigger, PoolWait, Resume, Waited,
        WaitWoken, poolVars, schedVars, queue, Running
  <2>5. CASE Post(c)
    <3>1. /\ UNCHANGED <<heap, items, schedid_counter, cancelled, item>>
          /\ wst' = [wst EXCEPT ![chosen[c]] = "posted"]
          /\ wst[chosen[c]] # "working" /\ chosen[c] \in Workers
      BY <1>1, <2>5 DEF Post, WorkerStart, queue, ChosenBusy, PoolTypeOK
    <3>2. Running' = Running
      BY <1>1, <3>1 DEF Running, PoolTypeOK
    <3> QED
      BY <1>2, <3>1, <3>2
  <2> QED
    BY <1>4, <2>1, <2>2, <2>3, <2>4, <2>5 DEF Client, Continue
<1>5. CASE UNCHANGED vars
  BY <1>2, <1>5 DEF vars, poolVars, schedVars, queue, Running
<1> QED
  BY <1>3, <1>4, <1>5 DEF Next, Terminated

(* There are no jobs at first.                                             *)
LEMMA JobsInit == Init => CancelledOK /\ Unordered!Init
<1> SUFFICES ASSUME Init PROVE CancelledOK /\ Unordered!Init
  OBVIOUS
<1>1. CellsOK /\ schedid_counter = 1 /\ cancelled = {} /\ Queued = {}
  BY CellsInit DEF Init, EmptyHeap, Queued, ToSet
<1>2. CancelledOK /\ QueuedIds = {}
  BY <1>1 DEF CancelledOK, QueuedIds
<1>3. \A j \in Ids : JobState[j] = "new" /\ JobPrio[j] = 0
  BY <1>1, <1>2, StateIs, PrioViewed DEF StateOf, Ids, PrioView
<1>4. JobState = [j \in Ids |-> JobState[j]] /\ JobPrio = [j \in Ids |-> JobPrio[j]]
  BY <1>1, StateIs, PrioViewed DEF PrioView
<1> QED
  BY <1>2, <1>3, <1>4 DEF Unordered!Init

(* Every step of the scheduler is one of JobQueue's or nothing to it:      *)
(* sched.cpp runs a job that was scheduled once or cancels it, never both  *)
(* and never twice, at most one at a time on each worker, and gives it     *)
(* only priorities that it was given.  The order in which jobs are run is  *)
(* the next theorem.                                                       *)
THEOREM SchedRunsJobsOnce == Spec => Unordered!Spec
<1>1. SchedInv /\ CellsOK /\ CancelledOK /\ [Next]_vars
        => CellsOK' /\ CancelledOK' /\ [Unordered!Next]_<<JobState, JobPrio>>
  <2> SUFFICES ASSUME SchedInv, CellsOK, CancelledOK, [Next]_vars
               PROVE  CellsOK' /\ CancelledOK' /\ (Unordered!Next \/ JobsUnchanged)
    BY DEF JobsUnchanged
  <2>1. CellsOK' /\ CancelledOK' /\ TopStep
    BY CellsKept, JobsStep
  <2>2. heap.array[1] \in Queued => Top \in Ids
    BY IdsInUse DEF QueuedIds, Top
  <2> QED
    BY <2>1, <2>2 DEF TopStep, Unordered!Next
<1> QED
  BY <1>1, SchedInvariant, CellsInit, JobsInit, PTL DEF Spec, Unordered!Spec

-----------------------------------------------------------------------------
(* No element of the array is larger than its parent.                      *)
Ordered(a, p) == \A j \in 2..Len(a) : p[a[j]] <= p[a[j \div 2]]

(* Elements have numbers as priorities. *)
Weighs(D, p) == \A x \in D : p[x] \in Int

(* The first of them is the largest.                                       *)
LEMMA OrderedTop ==
    ASSUME NEW D, NEW p, Weighs(D, p), NEW a \in Seq(D), Ordered(a, p),
           NEW i \in 1..Len(a)
    PROVE  p[a[i]] <= p[a[1]]
<1> DEFINE T == {j \in 1..Len(a) : ~(p[a[j]] <= p[a[1]])}
<1> SUFFICES ASSUME T # {} PROVE FALSE
  OBVIOUS
<1>0. Len(a) \in Nat /\ \A j \in 1..Len(a) : p[a[j]] \in Int
  BY DEF Weighs
<1>1. T \subseteq Nat
  BY <1>0
<1>2. PICK j \in T : \A k \in T : j <= k
  <2> HIDE DEF T
  <2> QED
    BY <1>1, LeastNumber
<1>3. j \in 2..Len(a) /\ j \div 2 \in 1..Len(a) /\ ~(j <= j \div 2)
  BY <1>0
<1>4. p[a[j]] <= p[a[j \div 2]]
  BY <1>3 DEF Ordered
<1>5. p[a[j \div 2]] <= p[a[1]]
  BY <1>2, <1>3
<1>6. 1 \in 1..Len(a) /\ j \in 1..Len(a)
  BY <1>0
<1> QED
  BY <1>0, <1>3, <1>4, <1>5, <1>6

-----------------------------------------------------------------------------
(* What one call of heap_heapify does to the array.                        *)
LEMMA SinkArray ==
    ASSUME NEW D, NEW p, NEW s \in Walk(D)
    PROVE  LET a == s.h.array
               m == Largest(a, s.i, p)
               b == Sink(s, p).h.array
           IN  \/ m = s.i /\ Sink(s, p) = s
               \/ /\ m # s.i /\ m \in {2 * s.i, 2 * s.i + 1} /\ m \in 1..Len(a)
                  /\ s.i \in 1..Len(a) /\ Sink(s, p).i = m
                  /\ Len(b) = Len(a)
                  /\ \A j \in 1..Len(a) :
                       b[j] = IF j = m THEN a[s.i] ELSE IF j = s.i THEN a[m] ELSE a[j]
<1> DEFINE h == s.h
           i == s.i
           a == h.array
           m == Largest(a, i, p)
<1>0. i \in Nat \ {0} /\ h \in HeapType(D)
  BY DEF Walk
<1> HIDE DEF h, i
<1>1. m \in {i, 2 * i, 2 * i + 1} /\ (m # i => m <= Len(a) /\ m > i)
  BY <1>0 DEF Largest
<1>2. /\ a \in Seq(D) /\ Len(a) \in Nat
      /\ \A j \in 1..Len(a) : a[j] \in D
  BY <1>0, HeapTyped
<1> HIDE DEF m
<1>3. CASE m = i
  BY <1>3 DEF Sink, m, h, i
<1>4. CASE m # i
  <2>1. i \in 1..Len(a) /\ m \in 1..Len(a)
    BY <1>0, <1>1, <1>2, <1>4
  <2> DEFINE k == Put(h, i, a[m])
             l == Put(k, m, a[i])
  <2>2. Sink(s, p) = [h |-> l, i |-> m]
    BY <1>4 DEF Sink, m, h, i
  <2>3. /\ k \in HeapType(D) /\ Len(k.array) = Len(a)
        /\ \A j \in 1..Len(a) : k.array[j] = IF j = i THEN a[m] ELSE a[j]
    <3> QED BY <1>0, <1>2, <2>1, PutFacts
  <2> HIDE DEF k
  <2>4. /\ Len(l.array) = Len(a)
        /\ \A j \in 1..Len(a) : l.array[j] = IF j = m THEN a[i] ELSE k.array[j]
    <3>1. a[i] \in D /\ m \in 1..Len(k.array) /\ k \in HeapType(D)
      BY <1>2, <2>1, <2>3
    <3> QED
      BY <2>3, <3>1, PutFacts
  <2> HIDE DEF l
  <2>5. /\ m # i /\ m \in {2 * i, 2 * i + 1} /\ m \in 1..Len(a) /\ i \in 1..Len(a)
        /\ Sink(s, p).i = m /\ Sink(s, p).h = l /\ Len(l.array) = Len(a)
        /\ \A j \in 1..Len(a) :
             l.array[j] = IF j = m THEN a[i] ELSE IF j = i THEN a[m] ELSE a[j]
    BY <1>1, <1>4, <2>1, <2>2, <2>3, <2>4
  <2> QED
    BY <2>5 DEF m, h, i
<1> QED
  BY <1>3, <1>4

(* The array is in order but for the children of place i, which are not    *)
(* larger than the parent of i.                                            *)
OrderedBut(a, i, p) ==
    /\ \A j \in 2..Len(a) : j \div 2 # i => p[a[j]] <= p[a[j \div 2]]
    /\ \A j \in 2..Len(a) : j \div 2 = i /\ i > 1 => p[a[j]] <= p[a[i \div 2]]

(* Largest, as it compares.                                                *)
LEMMA LargestFacts ==
    ASSUME NEW D, NEW p, Weighs(D, p), NEW a \in Seq(D), NEW i \in 1..Len(a)
    PROVE  /\ \A j \in 2..Len(a) : j \div 2 = i => p[a[j]] <= p[a[Largest(a, i, p)]]
           /\ p[a[i]] <= p[a[Largest(a, i, p)]]
<1>1. Len(a) \in Nat /\ \A j \in 1..Len(a) : p[a[j]] \in Int
  BY DEF Weighs
<1> DEFINE l == IF 2 * i <= Len(a) /\ p[a[2 * i]] > p[a[i]] THEN 2 * i ELSE i
           m == IF 2 * i + 1 <= Len(a) /\ p[a[2 * i + 1]] > p[a[l]] THEN 2 * i + 1 ELSE l
<1>2. Largest(a, i, p) = m
  BY DEF Largest
<1>3. l \in 1..Len(a) /\ p[a[i]] <= p[a[l]] /\ (2 * i <= Len(a) => p[a[2 * i]] <= p[a[l]])
  BY <1>1
<1> HIDE DEF l
<1>4. m \in 1..Len(a) /\ p[a[l]] <= p[a[m]]
      /\ (2 * i + 1 <= Len(a) => p[a[2 * i + 1]] <= p[a[m]])
  BY <1>1, <1>3
<1> HIDE DEF m
<1>5. p[a[i]] <= p[a[m]] /\ (2 * i <= Len(a) => p[a[2 * i]] <= p[a[m]])
  <2>1. p[a[i]] <= p[a[m]]
    BY <1>1, <1>3, <1>4
  <2>2. ASSUME 2 * i <= Len(a) PROVE p[a[2 * i]] <= p[a[m]]
    <3>1. 2 * i \in 1..Len(a)
      BY <1>1, <2>2
    <3> QED
      BY <1>1, <1>3, <1>4, <2>2, <3>1
  <2> QED
    BY <2>1, <2>2
<1>6. ASSUME NEW j \in 2..Len(a), j \div 2 = i PROVE p[a[j]] <= p[a[m]]
  <2>1. j = 2 * i \/ j = 2 * i + 1
    BY <1>1, <1>6
  <2> QED
    BY <1>1, <1>4, <1>5, <2>1
<1> QED
  BY <1>2, <1>5, <1>6

(* The element goes down one level, and the order above it is right.       *)
LEMMA SinkOrders ==
    ASSUME NEW D, NEW p, Weighs(D, p), NEW s \in Walk(D), OrderedBut(s.h.array, s.i, p)
    PROVE  /\ OrderedBut(Sink(s, p).h.array, Sink(s, p).i, p)
           /\ \/ Ordered(Sink(s, p).h.array, p) /\ Sink(s, p) = s
              \/ Sink(s, p).i > s.i
<1> DEFINE a == s.h.array
           i == s.i
           m == Largest(a, i, p)
           b == Sink(s, p).h.array
<1>0. i \in Nat \ {0} /\ a \in Seq(D) /\ Len(a) \in Nat
  BY HeapTyped DEF Walk
<1>1. CASE m = i /\ Sink(s, p) = s
  <2>1. Ordered(a, p)
    <3> SUFFICES ASSUME NEW j \in 2..Len(a), j \div 2 = i PROVE p[a[j]] <= p[a[i]]
      BY DEF Ordered, OrderedBut
    <3>1. i \in 1..Len(a)
      BY <1>0
    <3> QED
      BY <1>0, <1>1, <3>1, LargestFacts
  <2> QED
    BY <1>1, <2>1
<1>2. CASE /\ m # i /\ m \in {2 * i, 2 * i + 1} /\ m \in 1..Len(a)
           /\ i \in 1..Len(a) /\ Sink(s, p).i = m /\ Len(b) = Len(a)
           /\ \A j \in 1..Len(a) :
                b[j] = IF j = m THEN a[i] ELSE IF j = i THEN a[m] ELSE a[j]
  <2>1. /\ \A j \in 2..Len(a) : j \div 2 = i => p[a[j]] <= p[a[m]]
        /\ p[a[i]] <= p[a[m]]
    BY <1>0, <1>2, LargestFacts
  <2>2. OrderedBut(a, i, p)
    OBVIOUS
  <2> HIDE DEF a, b, i, m
  <2>3. m \div 2 = i /\ m > i /\ m \in 2..Len(a)
    BY <1>0, <1>2
  <2>4. \A j \in 2..Len(a) : j \div 2 \in 1..Len(a) /\ j \in 1..Len(a)
    BY <1>0
  <2>5. ASSUME NEW j \in 2..Len(a), j \div 2 # m PROVE p[b[j]] <= p[b[j \div 2]]
    <3>1. CASE j = m
      BY <1>2, <2>1, <2>3, <3>1
    <3>2. CASE j # m /\ j \div 2 = i
      <4>1. j # i
        BY <1>0, <3>2
      <4>2. b[j] = a[j] /\ b[j \div 2] = a[m]
        BY <1>2, <2>4, <3>2, <4>1
      <4> QED
        BY <2>1, <3>2, <4>2
    <3>3. CASE j = i
      <4>1. b[j] = a[m] /\ b[j \div 2] = a[i \div 2]
        <5>1. j \div 2 # i
          BY <1>0, <3>3
        <5> QED
          BY <1>2, <2>4, <2>5, <3>3, <5>1
      <4>2. i > 1
        BY <3>3
      <4> QED
        BY <2>2, <2>3, <4>1, <4>2 DEF OrderedBut
    <3>4. CASE j # m /\ j # i /\ j \div 2 # i
      <4>1. b[j] = a[j] /\ b[j \div 2] = a[j \div 2]
        BY <1>2, <2>4, <2>5, <3>4
      <4> QED
        BY <2>2, <3>4, <4>1 DEF OrderedBut
    <3> QED
      BY <3>1, <3>2, <3>3, <3>4
  <2>6. ASSUME NEW j \in 2..Len(a), j \div 2 = m PROVE p[b[j]] <= p[b[m \div 2]]
    <3>1. j # m /\ j # i /\ j \div 2 # i
      BY <1>0, <1>2, <2>3, <2>6
    <3>2. b[j] = a[j] /\ b[m \div 2] = a[m]
      BY <1>2, <2>3, <2>4, <3>1
    <3> QED
      BY <2>2, <2>6, <3>1, <3>2 DEF OrderedBut
  <2>7. OrderedBut(b, m, p)
    BY <1>2, <2>5, <2>6 DEF OrderedBut
  <2> QED
    BY <1>2, <2>3, <2>7 DEF a, b, i, m
<1> QED
  <2> HIDE DEF a, b, i, m
  <2>1. (m = i /\ Sink(s, p) = s) \/ (/\ m # i /\ m \in {2 * i, 2 * i + 1} /\ m \in 1..Len(a)
           /\ i \in 1..Len(a) /\ Sink(s, p).i = m /\ Len(b) = Len(a)
           /\ \A j \in 1..Len(a) :
                b[j] = IF j = m THEN a[i] ELSE IF j = i THEN a[m] ELSE a[j])
    BY SinkArray DEF a, b, i, m
  <2> QED
    BY <1>1, <1>2, <2>1

(* heap_heapify, down from a place that may be out of order, restores it:  *)
(* by the call whose number is the length of the array it has stopped or   *)
(* has reached a place without children.                                   *)
LEMMA HeapifyOrders ==
    ASSUME NEW D, NEW A, NEW E, NEW h, NEW i \in Nat \ {0}, NEW p, Weighs(D, p),
           Indexed(h, D, A, E), OrderedBut(h.array, i, p)
    PROVE  Ordered(Heapify(h, i, p).array, p)
<1> DEFINE n == Len(h.array)
           S == {t \in Walk(D) : /\ Indexed(t.h, D, A, E) /\ Len(t.h.array) = n
                                 /\ OrderedBut(t.h.array, t.i, p)}
           s0 == [h |-> h, i |-> i]
           step == [t \in S |-> Sink(t, p)]
           P(g) == g = [k \in Nat |-> IF k = 0 THEN s0 ELSE Sink(g[k-1], p)]
           after == CHOOSE g : P(g)
           Stopped(t) == Ordered(t.h.array, p) /\ Sink(t, p) = t
<1>0. n \in Nat /\ h \in HeapType(D)
  BY HeapTyped DEF Indexed
<1>1. s0 \in S
  BY DEF Indexed, Walk
<1>2. \A t \in S : Sink(t, p) \in S /\ (Stopped(t) \/ Sink(t, p).i > t.i)
  <2> TAKE t \in S
  <2>1. t \in Walk(D) /\ Indexed(t.h, D, A, E) /\ Len(t.h.array) = n
        /\ OrderedBut(t.h.array, t.i, p)
    OBVIOUS
  <2>2. Sink(t, p) \in Walk(D) /\ Indexed(Sink(t, p).h, D, A, E)
    BY <2>1, SinkKeeps
  <2>3. /\ OrderedBut(Sink(t, p).h.array, Sink(t, p).i, p)
        /\ Stopped(t) \/ Sink(t, p).i > t.i
    BY <2>1, SinkOrders
  <2>4. Len(Sink(t, p).h.array) = n
    BY <2>1, SinkArray
  <2> QED
    BY <2>2, <2>3, <2>4
<1>3. \A t \in S : t.i \in Nat /\ OrderedBut(t.h.array, t.i, p) /\ Len(t.h.array) = n
  BY DEF Walk
<1>s. s0.i = i
  OBVIOUS
<1> HIDE DEF S, s0, n
<1>4. step \in [S -> S]
  BY <1>2
<1>5. PICK g \in [Nat -> S] :
        g = [k \in Nat |-> IF k = 0 THEN s0 ELSE step[g[k-1]]]
  <2> HIDE DEF step, P, after, Stopped
  <2>1. Iterated(S, s0, step)
    BY <1>1, <1>4, Iterates
  <2> QED
    BY <2>1 DEF Iterated
<1>6. P(g)
  <2>1. \A k \in Nat : k # 0 => k - 1 \in Nat /\ g[k-1] \in S
    OBVIOUS
  <2>2. \A t \in S : step[t] = Sink(t, p)
    OBVIOUS
  <2>3. \A k \in Nat : k # 0 => step[g[k-1]] = Sink(g[k-1], p)
    <3> HIDE DEF step
    <3> QED BY <2>1, <2>2
  <2> QED
    BY <1>5, <2>3
<1>7. P(after)
  <2> HIDE DEF P
  <2> QED
    BY <1>6
<1>8. after[0] = s0 /\ \A k \in Nat : after[k+1] = Sink(after[k], p)
  <2> HIDE DEF after
  <2> QED
    BY <1>7
<1> DEFINE T == {k \in Nat : after[k] \in S
                            /\ (Stopped(after[k]) \/ after[k].i >= k + 1)}
<1>9. Nat \subseteq T
  <2> HIDE DEF after, Stopped
  <2>1. 0 \in T
    BY <1>1, <1>s, <1>8
  <2>2. ASSUME NEW k \in Nat, k \in T PROVE k + 1 \in T
    <3> DEFINE t == after[k]
               u == after[k+1]
    <3>1. t \in S /\ (Stopped(t) \/ t.i >= k + 1) /\ u = Sink(t, p)
      BY <1>8, <2>2
    <3>2. u \in S /\ (Stopped(t) \/ u.i > t.i) /\ t.i \in Nat /\ u.i \in Nat
      BY <1>2, <1>3, <3>1
    <3>3. CASE Stopped(t)
      <4>1. u = t
        BY <3>1, <3>3 DEF Stopped
      <4> QED
        BY <3>2, <3>3, <4>1
    <3>4. CASE ~Stopped(t)
      <4> HIDE DEF t, u
      <4>1. u.i >= (k + 1) + 1
        BY <3>1, <3>2, <3>4
      <4> QED
        BY <3>2, <4>1 DEF u
    <3> QED
      BY <3>3, <3>4
  <2> HIDE DEF T
  <2> QED
    BY <2>1, <2>2, SetInduction
<1> DEFINE t == after[n]
<1>10. t \in S /\ (Stopped(t) \/ t.i >= n + 1)
  BY <1>0, <1>9
<1>11. Heapify(h, i, p) = t.h
  BY DEF Heapify, after, s0, n
<1> HIDE DEF t, T, after, P
<1>12. CASE Stopped(t)
  BY <1>11, <1>12
<1>13. CASE t.i >= n + 1
  <2> DEFINE a == t.h.array
  <2>1. t.i \in Nat /\ OrderedBut(a, t.i, p) /\ Len(a) = n
    BY <1>3, <1>10
  <2>2. \A j \in 2..n : j \div 2 # t.i
    BY <1>0, <1>13, <2>1
  <2>3. Ordered(a, p)
    BY <2>1, <2>2 DEF OrderedBut, Ordered
  <2> QED
    BY <1>11, <2>3
<1> QED
  BY <1>10, <1>12, <1>13

(* cc_heap_extract_top puts a last element on top, and nothing else out of *)
(* order.                                                                  *)
LEMMA ExtractTopOrders ==
    ASSUME NEW D, NEW A, NEW h, NEW p, Weighs(D, p), Indexed(h, D, A, {}),
           h.array # <<>>, Ordered(h.array, p)
    PROVE  Ordered(HeapExtractTop(h, p).array, p)
<1> DEFINE a == h.array
           x == a[1]
           l == MoveLast(h, 1)
           k == Forget(l, x)
           n == Len(a)
<1>1. h \in HeapType(D) /\ a \in Seq(D) /\ n \in Nat \ {0} /\ 1 \in 1..n
      /\ DOMAIN a = 1..n
  BY HeapTyped DEF Indexed
<1>2. x \in A /\ h.hash[x] = 1
  BY <1>1 DEF Indexed, ToSet
<1>3. Indexed(l, D, A \ {x}, {x})
  <2> HIDE DEF x, l
  <2>1. Indexed(MoveLast(h, h.hash[x]), D, A \ {x}, {x})
    BY <1>2, MoveLastKeeps
  <2> QED
    BY <1>2, <2>1 DEF l
<1>4. Indexed(k, D, A \ {x}, {})
  <2> HIDE DEF x, l
  <2> QED
    BY <1>3, ForgetKeeps
<1>5. k.array = l.array
  BY DEF Forget
<1>6. Len(l.array) = n - 1 /\ \A j \in 2..(n-1) : l.array[j] = a[j]
  <2> DEFINE f == Front(a)
             z == Last(a)
  <2>1. f \in Seq(D) /\ Len(f) = n - 1 /\ DOMAIN f = 1..(n-1)
        /\ \A j \in 1..(n-1) : f[j] = a[j]
    BY <1>1 DEF Front
  <2>2. l.array = IF 1 \in DOMAIN f THEN [f EXCEPT ![1] = z] ELSE f
    BY DEF MoveLast
  <2> HIDE DEF f, z, l, a, n
  <2>3. z \in D
    BY <1>1 DEF z, Last, n
  <2> QED
    BY <1>1, <2>1, <2>2, <2>3
<1> HIDE DEF l, k, n, x
<1>7. OrderedBut(l.array, 1, p)
  <2>1. ASSUME NEW j \in 2..Len(l.array), j \div 2 # 1
        PROVE  p[l.array[j]] <= p[l.array[j \div 2]]
    <3>1. j \in 2..(n-1) /\ j \div 2 \in 2..(n-1) /\ j \in 2..n
      BY <1>1, <1>6, <2>1
    <3> QED
      BY <1>6, <3>1 DEF Ordered, n
  <2> QED
    BY <2>1 DEF OrderedBut
<1> QED
  BY <1>4, <1>5, <1>7, HeapifyOrders DEF HeapExtractTop, k, l, x

(* The array is in order where there is an element, and x would be in      *)
(* order with what is below the room at t.i, as the parent of it is.       *)
Raised(t, x, p) ==
    LET a == t.h.array
        i == t.i
    IN  /\ \A j \in 2..Len(a) : j # i /\ j \div 2 # i => p[a[j]] <= p[a[j \div 2]]
        /\ \A j \in 2..Len(a) : j \div 2 = i =>
             p[a[j]] <= p[x] /\ (i > 1 => p[a[j]] <= p[a[i \div 2]])

(* x may stay where the room is.                                           *)
RiseEnds(t, x, p) == t.i = 1 \/ p[x] <= p[t.h.array[t.i \div 2]]

(* The loop of cc_heap_add goes on, up and in order, until x may stay.     *)
LEMMA RiseOrders ==
    ASSUME NEW D, NEW A \in SUBSET D, NEW n \in Nat, NEW x \in D, NEW p, NEW t,
           Weighs(D, p), Room(t, D, A, n), Raised(t, x, p)
    PROVE  /\ Raised(Rise(t, x, p), x, p)
           /\ (RiseEnds(t, x, p) /\ Rise(t, x, p) = t) \/ Rise(t, x, p).i < t.i
<1> DEFINE h == t.h
           i == t.i
           a == h.array
           k == i \div 2
           y == a[k]
<1>1. /\ h \in HeapType(D) /\ Len(a) = n /\ i \in 1..n
      /\ \A j \in 1..n : a[j] \in D /\ p[a[j]] \in Int
      /\ p[x] \in Int
  BY HeapTyped DEF Room, Walk, Weighs
<1>2. CASE ~(i > 1 /\ p[x] > p[y])
  <2>1. Rise(t, x, p) = t
    BY <1>2 DEF Rise
  <2>2. RiseEnds(t, x, p)
    <3>1. i = 1 \/ k \in 1..n
      BY <1>1
    <3> QED
      BY <1>1, <1>2, <3>1 DEF RiseEnds
  <2> QED
    BY <2>1, <2>2
<1>3. CASE i > 1 /\ p[x] > p[y]
  <2> DEFINE l == Put(h, i, y)
             b == l.array
  <2>1. Rise(t, x, p) = [h |-> l, i |-> k]
    BY <1>3 DEF Rise
  <2>2. k \in 1..n /\ k < i
    BY <1>1, <1>3
  <2>3. Len(b) = n /\ \A j \in 1..n : b[j] = IF j = i THEN y ELSE a[j]
    <3>1. h \in HeapType(D) /\ i \in 1..Len(h.array) /\ y \in D
      BY <1>1, <2>2
    <3> HIDE DEF h, i, y
    <3>2. /\ Len(Put(h, i, y).array) = Len(h.array)
          /\ \A j \in 1..Len(h.array) :
               Put(h, i, y).array[j] = IF j = i THEN y ELSE h.array[j]
      BY <3>1, PutFacts
    <3> QED
      BY <1>1, <3>2
  <2>4. /\ \A j \in 2..n : j # i /\ j \div 2 # i => p[a[j]] <= p[a[j \div 2]]
        /\ \A j \in 2..n : j \div 2 = i => p[a[j]] <= p[a[k]]
    BY <1>1, <1>3 DEF Raised
  <2> HIDE DEF l, b, k, a, h, i
  <2>5. p[y] <= p[x] /\ b[i] = y /\ i # k /\ i \in 2..n /\ i \div 2 = k
    BY <1>1, <1>3, <2>2, <2>3 DEF k
  <2>6. ASSUME NEW j \in 2..n, j # k, j \div 2 # k PROVE p[b[j]] <= p[b[j \div 2]]
    <3>1. j # i /\ j \in 1..n /\ j \div 2 \in 1..n /\ b[j] = a[j]
      BY <2>3, <2>5, <2>6
    <3>2. CASE j \div 2 = i
      BY <2>4, <2>5, <3>1, <3>2 DEF y
    <3>3. CASE j \div 2 # i
      <4>1. b[j \div 2] = a[j \div 2]
        BY <2>3, <3>1, <3>3
      <4> QED
        BY <2>4, <3>1, <3>3, <4>1
    <3> QED
      BY <3>2, <3>3
  <2>7. ASSUME NEW j \in 2..n, j \div 2 = k PROVE p[b[j]] <= p[y] /\ p[b[j]] \in Int
    <3>1. CASE j = i
      BY <1>1, <2>2, <2>5, <3>1 DEF y
    <3>2. CASE j # i
      <4>1. b[j] = a[j] /\ j \in 1..n /\ j \div 2 # i
        BY <2>3, <2>5, <2>7, <3>2
      <4> QED
        BY <1>1, <2>4, <2>7, <3>2, <4>1 DEF y
    <3> QED
      BY <3>1, <3>2
  <2>8. ASSUME k > 1 PROVE p[y] <= p[b[k \div 2]] /\ p[b[k \div 2]] \in Int
    <3>1. k \in 2..n /\ k \div 2 \in 1..n /\ k \div 2 # i /\ k # i
      BY <1>1, <2>2, <2>8
    <3>2. b[k \div 2] = a[k \div 2]
      BY <2>3, <3>1
    <3> QED
      BY <1>1, <2>4, <3>1, <3>2 DEF y
  <2>9. p[y] \in Int
    BY <1>1, <2>2 DEF y
  <2>10. ASSUME NEW j \in 2..n, j \div 2 = k
         PROVE  p[b[j]] <= p[x] /\ (k > 1 => p[b[j]] <= p[b[k \div 2]])
    BY <1>1, <2>5, <2>7, <2>8, <2>9, <2>10
  <2>11. Rise(t, x, p).h.array = b /\ Rise(t, x, p).i = k
    BY <2>1 DEF b
  <2>12. Raised(Rise(t, x, p), x, p)
    BY <2>3, <2>6, <2>10, <2>11 DEF Raised
  <2> QED
    BY <2>2, <2>11, <2>12 DEF i
<1> QED
  BY <1>2, <1>3

(* x put into the room that is left. *)
LEMMA PutOrders ==
    ASSUME NEW D, NEW A \in SUBSET D, NEW n \in Nat, NEW x \in D, NEW p, NEW t,
           Weighs(D, p), Room(t, D, A, n), Raised(t, x, p), RiseEnds(t, x, p)
    PROVE  Ordered(Put(t.h, t.i, x).array, p)
<1> DEFINE h == t.h
           i == t.i
           a == h.array
           b == Put(h, i, x).array
<1>1. h \in HeapType(D) /\ Len(a) = n /\ i \in 1..n
  BY DEF Room, Walk
<1>2. Len(b) = n /\ \A j \in 1..n : b[j] = IF j = i THEN x ELSE a[j]
  <2> HIDE DEF h, i
  <2> QED
    BY <1>1, PutFacts
<1>3. /\ \A j \in 2..n : j # i /\ j \div 2 # i => p[a[j]] <= p[a[j \div 2]]
      /\ \A j \in 2..n : j \div 2 = i => p[a[j]] <= p[x]
      /\ i = 1 \/ p[x] <= p[a[i \div 2]]
  BY <1>1 DEF Raised, RiseEnds
<1> HIDE DEF h, i, a, b
<1>4. ASSUME NEW j \in 2..n PROVE p[b[j]] <= p[b[j \div 2]]
  <2>1. j \in 1..n /\ j \div 2 \in 1..n /\ j # j \div 2 /\ j # 1
    BY <1>1
  <2>2. CASE j = i
    <3>1. b[j] = x /\ b[j \div 2] = a[i \div 2]
      BY <1>2, <2>1, <2>2
    <3> QED
      BY <1>3, <2>1, <2>2, <3>1
  <2>3. CASE j \div 2 = i
    <3>1. b[j] = a[j] /\ b[j \div 2] = x
      BY <1>2, <2>1, <2>3
    <3> QED
      BY <1>3, <2>3, <3>1
  <2>4. CASE j # i /\ j \div 2 # i
    <3>1. b[j] = a[j] /\ b[j \div 2] = a[j \div 2]
      BY <1>2, <2>1, <2>4
    <3> QED
      BY <1>3, <2>4, <3>1
  <2> QED
    BY <2>2, <2>3, <2>4
<1> QED
  BY <1>2, <1>4 DEF Ordered, b, h, i

(* cc_heap_add puts an element where it is in order: by the turn of the    *)
(* loop whose number is the length of the array it may stay, or is on top. *)
LEMMA HeapAddOrders ==
    ASSUME NEW D, NEW A, NEW h, NEW x \in D \ A, NEW p, Weighs(D, p),
           Indexed(h, D, A, {}), Ordered(h.array, p)
    PROVE  Ordered(HeapAdd(h, x, p).array, p)
<1> DEFINE n == Len(h.array) + 1
           S == {t \in Walk(D) : Room(t, D, A, n) /\ Raised(t, x, p)}
           s0 == [h |-> [array |-> Append(h.array, x), hash |-> h.hash], i |-> n]
           step == [t \in S |-> Rise(t, x, p)]
           P(g) == g = [m \in Nat |-> IF m = 0 THEN s0 ELSE Rise(g[m-1], x, p)]
           after == CHOOSE g : P(g)
           Stopped(t) == RiseEnds(t, x, p) /\ Rise(t, x, p) = t
<1>0. h.array \in Seq(D) /\ n \in Nat /\ n - 1 = Len(h.array) /\ n - 1 \in Nat
      /\ A \in SUBSET D
  BY HeapTyped DEF Indexed, ToSet
<1>1. Room(s0, D, A, n)
  <2>1. Room(Bottom(h, x), D, A, n) /\ s0 = Bottom(h, x)
    BY BottomRoom DEF Bottom
  <2> HIDE DEF n, s0
  <2> QED
    BY <2>1
<1>2. Raised(s0, x, p) /\ s0.i = n
  <2> DEFINE a == Append(h.array, x)
  <2>1. Len(a) = n /\ \A j \in 1..(n-1) : a[j] = h.array[j]
    BY <1>0
  <2>2. s0.h.array = a /\ s0.i = n
    OBVIOUS
  <2>3. \A j \in 2..n : j # n => p[h.array[j]] <= p[h.array[j \div 2]]
    BY <1>0 DEF Ordered
  <2> HIDE DEF a, s0, n
  <2>4. \A j \in 2..n : j \div 2 # n /\ j \div 2 \in 1..(n-1)
                       /\ (j # n => j \in 1..(n-1))
    BY <1>0
  <2> QED
    BY <2>1, <2>2, <2>3, <2>4 DEF Raised
<1>3. s0 \in S
  BY <1>1, <1>2 DEF Room
<1>4. \A t \in S : Rise(t, x, p) \in S /\ (Stopped(t) \/ Rise(t, x, p).i < t.i)
  <2> TAKE t \in S
  <2> HIDE DEF n
  <2>1. Room(t, D, A, n) /\ Raised(t, x, p)
    OBVIOUS
  <2>2. Room(Rise(t, x, p), D, A, n)
    BY <1>0, <2>1, RiseKeeps
  <2>3. /\ Raised(Rise(t, x, p), x, p)
        /\ Stopped(t) \/ Rise(t, x, p).i < t.i
    BY <1>0, <2>1, RiseOrders
  <2> QED
    BY <2>2, <2>3 DEF Room
<1>5. \A t \in S : Room(t, D, A, n) /\ Raised(t, x, p) /\ t.i \in 1..n
  BY DEF Room
<1> HIDE DEF S, s0, n
<1>6. step \in [S -> S]
  BY <1>4
<1>7. PICK g \in [Nat -> S] :
        g = [m \in Nat |-> IF m = 0 THEN s0 ELSE step[g[m-1]]]
  <2> HIDE DEF step, P, after, Stopped
  <2>1. Iterated(S, s0, step)
    BY <1>3, <1>6, Iterates
  <2> QED
    BY <2>1 DEF Iterated
<1>8. P(g)
  <2>1. \A m \in Nat : m # 0 => m - 1 \in Nat /\ g[m-1] \in S
    OBVIOUS
  <2>2. \A t \in S : step[t] = Rise(t, x, p)
    OBVIOUS
  <2>3. \A m \in Nat : m # 0 => step[g[m-1]] = Rise(g[m-1], x, p)
    <3> HIDE DEF step
    <3> QED BY <2>1, <2>2
  <2> QED
    BY <1>7, <2>3
<1>9. P(after)
  <2> HIDE DEF P
  <2> QED
    BY <1>8
<1>10. after[0] = s0 /\ \A m \in Nat : after[m+1] = Rise(after[m], x, p)
  <2> HIDE DEF after
  <2> QED
    BY <1>9
<1> DEFINE T == {m \in Nat : after[m] \in S
                            /\ (Stopped(after[m]) \/ after[m].i <= n - m)}
<1>11. Nat \subseteq T
  <2> HIDE DEF after, Stopped
  <2>1. 0 \in T
    BY <1>0, <1>2, <1>3, <1>10
  <2>2. ASSUME NEW m \in Nat, m \in T PROVE m + 1 \in T
    <3> DEFINE t == after[m]
               u == after[m+1]
    <3>1. t \in S /\ (Stopped(t) \/ t.i <= n - m) /\ u = Rise(t, x, p)
      BY <1>10, <2>2
    <3>2. u \in S /\ (Stopped(t) \/ u.i < t.i) /\ t.i \in 1..n /\ u.i \in 1..n
      BY <1>4, <1>5, <3>1
    <3>3. CASE Stopped(t)
      <4>1. u = t
        BY <3>1, <3>3 DEF Stopped
      <4> QED
        BY <3>2, <3>3, <4>1
    <3>4. CASE ~Stopped(t)
      <4> HIDE DEF t, u
      <4>1. u.i <= n - (m + 1)
        BY <1>0, <3>1, <3>2, <3>4
      <4> QED
        BY <3>2, <4>1 DEF u
    <3> QED
      BY <3>3, <3>4
  <2> HIDE DEF T
  <2> QED
    BY <2>1, <2>2, SetInduction
<1> DEFINE t == after[n - 1]
<1>12. t \in S /\ (Stopped(t) \/ t.i <= n - (n - 1))
  BY <1>0, <1>11
<1>13. HeapAdd(h, x, p) = Put(t.h, t.i, x)
  BY <1>0 DEF HeapAdd, after, s0, n
<1> HIDE DEF t, T, after, P
<1>14. RiseEnds(t, x, p)
  BY <1>0, <1>5, <1>12 DEF RiseEnds
<1> QED
  BY <1>0, <1>5, <1>12, <1>13, <1>14, PutOrders

(* cc_heap_remove keeps the order of up to five elements: the last one is  *)
(* not larger than the parent of the place that it takes.                  *)
LEMMA HeapRemoveOrders ==
    ASSUME NEW D, NEW A, NEW h, NEW p, Weighs(D, p), Indexed(h, D, A, {}),
           NEW x \in A, Ordered(h.array, p), Len(h.array) <= 5
    PROVE  Ordered(HeapRemove(h, x, p).array, p)
<1> DEFINE a == h.array
           i == h.hash[x]
           l == MoveLast(h, i)
           b == l.array
           n == Len(a)
<1>1. /\ h \in HeapType(D) /\ a \in Seq(D) /\ n \in Nat /\ DOMAIN a = 1..n
      /\ x \in DOMAIN h.hash /\ i \in 1..n
      /\ \A j \in 1..n : p[a[j]] \in Int
  BY HeapTyped, MoveLastKeeps DEF Indexed, Weighs
<1>2. Indexed(l, D, A \ {x}, {x})
  BY MoveLastKeeps
<1>3. Len(b) = n - 1 /\ \A j \in 1..(n-1) : b[j] = IF j = i THEN a[n] ELSE a[j]
  <2> DEFINE f == Front(a)
             z == Last(a)
  <2>1. f \in Seq(D) /\ Len(f) = n - 1 /\ DOMAIN f = 1..(n-1)
        /\ \A j \in 1..(n-1) : f[j] = a[j]
    BY <1>1 DEF Front
  <2>2. b = IF i \in DOMAIN f THEN [f EXCEPT ![i] = z] ELSE f
    BY DEF MoveLast
  <2>3. z = a[n] /\ z \in D
    BY <1>1 DEF Last
  <2> HIDE DEF f, z, b, a, n, i
  <2> QED
    BY <1>1, <2>1, <2>2, <2>3
<1>4. \A j \in 2..n : p[a[j]] <= p[a[j \div 2]]
  BY DEF Ordered
<1>5. \A j \in 1..n : p[a[j]] <= p[a[1]]
  BY <1>1, OrderedTop
<1>6. n <= 5
  OBVIOUS
<1> HIDE DEF a, b, l, n, i
<1>7. OrderedBut(b, i, p)
  <2>1. ASSUME NEW j \in 2..(n-1), j \div 2 # i PROVE p[b[j]] <= p[b[j \div 2]]
    <3>1. j \in 2..n /\ j \in 1..n /\ n \in 1..n /\ n \in 2..n
          /\ j \div 2 \in 1..(n-1)
      BY <1>1
    <3>2. b[j \div 2] = a[j \div 2]
      BY <1>3, <2>1, <3>1
    <3>3. CASE j = i
      <4>1. b[j] = a[n]
        BY <1>3, <3>3
      <4>2. j \div 2 = 1 \/ j \div 2 = n \div 2
        BY <1>1, <1>6
      <4> QED
        BY <1>4, <1>5, <3>1, <3>2, <4>1, <4>2
    <3>4. CASE j # i
      BY <1>3, <1>4, <3>1, <3>2, <3>4
    <3> QED
      BY <3>3, <3>4
  <2>2. ASSUME NEW j \in 2..(n-1), j \div 2 = i, i > 1
        PROVE  p[b[j]] <= p[b[i \div 2]]
    <3>1. j \in 2..n /\ i \in 2..n /\ i \div 2 \in 1..(n-1) /\ j # i
          /\ i \div 2 # i /\ i \div 2 \in 1..n /\ j \in 1..n /\ i \in 1..n
      BY <1>1, <2>2
    <3>2. b[j] = a[j] /\ b[i \div 2] = a[i \div 2]
      BY <1>3, <3>1
    <3>3. p[a[j]] <= p[a[i]] /\ p[a[i]] <= p[a[i \div 2]]
      BY <1>4, <2>2, <3>1
    <3> QED
      BY <1>1, <3>1, <3>2, <3>3
  <2> QED
    BY <1>3, <2>1, <2>2 DEF OrderedBut
<1>8. Ordered(Heapify(l, i, p).array, p)
  <2>1. i \in Nat \ {0}
    BY <1>1
  <2> QED
    BY <1>2, <1>7, <2>1, HeapifyOrders DEF b
<1>9. HeapRemove(h, x, p).array = Heapify(l, i, p).array
  BY <1>1 DEF HeapRemove, Forget, l, i
<1> QED
  BY <1>8, <1>9

(* The order is that of the priorities of the elements of the array.       *)
LEMMA OrderedSame ==
    ASSUME NEW D, NEW A, NEW E, NEW h, Indexed(h, D, A, E), NEW p, NEW q,
           Ordered(h.array, p), \A x \in A : q[x] = p[x]
    PROVE  Ordered(h.array, q)
<1>1. /\ Len(h.array) \in Nat
      /\ \A j \in 1..Len(h.array) : h.array[j] \in A
  BY HeapTyped DEF Indexed, ToSet
<1>2. \A j \in 2..Len(h.array) : j \in 1..Len(h.array)
                               /\ j \div 2 \in 1..Len(h.array)
  BY <1>1
<1> QED
  BY <1>1, <1>2 DEF Ordered

-----------------------------------------------------------------------------
(* cc_heap_remove need not keep the order of more than five elements, so   *)
(* its two callers take one from so many in no behaviour of this.          *)
Removal ==
    \E c \in Clients, j \in Ids :
        Unschedule(c, j) \/ \E p \in Prios : ChangePriority(c, j, p)
Few == Len(heap.array) <= 5
InOrderSpec == Init /\ [][Next /\ (Removal => Few)]_vars

HeapInOrder == Ordered(heap.array, Priority)

(* Items have numbers as priorities. *)
LEMMA PriorityWeighs == CellsOK => Weighs(Cells, Priority)
<1> SUFFICES ASSUME CellsOK PROVE Weighs(Cells, Priority)
  OBVIOUS
<1>1. items \in [Cells -> [id : Ids \union {0}, prio : Prios \union {0}]]
  BY DEF CellsOK, IdsOK
<1>2. \A x \in Cells : items[x].prio \in Prios \union {0}
  BY <1>1
<1>3. Prios \union {0} \subseteq Int
  BY SchedAssumption
<1> QED
  BY <1>2, <1>3 DEF Weighs, Priority

(* cc_sched_schedule adds the item in order.                               *)
LEMMA ScheduleOrders ==
    ASSUME CellsOK, HeapInOrder, NEW c \in Clients, NEW p \in Prios, Schedule(c, p)
    PROVE  HeapInOrder'
<1> DEFINE x == Head(freelist)
           q == [Priority EXCEPT ![x] = p]
<1>1. /\ items' = [items EXCEPT ![x] = [id |-> schedid_counter, prio |-> p]]
      /\ heap' = HeapAdd(heap, x, q)
  BY DEF Schedule
<1>2. x \in Cells \ Queued
  BY ScheduleCells
<1>3. items \in [Cells -> [id : Ids \union {0}, prio : Prios \union {0}]]
      /\ Queued \subseteq Cells /\ Indexed(heap, Cells, Queued, {})
  BY IdsInUse DEF CellsOK, IdsOK
<1> HIDE DEF x
<1>4. /\ \A y \in Cells : q[y] = IF y = x THEN p ELSE Priority[y]
      /\ Priority' = q
  BY <1>1, <1>2, <1>3 DEF Priority
<1>5. Weighs(Cells, q)
  BY <1>4, PriorityWeighs, SchedAssumption DEF Weighs
<1> HIDE DEF q
<1>6. Ordered(heap.array, q)
  BY <1>2, <1>3, <1>4, OrderedSame DEF HeapInOrder
<1>7. Ordered(heap'.array, q)
  BY <1>1, <1>2, <1>3, <1>5, <1>6, HeapAddOrders
<1> QED
  BY <1>4, <1>7 DEF HeapInOrder

(* A worker takes the first item and leaves the others in order.           *)
LEMMA TakeOrders ==
    ASSUME CellsOK, CellsOK', HeapInOrder, NEW w, NEW n, TakeNext(w, n),
           Queued' \subseteq Queued, \A x \in Queued : items'[x] = items[x]
    PROVE  HeapInOrder'
<1>1. Ordered(heap'.array, Priority)
  <2>1. CASE heap' = heap
    BY <2>1 DEF HeapInOrder
  <2>2. CASE heap.array # <<>> /\ heap' = HeapExtractTop(heap, Priority)
    BY <2>2, PriorityWeighs, ExtractTopOrders DEF HeapInOrder, CellsOK
  <2> QED
    BY <2>1, <2>2 DEF TakeNext, Empty
<1>2. \A x \in Queued' : Priority'[x] = Priority[x]
  BY IdsInUse DEF Priority
<1>3. Indexed(heap', Cells, Queued', {})
  BY DEF CellsOK
<1> QED
  BY <1>1, <1>2, <1>3, OrderedSame DEF HeapInOrder

(* cc_sched_unschedule takes an item from a few and leaves the others in   *)
(* order.                                                                  *)
LEMMA UnscheduleOrders ==
    ASSUME CellsOK, HeapInOrder, Few, NEW c \in Clients, NEW j \in Ids,
           Unschedule(c, j)
    PROVE  HeapInOrder'
<1>1. PICK x \in Cell(j) : heap' = HeapRemove(heap, x, Priority) /\ SetPriority(x, 0)
  BY DEF Unschedule
<1>2. x \in Queued /\ Queued \subseteq Cells /\ Indexed(heap, Cells, Queued, {})
  BY IdsInUse DEF Cell, CellsOK
<1>3. Ordered(heap'.array, Priority)
  BY <1>1, <1>2, PriorityWeighs, HeapRemoveOrders DEF HeapInOrder, Few
<1>4. Indexed(heap', Cells, Queued \ {x}, {})
  BY <1>1, <1>2, HeapRemoveKeeps
<1>5. \A y \in Queued \ {x} : Priority'[y] = Priority[y]
  <2>1. items \in [Cells -> [id : Ids \union {0}, prio : Prios \union {0}]]
    BY DEF CellsOK, IdsOK
  <2> QED
    BY <1>1, <1>2, <2>1 DEF SetPriority, Priority
<1> QED
  BY <1>3, <1>4, <1>5, OrderedSame DEF HeapInOrder

(* And cc_sched_change_priority adds it again in order.                    *)
LEMMA ChangePriorityOrders ==
    ASSUME CellsOK, HeapInOrder, Few, NEW c \in Clients, NEW j \in Ids,
           NEW p \in Prios, ChangePriority(c, j, p)
    PROVE  HeapInOrder'
<1>1. PICK x \in Cell(j) :
        /\ SetPriority(x, p)
        /\ heap' = HeapAdd(HeapRemove(heap, x, Priority), x, [Priority EXCEPT ![x] = p])
  BY DEF ChangePriority
<1> DEFINE q == [Priority EXCEPT ![x] = p]
           g == HeapRemove(heap, x, Priority)
<1>2. x \in Queued /\ x \in Cells /\ Indexed(heap, Cells, Queued, {})
  BY IdsInUse DEF Cell, CellsOK
<1>3. Ordered(g.array, Priority)
  BY <1>2, PriorityWeighs, HeapRemoveOrders DEF HeapInOrder, Few
<1>4. Indexed(g, Cells, Queued \ {x}, {})
  BY <1>2, HeapRemoveKeeps
<1>5. /\ \A y \in Cells : q[y] = IF y = x THEN p ELSE Priority[y]
      /\ Priority' = q /\ Queued \subseteq Cells
  <2>1. items \in [Cells -> [id : Ids \union {0}, prio : Prios \union {0}]]
    BY DEF CellsOK, IdsOK
  <2> QED
    BY <1>1, <1>2, <2>1, IdsInUse DEF SetPriority, Priority
<1>6. Weighs(Cells, q)
  BY <1>5, PriorityWeighs, SchedAssumption DEF Weighs
<1>7. heap' = HeapAdd(g, x, q)
  BY <1>1
<1> HIDE DEF q, g
<1>8. Ordered(g.array, q)
  BY <1>3, <1>4, <1>5, OrderedSame
<1>9. Ordered(heap'.array, q)
  BY <1>2, <1>4, <1>6, <1>7, <1>8, HeapAddOrders
<1> QED
  BY <1>5, <1>9 DEF HeapInOrder

(* Every step keeps the order, but for a removal from many items.          *)
LEMMA OrderKept ==
    ASSUME SchedInv, CellsOK, HeapInOrder, [Next /\ (Removal => Few)]_vars
    PROVE  HeapInOrder'
<1>1. PoolTypeOK /\ CellsOK'
  BY CellsKept DEF SchedInv, PoolInv
<1>2. CASE UNCHANGED <<heap, items>>
  BY <1>2 DEF HeapInOrder, Priority
<1>3. ASSUME NEW w \in Workers, Worker(w)
      PROVE  HeapInOrder'
  <2>1. CASE Enter(w)
    <3>1. TakeNext(w, numallowed) /\ items' = items
      BY <2>1 DEF Enter
    <3>2. Queued' \subseteq Queued
      BY <1>1, <2>1, EnterCells DEF Taking
    <3> QED
      BY <1>1, <3>1, <3>2, TakeOrders
  <2>2. CASE Finish(w)
    <3>1. TakeNext(w, numallowed') /\ SetPriority(item[w], 0)
      BY <2>2 DEF Finish
    <3>2. Queued' \subseteq Queued /\ item[w] \in Held
      BY <1>1, <2>2, FinishCells DEF Taking
    <3>3. \A x \in Queued : items'[x] = items[x]
      BY <3>1, <3>2 DEF SetPriority, CellsOK, IdsOK, PlacesOK
    <3> QED
      BY <1>1, <3>1, <3>2, <3>3, TakeOrders
  <2> QED
    BY <1>2, <1>3, <2>1, <2>2 DEF Worker, schedVars, queue
<1>4. ASSUME NEW c \in Clients, Client(c), Removal => Few
      PROVE  HeapInOrder'
  <2>1. ASSUME NEW p \in Prios, Schedule(c, p)
        PROVE  HeapInOrder'
    BY <2>1, ScheduleOrders
  <2>2. CASE \E j \in Ids : Unschedule(c, j) \/ \E p \in Prios : ChangePriority(c, j, p)
    <3>1. Few
      BY <1>4, <2>2 DEF Removal
    <3> QED
      BY <2>2, <3>1, UnscheduleOrders, ChangePriorityOrders
  <2>3. CASE \/ \E n \in Allowances : SetNumAllowed(c, n)
             \/ WaitAll(c) \/ Destruct(c) \/ Return(c) \/ Trigger(c) \/ Post(c)
             \/ PoolWait(c) \/ Resume(c) \/ Waited(c)
    BY <1>2, <2>3
    DEF SetNumAllowed, WaitAll, Destruct, Return, Trigger, Post, PoolWait, Resume,
        Waited, schedVars, queue
  <2> QED
    BY <1>4, <2>1, <2>2, <2>3 DEF Client, Continue
<1>5. CASE UNCHANGED vars
  BY <1>2, <1>5 DEF vars, schedVars, queue
<1> QED
  BY <1>3, <1>4, <1>5 DEF Next, Terminated

(* No queued job has a higher priority than the first of the heap.         *)
LEMMA TopIsHighest ==
    ASSUME CellsOK, HeapInOrder, heap.array[1] \in Queued,
           NEW k \in Ids, JobState[k] = "queued"
    PROVE  JobPrio[k] <= JobPrio[Top]
<1>1. k \in QueuedIds
  BY StateIs DEF StateOf
<1>2. PICK y \in Queued : items[y].id = k
  BY <1>1 DEF QueuedIds
<1>3. heap.array \in Seq(Cells) /\ \E i \in 1..Len(heap.array) : heap.array[i] = y
  BY HeapTyped DEF CellsOK, Indexed, Queued, ToSet
<1>4. Priority[y] <= Priority[heap.array[1]]
  BY <1>3, PriorityWeighs, OrderedTop DEF HeapInOrder
<1>5. JobPrio[k] = items[y].prio /\ JobPrio[Top] = items[heap.array[1]].prio
  BY <1>2, PrioViewed DEF PrioView, Top
<1>6. y \in Cells /\ heap.array[1] \in Cells
  BY IdsInUse
<1> QED
  BY <1>4, <1>5, <1>6 DEF Priority

(* As long as no job is unscheduled or given another priority while more   *)
(* than five are queued, the scheduler keeps the whole promise of          *)
(* JobQueue: a job is run once, by one of at most as many workers as there *)
(* are, and before those that have a lower priority and waited when it was *)
(* taken.  Six are too many for cc_heap_remove: see the README.            *)
THEOREM SchedRunsInOrder == InOrderSpec => ImplementsJobQueue
<1> DEFINE Inv == SchedInv /\ CellsOK /\ CancelledOK /\ HeapInOrder
<1>1. Init => Inv /\ Promise!Init
  <2> SUFFICES ASSUME Init PROVE Inv /\ Promise!Init
    OBVIOUS
  <2>1. HeapInOrder
    BY DEF Init, HeapInOrder, Ordered, EmptyHeap
  <2> QED
    BY <2>1, SchedInit, CellsInit, JobsInit DEF Unordered!Init, Promise!Init
<1>2. Inv /\ [Next /\ (Removal => Few)]_vars => Inv' /\ [Promise!Next]_<<JobState, JobPrio>>
  <2> SUFFICES ASSUME Inv, [Next /\ (Removal => Few)]_vars
               PROVE  Inv' /\ (Promise!Next \/ JobsUnchanged)
    BY DEF JobsUnchanged
  <2>0. [Next]_vars
    OBVIOUS
  <2>1. SchedInv' /\ CellsOK' /\ CancelledOK' /\ TopStep
    BY <2>0, SchedStep, CellsKept, JobsStep
  <2>2. HeapInOrder'
    BY OrderKept
  <2>3. CASE \/ \E j \in Ids, p \in Prios :
                  Unordered!Schedule(j, p) \/ Unordered!ChangePriority(j, p)
             \/ \E j \in Ids : Unordered!Cancel(j) \/ Unordered!Finish(j)
    <3>1. Promise!Next
      BY <2>3
      DEF Promise!Next, Promise!Schedule, Promise!ChangePriority, Promise!Cancel,
          Promise!Finish, Promise!Move, Unordered!Schedule, Unordered!ChangePriority,
          Unordered!Cancel, Unordered!Finish, Unordered!Move
    <3> QED
      BY <2>1, <2>2, <3>1
  <2>4. CASE /\ heap.array[1] \in Queued
             /\ Unordered!Run(Top) \/ \E j \in Ids : Unordered!RunNext(j, Top)
    <3>1. Top \in Ids
      BY <2>4, IdsInUse DEF QueuedIds, Top
    <3>2. \A k \in Promise!In("queued") : JobPrio[k] <= JobPrio[Top]
      BY <2>4, TopIsHighest DEF Promise!In
    <3>3. CASE Unordered!Run(Top)
      <4>1. Promise!MayRun(Top)
        BY <3>2, <3>3 DEF Unordered!Run, Unordered!MayRun, Promise!MayRun
      <4>2. Promise!Cardinality(Promise!In("running")) < All
        <5>1. Promise!In("running") = Unordered!In("running")
          BY DEF Promise!In, Unordered!In
        <5>2. \A S : Promise!Cardinality(S) = Unordered!Cardinality(S)
          BY DEF Promise!Cardinality, Unordered!Cardinality
        <5> QED
          BY <3>3, <5>1, <5>2 DEF Unordered!Run
      <4>3. Promise!Run(Top)
        BY <3>3, <4>1, <4>2
        DEF Unordered!Run, Unordered!Move, Promise!Run, Promise!Move
      <4> QED
        BY <2>1, <2>2, <3>1, <4>3 DEF Promise!Next
    <3>4. ASSUME NEW j \in Ids, Unordered!RunNext(j, Top)
          PROVE  Promise!Next
      <4>1. Promise!MayRun(Top)
        BY <3>2, <3>4 DEF Unordered!RunNext, Unordered!MayRun, Promise!MayRun
      <4>2. Promise!RunNext(j, Top)
        BY <3>4, <4>1 DEF Unordered!RunNext, Promise!RunNext
      <4> QED
        BY <3>1, <4>2 DEF Promise!Next
    <3> QED
      BY <2>1, <2>2, <2>4, <3>3, <3>4
  <2> QED
    BY <2>1, <2>2, <2>3, <2>4 DEF TopStep
<1> QED
  BY <1>1, <1>2, PTL DEF InOrderSpec, ImplementsJobQueue, Promise!Spec

(* So it always does if no more than five schedids are given out.          *)
THEOREM SchedRunsFiveInOrder ==
    ASSUME MaxJobs <= 5
    PROVE  Spec => ImplementsJobQueue
<1>1. CellsOK => Few
  <2> SUFFICES ASSUME CellsOK PROVE Few
    OBVIOUS
  <2> DEFINE n == Len(heap.array)
             f == [k \in 1..n |-> heap.array[k]]
  <2>1. n \in Nat /\ \A k \in 1..n : heap.array[k] \in Cells /\ heap.hash[f[k]] = k
    <3>1. heap \in HeapType(Cells)
          /\ \A k \in 1..n : heap.hash[heap.array[k]] = k
      BY DEF CellsOK, Indexed
    <3>2. n \in Nat /\ \A k \in 1..n : heap.array[k] \in Cells
      BY <3>1, HeapTyped
    <3> QED
      BY <3>1, <3>2
  <2>2. f \in [1..n -> Cells] /\ \A k, m \in 1..n : f[k] = f[m] => k = m
    BY <2>1
  <2> HIDE DEF f, n
  <2>3. IsFiniteSet(1..n) /\ Cardinality(1..n) = n
    BY <2>1, FS_Interval
  <2>4. IsFiniteSet(Cells) /\ Cardinality(Cells) = MaxJobs /\ MaxJobs \in Nat
    BY SchedAssumption, FS_Interval DEF Cells
  <2>5. ~(n > MaxJobs)
    <3> SUFFICES ASSUME n > MaxJobs PROVE FALSE
      OBVIOUS
    <3>1. Cardinality(Cells) < Cardinality(1..n)
      BY <2>1, <2>3, <2>4
    <3>2. PICK k, m \in 1..n : k # m /\ f[k] = f[m]
      BY <2>2, <2>3, <2>4, <3>1, FS_PigeonHole
    <3> QED
      BY <2>2, <3>2
  <2> QED
    BY <2>1, <2>4, <2>5 DEF Few, n
<1>2. CellsOK /\ [Next]_vars => [Next /\ (Removal => Few)]_vars
  BY <1>1
<1> QED
  BY <1>2, SchedInvariant, CellsInit, CellsKept, SchedRunsInOrder, PTL
  DEF Spec, InOrderSpec
=============================================================================

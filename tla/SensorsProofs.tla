---------------------------- MODULE SensorsProofs ----------------------------
(***************************************************************************)
(* The sensor manager, proved for any sensors, priorities and nesting of   *)
(* callbacks: a sensor is where its scheduled flag says, the delay queue   *)
(* is in order, and it does not wait without a timeout.                    *)
(*                                                                         *)
(* The properties count the places of a sensor; the invariant says instead *)
(* that no queue has one twice and that the queues are disjoint.           *)
(***************************************************************************)
EXTENDS Sensors, FiniteSetTheorems, SequenceTheorems, TLAPS

(* A set of numbers that is not empty has a least element: otherwise the   *)
(* map of each number to its predecessor would take the finite set of the  *)
(* numbers from some element of the set up to k to a smaller one.          *)
LEMMA LeastNumber ==
    ASSUME NEW T, T \subseteq Nat, T # {}
    PROVE  \E n \in T : \A m \in T : n <= m
<1> SUFFICES ASSUME \A n \in T : \E m \in T : m < n
             PROVE  FALSE
  OBVIOUS
<1> PICK k \in T : TRUE
  OBVIOUS
<1> DEFINE U == {m \in 0..k : \E t \in T : t <= m}
           pred == [m \in U |-> m - 1]
<1>1. IsFiniteSet(U) /\ Cardinality(U) \in Nat
  <2>1. k \in Nat /\ U \in SUBSET Nat /\ \A m \in U : m <= k
    OBVIOUS
  <2> HIDE DEF U
  <2>2. IsFiniteSet(U)
    BY <2>1, FS_BoundedSetOfNaturals
  <2> QED
    BY <2>2, FS_CardinalityType
<1>2. k \in U
  OBVIOUS
<1>3. \A m \in U : m - 1 \in U \ {k}
  <2> TAKE m \in U
  <2>1. PICK t \in T : t <= m
    OBVIOUS
  <2>2. PICK s \in T : s < t
    OBVIOUS
  <2> QED
    BY <2>1, <2>2
<1> HIDE DEF U
<1>4. pred \in [U -> U \ {k}]
  BY <1>3
<1> HIDE DEF pred
<1>5. IsFiniteSet(U \ {k}) /\ Cardinality(U \ {k}) = Cardinality(U) - 1
  BY <1>1, <1>2, FS_RemoveElement
<1>6. Cardinality(U \ {k}) < Cardinality(U)
  BY <1>1, <1>5
<1>7. PICK x, y \in U : x # y /\ pred[x] = pred[y]
  BY <1>1, <1>4, <1>5, <1>6, FS_PigeonHole
<1>8. x \in Int /\ y \in Int
  BY DEF U
<1> QED
  BY <1>7, <1>8 DEF pred

(* Min of numbers is the least of them. *)
LEMMA MinIsLeast ==
    ASSUME NEW T, T \subseteq Nat, T # {}
    PROVE  Min(T) \in T /\ \A m \in T : Min(T) <= m
<1>1. \E n \in T : \A m \in T : n =< m
  BY LeastNumber
<1> QED
  BY <1>1 DEF Min

(* The element at k is taken out, what is behind it moves up. *)
LEMMA RemoveAtFacts ==
    ASSUME NEW S, NEW q \in Seq(S), NEW k \in 1..Len(q)
    PROVE  /\ RemoveAt(q, k) \in Seq(S)
           /\ Len(RemoveAt(q, k)) = Len(q) - 1
           /\ \A i \in 1..(Len(q) - 1) :
                RemoveAt(q, k)[i] = IF i < k THEN q[i] ELSE q[i + 1]
<1> DEFINE a == SubSeq(q, 1, k - 1)
           b == SubSeq(q, k + 1, Len(q))
<1>1. /\ a \in Seq(S) /\ Len(a) = k - 1 /\ \A i \in 1..(k-1) : a[i] = q[i]
  OBVIOUS
<1>2. /\ b \in Seq(S) /\ Len(b) = Len(q) - k
      /\ \A i \in 1..(Len(q) - k) : b[i] = q[k + i]
  OBVIOUS
<1> HIDE DEF a, b
<1>3. /\ a \o b \in Seq(S) /\ Len(a \o b) = Len(a) + Len(b)
      /\ \A i \in 1..(Len(a) + Len(b)) :
           (a \o b)[i] = IF i <= Len(a) THEN a[i] ELSE b[i - Len(a)]
  BY <1>1, <1>2, ConcatProperties, Zenon
<1> DEFINE c == a \o b
<1>4. c = RemoveAt(q, k)
  BY DEF RemoveAt, a, b
<1>5. /\ c \in Seq(S) /\ Len(c) = Len(a) + Len(b)
      /\ \A i \in 1..(Len(a) + Len(b)) :
           c[i] = IF i <= Len(a) THEN a[i] ELSE b[i - Len(a)]
  BY <1>3
<1> HIDE DEF c
<1>6. \A i \in 1..(Len(q) - 1) : c[i] = IF i < k THEN q[i] ELSE q[i + 1]
  <2> TAKE i \in 1..(Len(q) - 1)
  <2>0. /\ i \in Nat /\ k \in Nat /\ Len(q) \in Nat /\ i \in 1..(Len(a) + Len(b))
        /\ i >= 1 /\ i <= Len(q) - 1 /\ Len(a) = k - 1
    BY <1>1, <1>2
  <2>1. CASE i < k
    <3>1. i \in 1..(k - 1) /\ i <= Len(a)
      BY <2>0, <2>1
    <3> QED
      BY <1>1, <1>5, <2>0, <2>1, <3>1
  <2>2. CASE ~(i < k)
    <3>1. i - Len(a) \in 1..(Len(q) - k) /\ k + (i - Len(a)) = i + 1
          /\ ~(i <= Len(a))
      BY <2>0, <2>2
    <3>2. c[i] = b[i - Len(a)]
      BY <1>5, <2>0, <3>1
    <3>3. b[i - Len(a)] = q[i + 1]
      BY <1>2, <3>1
    <3> QED
      BY <2>2, <3>2, <3>3
  <2> QED
    BY <2>1, <2>2
<1> QED
  BY <1>1, <1>2, <1>4, <1>5, <1>6

(* RemoveFirst takes an element out that is equal to e, if there is one. *)
LEMMA RemoveFirstFacts ==
    ASSUME NEW S, NEW q \in Seq(S), NEW e, \E i \in 1..Len(q) : q[i] = e
    PROVE  \E k \in 1..Len(q) : q[k] = e /\ RemoveFirst(q, e) = RemoveAt(q, k)
<1> DEFINE I == {i \in 1..Len(q) : q[i] = e}
<1>1. Min(I) \in I
  <2>1. I \subseteq Nat /\ I # {}
    OBVIOUS
  <2> HIDE DEF I
  <2> QED
    BY <2>1, MinIsLeast
<1>2. RemoveFirst(q, e) = RemoveAt(q, Min(I))
  <2>1. SelectInSeq(q, LAMBDA v : v = e) = Min(I)
    BY DEF SelectInSeq
  <2> QED
    BY <2>1 DEF RemoveFirst
<1> QED
  BY <1>1, <1>2

(***************************************************************************)
(* Queues.  A queue has no sensor twice; Sorted is Reinserted for given    *)
(* priorities.                                                             *)
(***************************************************************************)
Once(q) == \A i, j \in 1..Len(q) : q[i] = q[j] => i = j
Sorted(q, pr) == \A i, j \in 1..Len(q) : i < j => pr[q[i]] <= pr[q[j]]

(* What the sequences of ToSet are. *)
LEMMA Elements ==
    ASSUME NEW S, NEW q \in Seq(S)
    PROVE  /\ \A x : x \in ToSet(q) <=> \E i \in 1..Len(q) : q[i] = x
           /\ ToSet(q) \subseteq S /\ Len(q) \in Nat /\ DOMAIN q = 1..Len(q)
           /\ \A x : Contains(q, x) <=> x \in ToSet(q)
           /\ ToSet(q) = {} <=> q = <<>>
BY DEF ToSet, Contains

(* The empty queue. *)
LEMMA NoElements == ToSet(<<>>) = {} /\ Once(<<>>)
BY DEF ToSet, Once

(* A sensor goes to the end of a queue. *)
LEMMA AppendKeeps ==
    ASSUME NEW S, NEW q \in Seq(S), NEW x \in S, Once(q), x \notin ToSet(q)
    PROVE  /\ Append(q, x) \in Seq(S) /\ Once(Append(q, x))
           /\ ToSet(Append(q, x)) = ToSet(q) \union {x}
<1> DEFINE a == Append(q, x)
<1>1. /\ a \in Seq(S) /\ Len(a) = Len(q) + 1 /\ Len(q) \in Nat
      /\ \A i \in 1..Len(q) : a[i] = q[i]
      /\ a[Len(q) + 1] = x
  OBVIOUS
<1>2. \A y : y \in ToSet(q) <=> \E i \in 1..Len(q) : q[i] = y
  BY Elements
<1> HIDE DEF a
<1>3. \A y : y \in ToSet(a) <=> \E i \in 1..Len(a) : a[i] = y
  BY <1>1, Elements
<1>4. \A i \in 1..Len(a) : i \in 1..Len(q) \/ i = Len(q) + 1
  BY <1>1
<1>5. Once(a)
  BY <1>1, <1>2, <1>4 DEF Once
<1>6. ToSet(a) = ToSet(q) \union {x}
  <2>1. ASSUME NEW y \in ToSet(a) PROVE y \in ToSet(q) \union {x}
    BY <1>1, <1>2, <1>3, <1>4
  <2>2. ASSUME NEW y \in ToSet(q) \union {x} PROVE y \in ToSet(a)
    <3>1. 1..Len(q) \subseteq 1..Len(a) /\ Len(q) + 1 \in 1..Len(a)
      BY <1>1
    <3> QED
      BY <1>1, <1>2, <1>3, <3>1
  <2> QED
    BY <2>1, <2>2
<1> QED
  BY <1>1, <1>5, <1>6 DEF a

(* The first element is taken off. *)
LEMMA TailKeeps ==
    ASSUME NEW S, NEW q \in Seq(S), Once(q), q # <<>>
    PROVE  /\ Head(q) \in ToSet(q) /\ Head(q) = q[1]
           /\ Tail(q) \in Seq(S) /\ Len(Tail(q)) = Len(q) - 1 /\ Once(Tail(q))
           /\ ToSet(Tail(q)) = ToSet(q) \ {Head(q)}
           /\ \A pr : Sorted(q, pr) => Sorted(Tail(q), pr)
<1> DEFINE t == Tail(q)
<1>1. /\ t \in Seq(S) /\ Len(q) \in Nat \ {0} /\ Len(t) = Len(q) - 1
      /\ \A i \in 1..Len(t) : t[i] = q[i + 1] /\ i + 1 \in 1..Len(q)
      /\ Head(q) = q[1] /\ 1 \in 1..Len(q)
  OBVIOUS
<1>2. \A y : y \in ToSet(q) <=> \E i \in 1..Len(q) : q[i] = y
  BY Elements
<1> HIDE DEF t
<1>3. \A y : y \in ToSet(t) <=> \E i \in 1..Len(t) : t[i] = y
  BY <1>1, Elements
<1>4. Once(t)
  BY <1>1 DEF Once
<1>5. ToSet(t) = ToSet(q) \ {Head(q)}
  <2>1. ASSUME NEW y \in ToSet(t) PROVE y \in ToSet(q) \ {Head(q)}
    <3>1. PICK i \in 1..Len(t) : t[i] = y
      BY <1>3
    <3>2. i + 1 # 1
      BY <1>1
    <3>3. q[i + 1] # q[1]
      BY <1>1, <3>2 DEF Once
    <3> QED
      BY <1>1, <1>2, <3>1, <3>3
  <2>2. ASSUME NEW y \in ToSet(q) \ {Head(q)} PROVE y \in ToSet(t)
    <3>1. PICK i \in 1..Len(q) : q[i] = y
      BY <1>2
    <3>2. i # 1
      BY <1>1, <3>1
    <3>3. i - 1 \in 1..Len(t) /\ (i - 1) + 1 = i
      BY <1>1, <3>2
    <3> QED
      BY <1>1, <1>3, <3>1, <3>3
  <2> QED
    BY <2>1, <2>2
<1>6. ASSUME NEW pr, Sorted(q, pr) PROVE Sorted(t, pr)
  <2> SUFFICES ASSUME NEW i \in 1..Len(t), NEW j \in 1..Len(t), i < j
               PROVE  pr[t[i]] <= pr[t[j]]
    BY DEF Sorted
  <2>1. i + 1 < j + 1
    BY <1>1
  <2> QED
    BY <1>1, <1>6, <2>1 DEF Sorted
<1>7. Head(q) \in ToSet(q)
  BY <1>1, <1>2
<1> QED
  BY <1>1, <1>4, <1>5, <1>6, <1>7 DEF t

(* The sensor is taken out of the queue, if it is in it. *)
LEMMA RemoveKeeps ==
    ASSUME NEW S, NEW q \in Seq(S), NEW e, Once(q)
    PROVE  /\ RemoveFirst(q, e) \in Seq(S) /\ Once(RemoveFirst(q, e))
           /\ ToSet(RemoveFirst(q, e)) = ToSet(q) \ {e}
           /\ \A pr : Sorted(q, pr) => Sorted(RemoveFirst(q, e), pr)
           /\ e \notin ToSet(q) => RemoveFirst(q, e) = q
           /\ \A k \in 1..Len(q) : q[k] = e => Len(RemoveFirst(q, e)) = Len(q) - 1
<1>1. \A y : y \in ToSet(q) <=> \E i \in 1..Len(q) : q[i] = y
  BY Elements
<1>2. CASE ~\E i \in 1..Len(q) : q[i] = e
  <2>1. RemoveFirst(q, e) = q
    BY <1>2 DEF RemoveFirst
  <2>2. e \notin ToSet(q)
    BY <1>1, <1>2
  <2> QED
    BY <1>2, <2>1, <2>2
<1>3. CASE \E i \in 1..Len(q) : q[i] = e
  <2> DEFINE r == RemoveFirst(q, e)
  <2>1. PICK k \in 1..Len(q) : q[k] = e /\ r = RemoveAt(q, k)
    BY <1>3, RemoveFirstFacts
  <2>2. /\ r \in Seq(S) /\ Len(r) = Len(q) - 1
        /\ \A i \in 1..(Len(q) - 1) : r[i] = IF i < k THEN q[i] ELSE q[i + 1]
    BY <2>1, RemoveAtFacts
  <2> HIDE DEF r
  <2>3. Len(q) \in Nat /\ k \in Nat /\ Len(r) \in Nat
    BY <2>2
  <2> DEFINE up(i) == IF i < k THEN i ELSE i + 1
  <2>4. ASSUME NEW i \in 1..Len(r)
        PROVE  up(i) \in 1..Len(q) /\ r[i] = q[up(i)] /\ up(i) # k
    BY <2>2, <2>3
  <2>5. ASSUME NEW i \in 1..Len(r), NEW j \in 1..Len(r)
        PROVE  (up(i) = up(j) => i = j) /\ (i < j => up(i) < up(j))
    BY <2>3
  <2>6. ASSUME NEW i \in 1..Len(q), i # k
        PROVE  \E j \in 1..Len(r) : up(j) = i
    <3>1. CASE i < k
      <4>1. i \in 1..Len(r) /\ up(i) = i
        BY <2>2, <2>3, <3>1
      <4> QED
        BY <4>1
    <3>2. CASE i > k
      <4>1. i - 1 \in 1..Len(r) /\ up(i - 1) = i
        BY <2>2, <2>3, <3>2
      <4> QED
        BY <4>1
    <3> QED
      BY <2>3, <2>6, <3>1, <3>2
  <2> HIDE DEF up
  <2>7. Once(r)
    BY <2>4, <2>5 DEF Once
  <2>8. \A y : y \in ToSet(r) <=> \E i \in 1..Len(r) : r[i] = y
    BY <2>2, Elements
  <2>9. ToSet(r) = ToSet(q) \ {e}
    <3>1. ASSUME NEW y \in ToSet(r) PROVE y \in ToSet(q) \ {e}
      <4>1. PICK i \in 1..Len(r) : r[i] = y
        BY <2>8
      <4>2. q[up(i)] = y /\ q[up(i)] # q[k]
        BY <2>1, <2>4, <4>1 DEF Once
      <4> QED
        BY <1>1, <2>1, <2>4, <4>2
    <3>2. ASSUME NEW y \in ToSet(q) \ {e} PROVE y \in ToSet(r)
      <4>1. PICK i \in 1..Len(q) : q[i] = y
        BY <1>1
      <4>2. i # k
        BY <2>1, <4>1
      <4>3. PICK j \in 1..Len(r) : up(j) = i
        BY <2>6, <4>2
      <4> QED
        BY <2>4, <2>8, <4>1, <4>3
    <3> QED
      BY <3>1, <3>2
  <2>10. ASSUME NEW pr, Sorted(q, pr) PROVE Sorted(r, pr)
    BY <2>4, <2>5, <2>10 DEF Sorted
  <2>11. e \in ToSet(q)
    BY <1>1, <1>3
  <2> QED
    BY <2>2, <2>7, <2>9, <2>10, <2>11 DEF r
<1> QED
  BY <1>2, <1>3

(* A sensor is put at place k, what was there and behind it moves down.    *)
LEMMA InsertAtFacts ==
    ASSUME NEW S, NEW q \in Seq(S), NEW x \in S, NEW k \in 1..(Len(q) + 1)
    PROVE  /\ InsertAt(q, k, x) \in Seq(S)
           /\ Len(InsertAt(q, k, x)) = Len(q) + 1
           /\ InsertAt(q, k, x)[k] = x
           /\ \A i \in 1..Len(q) :
                InsertAt(q, k, x)[IF i < k THEN i ELSE i + 1] = q[i]
<1> DEFINE a == SubSeq(q, 1, k - 1)
           b == SubSeq(q, k, Len(q))
           o == <<x>>
<1>1. /\ a \in Seq(S) /\ Len(a) = k - 1 /\ \A i \in 1..(k-1) : a[i] = q[i]
  OBVIOUS
<1>2. /\ b \in Seq(S) /\ Len(b) = Len(q) - k + 1
      /\ \A i \in 1..(Len(q) - k + 1) : b[i] = q[k + i - 1]
  OBVIOUS
<1>3. o \in Seq(S) /\ Len(o) = 1 /\ o[1] = x
  OBVIOUS
<1>0. Len(q) \in Nat /\ k \in Nat
  OBVIOUS
<1> HIDE DEF a, b, o
<1>4. /\ a \o o \in Seq(S) /\ Len(a \o o) = Len(a) + Len(o)
      /\ \A i \in 1..(Len(a) + Len(o)) :
           (a \o o)[i] = IF i <= Len(a) THEN a[i] ELSE o[i - Len(a)]
  BY <1>1, <1>3, ConcatProperties, Zenon
<1> DEFINE c == a \o o
<1>5. /\ c \in Seq(S) /\ Len(c) = k
      /\ \A i \in 1..(k - 1) : c[i] = q[i]
      /\ c[k] = x
  <2>1. Len(c) = k
    BY <1>0, <1>1, <1>3, <1>4
  <2>2. ASSUME NEW i \in 1..(k - 1) PROVE c[i] = q[i]
    <3>1. i \in 1..(Len(a) + Len(o)) /\ i <= Len(a)
      BY <1>0, <1>1, <1>3
    <3> QED
      BY <1>1, <1>4, <3>1
  <2>3. c[k] = x
    <3>1. k \in 1..(Len(a) + Len(o)) /\ ~(k <= Len(a)) /\ k - Len(a) = 1
      BY <1>0, <1>1, <1>3
    <3> QED
      BY <1>3, <1>4, <3>1
  <2> QED
    BY <1>4, <2>1, <2>2, <2>3
<1> HIDE DEF c
<1>6. /\ c \o b \in Seq(S) /\ Len(c \o b) = Len(c) + Len(b)
      /\ \A i \in 1..(Len(c) + Len(b)) :
           (c \o b)[i] = IF i <= Len(c) THEN c[i] ELSE b[i - Len(c)]
  BY <1>2, <1>5, ConcatProperties, Zenon
<1> DEFINE r == c \o b
<1>7. r = InsertAt(q, k, x)
  BY DEF InsertAt, a, b, c, o
<1>8. /\ r \in Seq(S) /\ Len(r) = Len(c) + Len(b)
      /\ \A i \in 1..(Len(c) + Len(b)) :
           r[i] = IF i <= Len(c) THEN c[i] ELSE b[i - Len(c)]
  BY <1>6
<1> HIDE DEF r
<1>9. Len(r) = Len(q) + 1
  BY <1>0, <1>2, <1>5, <1>8
<1>10. r[k] = x
  <2>1. k \in 1..(Len(c) + Len(b)) /\ k <= Len(c)
    BY <1>0, <1>2, <1>5
  <2> QED
    BY <1>5, <1>8, <2>1
<1>11. ASSUME NEW i \in 1..Len(q)
       PROVE  r[IF i < k THEN i ELSE i + 1] = q[i]
  <2>1. CASE i < k
    <3>1. i \in 1..(Len(c) + Len(b)) /\ i <= Len(c) /\ i \in 1..(k - 1)
      BY <1>0, <1>2, <1>5, <2>1
    <3> QED
      BY <1>5, <1>8, <2>1, <3>1
  <2>2. CASE ~(i < k)
    <3>1. /\ i + 1 \in 1..(Len(c) + Len(b)) /\ ~(i + 1 <= Len(c))
          /\ (i + 1) - Len(c) \in 1..(Len(q) - k + 1)
          /\ k + ((i + 1) - Len(c)) - 1 = i
      BY <1>0, <1>2, <1>5, <2>2
    <3>2. r[i + 1] = b[(i + 1) - Len(c)]
      BY <1>8, <3>1
    <3>3. b[(i + 1) - Len(c)] = q[i]
      BY <1>2, <3>1
    <3> QED
      BY <2>2, <3>2, <3>3
  <2> QED
    BY <2>1, <2>2
<1> QED
  BY <1>7, <1>8, <1>9, <1>10, <1>11

(* Insertion anywhere.                                                     *)
LEMMA InsertKeeps ==
    ASSUME NEW S, NEW q \in Seq(S), NEW x \in S, NEW k \in 1..(Len(q) + 1),
           Once(q), x \notin ToSet(q)
    PROVE  /\ InsertAt(q, k, x) \in Seq(S) /\ Once(InsertAt(q, k, x))
           /\ Len(InsertAt(q, k, x)) = Len(q) + 1
           /\ ToSet(InsertAt(q, k, x)) = ToSet(q) \union {x}
<1> DEFINE r == InsertAt(q, k, x)
           down(i) == IF i < k THEN i ELSE i + 1
<1>1. /\ r \in Seq(S) /\ Len(r) = Len(q) + 1 /\ r[k] = x
      /\ \A i \in 1..Len(q) : r[down(i)] = q[i]
  BY InsertAtFacts
<1> HIDE DEF r
<1>2. Len(q) \in Nat /\ k \in Nat /\ Len(r) \in Nat /\ k \in 1..Len(r)
  BY <1>1
<1>3. ASSUME NEW i \in 1..Len(r), i # k
      PROVE  \E j \in 1..Len(q) : down(j) = i
  <2>1. CASE i < k
    <3>1. i \in 1..Len(q) /\ down(i) = i
      BY <1>1, <1>2, <2>1
    <3> QED
      BY <3>1
  <2>2. CASE i > k
    <3>1. i - 1 \in 1..Len(q) /\ down(i - 1) = i
      BY <1>1, <1>2, <2>2
    <3> QED
      BY <3>1
  <2> QED
    BY <1>2, <1>3, <2>1, <2>2
<1>4. \A i \in 1..Len(q) : down(i) \in 1..Len(r)
  BY <1>1, <1>2
<1> HIDE DEF down
<1>5. \A y : y \in ToSet(q) <=> \E i \in 1..Len(q) : q[i] = y
  BY Elements
<1>6. \A y : y \in ToSet(r) <=> \E i \in 1..Len(r) : r[i] = y
  BY <1>1, Elements
<1>7. Once(r)
  <2> SUFFICES ASSUME NEW i \in 1..Len(r), NEW j \in 1..Len(r), r[i] = r[j]
               PROVE  i = j
    BY DEF Once
  <2>1. CASE i = k /\ j # k
    <3>1. PICK m \in 1..Len(q) : down(m) = j
      BY <1>3, <2>1
    <3> QED
      BY <1>1, <1>5, <2>1, <3>1
  <2>2. CASE i # k /\ j = k
    <3>1. PICK m \in 1..Len(q) : down(m) = i
      BY <1>3, <2>2
    <3> QED
      BY <1>1, <1>5, <2>2, <3>1
  <2>3. CASE i # k /\ j # k
    <3>1. PICK m \in 1..Len(q) : down(m) = i
      BY <1>3, <2>3
    <3>2. PICK n \in 1..Len(q) : down(n) = j
      BY <1>3, <2>3
    <3>3. q[m] = q[n]
      BY <1>1, <3>1, <3>2
    <3> QED
      BY <3>1, <3>2, <3>3 DEF Once
  <2> QED
    BY <2>1, <2>2, <2>3
<1>8. ToSet(r) = ToSet(q) \union {x}
  <2>1. ASSUME NEW y \in ToSet(r) PROVE y \in ToSet(q) \union {x}
    <3>1. PICK i \in 1..Len(r) : r[i] = y
      BY <1>6
    <3>2. CASE i # k
      <4>1. PICK m \in 1..Len(q) : down(m) = i
        BY <1>3, <3>2
      <4> QED
        BY <1>1, <1>5, <3>1, <4>1
    <3> QED
      BY <1>1, <3>1, <3>2
  <2>2. ASSUME NEW y \in ToSet(q) PROVE y \in ToSet(r)
    BY <1>1, <1>4, <1>5, <1>6
  <2>3. x \in ToSet(r)
    BY <1>1, <1>2, <1>6
  <2> QED
    BY <2>1, <2>2, <2>3
<1> QED
  BY <1>1, <1>7, <1>8 DEF r

(* Insertion behind the sensors of the same priority keeps a queue sorted, *)
(* for any priorities pr that are the present ones but for those of d.     *)
LEMMA InsertSortedKeeps ==
    ASSUME NEW S, NEW q \in Seq(S), NEW d \in S, NEW p \in Nat,
           Once(q), d \notin ToSet(q), \A x \in S : priority[x] \in Nat,
           NEW pr, pr[d] = p, \A x \in S \ {d} : pr[x] = priority[x]
    PROVE  /\ InsertSorted(q, d, p) \in Seq(S) /\ Once(InsertSorted(q, d, p))
           /\ ToSet(InsertSorted(q, d, p)) = ToSet(q) \union {d}
           /\ Sorted(q, priority) => Sorted(InsertSorted(q, d, p), pr)
<1> DEFINE T == {i \in DOMAIN q : priority[q[i]] > p} \union {Len(q) + 1}
           k == Min(T)
<1>1. Len(q) \in Nat /\ DOMAIN q = 1..Len(q)
  OBVIOUS
<1>2. T \subseteq Nat /\ T # {}
  BY <1>1
<1>3. /\ \A i \in T : i = Len(q) + 1 \/ (i \in 1..Len(q) /\ priority[q[i]] > p)
      /\ \A i \in 1..Len(q) : priority[q[i]] > p => i \in T
      /\ Len(q) + 1 \in T
  BY <1>1
<1>4. InsertSorted(q, d, p) = InsertAt(q, k, d)
  BY DEF InsertSorted
<1> HIDE DEF T
<1>5. k \in T /\ \A i \in T : k <= i
  BY <1>2, MinIsLeast
<1> HIDE DEF k
<1>6. k \in 1..(Len(q) + 1)
  BY <1>1, <1>2, <1>3, <1>5
<1> DEFINE r == InsertAt(q, k, d)
           down(i) == IF i < k THEN i ELSE i + 1
<1>7. /\ r \in Seq(S) /\ Once(r) /\ ToSet(r) = ToSet(q) \union {d}
      /\ Len(r) = Len(q) + 1
  BY <1>6, InsertKeeps
<1>8. r[k] = d /\ \A i \in 1..Len(q) : r[down(i)] = q[i]
  BY <1>6, InsertAtFacts
<1> HIDE DEF r
<1>9. \A i \in 1..Len(q) : q[i] \in S \ {d} /\ priority[q[i]] \in Nat
  BY Elements
<1>10. ASSUME Sorted(q, priority)
       PROVE  Sorted(r, pr)
  <2> SUFFICES ASSUME NEW i \in 1..Len(r), NEW j \in 1..Len(r), i < j
               PROVE  pr[r[i]] <= pr[r[j]]
    BY DEF Sorted
  <2>1. \A m \in 1..Len(q) : pr[q[m]] = priority[q[m]]
    BY <1>9
  <2>2. \A m \in 1..Len(q) : m < k => priority[q[m]] <= p
    BY <1>1, <1>3, <1>5, <1>6, <1>9
  <2>3. \A m \in 1..Len(q) : m >= k => priority[q[m]] > p
    <3> SUFFICES ASSUME NEW m \in 1..Len(q), m >= k
                 PROVE  priority[q[m]] > p
      OBVIOUS
    <3>1. k \in 1..Len(q) /\ priority[q[k]] > p
      BY <1>1, <1>3, <1>5, <1>6
    <3>2. priority[q[k]] <= priority[q[m]]
      <4>1. CASE m = k
        BY <1>9, <4>1
      <4>2. CASE k < m
        BY <1>10, <3>1, <4>2 DEF Sorted
      <4> QED
        BY <1>1, <1>6, <4>1, <4>2
    <3> QED
      BY <1>9, <3>1, <3>2
  <2>4. /\ i < k => i \in 1..Len(q) /\ r[i] = q[i]
        /\ j < k => j \in 1..Len(q) /\ r[j] = q[j]
        /\ i > k => i - 1 \in 1..Len(q) /\ r[i] = q[i - 1] /\ i - 1 >= k
        /\ j > k => j - 1 \in 1..Len(q) /\ r[j] = q[j - 1] /\ j - 1 >= k
    <3>1. ASSUME NEW m \in 1..Len(r), m < k
          PROVE  m \in 1..Len(q) /\ r[m] = q[m]
      <4>1. m \in 1..Len(q) /\ down(m) = m
        BY <1>1, <1>6, <1>7, <3>1
      <4> QED
        BY <1>8, <4>1
    <3>2. ASSUME NEW m \in 1..Len(r), m > k
          PROVE  m - 1 \in 1..Len(q) /\ r[m] = q[m - 1] /\ m - 1 >= k
      <4>1. m - 1 \in 1..Len(q) /\ down(m - 1) = m /\ m - 1 >= k
        BY <1>1, <1>6, <1>7, <3>2
      <4> QED
        BY <1>8, <4>1
    <3> QED
      BY <3>1, <3>2
  <2>5. i \in Nat /\ j \in Nat /\ k \in Nat
    BY <1>1, <1>6, <1>7
  <2> HIDE DEF down
  <2>6. CASE j < k
    <3>1. i < k
      BY <2>5, <2>6
    <3> QED
      BY <1>10, <2>1, <2>4, <2>6, <3>1 DEF Sorted
  <2>7. CASE j = k
    BY <1>8, <2>1, <2>2, <2>4, <2>7
  <2>8. CASE j > k /\ i < k
    <3>1. priority[q[i]] <= p /\ priority[q[j - 1]] > p
      BY <2>2, <2>3, <2>4, <2>8
    <3>2. priority[q[i]] \in Nat /\ priority[q[j - 1]] \in Nat
      BY <1>9, <2>4, <2>8
    <3> QED
      BY <2>1, <2>4, <2>8, <3>1, <3>2
  <2>9. CASE j > k /\ i = k
    <3>1. priority[q[j - 1]] > p /\ priority[q[j - 1]] \in Nat
      BY <1>9, <2>3, <2>4, <2>9
    <3> QED
      BY <1>8, <2>1, <2>4, <2>9, <3>1
  <2>10. CASE j > k /\ i > k
    <3>1. i - 1 < j - 1
      BY <2>5
    <3> QED
      BY <1>10, <2>1, <2>4, <2>10, <3>1 DEF Sorted
  <2> QED
    BY <2>5, <2>6, <2>7, <2>8, <2>9, <2>10
<1> QED
  BY <1>4, <1>7, <1>10 DEF r

(* The queue it results in, whatever the priorities.                       *)
LEMMA InsertSortedHolds ==
    ASSUME NEW S, NEW q \in Seq(S), NEW d \in S, NEW p \in Nat,
           Once(q), d \notin ToSet(q), \A x \in S : priority[x] \in Nat
    PROVE  /\ InsertSorted(q, d, p) \in Seq(S) /\ Once(InsertSorted(q, d, p))
           /\ ToSet(InsertSorted(q, d, p)) = ToSet(q) \union {d}
<1> DEFINE pr == [x \in S |-> IF x = d THEN p ELSE priority[x]]
<1>1. pr[d] = p /\ \A x \in S \ {d} : pr[x] = priority[x]
  OBVIOUS
<1> HIDE DEF pr
<1> QED
  BY <1>1, InsertSortedKeeps

(* A queue holds finitely many sensors.                                    *)
LEMMA ElementsFinite ==
    ASSUME NEW S, NEW q \in Seq(S)
    PROVE  IsFiniteSet(ToSet(q))
<1>1. q \in [1..Len(q) -> ToSet(q)] /\ Len(q) \in Nat
  BY DEF ToSet
<1>2. q \in Surjection(1..Len(q), ToSet(q))
  BY <1>1 DEF ToSet, Surjection
<1>3. IsFiniteSet(1..Len(q))
  BY <1>1, FS_Interval
<1> QED
  BY <1>2, <1>3, FS_Surjection

(* The sequences of a finite set hold each of its elements once.           *)
LEMMA SequencesOf ==
    ASSUME NEW S, NEW T \in SUBSET S, IsFiniteSet(T), NEW q \in SetToSeqs(T)
    PROVE  /\ q \in Seq(S) /\ Once(q) /\ ToSet(q) = T
<1> DEFINE n == Cardinality(T)
<1>1. n \in Nat
  BY FS_CardinalityType
<1>2. q \in [1..n -> T] /\ \A i, j \in 1..n : i # j => q[i] # q[j]
  BY DEF SetToSeqs
<1>3. IsFiniteSet(1..n) /\ Cardinality(1..n) = n
  BY <1>1, FS_Interval
<1>4. q \in Injection(1..n, T)
  BY <1>2 DEF Injection, IsInjective
<1>5. q \in Surjection(1..n, T)
  BY <1>3, <1>4, FS_Injection
<1>6. q \in Seq(S) /\ Len(q) = n
  BY <1>1, <1>2
<1>7. Once(q)
  BY <1>2, <1>6 DEF Once
<1>8. ToSet(q) = T
  BY <1>2, <1>5 DEF Surjection, ToSet
<1> QED
  BY <1>6, <1>7, <1>8

(* How often a sensor is in a queue.                                       *)
LEMMA TimesIn ==
    ASSUME NEW S, NEW q \in Seq(S), NEW s, Once(q)
    PROVE  Cardinality({i \in DOMAIN q : q[i] = s}) =
             IF s \in ToSet(q) THEN 1 ELSE 0
<1>1. /\ \A x : x \in ToSet(q) <=> \E i \in 1..Len(q) : q[i] = x
      /\ DOMAIN q = 1..Len(q)
  BY Elements
<1>2. CASE s \in ToSet(q)
  <2>1. PICK k \in 1..Len(q) : q[k] = s
    BY <1>1, <1>2
  <2>2. {i \in DOMAIN q : q[i] = s} = {k}
    BY <1>1, <2>1 DEF Once
  <2> QED
    BY <1>2, <2>2, FS_Singleton
<1>3. CASE s \notin ToSet(q)
  <2>1. {i \in DOMAIN q : q[i] = s} = {}
    BY <1>1, <1>3
  <2> QED
    BY <1>3, <2>1, FS_EmptySet
<1> QED
  BY <1>2, <1>3

(***************************************************************************)
(* The call stack.                                                         *)
(***************************************************************************)
NoTimer(st) == \A f \in ToSet(st) : f.at # "timer"
OneTimer(st) ==
    \A i, j \in 1..Len(st) : st[i].at = "timer" /\ st[j].at = "timer" => i = j

(* The frames and their kinds.                                             *)
LEMMA FrameFacts ==
    /\ Callback \in Frame /\ App \in Frame /\ Timer \in Frame
    /\ \A n \in 0..(MaxTriggers + 1) : Immediate(n) \in Frame
    /\ \A b \in BOOLEAN : Enter(b) \in Frame /\ Delay(b) \in Frame
    /\ Callback.at = "callback" /\ App.at = "app" /\ Timer.at = "timer"
    /\ \A n : Immediate(n).at = "immediate"
    /\ \A b : Enter(b).at = "enter" /\ Delay(b).at = "delay"
    /\ \A f \in Frame : f.at = "immediate" => f.n \in 0..(MaxTriggers + 1)
    /\ \A f \in Frame : f.at = "enter" \/ f.at = "delay" => f.idle \in BOOLEAN
<1>1. /\ Callback \in Frame /\ App \in Frame /\ Timer \in Frame
      /\ \A n \in 0..(MaxTriggers + 1) : Immediate(n) \in Frame
      /\ \A b \in BOOLEAN : Enter(b) \in Frame /\ Delay(b) \in Frame
  BY DEF Frame
<1>2. /\ Callback.at = "callback" /\ App.at = "app" /\ Timer.at = "timer"
      /\ \A n : Immediate(n).at = "immediate" /\ Immediate(n).n = n
      /\ \A b : Enter(b).at = "enter" /\ Enter(b).idle = b
      /\ \A b : Delay(b).at = "delay" /\ Delay(b).idle = b
  BY DEF Callback, App, Timer, Immediate, Enter, Delay
<1>3. \A f \in Frame : \/ f = Callback \/ f = App \/ f = Timer
                       \/ \E n \in 0..(MaxTriggers + 1) : f = Immediate(n)
                       \/ \E b \in BOOLEAN : f = Enter(b) \/ f = Delay(b)
  BY DEF Frame
<1>4. ASSUME NEW f \in Frame, f.at = "immediate"
      PROVE  f.n \in 0..(MaxTriggers + 1)
  BY <1>2, <1>3, <1>4
<1>5. ASSUME NEW f \in Frame, f.at = "enter" \/ f.at = "delay"
      PROVE  f.idle \in BOOLEAN
  BY <1>2, <1>3, <1>5
<1> QED
  BY <1>1, <1>2, <1>4, <1>5

(* A call: f is put on top.                                                *)
LEMMA Push ==
    ASSUME NEW st \in Seq(Frame), NEW f \in Frame
    PROVE  /\ <<f>> \o st \in Seq(Frame)
           /\ ToSet(<<f>> \o st) = {f} \union ToSet(st)
           /\ f.at # "timer" /\ OneTimer(st) => OneTimer(<<f>> \o st)
           /\ NoTimer(st) => OneTimer(<<f>> \o st)
           /\ f.at # "timer" /\ NoTimer(st) => NoTimer(<<f>> \o st)
<1> DEFINE r == <<f>> \o st
<1>1. /\ r \in Seq(Frame) /\ Len(r) = Len(st) + 1 /\ Len(st) \in Nat
      /\ r[1] = f /\ \A i \in 2..Len(r) : r[i] = st[i - 1]
  OBVIOUS
<1> HIDE DEF r
<1>2. \A y : y \in ToSet(st) <=> \E i \in 1..Len(st) : st[i] = y
  BY Elements
<1>3. \A y : y \in ToSet(r) <=> \E i \in 1..Len(r) : r[i] = y
  BY <1>1, Elements
<1>4. \A i \in 1..Len(r) : i = 1 \/ (i \in 2..Len(r) /\ i - 1 \in 1..Len(st))
  BY <1>1
<1>5. \A i \in 1..Len(st) : i + 1 \in 2..Len(r) /\ (i + 1) - 1 = i
  BY <1>1
<1>6. ToSet(r) = {f} \union ToSet(st)
  <2>1. ASSUME NEW y \in ToSet(r) PROVE y \in {f} \union ToSet(st)
    BY <1>1, <1>2, <1>3, <1>4
  <2>2. ASSUME NEW y \in ToSet(st) PROVE y \in ToSet(r)
    <3>1. PICK i \in 1..Len(st) : st[i] = y
      BY <1>2
    <3>2. i + 1 \in 1..Len(r) /\ r[i + 1] = y
      BY <1>1, <1>5, <3>1
    <3> QED
      BY <1>3, <3>2
  <2>3. f \in ToSet(r)
    <3>1. 1 \in 1..Len(r)
      BY <1>1
    <3> QED
      BY <1>1, <1>3, <3>1
  <2> QED
    BY <2>1, <2>2, <2>3
<1>7. ASSUME f.at # "timer", OneTimer(st) PROVE OneTimer(r)
  <2> SUFFICES ASSUME NEW i \in 1..Len(r), NEW j \in 1..Len(r),
                      r[i].at = "timer", r[j].at = "timer"
               PROVE  i = j
    BY DEF OneTimer
  <2>1. i # 1 /\ j # 1
    BY <1>1, <1>7
  <2>2. i - 1 = j - 1
    BY <1>1, <1>4, <1>7, <2>1 DEF OneTimer
  <2> QED
    BY <2>2
<1>8. ASSUME NoTimer(st) PROVE OneTimer(r)
  <2> SUFFICES ASSUME NEW i \in 1..Len(r), r[i].at = "timer"
               PROVE  i = 1
    BY DEF OneTimer
  <2>1. CASE i # 1
    <3>1. st[i - 1] \in ToSet(st) /\ r[i] = st[i - 1]
      BY <1>1, <1>2, <1>4, <2>1
    <3> QED
      BY <1>8, <3>1 DEF NoTimer
  <2> QED
    BY <2>1
<1>9. ASSUME f.at # "timer", NoTimer(st) PROVE NoTimer(r)
  BY <1>6, <1>9 DEF NoTimer
<1> QED
  BY <1>1, <1>6, <1>7, <1>8, <1>9 DEF r

(* A return: the frame on top is taken off.                                *)
LEMMA Pop ==
    ASSUME NEW st \in Seq(Frame), st # <<>>
    PROVE  /\ Tail(st) \in Seq(Frame) /\ Head(st) \in Frame
           /\ ToSet(st) = ToSet(Tail(st)) \union {Head(st)}
           /\ OneTimer(st) => OneTimer(Tail(st))
           /\ NoTimer(st) => NoTimer(Tail(st))
           /\ OneTimer(st) /\ Head(st).at = "timer" => NoTimer(Tail(st))
<1> DEFINE r == Tail(st)
<1>1. /\ r \in Seq(Frame) /\ Len(st) = Len(r) + 1 /\ Len(r) \in Nat
      /\ \A i \in 1..Len(r) : r[i] = st[i + 1]
      /\ Head(st) = st[1] /\ Head(st) \in Frame
  OBVIOUS
<1> HIDE DEF r
<1>2. \A y : y \in ToSet(st) <=> \E i \in 1..Len(st) : st[i] = y
  BY Elements
<1>3. \A y : y \in ToSet(r) <=> \E i \in 1..Len(r) : r[i] = y
  BY <1>1, Elements
<1>4. \A i \in 1..Len(r) : i + 1 \in 1..Len(st) /\ i + 1 # 1
  BY <1>1
<1>5. \A i \in 1..Len(st) : i = 1 \/ (i - 1 \in 1..Len(r) /\ (i - 1) + 1 = i)
  BY <1>1
<1>6. 1 \in 1..Len(st)
  BY <1>1
<1>7. ToSet(st) = ToSet(r) \union {Head(st)}
  <2>1. ASSUME NEW y \in ToSet(st) PROVE y \in ToSet(r) \union {Head(st)}
    <3>1. PICK i \in 1..Len(st) : st[i] = y
      BY <1>2
    <3>2. CASE i # 1
      <4>1. i - 1 \in 1..Len(r) /\ r[i - 1] = y
        BY <1>1, <1>5, <3>1, <3>2
      <4> QED
        BY <1>3, <4>1
    <3> QED
      BY <1>1, <3>1, <3>2
  <2>2. ASSUME NEW y \in ToSet(r) PROVE y \in ToSet(st)
    BY <1>1, <1>2, <1>3, <1>4
  <2> QED
    BY <1>1, <1>2, <1>6, <2>1, <2>2
<1>8. ASSUME OneTimer(st) PROVE OneTimer(r)
  <2> SUFFICES ASSUME NEW i \in 1..Len(r), NEW j \in 1..Len(r),
                      r[i].at = "timer", r[j].at = "timer"
               PROVE  i = j
    BY DEF OneTimer
  <2>1. i + 1 = j + 1
    BY <1>1, <1>4, <1>8 DEF OneTimer
  <2> QED
    BY <2>1
<1>9. ASSUME NoTimer(st) PROVE NoTimer(r)
  BY <1>7, <1>9 DEF NoTimer
<1>10. ASSUME OneTimer(st), Head(st).at = "timer" PROVE NoTimer(r)
  <2> SUFFICES ASSUME NEW y \in ToSet(r), y.at = "timer" PROVE FALSE
    BY DEF NoTimer
  <2>1. PICK i \in 1..Len(r) : r[i] = y
    BY <1>3
  <2>2. i + 1 = 1
    BY <1>1, <1>4, <1>6, <1>10, <2>1 DEF OneTimer
  <2> QED
    BY <1>4, <2>2
<1> QED
  BY <1>1, <1>7, <1>8, <1>9, <1>10 DEF r

(***************************************************************************)
(* The invariant.                                                          *)
(***************************************************************************)
Typed ==
    /\ priority \in [Delays -> Prios] /\ scheduled \in [Sensor -> BOOLEAN]
    /\ triggerdict \subseteq Delays /\ delaysensortimeout \in {0, 1}
    /\ processing \subseteq {"immediate", "delay", "timer"}
    /\ idlewatch \in BOOLEAN

(* The queues of delay sensors.                                            *)
DelayQueues ==
    /\ immediatequeue \in Seq(Delays) /\ Once(immediatequeue)
    /\ delayqueue \in Seq(Delays) /\ Once(delayqueue)
    /\ reinsertdict \in SUBSET Delays /\ IsFiniteSet(reinsertdict)
    /\ \A d \in ToSet(immediatequeue) : d \notin ToSet(delayqueue) \union reinsertdict
    /\ \A d \in ToSet(delayqueue) : d \notin reinsertdict
    /\ \A d \in Delays : scheduled[d] <=>
         d \in ToSet(immediatequeue) \union ToSet(delayqueue) \union reinsertdict
    /\ Sorted(delayqueue, priority)
    /\ \A d \in ToSet(delayqueue) \union reinsertdict : priority[d] # 0
    /\ \A d \in ToSet(immediatequeue) : priority[d] = 0

(* The queue of timers, and the list of those that trigger.                *)
TimerQueues ==
    /\ timerqueue \in Seq(Timers \union {Timeout}) /\ Once(timerqueue)
    /\ due \in 0..Len(timerqueue)
    /\ reschedulelist \in Seq(Timers) /\ Once(reschedulelist)
    /\ \A t \in ToSet(timerqueue) : t \notin ToSet(reschedulelist)
    /\ \A t \in Timers \union {Timeout} : scheduled[t] <=>
         t \in ToSet(timerqueue) \union ToSet(reschedulelist)
    /\ istriggering = ToSet(reschedulelist)

(* processTimerQueue runs once at a time, and cleans up when it ends.      *)
Frames ==
    /\ stack \in Seq(Frame) /\ OneTimer(stack)
    /\ "timer" \notin processing => reschedulelist = <<>> /\ NoTimer(stack)

(* TimeoutArmed, the calls as a set.                                       *)
Armed ==
    delayqueue # <<>> /\ delaysensortimeout # 0 /\ "delay" \notin processing
      => scheduled[Timeout] \/ Enter(FALSE) \in ToSet(stack)

SensorsInv == Typed /\ DelayQueues /\ TimerQueues /\ Frames /\ Armed

(* The sets of sensors.                                                    *)
LEMMA SensorFacts ==
    /\ Timeout \in Sensor /\ Timeout \notin Delays /\ Timeout \notin Timers
    /\ \A d \in Delays : d \in Sensor /\ d \notin Timers /\ d # Timeout
    /\ \A t \in Timers : t \in Sensor /\ t \notin Delays /\ t # Timeout
    /\ \A s \in Sensor : s \in Delays \/ s \in Timers \/ s = Timeout
    /\ \A p \in Prios : p \in Nat
BY SensorsAssumption DEF Sensor

(* What an action does not touch stays as it is.                           *)
LEMMA DelayQueuesStay ==
    ASSUME DelayQueues, UNCHANGED delayVars,
           \A d \in Delays : scheduled'[d] = scheduled[d]
    PROVE  DelayQueues'
<1>1. /\ immediatequeue' = immediatequeue /\ delayqueue' = delayqueue
      /\ reinsertdict' = reinsertdict /\ priority' = priority
  BY DEF delayVars
<1> QED
  BY <1>1 DEF DelayQueues

(* The same of the timer queue.                                            *)
LEMMA TimerQueuesStay ==
    ASSUME TimerQueues, UNCHANGED timerVars,
           \A t \in Timers \union {Timeout} : scheduled'[t] = scheduled[t]
    PROVE  TimerQueues'
<1>1. /\ timerqueue' = timerqueue /\ due' = due
      /\ reschedulelist' = reschedulelist /\ istriggering' = istriggering
  BY DEF timerVars
<1> QED
  BY <1>1 DEF TimerQueues

(* And of the call stack.                                                  *)
LEMMA FramesStay ==
    ASSUME Frames, UNCHANGED <<stack, processing, reschedulelist>>
    PROVE  Frames'
BY Zenon DEF Frames, OneTimer, NoTimer, ToSet

(* SensorsInv is what the properties say.                                  *)
LEMMA InvariantSays ==
    ASSUME SensorsInv
    PROVE  FlagMeansQueued /\ PriorityOrder /\ TimeoutArmed
<1> USE DEF SensorsInv
<1>1. TypeOK
  <2>1. ToSet(reschedulelist) \subseteq Timers
    BY Elements DEF TimerQueues
  <2>2. /\ immediatequeue \in Seq(Delays) /\ delayqueue \in Seq(Delays)
        /\ reinsertdict \subseteq Delays
    BY DEF DelayQueues
  <2>3. /\ timerqueue \in Seq(Timers \union {Timeout}) /\ due \in 0 .. Len(timerqueue)
        /\ reschedulelist \in Seq(Timers) /\ istriggering \subseteq Timers
    BY <2>1 DEF TimerQueues
  <2>4. stack \in Seq(Frame)
    BY DEF Frames
  <2> QED
    BY <2>2, <2>3, <2>4, Zenon DEF TypeOK, Typed
<1>2. PriorityOrder
  <2>1. Reinserted(delayqueue)
    BY Elements DEF DelayQueues, Reinserted, Sorted
  <2> QED
    BY <2>1 DEF DelayQueues, PriorityOrder
<1>3. TimeoutArmed
  <2>1. Enter(FALSE) \in ToSet(stack) =>
          \E i \in DOMAIN stack : stack[i] = Enter(FALSE)
    BY DEF ToSet
  <2> QED
    BY <2>1 DEF Armed, TimeoutArmed
<1>4. \A s \in Sensor : Places(s) = IF scheduled[s] THEN 1 ELSE 0
  <2> TAKE s \in Sensor
  <2> DEFINE In(q) == Cardinality({i \in DOMAIN q : q[i] = s})
  <2>1. Places(s) = In(immediatequeue) + In(delayqueue) + In(timerqueue)
                      + In(reschedulelist) + (IF s \in reinsertdict THEN 1 ELSE 0)
    BY DEF Places
  <2>2. /\ In(immediatequeue) = IF s \in ToSet(immediatequeue) THEN 1 ELSE 0
        /\ In(delayqueue) = IF s \in ToSet(delayqueue) THEN 1 ELSE 0
        /\ In(timerqueue) = IF s \in ToSet(timerqueue) THEN 1 ELSE 0
        /\ In(reschedulelist) = IF s \in ToSet(reschedulelist) THEN 1 ELSE 0
    BY TimesIn DEF DelayQueues, TimerQueues
  <2> HIDE DEF In
  <2>3. /\ ToSet(immediatequeue) \subseteq Delays /\ ToSet(delayqueue) \subseteq Delays
        /\ reinsertdict \subseteq Delays
        /\ ToSet(timerqueue) \subseteq Timers \union {Timeout}
        /\ ToSet(reschedulelist) \subseteq Timers
    <3>1. ToSet(immediatequeue) \subseteq Delays /\ ToSet(delayqueue) \subseteq Delays
      BY Elements DEF DelayQueues
    <3>2. /\ ToSet(timerqueue) \subseteq Timers \union {Timeout}
          /\ ToSet(reschedulelist) \subseteq Timers
      BY Elements DEF TimerQueues
    <3> QED
      BY <3>1, <3>2 DEF DelayQueues
  <2>4. CASE s \in Delays
    <3>1. s \notin ToSet(timerqueue) /\ s \notin ToSet(reschedulelist)
      BY <2>3, <2>4, SensorFacts
    <3> QED
      BY <2>1, <2>2, <2>4, <3>1 DEF DelayQueues, Typed
  <2>5. CASE s \in Timers \union {Timeout}
    <3>1. /\ s \notin ToSet(immediatequeue) /\ s \notin ToSet(delayqueue)
          /\ s \notin reinsertdict
      BY <2>3, <2>5, SensorFacts
    <3> QED
      BY <2>1, <2>2, <2>5, <3>1 DEF TimerQueues, Typed
  <2> QED
    BY <2>4, <2>5, SensorFacts
<1> QED
  BY <1>1, <1>2, <1>3, <1>4 DEF FlagMeansQueued, TimerQueues, Frames

(***************************************************************************)
(* What the parts of the actions do.                                       *)
(***************************************************************************)
(* s is put into rest, behind the n timers that are due.                   *)
LEMMA InsertTimerFacts ==
    ASSUME NEW rest \in Seq(Timers \union {Timeout}), NEW n \in 0..Len(rest),
           NEW s \in Timers \union {Timeout}, Once(rest), s \notin ToSet(rest),
           InsertTimer(rest, n, s)
    PROVE  /\ timerqueue' \in Seq(Timers \union {Timeout}) /\ Once(timerqueue')
           /\ ToSet(timerqueue') = ToSet(rest) \union {s}
           /\ due' \in 0..Len(timerqueue')
<1>1. PICK k \in n + 1 .. Len(rest) + 1 : timerqueue' = InsertAt(rest, k, s)
  BY DEF InsertTimer
<1>2. due' = n
  BY DEF InsertTimer
<1>3. Len(rest) \in Nat /\ k \in 1..(Len(rest) + 1)
  OBVIOUS
<1>4. /\ timerqueue' \in Seq(Timers \union {Timeout}) /\ Once(timerqueue')
      /\ Len(timerqueue') = Len(rest) + 1
      /\ ToSet(timerqueue') = ToSet(rest) \union {s}
  BY <1>1, <1>3, InsertKeeps
<1> QED
  BY <1>2, <1>3, <1>4

(* A timer taken out of the queue, and what is due then.                   *)
LEMMA WithoutFacts ==
    ASSUME TimerQueues, NEW s
    PROVE  /\ RemoveFirst(timerqueue, s) \in Seq(Timers \union {Timeout})
           /\ Once(RemoveFirst(timerqueue, s))
           /\ ToSet(RemoveFirst(timerqueue, s)) = ToSet(timerqueue) \ {s}
           /\ DueWithout(s) \in 0..Len(RemoveFirst(timerqueue, s))
<1>1. /\ timerqueue \in Seq(Timers \union {Timeout}) /\ Once(timerqueue)
      /\ due \in 0..Len(timerqueue)
  BY DEF TimerQueues
<1> DEFINE r == RemoveFirst(timerqueue, s)
<1>2. /\ r \in Seq(Timers \union {Timeout}) /\ Once(r)
      /\ ToSet(r) = ToSet(timerqueue) \ {s}
      /\ s \notin ToSet(timerqueue) => r = timerqueue
      /\ \A k \in 1..Len(timerqueue) : timerqueue[k] = s => Len(r) = Len(timerqueue) - 1
  BY <1>1, RemoveKeeps
<1>3. \A x : x \in ToSet(timerqueue) <=> \E i \in 1..Len(timerqueue) : timerqueue[i] = x
  BY <1>1, Elements
<1> HIDE DEF r
<1>4. DueWithout(s) \in 0..Len(r)
  <2>1. CASE s \notin ToSet(timerqueue)
    <3>1. ~\E i \in 1..due : timerqueue[i] = s
      BY <1>1, <1>3, <2>1
    <3> QED
      BY <1>1, <1>2, <2>1, <3>1 DEF DueWithout
  <2>2. CASE s \in ToSet(timerqueue)
    <3>1. PICK k \in 1..Len(timerqueue) : timerqueue[k] = s
      BY <1>3, <2>2
    <3>2. Len(r) = Len(timerqueue) - 1 /\ Len(timerqueue) \in Nat
      BY <1>1, <1>2, <3>1
    <3>3. CASE k <= due
      <4>1. k \in 1..due
        BY <1>1, <3>3
      <4>2. DueWithout(s) = due - 1
        BY <3>1, <4>1 DEF DueWithout
      <4> QED
        BY <1>1, <3>2, <4>1, <4>2
    <3>4. CASE k > due
      <4>1. \A i \in 1..due : i \in 1..Len(timerqueue) /\ i # k
        BY <1>1, <3>2, <3>4
      <4>2. DueWithout(s) = due
        BY <1>1, <3>1, <4>1 DEF DueWithout, Once
      <4> QED
        BY <1>1, <3>2, <3>4, <4>2
    <3> QED
      BY <1>1, <3>2, <3>3, <3>4
  <2> QED
    BY <2>1, <2>2
<1> QED
  BY <1>2, <1>4 DEF r

(* The timeout is set, if it is to be.                                     *)
LEMMA ArmKeeps ==
    ASSUME TimerQueues, NEW w \in BOOLEAN, Arm(w),
           scheduled'[Timeout] <=> (scheduled[Timeout] \/ w),
           \A t \in Timers : scheduled'[t] <=> scheduled[t],
           UNCHANGED <<reschedulelist, istriggering>>
    PROVE  TimerQueues'
<1>1. /\ timerqueue \in Seq(Timers \union {Timeout}) /\ Once(timerqueue)
      /\ due \in 0..Len(timerqueue)
  BY DEF TimerQueues
<1>2. CASE w /\ ~scheduled[Timeout]
  <2>1. InsertTimer(timerqueue, due, Timeout)
    BY <1>2 DEF Arm
  <2>2. Timeout \notin ToSet(timerqueue) /\ Timeout \notin ToSet(reschedulelist)
    BY <1>2 DEF TimerQueues
  <2>3. /\ timerqueue' \in Seq(Timers \union {Timeout}) /\ Once(timerqueue')
        /\ ToSet(timerqueue') = ToSet(timerqueue) \union {Timeout}
        /\ due' \in 0..Len(timerqueue')
    BY <1>1, <2>1, <2>2, InsertTimerFacts
  <2>4. /\ \A t \in ToSet(timerqueue') : t \notin ToSet(reschedulelist)
        /\ \A t \in Timers \union {Timeout} : scheduled'[t] <=>
             t \in ToSet(timerqueue') \union ToSet(reschedulelist)
    BY <1>2, <2>2, <2>3, SensorFacts DEF TimerQueues
  <2>5. reschedulelist' = reschedulelist /\ istriggering' = istriggering
    OBVIOUS
  <2> QED
    BY <2>3, <2>4, <2>5 DEF TimerQueues
<1>3. CASE ~(w /\ ~scheduled[Timeout])
  <2>1. /\ timerqueue' = timerqueue /\ due' = due
        /\ reschedulelist' = reschedulelist /\ istriggering' = istriggering
    BY <1>3 DEF Arm
  <2>2. \A t \in Timers \union {Timeout} : scheduled'[t] <=> scheduled[t]
    BY <1>3
  <2> QED
    BY <2>1, <2>2 DEF TimerQueues
<1> QED
  BY <1>2, <1>3

(* A delay sensor d, in no queue before, goes to the queue of its priority *)
(* p; i and q are the queues without it.                                   *)
LEMMA EnqueueKeeps ==
    ASSUME Typed, TimerQueues, Armed, NEW d \in Delays, NEW p \in Prios,
           NEW i \in Seq(Delays), NEW q \in Seq(Delays), NEW w \in BOOLEAN,
           Once(i), Once(q), Sorted(q, priority),
           d \notin ToSet(i), d \notin ToSet(q), d \notin reinsertdict',
           reinsertdict' \in SUBSET Delays, IsFiniteSet(reinsertdict'),
           \A e \in ToSet(i) : e \notin ToSet(q) \union reinsertdict',
           \A e \in ToSet(q) : e \notin reinsertdict',
           \A e \in Delays \ {d} : scheduled[e] <=>
             e \in ToSet(i) \union ToSet(q) \union reinsertdict',
           \A e \in ToSet(q) \union reinsertdict' : priority[e] # 0,
           \A e \in ToSet(i) : priority[e] = 0,
           q # <<>> => delayqueue # <<>>,
           priority' \in [Delays -> Prios], priority'[d] = p,
           \A e \in Delays \ {d} : priority'[e] = priority[e],
           Enqueue(d, p, i, q, w),
           UNCHANGED <<reschedulelist, istriggering, delaysensortimeout,
                       processing, stack>>
    PROVE  /\ scheduled' \in [Sensor -> BOOLEAN] /\ idlewatch' \in BOOLEAN
           /\ DelayQueues' /\ TimerQueues' /\ Armed'
<1>0. /\ p \in Nat /\ d \in Sensor /\ Timeout \in Sensor /\ d # Timeout
      /\ \A e \in Delays : priority[e] \in Nat
      /\ scheduled \in [Sensor -> BOOLEAN] /\ idlewatch \in BOOLEAN
  BY SensorFacts DEF Typed
<1>a. /\ InsertSorted(q, d, p) \in Seq(Delays) /\ Once(InsertSorted(q, d, p))
      /\ ToSet(InsertSorted(q, d, p)) = ToSet(q) \union {d}
  <2>1. InsertSorted(q, d, p) \in Seq(Delays)
    BY <1>0, InsertSortedHolds
  <2>2. Once(InsertSorted(q, d, p))
    BY <1>0, InsertSortedHolds
  <2>3. ToSet(InsertSorted(q, d, p)) = ToSet(q) \union {d}
    BY <1>0, InsertSortedHolds
  <2> QED
    BY <2>1, <2>2, <2>3
<1>b. Sorted(InsertSorted(q, d, p), priority')
  <2> DEFINE pr == priority'
  <2>1. /\ Sorted(q, priority) /\ pr[d] = p
        /\ \A e \in Delays \ {d} : pr[e] = priority[e]
    OBVIOUS
  <2> HIDE DEF pr
  <2>2. Sorted(InsertSorted(q, d, p), pr)
    BY <1>0, <2>1, InsertSortedKeeps
  <2> QED
    BY <2>2 DEF pr
<1> DEFINE arms == p # 0 /\ delaysensortimeout # 0
<1>1. /\ immediatequeue' = IF p = 0 THEN Append(i, d) ELSE i
      /\ delayqueue' = IF p = 0 THEN q ELSE InsertSorted(q, d, p)
      /\ Arm(arms)
      /\ scheduled' = [scheduled EXCEPT ![d] = TRUE, ![Timeout] = @ \/ arms]
      /\ idlewatch' = IF p = 0 THEN w ELSE Notified(i, delayqueue')
  BY DEF Enqueue
<1> HIDE DEF arms
<1>2. arms \in BOOLEAN
  BY DEF arms
<1>3. /\ scheduled' \in [Sensor -> BOOLEAN]
      /\ scheduled'[d]
      /\ scheduled'[Timeout] <=> (scheduled[Timeout] \/ arms)
      /\ \A s \in Sensor \ {d, Timeout} : scheduled'[s] = scheduled[s]
  BY <1>0, <1>1, <1>2, Zenon
<1>4. TimerQueues'
  <2>1. \A t \in Timers : scheduled'[t] <=> scheduled[t]
    BY <1>3, SensorFacts
  <2> QED
    BY <1>1, <1>2, <1>3, <2>1, ArmKeeps
<1>5. idlewatch' \in BOOLEAN
  BY <1>0, <1>1 DEF Notified, Pending
<1>6. \A e \in Delays \ {d} : scheduled'[e] <=> scheduled[e]
  BY <1>3, SensorFacts
<1>7. DelayQueues'
  <2>1. CASE p = 0
    <3>1. immediatequeue' = Append(i, d) /\ delayqueue' = q
      BY <1>1, <2>1
    <3>2. /\ immediatequeue' \in Seq(Delays) /\ Once(immediatequeue')
          /\ ToSet(immediatequeue') = ToSet(i) \union {d}
      BY <3>1, AppendKeeps
    <3>3. Sorted(delayqueue', priority')
      <4>1. \A n \in 1..Len(q) : q[n] \in Delays \ {d}
        BY Elements
      <4> QED
        BY <3>1, <4>1 DEF Sorted
    <3>4. /\ ToSet(i) \subseteq Delays \ {d} /\ ToSet(q) \subseteq Delays \ {d}
          /\ reinsertdict' \subseteq Delays \ {d}
      BY Elements
    <3>5. /\ \A e \in ToSet(immediatequeue') : e \notin ToSet(delayqueue') \union reinsertdict'
          /\ \A e \in ToSet(delayqueue') : e \notin reinsertdict'
      BY <3>1, <3>2
    <3>6. \A e \in Delays : scheduled'[e] <=>
            e \in ToSet(immediatequeue') \union ToSet(delayqueue') \union reinsertdict'
      BY <1>3, <1>6, <3>1, <3>2
    <3>7. /\ \A e \in ToSet(delayqueue') \union reinsertdict' : priority'[e] # 0
          /\ \A e \in ToSet(immediatequeue') : priority'[e] = 0
      BY <2>1, <3>1, <3>2, <3>4
    <3> QED
      BY <3>1, <3>2, <3>3, <3>5, <3>6, <3>7 DEF DelayQueues
  <2>2. CASE p # 0
    <3>1. immediatequeue' = i /\ delayqueue' = InsertSorted(q, d, p)
      BY <1>1, <2>2
    <3>2. /\ delayqueue' \in Seq(Delays) /\ Once(delayqueue')
          /\ ToSet(delayqueue') = ToSet(q) \union {d}
      BY <1>a, <3>1
    <3>3. Sorted(delayqueue', priority')
      BY <1>b, <3>1
    <3>4. /\ ToSet(i) \subseteq Delays \ {d} /\ ToSet(q) \subseteq Delays \ {d}
          /\ reinsertdict' \subseteq Delays \ {d}
      BY Elements
    <3>5. /\ \A e \in ToSet(immediatequeue') : e \notin ToSet(delayqueue') \union reinsertdict'
          /\ \A e \in ToSet(delayqueue') : e \notin reinsertdict'
      BY <3>1, <3>2
    <3>6. \A e \in Delays : scheduled'[e] <=>
            e \in ToSet(immediatequeue') \union ToSet(delayqueue') \union reinsertdict'
      BY <1>3, <1>6, <3>1, <3>2
    <3>7. /\ \A e \in ToSet(delayqueue') \union reinsertdict' : priority'[e] # 0
          /\ \A e \in ToSet(immediatequeue') : priority'[e] = 0
      BY <2>2, <3>1, <3>2, <3>4
    <3> QED
      BY <3>1, <3>2, <3>3, <3>5, <3>6, <3>7 DEF DelayQueues
  <2> QED
    BY <2>1, <2>2
<1>8. Armed'
  <2>1. /\ delaysensortimeout' = delaysensortimeout /\ processing' = processing
        /\ stack' = stack
    OBVIOUS
  <2>2. scheduled[Timeout] => scheduled'[Timeout]
    BY <1>3
  <2>3. CASE p = 0
    BY <1>1, <2>1, <2>2, <2>3 DEF Armed
  <2>4. CASE p # 0
    BY <1>3, <2>1, <2>4 DEF Armed, arms
  <2> QED
    BY <2>3, <2>4
<1> QED
  BY <1>3, <1>4, <1>5, <1>7, <1>8

(* processImmediateQueue is called with the calls in rest below it.        *)
LEMMA CallImmediateFacts ==
    ASSUME Typed, NEW rest \in Seq(Frame), CallImmediate(rest)
    PROVE  /\ stack' \in Seq(Frame) /\ ToSet(rest) \subseteq ToSet(stack')
           /\ OneTimer(rest) => OneTimer(stack')
           /\ NoTimer(rest) => NoTimer(stack')
           /\ processing' \subseteq {"immediate", "delay", "timer"}
           /\ "timer" \in processing' <=> "timer" \in processing
           /\ "delay" \in processing' <=> "delay" \in processing
<1>1. CASE "immediate" \in processing
  BY <1>1 DEF CallImmediate, Typed
<1>2. CASE "immediate" \notin processing
  <2>1. /\ stack' = <<Immediate(0)>> \o rest
        /\ processing' = processing \union {"immediate"}
    BY <1>2 DEF CallImmediate
  <2>2. Immediate(0) \in Frame /\ Immediate(0).at # "timer"
    BY FrameFacts, SensorsAssumption
  <2>3. /\ stack' \in Seq(Frame) /\ ToSet(rest) \subseteq ToSet(stack')
        /\ OneTimer(rest) => OneTimer(stack')
        /\ NoTimer(rest) => NoTimer(stack')
    BY <2>1, <2>2, Push
  <2> QED
    BY <2>1, <2>3 DEF Typed
<1> QED
  BY <1>1, <1>2

(* Calls, and their returns, that leave the queues alone.                  *)
LEMMA QueuesStay ==
    ASSUME SensorsInv, UNCHANGED queueVars
    PROVE  /\ DelayQueues' /\ TimerQueues' /\ reschedulelist' = reschedulelist
           /\ priority' \in [Delays -> Prios] /\ scheduled' \in [Sensor -> BOOLEAN]
           /\ delaysensortimeout' \in {0, 1}
           /\ delayqueue' = delayqueue /\ delaysensortimeout' = delaysensortimeout
           /\ scheduled' = scheduled
<1>1. /\ UNCHANGED delayVars /\ UNCHANGED timerVars /\ scheduled' = scheduled
      /\ delaysensortimeout' = delaysensortimeout
  BY DEF queueVars
<1>2. DelayQueues'
  BY <1>1, DelayQueuesStay DEF SensorsInv
<1>3. TimerQueues'
  BY <1>1, TimerQueuesStay DEF SensorsInv
<1>4. priority' = priority /\ delayqueue' = delayqueue /\ reschedulelist' = reschedulelist
  BY <1>1 DEF delayVars, timerVars
<1> QED
  BY <1>1, <1>2, <1>3, <1>4 DEF SensorsInv, Typed

(***************************************************************************)
(* One lemma per action: it keeps the invariant.                           *)
(***************************************************************************)
(* No sensor is scheduled and no queue processed at first.                 *)
LEMMA InitEstablishes == Init => SensorsInv
<1> SUFFICES ASSUME Init PROVE SensorsInv
  OBVIOUS
<1>1. Typed
  BY DEF Init, Typed
<1>2. DelayQueues
  <2>1. \A d \in Delays : ~scheduled[d]
    BY SensorFacts DEF Init
  <2>2. /\ immediatequeue \in Seq(Delays) /\ delayqueue \in Seq(Delays)
        /\ immediatequeue = <<>> /\ delayqueue = <<>> /\ reinsertdict = {}
    BY DEF Init
  <2>3. Sorted(delayqueue, priority)
    BY <2>2 DEF Sorted
  <2> QED
    BY <2>1, <2>2, <2>3, NoElements, FS_EmptySet DEF DelayQueues
<1>3. TimerQueues
  <2>1. \A t \in Timers \union {Timeout} : ~scheduled[t]
    BY SensorFacts DEF Init
  <2>2. /\ timerqueue \in Seq(Timers \union {Timeout}) /\ timerqueue = <<>>
        /\ reschedulelist \in Seq(Timers) /\ reschedulelist = <<>>
        /\ due \in 0..Len(timerqueue) /\ istriggering = {}
    BY DEF Init
  <2> QED
    BY <2>1, <2>2, NoElements DEF TimerQueues
<1>4. Frames
  <2>1. stack \in Seq(Frame) /\ stack = <<>> /\ reschedulelist = <<>>
    BY DEF Init
  <2> QED
    BY <2>1, NoElements DEF Frames, OneTimer, NoTimer
<1>5. Armed
  BY DEF Init, Armed
<1> QED
  BY <1>1, <1>2, <1>3, <1>4, <1>5 DEF SensorsInv

(* SoDelayQueueSensor::schedule: a sensor in no queue goes to the one of its *)
(* priority.                                                               *)
LEMMA ScheduleKeeps ==
    ASSUME SensorsInv, NEW d \in Delays, Schedule(d)
    PROVE  SensorsInv'
<1> USE DEF SensorsInv
<1>1. /\ ~scheduled[d]
      /\ Enqueue(d, priority[d], immediatequeue, delayqueue, idlewatch)
      /\ UNCHANGED <<reinsertdict, triggerdict, priority, reschedulelist,
                     istriggering, delaysensortimeout, processing, stack>>
  BY DEF Schedule
<1>2. /\ priority \in [Delays -> Prios] /\ priority[d] \in Prios
      /\ idlewatch \in BOOLEAN
  BY DEF Typed
<1>3. /\ d \notin ToSet(immediatequeue) /\ d \notin ToSet(delayqueue)
      /\ d \notin reinsertdict
  BY <1>1 DEF DelayQueues
<1>4. /\ immediatequeue \in Seq(Delays) /\ Once(immediatequeue)
      /\ delayqueue \in Seq(Delays) /\ Once(delayqueue)
      /\ Sorted(delayqueue, priority)
  BY DEF DelayQueues
<1>5. /\ reinsertdict' = reinsertdict /\ priority' = priority
      /\ reinsertdict \in SUBSET Delays /\ IsFiniteSet(reinsertdict)
  BY <1>1 DEF DelayQueues
<1>6. /\ \A e \in ToSet(immediatequeue) : e \notin ToSet(delayqueue) \union reinsertdict'
      /\ \A e \in ToSet(delayqueue) : e \notin reinsertdict'
      /\ \A e \in Delays \ {d} : scheduled[e] <=>
           e \in ToSet(immediatequeue) \union ToSet(delayqueue) \union reinsertdict'
      /\ \A e \in ToSet(delayqueue) \union reinsertdict' : priority[e] # 0
      /\ \A e \in ToSet(immediatequeue) : priority[e] = 0
  BY <1>5 DEF DelayQueues
<1>7. /\ scheduled' \in [Sensor -> BOOLEAN] /\ idlewatch' \in BOOLEAN
      /\ DelayQueues' /\ TimerQueues' /\ Armed'
  BY <1>1, <1>2, <1>3, <1>4, <1>5, <1>6, EnqueueKeeps
<1>8. Frames'
  BY <1>1, FramesStay
<1>9. Typed'
  BY <1>1, <1>7 DEF Typed
<1> QED
  BY <1>7, <1>8, <1>9

(* SoDelayQueueSensor::unschedule: it is in no queue any more.             *)
LEMMA UnscheduleKeeps ==
    ASSUME SensorsInv, NEW d \in Delays, Unschedule(d)
    PROVE  SensorsInv'
<1> USE DEF SensorsInv
<1>1. /\ immediatequeue' = RemoveFirst(immediatequeue, d)
      /\ delayqueue' = RemoveFirst(delayqueue, d)
      /\ reinsertdict' = reinsertdict \ {d}
      /\ scheduled' = [scheduled EXCEPT ![d] = FALSE]
      /\ idlewatch' = Notified(immediatequeue', delayqueue')
      /\ UNCHANGED <<triggerdict, priority, timerVars, delaysensortimeout,
                     processing, stack>>
  BY DEF Unschedule
<1>2. /\ scheduled' \in [Sensor -> BOOLEAN] /\ ~scheduled'[d]
      /\ \A s \in Sensor \ {d} : scheduled'[s] = scheduled[s]
  BY <1>1, SensorFacts DEF Typed
<1>3. Typed'
  <2>1. idlewatch' \in BOOLEAN
    BY <1>1 DEF Notified, Pending, Typed
  <2> QED
    BY <1>1, <1>2, <2>1 DEF Typed
<1>4. DelayQueues'
  <2>1. /\ immediatequeue' \in Seq(Delays) /\ Once(immediatequeue')
        /\ ToSet(immediatequeue') = ToSet(immediatequeue) \ {d}
    BY <1>1, RemoveKeeps DEF DelayQueues
  <2>2. /\ delayqueue' \in Seq(Delays) /\ Once(delayqueue')
        /\ ToSet(delayqueue') = ToSet(delayqueue) \ {d}
        /\ Sorted(delayqueue', priority)
    BY <1>1, RemoveKeeps DEF DelayQueues
  <2>3. reinsertdict' \in SUBSET Delays /\ IsFiniteSet(reinsertdict')
    BY <1>1, FS_RemoveElement DEF DelayQueues
  <2>4. priority' = priority
    BY <1>1
  <2>5. \A e \in Delays \ {d} : scheduled'[e] = scheduled[e]
    BY <1>2, SensorFacts
  <2>6. \A e \in Delays : scheduled'[e] <=>
          e \in ToSet(immediatequeue') \union ToSet(delayqueue') \union reinsertdict'
    BY <1>1, <1>2, <2>1, <2>2, <2>5 DEF DelayQueues
  <2>7. /\ \A e \in ToSet(immediatequeue') : e \notin ToSet(delayqueue') \union reinsertdict'
        /\ \A e \in ToSet(delayqueue') : e \notin reinsertdict'
        /\ \A e \in ToSet(delayqueue') \union reinsertdict' : priority'[e] # 0
        /\ \A e \in ToSet(immediatequeue') : priority'[e] = 0
    BY <1>1, <2>1, <2>2, <2>4 DEF DelayQueues
  <2> QED
    BY <2>1, <2>2, <2>3, <2>4, <2>6, <2>7 DEF DelayQueues
<1>5. TimerQueues'
  BY <1>1, <1>2, SensorFacts, TimerQueuesStay
<1>6. Frames'
  BY <1>1, FramesStay DEF timerVars
<1>7. Armed'
  <2>1. delayqueue' # <<>> => delayqueue # <<>>
    <3>1. ToSet(delayqueue') \subseteq ToSet(delayqueue)
      BY <1>1, RemoveKeeps DEF DelayQueues
    <3>2. delayqueue \in Seq(Delays) /\ delayqueue' \in Seq(Delays)
      BY <1>4 DEF DelayQueues
    <3> QED
      BY <3>1, <3>2, Elements
  <2>2. scheduled'[Timeout] = scheduled[Timeout]
    BY <1>2, SensorFacts
  <2>3. delaysensortimeout' = delaysensortimeout /\ processing' = processing /\ stack' = stack
    BY <1>1
  <2> QED
    BY <2>1, <2>2, <2>3 DEF Armed
<1> QED
  BY <1>3, <1>4, <1>5, <1>6, <1>7

(* SoDelayQueueSensor::setPriority: a scheduled sensor changes places.     *)
LEMMA SetPriorityKeeps ==
    ASSUME SensorsInv, NEW d \in Delays, NEW p \in Prios, SetPriority(d, p)
    PROVE  SensorsInv'
<1> USE DEF SensorsInv
<1> DEFINE i == RemoveFirst(immediatequeue, d)
           q == RemoveFirst(delayqueue, d)
<1>1. /\ priority' = [priority EXCEPT ![d] = p]
      /\ UNCHANGED <<triggerdict, reschedulelist, istriggering,
                     delaysensortimeout, processing, stack>>
      /\ scheduled[d] => /\ reinsertdict' = reinsertdict \ {d}
                         /\ Enqueue(d, p, i, q, Notified(i, q))
      /\ ~scheduled[d] =>
           UNCHANGED <<immediatequeue, delayqueue, reinsertdict, timerqueue,
                       due, scheduled, idlewatch>>
  BY DEF SetPriority
<1>2. /\ priority' \in [Delays -> Prios] /\ priority'[d] = p
      /\ \A e \in Delays \ {d} : priority'[e] = priority[e]
  BY <1>1 DEF Typed
<1>3. Frames'
  BY <1>1, FramesStay
<1>4. CASE scheduled[d]
  <2>1. /\ i \in Seq(Delays) /\ Once(i)
        /\ ToSet(i) = ToSet(immediatequeue) \ {d}
    BY RemoveKeeps DEF DelayQueues
  <2>2. /\ q \in Seq(Delays) /\ Once(q)
        /\ ToSet(q) = ToSet(delayqueue) \ {d}
        /\ Sorted(q, priority)
    BY RemoveKeeps DEF DelayQueues
  <2>3. reinsertdict' = reinsertdict \ {d}
    BY <1>1, <1>4
  <2>4. reinsertdict' \in SUBSET Delays /\ IsFiniteSet(reinsertdict')
    BY <2>3, FS_RemoveElement DEF DelayQueues
  <2>5. q # <<>> => delayqueue # <<>>
    <3>1. delayqueue \in Seq(Delays)
      BY DEF DelayQueues
    <3> HIDE DEF q
    <3> QED
      BY <2>2, <3>1, Elements
  <2>6. Notified(i, q) \in BOOLEAN
    BY DEF Notified, Pending, Typed
  <2>7. Enqueue(d, p, i, q, Notified(i, q))
    BY <1>1, <1>4
  <2>8. /\ \A e \in ToSet(i) : e \notin ToSet(q) \union reinsertdict'
        /\ \A e \in ToSet(q) : e \notin reinsertdict'
        /\ \A e \in Delays \ {d} : scheduled[e] <=>
             e \in ToSet(i) \union ToSet(q) \union reinsertdict'
        /\ \A e \in ToSet(q) \union reinsertdict' : priority[e] # 0
        /\ \A e \in ToSet(i) : priority[e] = 0
        /\ d \notin ToSet(i) /\ d \notin ToSet(q) /\ d \notin reinsertdict'
    <3> HIDE DEF i, q
    <3> QED
      BY <2>1, <2>2, <2>3 DEF DelayQueues
  <2>9. /\ scheduled' \in [Sensor -> BOOLEAN] /\ idlewatch' \in BOOLEAN
        /\ DelayQueues' /\ TimerQueues' /\ Armed'
    <3> DEFINE w == Notified(i, q)
    <3>1. Enqueue(d, p, i, q, w) /\ w \in BOOLEAN
      BY <2>6, <2>7
    <3> HIDE DEF i, q, w
    <3> QED
      BY <1>1, <1>2, <2>1, <2>2, <2>4, <2>5, <2>8, <3>1, EnqueueKeeps
  <2> QED
    BY <1>1, <1>2, <1>3, <2>9 DEF Typed
<1>5. CASE ~scheduled[d]
  <2>1. UNCHANGED <<immediatequeue, delayqueue, reinsertdict, timerqueue,
                    due, scheduled, idlewatch>>
    BY <1>1, <1>5
  <2>2. Typed'
    BY <1>1, <1>2, <2>1 DEF Typed
  <2>3. DelayQueues'
    <3>1. /\ ToSet(immediatequeue) \subseteq Delays \ {d}
          /\ ToSet(delayqueue) \subseteq Delays \ {d}
          /\ reinsertdict \subseteq Delays \ {d}
      <4>1. /\ ToSet(immediatequeue) \subseteq Delays
            /\ ToSet(delayqueue) \subseteq Delays
        BY Elements DEF DelayQueues
      <4> QED
        BY <1>5, <4>1 DEF DelayQueues
    <3>2. Sorted(delayqueue, priority')
      <4>1. \A n \in 1..Len(delayqueue) : delayqueue[n] \in Delays \ {d}
        BY <3>1, Elements DEF DelayQueues
      <4> QED
        BY <1>2, <4>1 DEF Sorted, DelayQueues
    <3>3. /\ \A e \in ToSet(delayqueue) \union reinsertdict : priority'[e] # 0
          /\ \A e \in ToSet(immediatequeue) : priority'[e] = 0
      BY <1>2, <3>1 DEF DelayQueues
    <3>4. /\ immediatequeue' = immediatequeue /\ delayqueue' = delayqueue
          /\ reinsertdict' = reinsertdict /\ scheduled' = scheduled
      BY <2>1
    <3> QED
      BY <3>2, <3>3, <3>4 DEF DelayQueues
  <2>4. TimerQueues'
    BY <1>1, <2>1, TimerQueuesStay DEF timerVars
  <2>5. Armed'
    BY <1>1, <2>1 DEF Armed
  <2> QED
    BY <1>3, <2>2, <2>3, <2>4, <2>5
<1> QED
  BY <1>4, <1>5 DEF Typed

(* SoTimerSensor::schedule: a timer that is not scheduled does not trigger *)
(* either, so the branch for istriggering is never taken.                  *)
LEMMA ScheduleTimerKeeps ==
    ASSUME SensorsInv, NEW t \in Timers, ScheduleTimer(t)
    PROVE  SensorsInv'
<1> USE DEF SensorsInv
<1>1. t \notin ToSet(timerqueue) /\ t \notin ToSet(reschedulelist) /\ ~scheduled[t]
  BY DEF ScheduleTimer, TimerQueues
<1>2. t \notin istriggering
  BY <1>1 DEF TimerQueues
<1>3. /\ InsertTimer(timerqueue, due, t)
      /\ scheduled' = [scheduled EXCEPT ![t] = TRUE]
      /\ idlewatch' = Notified(immediatequeue, delayqueue)
      /\ UNCHANGED <<reschedulelist, delayVars, triggerdict, istriggering,
                     delaysensortimeout, processing, stack>>
  BY <1>2 DEF ScheduleTimer
<1>4. /\ scheduled' \in [Sensor -> BOOLEAN] /\ scheduled'[t]
      /\ \A s \in Sensor \ {t} : scheduled'[s] = scheduled[s]
  BY <1>3, SensorFacts DEF Typed
<1>5. Typed'
  <2>1. idlewatch' \in BOOLEAN
    BY <1>3 DEF Notified, Pending, Typed
  <2> QED
    BY <1>3, <1>4, <2>1 DEF Typed, delayVars
<1>6. DelayQueues'
  BY <1>3, <1>4, SensorFacts, DelayQueuesStay
<1>7. TimerQueues'
  <2>1. /\ timerqueue' \in Seq(Timers \union {Timeout}) /\ Once(timerqueue')
        /\ ToSet(timerqueue') = ToSet(timerqueue) \union {t}
        /\ due' \in 0..Len(timerqueue')
    BY <1>1, <1>3, InsertTimerFacts DEF TimerQueues
  <2>2. reschedulelist' = reschedulelist /\ istriggering' = istriggering
    BY <1>3
  <2>3. /\ \A u \in ToSet(timerqueue') : u \notin ToSet(reschedulelist)
        /\ \A u \in Timers \union {Timeout} : scheduled'[u] <=>
             u \in ToSet(timerqueue') \union ToSet(reschedulelist)
    BY <1>1, <1>4, <2>1, SensorFacts DEF TimerQueues
  <2> QED
    BY <2>1, <2>2, <2>3 DEF TimerQueues
<1>8. Frames'
  BY <1>3, FramesStay
<1>9. Armed'
  <2>1. scheduled'[Timeout] = scheduled[Timeout]
    BY <1>4, SensorFacts
  <2> QED
    BY <1>3, <2>1 DEF Armed, delayVars
<1> QED
  BY <1>5, <1>6, <1>7, <1>8, <1>9

(* SoTimerSensor::unschedule: from the list if it triggers, else from the  *)
(* queue.                                                                  *)
LEMMA UnscheduleTimerKeeps ==
    ASSUME SensorsInv, NEW t \in Timers, UnscheduleTimer(t)
    PROVE  SensorsInv'
<1> USE DEF SensorsInv
<1>1. /\ istriggering' = istriggering \ {t}
      /\ scheduled' = [scheduled EXCEPT ![t] = FALSE]
      /\ UNCHANGED <<delayVars, triggerdict, delaysensortimeout, processing, stack>>
      /\ scheduled[t]
  BY DEF UnscheduleTimer
<1>2. /\ scheduled' \in [Sensor -> BOOLEAN] /\ ~scheduled'[t]
      /\ \A s \in Sensor \ {t} : scheduled'[s] = scheduled[s]
  BY <1>1, SensorFacts DEF Typed
<1>3. idlewatch' \in BOOLEAN
  BY DEF UnscheduleTimer, Notified, Pending, Typed
<1>4. Typed'
  BY <1>1, <1>2, <1>3 DEF Typed, delayVars
<1>5. DelayQueues'
  BY <1>1, <1>2, SensorFacts, DelayQueuesStay
<1>6. /\ reschedulelist \in Seq(Timers) /\ Once(reschedulelist)
      /\ istriggering = ToSet(reschedulelist)
  BY DEF TimerQueues
<1>7. Contains(reschedulelist, t) <=> t \in ToSet(reschedulelist)
  BY <1>6, Elements
<1>8. TimerQueues' /\ (reschedulelist = <<>> => reschedulelist' = <<>>)
  <2>1. CASE t \in istriggering
    <3>1. /\ reschedulelist' = RemoveFirst(reschedulelist, t)
          /\ timerqueue' = timerqueue /\ due' = due
      BY <1>6, <1>7, <2>1 DEF UnscheduleTimer
    <3>2. /\ reschedulelist' \in Seq(Timers) /\ Once(reschedulelist')
          /\ ToSet(reschedulelist') = ToSet(reschedulelist) \ {t}
      BY <1>6, <3>1, RemoveKeeps
    <3>3. t \notin ToSet(timerqueue)
      BY <2>1 DEF TimerQueues
    <3>4. \A u \in Timers \union {Timeout} : scheduled'[u] <=>
            u \in ToSet(timerqueue) \union ToSet(reschedulelist')
      BY <1>2, <3>2, <3>3, SensorFacts DEF TimerQueues
    <3>5. reschedulelist # <<>>
      BY <1>6, <2>1, NoElements
    <3> QED
      BY <1>1, <1>6, <3>1, <3>2, <3>4, <3>5 DEF TimerQueues
  <2>2. CASE t \notin istriggering
    <3>1. RemoveTimer(t) /\ reschedulelist' = reschedulelist
      BY <2>2 DEF UnscheduleTimer
    <3>2. /\ timerqueue' = RemoveFirst(timerqueue, t) /\ due' = DueWithout(t)
      BY <3>1 DEF RemoveTimer
    <3>3. /\ timerqueue' \in Seq(Timers \union {Timeout}) /\ Once(timerqueue')
          /\ ToSet(timerqueue') = ToSet(timerqueue) \ {t}
          /\ due' \in 0..Len(timerqueue')
      BY <3>2, WithoutFacts
    <3>4. istriggering' = istriggering
      BY <1>1, <2>2
    <3>5. /\ \A u \in ToSet(timerqueue') : u \notin ToSet(reschedulelist)
          /\ \A u \in Timers \union {Timeout} : scheduled'[u] <=>
               u \in ToSet(timerqueue') \union ToSet(reschedulelist)
      BY <1>2, <1>6, <2>2, <3>3, SensorFacts DEF TimerQueues
    <3> QED
      BY <3>1, <3>3, <3>4, <3>5 DEF TimerQueues
  <2> QED
    BY <2>1, <2>2
<1>9. Frames'
  <2>1. stack' = stack /\ processing' = processing
    BY <1>1
  <2> QED
    BY <1>8, <2>1 DEF Frames
<1>10. Armed'
  <2>1. scheduled'[Timeout] = scheduled[Timeout]
    BY <1>2, SensorFacts
  <2> QED
    BY <1>1, <2>1 DEF Armed, delayVars
<1> QED
  BY <1>4, <1>5, <1>8, <1>9, <1>10

(* setDelaySensorTimeout: the timeout is taken out, moved, or put in.      *)
LEMMA SetDelaySensorTimeoutKeeps ==
    ASSUME SensorsInv, NEW v \in {0, 1}, SetDelaySensorTimeout(v)
    PROVE  SensorsInv'
<1> USE DEF SensorsInv
<1>1. /\ delaysensortimeout' = v
      /\ UNCHANGED <<delayVars, triggerdict, reschedulelist, istriggering,
                     processing, stack>>
  BY DEF SetDelaySensorTimeout
<1>2. Frames'
  BY <1>1, FramesStay
<1>3. Timeout \in Sensor /\ Timeout \notin ToSet(reschedulelist)
  <2>1. ToSet(reschedulelist) \subseteq Timers
    BY Elements DEF TimerQueues
  <2> QED
    BY <2>1, SensorFacts
<1>4. idlewatch' \in BOOLEAN
  BY DEF SetDelaySensorTimeout, Notified, Pending, Typed
<1>5. CASE v = 0 /\ scheduled[Timeout]
  <2>1. /\ timerqueue' = RemoveFirst(timerqueue, Timeout)
        /\ due' = DueWithout(Timeout)
        /\ scheduled' = [scheduled EXCEPT ![Timeout] = FALSE]
    BY <1>5 DEF SetDelaySensorTimeout, RemoveTimer
  <2>2. /\ scheduled' \in [Sensor -> BOOLEAN] /\ ~scheduled'[Timeout]
        /\ \A s \in Sensor \ {Timeout} : scheduled'[s] = scheduled[s]
    BY <1>3, <2>1 DEF Typed
  <2>3. /\ timerqueue' \in Seq(Timers \union {Timeout}) /\ Once(timerqueue')
        /\ ToSet(timerqueue') = ToSet(timerqueue) \ {Timeout}
        /\ due' \in 0..Len(timerqueue')
    BY <2>1, WithoutFacts
  <2>4. /\ \A u \in ToSet(timerqueue') : u \notin ToSet(reschedulelist)
        /\ \A u \in Timers \union {Timeout} : scheduled'[u] <=>
             u \in ToSet(timerqueue') \union ToSet(reschedulelist)
    BY <1>3, <2>2, <2>3, SensorFacts DEF TimerQueues
  <2>5. TimerQueues'
    BY <1>1, <2>3, <2>4 DEF TimerQueues
  <2>6. DelayQueues'
    BY <1>1, <2>2, SensorFacts, DelayQueuesStay
  <2>7. Typed'
    BY <1>1, <1>4, <2>2 DEF Typed, delayVars
  <2>8. Armed'
    BY <1>1, <1>5 DEF Armed
  <2> QED
    BY <1>2, <2>5, <2>6, <2>7, <2>8
<1>6. CASE ~(v = 0 /\ scheduled[Timeout]) /\ delayqueue # <<>>
  <2> DEFINE rest == RemoveFirst(timerqueue, Timeout)
             n == DueWithout(Timeout)
  <2>1. /\ InsertTimer(rest, n, Timeout)
        /\ scheduled' = [scheduled EXCEPT ![Timeout] = TRUE]
    BY <1>6 DEF SetDelaySensorTimeout
  <2>2. /\ scheduled' \in [Sensor -> BOOLEAN] /\ scheduled'[Timeout]
        /\ \A s \in Sensor \ {Timeout} : scheduled'[s] = scheduled[s]
    BY <1>3, <2>1 DEF Typed
  <2>3. /\ rest \in Seq(Timers \union {Timeout}) /\ Once(rest)
        /\ ToSet(rest) = ToSet(timerqueue) \ {Timeout}
        /\ n \in 0..Len(rest)
    BY WithoutFacts
  <2> HIDE DEF rest, n
  <2>4. /\ timerqueue' \in Seq(Timers \union {Timeout}) /\ Once(timerqueue')
        /\ ToSet(timerqueue') = ToSet(rest) \union {Timeout}
        /\ due' \in 0..Len(timerqueue')
    BY <2>1, <2>3, InsertTimerFacts
  <2>5. /\ \A u \in ToSet(timerqueue') : u \notin ToSet(reschedulelist)
        /\ \A u \in Timers \union {Timeout} : scheduled'[u] <=>
             u \in ToSet(timerqueue') \union ToSet(reschedulelist)
    BY <1>3, <2>2, <2>3, <2>4, SensorFacts DEF TimerQueues
  <2>6. TimerQueues'
    BY <1>1, <2>4, <2>5 DEF TimerQueues
  <2>7. DelayQueues'
    BY <1>1, <2>2, SensorFacts, DelayQueuesStay
  <2>8. Typed'
    BY <1>1, <1>4, <2>2 DEF Typed, delayVars
  <2>9. Armed'
    BY <2>2 DEF Armed
  <2> QED
    BY <1>2, <2>6, <2>7, <2>8, <2>9
<1>7. CASE ~(v = 0 /\ scheduled[Timeout]) /\ delayqueue = <<>>
  <2>1. UNCHANGED <<timerqueue, due, scheduled, idlewatch>>
    BY <1>7 DEF SetDelaySensorTimeout
  <2>2. DelayQueues'
    BY <1>1, <2>1, DelayQueuesStay
  <2>3. TimerQueues'
    BY <1>1, <2>1, TimerQueuesStay DEF timerVars
  <2>4. Typed'
    BY <1>1, <2>1 DEF Typed, delayVars
  <2>5. Armed'
    BY <1>1, <1>7 DEF Armed, delayVars
  <2> QED
    BY <1>2, <2>2, <2>3, <2>4, <2>5
<1> QED
  BY <1>5, <1>6, <1>7

(* A timer is due.                                                         *)
LEMMA TickKeeps ==
    ASSUME SensorsInv, NEW s \in Timers \union {Timeout}, Tick(s)
    PROVE  SensorsInv'
<1> USE DEF SensorsInv
<1>1. UNCHANGED <<delayVars, triggerdict, timerqueue, reschedulelist,
                  istriggering, scheduled, delaysensortimeout, processing,
                  stack, idlewatch>>
  BY DEF Tick
<1>2. due' \in 0..Len(timerqueue)
  <2>1. PICK i \in due + 1 .. Len(timerqueue) : due' = i
    BY DEF Tick
  <2>2. due \in Nat /\ Len(timerqueue) \in Nat
    BY DEF TimerQueues
  <2> QED
    BY <2>1, <2>2
<1>3. TimerQueues'
  BY <1>1, <1>2 DEF TimerQueues
<1>4. DelayQueues'
  BY <1>1, DelayQueuesStay
<1>5. Frames'
  BY <1>1, FramesStay
<1>6. Typed'
  BY <1>1 DEF Typed, delayVars
<1>7. Armed'
  BY <1>1 DEF Armed, delayVars
<1> QED
  BY <1>3, <1>4, <1>5, <1>6, <1>7

(* Calls of processImmediateQueue, with what is below it on the stack.     *)
LEMMA ImmediateCalled ==
    ASSUME SensorsInv, NEW rest \in Seq(Frame), ToSet(stack) \subseteq ToSet(rest),
           OneTimer(rest), NoTimer(stack) => NoTimer(rest), CallImmediate(rest),
           UNCHANGED <<queueVars, triggerdict, idlewatch>>
    PROVE  SensorsInv'
<1> USE DEF SensorsInv
<1>1. /\ DelayQueues' /\ TimerQueues' /\ reschedulelist' = reschedulelist
      /\ priority' \in [Delays -> Prios] /\ scheduled' \in [Sensor -> BOOLEAN]
      /\ delaysensortimeout' \in {0, 1}
      /\ delayqueue' = delayqueue /\ delaysensortimeout' = delaysensortimeout
      /\ scheduled' = scheduled
  BY QueuesStay
<1>2. /\ stack' \in Seq(Frame) /\ ToSet(rest) \subseteq ToSet(stack')
      /\ OneTimer(rest) => OneTimer(stack')
      /\ NoTimer(rest) => NoTimer(stack')
      /\ processing' \subseteq {"immediate", "delay", "timer"}
      /\ "timer" \in processing' <=> "timer" \in processing
      /\ "delay" \in processing' <=> "delay" \in processing
  BY CallImmediateFacts
<1>3. Typed'
  BY <1>1, <1>2 DEF Typed
<1>4. Frames'
  BY <1>1, <1>2 DEF Frames
<1>5. Armed'
  BY <1>1, <1>2 DEF Armed
<1> QED
  BY <1>1, <1>3, <1>4, <1>5

(* SoDB::endNotify processes the immediate queue.                          *)
LEMMA EndNotifyKeeps ==
    ASSUME SensorsInv, EndNotify
    PROVE  SensorsInv'
<1>1. CallImmediate(stack) /\ UNCHANGED <<queueVars, triggerdict, idlewatch>>
  BY DEF EndNotify
<1>2. stack \in Seq(Frame) /\ OneTimer(stack)
  BY DEF SensorsInv, Frames
<1> QED
  BY <1>1, <1>2, ImmediateCalled

(* A callback processes the delay queue.                                   *)
LEMMA NestedDelayKeeps ==
    ASSUME SensorsInv, NEW idle \in BOOLEAN, NestedDelay(idle)
    PROVE  SensorsInv'
<1> DEFINE rest == <<Enter(idle)>> \o stack
<1>1. CallImmediate(rest) /\ UNCHANGED <<queueVars, triggerdict, idlewatch>>
  BY DEF NestedDelay
<1>2. stack \in Seq(Frame) /\ OneTimer(stack)
  BY DEF SensorsInv, Frames
<1>3. Enter(idle) \in Frame /\ Enter(idle).at # "timer"
  BY FrameFacts
<1>4. /\ rest \in Seq(Frame) /\ ToSet(stack) \subseteq ToSet(rest)
      /\ OneTimer(rest) /\ (NoTimer(stack) => NoTimer(rest))
  BY <1>2, <1>3, Push
<1> HIDE DEF rest
<1> QED
  BY <1>1, <1>4, ImmediateCalled

(* The frames of the application's calls.                                  *)
LEMMA AppFrames ==
    /\ <<App>> \in Seq(Frame) /\ OneTimer(<<App>>) /\ NoTimer(<<App>>)
    /\ <<Enter(TRUE), App>> \in Seq(Frame)
    /\ OneTimer(<<Enter(TRUE), App>>) /\ NoTimer(<<Enter(TRUE), App>>)
<1>1. /\ App \in Frame /\ App.at # "timer"
      /\ Enter(TRUE) \in Frame /\ Enter(TRUE).at # "timer"
  BY FrameFacts
<1> DEFINE e == Enter(TRUE)
           a == <<App>>
           b == <<e, App>>
<1>0. e \in Frame /\ e.at # "timer"
  BY <1>1
<1> HIDE DEF e
<1>2. a \in Seq(Frame) /\ Len(a) = 1 /\ a[1] = App
  BY <1>1
<1>3. b \in Seq(Frame) /\ Len(b) = 2 /\ b[1] = e /\ b[2] = App
  BY <1>0, <1>1
<1> HIDE DEF a, b
<1>4. \A i \in 1..Len(a) : a[i].at # "timer"
  BY <1>1, <1>2
<1>5. \A i \in 1..Len(b) : b[i].at # "timer"
  <2>1. \A i \in 1..Len(b) : i = 1 \/ i = 2
    BY <1>3
  <2> QED
    BY <1>0, <1>1, <1>3, <2>1
<1>6. OneTimer(a) /\ OneTimer(b)
  BY <1>4, <1>5 DEF OneTimer
<1>7. NoTimer(a) /\ NoTimer(b)
  BY <1>2, <1>3, <1>4, <1>5, Elements DEF NoTimer
<1> QED
  BY <1>2, <1>3, <1>6, <1>7, Zenon DEF a, b, e

(* The application processes the delay queue.                              *)
LEMMA AppIdleKeeps ==
    ASSUME SensorsInv, AppIdle
    PROVE  SensorsInv'
<1> DEFINE rest == <<Enter(TRUE), App>>
<1>1. /\ CallImmediate(rest) /\ UNCHANGED <<queueVars, triggerdict, idlewatch>>
      /\ stack = <<>>
  BY DEF AppIdle
<1>2. rest \in Seq(Frame) /\ OneTimer(rest) /\ NoTimer(rest)
  BY AppFrames
<1> HIDE DEF rest
<1>3. ToSet(stack) = {}
  BY <1>1, NoElements
<1> QED
  BY <1>1, <1>2, <1>3, ImmediateCalled

(* Calls of processTimerQueue.                                             *)
LEMMA TimersCalled ==
    ASSUME SensorsInv, NEW rest \in Seq(Frame), ToSet(stack) \subseteq ToSet(rest),
           NoTimer(stack) => NoTimer(rest), CallTimers(rest)
    PROVE  SensorsInv'
<1> USE DEF SensorsInv
<1>1. /\ "timer" \notin processing
      /\ stack' = <<Timer>> \o rest
      /\ processing' = processing \union {"timer"}
      /\ UNCHANGED <<queueVars, triggerdict, idlewatch>>
  BY DEF CallTimers
<1>2. /\ DelayQueues' /\ TimerQueues' /\ reschedulelist' = reschedulelist
      /\ priority' \in [Delays -> Prios] /\ scheduled' \in [Sensor -> BOOLEAN]
      /\ delaysensortimeout' \in {0, 1}
      /\ delayqueue' = delayqueue /\ delaysensortimeout' = delaysensortimeout
      /\ scheduled' = scheduled
  BY <1>1, QueuesStay
<1>3. Timer \in Frame
  BY FrameFacts
<1>4. NoTimer(rest)
  BY <1>1 DEF Frames
<1>5. /\ stack' \in Seq(Frame) /\ OneTimer(stack')
      /\ ToSet(rest) \subseteq ToSet(stack')
  BY <1>1, <1>3, <1>4, Push
<1>6. Typed'
  BY <1>1, <1>2 DEF Typed
<1>7. Frames'
  BY <1>1, <1>5 DEF Frames
<1>8. Armed'
  BY <1>1, <1>2, <1>5 DEF Armed
<1> QED
  BY <1>2, <1>6, <1>7, <1>8

(* A callback processes the timer queue.                                   *)
LEMMA NestedTimersKeeps ==
    ASSUME SensorsInv, NestedTimers
    PROVE  SensorsInv'
BY TimersCalled DEF NestedTimers, SensorsInv, Frames

(* The application processes the timer queue.                              *)
LEMMA AppTimersKeeps ==
    ASSUME SensorsInv, AppTimers
    PROVE  SensorsInv'
<1>1. CallTimers(<<App>>) /\ stack = <<>>
  BY DEF AppTimers
<1> DEFINE rest == <<App>>
<1>2. rest \in Seq(Frame) /\ NoTimer(rest) /\ CallTimers(rest)
  BY <1>1, AppFrames
<1> HIDE DEF rest
<1>3. ToSet(stack) = {}
  BY <1>1, NoElements
<1> QED
  BY <1>2, <1>3, TimersCalled

(* A return that leaves the queues alone: the top frame, which is not that *)
(* of the timer queue nor a call of processDelayQueue, is taken off.       *)
LEMMA Returned ==
    ASSUME SensorsInv, stack # <<>>, stack' = Tail(stack),
           Head(stack).at # "timer",
           Head(stack) = Enter(FALSE) =>
             "delay" \in processing \/ delayqueue = <<>>,
           processing' \subseteq processing,
           \A x \in {"delay", "timer"} : x \in processing => x \in processing',
           UNCHANGED <<queueVars, triggerdict>>, idlewatch' \in BOOLEAN
    PROVE  SensorsInv'
<1> USE DEF SensorsInv
<1>1. /\ DelayQueues' /\ TimerQueues' /\ reschedulelist' = reschedulelist
      /\ priority' \in [Delays -> Prios] /\ scheduled' \in [Sensor -> BOOLEAN]
      /\ delaysensortimeout' \in {0, 1}
      /\ delayqueue' = delayqueue /\ delaysensortimeout' = delaysensortimeout
      /\ scheduled' = scheduled
  BY QueuesStay
<1>2. stack \in Seq(Frame)
  BY DEF Frames
<1>3. /\ stack' \in Seq(Frame)
      /\ ToSet(stack) = ToSet(stack') \union {Head(stack)}
      /\ OneTimer(stack) => OneTimer(stack')
      /\ NoTimer(stack) => NoTimer(stack')
  BY <1>2, Pop
<1>4. Typed'
  BY <1>1 DEF Typed
<1>5. Frames'
  BY <1>1, <1>3 DEF Frames
<1>6. Armed'
  <2>1. CASE "delay" \in processing
    <3>1. "delay" \in processing'
      BY <2>1
    <3> QED
      BY <3>1 DEF Armed
  <2>2. CASE delayqueue = <<>>
    BY <1>1, <2>2 DEF Armed
  <2>3. CASE "delay" \notin processing /\ delayqueue # <<>>
    BY <1>1, <1>3, <2>3 DEF Armed
  <2> QED
    BY <2>1, <2>2, <2>3
<1> QED
  BY <1>1, <1>4, <1>5, <1>6

(* The application has processed a queue.                                  *)
LEMMA AppLooksKeeps ==
    ASSUME SensorsInv, AppLooks
    PROVE  SensorsInv'
<1>1. /\ stack # <<>> /\ Head(stack).at = "app" /\ stack' = Tail(stack)
      /\ processing' = processing /\ idlewatch' \in BOOLEAN
      /\ UNCHANGED <<queueVars, triggerdict>>
  BY DEF AppLooks, At, Pending
<1>2. Head(stack) # Enter(FALSE)
  BY <1>1, FrameFacts
<1> QED
  BY <1>1, <1>2, Returned

(* A callback returns.                                                     *)
LEMMA ReturnKeeps ==
    ASSUME SensorsInv, Return
    PROVE  SensorsInv'
<1>1. /\ stack # <<>> /\ Head(stack).at = "callback" /\ stack' = Tail(stack)
      /\ processing' = processing /\ idlewatch' \in BOOLEAN
      /\ UNCHANGED <<queueVars, triggerdict>>
  BY DEF Return, At, SensorsInv, Typed
<1>2. Head(stack) # Enter(FALSE)
  BY <1>1, FrameFacts
<1> QED
  BY <1>1, <1>2, Returned

(* processImmediateQueue returns.                                          *)
LEMMA EndImmediateKeeps ==
    ASSUME SensorsInv, EndImmediate
    PROVE  SensorsInv'
<1>1. /\ stack # <<>> /\ Head(stack).at = "immediate" /\ stack' = Tail(stack)
      /\ processing' = processing \ {"immediate"} /\ idlewatch' \in BOOLEAN
      /\ UNCHANGED <<queueVars, triggerdict>>
  BY DEF EndImmediate, At, SensorsInv, Typed
<1>2. Head(stack) # Enter(FALSE)
  BY <1>1, FrameFacts
<1> QED
  BY <1>1, <1>2, Returned

(* processDelayQueue returns at once, or its loop begins.                  *)
LEMMA BeginDelayKeeps ==
    ASSUME SensorsInv, BeginDelay
    PROVE  SensorsInv'
<1> USE DEF SensorsInv
<1>1. stack # <<>> /\ Head(stack).at = "enter" /\ UNCHANGED <<queueVars, idlewatch>>
  BY DEF BeginDelay, At
<1>2. CASE "delay" \in processing \/ delayqueue = <<>>
  <2>1. stack' = Tail(stack) /\ processing' = processing /\ triggerdict' = triggerdict
    BY <1>2 DEF BeginDelay
  <2>2. idlewatch' \in BOOLEAN
    BY <1>1 DEF Typed
  <2> QED
    BY <1>1, <1>2, <2>1, <2>2, Returned
<1>3. CASE ~("delay" \in processing \/ delayqueue = <<>>)
  <2>1. /\ stack' = <<Delay(Head(stack).idle)>> \o Tail(stack)
        /\ processing' = processing \union {"delay"}
        /\ triggerdict' = {}
    BY <1>3 DEF BeginDelay
  <2>2. /\ DelayQueues' /\ TimerQueues' /\ reschedulelist' = reschedulelist
        /\ priority' \in [Delays -> Prios] /\ scheduled' \in [Sensor -> BOOLEAN]
        /\ delaysensortimeout' \in {0, 1}
    BY <1>1, QueuesStay
  <2>3. stack \in Seq(Frame)
    BY DEF Frames
  <2>4. /\ Tail(stack) \in Seq(Frame) /\ Head(stack) \in Frame
        /\ OneTimer(stack) => OneTimer(Tail(stack))
        /\ NoTimer(stack) => NoTimer(Tail(stack))
    BY <1>1, <2>3, Pop
  <2> DEFINE f == Delay(Head(stack).idle)
             st == Tail(stack)
  <2>5. f \in Frame /\ f.at # "timer"
    BY <1>1, <2>4, FrameFacts
  <2>6. stack' = <<f>> \o st /\ st \in Seq(Frame)
    BY <2>1, <2>4
  <2>7. /\ OneTimer(stack) => OneTimer(st)
        /\ NoTimer(stack) => NoTimer(st)
    BY <2>4
  <2> HIDE DEF f, st
  <2>8. /\ stack' \in Seq(Frame)
        /\ OneTimer(st) => OneTimer(stack')
        /\ NoTimer(st) => NoTimer(stack')
    BY <2>5, <2>6, Push
  <2>9. Frames'
    BY <2>1, <2>2, <2>7, <2>8 DEF Frames
  <2>10. Typed'
    BY <1>1, <2>1, <2>2 DEF Typed
  <2>11. Armed'
    BY <2>1 DEF Armed
  <2> QED
    BY <2>2, <2>9, <2>10, <2>11
<1> QED
  BY <1>2, <1>3

(* An immediate sensor is taken off and triggers.                          *)
LEMMA TriggerImmediateKeeps ==
    ASSUME SensorsInv, TriggerImmediate
    PROVE  SensorsInv'
<1> USE DEF SensorsInv
<1> DEFINE d == Head(immediatequeue)
           st == Tail(stack)
           n == Head(stack).n + 1
<1>1. /\ stack # <<>> /\ Head(stack).at = "immediate"
      /\ immediatequeue # <<>> /\ Head(stack).n <= MaxTriggers
      /\ immediatequeue' = Tail(immediatequeue)
      /\ scheduled' = [scheduled EXCEPT ![d] = FALSE]
      /\ stack' = <<Callback, Immediate(n)>> \o st
      /\ UNCHANGED <<delayqueue, reinsertdict, priority, triggerdict, timerVars,
                     delaysensortimeout, processing, idlewatch>>
  BY DEF TriggerImmediate, At
<1>2. /\ d \in ToSet(immediatequeue)
      /\ immediatequeue' \in Seq(Delays) /\ Once(immediatequeue')
      /\ ToSet(immediatequeue') = ToSet(immediatequeue) \ {d}
  BY <1>1, TailKeeps DEF DelayQueues
<1>3. d \in Delays
  BY <1>2, Elements DEF DelayQueues
<1>4. /\ stack \in Seq(Frame) /\ st \in Seq(Frame) /\ Head(stack) \in Frame
      /\ ToSet(stack) = ToSet(st) \union {Head(stack)}
      /\ OneTimer(stack) => OneTimer(st)
      /\ NoTimer(stack) => NoTimer(st)
  BY <1>1, Pop DEF Frames
<1>5. /\ Immediate(n) \in Frame /\ Immediate(n).at # "timer"
      /\ Callback \in Frame /\ Callback.at # "timer"
  <2>1. Head(stack).n \in 0..(MaxTriggers + 1) /\ MaxTriggers \in Nat
    BY <1>1, <1>4, FrameFacts, SensorsAssumption
  <2>2. n \in 0..(MaxTriggers + 1)
    BY <1>1, <2>1
  <2> HIDE DEF n
  <2> QED
    BY <2>2, FrameFacts
<1> HIDE DEF d, st, n
<1>6. <<Callback, Immediate(n)>> \o st = <<Callback>> \o (<<Immediate(n)>> \o st)
  BY <1>4, <1>5
<1> DEFINE mid == <<Immediate(n)>> \o st
<1>7. /\ mid \in Seq(Frame) /\ ToSet(st) \subseteq ToSet(mid)
      /\ OneTimer(st) => OneTimer(mid)
      /\ NoTimer(st) => NoTimer(mid)
  BY <1>4, <1>5, Push
<1>8. stack' = <<Callback>> \o mid
  BY <1>1, <1>6
<1> HIDE DEF mid
<1>9. /\ stack' \in Seq(Frame) /\ ToSet(mid) \subseteq ToSet(stack')
      /\ OneTimer(mid) => OneTimer(stack')
      /\ NoTimer(mid) => NoTimer(stack')
  BY <1>5, <1>7, <1>8, Push
<1>10. /\ scheduled' \in [Sensor -> BOOLEAN] /\ ~scheduled'[d]
       /\ \A s \in Sensor \ {d} : scheduled'[s] = scheduled[s]
  BY <1>1, <1>3, SensorFacts DEF Typed
<1>11. Typed'
  BY <1>1, <1>10 DEF Typed
<1>12. DelayQueues'
  <2>1. \A e \in Delays \ {d} : scheduled'[e] = scheduled[e]
    BY <1>10, SensorFacts
  <2>2. \A e \in Delays : scheduled'[e] <=>
          e \in ToSet(immediatequeue') \union ToSet(delayqueue) \union reinsertdict
    BY <1>2, <1>10, <2>1 DEF DelayQueues
  <2>3. /\ delayqueue' = delayqueue /\ reinsertdict' = reinsertdict
        /\ priority' = priority
    BY <1>1
  <2> QED
    BY <1>2, <2>2, <2>3 DEF DelayQueues
<1>13. TimerQueues'
  BY <1>1, <1>3, <1>10, SensorFacts, TimerQueuesStay
<1>14. Frames'
  BY <1>1, <1>4, <1>7, <1>9 DEF Frames, timerVars
<1>15. Armed'
  <2>1. Enter(FALSE) \in ToSet(stack) => Enter(FALSE) \in ToSet(stack')
    BY <1>1, <1>4, <1>7, <1>9, FrameFacts
  <2>2. scheduled'[Timeout] = scheduled[Timeout]
    BY <1>3, <1>10, SensorFacts
  <2> QED
    BY <1>1, <2>1, <2>2 DEF Armed
<1> QED
  BY <1>11, <1>12, <1>13, <1>14, <1>15

(* A delay sensor is taken off and triggers.                               *)
LEMMA TriggerDelayKeeps ==
    ASSUME SensorsInv, TriggerDelay
    PROVE  SensorsInv'
<1> USE DEF SensorsInv
<1> DEFINE d == Head(delayqueue)
<1>1. /\ delayqueue # <<>>
      /\ triggerdict' = triggerdict \union {d}
      /\ scheduled' = [scheduled EXCEPT ![d] = FALSE]
      /\ delayqueue' = Tail(delayqueue)
      /\ stack' = <<Callback>> \o stack
      /\ UNCHANGED <<immediatequeue, reinsertdict, priority, timerVars,
                     delaysensortimeout, processing, idlewatch>>
  BY DEF TriggerDelay
<1>2. /\ d \in ToSet(delayqueue)
      /\ delayqueue' \in Seq(Delays) /\ Once(delayqueue')
      /\ ToSet(delayqueue') = ToSet(delayqueue) \ {d}
      /\ Sorted(delayqueue', priority)
  BY <1>1, TailKeeps DEF DelayQueues
<1>3. d \in Delays
  BY <1>2, Elements DEF DelayQueues
<1> HIDE DEF d
<1>4. /\ stack' \in Seq(Frame) /\ ToSet(stack) \subseteq ToSet(stack')
      /\ OneTimer(stack) => OneTimer(stack')
      /\ NoTimer(stack) => NoTimer(stack')
  BY <1>1, FrameFacts, Push DEF Frames
<1>5. /\ scheduled' \in [Sensor -> BOOLEAN] /\ ~scheduled'[d]
      /\ \A s \in Sensor \ {d} : scheduled'[s] = scheduled[s]
  BY <1>1, <1>3, SensorFacts DEF Typed
<1>6. Typed'
  BY <1>1, <1>3, <1>5 DEF Typed
<1>7. DelayQueues'
  <2>1. \A e \in Delays \ {d} : scheduled'[e] = scheduled[e]
    BY <1>5, SensorFacts
  <2>2. \A e \in Delays : scheduled'[e] <=>
          e \in ToSet(immediatequeue) \union ToSet(delayqueue') \union reinsertdict
    BY <1>2, <1>5, <2>1 DEF DelayQueues
  <2>3. /\ immediatequeue' = immediatequeue /\ reinsertdict' = reinsertdict
        /\ priority' = priority
    BY <1>1
  <2>4. /\ \A e \in ToSet(immediatequeue) : e \notin ToSet(delayqueue') \union reinsertdict
        /\ \A e \in ToSet(delayqueue') : e \notin reinsertdict
        /\ \A e \in ToSet(delayqueue') \union reinsertdict : priority[e] # 0
    BY <1>2 DEF DelayQueues
  <2> QED
    BY <1>2, <2>2, <2>3, <2>4 DEF DelayQueues
<1>8. TimerQueues'
  BY <1>1, <1>3, <1>5, SensorFacts, TimerQueuesStay
<1>9. Frames'
  BY <1>1, <1>4 DEF Frames, timerVars
<1>10. Armed'
  <2>1. scheduled'[Timeout] = scheduled[Timeout]
    BY <1>3, <1>5, SensorFacts
  <2> QED
    BY <1>1, <1>4, <2>1 DEF Armed
<1> QED
  BY <1>6, <1>7, <1>8, <1>9, <1>10

(* A delay sensor that may not trigger is put aside.                       *)
LEMMA DeferKeeps ==
    ASSUME SensorsInv, Defer
    PROVE  SensorsInv'
<1> USE DEF SensorsInv
<1> DEFINE d == Head(delayqueue)
<1>1. /\ delayqueue # <<>>
      /\ reinsertdict' = reinsertdict \union {d}
      /\ delayqueue' = Tail(delayqueue)
      /\ UNCHANGED <<immediatequeue, priority, triggerdict, timerVars, scheduled,
                     delaysensortimeout, processing, stack, idlewatch>>
  BY DEF Defer
<1>2. /\ d \in ToSet(delayqueue)
      /\ delayqueue' \in Seq(Delays) /\ Once(delayqueue')
      /\ ToSet(delayqueue') = ToSet(delayqueue) \ {d}
      /\ Sorted(delayqueue', priority)
  BY <1>1, TailKeeps DEF DelayQueues
<1>3. d \in Delays
  BY <1>2, Elements DEF DelayQueues
<1> HIDE DEF d
<1>4. reinsertdict' \in SUBSET Delays /\ IsFiniteSet(reinsertdict')
  BY <1>1, <1>3, FS_AddElement DEF DelayQueues
<1>5. DelayQueues'
  <2>1. /\ immediatequeue' = immediatequeue /\ scheduled' = scheduled
        /\ priority' = priority
    BY <1>1
  <2>2. \A e \in Delays : scheduled[e] <=>
          e \in ToSet(immediatequeue) \union ToSet(delayqueue') \union reinsertdict'
    BY <1>1, <1>2 DEF DelayQueues
  <2>3. /\ \A e \in ToSet(immediatequeue) : e \notin ToSet(delayqueue') \union reinsertdict'
        /\ \A e \in ToSet(delayqueue') : e \notin reinsertdict'
        /\ \A e \in ToSet(delayqueue') \union reinsertdict' : priority[e] # 0
    BY <1>1, <1>2 DEF DelayQueues
  <2> QED
    BY <1>2, <1>4, <2>1, <2>2, <2>3 DEF DelayQueues
<1>6. TimerQueues'
  BY <1>1, TimerQueuesStay
<1>7. Frames'
  BY <1>1, FramesStay DEF timerVars
<1>8. Typed'
  BY <1>1 DEF Typed
<1>9. Armed'
  BY <1>1 DEF Armed
<1> QED
  BY <1>5, <1>6, <1>7, <1>8, <1>9

(* The delay queue is empty, what was put aside goes back.                 *)
LEMMA EndDelayKeeps ==
    ASSUME SensorsInv, EndDelay
    PROVE  SensorsInv'
<1> USE DEF SensorsInv
<1> DEFINE w == reinsertdict # {}
<1>1. /\ stack # <<>> /\ Head(stack).at = "delay" /\ delayqueue = <<>>
      /\ delayqueue' \in SetToSeqs(reinsertdict) /\ Reinserted(delayqueue')
      /\ reinsertdict' = {}
      /\ Arm(w)
      /\ scheduled' = [scheduled EXCEPT ![Timeout] = @ \/ w]
      /\ processing' = processing \ {"delay"}
      /\ stack' = Tail(stack)
      /\ UNCHANGED <<immediatequeue, priority, triggerdict, reschedulelist,
                     istriggering, delaysensortimeout>>
  BY DEF EndDelay, At
<1>2. idlewatch' \in BOOLEAN
  BY DEF EndDelay, Typed
<1>3. w \in BOOLEAN /\ (w <=> reinsertdict # {})
  OBVIOUS
<1> HIDE DEF w
<1>4. /\ scheduled' \in [Sensor -> BOOLEAN]
      /\ scheduled'[Timeout] <=> (scheduled[Timeout] \/ w)
      /\ \A s \in Sensor \ {Timeout} : scheduled'[s] = scheduled[s]
  BY <1>1, <1>3, SensorFacts DEF Typed
<1>5. TimerQueues'
  <2>1. \A t \in Timers : scheduled'[t] <=> scheduled[t]
    BY <1>4, SensorFacts
  <2> QED
    BY <1>1, <1>3, <1>4, <2>1, ArmKeeps
<1>6. /\ delayqueue' \in Seq(Delays) /\ Once(delayqueue')
      /\ ToSet(delayqueue') = reinsertdict
  BY <1>1, SequencesOf DEF DelayQueues
<1>7. DelayQueues'
  <2>1. Sorted(delayqueue', priority)
    BY <1>1, <1>6, Elements DEF Reinserted, Sorted
  <2>2. ToSet(delayqueue) = {}
    BY <1>1, NoElements
  <2>3. \A e \in Delays : scheduled'[e] = scheduled[e]
    BY <1>4, SensorFacts
  <2>4. \A e \in Delays : scheduled'[e] <=>
          e \in ToSet(immediatequeue) \union ToSet(delayqueue') \union reinsertdict'
    BY <1>1, <1>6, <2>2, <2>3 DEF DelayQueues
  <2>5. immediatequeue' = immediatequeue /\ priority' = priority
    BY <1>1
  <2>6. /\ \A e \in ToSet(immediatequeue) : e \notin ToSet(delayqueue') \union reinsertdict'
        /\ \A e \in ToSet(delayqueue') : e \notin reinsertdict'
        /\ \A e \in ToSet(delayqueue') \union reinsertdict' : priority[e] # 0
    BY <1>1, <1>6 DEF DelayQueues
  <2>7. reinsertdict' \in SUBSET Delays /\ IsFiniteSet(reinsertdict')
    BY <1>1, FS_EmptySet
  <2> QED
    BY <1>6, <2>1, <2>4, <2>5, <2>6, <2>7 DEF DelayQueues
<1>8. Frames'
  <2>1. /\ stack' \in Seq(Frame)
        /\ OneTimer(stack) => OneTimer(stack')
        /\ NoTimer(stack) => NoTimer(stack')
    BY <1>1, Pop DEF Frames
  <2> QED
    BY <1>1, <2>1 DEF Frames
<1>9. Typed'
  BY <1>1, <1>2, <1>4 DEF Typed
<1>10. Armed'
  <2>1. delayqueue' # <<>> => w
    BY <1>3, <1>6, Elements
  <2> QED
    BY <1>4, <2>1 DEF Armed
<1> QED
  BY <1>5, <1>7, <1>8, <1>9, <1>10

(* A timer is moved from the queue to the list and triggers.               *)
LEMMA TriggerTimerKeeps ==
    ASSUME SensorsInv, TriggerTimer
    PROVE  SensorsInv'
<1> USE DEF SensorsInv
<1> DEFINE t == Head(timerqueue)
<1>1. /\ stack # <<>> /\ Head(stack).at = "timer" /\ due > 0 /\ t \in Timers
      /\ timerqueue' = Tail(timerqueue) /\ due' = due - 1
      /\ istriggering' = istriggering \union {t}
      /\ reschedulelist' = Append(reschedulelist, t)
      /\ stack' = <<Callback>> \o stack
      /\ UNCHANGED <<delayVars, triggerdict, scheduled, delaysensortimeout,
                     processing, idlewatch>>
  BY DEF TriggerTimer, At
<1>2. timerqueue # <<>>
  BY <1>1 DEF TimerQueues
<1>3. /\ t \in ToSet(timerqueue)
      /\ timerqueue' \in Seq(Timers \union {Timeout}) /\ Once(timerqueue')
      /\ Len(timerqueue') = Len(timerqueue) - 1
      /\ ToSet(timerqueue') = ToSet(timerqueue) \ {t}
  BY <1>1, <1>2, TailKeeps DEF TimerQueues
<1> HIDE DEF t
<1>4. /\ reschedulelist' \in Seq(Timers) /\ Once(reschedulelist')
      /\ ToSet(reschedulelist') = ToSet(reschedulelist) \union {t}
  BY <1>1, <1>3, AppendKeeps DEF TimerQueues
<1>5. TimerQueues'
  <2>1. due' \in 0..Len(timerqueue')
    BY <1>1, <1>3 DEF TimerQueues
  <2>2. /\ \A u \in ToSet(timerqueue') : u \notin ToSet(reschedulelist')
        /\ \A u \in Timers \union {Timeout} : scheduled[u] <=>
             u \in ToSet(timerqueue') \union ToSet(reschedulelist')
        /\ istriggering' = ToSet(reschedulelist')
    BY <1>1, <1>3, <1>4 DEF TimerQueues
  <2>3. scheduled' = scheduled
    BY <1>1
  <2> QED
    BY <1>3, <1>4, <2>1, <2>2, <2>3 DEF TimerQueues
<1>6. DelayQueues'
  BY <1>1, DelayQueuesStay
<1>7. /\ stack' \in Seq(Frame) /\ ToSet(stack) \subseteq ToSet(stack')
      /\ OneTimer(stack) => OneTimer(stack')
  BY <1>1, FrameFacts, Push DEF Frames
<1>8. "timer" \in processing
  <2>1. Head(stack) \in ToSet(stack)
    BY <1>1, Pop DEF Frames
  <2> QED
    BY <1>1, <2>1 DEF Frames, NoTimer
<1>9. Frames'
  BY <1>1, <1>7, <1>8 DEF Frames
<1>10. Typed'
  BY <1>1 DEF Typed, delayVars
<1>11. Armed'
  BY <1>1, <1>7 DEF Armed, delayVars
<1> QED
  BY <1>5, <1>6, <1>9, <1>10, <1>11

(* The timeout goes off: from here until processDelayQueue begins its frame *)
(* on the stack is what keeps Armed true.                                  *)
LEMMA TriggerTimeoutKeeps ==
    ASSUME SensorsInv, TriggerTimeout
    PROVE  SensorsInv'
<1> USE DEF SensorsInv
<1> DEFINE rest == <<Enter(FALSE)>> \o stack
<1>1. /\ due > 0 /\ Head(timerqueue) = Timeout
      /\ timerqueue' = Tail(timerqueue) /\ due' = due - 1
      /\ scheduled' = [scheduled EXCEPT ![Timeout] = FALSE]
      /\ CallImmediate(rest)
      /\ UNCHANGED <<delayVars, triggerdict, reschedulelist, istriggering,
                     delaysensortimeout, idlewatch>>
  BY DEF TriggerTimeout
<1>2. timerqueue # <<>>
  BY <1>1 DEF TimerQueues
<1>3. /\ Timeout \in ToSet(timerqueue)
      /\ timerqueue' \in Seq(Timers \union {Timeout}) /\ Once(timerqueue')
      /\ Len(timerqueue') = Len(timerqueue) - 1
      /\ ToSet(timerqueue') = ToSet(timerqueue) \ {Timeout}
  BY <1>1, <1>2, TailKeeps DEF TimerQueues
<1>4. /\ scheduled' \in [Sensor -> BOOLEAN] /\ ~scheduled'[Timeout]
      /\ \A s \in Sensor \ {Timeout} : scheduled'[s] = scheduled[s]
  BY <1>1, SensorFacts DEF Typed
<1>5. TimerQueues'
  <2>1. due' \in 0..Len(timerqueue')
    BY <1>1, <1>3 DEF TimerQueues
  <2>2. \A t \in Timers : scheduled'[t] = scheduled[t]
    BY <1>4, SensorFacts
  <2>3. /\ \A u \in ToSet(timerqueue') : u \notin ToSet(reschedulelist)
        /\ \A u \in Timers \union {Timeout} : scheduled'[u] <=>
             u \in ToSet(timerqueue') \union ToSet(reschedulelist)
    BY <1>3, <1>4, <2>2, SensorFacts DEF TimerQueues
  <2>4. reschedulelist' = reschedulelist /\ istriggering' = istriggering
    BY <1>1
  <2> QED
    BY <1>3, <2>1, <2>3, <2>4 DEF TimerQueues
<1>6. DelayQueues'
  BY <1>1, <1>4, SensorFacts, DelayQueuesStay
<1>7. Enter(FALSE) \in Frame /\ Enter(FALSE).at # "timer"
  BY FrameFacts
<1>8. /\ rest \in Seq(Frame) /\ Enter(FALSE) \in ToSet(rest)
      /\ OneTimer(stack) => OneTimer(rest)
      /\ NoTimer(stack) => NoTimer(rest)
  BY <1>7, Push DEF Frames
<1> HIDE DEF rest
<1>9. /\ stack' \in Seq(Frame) /\ ToSet(rest) \subseteq ToSet(stack')
      /\ OneTimer(rest) => OneTimer(stack')
      /\ NoTimer(rest) => NoTimer(stack')
      /\ processing' \subseteq {"immediate", "delay", "timer"}
      /\ "timer" \in processing' <=> "timer" \in processing
  BY <1>1, <1>8, CallImmediateFacts
<1>10. Frames'
  BY <1>1, <1>8, <1>9 DEF Frames
<1>11. Typed'
  BY <1>1, <1>4, <1>9 DEF Typed, delayVars
<1>12. Armed'
  BY <1>8, <1>9 DEF Armed
<1> QED
  BY <1>5, <1>6, <1>10, <1>11, <1>12

(* processTimerQueue is over: the list goes back into the queue.           *)
LEMMA EndTimersKeeps ==
    ASSUME SensorsInv, EndTimers
    PROVE  SensorsInv'
<1> USE DEF SensorsInv
<1> DEFINE T == ToSet(timerqueue) \union ToSet(reschedulelist)
<1>1. /\ stack # <<>> /\ Head(stack).at = "timer" /\ due = 0
      /\ timerqueue' \in SetToSeqs(T)
      /\ reschedulelist' = <<>>
      /\ istriggering' = istriggering \ ToSet(reschedulelist)
      /\ scheduled' = [s \in Sensor |-> scheduled[s] \/ Contains(reschedulelist, s)]
      /\ processing' = processing \ {"timer"}
      /\ stack' = Tail(stack)
      /\ UNCHANGED <<delayVars, triggerdict, due, delaysensortimeout, idlewatch>>
  BY DEF EndTimers, At
<1>2. /\ ToSet(timerqueue) \subseteq Timers \union {Timeout}
      /\ ToSet(reschedulelist) \subseteq Timers
      /\ \A s : Contains(reschedulelist, s) <=> s \in ToSet(reschedulelist)
  BY Elements DEF TimerQueues
<1>3. \A s \in Sensor : scheduled'[s] <=> scheduled[s]
  <2>1. \A s \in Sensor : s \in ToSet(reschedulelist) => scheduled[s]
    BY <1>2 DEF TimerQueues
  <2> QED
    BY <1>1, <1>2, <2>1
<1>4. scheduled' \in [Sensor -> BOOLEAN]
  BY <1>1 DEF Typed, Contains
<1>5. /\ timerqueue' \in Seq(Timers \union {Timeout}) /\ Once(timerqueue')
      /\ ToSet(timerqueue') = T
  <2>1. IsFiniteSet(T)
    <3>1. IsFiniteSet(ToSet(timerqueue)) /\ IsFiniteSet(ToSet(reschedulelist))
      BY ElementsFinite DEF TimerQueues
    <3> QED
      BY <3>1, FS_Union
  <2>2. T \in SUBSET (Timers \union {Timeout})
    BY <1>2
  <2> HIDE DEF T
  <2> QED
    BY <1>1, <2>1, <2>2, SequencesOf
<1>6. TimerQueues'
  <2>1. /\ reschedulelist' \in Seq(Timers) /\ ToSet(reschedulelist') = {}
        /\ Once(reschedulelist')
    BY <1>1, NoElements
  <2>2. istriggering' = {}
    BY <1>1 DEF TimerQueues
  <2>3. \A u \in Timers \union {Timeout} : scheduled'[u] <=>
          u \in ToSet(timerqueue') \union ToSet(reschedulelist')
    BY <1>3, <1>5, <2>1, SensorFacts DEF TimerQueues
  <2>4. due' \in 0..Len(timerqueue')
    BY <1>1, <1>5
  <2> QED
    BY <1>5, <2>1, <2>2, <2>3, <2>4 DEF TimerQueues
<1>7. DelayQueues'
  <2>1. \A d \in Delays : scheduled'[d] = scheduled[d]
    BY <1>3, <1>4, SensorFacts DEF Typed
  <2> QED
    BY <1>1, <2>1, DelayQueuesStay
<1>8. /\ stack' \in Seq(Frame) /\ OneTimer(stack') /\ NoTimer(stack')
      /\ ToSet(stack) = ToSet(stack') \union {Head(stack)}
  BY <1>1, Pop DEF Frames
<1>9. Frames'
  BY <1>1, <1>8 DEF Frames
<1>10. Typed'
  BY <1>1, <1>4 DEF Typed, delayVars
<1>11. Armed'
  <2>1. Head(stack) # Enter(FALSE)
    BY <1>1, FrameFacts
  <2>2. scheduled'[Timeout] <=> scheduled[Timeout]
    BY <1>3, SensorFacts
  <2> QED
    BY <1>1, <1>8, <2>1, <2>2 DEF Armed, delayVars
<1> QED
  BY <1>6, <1>7, <1>9, <1>10, <1>11

(***************************************************************************)
(* The theorems.                                                           *)
(***************************************************************************)
(* Every step keeps the invariant.                                         *)
LEMMA NextKeeps ==
    ASSUME SensorsInv, [Next]_vars
    PROVE  SensorsInv'
<1>1. CASE UserCode
  BY <1>1, ScheduleKeeps, UnscheduleKeeps, SetPriorityKeeps, ScheduleTimerKeeps,
     UnscheduleTimerKeeps, SetDelaySensorTimeoutKeeps, EndNotifyKeeps,
     NestedTimersKeeps, NestedDelayKeeps
     DEF UserCode
<1>2. CASE Manager
  BY <1>2, TriggerImmediateKeeps, EndImmediateKeeps, BeginDelayKeeps,
     TriggerDelayKeeps, DeferKeeps, EndDelayKeeps, TriggerTimerKeeps,
     TriggerTimeoutKeeps, EndTimersKeeps, AppLooksKeeps
     DEF Manager
<1>3. CASE Return \/ AppIdle \/ AppTimers
  BY <1>3, ReturnKeeps, AppIdleKeeps, AppTimersKeeps
<1>4. CASE \E s \in Timers \union {Timeout} : Tick(s)
  BY <1>4, TickKeeps
<1>5. CASE UNCHANGED vars
  <2>1. UNCHANGED <<delayVars, triggerdict, timerVars, scheduled,
                    delaysensortimeout, processing, stack, idlewatch>>
    BY <1>5 DEF vars
  <2>2. DelayQueues'
    BY <2>1, DelayQueuesStay DEF SensorsInv
  <2>3. TimerQueues'
    BY <2>1, TimerQueuesStay DEF SensorsInv
  <2>4. Frames'
    BY <2>1, FramesStay DEF SensorsInv, timerVars
  <2>5. Typed' /\ Armed'
    BY <2>1 DEF SensorsInv, Typed, Armed, delayVars
  <2> QED
    BY <2>2, <2>3, <2>4, <2>5 DEF SensorsInv
<1> QED
  BY <1>1, <1>2, <1>3, <1>4, <1>5 DEF Next

(* The invariant of the sensor manager.                                    *)
LEMMA SensorsInvariant == Spec => []SensorsInv
<1>1. SensorsInv /\ [Next]_vars => SensorsInv'
  BY NextKeeps
<1> QED
  BY InitEstablishes, <1>1, PTL DEF Spec

(* Whatever the callbacks do, a sensor is in exactly one queue, once, when *)
(* its scheduled flag is set and in none when it is not.                   *)
THEOREM SensorsFlagMeansQueued == Spec => []FlagMeansQueued
<1>1. SensorsInv => FlagMeansQueued
  BY InvariantSays
<1> QED
  BY SensorsInvariant, <1>1, PTL

(* The delay queue is in the order of the priorities its sensors have now. *)
THEOREM SensorsPriorityOrder == Spec => []PriorityOrder
<1>1. SensorsInv => PriorityOrder
  BY InvariantSays
<1> QED
  BY SensorsInvariant, <1>1, PTL

(* A delay queue with sensors in it has its timeout set, is processed or   *)
(* is about to be.                                                         *)
THEOREM SensorsTimeoutArmed == Spec => []TimeoutArmed
<1>1. SensorsInv => TimeoutArmed
  BY InvariantSays
<1> QED
  BY SensorsInvariant, <1>1, PTL
=============================================================================

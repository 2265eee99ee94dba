----------------------------- MODULE FifoProofs ------------------------------
(***************************************************************************)
(* The list of the blocking queue, proved well formed and first in, first  *)
(* out for any threads, cells and number of items, and its wakeups proved  *)
(* enough for the items in it, as long as no try_retrieve has found access *)
(* held.                                                                   *)
(*                                                                         *)
(* Chain follows next pointers, as the code does; the proof keeps the two  *)
(* sequences of cells, q from head and f from free, that it comes upon,    *)
(* and shows what each operation does to them: assign moves the first cell *)
(* of f, or a new one, to the end of q, retrieve the first of q to the     *)
(* front of f, and try_retrieve drops it.                                  *)
(***************************************************************************)
EXTENDS Fifo, FiniteSetTheorems, SequenceTheorems, TLAPS

(* A set of numbers that is not empty has a least element: otherwise the   *)
(* map of each number to its predecessor would take the finite set of the  *)
(* numbers from some element of the set up to k to a smaller one.          *)
LEMMA LeastNumber ==
    ASSUME NEW T, T \subseteq Nat, T # {}
    PROVE  \E n \in T : \A m \in T : n <= m
<1> SUFFICES ASSUME \A n \in T : \E m \in T : m < n
             PROVE  FALSE
  OBVIOUS
<1> PICK k \in T : TRUE
  OBVIOUS
<1> DEFINE U == {m \in 0..k : \E t \in T : t <= m}
           pred == [m \in U |-> m - 1]
<1>1. IsFiniteSet(U) /\ Cardinality(U) \in Nat
  <2>1. k \in Nat /\ U \in SUBSET Nat /\ \A m \in U : m <= k
    OBVIOUS
  <2> HIDE DEF U
  <2>2. IsFiniteSet(U)
    BY <2>1, FS_BoundedSetOfNaturals
  <2> QED
    BY <2>2, FS_CardinalityType
<1>2. k \in U
  OBVIOUS
<1>3. \A m \in U : m - 1 \in U \ {k}
  <2> TAKE m \in U
  <2>1. PICK t \in T : t <= m
    OBVIOUS
  <2>2. PICK s \in T : s < t
    OBVIOUS
  <2> QED
    BY <2>1, <2>2
<1> HIDE DEF U
<1>4. pred \in [U -> U \ {k}]
  BY <1>3
<1> HIDE DEF pred
<1>5. IsFiniteSet(U \ {k}) /\ Cardinality(U \ {k}) = Cardinality(U) - 1
  BY <1>1, <1>2, FS_RemoveElement
<1>6. Cardinality(U \ {k}) < Cardinality(U)
  BY <1>1, <1>5
<1>7. PICK x, y \in U : x # y /\ pred[x] = pred[y]
  BY <1>1, <1>4, <1>5, <1>6, FS_PigeonHole
<1>8. x \in Int /\ y \in Int
  BY DEF U
<1> QED
  BY <1>7, <1>8 DEF pred

(* The place after the last one of a list is NULL.                         *)
Nth(s, i) == IF i \in 1..Len(s) THEN s[i] ELSE NULL

(* The links nx lead from c through the cells of s, none twice, to NULL.   *)
Path(nx, c, s) ==
    /\ s \in Seq(Cells)
    /\ c = Nth(s, 1)
    /\ \A i \in 1..Len(s) : nx[s[i]] = Nth(s, i + 1)
    /\ \A i, j \in 1..Len(s) : s[i] = s[j] => i = j

(* A list without repetition is not longer than there are cells.           *)
LEMMA PathLength ==
    ASSUME NEW s \in Seq(Cells), \A i, j \in 1..Len(s) : s[i] = s[j] => i = j
    PROVE  Len(s) \in 0..Cardinality(Cells) /\ Cardinality(Cells) \in Nat
<1>1. Len(s) \in Nat /\ s \in [1..Len(s) -> Cells]
  OBVIOUS
<1>2. IsFiniteSet(1..Len(s)) /\ Cardinality(1..Len(s)) = Len(s)
  BY <1>1, FS_Interval
<1>3. IsFiniteSet(Cells) /\ Cardinality(Cells) \in Nat
  BY CellsAssumption, FS_CardinalityType
<1>4. ~(Cardinality(Cells) < Len(s))
  <2> SUFFICES ASSUME Cardinality(Cells) < Cardinality(1..Len(s)) PROVE FALSE
    BY <1>2
  <2>1. PICK i, j \in 1..Len(s) : i # j /\ s[i] = s[j]
    BY <1>1, <1>2, <1>3, FS_PigeonHole
  <2> QED
    BY <2>1
<1> QED
  BY <1>1, <1>3, <1>4

(* Chain is that list.                                                     *)
LEMMA ChainIsPath ==
    ASSUME NEW c, NEW s, Path(next, c, s)
    PROVE  Chain(c) = s
<1> DEFINE N == Cardinality(Cells)
           val(g, n) == IF n = 0 THEN c
                        ELSE IF g[n-1] = NULL THEN NULL ELSE next[g[n-1]]
           At(g) == g = [n \in 0..N |-> val(g, n)]
           at == CHOOSE g : At(g)
           on == [n \in 0..N |-> Nth(s, n + 1)]
<1>1. /\ s \in Seq(Cells) /\ Len(s) \in 0..N /\ N \in Nat /\ c = Nth(s, 1)
      /\ \A i \in 1..Len(s) : s[i] \in Cells /\ s[i] # NULL /\ next[s[i]] = Nth(s, i + 1)
  BY PathLength, NullAssumption DEF Path
<1> HIDE DEF N
<1>2. \A n \in 0..N : Nth(s, n + 1) = IF n < Len(s) THEN s[n + 1] ELSE NULL
  BY <1>1 DEF Nth
<1>3. \A n \in 1..N : Nth(s, n + 1) = IF Nth(s, n) = NULL THEN NULL
                                                        ELSE next[Nth(s, n)]
  BY <1>1 DEF Nth
<1>4. At(on)
  <2> SUFFICES ASSUME NEW n \in 0..N PROVE on[n] = val(on, n)
    OBVIOUS
  <2>1. CASE n = 0
    BY <1>1, <2>1
  <2>2. CASE n # 0
    <3>1. n - 1 \in 0..N /\ n \in 1..N /\ (n - 1) + 1 = n
      BY <1>1, <2>2
    <3>2. on[n-1] = Nth(s, n) /\ on[n] = Nth(s, n + 1)
      BY <3>1
    <3> QED
      BY <1>3, <2>2, <3>1, <3>2
  <2> QED
    BY <2>1, <2>2
<1>5. At(at)
  <2> HIDE DEF At
  <2> QED
    BY <1>4
<1>6. at = on
  <2>1. at = [n \in 0..N |-> val(at, n)] /\ on = [n \in 0..N |-> val(on, n)]
    BY <1>4, <1>5
  <2> HIDE DEF at, on
  <2> DEFINE T == {n \in 0..N : at[n] # on[n]}
  <2>2. ASSUME T # {} PROVE FALSE
    <3>1. PICK n \in T : \A m \in T : n <= m
      <4>1. T \subseteq Nat
        BY <1>1
      <4> HIDE DEF T
      <4> QED
        BY <2>2, <4>1, LeastNumber
    <3>2. n \in 0..N /\ at[n] # on[n]
      OBVIOUS
    <3>3. CASE n = 0
      BY <2>1, <3>2, <3>3
    <3>4. CASE n # 0
      <4>1. n - 1 \in 0..N /\ n - 1 \notin T
        BY <1>1, <3>1, <3>2, <3>4
      <4>2. at[n-1] = on[n-1]
        BY <4>1
      <4> HIDE DEF T
      <4>3. at[n] = val(at, n) /\ on[n] = val(on, n)
        BY <2>1, <3>2
      <4> QED
        BY <3>2, <3>4, <4>2, <4>3
    <3> QED
      BY <3>3, <3>4
  <2>3. \A n \in 0..N : at[n] = on[n]
    BY <2>2
  <2> QED
    BY <2>1, <2>3
<1>7. /\ \A n \in 0..N : at[n] = IF n < Len(s) THEN s[n + 1] ELSE NULL
      /\ DOMAIN at = 0..N
  BY <1>2, <1>6
<1> HIDE DEF at, on
<1>8. Cardinality({n \in DOMAIN at : at[n] # NULL}) = Len(s)
  <2>1. {n \in DOMAIN at : at[n] # NULL} = 0..(Len(s) - 1)
    <3>1. \A n \in 0..N : at[n] # NULL <=> n < Len(s)
      BY <1>1, <1>7
    <3> QED
      BY <1>1, <1>7, <3>1
  <2>2. Cardinality(0..(Len(s) - 1)) = Len(s)
    <3>1. Len(s) \in Nat /\ 0 \in Int /\ Len(s) - 1 \in Int
      BY <1>1
    <3>2. Cardinality(0..(Len(s) - 1)) =
            IF 0 > Len(s) - 1 THEN 0 ELSE (Len(s) - 1) - 0 + 1
      BY <3>1, FS_Interval
    <3> QED
      BY <3>1, <3>2
  <2> QED
    BY <2>1, <2>2
<1>9. Chain(c) = [i \in 1..Len(s) |-> at[i-1]]
  <2>1. Chain(c) = [i \in 1..Cardinality({n \in DOMAIN at : at[n] # NULL}) |-> at[i-1]]
    BY DEF Chain, at, N
  <2> QED
    BY <1>8, <2>1
<1>10. \A i \in 1..Len(s) : at[i-1] = s[i]
  <2> TAKE i \in 1..Len(s)
  <2>1. i - 1 \in 0..N /\ i - 1 < Len(s) /\ (i - 1) + 1 = i
    BY <1>1
  <2> QED
    BY <1>7, <2>1
<1>11. Chain(c) = [i \in 1..Len(s) |-> s[i]]
  BY <1>9, <1>10
<1> QED
  BY <1>1, <1>11

-----------------------------------------------------------------------------
(* The operations on lists.                                                *)
On(x, s) == \E i \in 1..Len(s) : s[i] = x

(* Links that are not on a list do not matter to it.                       *)
LEMMA PathFrame ==
    ASSUME NEW nx, NEW ny, NEW c, NEW s, Path(nx, c, s),
           \A i \in 1..Len(s) : ny[s[i]] = nx[s[i]]
    PROVE  Path(ny, c, s)
  BY DEF Path

(* The first cell is taken off.                                            *)
LEMMA PathTail ==
    ASSUME NEW nx, NEW c, NEW s, Path(nx, c, s), c # NULL
    PROVE  /\ s # <<>> /\ c = s[1] /\ c \in Cells
           /\ Path(nx, nx[c], Tail(s)) /\ ~On(c, Tail(s))
           /\ Tail(s) \in Seq(Cells) /\ Len(Tail(s)) = Len(s) - 1
           /\ \A i \in 1..Len(Tail(s)) : Tail(s)[i] = s[i + 1]
<1> DEFINE t == Tail(s)
<1>1. /\ s \in Seq(Cells) /\ Len(s) \in Nat \ {0} /\ c = s[1] /\ s # <<>>
      /\ nx[c] = Nth(s, 2)
  BY DEF Path, Nth
<1>2. /\ t \in Seq(Cells) /\ Len(t) = Len(s) - 1
      /\ \A i \in 1..Len(t) : t[i] = s[i + 1] /\ i + 1 \in 1..Len(s) /\ i + 1 # 1
  BY <1>1
<1> HIDE DEF t
<1>3. \A i \in Nat : Nth(t, i) = IF i = 0 THEN NULL ELSE Nth(s, i + 1)
  BY <1>1, <1>2 DEF Nth
<1>4. nx[c] = Nth(t, 1)
  BY <1>1, <1>3
<1>5. \A i \in 1..Len(t) : nx[t[i]] = Nth(t, i + 1)
  <2> TAKE i \in 1..Len(t)
  <2>1. nx[s[i + 1]] = Nth(s, (i + 1) + 1)
    BY <1>1, <1>2 DEF Path
  <2>2. t[i] = s[i + 1] /\ i + 1 \in Nat /\ i + 1 # 0
    BY <1>1, <1>2
  <2>3. Nth(t, i + 1) = Nth(s, (i + 1) + 1)
    BY <1>3, <2>2
  <2> QED
    BY <2>1, <2>2, <2>3
<1>6. \A i, j \in 1..Len(t) : t[i] = t[j] => i = j
  BY <1>1, <1>2 DEF Path
<1>7. ~On(c, t)
  BY <1>1, <1>2 DEF Path, On
<1> QED
  BY <1>1, <1>2, <1>4, <1>5, <1>6, <1>7 DEF Path, t

(* A cell is put before the first.                                         *)
LEMMA PathPush ==
    ASSUME NEW nx, NEW c, NEW s, Path(nx, c, s), NEW x \in Cells,
           ~On(x, s), nx[x] = c
    PROVE  Path(nx, x, <<x>> \o s)
<1> DEFINE t == <<x>> \o s
<1>1. s \in Seq(Cells) /\ Len(s) \in Nat /\ c = Nth(s, 1)
  BY DEF Path
<1>2. /\ t \in Seq(Cells) /\ Len(t) = Len(s) + 1 /\ t[1] = x
      /\ \A i \in 2..Len(t) : t[i] = s[i - 1] /\ i - 1 \in 1..Len(s)
  BY <1>1
<1> HIDE DEF t
<1>3. \A i \in 2..(Len(t) + 1) : Nth(t, i) = Nth(s, i - 1)
  BY <1>1, <1>2 DEF Nth
<1>4. \A i \in 1..Len(t) : nx[t[i]] = Nth(t, i + 1)
  <2> TAKE i \in 1..Len(t)
  <2>1. CASE i = 1
    BY <1>1, <1>2, <1>3, <2>1
  <2>2. CASE i # 1
    <3>1. i \in 2..Len(t) /\ i + 1 \in 2..(Len(t) + 1) /\ i - 1 \in 1..Len(s)
          /\ (i - 1) + 1 = i /\ (i + 1) - 1 = i
      BY <1>1, <1>2, <2>2
    <3>2. nx[s[i - 1]] = Nth(s, i)
      BY <3>1 DEF Path
    <3> QED
      BY <1>2, <1>3, <3>1, <3>2
  <2> QED
    BY <2>1, <2>2
<1>5. \A i, j \in 1..Len(t) : t[i] = t[j] => i = j
  <2> SUFFICES ASSUME NEW i \in 1..Len(t), NEW j \in 1..Len(t), t[i] = t[j]
               PROVE  i = j
    OBVIOUS
  <2>1. CASE i = 1 \/ j = 1
    BY <1>1, <1>2, <2>1 DEF On
  <2>2. CASE i # 1 /\ j # 1
    <3>1. i \in 2..Len(t) /\ j \in 2..Len(t)
      BY <1>1, <1>2, <2>2
    <3>2. i - 1 \in 1..Len(s) /\ j - 1 \in 1..Len(s) /\ s[i - 1] = s[j - 1]
      BY <1>2, <3>1
    <3>3. i - 1 = j - 1
      BY <3>2 DEF Path
    <3> QED
      BY <3>1, <3>3
  <2> QED
    BY <2>1, <2>2
<1>6. x = Nth(t, 1)
  BY <1>1, <1>2 DEF Nth
<1> QED
  BY <1>2, <1>4, <1>5, <1>6 DEF Path, t

(* A cell is linked behind the last.                                       *)
LEMMA PathAppend ==
    ASSUME NEW nx, NEW c, NEW s, Path(nx, c, s), NEW x \in Cells,
           ~On(x, s), NEW ny, ny[x] = NULL,
           s # <<>> => ny[s[Len(s)]] = x,
           \A i \in 1..Len(s) : i # Len(s) => ny[s[i]] = nx[s[i]]
    PROVE  Path(ny, IF s = <<>> THEN x ELSE c, Append(s, x))
<1> DEFINE t == Append(s, x)
<1>1. s \in Seq(Cells) /\ Len(s) \in Nat /\ c = Nth(s, 1)
      /\ (s = <<>> <=> Len(s) = 0)
  BY DEF Path
<1>2. /\ t \in Seq(Cells) /\ Len(t) = Len(s) + 1 /\ t[Len(t)] = x
      /\ \A i \in 1..Len(s) : t[i] = s[i]
  BY <1>1
<1> HIDE DEF t
<1>3. Nth(t, Len(t)) = x /\ Nth(t, Len(t) + 1) = NULL
      /\ \A i \in 1..Len(s) : Nth(t, i) = Nth(s, i)
  BY <1>1, <1>2 DEF Nth
<1>4. \A i \in 1..Len(t) : ny[t[i]] = Nth(t, i + 1)
  <2> TAKE i \in 1..Len(t)
  <2>1. CASE i = Len(t)
    BY <1>2, <1>3, <2>1
  <2>2. CASE i # Len(t)
    <3>1. i \in 1..Len(s) /\ t[i] = s[i] /\ Len(s) # 0
      BY <1>1, <1>2, <2>2
    <3>2. CASE i = Len(s)
      BY <1>1, <1>2, <1>3, <3>1, <3>2
    <3>3. CASE i # Len(s)
      <4>1. i + 1 \in 1..Len(s) /\ nx[s[i]] = Nth(s, i + 1)
        BY <1>1, <3>1, <3>3 DEF Path
      <4> QED
        BY <1>3, <3>1, <3>3, <4>1
    <3> QED
      BY <3>2, <3>3
  <2> QED
    BY <2>1, <2>2
<1>5. \A i, j \in 1..Len(t) : t[i] = t[j] => i = j
  <2> SUFFICES ASSUME NEW i \in 1..Len(t), NEW j \in 1..Len(t), t[i] = t[j]
               PROVE  i = j
    OBVIOUS
  <2>1. CASE i = Len(t) \/ j = Len(t)
    BY <1>1, <1>2, <2>1 DEF On
  <2>2. CASE i # Len(t) /\ j # Len(t)
    <3>1. i \in 1..Len(s) /\ j \in 1..Len(s)
      BY <1>1, <1>2, <2>2
    <3> QED
      BY <1>2, <3>1 DEF Path
  <2> QED
    BY <2>1, <2>2
<1>6. (IF s = <<>> THEN x ELSE c) = Nth(t, 1)
  <2>1. CASE s = <<>>
    BY <1>1, <1>2, <1>3, <2>1
  <2>2. CASE s # <<>>
    BY <1>1, <1>3, <2>2
  <2> QED
    BY <2>1, <2>2
<1> QED
  BY <1>2, <1>4, <1>5, <1>6 DEF Path, t

-----------------------------------------------------------------------------
(* The fields, and what was taken: the items in the order of their numbers. *)
FieldsOK ==
    /\ next \in [Cells -> Cells \union {NULL}]
    /\ item \in [Cells -> 0..MaxItems]
    /\ assigned \in 0..MaxItems /\ taken \in Seq(1..MaxItems)
    /\ \A i \in 1..Len(taken) : taken[i] = i

(* The queue is q, the free list is f; the items in the queue are those    *)
(* that come next.                                                         *)
Lists(q, f) ==
    /\ Path(next, head, q) /\ Path(next, free, f)
    /\ \A x : ~(On(x, q) /\ On(x, f))
    /\ tail = Nth(q, Len(q))
    /\ elements = Len(q)
    /\ assigned = Len(taken) + Len(q)
    /\ \A i \in 1..Len(q) : item[q[i]] = Len(taken) + i

ListsOK == \E q, f : Lists(q, f)

(* cc_fifo_assign: a cell that is in no list goes to the end of the queue. *)
LEMMA AssignKeeps ==
    ASSUME FieldsOK, ListsOK, NEW t \in Threads, Assign(t)
    PROVE  FieldsOK' /\ ListsOK' /\ elements' = elements + 1
<1> PICK q, f : Lists(q, f)
  BY DEF ListsOK
<1>1. PICK c \in Cells :
        /\ GetFreeItem(c)
        /\ free' = IF free = NULL THEN NULL ELSE next[c]
        /\ next' = LinkBehindTail(c)
        /\ item' = [item EXCEPT ![c] = assigned + 1]
        /\ head' = IF tail = NULL THEN c ELSE head
        /\ tail' = c
  BY DEF Assign
<1>2. assigned < MaxItems /\ elements' = elements + 1 /\ assigned' = assigned + 1
      /\ taken' = taken
  <2>1. /\ assigned < MaxItems /\ elements' = Increment(elements)
        /\ assigned' = assigned + 1 /\ taken' = taken
    BY DEF Assign, MayAssign
  <2>2. Len(q) \in Nat /\ Len(taken) \in Nat /\ elements = Len(q)
        /\ assigned = Len(taken) + Len(q)
    BY DEF Lists, Path, FieldsOK
  <2>3. elements # MaxUInt
    BY <2>1, <2>2, MaxItemsAssumption
  <2> QED
    BY <2>1, <2>3 DEF Increment
<1>3. /\ q \in Seq(Cells) /\ Len(q) \in Nat /\ NULL \notin Cells
      /\ \A i \in 1..Len(q) : q[i] \in Cells
  BY NullAssumption DEF Lists, Path
<1>4. /\ tail = NULL <=> q = <<>>
      /\ q # <<>> => tail = q[Len(q)] /\ Len(q) \in 1..Len(q)
  BY <1>3 DEF Lists, Nth
<1> PICK g : g = IF free = NULL THEN f ELSE Tail(f)
  OBVIOUS
<1>5. Path(next, free', g) /\ ~On(c, q) /\ ~On(c, g)
      /\ \A x : On(x, g) => On(x, f)
  <2>1. CASE free = NULL
    <3>1. f = <<>> /\ g = f /\ free' = free
      BY <1>1, <2>1, NullAssumption DEF Lists, Path, Nth
    <3>2. Chain(head) = q /\ Chain(free) = f
      BY ChainIsPath DEF Lists
    <3>3. c \notin CellsOf(head)
      BY <1>1, <2>1 DEF GetFreeItem, Unallocated
    <3>4. ~On(c, q)
      BY <1>3, <3>2, <3>3 DEF CellsOf, On
    <3> QED
      BY <3>1, <3>4 DEF Lists, On
  <2>2. CASE free # NULL
    <3>1. c = free /\ free' = next[c] /\ g = Tail(f)
      BY <1>1, <2>2 DEF GetFreeItem
    <3>2. /\ f # <<>> /\ c = f[1] /\ Path(next, next[c], g) /\ ~On(c, g)
          /\ Len(g) = Len(f) - 1 /\ \A i \in 1..Len(g) : g[i] = f[i + 1]
      BY <2>2, <3>1, PathTail DEF Lists
    <3>3. f \in Seq(Cells) /\ Len(f) \in Nat \ {0}
      BY <3>2 DEF Lists, Path
    <3>4. On(c, f) /\ \A x : On(x, g) => On(x, f)
      BY <3>2, <3>3 DEF On
    <3> QED
      BY <3>1, <3>2, <3>4 DEF Lists
  <2> QED
    BY <2>1, <2>2
<1> DEFINE p == Append(q, c)
<1>6. /\ next' \in [Cells -> Cells \union {NULL}] /\ next'[c] = NULL
      /\ q # <<>> => next'[q[Len(q)]] = c
      /\ \A x \in Cells : x # c /\ x # tail => next'[x] = next[x]
  <2>1. CASE q = <<>>
    BY <1>1, <1>4, <2>1 DEF LinkBehindTail, FieldsOK
  <2>2. CASE q # <<>>
    <3>1. tail \in Cells /\ tail # c /\ tail = q[Len(q)] /\ tail # NULL
      BY <1>3, <1>4, <1>5, <2>2 DEF On
    <3>2. next' = [next EXCEPT ![c] = NULL, ![tail] = c]
      BY <1>1, <3>1 DEF LinkBehindTail
    <3> QED
      BY <3>1, <3>2 DEF FieldsOK
  <2> QED
    BY <2>1, <2>2
<1>7. \A i \in 1..Len(q) : q[i] # c /\ (i # Len(q) => q[i] # tail)
  BY <1>3, <1>4, <1>5 DEF On, Lists, Path
<1>8. Path(next', head', p)
  <2>1. head' = IF q = <<>> THEN c ELSE head
    BY <1>1, <1>4
  <2>2. \A i \in 1..Len(q) : i # Len(q) => next'[q[i]] = next[q[i]]
    BY <1>3, <1>6, <1>7
  <2> QED
    BY <1>5, <1>6, <2>1, <2>2, PathAppend DEF Lists
<1>9. Path(next', free', g)
  <2>1. \A i \in 1..Len(g) : g[i] \in Cells /\ g[i] # c /\ g[i] # tail
    <3> TAKE i \in 1..Len(g)
    <3>1. g \in Seq(Cells) /\ On(g[i], g)
      BY <1>5 DEF On, Path
    <3>2. g[i] # c /\ ~On(g[i], q)
      BY <1>5, <3>1 DEF Lists
    <3>3. g[i] \in Cells
      BY <3>1
    <3> QED
      BY <1>3, <1>4, <3>2, <3>3 DEF On
  <2>2. \A i \in 1..Len(g) : next'[g[i]] = next[g[i]]
    BY <1>6, <2>1
  <2> QED
    BY <1>5, <2>2, PathFrame
<1>10. /\ p \in Seq(Cells) /\ Len(p) = Len(q) + 1 /\ p[Len(p)] = c
       /\ \A i \in 1..Len(q) : p[i] = q[i]
  BY <1>3
<1> HIDE DEF p
<1>11. \A x : ~(On(x, p) /\ On(x, g))
  <2> SUFFICES ASSUME NEW x, On(x, p), On(x, g) PROVE FALSE
    OBVIOUS
  <2>1. x # c /\ ~On(x, q)
    BY <1>5 DEF Lists
  <2> QED
    BY <1>3, <1>10, <2>1 DEF On
<1>12. tail' = Nth(p, Len(p)) /\ elements' = Len(p)
  BY <1>1, <1>2, <1>3, <1>10 DEF Nth, Lists
<1>13. assigned' = Len(taken') + Len(p) /\ assigned \in Nat /\ Len(taken) \in Nat
  BY <1>2, <1>3, <1>10 DEF Lists, FieldsOK
<1>14. \A i \in 1..Len(p) : item'[p[i]] = Len(taken') + i
  <2> TAKE i \in 1..Len(p)
  <2>1. CASE i = Len(p)
    BY <1>1, <1>2, <1>10, <1>13, <2>1 DEF FieldsOK
  <2>2. CASE i # Len(p)
    <3>1. i \in 1..Len(q) /\ p[i] = q[i] /\ q[i] # c /\ q[i] \in Cells
      BY <1>3, <1>7, <1>10, <2>2
    <3>2. item'[q[i]] = item[q[i]]
      BY <1>1, <3>1 DEF FieldsOK
    <3> QED
      BY <1>2, <3>1, <3>2 DEF Lists
  <2> QED
    BY <2>1, <2>2
<1>15. Lists(p, g)'
  BY <1>8, <1>9, <1>11, <1>12, <1>13, <1>14 DEF Lists
<1>16. FieldsOK'
  <2>1. assigned + 1 \in 0..MaxItems
    BY <1>2, <1>13, MaxItemsAssumption
  <2>2. item' \in [Cells -> 0..MaxItems]
    BY <1>1, <2>1 DEF FieldsOK
  <2> QED
    BY <1>2, <1>6, <2>1, <2>2 DEF FieldsOK
<1> QED
  BY <1>2, <1>15, <1>16 DEF ListsOK

(* i_unlink_head, and what the two retrieving functions do with the cell.  *)
LEMMA TakeKeeps ==
    ASSUME FieldsOK, ListsOK, elements # 0, Unlink(head),
           UNCHANGED <<item, assigned>>,
           \/ next' = [next EXCEPT ![head] = free] /\ free' = head
           \/ UNCHANGED <<next, free>>
    PROVE  FieldsOK' /\ ListsOK' /\ elements' = elements - 1
<1> PICK q, f : Lists(q, f)
  BY DEF ListsOK
<1> PICK p : p = Tail(q)
  OBVIOUS
<1>1. /\ q \in Seq(Cells) /\ Len(q) \in Nat \ {0} /\ NULL \notin Cells
      /\ head = q[1] /\ head \in Cells /\ head # NULL
  <2>1. q \in Seq(Cells) /\ Len(q) \in Nat /\ elements = Len(q) /\ head = Nth(q, 1)
    BY DEF Lists, Path
  <2>2. Len(q) # 0 /\ head = q[1] /\ 1 \in 1..Len(q)
    BY <2>1 DEF Nth
  <2> QED
    BY <2>1, <2>2, NullAssumption
<1>2. /\ Path(next, next[head], p) /\ ~On(head, p)
      /\ p \in Seq(Cells) /\ Len(p) = Len(q) - 1
      /\ \A i \in 1..Len(p) : p[i] = q[i + 1]
  BY <1>1, PathTail DEF Lists
<1>3. \A x : On(x, p) => On(x, q)
  <2> SUFFICES ASSUME NEW x, NEW i \in 1..Len(p), p[i] = x PROVE On(x, q)
    BY DEF On
  <2>1. i + 1 \in 1..Len(q) /\ q[i + 1] = x
    BY <1>1, <1>2
  <2> QED
    BY <2>1 DEF On
<1>4. ~On(head, f) /\ On(head, q)
  <2>1. On(head, q)
    BY <1>1 DEF On
  <2> QED
    BY <2>1 DEF Lists
<1>5. PICK g : /\ Path(next', free', g) /\ Path(next', head', p)
               /\ \A x : On(x, g) => x = head \/ On(x, f)
               /\ next' \in [Cells -> Cells \union {NULL}]
  <2>1. CASE next' = [next EXCEPT ![head] = free] /\ free' = head
    <3>1. /\ next' \in [Cells -> Cells \union {NULL}] /\ next'[head] = free
          /\ \A x \in Cells : x # head => next'[x] = next[x]
      <4>1. free \in Cells \union {NULL}
        BY DEF Lists, Path, Nth
      <4> QED
        BY <1>1, <2>1, <4>1 DEF FieldsOK
    <3>2. /\ \A i \in 1..Len(f) : f[i] \in Cells /\ f[i] # head
          /\ \A i \in 1..Len(p) : p[i] \in Cells /\ p[i] # head
      BY <1>2, <1>4 DEF On, Lists, Path
    <3>3. Path(next', free, f)
      BY <3>1, <3>2, PathFrame DEF Lists
    <3>4. Path(next', head', p)
      BY <1>2, <3>1, <3>2, PathFrame DEF Unlink
    <3>5. Path(next', head, <<head>> \o f)
      BY <1>1, <1>4, <3>1, <3>3, PathPush
    <3>6. \A x : On(x, <<head>> \o f) => x = head \/ On(x, f)
      <4> DEFINE h == <<head>> \o f
      <4>1. /\ f \in Seq(Cells) /\ Len(f) \in Nat /\ Len(h) = Len(f) + 1
            /\ h[1] = head /\ \A i \in 2..Len(h) : h[i] = f[i - 1] /\ i - 1 \in 1..Len(f)
        BY <1>1 DEF Lists, Path
      <4> HIDE DEF h
      <4>2. \A x : On(x, h) => x = head \/ On(x, f)
        <5> SUFFICES ASSUME NEW x, NEW i \in 1..Len(h), h[i] = x, x # head
                     PROVE  On(x, f)
          BY DEF On
        <5>1. i \in 2..Len(h)
          BY <4>1
        <5> QED
          BY <4>1, <5>1 DEF On
      <4> QED
        BY <4>2 DEF h
    <3> QED
      BY <2>1, <3>1, <3>4, <3>5, <3>6
  <2>2. CASE UNCHANGED <<next, free>>
    BY <1>2, <2>2 DEF Unlink, Lists, FieldsOK
  <2> QED
    BY <2>1, <2>2
<1>6. \A x : ~(On(x, p) /\ On(x, g))
  BY <1>2, <1>3, <1>5 DEF Lists
<1>0. elements = Len(q) /\ elements' = elements - 1
  BY <1>1 DEF Unlink, Decrement, Lists
<1>7. tail' = Nth(p, Len(p)) /\ elements' = Len(p)
  <2>1. next[head] = NULL <=> Len(p) = 0
    BY <1>1, <1>2 DEF Path, Nth
  <2>2. Len(p) # 0 => Nth(p, Len(p)) = Nth(q, Len(q))
    BY <1>1, <1>2 DEF Nth
  <2> QED
    BY <1>0, <1>1, <1>2, <2>1, <2>2 DEF Unlink, Lists, Nth
<1>8. item[head] = Len(taken) + 1 /\ Len(taken) \in Nat /\ item[head] \in 1..MaxItems
  <2>1. item[q[1]] = Len(taken) + 1
    BY <1>1 DEF Lists
  <2> QED
    BY <1>1, <2>1, MaxItemsAssumption DEF FieldsOK
<1>9. /\ taken' \in Seq(1..MaxItems) /\ Len(taken') = Len(taken) + 1
      /\ \A i \in 1..Len(taken') : taken'[i] = i
  <2>1. taken' = Append(taken, item[head]) /\ taken \in Seq(1..MaxItems)
    BY DEF Unlink, FieldsOK
  <2>2. /\ taken' \in Seq(1..MaxItems) /\ Len(taken') = Len(taken) + 1
        /\ taken'[Len(taken) + 1] = Len(taken) + 1
        /\ \A i \in 1..Len(taken) : taken'[i] = taken[i]
    BY <1>8, <2>1
  <2> QED
    BY <1>8, <2>2 DEF FieldsOK
<1>10. assigned' = Len(taken') + Len(p)
  BY <1>1, <1>2, <1>8, <1>9 DEF Lists
<1>11. \A i \in 1..Len(p) : item'[p[i]] = Len(taken') + i
  <2> TAKE i \in 1..Len(p)
  <2>1. i + 1 \in 1..Len(q) /\ p[i] = q[i + 1]
    BY <1>1, <1>2
  <2>2. item[q[i + 1]] = Len(taken) + (i + 1)
    BY <2>1 DEF Lists
  <2> QED
    BY <1>8, <1>9, <2>1, <2>2
<1>12. Lists(p, g)'
  BY <1>5, <1>6, <1>7, <1>10, <1>11 DEF Lists
<1>13. FieldsOK'
  BY <1>5, <1>9 DEF FieldsOK
<1> QED
  BY <1>0, <1>12, <1>13 DEF ListsOK

-----------------------------------------------------------------------------
(* The threads: finitely many wait, since they come one by one.            *)
ThreadsOK ==
    /\ sleep \subseteq waiting /\ waiting \union waker \subseteq Threads
    /\ IsFiniteSet(waiting)

AwakeOK == sleep # {} => elements <= Cardinality(waiting \ sleep)

QueueOK == FieldsOK /\ ListsOK /\ ThreadsOK /\ AwakeOK

(* What the counts are. *)
LEMMA FifoCounts ==
    ASSUME FieldsOK, ListsOK, ThreadsOK
    PROVE  /\ elements \in Nat /\ elements <= MaxItems
           /\ IsFiniteSet(waiting \ sleep) /\ Cardinality(waiting \ sleep) \in Nat
<1>1. elements \in Nat /\ elements <= MaxItems
  <2> PICK q, f : Lists(q, f)
    BY DEF ListsOK
  <2>1. Len(q) \in Nat /\ Len(taken) \in Nat /\ elements = Len(q)
        /\ assigned = Len(taken) + Len(q) /\ assigned \in 0..MaxItems
    BY DEF Lists, Path, FieldsOK
  <2> QED
    BY <2>1, MaxItemsAssumption
<1> QED
  BY <1>1, FS_Difference, FS_CardinalityType DEF ThreadsOK

(* A thread that wakes, by wake_one or by itself, is one more awake.       *)
LEMMA WakeKeeps ==
    ASSUME ThreadsOK, NEW u \in sleep, sleep' = sleep \ {u}, UNCHANGED waiting
    PROVE  Cardinality((waiting \ sleep)') = Cardinality(waiting \ sleep) + 1
<1>1. (waiting \ sleep)' = (waiting \ sleep) \union {u} /\ u \notin waiting \ sleep
  BY DEF ThreadsOK
<1>2. IsFiniteSet(waiting \ sleep)
  BY FS_Difference DEF ThreadsOK
<1> QED
  BY <1>1, <1>2, FS_AddElement

(* An item that is added finds a thread for it, if one sleeps.             *)
LEMMA AssignWakes ==
    ASSUME QueueOK, NEW t \in Threads, Assign(t)
    PROVE  ThreadsOK' /\ AwakeOK'
<1>1. WakeOne /\ elements' = elements + 1 /\ UNCHANGED <<waiting, waker>>
  BY AssignKeeps DEF Assign, WakeRetriever, QueueOK
<1>2. elements \in Nat /\ Cardinality(waiting \ sleep) \in Nat
  BY FifoCounts DEF QueueOK
<1>3. ThreadsOK'
  BY <1>1 DEF QueueOK, ThreadsOK, WakeOne
<1>4. CASE sleep = {} /\ UNCHANGED sleep
  BY <1>3, <1>4 DEF AwakeOK
<1>5. ASSUME NEW u \in sleep, sleep' = sleep \ {u}
      PROVE  AwakeOK'
  <2>1. Cardinality((waiting \ sleep)') = Cardinality(waiting \ sleep) + 1
    BY <1>1, <1>5, WakeKeeps DEF QueueOK
  <2>2. elements <= Cardinality(waiting \ sleep)
    BY DEF QueueOK, AwakeOK
  <2> QED
    BY <1>1, <1>2, <2>1, <2>2 DEF AwakeOK
<1> QED
  BY <1>1, <1>3, <1>4, <1>5 DEF WakeOne

(* A thread that takes an item was awake, or did not wait.                 *)
LEMMA TakeWakes ==
    ASSUME QueueOK, NEW t \in Threads, elements # 0, elements' = elements - 1,
           waiting' \in {waiting, waiting \ {t}}, t \notin sleep,
           waker' = waker \union {t}, UNCHANGED sleep
    PROVE  ThreadsOK' /\ AwakeOK'
<1>1. elements \in Nat \ {0} /\ IsFiniteSet(waiting \ sleep)
      /\ Cardinality(waiting \ sleep) \in Nat
  BY FifoCounts DEF QueueOK
<1>2. IsFiniteSet(waiting')
  BY FS_RemoveElement DEF QueueOK, ThreadsOK
<1>3. ThreadsOK'
  BY <1>2 DEF QueueOK, ThreadsOK
<1>4. Cardinality((waiting \ sleep)') \in Nat
      /\ Cardinality((waiting \ sleep)') >= Cardinality(waiting \ sleep) - 1
  <2>1. CASE waiting' = waiting
    BY <1>1, <2>1
  <2>2. CASE waiting' = waiting \ {t}
    <3>1. (waiting \ sleep)' = (waiting \ sleep) \ {t}
      BY <2>2
    <3>2. Cardinality((waiting \ sleep) \ {t}) =
            IF t \in waiting \ sleep THEN Cardinality(waiting \ sleep) - 1
                                     ELSE Cardinality(waiting \ sleep)
      BY <1>1, FS_RemoveElement
    <3>3. Cardinality((waiting \ sleep) \ {t}) \in Nat
      <4>1. IsFiniteSet((waiting \ sleep) \ {t})
        BY <1>1, FS_RemoveElement
      <4> QED
        BY <4>1, FS_CardinalityType
    <3>4. Cardinality((waiting \ sleep)') = Cardinality((waiting \ sleep) \ {t})
      BY <3>1
    <3> QED
      BY <1>1, <3>2, <3>3, <3>4
  <2> QED
    BY <2>1, <2>2
<1> QED
  BY <1>1, <1>3, <1>4 DEF QueueOK, AwakeOK

(* A thread goes to sleep when there is no item.                           *)
LEMMA SleepKeeps ==
    ASSUME QueueOK, NEW t \in Threads, elements = 0,
           waiting' = waiting \union {t}, sleep' = sleep \union {t},
           UNCHANGED <<waker, elements>>
    PROVE  ThreadsOK' /\ AwakeOK'
<1>1. IsFiniteSet(waiting')
  BY FS_AddElement DEF QueueOK, ThreadsOK
<1>2. ThreadsOK'
  BY <1>1 DEF QueueOK, ThreadsOK
<1>3. Cardinality((waiting \ sleep)') \in Nat
  <2>1. IsFiniteSet((waiting \ sleep)')
    BY <1>1, FS_Difference
  <2> QED
    BY <2>1, FS_CardinalityType
<1> QED
  BY <1>2, <1>3 DEF AwakeOK

(* A thread wakes, or nobody does, and nothing happens to the list.        *)
LEMMA WakingKeeps ==
    ASSUME QueueOK, sleep' = sleep \/ \E u \in sleep : sleep' = sleep \ {u},
           waker' \subseteq waker,
           UNCHANGED <<list, waiting, history>>
    PROVE  QueueOK'
<1>1. FieldsOK' /\ ListsOK' /\ elements' = elements
  BY DEF QueueOK, FieldsOK, ListsOK, Lists, list, history
<1>2. ThreadsOK'
  BY DEF QueueOK, ThreadsOK
<1>3. elements \in Nat /\ Cardinality(waiting \ sleep) \in Nat
  BY FifoCounts DEF QueueOK
<1>4. CASE sleep' = sleep
  BY <1>1, <1>2, <1>4 DEF QueueOK, AwakeOK
<1>5. ASSUME NEW u \in sleep, sleep' = sleep \ {u}
      PROVE  QueueOK'
  <2>1. Cardinality((waiting \ sleep)') = Cardinality(waiting \ sleep) + 1
    BY <1>5, WakeKeeps DEF QueueOK
  <2> QED
    BY <1>1, <1>2, <1>3, <2>1 DEF QueueOK, AwakeOK
<1> QED
  BY <1>4, <1>5

-----------------------------------------------------------------------------
(* The mutex: nobody is unlinking without it. *)
MutexOK == OneInside /\ \A t \in Threads : seen[t] = NULL

FifoInv == TypeOK /\ (races = 0 => QueueOK /\ MutexOK)

(* The type invariant holds after a race, too. *)
LEMMA FifoTypes == TypeOK /\ [Next]_vars => TypeOK'
<1> SUFFICES ASSUME TypeOK, [Next]_vars PROVE TypeOK'
  OBVIOUS
<1> USE DEF TypeOK, mutex, threads, list, history
<1>1. ASSUME NEW t \in Threads, Lock(t) PROVE TypeOK'
  BY <1>1 DEF Lock, Outside
<1>2. ASSUME NEW t \in Threads, Assign(t) PROVE TypeOK'
  <2>1. PICK c \in Cells :
          /\ free' = IF free = NULL THEN NULL ELSE next[c]
          /\ next' = LinkBehindTail(c)
          /\ item' = [item EXCEPT ![c] = assigned + 1]
          /\ head' = IF tail = NULL THEN c ELSE head
          /\ tail' = c
    BY <1>2 DEF Assign
  <2>2. /\ assigned' = assigned + 1 /\ assigned < MaxItems
        /\ elements' = Increment(elements) /\ WakeOne
        /\ locked' = FALSE /\ inside' = inside \ {t}
        /\ UNCHANGED <<waiting, waker, taken, seen, races>>
    BY <1>2 DEF Assign, MayAssign, Unlock, WakeRetriever
  <2>3. assigned' \in 0..MaxItems /\ elements' \in 0..MaxUInt
    BY <2>2, MaxItemsAssumption DEF Increment
  <2>4. next' \in [Cells -> Cells \union {NULL}] /\ item' \in [Cells -> 0..MaxItems]
    BY <2>1, <2>2, <2>3 DEF LinkBehindTail
  <2>5. {head, tail, free}' \subseteq Cells \union {NULL}
    BY <2>1
  <2>6. sleep' \subseteq waiting' \ inside'
    BY <2>2 DEF WakeOne
  <2> QED
    BY <2>2, <2>3, <2>4, <2>5, <2>6
<1>3. ASSUME NEW c \in Cells, Unlink(c)
      PROVE  /\ head' \in Cells \union {NULL} /\ tail' \in Cells \union {NULL}
             /\ elements' \in 0..MaxUInt /\ taken' \in Seq(0..MaxItems)
  <2>1. elements' \in 0..MaxUInt
    BY <1>3, MaxItemsAssumption DEF Unlink, Decrement
  <2>2. item[c] \in 0..MaxItems /\ taken' = Append(taken, item[c])
    BY <1>3 DEF Unlink
  <2>3. taken' \in Seq(0..MaxItems)
    <3> DEFINE S == 0..MaxItems
    <3>1. item[c] \in S /\ taken \in Seq(S)
      BY <2>2
    <3> HIDE DEF S
    <3>2. Append(taken, item[c]) \in Seq(S)
      BY <3>1
    <3> QED
      BY <2>2, <3>2 DEF S
  <2> QED
    BY <1>3, <2>1, <2>3 DEF Unlink
<1>4. ASSUME NEW t \in Threads, Retrieve(t) PROVE TypeOK'
  <2>1. head \in Cells /\ Unlink(head)
    BY <1>4 DEF Retrieve, TakeAndRecycle
  <2>2. /\ next' = [next EXCEPT ![head] = free] /\ free' = head
        /\ waiting' = waiting \ {t} /\ waker' = waker \union {t}
        /\ locked' = FALSE /\ inside' = inside \ {t}
        /\ UNCHANGED <<item, sleep, assigned, seen, races>>
    BY <1>4 DEF Retrieve, TakeAndRecycle, Unlock
  <2>3. t \notin sleep
    BY <1>4 DEF Retrieve, Unlock
  <2> QED
    BY <1>3, <2>1, <2>2, <2>3
<1>5. ASSUME NEW t \in Threads, RetrieveWait(t) PROVE TypeOK'
  BY <1>5 DEF RetrieveWait, Unlock
<1>6. ASSUME NEW t \in Threads, TryRetrieve(t) PROVE TypeOK'
  BY <1>3, <1>6 DEF TryRetrieve, TakeAndDelete, Unlock
<1>7. ASSUME NEW t \in Threads, TryRetrieveBusy(t) PROVE TypeOK'
  <2>1. races' \in Nat /\ UNCHANGED <<list, inside, threads, history>>
    BY <1>7 DEF TryRetrieveBusy
  <2>2. locked' \in BOOLEAN /\ seen' \in [Threads -> Cells \union {NULL}]
    BY <1>7 DEF TryRetrieveBusy
  <2> QED
    BY <2>1, <2>2
<1>8. ASSUME NEW t \in Threads, UnlinkBusy(t) PROVE TypeOK'
  BY <1>3, <1>8 DEF UnlinkBusy, TakeAndDelete
<1>9. ASSUME NEW t \in Threads, FifoUnlock(t) PROVE TypeOK'
  BY <1>9 DEF FifoUnlock, Unlock
<1>10. ASSUME NEW t \in Threads, WakeAfterRetrieve(t) \/ SpuriousWake(t) PROVE TypeOK'
  BY <1>10 DEF WakeAfterRetrieve, SpuriousWake, WakeOne
<1>11. CASE UNCHANGED vars
  BY <1>11 DEF vars
<1> QED
  BY <1>1, <1>2, <1>4, <1>5, <1>6, <1>7, <1>8, <1>9, <1>10, <1>11
  DEF Next, Proceed, Crashed

(* The queue is empty when it is constructed.                              *)
LEMMA FifoInit == Init => FifoInv
<1> SUFFICES ASSUME Init PROVE FifoInv
  OBVIOUS
<1>1. FieldsOK
  BY MaxItemsAssumption DEF Init, FieldsOK
<1>2. Lists(<<>>, <<>>)
  BY DEF Init, Lists, Path, Nth, On
<1>3. IsFiniteSet(waiting)
  BY FS_EmptySet DEF Init
<1>4. TypeOK
  <2>1. <<>> \in Seq(0..MaxItems) /\ 0 \in 0..MaxItems /\ 0 \in 0..MaxUInt
    BY MaxItemsAssumption
  <2>2. next \in [Cells -> Cells \union {NULL}] /\ item \in [Cells -> 0..MaxItems]
    BY <2>1 DEF Init
  <2> QED
    BY <2>1, <2>2 DEF Init, TypeOK
<1>5. MutexOK
  BY DEF Init, MutexOK, OneInside
<1> QED
  BY <1>1, <1>2, <1>3, <1>4, <1>5 DEF Init, FifoInv, QueueOK, ListsOK, ThreadsOK, AwakeOK

(* What the mutex is for: who is inside is alone, and leaves it free.      *)
LEMMA UnlockKeeps ==
    ASSUME MutexOK, NEW t \in Threads, Unlock(t)
    PROVE  MutexOK' /\ races' = races
  BY DEF MutexOK, OneInside, Unlock

(* Every step keeps the invariant.                                         *)
LEMMA FifoStep == FifoInv /\ [Next]_vars => FifoInv'
<1> SUFFICES ASSUME FifoInv, [Next]_vars PROVE FifoInv'
  OBVIOUS
<1>0. TypeOK /\ TypeOK'
  BY FifoTypes DEF FifoInv
<1> SUFFICES ASSUME races' = 0 PROVE QueueOK' /\ MutexOK'
  BY <1>0 DEF FifoInv
<1>1. races = 0 /\ \A t \in Threads : ~TryRetrieveBusy(t)
  <2>1. \A t \in Threads : ~TryRetrieveBusy(t)
    BY <1>0 DEF TryRetrieveBusy, TypeOK
  <2>2. UNCHANGED races
    BY <2>1 DEF Next, Proceed, Lock, Assign, Retrieve, RetrieveWait, TryRetrieve,
                FifoUnlock, Unlock, UnlinkBusy, WakeAfterRetrieve, SpuriousWake,
                Crashed, vars, mutex
  <2> QED
    BY <2>1, <2>2
<1>2. QueueOK /\ MutexOK
  BY <1>1 DEF FifoInv
<1>3. \A t \in Threads : ~UnlinkBusy(t)
  BY <1>2 DEF UnlinkBusy, MutexOK
<1>4. ASSUME NEW t \in Threads, Lock(t) PROVE QueueOK' /\ MutexOK'
  <2>1. MutexOK'
    BY <1>2, <1>4 DEF Lock, MutexOK, OneInside
  <2> QED
    BY <1>2, <1>4, <2>1, WakingKeeps DEF Lock, threads
<1>5. ASSUME NEW t \in Threads, Assign(t) PROVE QueueOK' /\ MutexOK'
  <2>1. MutexOK'
    BY <1>2, <1>5, UnlockKeeps DEF Assign
  <2>2. FieldsOK' /\ ListsOK'
    BY <1>2, <1>5, AssignKeeps DEF QueueOK
  <2>3. ThreadsOK' /\ AwakeOK'
    BY <1>2, <1>5, AssignWakes
  <2> QED
    BY <2>1, <2>2, <2>3 DEF QueueOK
<1>6. ASSUME NEW t \in Threads, Retrieve(t) PROVE QueueOK' /\ MutexOK'
  <2>1. MutexOK'
    BY <1>2, <1>6, UnlockKeeps DEF Retrieve
  <2>2. t \notin sleep
    BY <1>0, <1>6 DEF Retrieve, TypeOK, Unlock
  <2>3. FieldsOK' /\ ListsOK' /\ elements' = elements - 1
    BY <1>2, <1>6, TakeKeeps DEF Retrieve, TakeAndRecycle, QueueOK
  <2>4. ThreadsOK' /\ AwakeOK'
    BY <1>2, <1>6, <2>2, <2>3, TakeWakes DEF Retrieve
  <2> QED
    BY <2>1, <2>3, <2>4 DEF QueueOK
<1>7. ASSUME NEW t \in Threads, RetrieveWait(t) PROVE QueueOK' /\ MutexOK'
  <2>1. MutexOK'
    BY <1>2, <1>7, UnlockKeeps DEF RetrieveWait
  <2>2. FieldsOK' /\ ListsOK'
    BY <1>2, <1>7 DEF RetrieveWait, QueueOK, FieldsOK, ListsOK, Lists, list, history
  <2>3. ThreadsOK' /\ AwakeOK'
    BY <1>2, <1>7, SleepKeeps DEF RetrieveWait, list
  <2> QED
    BY <2>1, <2>2, <2>3 DEF QueueOK
<1>8. ASSUME NEW t \in Threads, TryRetrieve(t) PROVE QueueOK' /\ MutexOK'
  <2>1. MutexOK'
    BY <1>2, <1>8, UnlockKeeps DEF TryRetrieve
  <2>2. t \notin sleep
    BY <1>0, <1>8 DEF TryRetrieve, TypeOK
  <2>3. FieldsOK' /\ ListsOK' /\ elements' = elements - 1
    BY <1>2, <1>8, TakeKeeps DEF TryRetrieve, TakeAndDelete, QueueOK
  <2>4. ThreadsOK' /\ AwakeOK'
    BY <1>2, <1>8, <2>2, <2>3, TakeWakes DEF TryRetrieve, TakeAndDelete
  <2> QED
    BY <2>1, <2>3, <2>4 DEF QueueOK
<1>9. ASSUME NEW t \in Threads, FifoUnlock(t) PROVE QueueOK' /\ MutexOK'
  <2>1. MutexOK'
    BY <1>2, <1>9, UnlockKeeps DEF FifoUnlock
  <2> QED
    BY <1>2, <1>9, <2>1, WakingKeeps DEF FifoUnlock, threads
<1>10. ASSUME NEW t \in Threads, WakeAfterRetrieve(t) \/ SpuriousWake(t)
       PROVE  QueueOK' /\ MutexOK'
  <2>1. UNCHANGED mutex /\ UNCHANGED <<list, waiting, history>>
    BY <1>10 DEF WakeAfterRetrieve, SpuriousWake
  <2>2. MutexOK'
    BY <1>2, <2>1 DEF MutexOK, OneInside, mutex
  <2>3. QueueOK'
    <3>1. sleep' = sleep \/ \E u \in sleep : sleep' = sleep \ {u}
      BY <1>10 DEF WakeAfterRetrieve, SpuriousWake, WakeOne
    <3>2. waker' \subseteq waker
      BY <1>10 DEF WakeAfterRetrieve, SpuriousWake
    <3> QED
      BY <1>2, <2>1, <3>1, <3>2, WakingKeeps
  <2> QED
    BY <2>2, <2>3
<1>11. CASE UNCHANGED vars
  <2>1. MutexOK'
    BY <1>2, <1>11 DEF MutexOK, OneInside, vars, mutex
  <2> QED
    BY <1>2, <1>11, <2>1, WakingKeeps DEF vars, threads
<1> QED
  BY <1>1, <1>3, <1>4, <1>5, <1>6, <1>7, <1>8, <1>9, <1>10, <1>11
  DEF Next, Proceed, Crashed

(* So it holds for ever.                                                   *)
LEMMA FifoInvariant == Spec => []FifoInv
  BY FifoInit, FifoStep, PTL DEF Spec

(* Type correctness, and the list is one, whichever of its cells were      *)
(* recycled: it ends in tail, counts as many cells as elements says, and   *)
(* has none that is on the free list; and one thread at a time is in it.   *)
(* All this as long as no try_retrieve found access held.                  *)
THEOREM FifoListIsWellFormed == Spec => []ListIsWellFormed
<1>1. FifoInv => ListIsWellFormed
  <2> SUFFICES ASSUME FifoInv, races = 0 PROVE ListIsOne /\ OneInside
    BY DEF FifoInv, ListIsWellFormed
  <2> PICK q, f : Lists(q, f)
    BY DEF FifoInv, QueueOK, ListsOK
  <2>1. Chain(head) = q /\ Chain(free) = f
    BY ChainIsPath DEF Lists
  <2>2. /\ q \in Seq(Cells) /\ Len(q) \in Nat /\ NULL \notin Cells
        /\ head = Nth(q, 1) /\ tail = Nth(q, Len(q)) /\ free = Nth(f, 1)
        /\ f \in Seq(Cells) /\ elements = Len(q)
    BY NullAssumption DEF Lists, Path
  <2>3. CellsOf(head) \intersect CellsOf(free) = {}
    <3>1. /\ CellsOf(head) = {q[i] : i \in 1..Len(q)}
          /\ CellsOf(free) = {f[i] : i \in 1..Len(f)}
      BY <2>1, <2>2 DEF CellsOf
    <3>2. /\ \A x \in CellsOf(head) : On(x, q)
          /\ \A x \in CellsOf(free) : On(x, f)
      BY <3>1 DEF On
    <3> QED
      BY <3>2 DEF Lists
  <2>4. IF head = NULL THEN tail = NULL
        ELSE q[Len(q)] = tail /\ next[tail] = NULL
    <3>1. CASE Len(q) = 0
      BY <2>2, <3>1 DEF Nth
    <3>2. CASE Len(q) # 0
      <4>1. 1 \in 1..Len(q) /\ Len(q) \in 1..Len(q) /\ Len(q) + 1 \notin 1..Len(q)
        BY <2>2, <3>2
      <4>2. head \in Cells /\ tail = q[Len(q)] /\ next[tail] = NULL
        BY <2>2, <4>1 DEF Nth, Lists, Path
      <4> QED
        BY <2>2, <4>2
    <3> QED
      BY <3>1, <3>2
  <2> QED
    BY <2>1, <2>2, <2>3, <2>4 DEF ListIsOne, FifoInv, MutexOK
<1> QED
  BY <1>1, FifoInvariant, PTL

(* First in, first out: what was taken, followed by what is in the queue,  *)
(* is what was assigned, in that order, as long as no try_retrieve found   *)
(* access held.                                                            *)
THEOREM FifoFirstInFirstOut == Spec => []FirstInFirstOut
<1>1. FifoInv => FirstInFirstOut
  <2> SUFFICES ASSUME FifoInv, races = 0
               PROVE  taken \o ChainItems(head) = [i \in 1..assigned |-> i]
    BY DEF FirstInFirstOut
  <2> PICK q, f : Lists(q, f)
    BY DEF FifoInv, QueueOK, ListsOK
  <2>1. Chain(head) = q
    BY ChainIsPath DEF Lists
  <2> DEFINE m == [i \in DOMAIN q |-> item[q[i]]]
  <2>2. ChainItems(head) = m
    BY <2>1 DEF ChainItems
  <2>3. /\ q \in Seq(Cells) /\ Len(q) \in Nat /\ taken \in Seq(1..MaxItems)
        /\ Len(taken) \in Nat /\ assigned = Len(taken) + Len(q)
    BY DEF Lists, Path, FifoInv, QueueOK, FieldsOK
  <2>4. m \in Seq(0..MaxItems) /\ Len(m) = Len(q)
        /\ \A i \in 1..Len(q) : m[i] = Len(taken) + i
    <3>1. DOMAIN q = 1..Len(q) /\ \A i \in 1..Len(q) : item[q[i]] \in 0..MaxItems
      BY <2>3 DEF FifoInv, QueueOK, FieldsOK
    <3>2. m \in [1..Len(q) -> 0..MaxItems]
      BY <3>1
    <3> QED
      BY <2>3, <3>1, <3>2 DEF Lists
  <2> HIDE DEF m
  <2> DEFINE s == taken \o m
  <2>5. /\ s \in Seq(0..MaxItems) /\ Len(s) = assigned
        /\ \A i \in 1..assigned :
             s[i] = IF i <= Len(taken) THEN taken[i] ELSE m[i - Len(taken)]
    <3>1. taken \in Seq(0..MaxItems) /\ Len(taken) + Len(m) = assigned
      <4>1. 1..MaxItems \subseteq 0..MaxItems
        BY MaxItemsAssumption
      <4>2. taken \in Seq(0..MaxItems)
        BY <2>3, <4>1, SeqMonotonic
      <4> QED
        BY <2>3, <2>4, <4>2
    <3>2. m \in Seq(0..MaxItems)
      BY <2>4
    <3>3. /\ taken \o m \in Seq(0..MaxItems)
          /\ Len(taken \o m) = Len(taken) + Len(m)
          /\ \A i \in 1 .. Len(taken) + Len(m) :
               (taken \o m)[i] = IF i <= Len(taken) THEN taken[i]
                                                    ELSE m[i - Len(taken)]
      BY <3>1, <3>2, ConcatProperties, Zenon
    <3> HIDE DEF s
    <3>4. /\ s \in Seq(0..MaxItems) /\ Len(s) = Len(taken) + Len(m)
          /\ \A i \in 1 .. Len(taken) + Len(m) :
               s[i] = IF i <= Len(taken) THEN taken[i] ELSE m[i - Len(taken)]
      BY <3>3, Zenon DEF s
    <3> QED
      BY <3>1, <3>4, Zenon
  <2> HIDE DEF s
  <2>6. \A i \in 1..assigned :
          i = IF i <= Len(taken) THEN taken[i] ELSE m[i - Len(taken)]
    <3> TAKE i \in 1..assigned
    <3>1. CASE i <= Len(taken)
      BY <2>3, <3>1 DEF FifoInv, QueueOK, FieldsOK
    <3>2. CASE ~(i <= Len(taken))
      <4>1. i - Len(taken) \in 1..Len(q)
        BY <2>3, <3>2
      <4> QED
        BY <2>3, <2>4, <3>2, <4>1
    <3> QED
      BY <3>1, <3>2
  <2>7. s = [i \in 1..assigned |-> i]
    BY <2>5, <2>6
  <2> QED
    BY <2>2, <2>7 DEF s
<1> QED
  BY <1>1, FifoInvariant, PTL

(* No item waits for a thread that nobody woke, however many threads wait, *)
(* and whichever of them wake_one and the scheduler let run, as long as no *)
(* try_retrieve found access held.                                         *)
THEOREM FifoEnoughAwake == Spec => []EnoughAwake
<1>1. FifoInv => EnoughAwake
  BY DEF FifoInv, QueueOK, AwakeOK, EnoughAwake
<1> QED
  BY <1>1, FifoInvariant, PTL
=============================================================================

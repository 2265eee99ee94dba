-------------------------- MODULE FieldLinksProofs --------------------------
(***************************************************************************)
(* The links between fields and engines agree, and nothing is linked to    *)
(* what is gone, for any fields, engines and connections.                  *)
(*                                                                         *)
(* NothingDangles speaks of the time between two calls only; it follows    *)
(* from Gone, which holds all the time: an engine that is gone has no      *)
(* slave but its own input, and as long as the input has links, its        *)
(* destructor is under way.  What a call is about to link stays, because   *)
(* the application holds the engines whose inputs it names and the call    *)
(* holds the engine it connects to (Calls).                                *)
(***************************************************************************)
EXTENDS FieldLinks, SequenceTheorems, TLAPS

(***************************************************************************)
(* Lists.                                                                  *)
(***************************************************************************)

(* What the elements of a list are.                                        *)
LEMMA Elements ==
    ASSUME NEW S, NEW q \in Seq(S)
    PROVE  /\ \A x : x \in ToSet(q) <=> \E i \in 1..Len(q) : q[i] = x
           /\ ToSet(q) \subseteq S /\ Len(q) \in Nat /\ DOMAIN q = 1..Len(q)
           /\ \A x : Contains(q, x) <=> x \in ToSet(q)
           /\ ToSet(q) = {} <=> q = <<>>
BY DEF ToSet, Contains

(* One is added at the end.                                                *)
LEMMA AppendKeeps ==
    ASSUME NEW S, NEW q \in Seq(S), NEW x \in S,
           IsInjective(q), x \notin ToSet(q)
    PROVE  /\ Append(q, x) \in Seq(S) /\ IsInjective(Append(q, x))
           /\ ToSet(Append(q, x)) = ToSet(q) \union {x}
<1> DEFINE a == Append(q, x)
<1>1. /\ a \in Seq(S) /\ Len(a) = Len(q) + 1 /\ Len(q) \in Nat
      /\ \A i \in 1..Len(q) : a[i] = q[i]
      /\ a[Len(q) + 1] = x
  OBVIOUS
<1>2. \A y : y \in ToSet(q) <=> \E i \in 1..Len(q) : q[i] = y
  BY Elements
<1> HIDE DEF a
<1>3. \A y : y \in ToSet(a) <=> \E i \in 1..Len(a) : a[i] = y
  BY <1>1, Elements
<1>4. \A i \in 1..Len(a) : i \in 1..Len(q) \/ i = Len(q) + 1
  BY <1>1
<1>5. IsInjective(a)
  <2>1. DOMAIN a = 1..Len(a) /\ DOMAIN q = 1..Len(q)
    BY <1>1, Elements
  <2> QED
    BY <1>1, <1>2, <1>4, <2>1 DEF IsInjective
<1>6. 1..Len(q) \subseteq 1..Len(a) /\ Len(q) + 1 \in 1..Len(a)
  BY <1>1
<1>7. ToSet(a) = ToSet(q) \union {x}
  BY <1>1, <1>2, <1>3, <1>4, <1>6
<1> QED
  BY <1>1, <1>5, <1>7 DEF a

(* The element at k is taken out, what is behind it moves up.              *)
LEMMA RemoveAtFacts ==
    ASSUME NEW S, NEW q \in Seq(S), NEW k \in 1..Len(q)
    PROVE  /\ RemoveAt(q, k) \in Seq(S)
           /\ Len(RemoveAt(q, k)) = Len(q) - 1
           /\ \A i \in 1..(Len(q) - 1) :
                RemoveAt(q, k)[i] = IF i < k THEN q[i] ELSE q[i + 1]
<1> DEFINE a == SubSeq(q, 1, k - 1)
           b == SubSeq(q, k + 1, Len(q))
<1>1. /\ a \in Seq(S) /\ Len(a) = k - 1 /\ \A i \in 1..(k-1) : a[i] = q[i]
  OBVIOUS
<1>2. /\ b \in Seq(S) /\ Len(b) = Len(q) - k
      /\ \A i \in 1..(Len(q) - k) : b[i] = q[k + i]
  OBVIOUS
<1> HIDE DEF a, b
<1>3. /\ a \o b \in Seq(S) /\ Len(a \o b) = Len(a) + Len(b)
      /\ \A i \in 1..(Len(a) + Len(b)) :
           (a \o b)[i] = IF i <= Len(a) THEN a[i] ELSE b[i - Len(a)]
  BY <1>1, <1>2, ConcatProperties, Zenon
<1> DEFINE c == a \o b
<1>4. c = RemoveAt(q, k)
  BY DEF RemoveAt, a, b
<1>5. /\ c \in Seq(S) /\ Len(c) = Len(a) + Len(b)
      /\ \A i \in 1..(Len(a) + Len(b)) :
           c[i] = IF i <= Len(a) THEN a[i] ELSE b[i - Len(a)]
  BY <1>3
<1> HIDE DEF c
<1>6. \A i \in 1..(Len(q) - 1) : c[i] = IF i < k THEN q[i] ELSE q[i + 1]
  <2> TAKE i \in 1..(Len(q) - 1)
  <2>0. /\ i \in Nat /\ k \in Nat /\ Len(q) \in Nat /\ i \in 1..(Len(a) + Len(b))
        /\ i >= 1 /\ i <= Len(q) - 1 /\ Len(a) = k - 1
    BY <1>1, <1>2
  <2>1. CASE i < k
    <3>1. i \in 1..(k - 1) /\ i <= Len(a)
      BY <2>0, <2>1
    <3> QED
      BY <1>1, <1>5, <2>0, <2>1, <3>1
  <2>2. CASE ~(i < k)
    <3>1. i - Len(a) \in 1..(Len(q) - k) /\ k + (i - Len(a)) = i + 1
          /\ ~(i <= Len(a))
      BY <2>0, <2>2
    <3>2. c[i] = b[i - Len(a)]
      BY <1>5, <2>0, <3>1
    <3>3. b[i - Len(a)] = q[i + 1]
      BY <1>2, <3>1
    <3> QED
      BY <2>2, <3>2, <3>3
  <2> QED
    BY <2>1, <2>2
<1> QED
  BY <1>1, <1>2, <1>4, <1>5, <1>6

(* One that is in the list is taken out.                                   *)
LEMMA WithoutKeeps ==
    ASSUME NEW S, NEW q \in Seq(S), NEW x, IsInjective(q), x \in ToSet(q)
    PROVE  /\ Without(q, x) \in Seq(S) /\ IsInjective(Without(q, x))
           /\ ToSet(Without(q, x)) = ToSet(q) \ {x}
<1> DEFINE k == CHOOSE i \in DOMAIN q : q[i] = x
           r == RemoveAt(q, k)
<1>1. \A y : y \in ToSet(q) <=> \E i \in 1..Len(q) : q[i] = y
  BY Elements
<1>2. k \in 1..Len(q) /\ q[k] = x
  BY <1>1, Elements
<1> HIDE DEF k
<1>3. /\ r \in Seq(S) /\ Len(r) = Len(q) - 1
      /\ \A i \in 1..(Len(q) - 1) : r[i] = IF i < k THEN q[i] ELSE q[i + 1]
  BY <1>2, RemoveAtFacts
<1> HIDE DEF r
<1>4. Len(q) \in Nat /\ k \in Nat /\ Len(r) \in Nat
  BY <1>2, <1>3
<1> DEFINE up(i) == IF i < k THEN i ELSE i + 1
<1>5. ASSUME NEW i \in 1..Len(r)
      PROVE  up(i) \in 1..Len(q) /\ r[i] = q[up(i)] /\ up(i) # k
  BY <1>3, <1>4
<1>6. ASSUME NEW i \in 1..Len(r), NEW j \in 1..Len(r), up(i) = up(j)
      PROVE  i = j
  BY <1>4, <1>6
<1>7. ASSUME NEW i \in 1..Len(q), i # k
      PROVE  \E j \in 1..Len(r) : up(j) = i
  <2>1. CASE i < k
    <3>1. i \in 1..Len(r) /\ up(i) = i
      BY <1>2, <1>3, <1>4, <2>1
    <3> QED
      BY <3>1
  <2>2. CASE i > k
    <3>1. i - 1 \in 1..Len(r) /\ up(i - 1) = i
      BY <1>2, <1>3, <1>4, <2>2
    <3> QED
      BY <3>1
  <2> QED
    BY <1>4, <1>7, <2>1, <2>2
<1> HIDE DEF up
<1>8. DOMAIN q = 1..Len(q) /\ DOMAIN r = 1..Len(r)
  BY <1>3, Elements
<1>9. IsInjective(r)
  BY <1>5, <1>6, <1>8 DEF IsInjective
<1>10. \A y : y \in ToSet(r) <=> \E i \in 1..Len(r) : r[i] = y
  BY <1>3, Elements
<1>11. ASSUME NEW y \in ToSet(r) PROVE y \in ToSet(q) \ {x}
  <2>1. PICK i \in 1..Len(r) : r[i] = y
    BY <1>10
  <2>2. q[up(i)] = y /\ q[up(i)] # q[k]
    BY <1>2, <1>5, <1>8, <2>1 DEF IsInjective
  <2> QED
    BY <1>1, <1>2, <1>5, <2>2
<1>12. ASSUME NEW y \in ToSet(q) \ {x} PROVE y \in ToSet(r)
  <2>1. PICK i \in 1..Len(q) : q[i] = y
    BY <1>1
  <2>2. i # k
    BY <1>2, <2>1
  <2>3. PICK j \in 1..Len(r) : up(j) = i
    BY <1>7, <2>2
  <2> QED
    BY <1>5, <1>10, <2>1, <2>3
<1>13. r = Without(q, x)
  BY DEF r, k, Without
<1> QED
  BY <1>3, <1>9, <1>11, <1>12, <1>13

(* A call is begun, and the innermost call returns.                        *)
LEMMA PushElements ==
    ASSUME NEW S, NEW q \in Seq(S), NEW x \in S
    PROVE  <<x>> \o q \in Seq(S) /\ ToSet(<<x>> \o q) = {x} \union ToSet(q)
<1> DEFINE a == <<x>> \o q
<1>1. /\ a \in Seq(S) /\ Len(a) = Len(q) + 1 /\ Len(q) \in Nat
      /\ a[1] = x /\ \A i \in 1..Len(q) : a[i + 1] = q[i]
  OBVIOUS
<1>2. \A y : y \in ToSet(q) <=> \E i \in 1..Len(q) : q[i] = y
  BY Elements
<1> HIDE DEF a
<1>3. \A y : y \in ToSet(a) <=> \E i \in 1..Len(a) : a[i] = y
  BY <1>1, Elements
<1>4. \A i \in 1..Len(a) : i = 1 \/ (i - 1 \in 1..Len(q) /\ (i - 1) + 1 = i)
  BY <1>1
<1>5. 1 \in 1..Len(a) /\ \A i \in 1..Len(q) : i + 1 \in 1..Len(a)
  BY <1>1
<1>6. ASSUME NEW y \in ToSet(a) PROVE y \in {x} \union ToSet(q)
  <2>1. PICK i \in 1..Len(a) : a[i] = y
    BY <1>3
  <2>2. CASE i = 1
    BY <1>1, <2>1, <2>2
  <2>3. CASE i # 1
    BY <1>1, <1>2, <1>4, <2>1, <2>3
  <2> QED
    BY <2>2, <2>3
<1>7. ASSUME NEW y \in {x} \union ToSet(q) PROVE y \in ToSet(a)
  BY <1>1, <1>2, <1>3, <1>5
<1>8. ToSet(a) = {x} \union ToSet(q)
  BY <1>6, <1>7
<1> QED
  BY <1>1, <1>8 DEF a

LEMMA TailElements ==
    ASSUME NEW S, NEW q \in Seq(S), q # <<>>
    PROVE  /\ Head(q) \in S /\ Tail(q) \in Seq(S)
           /\ ToSet(q) = {Head(q)} \union ToSet(Tail(q))
<1>1. Head(q) \in S /\ Tail(q) \in Seq(S) /\ q = <<Head(q)>> \o Tail(q)
  OBVIOUS
<1> QED
  BY <1>1, PushElements

(***************************************************************************)
(* The inductive invariant.                                                *)
(***************************************************************************)

Gone ==
    \A e \in Engine \ alive :
        /\ ToSet(auditors[e]) \subseteq {Input[e]}
        /\ \/ masters[Input[e]] = <<>> /\ auditors[Input[e]] = <<>>
           \/ Destroying(Input[e]) \in ToSet(stack)

Calls ==
    \A call \in ToSet(stack) :
        call.m # None => Owned(call.f) /\ Owned(call.m) /\ Exists(call.m)

LinksInv == LinkTypeOK /\ BothEnds /\ Gone /\ Calls /\ NothingLeaks

(* A field or engine is linked to another, seen from both ends.            *)
LEMMA BothSee ==
    ASSUME LinkTypeOK, BothEnds, NEW f \in Field, NEW n \in Node
    PROVE  n \in ToSet(masters[f]) <=> f \in ToSet(auditors[n])
<1>1. masters[f] \in Seq(Node) /\ auditors[n] \in Seq(Field)
  BY DEF LinkTypeOK
<1>2. Contains(masters[f], n) <=> n \in ToSet(masters[f])
  BY <1>1, Elements
<1>3. Contains(auditors[n], f) <=> f \in ToSet(auditors[n])
  BY <1>1, Elements
<1> QED
  BY <1>2, <1>3 DEF BothEnds

(* The same of any lists, from the sets of their elements.                 *)
LEMMA SeenFromBoth ==
    ASSUME NEW M \in [Field -> Seq(Node)], NEW A \in [Node -> Seq(Field)],
           \A f \in Field, n \in Node : n \in ToSet(M[f]) <=> f \in ToSet(A[n])
    PROVE  \A f \in Field, n \in Node : Contains(M[f], n) <=> Contains(A[n], f)
<1> TAKE f \in Field, n \in Node
<1>1. M[f] \in Seq(Node) /\ A[n] \in Seq(Field)
  OBVIOUS
<1>2. Contains(M[f], n) <=> n \in ToSet(M[f])
  BY <1>1, Elements
<1>3. Contains(A[n], f) <=> f \in ToSet(A[n])
  BY <1>1, Elements
<1> QED
  BY <1>2, <1>3

LEMMA LinksInit == LinkInit => LinksInv
<1> SUFFICES ASSUME LinkInit PROVE LinksInv
  OBVIOUS
<1> USE LinksAssumption
<1>1. stack \in Seq(Frame) /\ \A call \in ToSet(stack) : call.m \in Node
  <2>1. /\ Len(Built) \in Nat /\ DOMAIN Built = 1..Len(Built)
        /\ \A i \in 1..Len(Built) : Built[i] \in Field \X Node
    OBVIOUS
  <2>2. ASSUME NEW i \in 1..Len(Built)
        PROVE  /\ Connecting(Built[i][1], Built[i][2], TRUE) \in Frame
               /\ Connecting(Built[i][1], Built[i][2], TRUE).m \in Node
    BY <2>1 DEF Connecting, Frame
  <2>3. stack = [i \in 1..Len(Built) |-> Connecting(Built[i][1], Built[i][2], TRUE)]
    BY <2>1 DEF LinkInit
  <2>4. stack \in Seq(Frame)
    <3>1. stack \in [1..Len(Built) -> Frame]
      BY <2>2, <2>3
    <3> QED
      BY <2>1, <3>1
  <2>5. DOMAIN stack = 1..Len(Built)
    BY <2>3
  <2> QED
    BY <2>2, <2>3, <2>4, <2>5 DEF ToSet
<1>2. LinkTypeOK
  BY <1>1 DEF LinkInit, LinkTypeOK
<1>3. BothEnds
  BY DEF LinkInit, BothEnds, IsInjective, Contains
<1>4. Gone
  BY DEF LinkInit, Gone
<1>5. Calls
  BY DEF LinkInit, Calls, Owned, Exists
<1>6. NothingLeaks
  BY DEF LinkInit, NothingLeaks
<1> QED
  BY <1>2, <1>3, <1>4, <1>5, <1>6 DEF LinksInv

(* An unref after links were cut or the application let go: the engine is  *)
(* destroyed exactly if there is no reference left.                        *)
LEMMA UnrefKeeps ==
    ASSUME LinkTypeOK, Gone, Calls, NEW m \in Node,
           auditors' \in [Node -> Seq(Field)], held' \subseteq held,
           \A f \in Field : masters[f] = <<>> => masters'[f] = <<>>,
           \A n \in Node : ToSet(auditors'[n]) \subseteq ToSet(auditors[n]),
           \A f \in Field : auditors[f] = <<>> => auditors'[f] = <<>>,
           \A call \in ToSet(stack) :
               call.m # None => Owned(call.f)' /\ Owned(call.m)',
           \A e \in alive \ {m} : e \in held' \/ HasSlave(e)' \/ BeingConnected(e),
           Unref(m)
    PROVE  /\ alive' \subseteq Engine /\ held' \subseteq alive'
           /\ stack' \in Seq(Frame)
           /\ Gone' /\ Calls' /\ NothingLeaks'
<1> USE LinksAssumption
<1> DEFINE dies == m \in alive \ held' /\ ~HasSlave(m)' /\ ~BeingConnected(m)
           D == Destroying(Input[m])
<1>1. alive \subseteq Engine /\ held \subseteq alive /\ stack \in Seq(Frame)
  BY DEF LinkTypeOK
<1>2. CASE dies
  <2>1. alive' = alive \ {m} /\ stack' = <<D>> \o stack /\ m \in Engine
    BY <1>1, <1>2 DEF Unref
  <2>2. D \in Frame /\ D.m = None
    BY <2>1 DEF Destroying, Frame
  <2>3. stack' \in Seq(Frame) /\ ToSet(stack') = {D} \union ToSet(stack)
    BY <1>1, <2>1, <2>2, PushElements
  <2>4. alive' \subseteq Engine /\ held' \subseteq alive'
    BY <1>1, <1>2, <2>1
  <2>5. ASSUME NEW e \in Engine \ alive'
        PROVE  /\ ToSet(auditors'[e]) \subseteq {Input[e]}
               /\ \/ masters'[Input[e]] = <<>> /\ auditors'[Input[e]] = <<>>
                  \/ Destroying(Input[e]) \in ToSet(stack')
    <3>1. CASE e = m
      <4>1. ToSet(auditors'[m]) \subseteq {Input[m]}
        BY <1>2 DEF HasSlave
      <4> QED
        BY <2>3, <3>1, <4>1
    <3>2. CASE e # m
      <4>1. e \in Engine \ alive /\ e \in Node /\ Input[e] \in Field
        BY <2>1, <3>2 DEF Node
      <4> QED
        BY <2>3, <4>1 DEF Gone, Node
    <3> QED
      BY <3>1, <3>2
  <2>6. ASSUME NEW call \in ToSet(stack'), call.m # None
        PROVE  Owned(call.f)' /\ Owned(call.m)' /\ Exists(call.m)'
    <3>1. call \in ToSet(stack)
      BY <2>2, <2>3, <2>6
    <3>2. Owned(call.f)' /\ Owned(call.m)' /\ Exists(call.m)
      BY <2>6, <3>1 DEF Calls
    <3>3. ASSUME NEW e \in Engine, call.m \in {e, Input[e]} PROVE e \in alive'
      <4>1. e \in alive
        BY <3>2, <3>3 DEF Exists
      <4>2. e # m
        <5>1. CASE call.m = e
          BY <1>2, <3>1, <5>1 DEF BeingConnected
        <5>2. CASE call.m = Input[e]
          BY <1>2, <3>2, <5>2 DEF Owned
        <5> QED
          BY <3>3, <5>1, <5>2
      <4> QED
        BY <2>1, <4>1, <4>2
    <3> QED
      BY <3>2, <3>3 DEF Exists
  <2>7. ASSUME NEW e \in alive'
        PROVE  e \in held' \/ HasSlave(e)' \/ BeingConnected(e)'
    <3>1. e \in alive \ {m}
      BY <2>1
    <3>2. BeingConnected(e) => BeingConnected(e)'
      BY <2>3 DEF BeingConnected
    <3> QED
      BY <3>1, <3>2
  <2> QED
    BY <2>3, <2>4, <2>5, <2>6, <2>7 DEF Gone, Calls, NothingLeaks
<1>3. CASE ~dies
  <2>1. alive' = alive /\ stack' = stack
    BY <1>3 DEF Unref
  <2>2. Gone'
    BY <2>1 DEF Gone, Node
  <2>3. Calls'
    <3>1. ASSUME NEW call \in ToSet(stack), call.m # None PROVE Exists(call.m)'
      BY <2>1, <3>1 DEF Calls, Exists
    <3> QED
      BY <2>1, <3>1 DEF Calls
  <2>4. NothingLeaks'
    <3>1. ASSUME NEW e \in alive
          PROVE  e \in held' \/ HasSlave(e)' \/ BeingConnected(e)
      BY <1>3
    <3>2. \A e \in alive : BeingConnected(e)' <=> BeingConnected(e)
      BY <2>1 DEF BeingConnected
    <3> QED
      BY <2>1, <3>1, <3>2 DEF NothingLeaks
  <2> QED
    BY <1>1, <2>1, <2>2, <2>3, <2>4
<1> QED
  BY <1>2, <1>3

(* A link is cut.                                                          *)
LEMMA CutKeeps ==
    ASSUME LinksInv, NEW f \in Field, NEW m \in Node,
           m \in ToSet(masters[f]), Cut(f, m)
    PROVE  LinksInv'
<1> USE LinksAssumption
<1>1. LinkTypeOK /\ BothEnds /\ Gone /\ Calls /\ NothingLeaks
  BY DEF LinksInv
<1>2. /\ masters \in [Field -> Seq(Node)] /\ auditors \in [Node -> Seq(Field)]
      /\ masters' = [masters EXCEPT ![f] = Without(masters[f], m)]
      /\ auditors' = [auditors EXCEPT ![m] = Without(auditors[m], f)]
      /\ held' = held /\ Unref(m) /\ held \subseteq alive
  BY <1>1 DEF Cut, LinkTypeOK
<1>3. f \in ToSet(auditors[m])
  BY <1>1, BothSee
<1>4. /\ Without(masters[f], m) \in Seq(Node)
      /\ IsInjective(Without(masters[f], m))
      /\ ToSet(Without(masters[f], m)) = ToSet(masters[f]) \ {m}
  BY <1>1, <1>2, WithoutKeeps DEF BothEnds
<1>5. /\ Without(auditors[m], f) \in Seq(Field)
      /\ IsInjective(Without(auditors[m], f))
      /\ ToSet(Without(auditors[m], f)) = ToSet(auditors[m]) \ {f}
  BY <1>1, <1>2, <1>3, WithoutKeeps DEF BothEnds
<1>6. masters' \in [Field -> Seq(Node)] /\ auditors' \in [Node -> Seq(Field)]
  BY <1>2, <1>4, <1>5
<1>7. /\ \A g \in Field : ToSet(masters'[g]) =
             IF g = f THEN ToSet(masters[g]) \ {m} ELSE ToSet(masters[g])
      /\ \A n \in Node : ToSet(auditors'[n]) =
             IF n = m THEN ToSet(auditors[n]) \ {f} ELSE ToSet(auditors[n])
  BY <1>2, <1>4, <1>5
<1>8. BothEnds'
  <2>1. \A g \in Field : IsInjective(masters'[g])
    BY <1>1, <1>2, <1>4 DEF BothEnds
  <2>2. \A n \in Node : IsInjective(auditors'[n])
    BY <1>1, <1>2, <1>5 DEF BothEnds
  <2>3. \A g \in Field, n \in Node :
            n \in ToSet(masters'[g]) <=> g \in ToSet(auditors'[n])
    <3> TAKE g \in Field, n \in Node
    <3>1. n \in ToSet(masters[g]) <=> g \in ToSet(auditors[n])
      BY <1>1, BothSee
    <3> QED
      BY <1>7, <3>1
  <2> QED
    BY <1>6, <2>1, <2>2, <2>3, SeenFromBoth DEF BothEnds
<1>9. \A g \in Field : masters[g] = <<>> => masters'[g] = <<>>
  BY <1>2, Elements
<1>10. \A n \in Node : auditors[n] = <<>> => auditors'[n] = <<>>
  BY <1>2, <1>3, Elements
<1>11. \A call \in ToSet(stack) :
           call.m # None => Owned(call.f)' /\ Owned(call.m)'
  <2>1. \A n : Owned(n)' <=> Owned(n)
    BY <1>2 DEF Owned
  <2> QED
    BY <1>1, <2>1 DEF Calls
<1>12. \A e \in alive \ {m} : e \in held' \/ HasSlave(e)' \/ BeingConnected(e)
  <2> TAKE e \in alive \ {m}
  <2>1. e \in Node /\ auditors'[e] = auditors[e]
    BY <1>1, <1>2 DEF LinkTypeOK, Node
  <2>2. HasSlave(e)' <=> HasSlave(e)
    BY <2>1 DEF HasSlave
  <2> QED
    BY <1>1, <1>2, <2>2 DEF NothingLeaks
<1>13. /\ alive' \subseteq Engine /\ held' \subseteq alive'
       /\ stack' \in Seq(Frame)
       /\ Gone' /\ Calls' /\ NothingLeaks'
  <2>1. \A n \in Node : ToSet(auditors'[n]) \subseteq ToSet(auditors[n])
    BY <1>7
  <2>2. \A g \in Field : auditors[g] = <<>> => auditors'[g] = <<>>
    BY <1>10 DEF Node
  <2> QED
    BY <1>1, <1>2, <1>6, <1>9, <1>11, <1>12, <2>1, <2>2, UnrefKeeps
<1> QED
  BY <1>6, <1>8, <1>13 DEF LinksInv, LinkTypeOK

(* A link is made that a call has prepared, and the call returns.          *)
LEMMA LinkKeeps ==
    ASSUME LinksInv, NEW f \in Field, NEW m \in Node, Link(f, m)
    PROVE  LinksInv'
<1> USE LinksAssumption
<1>1. LinkTypeOK /\ BothEnds /\ Gone /\ Calls /\ NothingLeaks
  BY DEF LinksInv
<1>2. /\ masters \in [Field -> Seq(Node)] /\ auditors \in [Node -> Seq(Field)]
      /\ masters' = [masters EXCEPT ![f] = Append(masters[f], m)]
      /\ auditors' = [auditors EXCEPT ![m] = Append(auditors[m], f)]
      /\ alive' = alive /\ held' = held /\ alive \subseteq Engine
      /\ held \subseteq alive /\ stack \in Seq(Frame)
  BY <1>1 DEF Link, LinkTypeOK
<1>3. /\ stack # <<>> /\ stack' = Tail(stack) /\ m # None
      /\ Head(stack).f = f /\ Head(stack).m = m
  BY DEF Link
<1>4. /\ stack' \in Seq(Frame)
      /\ ToSet(stack) = {Head(stack)} \union ToSet(stack')
  BY <1>2, <1>3, TailElements
<1>5. Owned(f) /\ Owned(m) /\ Exists(m)
  BY <1>1, <1>3, <1>4 DEF Calls
<1>6. m \notin ToSet(masters[f])
  <2>1. masters[f] = <<>> => ToSet(masters[f]) = {}
    BY <1>2, Elements
  <2>2. Contains(masters[f], m) <=> m \in ToSet(masters[f])
    BY <1>2, Elements
  <2> QED
    BY <2>1, <2>2 DEF Link
<1>7. f \notin ToSet(auditors[m])
  BY <1>1, <1>6, BothSee
<1>8. /\ Append(masters[f], m) \in Seq(Node)
      /\ IsInjective(Append(masters[f], m))
      /\ ToSet(Append(masters[f], m)) = ToSet(masters[f]) \union {m}
  BY <1>1, <1>2, <1>6, AppendKeeps DEF BothEnds
<1>9. /\ Append(auditors[m], f) \in Seq(Field)
      /\ IsInjective(Append(auditors[m], f))
      /\ ToSet(Append(auditors[m], f)) = ToSet(auditors[m]) \union {f}
  BY <1>1, <1>2, <1>7, AppendKeeps DEF BothEnds
<1>10. masters' \in [Field -> Seq(Node)] /\ auditors' \in [Node -> Seq(Field)]
  BY <1>2, <1>8, <1>9
<1>11. /\ \A g \in Field : ToSet(masters'[g]) =
              IF g = f THEN ToSet(masters[g]) \union {m} ELSE ToSet(masters[g])
       /\ \A n \in Node : ToSet(auditors'[n]) =
              IF n = m THEN ToSet(auditors[n]) \union {f} ELSE ToSet(auditors[n])
  BY <1>2, <1>8, <1>9
<1>12. LinkTypeOK'
  BY <1>2, <1>4, <1>10 DEF LinkTypeOK
<1>13. BothEnds'
  <2>1. \A g \in Field : IsInjective(masters'[g])
    BY <1>1, <1>2, <1>8 DEF BothEnds
  <2>2. \A n \in Node : IsInjective(auditors'[n])
    BY <1>1, <1>2, <1>9 DEF BothEnds
  <2>3. \A g \in Field, n \in Node :
            n \in ToSet(masters'[g]) <=> g \in ToSet(auditors'[n])
    <3> TAKE g \in Field, n \in Node
    <3>1. n \in ToSet(masters[g]) <=> g \in ToSet(auditors[n])
      BY <1>1, BothSee
    <3> QED
      BY <1>11, <3>1
  <2> QED
    BY <1>10, <2>1, <2>2, <2>3, SeenFromBoth DEF BothEnds
<1>14. Gone'
  <2>1. ASSUME NEW e \in Engine \ alive
        PROVE  /\ ToSet(auditors'[e]) \subseteq {Input[e]}
               /\ \/ masters'[Input[e]] = <<>> /\ auditors'[Input[e]] = <<>>
                  \/ Destroying(Input[e]) \in ToSet(stack')
    <3>1. m # e /\ m # Input[e] /\ f # Input[e] /\ e \in Node /\ Input[e] \in Node
      BY <1>2, <1>5 DEF Owned, Exists, Node
    <3>2. /\ auditors'[e] = auditors[e] /\ auditors'[Input[e]] = auditors[Input[e]]
          /\ masters'[Input[e]] = masters[Input[e]]
      BY <1>2, <3>1
    <3>3. Head(stack) # Destroying(Input[e])
      BY <1>3 DEF Destroying
    <3> QED
      BY <1>1, <1>4, <3>2, <3>3 DEF Gone
  <2> QED
    BY <1>2, <2>1 DEF Gone
<1>15. Calls'
  <2>1. \A n : (Owned(n)' <=> Owned(n)) /\ (Exists(n)' <=> Exists(n))
    BY <1>2 DEF Owned, Exists
  <2> QED
    BY <1>1, <1>4, <2>1 DEF Calls
<1>16. NothingLeaks'
  <2>1. ASSUME NEW e \in alive
        PROVE  e \in held \/ HasSlave(e)' \/ BeingConnected(e)'
    <3>1. e \in Node
      BY <1>2 DEF Node
    <3>2. HasSlave(e) => HasSlave(e)'
      BY <1>11, <3>1 DEF HasSlave
    <3>3. CASE e = m
      <4>1. CASE f = Input[e]
        BY <1>2, <1>5, <4>1 DEF Owned
      <4>2. CASE f # Input[e]
        BY <1>11, <3>1, <3>3, <4>2 DEF HasSlave
      <4> QED
        BY <4>1, <4>2
    <3>4. CASE e # m
      <4>1. BeingConnected(e) => BeingConnected(e)'
        BY <1>3, <1>4, <3>4 DEF BeingConnected
      <4> QED
        BY <1>1, <3>2, <4>1 DEF NothingLeaks
    <3> QED
      BY <3>3, <3>4
  <2> QED
    BY <1>2, <2>1 DEF NothingLeaks
<1> QED
  BY <1>12, <1>13, <1>14, <1>15, <1>16 DEF LinksInv

(* A call returns that has nothing to link.                                *)
LEMMA ReturnKeeps ==
    ASSUME LinksInv, Destroyed \/ AlreadyMade
    PROVE  LinksInv'
<1> USE LinksAssumption
<1>1. LinkTypeOK /\ BothEnds /\ Gone /\ Calls /\ NothingLeaks
  BY DEF LinksInv
<1>2. /\ masters' = masters /\ auditors' = auditors
      /\ alive' = alive /\ held' = held
      /\ stack # <<>> /\ stack' = Tail(stack) /\ stack \in Seq(Frame)
  BY <1>1 DEF Destroyed, AlreadyMade, LinkTypeOK
<1>3. /\ stack' \in Seq(Frame) /\ Head(stack) \in Frame
      /\ ToSet(stack) = {Head(stack)} \union ToSet(stack')
  BY <1>2, TailElements
<1>4. LinkTypeOK'
  BY <1>1, <1>2, <1>3 DEF LinkTypeOK
<1>5. BothEnds'
  BY <1>1, <1>2 DEF BothEnds
<1>6. Gone'
  <2>1. ASSUME NEW e \in Engine, Head(stack) = Destroying(Input[e])
        PROVE  masters[Input[e]] = <<>> /\ auditors[Input[e]] = <<>>
    <3>1. Head(stack).f = Input[e] /\ ~Head(stack).append
      BY <2>1 DEF Destroying
    <3> QED
      BY <3>1 DEF Destroyed, AlreadyMade
  <2> QED
    BY <1>1, <1>2, <1>3, <2>1 DEF Gone
<1>7. Calls'
  <2>1. \A n : (Owned(n)' <=> Owned(n)) /\ (Exists(n)' <=> Exists(n))
    BY <1>2 DEF Owned, Exists
  <2> QED
    BY <1>1, <1>3, <2>1 DEF Calls
<1>8. NothingLeaks'
  <2>1. ASSUME NEW e \in alive, BeingConnected(e)
        PROVE  HasSlave(e) \/ e \in held \/ BeingConnected(e)'
    <3>1. CASE Head(stack).m = e
      <4>1. e \in Node /\ e # None /\ e \in Engine
        BY <1>1 DEF LinkTypeOK, Node
      <4>2. Contains(masters[Head(stack).f], e) /\ Head(stack).f \in Field
        BY <1>3, <3>1, <4>1 DEF Destroyed, AlreadyMade, Frame
      <4>3. masters[Head(stack).f] \in Seq(Node)
        BY <1>1, <4>2 DEF LinkTypeOK
      <4>4. Head(stack).f \in ToSet(auditors[e])
        BY <1>1, <4>1, <4>2, <4>3, Elements, BothSee
      <4>5. Owned(Head(stack).f)
        BY <1>1, <1>3, <3>1, <4>1 DEF Calls
      <4> QED
        BY <4>1, <4>4, <4>5 DEF HasSlave, Owned
    <3>2. CASE Head(stack).m # e
      BY <1>3, <2>1, <3>2 DEF BeingConnected
    <3> QED
      BY <3>1, <3>2
  <2>2. \A e : HasSlave(e)' <=> HasSlave(e)
    BY <1>2 DEF HasSlave
  <2> QED
    BY <1>1, <1>2, <2>1, <2>2 DEF NothingLeaks
<1> QED
  BY <1>4, <1>5, <1>6, <1>7, <1>8 DEF LinksInv

(* The application calls connectFrom.                                      *)
LEMMA ConnectFromKeeps ==
    ASSUME LinksInv, NEW f \in Field, NEW m \in Node, NEW append \in BOOLEAN,
           ConnectFrom(f, m, append)
    PROVE  LinksInv'
<1>1. LinkTypeOK /\ BothEnds /\ Gone /\ Calls /\ NothingLeaks
  BY DEF LinksInv
<1> DEFINE call == Connecting(f, m, append)
<1>2. /\ masters' = masters /\ auditors' = auditors
      /\ alive' = alive /\ held' = held /\ stack = <<>> /\ stack' = <<call>>
      /\ Owned(f) /\ Owned(m) /\ Exists(m)
  BY DEF ConnectFrom
<1>3. call \in Frame /\ call.f = f /\ call.m = m
  BY DEF Connecting, Frame
<1>4. stack' \in Seq(Frame) /\ ToSet(stack') = {call} /\ ToSet(stack) = {}
  BY <1>2, <1>3 DEF ToSet
<1>5. LinkTypeOK'
  BY <1>1, <1>2, <1>4 DEF LinkTypeOK
<1>6. BothEnds'
  BY <1>1, <1>2 DEF BothEnds
<1>7. Gone'
  BY <1>1, <1>2, <1>4 DEF Gone
<1>8. Calls'
  <2>1. \A n : (Owned(n)' <=> Owned(n)) /\ (Exists(n)' <=> Exists(n))
    BY <1>2 DEF Owned, Exists
  <2> QED
    BY <1>2, <1>3, <1>4, <2>1 DEF Calls
<1>9. NothingLeaks'
  <2>1. \A e : ~BeingConnected(e) /\ (HasSlave(e)' <=> HasSlave(e))
    BY <1>2, <1>4 DEF BeingConnected, HasSlave
  <2> QED
    BY <1>1, <1>2, <2>1 DEF NothingLeaks
<1> QED
  BY <1>5, <1>6, <1>7, <1>8, <1>9 DEF LinksInv

(* The application lets go of an engine.                                   *)
LEMMA ReleaseKeeps ==
    ASSUME LinksInv, NEW e \in Engine, Release(e)
    PROVE  LinksInv'
<1>1. LinkTypeOK /\ BothEnds /\ Gone /\ Calls /\ NothingLeaks
  BY DEF LinksInv
<1>2. /\ masters' = masters /\ auditors' = auditors /\ stack = <<>>
      /\ held' = held \ {e} /\ Unref(e) /\ e \in Node
  BY DEF Release, Node
<1>3. BothEnds'
  BY <1>1, <1>2 DEF BothEnds
<1>4. \A g \in alive \ {e} : g \in held' \/ HasSlave(g)' \/ BeingConnected(g)
  <2>1. \A g : HasSlave(g)' <=> HasSlave(g)
    BY <1>2 DEF HasSlave
  <2> QED
    BY <1>1, <1>2, <2>1 DEF NothingLeaks
<1>5. ToSet(stack) = {}
  BY <1>2 DEF ToSet
<1>6. auditors' \in [Node -> Seq(Field)]
  BY <1>1, <1>2 DEF LinkTypeOK
<1>7. /\ alive' \subseteq Engine /\ held' \subseteq alive'
      /\ stack' \in Seq(Frame)
      /\ Gone' /\ Calls' /\ NothingLeaks'
  BY <1>1, <1>2, <1>4, <1>5, <1>6, UnrefKeeps
<1> QED
  BY <1>1, <1>2, <1>3, <1>7 DEF LinksInv, LinkTypeOK

LEMMA LinksStep == LinksInv /\ [LinkNext]_linkVars => LinksInv'
<1> SUFFICES ASSUME LinksInv, [LinkNext]_linkVars PROVE LinksInv'
  OBVIOUS
<1>1. LinkTypeOK /\ BothEnds
  BY DEF LinksInv
<1>2. /\ masters \in [Field -> Seq(Node)] /\ auditors \in [Node -> Seq(Field)]
      /\ stack # <<>> => Head(stack) \in Frame
  BY <1>1, TailElements DEF LinkTypeOK
<1>3. ASSUME NEW f \in Field, NEW m \in Node, NEW append \in BOOLEAN,
             ConnectFrom(f, m, append)
      PROVE  LinksInv'
  BY <1>3, ConnectFromKeeps
<1>4. ASSUME NEW f \in Field, NEW m \in Node, Disconnect(f, m)
      PROVE  LinksInv'
  <2>1. m \in ToSet(masters[f]) /\ Cut(f, m)
    BY <1>2, <1>4, Elements DEF Disconnect
  <2> QED
    BY <2>1, CutKeeps
<1>5. ASSUME NEW f \in Field, NEW m \in Node, Link(f, m)
      PROVE  LinksInv'
  BY <1>5, LinkKeeps
<1>6. ASSUME NEW e \in Engine, Release(e) PROVE LinksInv'
  BY <1>6, ReleaseKeeps
<1>7. ASSUME NEW m \in Node, BreakUp(m) PROVE LinksInv'
  <2> DEFINE f == Head(stack).f
  <2>1. f \in Field /\ Cut(f, m)
    BY <1>2, <1>7 DEF BreakUp, Frame
  <2>2. m \in ToSet(masters[f])
    BY <1>7 DEF BreakUp, ToSet
  <2> QED
    BY <2>1, <2>2, CutKeeps
<1>8. ASSUME NEW f \in Field, DropSlave(f) PROVE LinksInv'
  <2> DEFINE i == Head(stack).f
  <2>1. i \in Field /\ i \in Node /\ Cut(f, i)
    BY <1>2, <1>8 DEF DropSlave, Frame, Node
  <2>2. auditors[i] \in Seq(Field) /\ auditors[i] # <<>> /\ f = Head(auditors[i])
    BY <1>2, <1>8, <2>1 DEF DropSlave
  <2>3. f \in ToSet(auditors[i])
    BY <2>2, TailElements
  <2>4. i \in ToSet(masters[f])
    BY <1>1, <2>1, <2>3, BothSee
  <2> QED
    BY <2>1, <2>4, CutKeeps
<1>9. CASE Destroyed \/ AlreadyMade
  BY <1>9, ReturnKeeps
<1>10. CASE UNCHANGED linkVars
  BY <1>10 DEF linkVars, LinksInv, LinkTypeOK, BothEnds, Gone, Calls, Owned,
               Exists, NothingLeaks, HasSlave, BeingConnected
<1> QED
  BY <1>3, <1>4, <1>5, <1>6, <1>7, <1>8, <1>9, <1>10 DEF LinkNext

(* What the invariant says between two calls and of what is to be linked.  *)
LEMMA LinksInvSays == LinksInv => LinksAgree
<1> SUFFICES ASSUME LinksInv PROVE LinksAgree
  OBVIOUS
<1> USE LinksAssumption
<1>1. LinkTypeOK /\ BothEnds /\ Gone /\ Calls /\ NothingLeaks
  BY DEF LinksInv
<1>2. Pending
  <2>1. ASSUME NEW call \in ToSet(stack), call.m # None, NEW e \in Engine,
               call.f \in {e, Input[e]}
        PROVE  e \in alive
    <3>1. call \in Frame
      BY <1>1, Elements DEF LinkTypeOK
    <3>2. call.f = Input[e]
      BY <2>1, <3>1 DEF Frame
    <3> QED
      BY <1>1, <2>1, <3>2 DEF Calls, Owned, LinkTypeOK
  <2> QED
    BY <1>1, <2>1 DEF Pending, Calls, Exists
<1>3. NothingDangles
  <2> SUFFICES ASSUME stack = <<>>, NEW f \in Field, NEW n \in Node,
                      Contains(masters[f], n), NEW e \in Engine \ alive
               PROVE  f \notin {e, Input[e]} /\ n \notin {e, Input[e]}
    BY DEF NothingDangles, Exists
  <2>1. masters[f] \in Seq(Node) /\ auditors[n] \in Seq(Field)
    BY <1>1 DEF LinkTypeOK
  <2>2. n \in ToSet(masters[f]) /\ f \in ToSet(auditors[n])
    BY <1>1, <2>1, Elements, BothSee
  <2>3. masters[f] # <<>> /\ auditors[n] # <<>>
    BY <2>1, <2>2, Elements
  <2>4. /\ ToSet(auditors[e]) \subseteq {Input[e]}
        /\ masters[Input[e]] = <<>> /\ auditors[Input[e]] = <<>>
    <3>1. ToSet(stack) = {}
      BY DEF ToSet
    <3> QED
      BY <1>1, <3>1 DEF Gone
  <2>5. f # Input[e] /\ n # Input[e]
    BY <2>3, <2>4
  <2>6. n # e
    BY <2>2, <2>4, <2>5
  <2>7. f # e
    OBVIOUS
  <2> QED
    BY <2>5, <2>6, <2>7
<1> QED
  BY <1>1, <1>2, <1>3 DEF LinksAgree

(* Whatever the application connects, disconnects and lets go of, in       *)
(* networks with circles and with engines that keep each other alive: the  *)
(* links of fields and engine outputs agree from both ends, connectFrom    *)
(* links nothing that broke up on the way, no engine outlives the last     *)
(* reference to it, and nothing stays linked to one that is gone.          *)
THEOREM LinksStayAgreed == LinkSpec => []LinksAgree
<1>1. LinkInit => LinksInv
  BY LinksInit
<1>2. LinksInv /\ [LinkNext]_linkVars => LinksInv'
  BY LinksStep
<1> QED
  BY <1>1, <1>2, LinksInvSays, PTL DEF LinkSpec

=============================================================================

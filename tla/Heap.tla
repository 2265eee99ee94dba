-------------------------------- MODULE Heap --------------------------------
(***************************************************************************)
(* The binary heap of src/src/base/heap.cpp, made with support_remove: an  *)
(* array of elements, the largest first, and a hash table with the place   *)
(* of each element.  Places count from 1.  p gives the elements' priority, *)
(* by which the scheduler's callback compares them.                        *)
(***************************************************************************)
EXTENDS Integers, SequencesExt

EmptyHeap == [array |-> <<>>, hash |-> <<>>]

(* cc_dict_put *)
Store(d, x, i) == [y \in DOMAIN d \union {x} |-> IF y = x THEN i ELSE d[y]]

Put(h, i, x) ==
    [array |-> [h.array EXCEPT ![i] = x], hash |-> Store(h.hash, x, i)]

Forget(h, x) ==
    [array |-> h.array, hash |-> Restrict(h.hash, DOMAIN h.hash \ {x})]

Largest(a, i, p) ==
    LET Above(j, k) == j <= Len(a) /\ p[a[j]] > p[a[k]]
        l == IF Above(2 * i, i) THEN 2 * i ELSE i
    IN  IF Above(2 * i + 1, l) THEN 2 * i + 1 ELSE l

(* heap_heapify: the element at s.i changes places with its larger child   *)
(* and goes on from there, as long as that is larger; after[n] is where n  *)
(* calls of the recursion have brought it.                                 *)
Sink(s, p) ==
    LET a == s.h.array
        m == Largest(a, s.i, p)
    IN  IF m = s.i THEN s
        ELSE [h |-> Put(Put(s.h, s.i, a[m]), m, a[s.i]), i |-> m]

Heapify(h, i, p) ==
    LET after[n \in Nat] == IF n = 0 THEN [h |-> h, i |-> i] ELSE Sink(after[n-1], p)
    IN  after[Len(h.array)].h

(* cc_heap_add: parents that are smaller than x move down to make room.    *)
Rise(s, x, p) ==
    LET above == s.i \div 2
    IN  IF s.i > 1 /\ p[x] > p[s.h.array[above]]
        THEN [h |-> Put(s.h, s.i, s.h.array[above]), i |-> above]
        ELSE s

HeapAdd(h, x, p) ==
    LET bottom == [h |-> [array |-> Append(h.array, x), hash |-> h.hash],
                   i |-> Len(h.array) + 1]
        after[n \in Nat] == IF n = 0 THEN bottom ELSE Rise(after[n-1], x, p)
        room == after[Len(h.array)]
    IN  Put(room.h, room.i, x)

(* The last element takes the place i, which may be its own.               *)
MoveLast(h, i) ==
    LET x == Last(h.array)
        a == Front(h.array)
    IN  [array |-> IF i \in DOMAIN a THEN [a EXCEPT ![i] = x] ELSE a,
         hash |-> Store(h.hash, x, i)]

(* cc_heap_extract_top, but for the element it returns.                    *)
HeapExtractTop(h, p) ==
    Heapify(Forget(MoveLast(h, 1), h.array[1]), 1, p)

(* cc_heap_remove.  What takes the place of x may only sink.               *)
HeapRemove(h, x, p) ==
    IF x \notin DOMAIN h.hash THEN h
    ELSE Forget(Heapify(MoveLast(h, h.hash[x]), h.hash[x], p), x)

(* The hash table knows where each element is, and nothing else.           *)
HashAgrees(h) ==
    /\ DOMAIN h.hash = ToSet(h.array)
    /\ \A x \in DOMAIN h.hash : h.hash[x] \in DOMAIN h.array /\ h.array[h.hash[x]] = x
    /\ IsInjective(h.array)
=============================================================================

------------------------------- MODULE Fifo --------------------------------
(***************************************************************************)
(* The blocking queue of src/src/threads/fifo.cpp: a linked list of cells  *)
(* with head, tail and count, a free list of recycled cells, the mutex     *)
(* "access" and the condition variable "sleep".  A call is two actions,    *)
(* the lock and the rest of the function up to the unlock (up to the wait, *)
(* in retrieve); cc_fifo_lock returns between the two.                     *)
(*                                                                         *)
(* cc_fifo_try_retrieve takes CC_BUSY for success (it is not zero), so it  *)
(* goes on when access is held by another thread, and unlocks it at the    *)
(* end.  TryRetrieveBusy and UnlinkBusy are that call; "races" counts      *)
(* them.  The properties say what holds as long as there was none: after   *)
(* it two threads are in the list at once and nothing is promised.         *)
(*                                                                         *)
(* Items are numbered in the order in which they are assigned; "taken" is  *)
(* the sequence in which they left the queue.                              *)
(***************************************************************************)
EXTENDS Naturals, Sequences, FiniteSets

CONSTANTS
    Threads, Cells,      \* cells: addresses malloc can return
    NULL,                \* no cell
    MaxUInt,             \* the largest value of elements, an unsigned int
    MaxItems,            \* bound on the items ever assigned
    MaxRaces, MaxTaken   \* bounds on busy try_retrieves, on what is handed out

ASSUME NullAssumption == NULL \notin Cells
ASSUME CellsAssumption == IsFiniteSet(Cells)     \* memory is finite
ASSUME MaxItemsAssumption == MaxItems \in Nat /\ MaxUInt \in Nat /\ MaxItems <= MaxUInt

VARIABLES
    head, tail, free, elements,   \* fields of cc_fifo
    next, item,                   \* the cells: cc_fifo_item's next and item
    locked,                       \* access is held
    inside,                       \* threads between a lock and its unlock
    seen,                         \* the head a busy try_retrieve is unlinking
    waiting, sleep,               \* threads in retrieve's wait, and asleep
    waker,                        \* threads about to call wake_one, unlocked
    assigned, taken,              \* items assigned so far, items handed out
    races                         \* try_retrieves that found access held

list == <<head, tail, free, elements, next, item>>
mutex == <<locked, inside, seen, races>>
threads == <<waiting, sleep, waker>>
history == <<assigned, taken>>
vars == <<list, mutex, threads, history>>

(* The cells reached from c in at most |Cells| steps, in order. *)
Chain(c) ==
    LET at[n \in 0..Cardinality(Cells)] ==
            IF n = 0 THEN c ELSE IF at[n-1] = NULL THEN NULL ELSE next[at[n-1]]
        len == Cardinality({n \in DOMAIN at : at[n] # NULL})
    IN  [i \in 1..len |-> at[i-1]]
ChainItems(c) == [i \in DOMAIN Chain(c) |-> item[Chain(c)[i]]]
CellsOf(c) == {Chain(c)[i] : i \in DOMAIN Chain(c)}

Unallocated == Cells \ (CellsOf(head) \union CellsOf(free))

(* cc_fifo_struct_init *)
Init ==
    /\ head = NULL /\ tail = NULL /\ free = NULL /\ elements = 0
    /\ next = [c \in Cells |-> NULL] /\ item = [c \in Cells |-> 0]
    /\ locked = FALSE /\ inside = {} /\ seen = [t \in Threads |-> NULL]
    /\ waiting = {} /\ sleep = {} /\ waker = {}
    /\ assigned = 0 /\ taken = <<>> /\ races = 0

Increment(n) == IF n = MaxUInt THEN 0 ELSE n + 1
Decrement(n) == IF n = 0 THEN MaxUInt ELSE n - 1

(***************************************************************************)
(* The mutex: a thread that calls assign, retrieve or cc_fifo_lock takes   *)
(* it when it is free, try_retrieve only then, and a retriever that was    *)
(* woken takes it again in the wait.                                       *)
(***************************************************************************)
Outside(t) == t \notin inside \union waker \union sleep /\ seen[t] = NULL

Lock(t) ==
    /\ Outside(t) /\ ~locked
    /\ locked' = TRUE
    /\ inside' = inside \union {t}
    /\ UNCHANGED <<list, seen, races, threads, history>>

(* cc_mutex_unlock, and the release of access by the wait. *)
Unlock(t) ==
    /\ t \in inside
    /\ locked' = FALSE
    /\ inside' = inside \ {t}
    /\ UNCHANGED <<seen, races>>

WakeOne ==
    \/ sleep = {} /\ UNCHANGED sleep
    \/ \E u \in sleep : sleep' = sleep \ {u}

(***************************************************************************)
(* cc_fifo_assign: a recycled cell if there is one, else a new one; the    *)
(* cell is cut off from the free list and linked behind the tail.          *)
(***************************************************************************)
GetFreeItem(c) ==
    IF free # NULL THEN c = free ELSE c \in Unallocated

(* The links after c is appended: i_get_free_item's reset, i_append's link. *)
LinkKeepsNext(c) ==                         \* mutant: stale next pointer
    IF tail = NULL THEN next ELSE [next EXCEPT ![tail] = c]
LinkBehindTail(c) ==
    IF tail = NULL THEN [next EXCEPT ![c] = NULL]
                   ELSE [next EXCEPT ![c] = NULL, ![tail] = c]

WakeIfWasEmpty ==                           \* mutant: signal only when empty
    IF elements = 0 THEN WakeOne ELSE UNCHANGED sleep
WakeForgotten == UNCHANGED sleep            \* mutant: no signal at all
WakeRetriever == WakeOne

(* The bound on assigned; after a race, of which nothing is promised, no   *)
(* item is added either.                                                   *)
MayAssign == assigned < MaxItems /\ races = 0

Assign(t) ==
    /\ Unlock(t) /\ t \notin waiting /\ MayAssign
    /\ \E c \in Cells :
         /\ GetFreeItem(c)
         /\ free' = IF free = NULL THEN NULL ELSE next[c]
         /\ next' = LinkBehindTail(c)
         /\ item' = [item EXCEPT ![c] = assigned + 1]
         /\ head' = IF tail = NULL THEN c ELSE head
         /\ tail' = c
    /\ elements' = Increment(elements)
    /\ assigned' = assigned + 1
    /\ WakeRetriever
    /\ UNCHANGED <<waiting, waker, taken>>

(***************************************************************************)
(* Retrieving.  i_unlink_head takes the first cell off the list, which     *)
(* retrieve puts on the free list and try_retrieve gives back to malloc.   *)
(***************************************************************************)
UnlinkKeepsTail(c) ==                       \* mutant: dangling tail
    /\ Len(taken) < MaxTaken
    /\ head' = next[c]
    /\ UNCHANGED tail
    /\ elements' = Decrement(elements)
    /\ taken' = Append(taken, item[c])
Unlink(c) ==
    /\ Len(taken) < MaxTaken
    /\ head' = next[c]
    /\ tail' = IF next[c] = NULL THEN NULL ELSE tail
    /\ elements' = Decrement(elements)
    /\ taken' = Append(taken, item[c])

TakeAndRecycle ==
    /\ head # NULL /\ Unlink(head)
    /\ next' = [next EXCEPT ![head] = free]
    /\ free' = head
    /\ UNCHANGED item

Retrieve(t) ==
    /\ Unlock(t)
    /\ elements # 0
    /\ TakeAndRecycle
    /\ waiting' = waiting \ {t}
    /\ waker' = waker \union {t}
    /\ UNCHANGED <<sleep, assigned>>

RetrieveWait(t) ==
    /\ Unlock(t)
    /\ elements = 0
    /\ waiting' = waiting \union {t}
    /\ sleep' = sleep \union {t}
    /\ UNCHANGED <<list, waker, history>>

TakeAndDelete(c, t) ==
    /\ Unlink(c)
    /\ waker' = waker \union {t}
    /\ UNCHANGED <<free, next, item, waiting, sleep, assigned>>

(* With elements = 0 try_retrieve unlocks and returns FALSE: FifoUnlock. *)
TryRetrieve(t) ==
    /\ Unlock(t) /\ t \notin waiting
    /\ elements # 0
    /\ head # NULL /\ TakeAndDelete(head, t)

(* access is held, and cc_mutex_try_lock returns CC_BUSY. *)
TryRetrieveBusy(t) ==
    /\ Outside(t) /\ t \notin waiting /\ locked /\ races < MaxRaces
    /\ races' = races + 1
    /\ IF elements = 0
       THEN locked' = FALSE /\ UNCHANGED seen
       ELSE /\ head # NULL
            /\ seen' = [seen EXCEPT ![t] = head]
            /\ UNCHANGED locked
    /\ UNCHANGED <<list, inside, threads, history>>

UnlinkBusy(t) ==
    /\ seen[t] # NULL
    /\ TakeAndDelete(seen[t], t)
    /\ seen' = [seen EXCEPT ![t] = NULL]
    /\ locked' = FALSE
    /\ UNCHANGED <<inside, races>>

(* After a race the process may end at any time: i_unlink_head reads the   *)
(* next of a NULL head, or a cell is freed twice.                          *)
Crashed == races # 0 /\ UNCHANGED vars

(* The wake_one after the mutex is released. *)
WakeAfterRetrieve(t) ==
    /\ t \in waker
    /\ waker' = waker \ {t}
    /\ WakeOne
    /\ UNCHANGED <<list, mutex, waiting, history>>

(* The end of the caller's own section (peek, contains and reclaim are     *)
(* called in one), and of a try_retrieve that found the queue empty.       *)
FifoUnlock(t) ==
    /\ Unlock(t) /\ t \notin waiting
    /\ UNCHANGED <<list, threads, history>>

SpuriousWake(t) ==
    /\ t \in sleep
    /\ sleep' = sleep \ {t}
    /\ UNCHANGED <<list, mutex, waiting, waker, history>>

(* What a thread that holds access does next. *)
Proceed(t) ==
    \/ Assign(t) \/ Retrieve(t) \/ RetrieveWait(t) \/ TryRetrieve(t)
    \/ FifoUnlock(t)

Next ==
    \/ \E t \in Threads :
        \/ Lock(t) \/ Proceed(t) \/ TryRetrieveBusy(t) \/ UnlinkBusy(t)
        \/ WakeAfterRetrieve(t) \/ SpuriousWake(t)
    \/ Crashed

(* The threads run, and who locked unlocks; nobody must call anything, but *)
(* a retriever that was woken gets the mutex if it is free again and again. *)
Fairness ==
    \A t \in Threads :
        /\ SF_vars(t \in waiting /\ Lock(t)) /\ WF_vars(Proceed(t))
        /\ WF_vars(WakeAfterRetrieve(t)) /\ WF_vars(UnlinkBusy(t))

Spec == Init /\ [][Next]_vars
LiveSpec == Spec /\ Fairness

(***************************************************************************)
(* reclaim departs from what the users of size are told and is kept out of *)
(* Next: it unlinks the cell that holds an item, wherever it is, and does  *)
(* not touch elements.  ReclaimSpec breaks ListIsWellFormed.               *)
(***************************************************************************)
Reclaim(t) ==
    /\ t \in inside /\ t \notin waiting
    /\ \E i \in DOMAIN Chain(head) :
         LET c == Chain(head)[i]
             prev == IF i = 1 THEN NULL ELSE Chain(head)[i-1]
         IN  /\ head' = IF i = 1 THEN next[c] ELSE head
             /\ tail' = IF tail = c THEN prev ELSE tail
             /\ next' = [[next EXCEPT ![c] = free] EXCEPT
                            ![IF i = 1 THEN c ELSE prev] =
                                IF i = 1 THEN free ELSE next[c]]
             /\ item' = [item EXCEPT ![c] = 0]
             /\ free' = c
    /\ UNCHANGED <<elements, mutex, threads, history>>

ReclaimSpec == Init /\ [][Next \/ \E t \in Threads : Reclaim(t)]_vars

----------------------------------------------------------------------------
(* The type invariant of the list, the mutex, the threads and the history. *)
TypeOK ==
    /\ {head, tail, free} \subseteq Cells \union {NULL}
    /\ elements \in 0..MaxUInt
    /\ next \in [Cells -> Cells \union {NULL}]
    /\ item \in [Cells -> 0..MaxItems]
    /\ locked \in BOOLEAN /\ inside \subseteq Threads
    /\ seen \in [Threads -> Cells \union {NULL}]
    /\ sleep \subseteq waiting \ inside /\ waiting \union waker \subseteq Threads
    /\ assigned \in 0..MaxItems /\ taken \in Seq(0..MaxItems)
    /\ races \in Nat

(* As long as no try_retrieve found access held, the list is one: it ends  *)
(* in tail, it is empty when head is NULL, it has as many cells as         *)
(* elements says (cc_fifo_size), and no cell is both in the queue and on   *)
(* the free list, although cells travel between them and back with their   *)
(* next pointer still set; and one thread at a time is in it.              *)
ListIsOne ==
    /\ elements = Len(Chain(head))
    /\ IF head = NULL THEN tail = NULL
       ELSE Chain(head)[Len(Chain(head))] = tail /\ next[tail] = NULL
    /\ CellsOf(head) \intersect CellsOf(free) = {}
OneInside ==
    /\ \A t, u \in inside : t = u
    /\ locked <=> inside # {}
ListIsWellFormed == TypeOK /\ (races = 0 => ListIsOne /\ OneInside)

(* First in, first out, as long as no try_retrieve found access held: what *)
(* was taken, followed by what is in the list, is what was assigned, in    *)
(* that order, each item once, whichever threads and whichever of the two  *)
(* retrieving functions took them.                                         *)
FirstInFirstOut ==
    races = 0 => taken \o ChainItems(head) = [i \in 1..assigned |-> i]

(* As long as a retriever sleeps, as many are awake as there are items for *)
(* them: no item waits for a thread that nobody woke (unless a             *)
(* try_retrieve that found access held has changed elements).              *)
EnoughAwake ==
    races = 0 /\ sleep # {} => elements <= Cardinality(waiting \ sleep)

(* An item in the queue does not stay there while a retriever is blocked,  *)
(* as long as no try_retrieve finds access held.                           *)
BlockedRetrieverServed ==
    \A n \in 1..MaxItems :
        (waiting # {} /\ Len(taken) < n /\ n <= assigned)
            ~> (Len(taken) >= n \/ waiting = {} \/ races # 0)

=============================================================================

------------------------------- MODULE WPool --------------------------------
(***************************************************************************)
(* The worker pool of src/src/threads/wpool.cpp: an idle list and a busy   *)
(* list of workers under the pool's mutex, which a client keeps from       *)
(* cc_wpool_begin to cc_wpool_end, and a condition variable for clients    *)
(* that wait for workers to become idle.  A worker is the one-job slot of  *)
(* WorkerSlot, together with what it does between its job and its next     *)
(* wait: it calls the pool's idle callback with its own mutex still held,  *)
(* so that it is in the idle list a little before it can be started.       *)
(*                                                                         *)
(* These are the pool's state and operations; PoolClients adds clients     *)
(* that use it directly, Sched the scheduler that is built on it.          *)
(***************************************************************************)
EXTENDS Naturals, FiniteSets

CONSTANTS
    Workers, Clients,
    NoOne,           \* no thread owns the mutex
    Controllers      \* the clients that wait for all workers

ASSUME WorkersAssumption == IsFiniteSet(Workers) /\ Workers # {}
ASSUME ControllersAssumption ==     \* one thread waits for all: wpool.cpp:230
    Controllers \subseteq Clients /\ \A c, d \in Controllers : c = d
ASSUME NoOneAssumption == NoOne \notin Workers \union Clients

VARIABLES
    pmutex,                    \* owner of pool->mutex between two actions
    idlepool, busypool,        \* the two lists, whose order is immaterial
    iswaiting,                 \* field of cc_wpool
    wst,                       \* what each worker is doing; "gone" is no worker
    need,                      \* workers a client in wpool_wait waits for
    asleep,                    \* clients asleep on waitcond
    chosen                     \* worker whose mutex a client waits for

poolVars ==
    <<pmutex, idlepool, busypool, iswaiting, wst, need, asleep, chosen>>
lists == <<idlepool, busypool>>

Idle == Cardinality(idlepool)
All == Cardinality(Workers)

PoolInit ==
    /\ pmutex = NoOne
    /\ idlepool = Workers /\ busypool = {}
    /\ iswaiting = FALSE
    /\ wst = [w \in Workers |-> "new"]      \* the thread comes with a first job
    /\ need = [c \in Clients |-> 0]
    /\ asleep = {}
    /\ chosen = [c \in Clients |-> NoOne]

(***************************************************************************)
(* Starting a worker, by the owner of the pool's mutex.                    *)
(***************************************************************************)
(* wpool_get_idle_worker; cc_worker_start then blocks on the worker's      *)
(* mutex until the worker waits.                                           *)
GetBusyWorker(c) ==                         \* mutant: busy worker taken
    \E w \in IF busypool = {} THEN idlepool ELSE busypool :
        /\ idlepool' = idlepool \ {w}
        /\ busypool' = busypool \union {w}
        /\ chosen' = [chosen EXCEPT ![c] = w]
GetIdleWorker(c) ==
    \E w \in idlepool :
        /\ idlepool' = idlepool \ {w}
        /\ busypool' = busypool \union {w}
        /\ chosen' = [chosen EXCEPT ![c] = w]

WorkerStart(c) ==
    /\ wst[chosen[c]] \in {"new", "waiting"}
    /\ wst' = [wst EXCEPT ![chosen[c]] = "posted"]
    /\ chosen' = [chosen EXCEPT ![c] = NoOne]

(***************************************************************************)
(* wpool_wait: the condition is tested again after each wakeup.            *)
(***************************************************************************)
WaitTest(c, n, owner) ==
    IF Idle < n
    THEN /\ iswaiting' = TRUE
         /\ need' = [need EXCEPT ![c] = n]
         /\ asleep' = asleep \union {c}
         /\ UNCHANGED pmutex
    ELSE /\ iswaiting' = FALSE
         /\ need' = [need EXCEPT ![c] = 0]
         /\ pmutex' = owner
         /\ UNCHANGED asleep

(* Woken, with n still the number of workers wanted; owner says who has    *)
(* the mutex afterwards.                                                   *)
WaitWokenOnce(c, owner) ==                  \* mutant: if in place of while
    /\ need[c] # 0 /\ c \notin asleep /\ pmutex = NoOne
    /\ iswaiting' = FALSE
    /\ need' = [need EXCEPT ![c] = 0]
    /\ pmutex' = owner
    /\ UNCHANGED <<asleep, lists, wst, chosen>>
WaitWoken(c, owner) ==
    /\ need[c] # 0 /\ c \notin asleep /\ pmutex = NoOne
    /\ IF Idle < need[c]
       THEN /\ asleep' = asleep \union {c}
            /\ UNCHANGED <<iswaiting, need, pmutex>>
       ELSE /\ iswaiting' = FALSE
            /\ need' = [need EXCEPT ![c] = 0]
            /\ pmutex' = owner
            /\ UNCHANGED asleep
    /\ UNCHANGED <<lists, wst, chosen>>

(***************************************************************************)
(* The worker's side.                                                      *)
(***************************************************************************)
WakeWaiter ==
    \/ ~(iswaiting /\ asleep # {}) /\ UNCHANGED asleep
    \/ iswaiting /\ \E c \in asleep : asleep' = asleep \ {c}

(* wpool_idle_cb *)
IdleCbNoSignal(w) ==                        \* mutant: the waiter not woken
    /\ wst[w] = "leaving" /\ pmutex = NoOne
    /\ wst' = [wst EXCEPT ![w] = "parking"]
    /\ busypool' = busypool \ {w}
    /\ idlepool' = IF w \in busypool THEN idlepool \union {w} ELSE idlepool
    /\ UNCHANGED <<pmutex, iswaiting, need, asleep, chosen>>
IdleCb(w) ==
    /\ wst[w] = "leaving" /\ pmutex = NoOne
    /\ wst' = [wst EXCEPT ![w] = "parking"]
    /\ busypool' = busypool \ {w}
    /\ idlepool' = IF w \in busypool THEN idlepool \union {w} ELSE idlepool
    /\ WakeWaiter
    /\ UNCHANGED <<pmutex, iswaiting, need, chosen>>

(* The worker waits for its next job and so gives its own mutex up. *)
Park(w) ==
    /\ wst[w] = "parking"
    /\ wst' = [wst EXCEPT ![w] = "waiting"]
    /\ UNCHANGED <<pmutex, lists, iswaiting, need, asleep, chosen>>

WaiterWokenSpuriously(c) ==
    /\ c \in asleep
    /\ asleep' = asleep \ {c}
    /\ UNCHANGED <<pmutex, lists, iswaiting, wst, need, chosen>>

----------------------------------------------------------------------------
(* The type invariant of the pool. *)
PoolTypeOK ==
    /\ pmutex \in Clients \union {NoOne}
    /\ idlepool \subseteq Workers /\ busypool \subseteq Workers
    /\ iswaiting \in BOOLEAN
    /\ wst \in [Workers -> {"gone", "new", "waiting", "posted", "working",
                            "leaving", "parking"}]
    /\ need \in [Clients -> 0..All]
    /\ asleep \subseteq {c \in Clients : need[c] # 0}
    /\ chosen \in [Clients -> Workers \union {NoOne}]

(* Every worker is in exactly one list, and one that works, or has not yet *)
(* told the pool that it is done, is in the busy list: nothing can be      *)
(* posted to a worker that has not run what was posted before.             *)
ListsPartition ==
    /\ \A w \in Workers : wst[w] = "gone" <=> w \notin idlepool \union busypool
    /\ idlepool \intersect busypool = {}
    /\ \A w \in idlepool : wst[w] \in {"new", "parking", "waiting"}
    /\ \A w \in busypool :
         wst[w] \in {"new", "parking", "waiting"} =>
             \E c \in Clients : chosen[c] = w

(* A client is not asleep when the workers it waits for are idle; as long  *)
(* as it sleeps without them, the next idle callback will signal it.       *)
WaiterWillBeWoken ==
    \A c \in asleep : iswaiting /\ Idle < need[c]
=============================================================================

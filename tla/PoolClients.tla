---------------------------- MODULE PoolClients -----------------------------
(***************************************************************************)
(* The worker pool of module WPool with clients that use it directly: a    *)
(* client brackets the starting of workers with begin and end, or waits    *)
(* for all workers, changes their number or destructs the pool.  "left" is *)
(* the number of workers that begin promised it and that it has not        *)
(* started yet.  Any client may wait for workers in begin, and they share  *)
(* the pool's iswaiting; "shared" remembers whether those that wait now    *)
(* have met another one that did.                                          *)
(***************************************************************************)
EXTENDS WPool

VARIABLES
    left,
    numworkers,                \* field of cc_wpool
    target, dying              \* the number set_num_workers is to bring about,
                               \* or 0 in cc_wpool_destruct
VARIABLE shared                \* history: clients have waited together

size == <<numworkers, target, dying>>
vars == <<poolVars, left, size, shared>>

Init ==
    /\ PoolInit
    /\ left = [c \in Clients |-> 0]
    /\ numworkers = All /\ target = All /\ dying = FALSE
    /\ shared = FALSE

(* set_num_workers and the destructor work without the mutex: they are     *)
(* called when nobody waits, and no sequence begins meanwhile.             *)
Settled == target = numworkers /\ ~dying

Out(c) == pmutex # c /\ need[c] = 0

(* Client c enters wpool_wait, be it only to leave it at once; or has      *)
(* waited in it.                                                           *)
EntersWait(c) == shared' = \E d \in Clients \ {c} : need[d] # 0
LeavesWait == shared' = (shared /\ \E d \in Clients : need'[d] # 0)

(* cc_wpool_try_begin; when it returns FALSE nothing has changed. *)
TryBegin(c, n) ==
    /\ Out(c) /\ pmutex = NoOne /\ Settled
    /\ Idle >= n
    /\ pmutex' = c
    /\ left' = [left EXCEPT ![c] = n]
    /\ UNCHANGED <<lists, iswaiting, wst, need, asleep, chosen, size,
                   shared>>

(* cc_wpool_begin does not enter wpool_wait when there are workers enough. *)
Begin(c, n) ==
    /\ Out(c) /\ pmutex = NoOne /\ Settled
    /\ n <= numworkers
    /\ left' = [left EXCEPT ![c] = n]
    /\ IF Idle < n
       THEN WaitTest(c, n, c) /\ EntersWait(c)
       ELSE /\ pmutex' = c
            /\ UNCHANGED <<iswaiting, need, asleep, shared>>
    /\ UNCHANGED <<lists, wst, chosen, size>>

(* cc_wpool_wait_all ends with the mutex released. *)
WaitForAll(c) ==
    /\ Out(c) /\ pmutex = NoOne /\ c \in Controllers /\ Settled
    /\ WaitTest(c, numworkers, NoOne) /\ EntersWait(c)
    /\ UNCHANGED <<lists, wst, chosen, left, numworkers>>

WaitAll(c) == WaitForAll(c) /\ UNCHANGED <<target, dying>>

Resume(c) ==
    /\ WaitWoken(c, IF left[c] = 0 THEN NoOne ELSE c)
    /\ LeavesWait
    /\ UNCHANGED <<left, size>>

(* cc_wpool_set_num_workers waits for all, and then, without the mutex,    *)
(* makes new workers or destructs idle ones, one after the other.          *)
SetNumWorkers(c, n) ==
    /\ n # numworkers
    /\ \A d \in Clients : Out(d)
    /\ WaitForAll(c)
    /\ target' = n /\ UNCHANGED dying

Resizing == ~Settled /\ \A c \in Clients : need[c] = 0

AddWorkers ==
    /\ Resizing /\ target > numworkers
    /\ \E S \in SUBSET {w \in Workers : wst[w] = "gone"} :
         /\ Cardinality(S) = target - numworkers
         /\ idlepool' = idlepool \union S
         /\ wst' = [w \in Workers |-> IF w \in S THEN "new" ELSE wst[w]]
    /\ numworkers' = target
    /\ UNCHANGED <<pmutex, busypool, iswaiting, need, asleep, chosen, left, target,
                   dying, shared>>

(* cc_worker_destruct takes the worker's mutex, so the worker has to wait. *)
DestructOneMore ==                          \* mutant: <= in place of <
    /\ Resizing /\ target < numworkers
    /\ \E w \in idlepool :
         /\ wst[w] \in {"new", "waiting"}
         /\ idlepool' = idlepool \ {w}
         /\ wst' = [wst EXCEPT ![w] = "gone"]
    /\ numworkers' = IF Idle \in {target, 1} THEN target ELSE numworkers
    /\ UNCHANGED <<pmutex, busypool, iswaiting, need, asleep, chosen, left, target,
                   dying, shared>>
DestructWorker ==
    /\ Resizing /\ target < numworkers
    /\ \E w \in idlepool :
         /\ wst[w] \in {"new", "waiting"}
         /\ idlepool' = idlepool \ {w}
         /\ wst' = [wst EXCEPT ![w] = "gone"]
    /\ numworkers' = IF Idle - 1 = target THEN target ELSE numworkers
    /\ UNCHANGED <<pmutex, busypool, iswaiting, need, asleep, chosen, left, target,
                   dying, shared>>

(* cc_wpool_destruct, after which there is no call. *)
Destruct(c) ==
    /\ \A d \in Clients : Out(d)
    /\ WaitForAll(c)
    /\ target' = 0 /\ dying' = TRUE

Destructed == dying /\ numworkers = 0 /\ UNCHANGED vars

(* cc_wpool_start_worker, in two steps. *)
StartWorker(c) ==
    /\ pmutex = c /\ left[c] # 0 /\ chosen[c] = NoOne
    /\ GetIdleWorker(c)
    /\ left' = [left EXCEPT ![c] = @ - 1]
    /\ UNCHANGED <<pmutex, iswaiting, wst, need, asleep, size, shared>>

PostJob(c) ==
    /\ chosen[c] # NoOne
    /\ WorkerStart(c)
    /\ UNCHANGED <<pmutex, lists, iswaiting, need, asleep, left, size, shared>>

(* cc_wpool_end; a client may start fewer workers than it asked for. *)
End(c) ==
    /\ pmutex = c /\ chosen[c] = NoOne
    /\ pmutex' = NoOne
    /\ left' = [left EXCEPT ![c] = 0]
    /\ UNCHANGED <<lists, iswaiting, wst, need, asleep, chosen, size, shared>>

(* worker_thread_loop: the job is run with the worker's mutex held. *)
RunJob(w) ==
    /\ wst[w] \in {"posted", "working"}
    /\ wst' = [wst EXCEPT ![w] = IF @ = "posted" THEN "working" ELSE "leaving"]
    /\ UNCHANGED <<pmutex, lists, iswaiting, need, asleep, chosen, left, size, shared>>

Worker(w) ==
    \/ RunJob(w)
    \/ (IdleCb(w) \/ Park(w)) /\ UNCHANGED <<left, size, shared>>

Client(c) ==
    \/ \E n \in 1..All : TryBegin(c, n) \/ Begin(c, n)
    \/ \E n \in 0..All : SetNumWorkers(c, n)
    \/ WaitAll(c) \/ Resume(c) \/ Destruct(c)
    \/ StartWorker(c) \/ PostJob(c) \/ End(c)
    \/ WaiterWokenSpuriously(c) /\ UNCHANGED <<left, size, shared>>

Next ==
    \/ \E w \in Workers : Worker(w)
    \/ \E c \in Clients : Client(c)
    \/ AddWorkers \/ DestructWorker \/ Destructed

(* Jobs return and threads get the mutexes they wait for; clients finish   *)
(* the sequences they began.  The mutex is not monopolised: a thread that  *)
(* could take it again and again eventually does.                          *)
Fairness ==
    /\ \A w \in Workers : SF_vars(Worker(w))
    /\ \A c \in Clients : SF_vars(Resume(c) \/ PostJob(c) \/ End(c))
    /\ WF_vars(AddWorkers) /\ WF_vars(DestructWorker)

Spec == Init /\ [][Next]_vars
LiveSpec == Spec /\ Fairness

----------------------------------------------------------------------------
(* The type invariant of the pool and its clients. *)
TypeOK ==
    /\ PoolTypeOK
    /\ left \in [Clients -> 0..All]
    /\ numworkers \in 0..All /\ target \in 0..All /\ dying \in BOOLEAN
    /\ shared \in BOOLEAN

(* What begin promised is there: the workers a client still may start are  *)
(* idle (the assert of wpool_get_idle_worker).  And when the number of     *)
(* workers is changed, or they are destructed, without the mutex, all are  *)
(* idle, as the comment of cc_wpool_set_num_workers says.                  *)
PromiseKept ==
    /\ \A c \in Clients : pmutex = c => Idle >= left[c]
    /\ Resizing => pmutex = NoOne /\ busypool = {}

(* A client that has waited alone since it began is not asleep while the   *)
(* workers it waits for are idle, and the next idle callback will signal   *)
(* it.  Of clients that wait together the first to get its workers clears  *)
(* iswaiting for the others (wpool.cpp:118).                               *)
LoneWaiterWoken == ~shared => WaiterWillBeWoken

(* A client that waits for workers gets them, unless another one waits     *)
(* beside it, and a change of their number ends; or else other clients     *)
(* start workers for ever.  Nobody sleeps through the last idle callback   *)
(* or waits for more workers than there are.                               *)
WaitReturns ==
    \/ /\ \A c \in Clients : need[c] # 0 ~> need[c] = 0 \/ shared
       /\ target # numworkers ~> target = numworkers
    \/ []<>(\E c \in Clients : chosen[c] # NoOne)
=============================================================================

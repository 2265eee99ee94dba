------------------------------- MODULE Sched --------------------------------
(***************************************************************************)
(* The job scheduler of src/src/threads/sched.cpp, on the worker pool of   *)
(* WPool: a heap of items under the scheduler's mutex, from which workers  *)
(* take the item of highest priority until there are none, and client      *)
(* threads that schedule, unschedule and wait.                             *)
(*                                                                         *)
(* Jobs are named by their schedid.  An item is a cell of the allocator,   *)
(* which hands out the cell that was freed last.  The dictionary of the    *)
(* code has exactly the items of the heap, so it is not kept separately.   *)
(*                                                                         *)
(* A client may hold the scheduler's mutex, the pool's and wait for that   *)
(* of a worker, in this order; an action ends where the next one of them   *)
(* is to be locked.                                                        *)
(***************************************************************************)
EXTENDS WPool, Heap

CONSTANTS
    Prios,          \* priorities
    MaxJobs,        \* bound on the schedids given out
    Allowances      \* what set_num_allowed is called with

ASSUME SchedAssumption ==
    /\ MaxJobs \in Nat /\ Prios \subseteq Nat \ {0}
    /\ Allowances \subseteq Nat \union {-1}

VARIABLES
    smutex,                         \* the client that keeps sched->mutex
    heap,                           \* itemheap, of cells
    items,                          \* memory of the cells: schedid, priority
    freelist,                       \* the allocator's free cells
    schedid_counter, numallowed, iswaitingall,
    item,                           \* cell each worker is running
    cpc, op,                        \* where a client is, and in which call
    ptr,                            \* "item" of cc_sched_schedule, and its job
    cancelled                       \* history: the jobs unscheduled

queue == <<heap, items, freelist, schedid_counter, cancelled>>
modes == <<numallowed, iswaitingall>>
clients == <<cpc, op, ptr>>
schedVars == <<smutex, queue, modes, item, clients>>
vars == <<poolVars, schedVars>>

Cells == 1..MaxJobs
Ids == 1..MaxJobs
NoCell == 0
NoPtr == [cell |-> NoCell, job |-> 0]

Init ==
    /\ PoolInit
    /\ smutex = NoOne
    /\ heap = EmptyHeap
    /\ items = [x \in Cells |-> [id |-> 0, prio |-> 0]]
    /\ freelist = [i \in Cells |-> i]
    /\ schedid_counter = 1
    /\ numallowed = -1 /\ iswaitingall = FALSE
    /\ item = [w \in Workers |-> NoCell]
    /\ cpc = [c \in Clients |-> "idle"]
    /\ op = [c \in Clients |-> "none"]
    /\ ptr = [c \in Clients |-> NoPtr]
    /\ cancelled = {}

Goto(c, l) == cpc' = [cpc EXCEPT ![c] = l]
Alive == \A c \in Clients : op[c] # "destruct"
Call(c, o) ==
    cpc[c] = "idle" /\ smutex = NoOne /\ Alive /\ op' = [op EXCEPT ![c] = o]
Free(x) == freelist' = <<x>> \o freelist
SetPriority(x, p) == items' = [items EXCEPT ![x] = [id |-> @.id, prio |-> p]]
Queued == ToSet(heap.array)
Empty == heap.array = <<>>
Priority == [x \in Cells |-> items[x].prio]
Cell(j) == {x \in Queued : items[x].id = j}
Returned(j) == \A c \in Clients : ptr[c].job # j

(***************************************************************************)
(* Clients: cc_sched_schedule; a worker is only triggered for the first    *)
(* item of the heap.                                                       *)
(***************************************************************************)
Schedule(c, p) ==
    /\ schedid_counter <= MaxJobs
    /\ Call(c, "schedule")
    /\ LET x == Head(freelist) IN
         /\ freelist' = Tail(freelist)
         /\ items' = [items EXCEPT ![x] = [id |-> schedid_counter, prio |-> p]]
         /\ schedid_counter' = schedid_counter + 1
         /\ heap' = HeapAdd(heap, x, [Priority EXCEPT ![x] = p])
         /\ ptr' = [ptr EXCEPT ![c] = [cell |-> x, job |-> schedid_counter]]
    /\ IF Empty
       THEN smutex' = c /\ Goto(c, "trigger")
       ELSE UNCHANGED smutex /\ Goto(c, "returning")
    /\ UNCHANGED <<poolVars, modes, item, cancelled>>

(* The item is read again after the mutex is released. *)
Return(c) ==
    /\ cpc[c] = "returning"
    /\ Goto(c, "idle")
    /\ op' = [op EXCEPT ![c] = "none"]
    /\ ptr' = [ptr EXCEPT ![c] = NoPtr]
    /\ UNCHANGED <<poolVars, smutex, queue, modes, item>>

(* cc_sched_unschedule, with a schedid that was returned; of a job that is *)
(* not in the heap it does nothing.                                        *)
UnscheduleKeepsHeap(c, j) ==                \* mutant: not taken off the heap
    /\ cpc[c] = "idle" /\ smutex = NoOne /\ Alive /\ Returned(j)
    /\ \E x \in Cell(j) : Free(x) /\ UNCHANGED <<heap, items>>
    /\ cancelled' = cancelled \union {j}
    /\ UNCHANGED <<poolVars, smutex, schedid_counter, modes, item, clients>>
Unschedule(c, j) ==
    /\ cpc[c] = "idle" /\ smutex = NoOne /\ Alive /\ Returned(j)
    /\ \E x \in Cell(j) :
         /\ heap' = HeapRemove(heap, x, Priority)
         /\ SetPriority(x, 0) /\ Free(x)
    /\ cancelled' = cancelled \union {j}
    /\ UNCHANGED <<poolVars, smutex, schedid_counter, modes, item, clients>>

ChangePriorityInPlace(c, j, p) ==           \* mutant: not taken off and added
    /\ cpc[c] = "idle" /\ smutex = NoOne /\ Alive /\ Returned(j)
    /\ \E x \in Cell(j) : SetPriority(x, p)
    /\ UNCHANGED <<poolVars, smutex, heap, freelist, schedid_counter, cancelled,
                   modes, item, clients>>
ChangePriority(c, j, p) ==
    /\ cpc[c] = "idle" /\ smutex = NoOne /\ Alive /\ Returned(j)
    /\ \E x \in Cell(j) :
         /\ SetPriority(x, p)
         /\ heap' = HeapAdd(HeapRemove(heap, x, Priority), x,
                            [Priority EXCEPT ![x] = p])
    /\ UNCHANGED <<poolVars, smutex, freelist, schedid_counter, cancelled,
                   modes, item, clients>>

SetNumAllowed(c, n) ==
    /\ Call(c, "allow")
    /\ numallowed' = n
    /\ smutex' = c /\ Goto(c, "trigger")
    /\ UNCHANGED <<poolVars, queue, iswaitingall, item, ptr>>

(***************************************************************************)
(* sched_try_trigger: cc_wpool_try_begin, cc_wpool_start_worker and        *)
(* cc_wpool_end, and then the rest of the call that it was made from.      *)
(***************************************************************************)
AfterTrigger(c, started) ==
    IF op[c] = "waitall" /\ started /\ ~Empty
    THEN UNCHANGED <<smutex, cpc, op>>
    ELSE /\ smutex' = NoOne
         /\ Goto(c, CASE op[c] = "schedule" -> "returning"
                      [] op[c] = "allow" -> "idle"
                      [] OTHER -> "poolwait")
         /\ op' = [op EXCEPT ![c] = IF @ = "allow" THEN "none" ELSE @]

Trigger(c) ==
    /\ cpc[c] = "trigger" /\ chosen[c] = NoOne /\ pmutex = NoOne
    /\ IF Idle >= 1
       THEN /\ GetIdleWorker(c) /\ pmutex' = c
            /\ UNCHANGED <<smutex, clients>>
       ELSE /\ AfterTrigger(c, FALSE)
            /\ UNCHANGED <<pmutex, lists, chosen, ptr>>
    /\ UNCHANGED <<iswaiting, wst, need, asleep, queue, modes, item>>

Post(c) ==
    /\ cpc[c] = "trigger" /\ chosen[c] # NoOne
    /\ WorkerStart(c) /\ pmutex' = NoOne
    /\ AfterTrigger(c, TRUE)
    /\ UNCHANGED <<lists, iswaiting, need, asleep, queue, modes, item, ptr>>

(***************************************************************************)
(* cc_sched_wait_all.                                                      *)
(***************************************************************************)
WaitAll(c) ==
    /\ c \in Controllers
    /\ Call(c, "waitall")
    /\ iswaitingall' = TRUE
    /\ IF Empty
       THEN Goto(c, "poolwait") /\ UNCHANGED smutex
       ELSE Goto(c, "trigger") /\ smutex' = c
    /\ UNCHANGED <<poolVars, queue, numallowed, item, ptr>>

PoolWait(c) ==
    /\ cpc[c] = "poolwait" /\ pmutex = NoOne
    /\ WaitTest(c, All, NoOne)
    /\ Goto(c, "waited")
    /\ UNCHANGED <<lists, wst, chosen, smutex, queue, modes, item, op, ptr>>

Resume(c) == WaitWoken(c, NoOne) /\ UNCHANGED schedVars

Waited(c) ==
    /\ cpc[c] = "waited" /\ op[c] = "waitall" /\ need[c] = 0 /\ smutex = NoOne
    /\ iswaitingall' = FALSE
    /\ Goto(c, "idle")
    /\ op' = [op EXCEPT ![c] = "none"]
    /\ UNCHANGED <<poolVars, smutex, queue, numallowed, item, ptr>>

(***************************************************************************)
(* cc_sched_destruct: no other call is made during it or after it.  What   *)
(* it frees when the workers are idle is not in the model.                 *)
(***************************************************************************)
DestructWaitsNot(c) ==                      \* mutant: cc_wpool_wait_all missing
    /\ \A d \in Clients : cpc[d] = "idle"
    /\ Call(c, "destruct")
    /\ numallowed' = 0
    /\ Goto(c, "waited")
    /\ UNCHANGED <<poolVars, smutex, queue, iswaitingall, item, ptr>>
Destruct(c) ==
    /\ \A d \in Clients : cpc[d] = "idle"
    /\ Call(c, "destruct")
    /\ numallowed' = 0
    /\ smutex' = c /\ Goto(c, "trigger")
    /\ UNCHANGED <<poolVars, queue, iswaitingall, item, ptr>>

Destructed(c) == cpc[c] = "waited" /\ need[c] = 0 /\ op[c] = "destruct"
Terminated == (\E c \in Clients : Destructed(c)) /\ UNCHANGED vars

(***************************************************************************)
(* Workers: sched_worker_entry_point.                                      *)
(***************************************************************************)
(* The test of the loop, with n the value of numallowed, by worker w, and  *)
(* the taking of the next item.                                            *)
TakeNext(w, n) ==
    IF ~Empty /\ (n # 0 \/ iswaitingall)
    THEN /\ heap' = HeapExtractTop(heap, Priority)
         /\ item' = [item EXCEPT ![w] = heap.array[1]]
         /\ wst' = [wst EXCEPT ![w] = "working"]
    ELSE /\ item' = [item EXCEPT ![w] = NoCell]
         /\ wst' = [wst EXCEPT ![w] = "leaving"]
         /\ UNCHANGED heap

Enter(w) ==
    /\ wst[w] = "posted" /\ smutex = NoOne
    /\ TakeNext(w, numallowed)
    /\ UNCHANGED <<pmutex, lists, iswaiting, need, asleep, chosen, smutex, items,
                   freelist, schedid_counter, cancelled, modes, clients>>

(* The job returns; its priority is not looked at again. *)
Finish(w) ==
    /\ wst[w] = "working" /\ smutex = NoOne
    /\ SetPriority(item[w], 0) /\ Free(item[w])
    /\ numallowed' = IF numallowed > 0 THEN numallowed - 1 ELSE numallowed
    /\ TakeNext(w, numallowed')
    /\ UNCHANGED <<pmutex, lists, iswaiting, need, asleep, chosen, smutex,
                   schedid_counter, cancelled, iswaitingall, clients>>

----------------------------------------------------------------------------
Worker(w) == Enter(w) \/ Finish(w) \/ ((IdleCb(w) \/ Park(w)) /\ UNCHANGED schedVars)

(* A thread inside a call goes on with it. *)
Continue(c) ==
    Return(c) \/ Trigger(c) \/ Post(c) \/ PoolWait(c) \/ Resume(c) \/ Waited(c)

Client(c) ==
    \/ \E p \in Prios : Schedule(c, p)
    \/ \E j \in Ids : Unschedule(c, j) \/ \E p \in Prios : ChangePriority(c, j, p)
    \/ \E n \in Allowances : SetNumAllowed(c, n)
    \/ WaitAll(c) \/ Destruct(c)
    \/ Continue(c)

Next ==
    \/ \E w \in Workers : Worker(w)
    \/ \E c \in Clients : Client(c)
    \/ Terminated

Spec == Init /\ [][Next]_vars

(* Threads run, jobs return, and a thread that waits for a mutex that is   *)
(* free again and again gets it; nobody need call the scheduler.           *)
Fairness ==
    /\ \A w \in Workers : SF_vars(Worker(w))
    /\ \A c \in Clients : SF_vars(Continue(c))

LiveSpec == Spec /\ Fairness

----------------------------------------------------------------------------
(* The type invariant.  numallowed stays -1 or counts down to 0: below -1  *)
(* it would never stop the workers again.                                  *)
TypeOK ==
    /\ PoolTypeOK
    /\ smutex \in Clients \union {NoOne}
    /\ heap.array \in Seq(Cells) /\ HashAgrees(heap)
    /\ items \in [Cells -> [id : Ids \union {0}, prio : Prios \union {0}]]
    /\ schedid_counter \in 1..(MaxJobs + 1)
    /\ numallowed \in Allowances \union {-1, 0} \union
           UNION {0..n : n \in Allowances}
    /\ iswaitingall \in BOOLEAN
    /\ item \in [Workers -> Cells \union {NoCell}]
    /\ cpc \in [Clients -> {"idle", "trigger", "returning", "poolwait", "waited"}]
    /\ op \in [Clients -> {"none", "schedule", "allow", "waitall", "destruct"}]
    /\ ptr \in [Clients -> [cell : Cells \union {NoCell}, job : Ids \union {0}]]
    /\ cancelled \subseteq Ids

Running == {w \in Workers : wst[w] = "working"}
FreeCells == {freelist[i] : i \in DOMAIN freelist}

(* A cell of the allocator is free, queued or run by one worker, and only  *)
(* one of these: no item is freed while in use, freed twice or leaked, and *)
(* the heap's hash table knows where the queued ones are.                  *)
CellsDisjoint ==
    /\ TypeOK
    /\ Cardinality(FreeCells) = Len(freelist)
    /\ \A w \in Running : item[w] \notin Queued \union FreeCells \union {NoCell}
    /\ \A v, w \in Running : item[v] = item[w] => v = w
    /\ Queued \intersect FreeCells = {}
    /\ Queued \union FreeCells \union {item[w] : w \in Running} = Cells

(* Lock order: a client that holds the mutexes of the scheduler and of the *)
(* pool waits only for a worker that needs neither before it gives its own *)
(* mutex up.                                                               *)
LockOrder ==
    \A c \in Clients : chosen[c] # NoOne =>
        /\ pmutex = c /\ smutex = c
        /\ wst[chosen[c]] \in {"new", "parking", "waiting"}

(* The state of the promise: jobs by their schedid. *)
RunningId(j) == \E w \in Running : items[item[w]].id = j
JobState ==
    [j \in Ids |-> IF j >= schedid_counter THEN "new"
                   ELSE IF Cell(j) # {} THEN "queued"
                   ELSE IF RunningId(j) THEN "running"
                   ELSE IF j \in cancelled THEN "cancelled" ELSE "done"]
JobPrio ==
    [j \in Ids |-> IF Cell(j) = {} THEN 0
                   ELSE items[CHOOSE x \in Cell(j) : TRUE].prio]

Promise == INSTANCE JobQueue WITH
    Jobs <- Ids, Width <- All, InOrder <- TRUE, state <- JobState, prio <- JobPrio

(* Every job is run once or cancelled, the most important first, and no    *)
(* more at a time than there are workers.                                  *)
ImplementsJobQueue == Promise!Spec

(* Mutual exclusion with the destructor: once cc_wpool_wait_all returned   *)
(* to it, no worker can touch the scheduler that it frees.                 *)
NothingRunsAfterDestruct ==
    \A c \in Clients : Destructed(c) =>
        \A w \in Workers : wst[w] \in {"new", "parking", "waiting"}

(* cc_sched_wait_all returns, however the workers are scheduled, unless    *)
(* set_num_allowed keeps starting workers for ever.                        *)
WaitAllReturns ==
    \/ \A c \in Controllers : op[c] = "waitall" ~> op[c] = "none"
    \/ []<>(\E c \in Clients : op[c] = "allow")

(* The comment of cc_sched_schedule: a thread runs the job when one        *)
(* becomes available (or the scheduler is destructed).                     *)
QueuedJobsRun ==
    \A j \in Ids : JobState[j] = "queued" ~> (JobState[j] # "queued" \/ ~Alive)
=============================================================================

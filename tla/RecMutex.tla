----------------------------- MODULE RecMutex ------------------------------
(***************************************************************************)
(* The recursive mutex of src/src/threads/recmutex.cpp: an owner, a        *)
(* nesting level and a count of waiters under one internal cc_mutex, and a *)
(* condition variable for the blocked threads.  As in RWMutex, the code    *)
(* between lock, wait and unlock of the internal mutex is one action; a    *)
(* blocked thread is in "waiting" from the moment it counts itself until   *)
(* it owns the mutex, and in "sleep" while nothing has woken it.           *)
(***************************************************************************)
EXTENDS Naturals, FiniteSets, ThreadSet

CONSTANTS
    NoThread,     \* no thread: the id 0 of an owner that never was
    MaxLevel      \* bound on the nesting explored

ASSUME NoThreadAssumption == NoThread \notin Threads
ASSUME MaxLevelAssumption == MaxLevel \in Nat \ {0}

VARIABLES
    threadid, level, waiters,   \* fields of cc_recmutex
    waiting, sleep,             \* blocked threads, and those asleep on condvar
    held                        \* nesting each thread counts for itself

recVars == <<threadid, level, waiters, waiting, sleep, held>>

(* cc_recmutex_struct_init *)
RecInit ==
    /\ threadid = NoThread /\ level = 0 /\ waiters = 0
    /\ waiting = {} /\ sleep = {}
    /\ held = [t \in Threads |-> 0]

Take(t) ==
    /\ threadid' = t
    /\ level' = level + 1
    /\ held' = [held EXCEPT ![t] = @ + 1]

(* recmutex_lock_internal, and so lock and a try_lock that succeeds. *)
LockFree(t) ==
    /\ t \notin waiting /\ level = 0
    /\ Take(t)
    /\ UNCHANGED <<waiters, waiting, sleep>>

LockAgain(t) ==
    /\ t \notin waiting /\ level # 0
    /\ threadid = t
    /\ level < MaxLevel
    /\ Take(t)
    /\ UNCHANGED <<waiters, waiting, sleep>>

LockBlock(t) ==
    /\ t \notin waiting /\ level # 0 /\ threadid # t
    /\ waiters' = waiters + 1
    /\ waiting' = waiting \union {t}
    /\ sleep' = sleep \union {t}
    /\ UNCHANGED <<threadid, level, held>>

(* A woken thread re-evaluates the loop condition: another thread may have *)
(* snatched the mutex between the signal and now.                          *)
WakeUnchecked(t) ==                         \* mutant: if in place of while
    /\ t \in waiting \ sleep
    /\ waiters' = waiters - 1
    /\ waiting' = waiting \ {t}
    /\ Take(t)
    /\ UNCHANGED sleep
Wake(t) ==
    /\ t \in waiting \ sleep
    /\ IF level > 0
       THEN /\ sleep' = sleep \union {t}
            /\ UNCHANGED <<threadid, level, waiters, waiting, held>>
       ELSE /\ waiters' = waiters - 1
            /\ waiting' = waiting \ {t}
            /\ Take(t)
            /\ UNCHANGED sleep

WakeOne ==
    \/ sleep = {} /\ UNCHANGED sleep
    \/ \E u \in sleep : sleep' = sleep \ {u}

(* The asserts on threadid and level make the owner the only caller. *)
UnlockWakesOuterLevel(t) ==                 \* mutant: wakes one level early
    /\ threadid = t /\ level > 0
    /\ level' = level - 1
    /\ held' = [held EXCEPT ![t] = @ - 1]
    /\ IF level' = 1 /\ waiters # 0 THEN WakeOne ELSE UNCHANGED sleep
    /\ UNCHANGED <<threadid, waiters, waiting>>
Unlock(t) ==
    /\ threadid = t /\ level > 0
    /\ level' = level - 1
    /\ held' = [held EXCEPT ![t] = @ - 1]
    /\ IF level' = 0 /\ waiters # 0 THEN WakeOne ELSE UNCHANGED sleep
    /\ UNCHANGED <<threadid, waiters, waiting>>

RecSpuriousWake(t) ==
    /\ t \in sleep
    /\ sleep' = sleep \ {t}
    /\ UNCHANGED <<threadid, level, waiters, waiting, held>>

RecNext ==
    \E t \in Threads :
        \/ LockFree(t) \/ LockAgain(t) \/ LockBlock(t)
        \/ Wake(t) \/ Unlock(t) \/ RecSpuriousWake(t)

RecSpec == RecInit /\ [][RecNext]_recVars

----------------------------------------------------------------------------
(* The type invariant of the fields and of the threads' nesting. *)
RecTypeOK ==
    /\ threadid \in Threads \union {NoThread}
    /\ level \in Nat /\ waiters \in Nat
    /\ sleep \subseteq waiting /\ waiting \subseteq Threads
    /\ held \in [Threads -> Nat]

(* The one level of the struct is the nesting of its owner: a thread that  *)
(* locked twice keeps the mutex until its second unlock, and a thread that *)
(* was woken never shares it with one that snatched it.                    *)
OwnerOnly ==
    /\ \A t \in Threads : held[t] # 0 => threadid = t /\ held[t] = level
    /\ level # 0 => held[threadid] = level

(* waiters counts the blocked threads, whom a free mutex never leaves all  *)
(* asleep, although unlock wakes only one and only at the outermost level. *)
WaiterAwake ==
    /\ waiters = Cardinality(waiting)
    /\ level = 0 /\ waiting # {} => waiting \ sleep # {}

(* recmutex.cpp implements a recursive lock. *)
Lock == INSTANCE RecLock
        WITH holder <- IF level = 0 THEN NoThread ELSE threadid, depth <- level
ImplementsRecLock == Lock!Spec
=============================================================================

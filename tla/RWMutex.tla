------------------------------ MODULE RWMutex ------------------------------
(***************************************************************************)
(* The read-write mutex of src/src/threads/rwmutex.cpp: four counters      *)
(* guarded by one internal cc_mutex, and two condition variables on which  *)
(* blocked readers and blocked writers sleep.                              *)
(*                                                                         *)
(* Every function of the file runs inside the internal mutex, which it     *)
(* gives up only in cc_condvar_wait, so the code between two such points   *)
(* is one atomic action.  A blocked thread is in pc "readwait"/"writewait" *)
(* from the moment it counts itself as a waiter until its wait loop ends;  *)
(* while it is also in readSleep/writeSleep nothing has woken it.          *)
(***************************************************************************)
EXTENDS Naturals, FiniteSets, ThreadSet

VARIABLES
    policy,                  \* cc_precedence, "read" or "write"; never changed
    readers, writers, readwaiters, writewaiters,   \* fields of cc_rwmutex
    readSleep, writeSleep,   \* threads asleep on the condvars read and write
    pc                       \* what each thread is doing with the mutex

counters == <<readers, writers, readwaiters, writewaiters>>
vars == <<policy, readers, writers, readwaiters, writewaiters, readSleep, writeSleep,
          pc>>

At(l) == {t \in Threads : pc[t] = l}
Goto(t, l) == pc' = [pc EXCEPT ![t] = l]

(* cc_rwmutex_struct_init, with the policy of cc_rwmutex_construct_etc *)
Init ==
    /\ policy \in {"read", "write"}
    /\ readers = 0 /\ writers = 0
    /\ readwaiters = 0 /\ writewaiters = 0
    /\ readSleep = {} /\ writeSleep = {}
    /\ pc = [t \in Threads |-> "idle"]

(***************************************************************************)
(* The condition variable operations the unlock functions use.  WakeOne    *)
(* wakes some sleeper and is lost when there is none, as                   *)
(* pthread_cond_signal is.                                                 *)
(***************************************************************************)
WakeAllReaders == readSleep' = {} /\ UNCHANGED writeSleep
WakeOneWriter ==
    /\ \/ writeSleep = {} /\ UNCHANGED writeSleep
       \/ \E w \in writeSleep : writeSleep' = writeSleep \ {w}
    /\ UNCHANGED readSleep
WakeNobody == UNCHANGED <<readSleep, writeSleep>>

(* Whom write_unlock wakes, and read_unlock, given the readers left. *)
WakeAfterWrite ==
    IF policy = "read"
    THEN IF readwaiters # 0 THEN WakeAllReaders ELSE WakeOneWriter
    ELSE IF writewaiters # 0 THEN WakeOneWriter ELSE WakeAllReaders

WakeAfterReadForgetsWriters(left) ==        \* mutant: no writer woken
    IF policy = "read" \/ left # 0
    THEN IF readwaiters # 0 THEN WakeAllReaders ELSE WakeNobody
    ELSE WakeAllReaders
WakeAfterRead(left) ==
    IF policy = "read" \/ left # 0
    THEN CASE readwaiters # 0               -> WakeAllReaders
           [] readwaiters = 0 /\ left = 0   -> WakeOneWriter
           [] readwaiters = 0 /\ left # 0   -> WakeNobody
    ELSE IF writewaiters # 0 THEN WakeOneWriter ELSE WakeAllReaders

(***************************************************************************)
(* Writers.                                                                *)
(***************************************************************************)
NobodyInIgnoresWaiters ==                   \* mutant: a writer barges
    readers = 0 /\ writers = 0
NobodyInOrWaiting ==
    readers = 0 /\ writers = 0 /\ readwaiters = 0 /\ writewaiters = 0

(* The condition of write_lock's do-while loop. *)
LockedIgnoresReaders == writers # 0         \* mutant: readers overlooked
LockedForWriting == readers # 0 \/ writers # 0

(* The fast path, the whole of a successful try_lock as well. *)
WriteLockFree(t) ==
    /\ pc[t] = "idle"
    /\ NobodyInOrWaiting
    /\ writers' = writers + 1
    /\ Goto(t, "writing")
    /\ UNCHANGED <<readers, readwaiters, writewaiters, readSleep, writeSleep>>

WriteLockBlock(t) ==
    /\ pc[t] = "idle"
    /\ ~NobodyInOrWaiting
    /\ writewaiters' = writewaiters + 1
    /\ writeSleep' = writeSleep \union {t}
    /\ Goto(t, "writewait")
    /\ UNCHANGED <<readers, writers, readwaiters, readSleep>>

(* A woken writer re-evaluates the condition of the do-while loop. *)
WriteWake(t) ==
    /\ pc[t] = "writewait" /\ t \notin writeSleep
    /\ IF LockedForWriting
       THEN /\ writeSleep' = writeSleep \union {t}
            /\ UNCHANGED <<writers, writewaiters, pc>>
       ELSE /\ writers' = writers + 1
            /\ writewaiters' = writewaiters - 1
            /\ Goto(t, "writing")
            /\ UNCHANGED writeSleep
    /\ UNCHANGED <<readers, readwaiters, readSleep>>

WriteUnlock(t) ==
    /\ pc[t] = "writing"
    /\ writers' = writers - 1
    /\ Goto(t, "idle")
    /\ WakeAfterWrite
    /\ UNCHANGED <<readers, readwaiters, writewaiters>>

(***************************************************************************)
(* Readers.                                                                *)
(***************************************************************************)
EnterReading(t) ==
    /\ readers' = readers + 1
    /\ Goto(t, "reading")

ReadLockFree(t) ==
    /\ pc[t] = "idle"
    /\ writers = 0
    /\ EnterReading(t)
    /\ UNCHANGED <<writers, readwaiters, writewaiters, readSleep, writeSleep>>

(* read_try_lock is the only reader that gives way to waiting writers. *)
ReadTryLock(t) ==
    /\ pc[t] = "idle"
    /\ writers = 0 /\ writewaiters = 0
    /\ EnterReading(t)
    /\ UNCHANGED <<writers, readwaiters, writewaiters, readSleep, writeSleep>>

ReadLockBlock(t) ==
    /\ pc[t] = "idle"
    /\ writers # 0
    /\ readwaiters' = readwaiters + 1
    /\ readSleep' = readSleep \union {t}
    /\ Goto(t, "readwait")
    /\ UNCHANGED <<readers, writers, writewaiters, writeSleep>>

ReadWake(t) ==
    /\ pc[t] = "readwait" /\ t \notin readSleep
    /\ IF writers # 0
       THEN /\ readSleep' = readSleep \union {t}
            /\ UNCHANGED <<readers, readwaiters, pc>>
       ELSE /\ EnterReading(t)
            /\ readwaiters' = readwaiters - 1
            /\ UNCHANGED readSleep
    /\ UNCHANGED <<writers, writewaiters, writeSleep>>

ReadUnlock(t) ==
    /\ pc[t] = "reading"
    /\ readers' = readers - 1
    /\ Goto(t, "idle")
    /\ WakeAfterRead(readers')
    /\ UNCHANGED <<writers, readwaiters, writewaiters>>

(* POSIX lets pthread_cond_wait return without a signal. *)
SpuriousWake(t) ==
    /\ t \in readSleep \union writeSleep
    /\ readSleep' = readSleep \ {t}
    /\ writeSleep' = writeSleep \ {t}
    /\ UNCHANGED <<counters, pc>>

Operation(t) ==
    \/ WriteLockFree(t) \/ WriteLockBlock(t) \/ WriteWake(t) \/ WriteUnlock(t)
    \/ ReadLockFree(t) \/ ReadTryLock(t) \/ ReadLockBlock(t)
    \/ ReadWake(t) \/ ReadUnlock(t)

Next == UNCHANGED policy /\ \E t \in Threads : Operation(t) \/ SpuriousWake(t)

Spec == Init /\ [][Next]_vars

(***************************************************************************)
(* Liveness: a thread that holds the mutex releases it (the users of       *)
(* SbRWMutex do, in the same function) and a woken thread gets the         *)
(* internal mutex.  Nobody is obliged to call lock.                        *)
(***************************************************************************)
Proceed(t) == WriteWake(t) \/ WriteUnlock(t) \/ ReadWake(t) \/ ReadUnlock(t)

Fairness == \A t \in Threads : WF_vars(Proceed(t) /\ UNCHANGED policy)

LiveSpec == Spec /\ Fairness

----------------------------------------------------------------------------
(* The type invariant of the fields and of the threads' positions. *)
TypeOK ==
    /\ policy \in {"read", "write"}
    /\ readers \in Nat /\ writers \in Nat
    /\ readwaiters \in Nat /\ writewaiters \in Nat
    /\ readSleep \subseteq Threads /\ writeSleep \subseteq Threads
    /\ pc \in [Threads -> {"idle", "reading", "writing", "readwait", "writewait"}]

(* A writer is alone: two threads never write, and none reads while one    *)
(* writes, whatever the order in which locks, barging readers, signals and *)
(* spurious wakeups meet.                                                  *)
MutualExclusion ==
    \A t, u \in Threads :
        t # u /\ pc[t] = "writing" => pc[u] \notin {"reading", "writing"}

(* The four counters agree with what the threads are doing, although a     *)
(* waiter counts itself out only when it gets in, long after its wakeup;   *)
(* and nobody sleeps who is not counted as a waiter on that condvar.       *)
CountersAgree ==
    /\ readers = Cardinality(At("reading"))
    /\ writers = Cardinality(At("writing"))
    /\ readwaiters = Cardinality(At("readwait"))
    /\ writewaiters = Cardinality(At("writewait"))
    /\ readSleep \subseteq At("readwait")
    /\ writeSleep \subseteq At("writewait")

(* No lost wakeup: when the mutex is free and somebody waits for it, some  *)
(* waiter has already been woken, so that the unlock functions' choice     *)
(* between read and write waiters never leaves everybody asleep.           *)
NoLostWakeup ==
    (readers = 0 /\ writers = 0 /\ readwaiters + writewaiters # 0)
        => \E t \in At("readwait") \union At("writewait") :
               t \notin readSleep \union writeSleep

(* With read precedence a blocked reader gets in: an unlock wakes every    *)
(* waiting reader and no new writer may pass it (write_lock looks at       *)
(* readwaiters), so that writers cannot starve it.  Only an unbounded      *)
(* number of spurious wakeups, of writers ahead of it, could.              *)
BlockedReaderReads ==
    policy = "read" =>
        \/ \A t \in Threads : pc[t] = "readwait" ~> pc[t] = "reading"
        \/ []<><<\E t \in Threads : SpuriousWake(t)>>_vars
=============================================================================

---------------------------- MODULE ThreadProofs ----------------------------
(***************************************************************************)
(* What threads are synchronised with: the recursive mutex and the         *)
(* read-write mutex are safe for any finite set of threads, any bound on   *)
(* the nesting and either policy, the first implements a recursive lock,   *)
(* and the worker with its thread implements a slot for one job, for any   *)
(* number of jobs.                                                         *)
(***************************************************************************)
EXTENDS RecMutex, RWMutex, Worker, FiniteSetTheorems, TLAPS

-----------------------------------------------------------------------------
(* The read-write mutex.  The inductive invariant says that the counters   *)
(* count the threads, that the counters exclude each other, and that a     *)
(* free mutex with waiters has an awake waiter; exclusion of the threads   *)
(* and the absence of lost wakeups follow.                                 *)

Labels == {"idle", "reading", "writing", "readwait", "writewait"}

CountersExclude == writers <= 1 /\ (writers = 1 => readers = 0)

IInv == TypeOK /\ CountersAgree /\ CountersExclude /\ NoLostWakeup

(* Every group of threads is finite, so it has a size, and a size of zero  *)
(* means that nobody is in it.                                             *)
LEMMA GroupSize ==
    ASSUME NEW l
    PROVE  /\ IsFiniteSet(At(l))
           /\ Cardinality(At(l)) \in Nat
           /\ Cardinality(At(l)) = 0 <=> At(l) = {}
<1>1. At(l) \in SUBSET Threads
  BY DEF At
<1>2. IsFiniteSet(At(l))
  BY <1>1, ThreadsAssumption, FS_Subset
<1> QED
  BY <1>2, FS_CardinalityType, FS_EmptySet

(* A thread that goes from position j to position k leaves one group,      *)
(* enters another and changes the size of no third one.                    *)
LEMMA GotoCounts ==
    ASSUME TypeOK, NEW t \in Threads, NEW j \in Labels, NEW k \in Labels,
           pc[t] = j, j # k, Goto(t, k)
    PROVE  /\ pc' \in [Threads -> Labels]
           /\ Cardinality(At(k)') = Cardinality(At(k)) + 1
           /\ Cardinality(At(j)') = Cardinality(At(j)) - 1
           /\ \A l \in Labels \ {k, j} : At(l)' = At(l)
           /\ At(k)' = At(k) \union {t}
           /\ At(j)' = At(j) \ {t}
<1>1. pc \in [Threads -> Labels] /\ pc' = [pc EXCEPT ![t] = k]
  BY DEF TypeOK, Labels, Goto
<1>2. At(k)' = At(k) \union {t} /\ t \notin At(k)
  BY <1>1 DEF At
<1>3. At(j)' = At(j) \ {t} /\ t \in At(j)
  BY <1>1 DEF At
<1>4. \A l \in Labels \ {k, j} : At(l)' = At(l)
  BY <1>1 DEF At
<1>5. Cardinality(At(k)') = Cardinality(At(k)) + 1
  BY <1>2, GroupSize, FS_AddElement
<1>6. Cardinality(At(j)') = Cardinality(At(j)) - 1
  BY <1>3, GroupSize, FS_RemoveElement
<1>7. pc' \in [Threads -> Labels]
  BY <1>1
<1> QED
  BY <1>2, <1>3, <1>4, <1>5, <1>6, <1>7

(***************************************************************************)
(* The part of the invariant about counters and types: one step per action.*)
(***************************************************************************)
Counting == TypeOK /\ CountersAgree /\ CountersExclude

LEMMA InitCounting == Init => Counting
<1> SUFFICES ASSUME Init PROVE Counting
  OBVIOUS
<1>1. TypeOK
  BY DEF Init, TypeOK
<1>2. \A l \in Labels \ {"idle"} : At(l) = {}
  BY DEF Init, At, Labels
<1>3. CountersAgree
  BY <1>2, FS_EmptySet DEF Init, CountersAgree, Labels
<1> QED
  BY <1>1, <1>3 DEF Counting, CountersExclude, Init

LEMMA StepCounting ==
    ASSUME Counting, NEW t \in Threads, Operation(t) \/ SpuriousWake(t),
           UNCHANGED policy
    PROVE  Counting'
<1> USE DEF Counting
<1>0. \A l \in Labels : Cardinality(At(l)) \in Nat /\ (t \in At(l) => Cardinality(At(l)) # 0)
  BY GroupSize
<1>1. CASE WriteLockFree(t)
  <2>1. pc[t] = "idle" /\ Goto(t, "writing")
    BY <1>1 DEF WriteLockFree
  <2> QED
    BY <1>1, <2>1, GotoCounts
    DEF WriteLockFree, NobodyInOrWaiting, TypeOK, CountersAgree,
        CountersExclude, Labels
<1>2. CASE WriteLockBlock(t)
  <2>1. pc[t] = "idle" /\ Goto(t, "writewait")
    BY <1>2 DEF WriteLockBlock
  <2> QED
    BY <1>2, <2>1, GotoCounts
    DEF WriteLockBlock, TypeOK, CountersAgree, CountersExclude, Labels
<1>3. CASE WriteWake(t) /\ LockedForWriting
  BY <1>3 DEF WriteWake, TypeOK, CountersAgree, CountersExclude, At
<1>4. CASE WriteWake(t) /\ ~LockedForWriting
  <2>1. pc[t] = "writewait" /\ Goto(t, "writing") /\ t \in At("writewait")
    BY <1>4 DEF WriteWake, At
  <2>2. writewaiters # 0
    BY <1>0, <2>1 DEF CountersAgree, Labels
  <2> QED
    BY <1>4, <2>1, <2>2, GotoCounts
    DEF WriteWake, LockedForWriting, TypeOK, CountersAgree, CountersExclude,
        Labels
<1>5. CASE WriteUnlock(t)
  <2>1. pc[t] = "writing" /\ Goto(t, "idle") /\ t \in At("writing")
    BY <1>5 DEF WriteUnlock, At
  <2>2. writers # 0
    BY <1>0, <2>1 DEF CountersAgree, Labels
  <2>3. readSleep' \subseteq readSleep /\ writeSleep' \subseteq writeSleep
    BY <1>5 DEF WriteUnlock, WakeAfterWrite, WakeAllReaders, WakeOneWriter
  <2> QED
    BY <1>5, <2>1, <2>2, <2>3, GotoCounts
    DEF WriteUnlock, TypeOK, CountersAgree, CountersExclude, Labels
<1>6. CASE ReadLockFree(t) \/ ReadTryLock(t)
  <2>1. pc[t] = "idle" /\ Goto(t, "reading")
    BY <1>6 DEF ReadLockFree, ReadTryLock, EnterReading
  <2> QED
    BY <1>6, <2>1, GotoCounts
    DEF ReadLockFree, ReadTryLock, EnterReading, TypeOK, CountersAgree,
        CountersExclude, Labels
<1>7. CASE ReadLockBlock(t)
  <2>1. pc[t] = "idle" /\ Goto(t, "readwait")
    BY <1>7 DEF ReadLockBlock
  <2> QED
    BY <1>7, <2>1, GotoCounts
    DEF ReadLockBlock, TypeOK, CountersAgree, CountersExclude, Labels
<1>8. CASE ReadWake(t) /\ writers # 0
  BY <1>8 DEF ReadWake, TypeOK, CountersAgree, CountersExclude, At
<1>9. CASE ReadWake(t) /\ writers = 0
  <2>1. pc[t] = "readwait" /\ Goto(t, "reading") /\ t \in At("readwait")
    BY <1>9 DEF ReadWake, EnterReading, At
  <2>2. readwaiters # 0
    BY <1>0, <2>1 DEF CountersAgree, Labels
  <2> QED
    BY <1>9, <2>1, <2>2, GotoCounts
    DEF ReadWake, EnterReading, TypeOK, CountersAgree, CountersExclude, Labels
<1>10. CASE ReadUnlock(t)
  <2>1. pc[t] = "reading" /\ Goto(t, "idle") /\ t \in At("reading")
    BY <1>10 DEF ReadUnlock, At
  <2>2. readers # 0
    BY <1>0, <2>1 DEF CountersAgree, Labels
  <2>3. readSleep' \subseteq readSleep /\ writeSleep' \subseteq writeSleep
    BY <1>10 DEF ReadUnlock, WakeAfterRead, WakeAllReaders, WakeOneWriter,
                 WakeNobody
  <2> QED
    BY <1>10, <2>1, <2>2, <2>3, GotoCounts
    DEF ReadUnlock, TypeOK, CountersAgree, CountersExclude, Labels
<1>11. CASE SpuriousWake(t)
  BY <1>11 DEF SpuriousWake, counters, TypeOK, CountersAgree, CountersExclude,
              At
<1> QED
  BY <1>1, <1>2, <1>3, <1>4, <1>5, <1>6, <1>7, <1>8, <1>9, <1>10, <1>11
  DEF Operation

(***************************************************************************)
(* The part about wakeups.                                                 *)
(***************************************************************************)
Awake == {t \in At("readwait") \union At("writewait") :
              t \notin readSleep \union writeSleep}

(* Waking all readers, when one is counted as waiting, or one writer, when *)
(* one is counted as waiting, leaves somebody awake who waits.             *)
LEMMA WakingWakes ==
    ASSUME Counting, NEW t \in Threads,
           pc[t] \in {"reading", "writing"}, Goto(t, "idle"),
           \/ readwaiters # 0 /\ WakeAllReaders
           \/ writewaiters # 0 /\ WakeOneWriter
    PROVE  Awake' # {}
<1> USE DEF Counting, CountersAgree
<1>1. /\ At("readwait")' = At("readwait")
      /\ At("writewait")' = At("writewait")
      /\ At("readwait") \intersect At("writewait") = {}
  BY DEF At, Goto, TypeOK
<1>2. CASE readwaiters # 0 /\ WakeAllReaders
  <2>1. PICK r : r \in At("readwait")
    BY <1>2, GroupSize
  <2>2. r \in Awake'
    BY <1>1, <1>2, <2>1 DEF WakeAllReaders, Awake
  <2> QED
    BY <2>2
<1>3. CASE writewaiters # 0 /\ WakeOneWriter
  <2>1. PICK w : w \in At("writewait") /\ w \notin writeSleep'
    <3>1. PICK v : v \in At("writewait")
      BY <1>3, GroupSize
    <3>2. CASE writeSleep = {}
      BY <1>3, <3>1, <3>2 DEF WakeOneWriter
    <3>3. CASE writeSleep # {}
      BY <1>3, <3>3 DEF WakeOneWriter
    <3> QED
      BY <3>2, <3>3
  <2>2. w \in Awake'
    BY <1>1, <1>3, <2>1 DEF WakeOneWriter, Awake
  <2> QED
    BY <2>2
<1> QED
  BY <1>2, <1>3

LEMMA StepNoLostWakeup ==
    ASSUME IInv, NEW t \in Threads, Operation(t) \/ SpuriousWake(t),
           UNCHANGED policy
    PROVE  NoLostWakeup'
<1> USE DEF IInv
<1>0. Counting /\ Counting'
  BY StepCounting DEF Counting
<1> SUFFICES ASSUME readers' = 0, writers' = 0, readwaiters' + writewaiters' # 0
             PROVE  Awake' # {}
  BY DEF NoLostWakeup, Awake
<1>1. CASE WriteLockFree(t) \/ ReadLockFree(t) \/ ReadTryLock(t)
  BY <1>1 DEF WriteLockFree, ReadLockFree, ReadTryLock, EnterReading, TypeOK
<1>2. CASE WriteLockBlock(t)
  <2>1. readwaiters + writewaiters # 0
    BY <1>2 DEF WriteLockBlock, NobodyInOrWaiting, TypeOK
  <2>2. PICK u \in Awake : TRUE
    BY <1>2, <2>1 DEF WriteLockBlock, NoLostWakeup, Awake
  <2>3. u \in Awake'
    BY <1>2, <2>2 DEF WriteLockBlock, Goto, Awake, At, TypeOK
  <2> QED
    BY <2>3
<1>3. CASE ReadLockBlock(t)
  BY <1>3 DEF ReadLockBlock
<1>4. CASE WriteWake(t)
  BY <1>4 DEF WriteWake, LockedForWriting, TypeOK
<1>5. CASE ReadWake(t)
  BY <1>5 DEF ReadWake, EnterReading, TypeOK
<1>6. CASE WriteUnlock(t)
  <2>1. pc[t] = "writing" /\ Goto(t, "idle")
    BY <1>6 DEF WriteUnlock
  <2>2. \/ readwaiters # 0 /\ WakeAllReaders
        \/ writewaiters # 0 /\ WakeOneWriter
    BY <1>6 DEF WriteUnlock, WakeAfterWrite, TypeOK
  <2> QED
    BY <1>0, <2>1, <2>2, WakingWakes
<1>7. CASE ReadUnlock(t)
  <2>1. pc[t] = "reading" /\ Goto(t, "idle")
    BY <1>7 DEF ReadUnlock
  <2>2. \/ readwaiters # 0 /\ WakeAllReaders
        \/ writewaiters # 0 /\ WakeOneWriter
    <3>1. CASE readwaiters # 0
      BY <1>7, <3>1 DEF ReadUnlock, WakeAfterRead, TypeOK
    <3>2. CASE readwaiters = 0
      <4>1. writewaiters # 0 /\ WakeAfterRead(0)
        BY <1>7, <3>2 DEF ReadUnlock, TypeOK
      <4>2. WakeOneWriter
        BY <3>2, <4>1 DEF WakeAfterRead
      <4> QED
        BY <4>1, <4>2
    <3> QED
      BY <3>1, <3>2 DEF TypeOK
  <2> QED
    BY <1>0, <2>1, <2>2, WakingWakes
<1>8. CASE SpuriousWake(t)
  BY <1>8 DEF SpuriousWake, counters, NoLostWakeup, Awake, At
<1> QED
  BY <1>1, <1>2, <1>3, <1>4, <1>5, <1>6, <1>7, <1>8 DEF Operation

(***************************************************************************)
(* The theorems.                                                           *)
(***************************************************************************)
(* The inductive invariant holds in every reachable state. *)
THEOREM Invariance == Spec => []IInv
<1>1. Init => IInv
  BY InitCounting DEF IInv, Counting, Init, NoLostWakeup
<1>2. IInv /\ [Next]_vars => IInv'
  <2> SUFFICES ASSUME IInv, [Next]_vars PROVE IInv'
    OBVIOUS
  <2>1. CASE Next
    <3>1. PICK t \in Threads : /\ Operation(t) \/ SpuriousWake(t)
                               /\ UNCHANGED policy
      BY <2>1 DEF Next
    <3>2. Counting'
      BY <3>1, StepCounting DEF IInv, Counting
    <3> QED
      BY <3>1, <3>2, StepNoLostWakeup DEF IInv, Counting
  <2>2. CASE UNCHANGED vars
    BY <2>2 DEF vars, IInv, TypeOK, CountersAgree, CountersExclude,
                NoLostWakeup, At
  <2> QED
    BY <2>1, <2>2
<1> QED
  BY <1>1, <1>2, PTL DEF Spec

(* The counters never go below zero (the asserts of the unlock functions)  *)
(* and every thread is always in one of the five positions.                *)
THEOREM TypeCorrect == Spec => []TypeOK
<1>1. IInv => TypeOK
  BY DEF IInv
<1> QED
  BY <1>1, Invariance, PTL

(* Under either policy, with any number of threads, a writer is alone. *)
THEOREM Exclusion == Spec => []MutualExclusion
<1>1. IInv => MutualExclusion
  <2> SUFFICES ASSUME IInv, NEW t \in Threads, NEW u \in Threads, t # u,
                      pc[t] = "writing"
               PROVE  pc[u] \notin {"reading", "writing"}
    BY DEF MutualExclusion
  <2>1. t \in At("writing")
    BY DEF At
  <2>2. writers = 1 /\ readers = 0
    <3>1. writers # 0
      BY <2>1, GroupSize DEF IInv, CountersAgree
    <3> QED
      BY <3>1 DEF IInv, CountersExclude, TypeOK
  <2>3. u \notin At("reading")
    BY <2>2, GroupSize DEF IInv, CountersAgree
  <2>4. u \notin At("writing")
    BY <2>1, <2>2, GroupSize, FS_Singleton DEF IInv, CountersAgree
  <2> QED
    BY <2>3, <2>4 DEF At
<1> QED
  BY <1>1, Invariance, PTL

(* Under either policy, and whatever the spurious wakeups, the mutex is    *)
(* never free with every waiter asleep.                                    *)
THEOREM WakeupsArrive == Spec => []NoLostWakeup
<1>1. IInv => NoLostWakeup
  BY DEF IInv
<1> QED
  BY <1>1, Invariance, PTL

-----------------------------------------------------------------------------
(* The recursive mutex.  The properties the run checks are together        *)
(* inductive.                                                              *)

RecInv == RecTypeOK /\ OwnerOnly /\ WaiterAwake

RecStep(t) == LockFree(t) \/ LockAgain(t) \/ LockBlock(t) \/ Wake(t) \/ Unlock(t)
           \/ RecSpuriousWake(t)

(* The owner and its level, for the actions that touch them or do not. *)
LEMMA StepOwner ==
    ASSUME RecInv, NEW t \in Threads, RecStep(t)
    PROVE  RecTypeOK' /\ OwnerOnly'
<1> USE DEF RecInv, RecTypeOK, OwnerOnly
<1>1. CASE LockFree(t)
  BY <1>1 DEF LockFree, Take
<1>2. CASE LockAgain(t)
  BY <1>2 DEF LockAgain, Take
<1>3. CASE LockBlock(t)
  BY <1>3 DEF LockBlock
<1>4. CASE Wake(t) /\ level > 0
  BY <1>4 DEF Wake
<1>5. CASE Wake(t) /\ ~(level > 0)
  <2>1. waiters # 0
    <3>1. t \in waiting /\ IsFiniteSet(waiting)
      BY <1>5, ThreadsAssumption, FS_Subset DEF Wake
    <3> QED
      BY <3>1, FS_EmptySet DEF WaiterAwake
  <2>2. waiters' \in Nat /\ Take(t) /\ level = 0
    BY <1>5, <2>1 DEF Wake
  <2>3. sleep' = sleep /\ waiting' = waiting \ {t} /\ t \notin sleep
    BY <1>5 DEF Wake
  <2> QED
    BY <2>2, <2>3 DEF Take
<1>6. CASE Unlock(t)
  <2>1. sleep' \subseteq sleep
    BY <1>6 DEF Unlock, WakeOne
  <2>2. held[t] = level
    BY <1>6 DEF Unlock
  <2> QED
    BY <1>6, <2>1, <2>2 DEF Unlock
<1>7. CASE RecSpuriousWake(t)
  BY <1>7 DEF RecSpuriousWake
<1> QED
  BY <1>1, <1>2, <1>3, <1>4, <1>5, <1>6, <1>7 DEF RecStep

LEMMA StepWakeup ==
    ASSUME RecInv, NEW t \in Threads, RecStep(t)
    PROVE  WaiterAwake'
<1> USE DEF RecInv, RecTypeOK, WaiterAwake
<1>0. IsFiniteSet(waiting)
  BY ThreadsAssumption, FS_Subset
<1>1. CASE LockFree(t) \/ LockAgain(t)
  BY <1>1 DEF LockFree, LockAgain, Take
<1>2. CASE LockBlock(t)
  BY <1>0, <1>2, FS_AddElement DEF LockBlock
<1>3. CASE Wake(t) /\ level > 0
  BY <1>3 DEF Wake
<1>4. CASE Wake(t) /\ ~(level > 0)
  <2>1. waiters' = Cardinality(waiting')
    BY <1>0, <1>4, FS_RemoveElement, FS_CardinalityType DEF Wake
  <2>2. level' # 0
    BY <1>4 DEF Wake, Take
  <2> QED
    BY <2>1, <2>2
<1>5. CASE Unlock(t)
  <2>1. level' = 0 /\ waiting # {} => waiting \ sleep' # {}
    <3> SUFFICES ASSUME level' = 0, waiting # {} PROVE waiting \ sleep' # {}
      OBVIOUS
    <3>1. waiters # 0
      BY <1>0, FS_EmptySet
    <3>2. WakeOne
      BY <1>5, <3>1 DEF Unlock
    <3> QED
      BY <3>2 DEF WakeOne
  <2> QED
    BY <1>5, <2>1 DEF Unlock
<1>6. CASE RecSpuriousWake(t)
  BY <1>6 DEF RecSpuriousWake
<1> QED
  BY <1>1, <1>2, <1>3, <1>4, <1>5, <1>6 DEF RecStep

(* The owner, the nesting and the wakeups are right in every state. *)
THEOREM RecInvariance == RecSpec => []RecInv
<1>1. RecInit => RecInv
  BY FS_EmptySet, ThreadsAssumption
  DEF RecInit, RecInv, RecTypeOK, OwnerOnly, WaiterAwake
<1>2. RecInv /\ [RecNext]_recVars => RecInv'
  <2> SUFFICES ASSUME RecInv, [RecNext]_recVars PROVE RecInv'
    OBVIOUS
  <2>1. CASE RecNext
    <3>1. PICK t \in Threads : RecStep(t)
      BY <2>1 DEF RecNext, RecStep
    <3> QED
      BY <3>1, StepOwner, StepWakeup DEF RecInv
  <2>2. CASE UNCHANGED recVars
    BY <2>2 DEF recVars, RecInv, RecTypeOK, OwnerOnly, WaiterAwake
  <2> QED
    BY <2>1, <2>2
<1> QED
  BY <1>1, <1>2, PTL DEF RecSpec

(* The waiter count stays a natural number and the owner is a thread. *)
THEOREM RecTypeCorrect == RecSpec => []RecTypeOK
<1>1. RecInv => RecTypeOK
  BY DEF RecInv
<1> QED
  BY <1>1, RecInvariance, PTL

(* The level of the mutex is always its owner's nesting, and nobody else   *)
(* believes to hold it.                                                    *)
THEOREM Ownership == RecSpec => []OwnerOnly
<1>1. RecInv => OwnerOnly
  BY DEF RecInv
<1> QED
  BY <1>1, RecInvariance, PTL

(* A free mutex never has all its waiters asleep. *)
THEOREM RecWakeupsArrive == RecSpec => []WaiterAwake
<1>1. RecInv => WaiterAwake
  BY DEF RecInv
<1> QED
  BY <1>1, RecInvariance, PTL

(* recmutex.cpp implements the recursive lock of module RecLock: blocking  *)
(* and waking are stutters, a step that takes or leaves a level is one of  *)
(* the abstract lock's.                                                    *)
THEOREM Implementation == RecSpec => ImplementsRecLock
<1>1. RecInit => Lock!Init
  BY DEF RecInit, Lock!Init
<1>2. RecInv /\ [RecNext]_recVars => [Lock!Next]_<<IF level = 0 THEN NoThread ELSE threadid, level>>
  <2> SUFFICES ASSUME RecInv, [RecNext]_recVars
               PROVE  \/ Lock!Next
                      \/ /\ level' = level
                         /\ (IF level' = 0 THEN NoThread ELSE threadid') =
                            (IF level = 0 THEN NoThread ELSE threadid)
    OBVIOUS
  <2> USE DEF RecInv, RecTypeOK
  <2>1. CASE RecNext
    <3>1. PICK t \in Threads : RecStep(t)
      BY <2>1 DEF RecNext, RecStep
    <3>2. CASE LockFree(t) \/ LockAgain(t) \/ (Wake(t) /\ ~(level > 0))
      <4>1. Lock!Enter(t)
        BY <3>2 DEF LockFree, LockAgain, Wake, Take, Lock!Enter
      <4> QED
        BY <4>1 DEF Lock!Next
    <3>3. CASE Unlock(t)
      <4>1. Lock!Leave(t)
        BY <3>3 DEF Unlock, Lock!Leave
      <4> QED
        BY <4>1 DEF Lock!Next
    <3>4. CASE LockBlock(t) \/ (Wake(t) /\ level > 0) \/ RecSpuriousWake(t)
      BY <3>4 DEF LockBlock, Wake, RecSpuriousWake
    <3> QED
      BY <3>1, <3>2, <3>3, <3>4 DEF RecStep
  <2>2. CASE UNCHANGED recVars
    BY <2>2 DEF recVars
  <2> QED
    BY <2>1, <2>2
<1> QED
  BY <1>1, <1>2, RecInvariance, PTL DEF RecSpec, ImplementsRecLock, Lock!Spec

-----------------------------------------------------------------------------
(* The worker and its thread.                                              *)

(* Where the new thread, or the one there is, can be while the client is   *)
(* where it is, and what its fields say then.                              *)
Handshaking ==
    /\ cpc = "startThread" => wpc = "none"
    /\ cpc \in {"waitBegin", "begincond"} => wpc \in {"created", "handshake"}
    /\ cpc \in {"begincondWoken", "relock", "signal"} => wpc = "cond"
    /\ cpc = "join" => wpc \in {"condWoken", "exited"}
    /\ cpc = "idle" => wpc \in IF ~threadisrunning THEN {"none"}
                               ELSE IF idle THEN {"cond", "idling"}
                               ELSE {"condWoken", "running"}
    /\ beginmutex = IF cpc \in {"waitBegin", "relock"} THEN "client" ELSE "free"
    /\ shutdown <=> cpc = "join"
    /\ cpc \notin {"idle", "signal"} => ~threadisrunning
    /\ cpc = "signal" => threadisrunning

(* A job is on its way from start until the idle callback.                 *)
OnItsWay ==
    /\ cpc = "join" => idle
    /\ cpc \notin {"idle", "join"} => ~idle
    /\ ~idle => workfunc = started /\ started > 0
    /\ \A j \in 1..MaxJobs :
         ran[j] = IF j < started \/ (j = started /\ (idle \/ wpc = "running"))
                  THEN 1 ELSE 0

WorkerInv == WorkerTypeOK /\ Handshaking /\ OnItsWay

(* A new worker has no thread. *)
LEMMA WorkerInitInv == WorkerInit => WorkerInv
<1> SUFFICES ASSUME WorkerInit PROVE WorkerInv
  OBVIOUS
<1> USE MaxJobsAssumption
<1>1. WorkerTypeOK
  <2>1. threadisrunning \in BOOLEAN /\ shutdown \in BOOLEAN /\ idle \in BOOLEAN
    BY DEF WorkerInit
  <2>2. workfunc \in 0..MaxJobs /\ started \in 0..MaxJobs
    BY DEF WorkerInit
  <2>3. ran \in [1..MaxJobs -> Nat]
    BY DEF WorkerInit
  <2>4. mutex = "free" /\ beginmutex = "free" /\ cpc = "idle" /\ wpc = "none"
    BY DEF WorkerInit
  <2> QED
    BY <2>1, <2>2, <2>3, <2>4 DEF WorkerTypeOK
<1>2. Handshaking
  BY DEF WorkerInit, Handshaking
<1>3. OnItsWay
  BY DEF WorkerInit, OnItsWay
<1> QED
  BY <1>1, <1>2, <1>3 DEF WorkerInv

(* One step per action of the client and of the thread.                    *)
LEMMA WorkerNextInv == WorkerInv /\ [WorkerNext]_workerVars => WorkerInv'
<1> SUFFICES ASSUME WorkerInv, [WorkerNext]_workerVars PROVE WorkerInv'
  OBVIOUS
<1> USE MaxJobsAssumption DEF WorkerInv, WorkerTypeOK, Handshaking, OnItsWay, fields, history
<1>1. CASE Start
  <2>0. workfunc' \in 0..MaxJobs /\ started' \in 0..MaxJobs
    BY <1>1 DEF Start
  <2>1. WorkerTypeOK' /\ Handshaking'
    BY <1>1, <2>0 DEF Start
  <2>2. OnItsWay'
    BY <1>1 DEF Start
  <2> QED
    BY <2>1, <2>2
<1>2. CASE Stop
  BY <1>2 DEF Stop, WakeCond
<1>3. CASE StartThread
  BY <1>3 DEF StartThread
<1>4. CASE WaitBegin
  BY <1>4 DEF WaitBegin
<1>5. CASE BeginWoken
  BY <1>5 DEF BeginWoken
<1>6. CASE Relock
  BY <1>6 DEF Relock
<1>7. CASE Signal
  BY <1>7 DEF Signal, WakeCond
<1>8. CASE Join
  BY <1>8 DEF Join
<1>9. CASE EnterLoop
  BY <1>9 DEF EnterLoop
<1>10. CASE Handshake
  BY <1>10 DEF Handshake, LoopTop, ExitLoop
<1>11. CASE WakeUp
  BY <1>11 DEF WakeUp, ExitLoop
<1>12. CASE Finish
  BY <1>12 DEF Finish
<1>13. CASE LoopAgain
  BY <1>13 DEF LoopAgain, LoopTop, ExitLoop
<1>14. CASE UNCHANGED workerVars
  BY <1>14 DEF workerVars
<1> QED
  BY <1>1, <1>2, <1>3, <1>4, <1>5, <1>6, <1>7, <1>8, <1>9, <1>10, <1>11, <1>12,
     <1>13, <1>14
  DEF WorkerNext, ClientStep, WorkerStep

(* However threads are created, stopped and started again, the signal of   *)
(* cc_worker_start finds the thread asleep on the condition variable, so   *)
(* no job is lost ("We now know that thread is waiting for a signal",      *)
(* worker.cpp).                                                            *)
THEOREM SignalIsHeard == WorkerSpec => []SignalFindsSleeper
<1>1. WorkerInv => SignalFindsSleeper
  BY DEF WorkerInv, Handshaking, SignalFindsSleeper
<1> QED
  BY <1>1, WorkerInitInv, WorkerNextInv, PTL DEF WorkerSpec

(* A job is posted only to an idle worker, runs once, and the worker is    *)
(* idle when it has run: each step of cc_worker and its thread is one of   *)
(* the slot that WPool stands on, or changes nothing of it.                *)
THEOREM WorkerIsSlot ==
    WorkerSpec => Slot!Init /\ [][Slot!Next]_Slot!vars
<1>1. WorkerInit => Slot!Init
  BY DEF WorkerInit, Slot!Init
<1>2. WorkerInv /\ [WorkerNext]_workerVars => [Slot!Next]_Slot!vars
  <2> SUFFICES ASSUME WorkerInv, [WorkerNext]_workerVars
               PROVE  Slot!Next \/ UNCHANGED Slot!vars
    OBVIOUS
  <2> USE DEF WorkerInv, WorkerTypeOK, Handshaking, OnItsWay, fields,
              history, Slot!vars
  <2>1. Start => Slot!Post
    BY DEF Start, Slot!Post
  <2>2. WakeUp => Slot!Run \/ UNCHANGED Slot!vars
    BY DEF WakeUp, ExitLoop, Slot!Run
  <2>3. Finish => Slot!Done
    BY DEF Finish, Slot!Done
  <2>4. \/ Stop \/ ClientStep \/ EnterLoop \/ Handshake
        \/ LoopAgain \/ UNCHANGED workerVars
        => UNCHANGED Slot!vars
    BY DEF Stop, ClientStep, StartThread, WaitBegin,
           BeginWoken, Relock, Signal, Join, WakeCond,
           EnterLoop, Handshake, LoopAgain, LoopTop,
           ExitLoop, workerVars
  <2> QED
    BY <2>1, <2>2, <2>3, <2>4 DEF WorkerNext, WorkerStep, Slot!Next
<1> QED
  BY <1>1, <1>2, WorkerInitInv, WorkerNextInv, PTL DEF WorkerSpec

=============================================================================

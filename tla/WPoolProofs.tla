---------------------------- MODULE WPoolProofs -----------------------------
(***************************************************************************)
(* What every operation of the worker pool preserves, whoever its clients  *)
(* are: lemmas for PoolClientsProofs and SchedProofs, for any finite set   *)
(* of workers and any clients, however many of them wait.                  *)
(***************************************************************************)
EXTENDS WPool, FiniteSetTheorems, TLAPS

Unemployed == {"new", "parking", "waiting"}

(* A client that has chosen a worker keeps the pool's mutex, and so nobody *)
(* else has chosen one; the worker is as good as posted to.                *)
ChosenBusy ==
    \A c \in Clients : chosen[c] # NoOne =>
        /\ pmutex = c
        /\ chosen[c] \in busypool /\ wst[chosen[c]] \in Unemployed

PoolInv == PoolTypeOK /\ ListsPartition /\ ChosenBusy

(* There are workers, and Idle counts some of them. *)
LEMMA Counts ==
    /\ All \in Nat \ {0}
    /\ \A S \in SUBSET Workers :
         /\ IsFiniteSet(S) /\ Cardinality(S) \in 0..All
         /\ Cardinality(S) = All => S = Workers
         /\ \A T \in SUBSET S : Cardinality(T) <= Cardinality(S)
<1>1. IsFiniteSet(Workers) /\ Workers # {}
  BY WorkersAssumption
<1>2. All \in Nat \ {0}
  BY <1>1, FS_CardinalityType, FS_EmptySet DEF All
<1>3. ASSUME NEW S \in SUBSET Workers
      PROVE  /\ IsFiniteSet(S) /\ Cardinality(S) \in 0..All
             /\ Cardinality(S) = All => S = Workers
             /\ \A T \in SUBSET S : Cardinality(T) <= Cardinality(S)
  <2>1. IsFiniteSet(S) /\ Cardinality(S) <= All
        /\ (Cardinality(S) = All => S = Workers)
    BY <1>1, FS_Subset DEF All
  <2>2. Cardinality(S) \in Nat
    BY <2>1, FS_CardinalityType
  <2>3. \A T \in SUBSET S : Cardinality(T) <= Cardinality(S)
    BY <2>1, FS_Subset
  <2> QED
    BY <1>2, <2>1, <2>2, <2>3
<1> QED
  BY <1>2, <1>3

(* The invariant holds of a pool whose workers are all idle. *)
LEMMA PoolInitInv == PoolInit => PoolInv
<1> SUFFICES ASSUME PoolInit PROVE PoolInv
  OBVIOUS
<1> USE DEF PoolInit
<1>1. PoolTypeOK
  <2>1. 0 \in 0..All
    BY Counts
  <2> QED
    BY <2>1 DEF PoolTypeOK
<1>2. ListsPartition
  BY DEF ListsPartition
<1>3. ChosenBusy
  BY DEF ChosenBusy
<1> QED
  BY <1>1, <1>2, <1>3 DEF PoolInv

(* The mutex of the pool is taken or released by a client that has not     *)
(* chosen a worker.                                                        *)
LEMMA MutexMoves ==
    ASSUME PoolInv, pmutex' \in Clients \union {NoOne},
           \A c \in Clients : chosen[c] = NoOne,
           UNCHANGED <<lists, iswaiting, wst, need, asleep, chosen>>
    PROVE  PoolInv'
  BY DEF PoolInv, PoolTypeOK, ListsPartition, ChosenBusy, lists, Idle

(* Without the mutex nobody has chosen a worker. *)
LEMMA FreeUnchosen ==
    ASSUME PoolInv, NEW c \in Clients, chosen[c] = NoOne,
           pmutex \in {c, NoOne}
    PROVE  \A d \in Clients : chosen[d] = NoOne
  BY NoOneAssumption DEF PoolInv, ChosenBusy

(* wpool_get_idle_worker, by the owner of the mutex or together with the  *)
(* locking of it, takes one worker from the idle list.                     *)
LEMMA ChoosingKeeps ==
    ASSUME PoolInv, NEW c \in Clients, chosen[c] = NoOne,
           pmutex \in {c, NoOne}, pmutex' = c,
           GetIdleWorker(c), UNCHANGED <<iswaiting, wst, need, asleep>>
    PROVE  PoolInv' /\ Idle' = Idle - 1
<1>1. PICK w \in idlepool : /\ idlepool' = idlepool \ {w}
                            /\ busypool' = busypool \union {w}
                            /\ chosen' = [chosen EXCEPT ![c] = w]
  BY DEF GetIdleWorker
<1>2. \A d \in Clients : chosen[d] = NoOne
  BY FreeUnchosen
<1>3. idlepool \subseteq Workers /\ w \in Workers /\ wst[w] \in Unemployed
      /\ w \notin busypool /\ w # NoOne
  BY NoOneAssumption DEF PoolInv, PoolTypeOK, ListsPartition, Unemployed
<1>4. Idle \in Nat /\ Idle' = Idle - 1
  BY <1>1, <1>3, Counts, FS_RemoveElement DEF Idle
<1>5. PoolTypeOK'
  BY <1>1, <1>3 DEF PoolInv, PoolTypeOK
<1>6. ListsPartition'
  <2>1. /\ idlepool' \union busypool' = idlepool \union busypool
        /\ idlepool' \intersect busypool' = {}
    BY <1>1, <1>3 DEF PoolInv, ListsPartition
  <2>2. \A v \in idlepool' : wst'[v] \in Unemployed
    BY <1>1 DEF PoolInv, ListsPartition, Unemployed
  <2>3. \A v \in busypool : wst[v] \notin Unemployed
    BY <1>2, <1>3, NoOneAssumption
    DEF PoolInv, PoolTypeOK, ListsPartition, Unemployed
  <2>4. chosen'[c] = w
    BY <1>1 DEF PoolInv, PoolTypeOK
  <2>5. \A v \in Workers :
          wst'[v] = "gone" <=> v \notin idlepool' \union busypool'
    BY <2>1 DEF PoolInv, ListsPartition
  <2>6. \A v \in busypool' :
          wst'[v] \in Unemployed => \E d \in Clients : chosen'[d] = v
    BY <1>1, <2>3, <2>4
  <2> QED
    BY <2>1, <2>2, <2>5, <2>6 DEF ListsPartition, Unemployed
<1>7. ChosenBusy'
  BY <1>1, <1>2, <1>3 DEF PoolInv, PoolTypeOK, ChosenBusy
<1> QED
  BY <1>4, <1>5, <1>6, <1>7 DEF PoolInv

(* cc_worker_start gives the chosen worker its job: a busy worker that is  *)
(* told nothing is never left behind.                                      *)
LEMMA PostingKeeps ==
    ASSUME PoolInv, NEW c \in Clients, chosen[c] # NoOne, WorkerStart(c),
           pmutex' \in {c, NoOne}, UNCHANGED <<lists, iswaiting, need, asleep>>
    PROVE  PoolInv'
<1>1. pmutex = c /\ chosen[c] \in busypool /\ chosen[c] \in Workers
  BY DEF PoolInv, ChosenBusy, PoolTypeOK
<1>2. \A d \in Clients : d # c => chosen[d] = NoOne
  BY <1>1 DEF PoolInv, ChosenBusy
<1>3. /\ wst' = [wst EXCEPT ![chosen[c]] = "posted"]
      /\ chosen' = [chosen EXCEPT ![c] = NoOne]
  BY DEF WorkerStart
<1>4. PoolTypeOK'
  BY <1>1, <1>3 DEF PoolInv, PoolTypeOK, lists
<1>5. ListsPartition'
  <2>1. chosen[c] \notin idlepool
    BY <1>1 DEF PoolInv, ListsPartition
  <2>2. \A w \in busypool : wst[w] \in Unemployed => w = chosen[c]
    BY <1>2, NoOneAssumption DEF PoolInv, PoolTypeOK, ListsPartition, Unemployed
  <2>3. \A w \in busypool : wst'[w] \notin Unemployed
    BY <1>3, <2>2 DEF PoolInv, PoolTypeOK, Unemployed
  <2>4. \A w \in Workers :
          w # chosen[c] => wst'[w] = wst[w] /\ wst'[chosen[c]] = "posted"
    BY <1>1, <1>3 DEF PoolInv, PoolTypeOK
  <2>5. wst'[chosen[c]] = "posted"
    BY <1>1, <1>3 DEF PoolInv, PoolTypeOK
  <2>6. \A w \in Workers : wst'[w] = "gone" <=> w \notin idlepool \union busypool
    BY <1>1, <2>4, <2>5 DEF PoolInv, ListsPartition
  <2>7. \A w \in idlepool : w \in Workers /\ wst'[w] \in Unemployed
    BY <2>1, <2>4 DEF PoolInv, PoolTypeOK, ListsPartition, Unemployed
  <2> QED
    BY <2>3, <2>6, <2>7 DEF PoolInv, ListsPartition, lists, Unemployed
<1>6. ChosenBusy'
  BY <1>2, <1>3 DEF PoolInv, PoolTypeOK, ChosenBusy
<1> QED
  BY <1>4, <1>5, <1>6 DEF PoolInv

(* A client tests whether there are idle workers enough, and goes to       *)
(* sleep, or leaves with the mutex or without it.                          *)
LEMMA WaitTestKeeps ==
    ASSUME PoolInv, NEW c \in Clients, NEW n \in 0..All, need[c] = 0,
           pmutex = NoOne, NEW owner \in {c, NoOne}, WaitTest(c, n, owner),
           UNCHANGED <<lists, wst, chosen>>
    PROVE  PoolInv'
<1>1. \A d \in Clients : chosen[d] = NoOne
  BY NoOneAssumption DEF PoolInv, ChosenBusy
<1>2. need \in [Clients -> 0..All] /\ 0 \in 0..All /\ n \in 0..All
      /\ c \notin asleep /\ (Idle < n => n # 0)
  BY Counts DEF PoolInv, PoolTypeOK, Idle
<1>3. PoolTypeOK'
  <2>1. CASE Idle < n
    BY <1>2, <2>1 DEF PoolInv, PoolTypeOK, WaitTest, lists
  <2>2. CASE ~(Idle < n)
    BY <1>2, <2>2 DEF PoolInv, PoolTypeOK, WaitTest, lists
  <2> QED
    BY <2>1, <2>2
<1>4. ListsPartition' /\ ChosenBusy'
  BY <1>1 DEF PoolInv, ListsPartition, ChosenBusy, lists
<1> QED
  BY <1>3, <1>4 DEF PoolInv

(* A client that waits, woken, tests again.                                *)
LEMMA WaitWokenKeeps ==
    ASSUME PoolInv, NEW c \in Clients, NEW owner \in {c, NoOne},
           WaitWoken(c, owner)
    PROVE  PoolInv'
<1>1. need[c] # 0 /\ pmutex = NoOne /\ UNCHANGED <<lists, wst, chosen>>
  BY DEF WaitWoken
<1>2. \A d \in Clients : chosen[d] = NoOne
  BY <1>1, NoOneAssumption DEF PoolInv, ChosenBusy
<1>3. need \in [Clients -> 0..All] /\ 0 \in 0..All
  BY Counts DEF PoolInv, PoolTypeOK
<1>4. PoolTypeOK'
  <2>1. CASE Idle < need[c]
    <3>1. asleep' = asleep \union {c} /\ UNCHANGED <<iswaiting, need, pmutex>>
      BY <2>1 DEF WaitWoken
    <3> QED
      BY <1>1, <3>1 DEF PoolInv, PoolTypeOK, lists
  <2>2. CASE ~(Idle < need[c])
    <3>1. /\ iswaiting' = FALSE /\ need' = [need EXCEPT ![c] = 0]
          /\ pmutex' = owner /\ asleep' = asleep /\ c \notin asleep
      BY <2>2 DEF WaitWoken
    <3> QED
      BY <1>1, <1>3, <3>1 DEF PoolInv, PoolTypeOK, lists
  <2> QED
    BY <2>1, <2>2
<1>5. ListsPartition' /\ ChosenBusy'
  BY <1>1, <1>2 DEF PoolInv, ListsPartition, ChosenBusy, lists
<1> QED
  BY <1>4, <1>5 DEF PoolInv

(* The idle callback moves a worker that nobody has chosen to the idle     *)
(* list.                                                                   *)
LEMMA IdleCbKeeps ==
    ASSUME PoolInv, NEW w \in Workers, IdleCb(w)
    PROVE  PoolInv'
<1>1. w \in busypool /\ w \notin idlepool
  BY DEF PoolInv, ListsPartition, IdleCb
<1>2. /\ pmutex = NoOne /\ wst' = [wst EXCEPT ![w] = "parking"]
      /\ busypool' = busypool \ {w} /\ idlepool' = idlepool \union {w}
      /\ UNCHANGED <<pmutex, iswaiting, need, chosen>>
  BY <1>1 DEF IdleCb
<1>3. \A c \in Clients : chosen[c] = NoOne
  BY <1>2, NoOneAssumption DEF PoolInv, ChosenBusy
<1>4. asleep' \subseteq asleep
  BY DEF IdleCb, WakeWaiter
<1>5. PoolTypeOK'
  BY <1>2, <1>4 DEF PoolInv, PoolTypeOK
<1>6. ListsPartition'
  <2>1. /\ w \in Workers /\ wst'[w] = "parking"
        /\ \A v \in Workers : v # w => wst'[v] = wst[v]
    BY <1>2 DEF PoolInv, PoolTypeOK
  <2>2. idlepool' \union busypool' = idlepool \union busypool
    BY <1>1, <1>2
  <2>3. \A v \in Workers : wst'[v] = "gone" <=> v \notin idlepool' \union busypool'
    BY <1>1, <2>1, <2>2 DEF PoolInv, ListsPartition
  <2>4. \A v \in busypool' : v \in Workers /\ v # w /\ wst'[v] \notin Unemployed
    BY <1>2, <1>3, <2>1, NoOneAssumption
    DEF PoolInv, PoolTypeOK, ListsPartition, Unemployed
  <2>5. \A v \in idlepool' : v \in Workers /\ wst'[v] \in Unemployed
    BY <1>2, <2>1 DEF PoolInv, PoolTypeOK, ListsPartition, Unemployed
  <2>6. idlepool' \intersect busypool' = {}
    BY <1>1, <1>2 DEF PoolInv, ListsPartition
  <2> QED
    BY <2>3, <2>4, <2>5, <2>6 DEF ListsPartition, Unemployed
<1>7. ChosenBusy'
  BY <1>2, <1>3 DEF ChosenBusy
<1> QED
  BY <1>5, <1>6, <1>7 DEF PoolInv

(* A worker that goes from one thing to another without the pool's mutex,  *)
(* and is neither chosen meanwhile nor counted differently by the lists.   *)
LEMMA WorkingKeeps ==
    ASSUME PoolInv, NEW w \in Workers,
           NEW to \in {"working", "leaving", "waiting"},
           wst[w] # "gone", wst[w] \in Unemployed <=> to \in Unemployed,
           wst' = [wst EXCEPT ![w] = to],
           UNCHANGED <<pmutex, lists, iswaiting, need, asleep, chosen>>
    PROVE  PoolInv'
<1>1. \A v \in Workers : wst[v] \in Unemployed <=> wst'[v] \in Unemployed
  BY DEF PoolInv, PoolTypeOK
<1>2. PoolTypeOK'
  BY DEF PoolInv, PoolTypeOK, lists
<1>3. ListsPartition' /\ ChosenBusy'
  <2>1. UNCHANGED <<pmutex, idlepool, busypool, chosen>>
    BY DEF lists
  <2>2. \A v \in Workers : wst[v] = "gone" <=> wst'[v] = "gone"
    BY DEF PoolInv, PoolTypeOK
  <2>3. /\ idlepool \subseteq Workers /\ busypool \subseteq Workers
        /\ ListsPartition
    BY DEF PoolInv, PoolTypeOK
  <2>4. ListsPartition'
    BY <1>1, <2>1, <2>2, <2>3 DEF ListsPartition, Unemployed
  <2>5. ChosenBusy'
    BY <1>1, <2>1 DEF PoolInv, PoolTypeOK, ChosenBusy
  <2> QED
    BY <2>5, <2>4
<1> QED
  BY <1>2, <1>3 DEF PoolInv

(* A worker that waits for its next job may be chosen as before.           *)
LEMMA ParkKeeps ==
    ASSUME PoolInv, NEW w \in Workers, Park(w)
    PROVE  PoolInv'
  BY WorkingKeeps DEF Park, Unemployed

(* A spurious wakeup changes nothing that the other threads rely on.       *)
LEMMA SpuriousKeeps ==
    ASSUME PoolInv, NEW c \in Clients, WaiterWokenSpuriously(c)
    PROVE  PoolInv'
  BY DEF PoolInv, PoolTypeOK, ListsPartition, ChosenBusy,
         WaiterWokenSpuriously, lists
=============================================================================

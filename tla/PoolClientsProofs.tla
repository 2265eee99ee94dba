------------------------- MODULE PoolClientsProofs --------------------------
(***************************************************************************)
(* The worker pool keeps its promises to its clients: proofs, for any      *)
(* finite set of workers and any clients.                                  *)
(***************************************************************************)
EXTENDS PoolClients, WPoolProofs

(* What begin promised: nothing to a client that is out of its sequence,   *)
(* and as many workers as it waits for to one that waits inside it.        *)
Promised ==
    \A c \in Clients :
        /\ pmutex # c /\ need[c] = 0 => left[c] = 0
        /\ need[c] # 0 => pmutex # c /\ left[c] \in {0, need[c]}

Owed == \A c \in Clients : pmutex = c => Idle >= left[c]

PromiseInv ==
    /\ PoolInv
    /\ left \in [Clients -> 0..All] /\ Promised /\ Owed

(* The lists hold numworkers workers, but while their number is changed:   *)
(* then nobody is in a sequence, only the one that changes it waits, and   *)
(* all workers are idle from the time that wait is over.                   *)
SizeInv ==
    /\ numworkers \in 0..All /\ target \in 0..All /\ dying \in BOOLEAN
    /\ ~Settled =>
         /\ pmutex = NoOne
         /\ \A c \in Clients : left[c] = 0 /\ need[c] \in {0, numworkers}
         /\ \A c, d \in Clients : need[c] # 0 /\ need[d] # 0 => c = d
    /\ Resizing =>
         /\ busypool = {} /\ Idle <= numworkers
         /\ target < numworkers => target < Idle
         /\ target > numworkers => Idle = numworkers
    /\ ~Resizing => Cardinality(idlepool \union busypool) = numworkers

ClientInv == PromiseInv /\ SizeInv

(* The invariant holds before any client has called the pool. *)
LEMMA PromiseInit == Init => PromiseInv
<1> SUFFICES ASSUME Init PROVE PromiseInv
  OBVIOUS
<1>1. PoolInv
  BY PoolInitInv DEF Init
<1>2. left \in [Clients -> 0..All] /\ Promised /\ Owed
  BY Counts, NoOneAssumption
  DEF Init, PoolInit, Promised, Owed, Idle, All
<1> QED
  BY <1>1, <1>2 DEF PromiseInv

(* With the mutex free, no client has chosen a worker. *)
LEMMA FreeMutex ==
    ASSUME PoolInv, pmutex = NoOne
    PROVE  \A c \in Clients : pmutex # c /\ chosen[c] = NoOne
  BY NoOneAssumption DEF PoolInv, ChosenBusy

(* A client gets the mutex, and as many workers as it asks for are idle.   *)
LEMMA Granted ==
    ASSUME PromiseInv, NEW c \in Clients, NEW n \in 1..All,
           Out(c), pmutex = NoOne, Idle >= n, pmutex' = c,
           left' = [left EXCEPT ![c] = n],
           UNCHANGED <<lists, iswaiting, wst, need, asleep, chosen>>
    PROVE  PromiseInv'
<1>1. n \in 0..All /\ \A d \in Clients : pmutex # d /\ chosen[d] = NoOne
  BY FreeMutex, Counts DEF PromiseInv
<1>2. PoolInv'
  BY <1>1, MutexMoves DEF PromiseInv
<1>3. left' \in [Clients -> 0..All] /\ left'[c] = n
      /\ \A d \in Clients : d # c => left'[d] = left[d]
  BY <1>1 DEF PromiseInv
<1>4. Promised'
  BY <1>1, <1>3 DEF PromiseInv, Promised, Out
<1>5. Owed'
  BY <1>1, <1>3 DEF PromiseInv, Owed, Idle, lists
<1> QED
  BY <1>2, <1>3, <1>4, <1>5 DEF PromiseInv

(* cc_wpool_begin: the client that does not find the workers it wants is   *)
(* promised them all the same.                                             *)
LEMMA BeginKeeps ==
    ASSUME PromiseInv, NEW c \in Clients, NEW n \in 1..All, Begin(c, n)
    PROVE  PromiseInv'
<1>1. /\ Out(c) /\ pmutex = NoOne /\ left' = [left EXCEPT ![c] = n]
      /\ UNCHANGED <<lists, wst, chosen>>
  BY DEF Begin
<1>2. n \in 1..All /\ Idle \in Nat /\ All \in Nat
  BY Counts DEF Idle, PromiseInv, PoolInv, PoolTypeOK
<1>3. CASE Idle < n
  <2>1. WaitTest(c, n, c)
    BY <1>3 DEF Begin
  <2>2. PoolInv'
    BY <1>1, <1>2, <2>1, WaitTestKeeps DEF PromiseInv, Out
  <2>3. pmutex' = pmutex /\ need' = [need EXCEPT ![c] = n]
    BY <1>3, <2>1 DEF WaitTest
  <2>4. /\ need \in [Clients -> 0..All]
        /\ left' \in [Clients -> 0..All] /\ left'[c] = n /\ need'[c] = n
        /\ \A d \in Clients : d # c => left'[d] = left[d] /\ need'[d] = need[d]
    BY <1>1, <1>2, <2>3 DEF PromiseInv, PoolInv, PoolTypeOK
  <2>5. \A d \in Clients : pmutex' # d
    BY <1>1, <2>3, NoOneAssumption
  <2> QED
    BY <1>1, <2>1, <2>2, <2>3, <2>4, <2>5 DEF PromiseInv, Promised, Owed
<1>4. CASE ~(Idle < n)
  <2>1. pmutex' = c /\ UNCHANGED <<iswaiting, need, asleep>>
    BY <1>4 DEF Begin
  <2>2. Idle >= n
    BY <1>2, <1>4
  <2>3. UNCHANGED <<lists, iswaiting, wst, need, asleep, chosen>>
    BY <1>1, <2>1
  <2> QED
    BY <1>1, <2>1, <2>2, <2>3, Granted
<1> QED
  BY <1>3, <1>4

(* A step that changes neither who has the mutex, nor what was promised to *)
(* whom, nor takes an idle worker away, keeps the promises.                *)
LEMMA PromisesStand ==
    ASSUME PromiseInv, PoolInv', UNCHANGED <<pmutex, need, left>>, Idle' >= Idle
    PROVE  PromiseInv'
<1>1. Idle \in Nat /\ Idle' \in Nat
  BY Counts DEF Idle, PromiseInv, PoolInv, PoolTypeOK
<1>2. All' = All
  BY DEF All
<1>3. left \in [Clients -> 0..All] /\ Promised /\ Owed
  BY DEF PromiseInv
<1>4. left' \in [Clients -> 0..All'] /\ Promised'
  BY <1>2, <1>3 DEF Promised
<1>5. Owed'
  BY <1>1, <1>3, Counts DEF Owed
<1> QED
  BY <1>4, <1>5 DEF PromiseInv

(* wpool_wait after a wakeup: the promise is kept when the client gets the *)
(* mutex.                                                                  *)
LEMMA ResumeKeeps ==
    ASSUME PromiseInv, NEW c \in Clients, Resume(c)
    PROVE  PromiseInv'
<1> DEFINE owner == IF left[c] = 0 THEN NoOne ELSE c
<1>1. WaitWoken(c, owner) /\ left' = left
  BY DEF Resume
<1>2. PoolInv' /\ owner \in {c, NoOne}
  BY <1>1, WaitWokenKeeps DEF PromiseInv
<1>3. pmutex = NoOne /\ lists' = lists /\ need[c] # 0
      /\ \A d \in Clients : pmutex # d
  BY <1>1, NoOneAssumption DEF WaitWoken
<1>4. Idle' = Idle /\ Idle \in Nat /\ All \in Nat
  BY <1>3, Counts DEF Idle, lists, PromiseInv, PoolInv, PoolTypeOK
<1>5. CASE Idle < need[c]
  <2>1. UNCHANGED <<need, pmutex>>
    BY <1>1, <1>5 DEF WaitWoken
  <2> QED
    BY <1>1, <1>2, <1>4, <2>1, PromisesStand
<1>6. CASE ~(Idle < need[c])
  <2>1. need' = [need EXCEPT ![c] = 0] /\ pmutex' = owner
    BY <1>1, <1>6 DEF WaitWoken
  <2>2. /\ need \in [Clients -> 0..All] /\ left \in [Clients -> 0..All]
        /\ left[c] \in {0, need[c]} /\ Promised
    BY <1>3 DEF PromiseInv, PoolInv, PoolTypeOK, Promised
  <2>3. need'[c] = 0 /\ \A d \in Clients : d # c => need'[d] = need[d]
    BY <2>1, <2>2
  <2>4. Promised'
    BY <1>1, <1>3, <2>1, <2>2, <2>3, NoOneAssumption DEF Promised
  <2>5. Idle >= left[c]
    BY <1>4, <1>6, <2>2
  <2>6. Owed'
    BY <1>1, <1>4, <2>1, <2>5, NoOneAssumption DEF Owed
  <2> QED
    BY <1>1, <1>2, <2>2, <2>4, <2>6 DEF PromiseInv
<1> QED
  BY <1>5, <1>6

(* cc_wpool_start_worker takes one of the workers that were promised.      *)
LEMMA StartKeeps ==
    ASSUME PromiseInv, NEW c \in Clients, StartWorker(c)
    PROVE  PromiseInv'
<1>1. /\ pmutex = c /\ left[c] # 0 /\ chosen[c] = NoOne /\ GetIdleWorker(c)
      /\ left' = [left EXCEPT ![c] = @ - 1]
      /\ UNCHANGED <<pmutex, iswaiting, wst, need, asleep>>
  BY DEF StartWorker
<1>2. PoolInv' /\ Idle' = Idle - 1
  BY <1>1, ChoosingKeeps DEF PromiseInv
<1>3. left \in [Clients -> 0..All] /\ All \in Nat /\ Idle \in Nat
  BY Counts DEF PromiseInv, Idle, PoolInv, PoolTypeOK
<1>4. /\ left' \in [Clients -> 0..All] /\ left'[c] = left[c] - 1
      /\ \A d \in Clients : d # c => left'[d] = left[d]
  BY <1>1, <1>3
<1>5. need[c] = 0
  BY <1>1 DEF PromiseInv, Promised
<1>6. Promised'
  BY <1>1, <1>4, <1>5 DEF PromiseInv, Promised
<1>7. Owed'
  <2>1. Idle >= left[c]
    BY <1>1 DEF PromiseInv, Owed
  <2>2. Idle' >= left'[c]
    BY <1>2, <1>3, <1>4, <2>1
  <2> QED
    BY <1>1, <2>2 DEF Owed
<1> QED
  BY <1>2, <1>4, <1>6, <1>7 DEF PromiseInv

(* cc_wpool_end, also of a client that started fewer workers than it asked *)
(* for.                                                                    *)
LEMMA EndKeeps ==
    ASSUME PromiseInv, NEW c \in Clients, End(c)
    PROVE  PromiseInv'
<1>1. /\ pmutex = c /\ chosen[c] = NoOne /\ pmutex' = NoOne
      /\ left' = [left EXCEPT ![c] = 0]
      /\ UNCHANGED <<lists, iswaiting, wst, need, asleep, chosen>>
  BY DEF End
<1>2. \A d \in Clients : chosen[d] = NoOne
  BY <1>1, FreeUnchosen DEF PromiseInv
<1>3. PoolInv'
  BY <1>1, <1>2, MutexMoves DEF PromiseInv
<1>4. /\ left' \in [Clients -> 0..All] /\ left'[c] = 0 /\ need[c] = 0
      /\ \A d \in Clients : d # c => left'[d] = left[d] /\ pmutex # d
  BY <1>1, Counts DEF PromiseInv, Promised
<1>5. Promised' /\ Owed'
  BY <1>1, <1>4, NoOneAssumption DEF PromiseInv, Promised, Owed
<1> QED
  BY <1>3, <1>4, <1>5 DEF PromiseInv

(* A worker's own steps.                                                   *)
LEMMA WorkerKeeps ==
    ASSUME PromiseInv, NEW w \in Workers, Worker(w)
    PROVE  PromiseInv'
<1>1. Idle \in Nat
  BY Counts DEF Idle, PromiseInv, PoolInv, PoolTypeOK
<1>2. CASE RunJob(w)
  <2>1. /\ wst[w] \in {"posted", "working"}
        /\ UNCHANGED <<pmutex, lists, iswaiting, need, asleep, chosen, left>>
    BY <1>2 DEF RunJob
  <2>2. PICK to \in {"working", "leaving"} : wst' = [wst EXCEPT ![w] = to]
    BY <1>2 DEF RunJob
  <2>3. PoolInv'
    BY <2>1, <2>2, WorkingKeeps DEF PromiseInv, Unemployed
  <2> QED
    BY <1>1, <2>1, <2>3, PromisesStand DEF Idle, lists
<1>3. CASE IdleCb(w) /\ UNCHANGED left
  <2>1. PoolInv'
    BY <1>3, IdleCbKeeps DEF PromiseInv
  <2>2. idlepool \subseteq idlepool' /\ UNCHANGED <<pmutex, need>>
    BY <1>3 DEF IdleCb
  <2>3. Idle' >= Idle
    <3>1. idlepool' \in SUBSET Workers
      BY <2>1 DEF PoolInv, PoolTypeOK
    <3>2. Cardinality(idlepool) <= Cardinality(idlepool')
      BY <2>2, <3>1, Counts
    <3>3. Idle' \in Nat
      BY <3>1, Counts DEF Idle
    <3> QED
      BY <1>1, <3>2, <3>3 DEF Idle
  <2> QED
    BY <1>3, <2>1, <2>2, <2>3, PromisesStand
<1>4. CASE Park(w) /\ UNCHANGED left
  <2>1. PoolInv'
    BY <1>4, ParkKeeps DEF PromiseInv
  <2> QED
    BY <1>1, <1>4, <2>1, PromisesStand DEF Park, Idle, lists
<1> QED
  BY <1>2, <1>3, <1>4 DEF Worker

(* The workers are made or destructed while nobody else has to do with the *)
(* pool.                                                                   *)
LEMMA NobodyElse ==
    ASSUME ClientInv, Resizing
    PROVE  /\ pmutex = NoOne /\ asleep = {} /\ busypool = {}
           /\ \A c \in Clients :
                need[c] = 0 /\ left[c] = 0 /\ chosen[c] = NoOne /\ pmutex # c
<1>1. pmutex = NoOne /\ busypool = {} /\ \A c \in Clients : left[c] = 0
  BY DEF ClientInv, SizeInv, Resizing
<1>2. asleep = {}
  BY DEF ClientInv, PromiseInv, PoolInv, PoolTypeOK, Resizing
<1> QED
  BY <1>1, <1>2, FreeMutex DEF ClientInv, PromiseInv, Resizing

(* They enter the idle list, and leave it, when they are unemployed.       *)
LEMMA ResizeKeeps ==
    ASSUME ClientInv, AddWorkers \/ DestructWorker
    PROVE  PromiseInv'
<1>1. /\ Resizing
      /\ UNCHANGED <<pmutex, busypool, iswaiting, need, asleep, chosen, left>>
  BY DEF AddWorkers, DestructWorker
<1>2. /\ pmutex = NoOne /\ asleep = {} /\ busypool = {}
      /\ \A c \in Clients :
           need[c] = 0 /\ left[c] = 0 /\ chosen[c] = NoOne /\ pmutex # c
  BY <1>1, NobodyElse
<1>3. PoolTypeOK /\ ListsPartition /\ left \in [Clients -> 0..All] /\ Promised
  BY DEF ClientInv, PromiseInv, PoolInv
<1>4. /\ idlepool' \subseteq Workers
      /\ wst' \in [Workers -> {"gone", "new", "waiting", "posted", "working",
                               "leaving", "parking"}]
      /\ \A w \in Workers : wst'[w] = "gone" <=> w \notin idlepool'
      /\ \A w \in idlepool' : wst'[w] \in Unemployed
  <2>1. CASE AddWorkers
    <3>1. PICK S \in SUBSET Workers :
            /\ idlepool' = idlepool \union S
            /\ wst' = [w \in Workers |-> IF w \in S THEN "new" ELSE wst[w]]
      BY <2>1 DEF AddWorkers
    <3> QED
      BY <1>2, <1>3, <3>1 DEF PoolTypeOK, ListsPartition, Unemployed
  <2>2. CASE DestructWorker
    <3>1. PICK w \in idlepool :
            idlepool' = idlepool \ {w} /\ wst' = [wst EXCEPT ![w] = "gone"]
      BY <2>2 DEF DestructWorker
    <3> QED
      BY <1>2, <1>3, <3>1 DEF PoolTypeOK, ListsPartition, Unemployed
  <2> QED
    BY <2>1, <2>2
<1>5. PoolTypeOK' /\ ListsPartition'
  BY <1>1, <1>2, <1>3, <1>4 DEF PoolTypeOK, ListsPartition, Unemployed
<1>6. ChosenBusy'
  BY <1>1, <1>2 DEF ChosenBusy
<1>7. Promised' /\ Owed'
  BY <1>1, <1>2 DEF Promised, Owed
<1> QED
  BY <1>1, <1>3, <1>5, <1>6, <1>7 DEF PromiseInv, PoolInv

-----------------------------------------------------------------------------
(* The number of workers.                                                  *)

(* When as many workers are idle as there are, none is busy.               *)
LEMMA NobodyBusy ==
    ASSUME PoolInv, NEW n \in Nat, Cardinality(idlepool \union busypool) = n,
           Idle >= n
    PROVE  busypool = {} /\ Idle = n
<1>1. /\ idlepool \in SUBSET Workers /\ busypool \in SUBSET Workers
      /\ idlepool \intersect busypool = {}
  BY DEF PoolInv, PoolTypeOK, ListsPartition
<1>2. IsFiniteSet(idlepool \union busypool)
  BY <1>1, Counts
<1>3. /\ Idle \in Nat /\ Idle <= n
      /\ Idle = n => idlepool = idlepool \union busypool
  BY <1>1, <1>2, Counts, FS_Subset DEF Idle
<1> QED
  BY <1>1, <1>3

(* Steps of a sequence, and of workers, move workers between the lists.    *)
LEMMA SizeStands ==
    ASSUME ClientInv, UNCHANGED size,
           Settled \/ UNCHANGED <<pmutex, left, need>>,
           idlepool' \union busypool' = idlepool \union busypool,
           Resizing => UNCHANGED lists
    PROVE  SizeInv'
<1>1. SizeInv
  BY DEF ClientInv
<1>2. CASE Settled
  BY <1>1, <1>2 DEF SizeInv, Settled, Resizing, size
<1>3. CASE ~Settled
  <2>1. ~Settled' /\ (Resizing' <=> Resizing) /\ UNCHANGED <<pmutex, left, need>>
    BY <1>3 DEF Settled, Resizing, size
  <2>2. CASE Resizing
    <3>1. UNCHANGED <<lists, size, Idle>>
      BY <2>2 DEF lists, Idle
    <3> QED
      BY <1>1, <1>3, <2>1, <2>2, <3>1 DEF SizeInv, lists, size
  <2>3. CASE ~Resizing
    BY <1>1, <1>3, <2>1, <2>3 DEF SizeInv, size
  <2> QED
    BY <2>2, <2>3
<1> QED
  BY <1>2, <1>3

(* wpool_wait for all of wait_all: no number changes.                      *)
LEMMA WaitAllSized ==
    ASSUME ClientInv, NEW c \in Clients, WaitAll(c)
    PROVE  SizeInv'
  BY SizeStands DEF WaitAll, WaitForAll, size, Settled, Resizing, lists

(* The same at the beginning of set_num_workers and the destructor.        *)
LEMMA ResizeBeginSized ==
    ASSUME ClientInv, NEW c \in Clients, WaitForAll(c),
           \A d \in Clients : Out(d), target' \in 0..All, dying' \in BOOLEAN
    PROVE  SizeInv'
<1>1. /\ need[c] = 0 /\ pmutex = NoOne /\ Settled
      /\ WaitTest(c, numworkers, NoOne)
      /\ UNCHANGED <<lists, wst, chosen, left, numworkers>>
  BY DEF WaitForAll, Out
<1>2. \A d \in Clients : need[d] = 0 /\ left[d] = 0
  BY DEF Out, ClientInv, PromiseInv, Promised
<1>3. /\ numworkers \in 0..All /\ numworkers \in Nat /\ PoolInv
      /\ Cardinality(idlepool \union busypool) = numworkers /\ Idle \in Nat
  BY <1>1, Counts DEF ClientInv, SizeInv, Resizing, PromiseInv, PoolInv, PoolTypeOK,
                      Idle
<1>4. UNCHANGED <<idlepool, busypool, Idle, left, numworkers>>
  BY <1>1 DEF lists, Idle
<1>5. CASE Idle < numworkers
  <2>1. need' = [need EXCEPT ![c] = numworkers] /\ pmutex' = NoOne
    BY <1>1, <1>5 DEF WaitTest
  <2>2. need'[c] = numworkers /\ \A d \in Clients : d # c => need'[d] = 0
    BY <1>2, <1>3, <2>1 DEF PoolInv, PoolTypeOK
  <2>3. numworkers # 0 /\ ~Resizing'
    BY <1>3, <1>5, <2>2 DEF Resizing
  <2> QED
    BY <1>2, <1>3, <1>4, <2>1, <2>2, <2>3 DEF SizeInv
<1>6. CASE ~(Idle < numworkers)
  <2>1. need' = [need EXCEPT ![c] = 0] /\ pmutex' = NoOne
    BY <1>1, <1>6 DEF WaitTest
  <2>2. \A d \in Clients : need'[d] = 0
    BY <1>2, <2>1
  <2>3. busypool = {} /\ Idle = numworkers
    BY <1>3, <1>6, NobodyBusy
  <2>4. target' \in Nat /\ (target' < numworkers => target' < Idle)
    BY <2>3, Counts
  <2> QED
    BY <1>2, <1>3, <1>4, <2>1, <2>2, <2>3, <2>4 DEF SizeInv
<1> QED
  BY <1>5, <1>6

(* The client wakes up: when its wait is over, all workers are idle.       *)
LEMMA ResumeSized ==
    ASSUME ClientInv, NEW c \in Clients, Resume(c)
    PROVE  SizeInv'
<1> DEFINE owner == IF left[c] = 0 THEN NoOne ELSE c
<1>1. WaitWoken(c, owner) /\ UNCHANGED <<left, size>>
  BY DEF Resume
<1>2. need[c] # 0 /\ pmutex = NoOne /\ UNCHANGED <<lists, idlepool, busypool, Idle>>
  BY <1>1 DEF WaitWoken, lists, Idle
<1>3. ~Resizing
  BY <1>2 DEF Resizing
<1>4. CASE Settled
  BY <1>1, <1>2, <1>4, SizeStands
<1>5. CASE ~Settled /\ Idle < need[c]
  <2>1. UNCHANGED <<need, pmutex>>
    BY <1>1, <1>5 DEF WaitWoken
  <2> QED
    BY <1>1, <1>2, <2>1, SizeStands
<1>6. CASE ~Settled /\ ~(Idle < need[c])
  <2>1. need[c] = numworkers /\ left[c] = 0 /\ numworkers \in 0..All
        /\ numworkers \in Nat /\ target \in 0..All /\ target \in Nat
        /\ dying \in BOOLEAN /\ PoolInv /\ Idle \in Nat
        /\ Cardinality(idlepool \union busypool) = numworkers
    BY <1>2, <1>3, <1>6, Counts
    DEF ClientInv, PromiseInv, SizeInv, PoolInv, PoolTypeOK, Idle
  <2>2. need' = [need EXCEPT ![c] = 0] /\ pmutex' = NoOne
    BY <1>1, <1>6, <2>1 DEF WaitWoken
  <2>3. \A d \in Clients : d # c => need[d] = 0
    BY <1>2, <1>6 DEF ClientInv, SizeInv
  <2>4. \A d \in Clients : need'[d] = 0
    BY <2>2, <2>3, <2>1 DEF PoolInv, PoolTypeOK
  <2>5. busypool = {} /\ Idle = numworkers
    BY <1>6, <2>1, NobodyBusy
  <2>6. \A d \in Clients : left[d] = 0
    BY <1>6 DEF ClientInv, SizeInv
  <2>7. ~Settled' /\ Resizing' /\ UNCHANGED <<numworkers, target, dying>>
    BY <1>1, <1>6, <2>4 DEF Settled, Resizing, size
  <2> QED
    BY <1>1, <1>2, <2>1, <2>2, <2>4, <2>5, <2>6, <2>7 DEF SizeInv
<1> QED
  BY <1>4, <1>5, <1>6

(* New workers make up the number; numworkers says so in the end.          *)
LEMMA AddSized ==
    ASSUME ClientInv, AddWorkers
    PROVE  SizeInv'
<1>1. PICK S \in SUBSET {w \in Workers : wst[w] = "gone"} :
        /\ Cardinality(S) = target - numworkers
        /\ idlepool' = idlepool \union S
  BY DEF AddWorkers
<1>2. /\ Resizing /\ target > numworkers /\ numworkers' = target
      /\ UNCHANGED <<pmutex, busypool, need, left, target, dying>>
  BY DEF AddWorkers
<1>3. /\ pmutex = NoOne /\ busypool = {}
      /\ \A c \in Clients : need[c] = 0 /\ left[c] = 0
  BY <1>2, NobodyElse
<1>4. /\ numworkers \in Nat /\ target \in 0..All /\ target \in Nat
      /\ dying \in BOOLEAN /\ Idle = numworkers
  BY <1>2, Counts DEF ClientInv, SizeInv
<1>5. S \intersect idlepool = {} /\ S \subseteq Workers /\ idlepool \subseteq Workers
  BY DEF ClientInv, PromiseInv, PoolInv, PoolTypeOK, ListsPartition
<1>6. Cardinality(idlepool \union S) = Cardinality(idlepool) + Cardinality(S)
  <2>1. IsFiniteSet(S) /\ IsFiniteSet(idlepool) /\ idlepool \intersect S = {}
    BY <1>5, Counts
  <2>2. Cardinality(idlepool) \in Nat /\ Cardinality(S) \in Nat
    BY <2>1, FS_CardinalityType
  <2> QED
    BY <2>1, <2>2, FS_Union, FS_EmptySet
<1>7. Idle' = target /\ Cardinality(idlepool' \union busypool') = target
  BY <1>1, <1>2, <1>3, <1>4, <1>6 DEF Idle
<1> QED
  BY <1>2, <1>3, <1>4, <1>7 DEF SizeInv

(* The workers are destructed until so many are left.                      *)
LEMMA DestructSized ==
    ASSUME ClientInv, DestructWorker
    PROVE  SizeInv'
<1>1. PICK w \in idlepool : idlepool' = idlepool \ {w}
  BY DEF DestructWorker
<1>2. /\ Resizing /\ target < numworkers
      /\ numworkers' = IF Idle - 1 = target THEN target ELSE numworkers
      /\ UNCHANGED <<pmutex, busypool, need, left, target, dying>>
  BY DEF DestructWorker
<1>3. /\ pmutex = NoOne /\ busypool = {}
      /\ \A c \in Clients : need[c] = 0 /\ left[c] = 0
  BY <1>2, NobodyElse
<1>4. /\ numworkers \in 0..All /\ numworkers \in Nat /\ target \in 0..All
      /\ target \in Nat /\ dying \in BOOLEAN
      /\ Idle \in Nat /\ Idle <= numworkers /\ target < Idle
  BY <1>2, Counts DEF ClientInv, SizeInv, PromiseInv, PoolInv, PoolTypeOK, Idle
<1>5. Idle' = Idle - 1 /\ Cardinality(idlepool' \union busypool') = Idle'
  <2>1. idlepool \in SUBSET Workers
    BY DEF ClientInv, PromiseInv, PoolInv, PoolTypeOK
  <2> QED
    BY <1>1, <1>2, <1>3, <2>1, Counts, FS_RemoveElement DEF Idle
<1>6. CASE Idle - 1 = target
  BY <1>2, <1>3, <1>4, <1>5, <1>6 DEF SizeInv
<1>7. CASE Idle - 1 # target
  <2>1. numworkers' = numworkers /\ Resizing' /\ ~Settled'
    BY <1>2, <1>3, <1>7 DEF Resizing, Settled
  <2>2. target < Idle' /\ Idle' <= numworkers
    BY <1>4, <1>5, <1>7
  <2> QED
    BY <1>2, <1>3, <1>4, <2>1, <2>2 DEF SizeInv
<1> QED
  BY <1>6, <1>7

(* What a client does in a sequence of its own leaves the number alone.    *)
LEMMA SequenceSized ==
    ASSUME ClientInv, NEW c \in Clients,
           \/ \E n \in 1..All : TryBegin(c, n) \/ Begin(c, n)
           \/ StartWorker(c) \/ PostJob(c) \/ End(c)
           \/ WaiterWokenSpuriously(c) /\ UNCHANGED <<left, size, shared>>
    PROVE  SizeInv'
<1>1. UNCHANGED size
  BY DEF TryBegin, Begin, StartWorker, PostJob, End
<1>2. idlepool' \union busypool' = idlepool \union busypool
  BY DEF TryBegin, Begin, StartWorker, GetIdleWorker, PostJob, End,
         WaiterWokenSpuriously, lists
<1>3. Settled \/ UNCHANGED <<pmutex, left, need, lists>>
  <2>1. ASSUME pmutex = c PROVE Settled
    BY <2>1, NoOneAssumption DEF ClientInv, SizeInv
  <2>2. CASE StartWorker(c) \/ PostJob(c) \/ End(c)
    <3>1. pmutex = c
      BY <2>2 DEF StartWorker, PostJob, End, ClientInv, PromiseInv, PoolInv, ChosenBusy
    <3> QED
      BY <2>1, <3>1
  <2>3. CASE \E n \in 1..All : TryBegin(c, n) \/ Begin(c, n)
    BY <2>3 DEF TryBegin, Begin
  <2>4. CASE WaiterWokenSpuriously(c) /\ UNCHANGED <<left, size, shared>>
    BY <2>4 DEF WaiterWokenSpuriously
  <2> QED
    BY <2>2, <2>3, <2>4
<1>4. Resizing => ~Settled
  BY DEF Resizing
<1> QED
  BY <1>1, <1>2, <1>3, <1>4, SizeStands

(* Nor do the workers change it; while it is changed all are idle.         *)
LEMMA WorkerSized ==
    ASSUME ClientInv, NEW w \in Workers, Worker(w)
    PROVE  SizeInv'
<1>1. UNCHANGED <<size, pmutex, left, need>>
  BY DEF Worker, RunJob, IdleCb, Park
<1>2. CASE RunJob(w) \/ Park(w)
  <2>1. UNCHANGED <<lists, idlepool, busypool>>
    BY <1>2 DEF RunJob, Park, lists
  <2> QED
    BY <1>1, <2>1, SizeStands
<1>3. CASE IdleCb(w)
  <2>1. w \in busypool
    BY <1>3 DEF IdleCb, ClientInv, PromiseInv, PoolInv, ListsPartition
  <2>2. idlepool' \union busypool' = idlepool \union busypool
    BY <1>3, <2>1 DEF IdleCb
  <2>3. ~Resizing
    BY <2>1, NobodyElse
  <2> QED
    BY <1>1, <2>2, <2>3, SizeStands
<1> QED
  BY <1>2, <1>3 DEF Worker

-----------------------------------------------------------------------------
(* The invariant holds before any client has called the pool. *)
LEMMA ClientInit == Init => ClientInv
<1> SUFFICES ASSUME Init PROVE ClientInv
  OBVIOUS
<1>1. PromiseInv
  BY PromiseInit
<1>2. SizeInv
  <2>1. Settled /\ ~Resizing /\ All \in 0..All /\ idlepool \union busypool = Workers
    BY Counts DEF Init, PoolInit, Settled, Resizing
  <2> QED
    BY <2>1 DEF Init, SizeInv, All
<1> QED
  BY <1>1, <1>2 DEF ClientInv

(* Every step keeps the invariant.                                         *)
LEMMA ClientStep == ClientInv /\ [Next]_vars => ClientInv'
<1> SUFFICES ASSUME ClientInv, [Next]_vars PROVE ClientInv'
  OBVIOUS
<1>1. PromiseInv /\ Idle \in Nat
  BY Counts DEF Idle, ClientInv, PromiseInv, PoolInv, PoolTypeOK
<1>2. ASSUME NEW c \in Clients, NEW n \in 1..All, TryBegin(c, n)
      PROVE  PromiseInv'
  BY <1>1, <1>2, Granted DEF TryBegin
<1>3. ASSUME NEW c \in Clients, WaitForAll(c) PROVE PromiseInv'
  <2>1. /\ need[c] = 0 /\ pmutex = NoOne
        /\ WaitTest(c, numworkers, NoOne) /\ UNCHANGED <<lists, wst, chosen, left>>
    BY <1>3 DEF WaitForAll, Out
  <2>2. numworkers \in 0..All
    BY DEF ClientInv, SizeInv
  <2>3. PoolInv'
    BY <1>1, <2>1, <2>2, WaitTestKeeps DEF PromiseInv
  <2>4. pmutex' = NoOne /\ \A d \in Clients : d # NoOne
    BY <2>1, NoOneAssumption DEF WaitTest
  <2>5. left[c] = 0 /\ \A d \in Clients : d # c => need'[d] = need[d]
    BY <1>1, <2>1, <2>4 DEF WaitTest, PromiseInv, PoolInv, PoolTypeOK, Promised
  <2> QED
    BY <1>1, <2>1, <2>3, <2>4, <2>5 DEF PromiseInv, Promised, Owed
<1>4. ASSUME NEW c \in Clients, PostJob(c) PROVE PromiseInv'
  <2>1. /\ chosen[c] # NoOne /\ WorkerStart(c)
        /\ UNCHANGED <<pmutex, lists, iswaiting, need, asleep, left>>
    BY <1>4 DEF PostJob
  <2>2. PoolInv'
    BY <1>1, <2>1, PostingKeeps DEF PromiseInv, PoolInv, ChosenBusy
  <2> QED
    BY <1>1, <2>1, <2>2, PromisesStand DEF Idle, lists
<1>5. ASSUME NEW c \in Clients, WaiterWokenSpuriously(c), UNCHANGED left
      PROVE  PromiseInv'
  <2>1. PoolInv'
    BY <1>1, <1>5, SpuriousKeeps DEF PromiseInv
  <2> QED
    BY <1>1, <1>5, <2>1, PromisesStand DEF WaiterWokenSpuriously, Idle, lists
<1>6. CASE UNCHANGED vars
  <2>1. PoolInv'
    BY <1>1, <1>6 DEF vars, poolVars, PromiseInv, PoolInv, PoolTypeOK, ListsPartition,
                ChosenBusy, lists, Idle
  <2>2. PromiseInv'
    BY <1>1, <1>6, <2>1, PromisesStand DEF vars, poolVars, Idle
  <2>3. SizeInv'
    BY <1>6, SizeStands DEF vars, poolVars, lists
  <2> QED
    BY <2>2, <2>3 DEF ClientInv
<1>7. ASSUME NEW c \in Clients, Client(c) PROVE ClientInv'
  <2>1. CASE \/ \E n \in 1..All : TryBegin(c, n) \/ Begin(c, n)
             \/ StartWorker(c) \/ PostJob(c) \/ End(c)
             \/ WaiterWokenSpuriously(c) /\ UNCHANGED <<left, size, shared>>
    <3>1. PromiseInv'
      BY <1>1, <1>2, <1>4, <1>5, <2>1, BeginKeeps, StartKeeps, EndKeeps
    <3> QED
      BY <2>1, <3>1, SequenceSized DEF ClientInv
  <2>2. CASE (\E n \in 0..All : SetNumWorkers(c, n)) \/ Destruct(c)
    <3>1. WaitForAll(c) /\ \A d \in Clients : Out(d)
      BY <2>2 DEF SetNumWorkers, Destruct
    <3>2. target \in 0..All /\ dying \in BOOLEAN /\ 0 \in 0..All
      BY Counts DEF ClientInv, SizeInv
    <3>3. target' \in 0..All
      BY <2>2, <3>2 DEF SetNumWorkers, Destruct
    <3>4. dying' = dying \/ dying' = TRUE
      BY <2>2 DEF SetNumWorkers, Destruct
    <3>5. dying' \in BOOLEAN
      BY <3>2, <3>4
    <3> QED
      BY <1>3, <3>1, <3>3, <3>5, ResizeBeginSized DEF ClientInv
  <2>3. CASE Resume(c)
    BY <1>1, <2>3, ResumeKeeps, ResumeSized DEF ClientInv
  <2>4. CASE WaitAll(c)
    BY <1>3, <2>4, WaitAllSized DEF WaitAll, ClientInv
  <2> QED
    BY <1>7, <2>1, <2>2, <2>3, <2>4 DEF Client
<1>8. CASE AddWorkers \/ DestructWorker
  BY <1>8, ResizeKeeps, AddSized, DestructSized DEF ClientInv
<1>9. ASSUME NEW w \in Workers, Worker(w) PROVE ClientInv'
  BY <1>1, <1>9, WorkerKeeps, WorkerSized DEF ClientInv
<1> QED
  BY <1>6, <1>7, <1>8, <1>9 DEF Next, Destructed

(* So it holds for ever.                                                   *)
LEMMA ClientInvariant == Spec => []ClientInv
  BY ClientInit, ClientStep, PTL DEF Spec

-----------------------------------------------------------------------------
(* Waiting alone.                                                          *)

(* A client that has met no other one since it began to wait waits alone,  *)
(* and as long as it does the idle callbacks know of it.                   *)
WaitsAlone ==
    \A c \in Clients : need[c] # 0 =>
        iswaiting /\ \A d \in Clients : need[d] # 0 => d = c

LoneInv ==
    /\ shared \in BOOLEAN
    /\ ~shared => WaitsAlone /\ WaiterWillBeWoken

(* Nobody sleeps who does not wait.                                        *)
LEMMA Sleepers ==
    ASSUME PoolInv
    PROVE  /\ asleep \subseteq {c \in Clients : need[c] # 0}
           /\ need \in [Clients -> 0..All] /\ Idle \in Nat /\ All \in Nat
  BY Counts DEF PoolInv, PoolTypeOK, Idle

(* Who waits, who sleeps and what the flag says is as before, and no more  *)
(* workers are idle.                                                       *)
LEMMA WaitingStands ==
    ASSUME LoneInv, PoolInv, UNCHANGED <<iswaiting, need, shared>>,
           asleep' \subseteq asleep, Idle' \in Nat, asleep' = {} \/ Idle' <= Idle
    PROVE  LoneInv'
<1>1. WaitsAlone => WaitsAlone'
  BY DEF WaitsAlone
<1>2. WaiterWillBeWoken => WaiterWillBeWoken'
  BY Sleepers DEF WaiterWillBeWoken
<1> QED
  BY <1>1, <1>2 DEF LoneInv

(* wpool_wait is entered: whoever finds nobody else there waits alone.     *)
LEMMA EnteringAlone ==
    ASSUME PoolInv, NEW c \in Clients, NEW n \in 0..All, NEW owner,
           need[c] = 0, WaitTest(c, n, owner), EntersWait(c), UNCHANGED lists
    PROVE  LoneInv'
<1>1. Idle' = Idle /\ n \in Nat
  BY Counts DEF lists, Idle
<1>2. shared' \in BOOLEAN
  BY DEF EntersWait
<1>3. ASSUME ~shared' PROVE WaitsAlone' /\ WaiterWillBeWoken'
  <2>1. \A d \in Clients : need[d] = 0
    BY <1>3 DEF EntersWait
  <2>2. asleep = {} /\ need \in [Clients -> 0..All]
    BY <2>1, Sleepers
  <2>3. CASE Idle < n
    <3>1. /\ iswaiting' = TRUE /\ asleep' = {c}
          /\ need' = [need EXCEPT ![c] = n]
      BY <2>2, <2>3 DEF WaitTest
    <3>2. need'[c] = n /\ \A d \in Clients : d # c => need'[d] = 0
      BY <2>1, <2>2, <3>1
    <3> QED
      BY <1>1, <2>3, <3>1, <3>2 DEF WaitsAlone, WaiterWillBeWoken
  <2>4. CASE ~(Idle < n)
    <3>1. need' = [need EXCEPT ![c] = 0] /\ asleep' = {}
      BY <2>2, <2>4 DEF WaitTest
    <3>2. \A d \in Clients : need'[d] = 0
      BY <2>1, <2>2, <3>1
    <3> QED
      BY <3>1, <3>2 DEF WaitsAlone, WaiterWillBeWoken
  <2> QED
    BY <2>3, <2>4
<1> QED
  BY <1>2, <1>3 DEF LoneInv

(* It is woken, and waits on or leaves the wait to nobody.                 *)
LEMMA ResumingAlone ==
    ASSUME LoneInv, PoolInv, PoolInv', NEW c \in Clients, Resume(c)
    PROVE  LoneInv'
<1>1. /\ need[c] # 0 /\ c \notin asleep /\ LeavesWait
      /\ UNCHANGED <<lists, idlepool, Idle>>
  BY DEF Resume, WaitWoken, lists, Idle
<1>2. shared' \in BOOLEAN
  BY <1>1 DEF LeavesWait
<1>3. ASSUME ~shared' PROVE WaitsAlone' /\ WaiterWillBeWoken'
  <2>1. CASE \A d \in Clients : need'[d] = 0
    <3>1. asleep' = {}
      BY <2>1 DEF PoolInv, PoolTypeOK
    <3> QED
      BY <2>1, <3>1 DEF WaitsAlone, WaiterWillBeWoken
  <2>2. CASE ~\A d \in Clients : need'[d] = 0
    <3>1. ~shared
      BY <1>1, <1>3, <2>2 DEF LeavesWait
    <3>2. iswaiting /\ \A d \in Clients : d # c => need[d] = 0
      BY <1>1, <3>1 DEF LoneInv, WaitsAlone
    <3>3. need \in [Clients -> 0..All] /\ asleep = {}
      BY <1>1, <3>2, Sleepers
    <3>4. Idle < need[c]
      <4>1. ASSUME ~(Idle < need[c]) PROVE \A d \in Clients : need'[d] = 0
        BY <3>2, <3>3, <4>1 DEF Resume, WaitWoken
      <4> QED
        BY <2>2, <4>1
    <3>5. asleep' = {c} /\ UNCHANGED <<iswaiting, need>>
      BY <3>3, <3>4 DEF Resume, WaitWoken
    <3> QED
      BY <1>1, <3>2, <3>4, <3>5 DEF WaitsAlone, WaiterWillBeWoken
  <2> QED
    BY <2>1, <2>2
<1> QED
  BY <1>2, <1>3 DEF LoneInv

(* The idle callback has only one to signal.                               *)
LEMMA CallbackWakes ==
    ASSUME LoneInv, PoolInv, PoolInv', NEW w \in Workers, IdleCb(w),
           UNCHANGED shared
    PROVE  LoneInv'
<1>1. UNCHANGED <<iswaiting, need, shared>>
  BY DEF IdleCb
<1>2. ASSUME ~shared PROVE asleep' = {}
  <2>1. \A c, d \in asleep : c = d /\ iswaiting
    BY <1>2, Sleepers DEF LoneInv, WaitsAlone
  <2> QED
    BY <2>1 DEF IdleCb, WakeWaiter
<1> QED
  BY <1>1, <1>2 DEF LoneInv, WaitsAlone, WaiterWillBeWoken

(* Every step keeps that invariant.                                        *)
LEMMA LoneStep == ClientInv /\ ClientInv' /\ LoneInv /\ [Next]_vars => LoneInv'
<1> SUFFICES ASSUME ClientInv, ClientInv', LoneInv, [Next]_vars PROVE LoneInv'
  OBVIOUS
<1>1. PoolInv /\ PoolInv' /\ Idle \in Nat /\ Idle' \in Nat
      /\ numworkers \in 0..All
  <2>1. PoolInv /\ PoolInv' /\ numworkers \in 0..All
    BY DEF ClientInv, PromiseInv, SizeInv
  <2>2. idlepool' \in SUBSET Workers
    BY <2>1 DEF PoolInv, PoolTypeOK
  <2> QED
    BY <2>1, <2>2, Counts, Sleepers DEF Idle
<1>2. ASSUME UNCHANGED <<lists, iswaiting, need, shared>>, asleep' \subseteq asleep
      PROVE  LoneInv'
  BY <1>1, <1>2, WaitingStands DEF lists, Idle
<1>3. ASSUME NEW w \in Workers, Worker(w) PROVE LoneInv'
  <2>1. CASE RunJob(w)
    BY <1>2, <2>1 DEF RunJob
  <2>2. CASE Park(w) /\ UNCHANGED <<left, size, shared>>
    BY <1>2, <2>2 DEF Park
  <2>3. CASE IdleCb(w) /\ UNCHANGED <<left, size, shared>>
    BY <1>1, <2>3, CallbackWakes
  <2> QED
    BY <1>3, <2>1, <2>2, <2>3 DEF Worker
<1>4. ASSUME NEW c \in Clients, Client(c) PROVE LoneInv'
  <2>1. ASSUME NEW n \in 1..All, TryBegin(c, n) PROVE LoneInv'
    BY <1>2, <2>1 DEF TryBegin
  <2>2. ASSUME NEW n \in 1..All, Begin(c, n) PROVE LoneInv'
    <3>1. CASE Idle < n
      BY <1>1, <2>2, <3>1, EnteringAlone DEF Begin, Out
    <3>2. CASE ~(Idle < n)
      BY <1>2, <2>2, <3>2 DEF Begin
    <3> QED
      BY <3>1, <3>2
  <2>3. CASE \/ \E n \in 0..All : SetNumWorkers(c, n)
             \/ WaitAll(c) \/ Destruct(c)
    <3>1. WaitForAll(c)
      BY <2>3 DEF SetNumWorkers, WaitAll, Destruct
    <3> QED
      BY <1>1, <3>1, EnteringAlone DEF WaitForAll, Out
  <2>4. CASE Resume(c)
    BY <1>1, <2>4, ResumingAlone
  <2>5. CASE StartWorker(c)
    <3>1. /\ chosen[c] = NoOne /\ pmutex = c /\ GetIdleWorker(c)
          /\ UNCHANGED <<pmutex, iswaiting, wst, need, asleep, shared>>
      BY <2>5 DEF StartWorker
    <3>2. Idle' = Idle - 1
      BY <1>1, <3>1, ChoosingKeeps
    <3> QED
      BY <1>1, <3>1, <3>2, WaitingStands
  <2>6. CASE PostJob(c)
    BY <1>2, <2>6 DEF PostJob
  <2>7. CASE End(c)
    BY <1>2, <2>7 DEF End
  <2>8. CASE WaiterWokenSpuriously(c) /\ UNCHANGED <<left, size, shared>>
    BY <1>2, <2>8 DEF WaiterWokenSpuriously
  <2> QED
    BY <1>4, <2>1, <2>2, <2>3, <2>4, <2>5, <2>6, <2>7, <2>8 DEF Client
<1>5. CASE AddWorkers \/ DestructWorker
  <2>1. Resizing /\ UNCHANGED <<iswaiting, need, asleep, shared>>
    BY <1>5 DEF AddWorkers, DestructWorker
  <2> QED
    BY <1>1, <2>1, NobodyElse, WaitingStands
<1>6. CASE UNCHANGED vars
  BY <1>2, <1>6 DEF vars, poolVars, lists
<1> QED
  BY <1>3, <1>4, <1>5, <1>6 DEF Next, Destructed

(* So a client that waits alone is known to the idle callbacks for ever.   *)
LEMMA LoneInvariant == Spec => []LoneInv
<1>1. Init => LoneInv
  BY DEF Init, PoolInit, LoneInv, WaitsAlone, WaiterWillBeWoken
<1>2. ClientInv /\ LoneInv /\ [Next]_vars => LoneInv'
  BY ClientStep, LoneStep
<1> QED
  BY <1>1, <1>2, ClientInvariant, PTL DEF Spec

(* The variables of the pool have their types, for any number of workers.  *)
THEOREM PoolTypeCorrect == Spec => []TypeOK
<1>1. ClientInv /\ LoneInv => TypeOK
  BY DEF ClientInv, PromiseInv, SizeInv, PoolInv, LoneInv, TypeOK
<1> QED
  BY <1>1, ClientInvariant, LoneInvariant, PTL

(* Every worker of the pool is in exactly one list, a working one in the   *)
(* busy list.                                                              *)
THEOREM PoolListsPartition == Spec => []ListsPartition
<1>1. ClientInv => ListsPartition
  BY DEF ClientInv, PromiseInv, PoolInv
<1> QED
  BY <1>1, ClientInvariant, PTL

(* wpool_get_idle_worker always finds a worker for a client that starts no *)
(* more than it asked for, whatever the others and the workers do; and     *)
(* when workers are made or destructed without the mutex, all are idle.    *)
THEOREM PoolPromiseKept == Spec => []PromiseKept
<1>1. ClientInv => PromiseKept
  BY NobodyElse DEF ClientInv, PromiseInv, Owed, PromiseKept
<1> QED
  BY <1>1, ClientInvariant, PTL

(* However many clients wait in the pool: one that sleeps and has been     *)
(* alone in that since it began lacks workers, and the idle callbacks know *)
(* of it.  It is false without "alone" (wpool.cpp:118).                    *)
THEOREM PoolWakesWaiter == Spec => []LoneWaiterWoken
<1>1. LoneInv => LoneWaiterWoken
  BY DEF LoneInv, LoneWaiterWoken
<1> QED
  BY <1>1, LoneInvariant, PTL
=============================================================================

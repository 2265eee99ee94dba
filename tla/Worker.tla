------------------------------- MODULE Worker -------------------------------
(***************************************************************************)
(* The worker thread of src/src/threads/worker.cpp and the client that     *)
(* starts it, waits for it and destroys it.  Unlike the mutexes the worker *)
(* keeps its mutex while it works, and starting its thread is a handshake  *)
(* over two mutexes and a condition variable, so both mutexes have owners  *)
(* and every acquisition that can block is an action of its own.           *)
(*                                                                         *)
(* Jobs are numbered in the order in which they are started.               *)
(***************************************************************************)
EXTENDS Naturals

CONSTANTS
    MaxJobs       \* bound on the jobs started

ASSUME MaxJobsAssumption == MaxJobs \in Nat

VARIABLES
    mutex, beginmutex,             \* "free", "client" or "worker"
    threadisrunning, shutdown,     \* fields of cc_worker
    workfunc,                      \* the job in workfunc, 0 for NULL
    cpc, wpc,                      \* where client and worker thread are
    started, ran,                  \* jobs started, times each was run
    idle                           \* the idle callback came since last start

workerVars == <<mutex, beginmutex, threadisrunning, shutdown, workfunc, cpc, wpc,
          started, ran, idle>>
fields == <<threadisrunning, shutdown, workfunc>>
history == <<started, ran, idle>>

(* cc_worker_construct: the thread is created by the first start. *)
WorkerInit ==
    /\ mutex = "free" /\ beginmutex = "free"
    /\ threadisrunning = FALSE /\ shutdown = FALSE /\ workfunc = 0
    /\ cpc = "idle" /\ wpc = "none"
    /\ started = 0 /\ ran = [j \in 1..MaxJobs |-> 0] /\ idle = TRUE

(***************************************************************************)
(* cc_worker_start.  The pool starts and stops only a worker whose idle    *)
(* callback has come.                                                      *)
(***************************************************************************)
Start ==
    /\ cpc = "idle" /\ mutex = "free" /\ started < MaxJobs
    /\ idle
    /\ mutex' = "client"
    /\ workfunc' = started + 1
    /\ started' = started + 1
    /\ idle' = FALSE
    /\ cpc' = IF threadisrunning THEN "signal" ELSE "startThread"
    /\ UNCHANGED <<beginmutex, threadisrunning, shutdown, wpc, ran>>

(* worker_start_thread gives up the worker's mutex before the thread is    *)
(* created, so that the new thread can take it.                            *)
StartThread ==
    /\ cpc = "startThread" /\ beginmutex = "free"
    /\ beginmutex' = "client" /\ mutex' = "free"
    /\ wpc' = "created"
    /\ cpc' = "waitBegin"
    /\ UNCHANGED <<fields, history>>

WaitBegin ==
    /\ cpc = "waitBegin"
    /\ beginmutex' = "free"
    /\ cpc' = "begincond"
    /\ UNCHANGED <<mutex, fields, wpc, history>>

BeginWoken ==
    /\ cpc = "begincondWoken" /\ beginmutex = "free"
    /\ beginmutex' = "client"
    /\ cpc' = "relock"
    /\ UNCHANGED <<mutex, fields, wpc, history>>

(* Taking the mutex again waits for the new thread to wait on cond. *)
Relock ==
    /\ cpc = "relock" /\ mutex = "free"
    /\ mutex' = "client" /\ beginmutex' = "free"
    /\ threadisrunning' = TRUE
    /\ cpc' = "signal"
    /\ UNCHANGED <<shutdown, workfunc, wpc, history>>

WakeCond == wpc' = IF wpc = "cond" THEN "condWoken" ELSE wpc

Signal ==
    /\ cpc = "signal"
    /\ WakeCond
    /\ mutex' = "free"
    /\ cpc' = "idle"
    /\ UNCHANGED <<beginmutex, fields, history>>

(***************************************************************************)
(* worker_stop_thread: cc_worker_wait and cc_worker_destruct.              *)
(***************************************************************************)
Stop ==
    /\ cpc = "idle" /\ threadisrunning /\ mutex = "free"
    /\ idle
    /\ threadisrunning' = FALSE
    /\ shutdown' = TRUE
    /\ WakeCond
    /\ cpc' = "join"
    /\ UNCHANGED <<mutex, beginmutex, workfunc, history>>

JoinKeepsShutdown ==                        \* mutant: signal not reset
    /\ cpc = "join" /\ wpc = "exited"
    /\ wpc' = "none"
    /\ cpc' = "idle"
    /\ UNCHANGED <<mutex, beginmutex, fields, history>>
Join ==
    /\ cpc = "join" /\ wpc = "exited"
    /\ wpc' = "none"
    /\ shutdown' = FALSE
    /\ cpc' = "idle"
    /\ UNCHANGED <<mutex, beginmutex, threadisrunning, workfunc, history>>

(***************************************************************************)
(* worker_thread_loop.                                                     *)
(***************************************************************************)
EnterLoop ==
    /\ wpc = "created" /\ mutex = "free"
    /\ mutex' = "worker"
    /\ wpc' = "handshake"
    /\ UNCHANGED <<beginmutex, fields, cpc, history>>

(* The two ways on from the top of the loop, with the mutex held. *)
ExitLoop ==
    /\ workfunc' = 0
    /\ mutex' = "free"
    /\ wpc' = "exited"

LoopTop ==
    IF shutdown THEN ExitLoop
    ELSE /\ mutex' = "free" /\ wpc' = "cond"
         /\ UNCHANGED workfunc

Handshake ==
    /\ wpc = "handshake" /\ beginmutex = "free"
    /\ cpc' = IF cpc = "begincond" THEN "begincondWoken" ELSE cpc
    /\ LoopTop
    /\ UNCHANGED <<beginmutex, threadisrunning, shutdown, history>>

(* The wait has no predicate: whoever returns from it and sees no shutdown *)
(* runs what is in workfunc.                                               *)
WakeUp ==
    /\ wpc = "condWoken" /\ mutex = "free"
    /\ IF shutdown
       THEN ExitLoop /\ UNCHANGED ran
       ELSE /\ mutex' = "worker"
            /\ wpc' = "running"
            /\ ran' = [ran EXCEPT ![workfunc] = @ + 1]
            /\ UNCHANGED workfunc
    /\ UNCHANGED <<beginmutex, threadisrunning, shutdown, cpc, started, idle>>

FinishUnlocks ==                            \* mutant: idle before the wait
    /\ wpc = "running"
    /\ idle' = TRUE
    /\ mutex' = "free" /\ wpc' = "idling"
    /\ UNCHANGED <<beginmutex, fields, cpc, started, ran>>
Finish ==
    /\ wpc = "running"
    /\ idle' = TRUE
    /\ wpc' = "idling"
    /\ UNCHANGED <<mutex, beginmutex, fields, cpc, started, ran>>

LoopAgain ==
    /\ wpc = "idling"
    /\ LoopTop
    /\ UNCHANGED <<beginmutex, threadisrunning, shutdown, cpc, history>>

ClientStep == StartThread \/ WaitBegin \/ BeginWoken \/ Relock \/ Signal \/ Join
WorkerStep == EnterLoop \/ Handshake \/ WakeUp \/ Finish \/ LoopAgain

WorkerNext == Start \/ Stop \/ ClientStep \/ WorkerStep

(* Jobs return, threads run and get a mutex that is free; the client need  *)
(* not start or stop anything, but finishes what it began.                 *)
WorkerSpec == WorkerInit /\ [][WorkerNext]_workerVars /\ WF_workerVars(ClientStep) /\ WF_workerVars(WorkerStep)

----------------------------------------------------------------------------
(* The type invariant of the mutexes, the fields and both program counters,*)
(* with who owns the mutex where.                                          *)
WorkerTypeOK ==
    /\ {mutex, beginmutex} \subseteq {"free", "client", "worker"}
    /\ threadisrunning \in BOOLEAN /\ shutdown \in BOOLEAN /\ idle \in BOOLEAN
    /\ workfunc \in 0..MaxJobs /\ started \in 0..MaxJobs
    /\ ran \in [1..MaxJobs -> Nat]
    /\ cpc \in {"idle", "startThread", "waitBegin", "begincond",
                "begincondWoken", "relock", "signal", "join"}
    /\ wpc \in {"none", "created", "handshake", "cond", "condWoken",
                "running", "idling", "exited"}
    /\ mutex = "client" <=> cpc \in {"startThread", "signal"}
    /\ mutex = "worker" <=> wpc \in {"handshake", "running", "idling"}

(* "We now know that thread is waiting for a signal": the signal of start  *)
(* always finds the worker asleep on cond, so that it is never lost,       *)
(* although the thread may have been created a moment before.              *)
SignalFindsSleeper ==
    /\ WorkerTypeOK
    /\ cpc = "signal" => wpc = "cond"

(* Every job runs once, and the next one is posted only when it has: under *)
(* the pool's protocol, through thread creations, stops and restarts, the  *)
(* worker is the one-job slot that WPool takes it for.                     *)
Slot == INSTANCE WorkerSlot
        WITH phase <- IF idle THEN "idle"
                      ELSE IF wpc = "running" THEN "running" ELSE "posted",
             posted <- started
ImplementsSlot == Slot!Spec
=============================================================================

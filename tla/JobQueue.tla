------------------------------ MODULE JobQueue ------------------------------
(***************************************************************************)
(* What the scheduler promises about the jobs it is given, whatever the    *)
(* threads that run them: a job is run once or cancelled, never both, at   *)
(* most Width jobs run at a time, and the next one to run has, if they are *)
(* run in order, the highest priority of those that wait.                  *)
(***************************************************************************)
EXTENDS Naturals, FiniteSets

CONSTANTS
    Jobs, Prios, Width,
    InOrder      \* whether priorities count

VARIABLES
    state,       \* "new", "queued", "running", "done" or "cancelled"
    prio         \* of a queued job, 0 otherwise

In(s) == {j \in Jobs : state[j] = s}
Move(j, from, to) == state[j] = from /\ state' = [state EXCEPT ![j] = to]

MayRun(j) ==
    state[j] = "queued" /\ (InOrder => \A k \in In("queued") : prio[k] <= prio[j])

Init ==
    /\ state = [j \in Jobs |-> "new"]
    /\ prio = [j \in Jobs |-> 0]

Schedule(j, p) == Move(j, "new", "queued") /\ prio' = [prio EXCEPT ![j] = p]

ChangePriority(j, p) ==
    /\ state[j] = "queued" /\ UNCHANGED state
    /\ prio' = [prio EXCEPT ![j] = p]

Run(j) ==
    /\ Cardinality(In("running")) < Width
    /\ MayRun(j) /\ Move(j, "queued", "running")
    /\ prio' = [prio EXCEPT ![j] = 0]

(* A worker finishes one job and takes up the next in one step. *)
RunNext(j, k) ==
    /\ state[j] = "running" /\ MayRun(k)
    /\ state' = [state EXCEPT ![j] = "done", ![k] = "running"]
    /\ prio' = [prio EXCEPT ![k] = 0]

Finish(j) == Move(j, "running", "done") /\ UNCHANGED prio

Cancel(j) ==
    /\ Move(j, "queued", "cancelled")
    /\ prio' = [prio EXCEPT ![j] = 0]

Next ==
    \E j \in Jobs :
        \/ \E p \in Prios : Schedule(j, p) \/ ChangePriority(j, p)
        \/ Run(j) \/ Finish(j) \/ Cancel(j)
        \/ \E k \in Jobs : RunNext(j, k)

Spec == Init /\ [][Next]_<<state, prio>>
=============================================================================

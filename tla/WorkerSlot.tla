---------------------------- MODULE WorkerSlot -----------------------------
(***************************************************************************)
(* What a worker promises the pool that owns it: a slot for one job.  A    *)
(* job is posted only to an idle worker, runs once, and the worker is idle *)
(* again when it has run.  Worker implements it under the pool's protocol, *)
(* and WPool stands on it.                                                 *)
(***************************************************************************)
EXTENDS Naturals

VARIABLES phase, posted

Init == phase = "idle" /\ posted = 0

Post == phase = "idle"    /\ phase' = "posted"  /\ posted' = posted + 1
Run  == phase = "posted"  /\ phase' = "running" /\ UNCHANGED posted
Done == phase = "running" /\ phase' = "idle"    /\ UNCHANGED posted

Next == Post \/ Run \/ Done

vars == <<phase, posted>>
Spec == Init /\ [][Next]_vars /\ WF_vars(Run) /\ WF_vars(Done)
=============================================================================

------------------------------ MODULE MCSched -------------------------------
(* TLC instances of Sched. *)
EXTENDS Sched
=============================================================================

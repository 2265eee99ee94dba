----------------------------- MODULE ThreadSet -----------------------------
(* The threads that share a mutex. *)
EXTENDS FiniteSets

CONSTANT Threads

ASSUME ThreadsAssumption == IsFiniteSet(Threads)
=============================================================================

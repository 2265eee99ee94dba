---------------------------- MODULE MCRecMutex -----------------------------
(* TLC instances of RecMutex. *)
EXTENDS RecMutex
=============================================================================

----------------------------- MODULE MCRWMutex -----------------------------
(* TLC instances of RWMutex. *)
EXTENDS RWMutex
=============================================================================

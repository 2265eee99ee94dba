------------------------------ MODULE MCWPool -------------------------------
(* TLC instance of PoolClients. *)
EXTENDS PoolClients
=============================================================================

------------------------------ MODULE MCWorker ------------------------------
(* TLC instances of Worker. *)
EXTENDS Worker
=============================================================================
